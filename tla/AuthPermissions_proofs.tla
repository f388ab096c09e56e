------------------------- MODULE AuthPermissions_proofs -------------------------
(***************************************************************************)
(* Proofs about AuthPermissions and the sessions it is composed with.      *)
(*                                                                         *)
(* The invariant says what every handler knows about its login (FrameOK,   *)
(* LateOK), that a revoked login has lost its row for good because its one *)
(* creator is done (GoneOK), that nobody refreshes a login before its      *)
(* client was answered (FreshOK), and where the tokens of a client are at  *)
(* every step of a refresh (KeepOK).                                       *)
(***************************************************************************)
EXTENDS AuthPermissions, TLAPS

Creating == {"purge", "create"}
Created  == {"loginRoles", "loginCache"}
Past     == {"permGet", "permFetch", "permSet", "valid"}
WithNew  == LoginStep \cup {"findAgain", "save", "answer"}
WithPair == RefreshStep \cup {"introspect", "touch"}

FrameOK ==
  \A h \in Handler :
    /\ handler[h].pc \in LoginStep \cup WithPair => handler[h].login \in Login
    /\ handler[h].pc \in ValidateStep \cup RefreshStep => handler[h].pair \in Pair
    /\ handler[h].pc \in WithNew => /\ handler[h].new \in Pair
                                    /\ issued[handler[h].new] = handler[h].login
    /\ handler[h].pc \in WithPair => issued[handler[h].pair] = handler[h].login

LateOK ==
  \A h \in Handler :
    /\ handler[h].pc \in ValidateStep /\ handler[h].late => issued[handler[h].pair] \in revoked
    /\ handler[h].pc \in Past => ~handler[h].late

OwnOK ==
  /\ SessionIsOwn
  /\ \A p \in given : issued[p] # None
  /\ \A l \in Login : held[l] # None => issued[held[l]] = l

Known(l) == \E p \in Pair : issued[p] = l

GoneOK ==
  /\ \A l \in revoked \cup revoker.seen : Known(l)
  /\ \A l \in revoked : row[l] = None
  /\ \A h \in Handler : handler[h].pc \in Creating =>
       /\ handler[h].login \notin revoked \cup revoker.seen
       /\ row[handler[h].login] = None
  /\ \A g, h \in Handler :
       /\ handler[g].pc \in LoginStep /\ handler[h].pc \in LoginStep
       /\ handler[g].login = handler[h].login
       => g = h

FreshOK ==
  \A g \in Handler : handler[g].pc \in LoginStep =>
    /\ held[handler[g].login] = None
    /\ handler[g].new \notin given
    /\ \A h \in Handler : handler[h].pc \in RefreshStep => handler[h].login # handler[g].login
    /\ handler[g].pc \in Created => row[handler[g].login] \in {None, handler[g].new}

KeepOK ==
  \A l \in Login \ excused :
    /\ \A h \in Handler : handler[h].login = l =>
         /\ handler[h].pc \in Created \cup {"answer"} => row[l] = handler[h].new
         /\ handler[h].pc \in {"kcRefresh", "findAgain", "save"} => row[l] = handler[h].pair
    /\ \A g, h \in Handler :
         /\ handler[g].pc \in RefreshStep /\ handler[h].pc \in RefreshStep
         /\ handler[g].login = l /\ handler[h].login = l
         => g = h
    /\ held[l] # None /\ (\A h \in Handler : ~(handler[h].pc = "answer" /\ handler[h].login = l))
         => row[l] = held[l]

SessionInv == SessionTypeOK /\ FrameOK /\ LateOK /\ OwnOK /\ GoneOK /\ FreshOK /\ KeepOK

-------------------------------------------------------------------------------
(* What the steps of AuthPermissions do to the variables of AuthSessions.   *)
PermissionMove(h) ==
  /\ \/ handler[h].pc = "loginRoles" /\ Goto(h, "loginCache")
     \/ handler[h].pc = "permGet" /\ Goto(h, "valid")
     \/ handler[h].pc = "permGet" /\ Goto(h, "permFetch")
     \/ handler[h].pc = "permFetch" /\ Goto(h, "permSet")
     \/ handler[h].pc = "permSet" /\ Goto(h, "valid")
     \/ handler[h].pc = "valid" /\ Return(h)
  /\ UNCHANGED <<issued, row, black, revoker, historyVars>>

LoginDone(h) ==
  /\ handler[h].pc = "loginCache"
  /\ Answer(h)
  /\ UNCHANGED <<issued, row, black, revoker, revoked, excused>>

(* Steps that move one handler and nothing the invariant relates it to.     *)
QuietStep ==
  \/ \E h \in Handler : BlacklistCheck(h) \/ Introspect(h) \/ PermissionMove(h)
  \/ RevokeBlacklist \/ RevokeFails
  \/ \E p \in Pair : RevokeToken(p)
  \/ \E expired \in SUBSET black : CleanupExpiredRevocations(expired)
  \/ UNCHANGED sessionVars

SessionAction == \E h \in Handler :
  \/ \E l \in Login, p \in Pair : LoginKc(h, l, p)
  \/ LoginPurge(h) \/ LoginCreate(h) \/ LoginDone(h)
  \/ \E p \in Pair : ValidateStart(h, p)
  \/ SessionFind(h) \/ Touch(h)
  \/ \E l \in Login : RefreshFind(h, l)
  \/ \E p \in Pair : RefreshKc(h, p)
  \/ RefreshFindAgain(h) \/ RefreshSave(h) \/ RefreshAnswer(h)
  \/ HandlerFails(h)

RevokeAction ==
  \/ RevokeRead \/ RevokeDelete
  \/ \E l \in Login : RevokeSession(l)
  \/ \E expired \in SUBSET HasRow : CleanupExpiredSessions(expired)

LEMMA NextSplit == [Next]_vars => QuietStep \/ SessionAction \/ RevokeAction
<1> SUFFICES ASSUME [Next]_vars
             PROVE  QuietStep \/ SessionAction \/ RevokeAction
  OBVIOUS
<1>1. CASE SessionStep
  BY <1>1 DEF SessionStep, HandlerStep, QuietStep, SessionAction, RevokeAction
<1>2. ASSUME NEW h \in Handler, Permissions(h)
      PROVE  QuietStep \/ SessionAction
  BY <1>2 DEF Permissions, LoginRoles, LoginCache, FetchRoles, GetCachedPermissions, WarmFetch,
              WarmSet, ValidateAnswer, PermissionMove, LoginDone, QuietStep, SessionAction
<1>3. ASSUME NEW h \in Handler, Fails(h)
      PROVE  SessionAction
  BY <1>3 DEF Fails, SessionAction
<1>4. CASE AssignKc \/ AssignInvalidate \/ AssignFails \/ RevokeRole \/ CleanupExpiredCache
           \/ UNCHANGED vars
  BY <1>4 DEF AssignKc, AssignInvalidate, AssignFails, RevokeRole, CleanupExpiredCache, vars,
              QuietStep
<1> QED
  BY <1>1, <1>2, <1>3, <1>4 DEF Next

LEMMA SessionInitInv == SessionInit => SessionInv
<1> SUFFICES ASSUME SessionInit PROVE SessionInv
  OBVIOUS
<1> USE SessionAssumption DEF SessionInit, LoginStep, ValidateStep, RefreshStep
<1>1. SessionTypeOK
  BY DEF SessionTypeOK, Frame, Idle, Revoker, NoRevoker
<1>2. FrameOK /\ LateOK /\ FreshOK
  BY DEF FrameOK, LateOK, FreshOK, Idle, WithNew, WithPair, Past
<1>3. OwnOK /\ GoneOK /\ KeepOK
  BY DEF OwnOK, SessionIsOwn, GoneOK, KeepOK, Idle, Creating, Created, NoRevoker
<1> QED
  BY <1>1, <1>2, <1>3 DEF SessionInv

-------------------------------------------------------------------------------
(* What entering a frame, going on to a step and returning leave in handler. *)
Steps == {"idle"} \cup LoginStep \cup ValidateStep \cup RefreshStep

LEMMA EnterMoves ==
  ASSUME NEW h \in Handler, NEW f \in Frame, handler \in [Handler -> Frame], Enter(h, f)
  PROVE  /\ handler' \in [Handler -> Frame]
         /\ handler'[h] = f
         /\ \A g \in Handler \ {h} : handler'[g] = handler[g]
BY DEF Enter

LEMMA GotoMoves ==
  ASSUME NEW h \in Handler, NEW step \in Steps, handler \in [Handler -> Frame], Goto(h, step)
  PROVE  /\ handler' \in [Handler -> Frame]
         /\ handler'[h].pc = step
         /\ handler'[h].login = handler[h].login
         /\ handler'[h].pair = handler[h].pair
         /\ handler'[h].new = handler[h].new
         /\ handler'[h].late = handler[h].late
         /\ \A g \in Handler \ {h} : handler'[g] = handler[g]
BY DEF Goto, Frame, Steps

LEMMA ReturnMoves ==
  ASSUME NEW h \in Handler, handler \in [Handler -> Frame], Return(h)
  PROVE  /\ handler' \in [Handler -> Frame]
         /\ handler'[h] = Idle
         /\ \A g \in Handler \ {h} : handler'[g] = handler[g]
BY DEF Return, Frame, Idle

-------------------------------------------------------------------------------
(* The quiet steps. *)
LEMMA PermissionMoveInv ==
  ASSUME SessionInv, NEW h \in Handler, PermissionMove(h)
  PROVE  SessionInv'
<1> USE DEF SessionInv, LoginStep, ValidateStep, RefreshStep
<1>0. handler \in [Handler -> Frame]
  BY DEF SessionTypeOK
<1>1. UNCHANGED <<issued, row, black, revoker, given, held, revoked, excused>>
  BY DEF PermissionMove, historyVars
<1>2. /\ handler' \in [Handler -> Frame]
      /\ \A g \in Handler \ {h} : handler'[g] = handler[g]
      /\ \/ handler[h].pc = "valid" /\ handler'[h] = Idle
         \/ /\ \/ handler[h].pc = "loginRoles" /\ handler'[h].pc = "loginCache"
               \/ handler[h].pc = "permGet" /\ handler'[h].pc \in {"valid", "permFetch"}
               \/ handler[h].pc = "permFetch" /\ handler'[h].pc = "permSet"
               \/ handler[h].pc = "permSet" /\ handler'[h].pc = "valid"
            /\ handler'[h].login = handler[h].login
            /\ handler'[h].pair = handler[h].pair
            /\ handler'[h].new = handler[h].new
            /\ handler'[h].late = handler[h].late
  BY <1>0, GotoMoves, ReturnMoves DEF PermissionMove, Steps
<1>3. SessionTypeOK'
  BY <1>1, <1>2 DEF SessionTypeOK
<1>4. FrameOK'
  BY <1>1, <1>2 DEF FrameOK, WithNew, WithPair, Idle
<1>5. LateOK'
  BY <1>1, <1>2 DEF LateOK, Past, Idle
<1>6. OwnOK'
  BY <1>1 DEF OwnOK, SessionIsOwn
<1>7. GoneOK'
  BY <1>1, <1>2 DEF GoneOK, Creating, Known, Idle
<1>8. FreshOK'
  BY <1>1, <1>2 DEF FreshOK, Created, Idle
<1>9. KeepOK'
  BY <1>1, <1>2 DEF KeepOK, Created, Idle
<1> QED
  BY <1>3, <1>4, <1>5, <1>6, <1>7, <1>8, <1>9

LEMMA BlacklistCheckInv ==
  ASSUME SessionInv, NEW h \in Handler, BlacklistCheck(h)
  PROVE  SessionInv'
<1> USE DEF SessionInv, LoginStep, ValidateStep, RefreshStep
<1>0. handler \in [Handler -> Frame]
  BY DEF SessionTypeOK
<1>1. /\ UNCHANGED <<issued, row, revoker, given, held, revoked, excused>>
      /\ black' \in SUBSET black
      /\ handler[h].pc = "blacklist"
  BY DEF BlacklistCheck, historyVars
<1>2. /\ handler' \in [Handler -> Frame]
      /\ \A g \in Handler \ {h} : handler'[g] = handler[g]
      /\ \/ handler'[h] = Idle
         \/ /\ handler'[h].pc = "find"
            /\ handler'[h].login = handler[h].login
            /\ handler'[h].pair = handler[h].pair
            /\ handler'[h].new = handler[h].new
            /\ handler'[h].late = handler[h].late
  BY <1>0, GotoMoves, ReturnMoves DEF BlacklistCheck, Steps
<1>3. SessionTypeOK'
  BY <1>1, <1>2 DEF SessionTypeOK
<1>4. FrameOK'
  BY <1>1, <1>2 DEF FrameOK, WithNew, WithPair, Idle
<1>5. LateOK'
  BY <1>1, <1>2 DEF LateOK, Past, Idle
<1>6. OwnOK' /\ GoneOK' /\ FreshOK' /\ KeepOK'
  BY <1>1, <1>2 DEF OwnOK, SessionIsOwn, GoneOK, Creating, Created, Known, FreshOK, KeepOK, Idle
<1> QED
  BY <1>3, <1>4, <1>5, <1>6

LEMMA IntrospectInv ==
  ASSUME SessionInv, NEW h \in Handler, Introspect(h)
  PROVE  SessionInv'
<1> USE DEF SessionInv, LoginStep, ValidateStep, RefreshStep
<1>0. handler \in [Handler -> Frame]
  BY DEF SessionTypeOK
<1>1. /\ UNCHANGED <<issued, row, black, revoker, given, held, revoked, excused>>
      /\ handler[h].pc = "introspect"
  BY DEF Introspect, historyVars
<1>2. /\ handler' \in [Handler -> Frame]
      /\ \A g \in Handler \ {h} : handler'[g] = handler[g]
      /\ \/ handler'[h] = Idle
         \/ /\ handler'[h].pc = "touch"
            /\ handler'[h].login = handler[h].login
            /\ handler'[h].pair = handler[h].pair
            /\ handler'[h].new = handler[h].new
            /\ handler'[h].late = handler[h].late
  BY <1>0, GotoMoves, ReturnMoves DEF Introspect, Steps
<1>3. SessionTypeOK'
  BY <1>1, <1>2 DEF SessionTypeOK
<1>4. FrameOK'
  BY <1>1, <1>2 DEF FrameOK, WithNew, WithPair, Idle
<1>5. LateOK'
  BY <1>1, <1>2 DEF LateOK, Past, Idle
<1>6. OwnOK' /\ GoneOK' /\ FreshOK' /\ KeepOK'
  BY <1>1, <1>2 DEF OwnOK, SessionIsOwn, GoneOK, Creating, Created, Known, FreshOK, KeepOK, Idle
<1> QED
  BY <1>3, <1>4, <1>5, <1>6

LEMMA QuietInv ==
  ASSUME SessionInv, QuietStep
  PROVE  SessionInv'
<1>1. ASSUME NEW h \in Handler, BlacklistCheck(h) \/ Introspect(h) \/ PermissionMove(h)
      PROVE  SessionInv'
  BY <1>1, BlacklistCheckInv, IntrospectInv, PermissionMoveInv
<1>2. ASSUME /\ UNCHANGED <<issued, row, handler, given, held, revoked, excused>>
             /\ black' \in SUBSET Pair
             /\ revoker' \in Revoker
             /\ revoker'.seen \subseteq revoker.seen
      PROVE  SessionInv'
  <2> USE <1>2 DEF SessionInv
  <2>1. SessionTypeOK'
    BY DEF SessionTypeOK
  <2>2. FrameOK' /\ LateOK' /\ OwnOK'
    BY DEF FrameOK, LateOK, OwnOK, SessionIsOwn
  <2>3. GoneOK'
    BY DEF GoneOK, Known
  <2>4. FreshOK' /\ KeepOK'
    BY DEF FreshOK, KeepOK
  <2> QED
    BY <2>1, <2>2, <2>3, <2>4
<1>3. CASE RevokeBlacklist
  <2>1. /\ black' = black \cup revoker.pairs
        /\ revoker' = [pc |-> "delete", seen |-> revoker.seen, pairs |-> revoker.pairs]
    BY <1>3 DEF RevokeBlacklist, SessionInv, SessionTypeOK, Revoker
  <2> QED
    BY <1>2, <1>3, <2>1 DEF RevokeBlacklist, SessionInv, SessionTypeOK, Revoker, historyVars
<1>4. CASE RevokeFails
  BY <1>2, <1>4 DEF RevokeFails, SessionInv, SessionTypeOK, Revoker, NoRevoker, historyVars
<1>5. ASSUME NEW expired \in SUBSET black, CleanupExpiredRevocations(expired)
      PROVE  SessionInv'
  BY <1>2, <1>5 DEF CleanupExpiredRevocations, SessionInv, SessionTypeOK, historyVars
<1>6. ASSUME NEW p \in Pair, RevokeToken(p)
      PROVE  SessionInv'
  BY <1>2, <1>6 DEF RevokeToken, SessionInv, SessionTypeOK, historyVars
<1>7. CASE UNCHANGED sessionVars
  BY <1>2, <1>7 DEF sessionVars, SessionInv, SessionTypeOK
<1> QED
  BY <1>1, <1>3, <1>4, <1>5, <1>6, <1>7 DEF QuietStep

-------------------------------------------------------------------------------
(* The steps that take rows away. *)
LEMMA RevokeInv ==
  ASSUME SessionInv, RevokeAction
  PROVE  SessionInv'
<1> USE SessionAssumption DEF SessionInv
<1>1. CASE RevokeRead
  <2>1. UNCHANGED <<issued, row, black, handler, given, held, revoked, excused>>
    BY <1>1 DEF RevokeRead, historyVars
  <2>2. /\ revoker' \in Revoker
        /\ revoker'.seen = HasRow
    BY <1>1 DEF RevokeRead, HasRow, Revoker, SessionTypeOK
  <2>3. SessionTypeOK'
    BY <2>1, <2>2 DEF SessionTypeOK
  <2>4. FrameOK' /\ LateOK' /\ OwnOK' /\ FreshOK' /\ KeepOK'
    BY <2>1 DEF FrameOK, LateOK, OwnOK, SessionIsOwn, FreshOK, KeepOK
  <2>5. \A l \in HasRow : Known(l)
    BY DEF HasRow, Known, OwnOK, SessionIsOwn, SessionTypeOK
  <2>6. GoneOK'
    BY <2>1, <2>2, <2>5 DEF GoneOK, Known, HasRow
  <2> QED
    BY <2>3, <2>4, <2>6
<1>2. ASSUME NEW gone \in SUBSET Login,
             /\ UNCHANGED <<issued, black, handler, given, held>>
             /\ revoker' \in Revoker
             /\ revoker'.seen \subseteq revoker.seen
             /\ row' = [l \in Login |-> IF l \in gone THEN None ELSE row[l]]
             /\ revoked \subseteq revoked'
             /\ revoked' \subseteq revoked \cup revoker.seen \cup HasRow
             /\ revoked' \subseteq Login
             /\ revoked' \ revoked \subseteq gone
             /\ excused' \subseteq Login
             /\ excused \cup (gone \cap HasRow) \subseteq excused'
      PROVE  SessionInv'
  <2>1. SessionTypeOK'
    BY <1>2 DEF SessionTypeOK
  <2>2. FrameOK' /\ LateOK'
    BY <1>2 DEF FrameOK, LateOK
  <2>3. OwnOK'
    BY <1>2 DEF OwnOK, SessionIsOwn
  <2>4. GoneOK'
    <3>1. \A l \in HasRow : Known(l)
      BY DEF HasRow, Known, OwnOK, SessionIsOwn, SessionTypeOK
    <3>2. \A l \in revoked' \cup revoker'.seen : Known(l)'
      BY <1>2, <3>1 DEF GoneOK, Known
    <3>3. \A l \in revoked' : row'[l] = None
      BY <1>2 DEF GoneOK
    <3>4. \A h \in Handler : handler[h].pc \in Creating =>
            /\ handler[h].login \notin revoked' \cup revoker'.seen
            /\ row'[handler[h].login] = None
      BY <1>2 DEF GoneOK, HasRow, FrameOK, Creating, LoginStep
    <3> QED
      BY <1>2, <3>2, <3>3, <3>4 DEF GoneOK
  <2>5. FreshOK'
    BY <1>2 DEF FreshOK, FrameOK, LoginStep
  <2>6. KeepOK'
    <3>1. \A l \in Login \ excused' : l \notin excused /\ row'[l] = row[l]
      BY <1>2 DEF HasRow
    <3> QED
      BY <1>2, <3>1 DEF KeepOK
  <2> QED
    BY <2>1, <2>2, <2>3, <2>4, <2>5, <2>6
<1>3. CASE RevokeDelete
  <2>1. row' = [l \in Login |-> IF l \in Login THEN None ELSE row[l]]
    BY <1>3 DEF RevokeDelete
  <2>2. revoker' \in Revoker /\ revoker'.seen = {} /\ revoker.seen \subseteq Login
    BY <1>3 DEF RevokeDelete, Revoker, NoRevoker, SessionTypeOK
  <2> QED
    BY <1>2, <1>3, <2>1, <2>2 DEF RevokeDelete, HasRow, SessionTypeOK
<1>4. ASSUME NEW l \in Login, RevokeSession(l)
      PROVE  SessionInv'
  <2>1. row' = [k \in Login |-> IF k \in {l} THEN None ELSE row[k]]
    BY <1>4 DEF RevokeSession, SessionTypeOK
  <2>2. /\ UNCHANGED <<issued, black, handler, given, held, revoker>>
        /\ l \in HasRow
        /\ revoked' = revoked \cup {l}
        /\ excused' = excused \cup {l}
    BY <1>4 DEF RevokeSession, HasRow
  <2>3. /\ revoker' \in Revoker
        /\ revoked' \subseteq Login
        /\ excused' \subseteq Login
    BY <2>2 DEF SessionTypeOK
  <2> QED
    BY <1>2, <2>1, <2>2, <2>3
<1>5. ASSUME NEW expired \in SUBSET HasRow, CleanupExpiredSessions(expired)
      PROVE  SessionInv'
  BY <1>2, <1>5 DEF CleanupExpiredSessions, HasRow, SessionTypeOK
<1> QED
  BY <1>1, <1>3, <1>4, <1>5 DEF RevokeAction

-------------------------------------------------------------------------------
(* authenticate *)
LEMMA LoginKcInv ==
  ASSUME SessionInv, NEW h \in Handler, NEW l \in Login, NEW p \in Pair, LoginKc(h, l, p)
  PROVE  SessionInv'
<1> USE SessionAssumption DEF SessionInv, LoginStep, ValidateStep, RefreshStep
<1>0. handler \in [Handler -> Frame]
  BY DEF SessionTypeOK
<1>1. /\ UNCHANGED <<row, black, revoker, given, held, revoked, excused>>
      /\ handler[h].pc = "idle"
      /\ issued[p] = None
      /\ issued' = [issued EXCEPT ![p] = l]
      /\ ~Known(l)
  BY DEF LoginKc, Issue, Known, historyVars
<1>2. /\ handler' \in [Handler -> Frame]
      /\ \A g \in Handler \ {h} : handler'[g] = handler[g]
      /\ handler'[h] = [pc |-> "purge", login |-> l, pair |-> None, new |-> p, late |-> FALSE]
  BY <1>0, EnterMoves DEF LoginKc, Frame
<1>3. /\ issued'[p] = l
      /\ \A q \in Pair \ {p} : issued'[q] = issued[q]
      /\ issued' \in [Pair -> Login \cup {None}]
  BY <1>1 DEF SessionTypeOK
<1>4. /\ row[l] = None
      /\ held[l] = None
      /\ p \notin given
      /\ \A k \in Login : row[k] # p /\ held[k] # p
      /\ l \notin revoked \cup revoker.seen
  BY <1>1 DEF OwnOK, SessionIsOwn, GoneOK, Known, SessionTypeOK
<1>5. \A g \in Handler : handler[g].pc \in LoginStep \cup RefreshStep => handler[g].login # l
  BY <1>1 DEF FrameOK, WithNew, WithPair, Known
<1>6. /\ \A k \in Login : Known(k) => Known(k)'
      /\ Known(l)'
  BY <1>1, <1>3, SessionAssumption DEF Known
<1>7. revoked \subseteq Login /\ revoker.seen \subseteq Login
  BY DEF SessionTypeOK, Revoker
<1>10. SessionTypeOK'
  BY <1>1, <1>2, <1>3, <1>4, <1>5 DEF SessionTypeOK
<1>11. FrameOK'
  BY <1>1, <1>2, <1>3, <1>4, <1>5 DEF FrameOK, WithNew, WithPair, Idle
<1>12. LateOK'
  BY <1>1, <1>2, <1>3, <1>4, <1>5, <1>7 DEF LateOK, Past, FrameOK
<1>13. OwnOK'
  BY <1>1, <1>2, <1>3, <1>4, <1>5 DEF OwnOK, SessionIsOwn, SessionTypeOK
<1>14. GoneOK'
  BY <1>1, <1>2, <1>3, <1>4, <1>5, <1>6, <1>7 DEF GoneOK, Creating
<1>15. FreshOK'
  BY <1>1, <1>2, <1>3, <1>4, <1>5 DEF FreshOK, Created, Idle
<1>16. KeepOK'
  BY <1>1, <1>2, <1>3, <1>4, <1>5 DEF KeepOK, Created, Idle
<1> QED
  BY <1>10, <1>11, <1>12, <1>13, <1>14, <1>15, <1>16

LEMMA LoginPurgeInv ==
  ASSUME SessionInv, NEW h \in Handler, LoginPurge(h)
  PROVE  SessionInv'
<1> USE SessionAssumption DEF SessionInv, LoginStep, ValidateStep, RefreshStep
<1>0. handler \in [Handler -> Frame]
  BY DEF SessionTypeOK
<1>1. /\ UNCHANGED <<issued, black, revoker, given, held, revoked, excused>>
      /\ handler[h].pc = "purge"
  BY DEF LoginPurge, historyVars
<1>2. /\ handler' \in [Handler -> Frame]
      /\ \A g \in Handler \ {h} : handler'[g] = handler[g]
      /\ handler'[h].pc = "create"
      /\ handler'[h].login = handler[h].login
      /\ handler'[h].pair = handler[h].pair
      /\ handler'[h].new = handler[h].new
      /\ handler'[h].late = handler[h].late
  BY <1>0, GotoMoves DEF LoginPurge, Steps
<1>3. row' = row
  <2>1. \A l \in Login : row[l] # handler[h].new
    BY <1>1 DEF OwnOK, SessionIsOwn, GoneOK, Creating, FrameOK, WithNew
  <2> QED
    BY <2>1 DEF LoginPurge, SessionTypeOK
<1>10. SessionTypeOK'
  BY <1>1, <1>2, <1>3 DEF SessionTypeOK
<1>11. FrameOK'
  BY <1>1, <1>2, <1>3 DEF FrameOK, WithNew, WithPair, Idle
<1>12. LateOK'
  BY <1>1, <1>2, <1>3 DEF LateOK, Past, Idle
<1>13. OwnOK'
  BY <1>1, <1>2, <1>3 DEF OwnOK, SessionIsOwn
<1>14. GoneOK'
  BY <1>1, <1>2, <1>3 DEF GoneOK, Creating, Known, Idle
<1>15. FreshOK'
  BY <1>1, <1>2, <1>3 DEF FreshOK, Created, Idle
<1>16. KeepOK'
  BY <1>1, <1>2, <1>3 DEF KeepOK, Created, Idle
<1> QED
  BY <1>10, <1>11, <1>12, <1>13, <1>14, <1>15, <1>16

LEMMA LoginCreateInv ==
  ASSUME SessionInv, NEW h \in Handler, LoginCreate(h)
  PROVE  SessionInv'
<1> USE SessionAssumption DEF SessionInv, LoginStep, ValidateStep, RefreshStep
<1>0. handler \in [Handler -> Frame]
  BY DEF SessionTypeOK
<1>1. /\ UNCHANGED <<issued, black, revoker, given, held, revoked, excused>>
      /\ handler[h].pc = "create"
  BY DEF LoginCreate, historyVars
<1>2. /\ handler' \in [Handler -> Frame]
      /\ \A g \in Handler \ {h} : handler'[g] = handler[g]
      /\ handler'[h].pc = "loginRoles"
      /\ handler'[h].login = handler[h].login
      /\ handler'[h].pair = handler[h].pair
      /\ handler'[h].new = handler[h].new
      /\ handler'[h].late = handler[h].late
  BY <1>0, GotoMoves DEF LoginCreate, Steps
<1>3. /\ handler[h].login \in Login
      /\ handler[h].new \in Pair
      /\ issued[handler[h].new] = handler[h].login
  BY <1>1 DEF FrameOK, WithNew
<1>4. /\ row' \in [Login -> Pair \cup {None}]
      /\ row'[handler[h].login] = handler[h].new
      /\ \A l \in Login \ {handler[h].login} : row'[l] = row[l]
  BY <1>3 DEF LoginCreate, SessionTypeOK
<1>5. /\ held[handler[h].login] = None
      /\ \A g \in Handler : handler[g].pc \in RefreshStep => handler[g].login # handler[h].login
      /\ handler[h].login \notin revoked \cup revoker.seen
      /\ \A g \in Handler \ {h} : handler[g].pc \in LoginStep => handler[g].login # handler[h].login
  BY <1>1 DEF FreshOK, GoneOK, Creating
<1>6. \A g \in Handler : handler[g].pc \in LoginStep \cup RefreshStep => handler[g].login \in Login
  BY DEF FrameOK, WithPair
<1>10. SessionTypeOK'
  BY <1>1, <1>2, <1>3, <1>4, <1>5, <1>6 DEF SessionTypeOK
<1>11. FrameOK'
  BY <1>1, <1>2, <1>3, <1>4, <1>5, <1>6 DEF FrameOK, WithNew, WithPair, Idle
<1>12. LateOK'
  BY <1>1, <1>2, <1>3, <1>4, <1>5, <1>6 DEF LateOK, Past, Idle
<1>13. OwnOK'
  BY <1>1, <1>2, <1>3, <1>4, <1>5, <1>6 DEF OwnOK, SessionIsOwn
<1>14. GoneOK'
  <2>1. \A l \in revoked \cup revoker.seen : Known(l)'
    BY <1>1 DEF GoneOK, Known
  <2>2. \A l \in revoked : row'[l] = None
    BY <1>4, <1>5 DEF GoneOK, SessionTypeOK
  <2>3. \A g \in Handler : handler'[g].pc \in Creating =>
          /\ handler'[g].login \notin revoked \cup revoker.seen
          /\ row'[handler'[g].login] = None
    BY <1>1, <1>2, <1>4, <1>5, <1>6 DEF GoneOK, Creating
  <2> QED
    BY <1>1, <1>2, <2>1, <2>2, <2>3 DEF GoneOK
<1>15. FreshOK'
  BY <1>1, <1>2, <1>3, <1>4, <1>5, <1>6 DEF FreshOK, Created, Idle
<1>16. KeepOK'
  BY <1>1, <1>2, <1>3, <1>4, <1>5, <1>6 DEF KeepOK, Created, Idle
<1> QED
  BY <1>10, <1>11, <1>12, <1>13, <1>14, <1>15, <1>16

LEMMA LoginDoneInv ==
  ASSUME SessionInv, NEW h \in Handler, LoginDone(h)
  PROVE  SessionInv'
<1> USE SessionAssumption DEF SessionInv, LoginStep, ValidateStep, RefreshStep
<1>0. handler \in [Handler -> Frame]
  BY DEF SessionTypeOK
<1>1. /\ UNCHANGED <<issued, row, black, revoker, revoked, excused>>
      /\ handler[h].pc = "loginCache"
      /\ given' = given \cup {handler[h].new}
  BY DEF LoginDone, Answer
<1>2. /\ handler' \in [Handler -> Frame]
      /\ \A g \in Handler \ {h} : handler'[g] = handler[g]
      /\ handler'[h] = Idle
  BY <1>0, ReturnMoves DEF LoginDone, Answer
<1>3. /\ handler[h].login \in Login
      /\ handler[h].new \in Pair
      /\ issued[handler[h].new] = handler[h].login
  BY <1>1 DEF FrameOK, WithNew
<1>4. /\ held' \in [Login -> Pair \cup {None}]
      /\ held'[handler[h].login] = handler[h].new
      /\ \A l \in Login \ {handler[h].login} : held'[l] = held[l]
  BY <1>3 DEF LoginDone, Answer, SessionTypeOK
<1>5. \A g \in Handler \ {h} : handler[g].pc \in LoginStep =>
        /\ handler[g].login \in Login
        /\ handler[g].login # handler[h].login
        /\ handler[g].new # handler[h].new
  BY <1>1, <1>3 DEF GoneOK, FrameOK, WithNew
<1>10. SessionTypeOK'
  BY <1>1, <1>2, <1>3, <1>4, <1>5 DEF SessionTypeOK
<1>11. FrameOK'
  BY <1>1, <1>2, <1>3, <1>4, <1>5 DEF FrameOK, WithNew, WithPair, Idle
<1>12. LateOK'
  BY <1>1, <1>2, <1>3, <1>4, <1>5 DEF LateOK, Past, Idle
<1>13. OwnOK'
  BY <1>1, <1>2, <1>3, <1>4, <1>5 DEF OwnOK, SessionIsOwn
<1>14. GoneOK'
  BY <1>1, <1>2, <1>3, <1>4, <1>5 DEF GoneOK, Creating, Known, Idle
<1>15. FreshOK'
  BY <1>1, <1>2, <1>3, <1>4, <1>5 DEF FreshOK, Created, Idle
<1>16. KeepOK'
  BY <1>1, <1>2, <1>3, <1>4, <1>5 DEF KeepOK, Created, Idle
<1> QED
  BY <1>10, <1>11, <1>12, <1>13, <1>14, <1>15, <1>16

-------------------------------------------------------------------------------
(* validateToken *)
LEMMA ValidateStartInv ==
  ASSUME SessionInv, NEW h \in Handler, NEW p \in Pair, ValidateStart(h, p)
  PROVE  SessionInv'
<1> USE SessionAssumption DEF SessionInv, LoginStep, ValidateStep, RefreshStep
<1>0. handler \in [Handler -> Frame]
  BY DEF SessionTypeOK
<1>1. /\ UNCHANGED <<issued, row, black, revoker, given, held, revoked, excused>>
      /\ handler[h].pc = "idle"
  BY DEF ValidateStart, historyVars
<1>2. (issued[p] \in revoked) \in BOOLEAN
  OBVIOUS
<1>3. [pc |-> "blacklist", login |-> None, pair |-> p, new |-> None,
       late |-> issued[p] \in revoked] \in Frame
  BY <1>2, Zenon DEF Frame
<1>4. /\ handler' \in [Handler -> Frame]
      /\ \A g \in Handler \ {h} : handler'[g] = handler[g]
      /\ handler'[h] = [pc |-> "blacklist", login |-> None, pair |-> p, new |-> None,
                        late |-> issued[p] \in revoked]
  BY <1>0, <1>3, EnterMoves DEF ValidateStart
<1>5. /\ handler'[h].pc = "blacklist"
      /\ handler'[h].pair = p
  BY <1>4
<1>6. handler'[h].late => issued[p] \in revoked
  <2>1. ASSUME NEW late \in BOOLEAN, late = (issued[p] \in revoked),
               handler'[h] = [pc |-> "blacklist", login |-> None, pair |-> p, new |-> None,
                              late |-> late]
        PROVE  handler'[h].late => issued[p] \in revoked
    <3>1. handler'[h].late = late
      BY <2>1
    <3> QED
      BY <2>1, <3>1
  <2> QED
    BY <1>2, <1>4, <2>1
<1>10. SessionTypeOK'
  BY <1>1, <1>4, <1>5 DEF SessionTypeOK
<1>11. FrameOK'
  BY <1>1, <1>4, <1>5 DEF FrameOK, WithNew, WithPair, Idle
<1>12. LateOK'
  BY <1>1, <1>4, <1>5, <1>6 DEF LateOK, Past, Idle
<1>13. OwnOK'
  BY <1>1, <1>4, <1>5 DEF OwnOK, SessionIsOwn
<1>14. GoneOK'
  BY <1>1, <1>4, <1>5 DEF GoneOK, Creating, Known, Idle
<1>15. FreshOK'
  BY <1>1, <1>4, <1>5 DEF FreshOK, Created, Idle
<1>16. KeepOK'
  BY <1>1, <1>4, <1>5 DEF KeepOK, Created, Idle
<1> QED
  BY <1>10, <1>11, <1>12, <1>13, <1>14, <1>15, <1>16

LEMMA SessionFindInv ==
  ASSUME SessionInv, NEW h \in Handler, SessionFind(h)
  PROVE  SessionInv'
<1> USE SessionAssumption DEF SessionInv, LoginStep, ValidateStep, RefreshStep
<1>0. handler \in [Handler -> Frame]
  BY DEF SessionTypeOK
<1>1. /\ UNCHANGED <<issued, row, black, revoker, given, held, revoked, excused>>
      /\ handler[h].pc = "find"
  BY DEF SessionFind, historyVars
<1>2. CASE Return(h)
  <2>1. /\ handler' \in [Handler -> Frame]
        /\ \A g \in Handler \ {h} : handler'[g] = handler[g]
        /\ handler'[h] = Idle
    BY <1>0, <1>2, ReturnMoves
  <2>2. SessionTypeOK' /\ FrameOK' /\ LateOK' /\ OwnOK'
    BY <1>1, <2>1 DEF SessionTypeOK, FrameOK, WithNew, WithPair, LateOK, Past, OwnOK,
                      SessionIsOwn, Idle
  <2>3. GoneOK' /\ FreshOK' /\ KeepOK'
    BY <1>1, <2>1 DEF GoneOK, Creating, Created, Known, FreshOK, KeepOK, Idle
  <2> QED
    BY <2>2, <2>3
<1>3. ASSUME NEW l \in Login, row[l] = handler[h].pair,
             Enter(h, [pc |-> "introspect", login |-> l, pair |-> handler[h].pair, new |-> None,
                       late |-> handler[h].late])
      PROVE  SessionInv'
  <2>0. handler[h].pair \in Pair /\ handler[h].late \in BOOLEAN
    BY <1>0, <1>1 DEF FrameOK, Frame
  <2>1. /\ handler' \in [Handler -> Frame]
        /\ \A g \in Handler \ {h} : handler'[g] = handler[g]
        /\ handler'[h] = [pc |-> "introspect", login |-> l, pair |-> handler[h].pair,
                          new |-> None, late |-> handler[h].late]
    BY <1>0, <1>3, <2>0, EnterMoves DEF Frame
  <2>2. issued[handler[h].pair] = l
    BY <1>3, <2>0 DEF OwnOK, SessionIsOwn
  <2>3. SessionTypeOK' /\ FrameOK' /\ LateOK' /\ OwnOK'
    BY <1>1, <2>0, <2>1, <2>2 DEF SessionTypeOK, FrameOK, WithNew, WithPair, LateOK, Past, OwnOK,
                                  SessionIsOwn
  <2>4. GoneOK' /\ FreshOK' /\ KeepOK'
    BY <1>1, <2>1 DEF GoneOK, Creating, Created, Known, FreshOK, KeepOK
  <2> QED
    BY <2>3, <2>4
<1> QED
  BY <1>2, <1>3 DEF SessionFind

LEMMA TouchInv ==
  ASSUME SessionInv, NEW h \in Handler, Touch(h)
  PROVE  SessionInv'
<1> USE SessionAssumption DEF SessionInv, LoginStep, ValidateStep, RefreshStep
<1>0. handler \in [Handler -> Frame]
  BY DEF SessionTypeOK
<1>1. /\ UNCHANGED <<issued, row, black, revoker, given, held, revoked, excused>>
      /\ handler[h].pc = "touch"
  BY DEF Touch, historyVars
<1>2. /\ handler' \in [Handler -> Frame]
      /\ \A g \in Handler \ {h} : handler'[g] = handler[g]
      /\ \/ handler'[h] = Idle
         \/ /\ row[handler[h].login] # None
            /\ handler'[h].pc = "permGet"
            /\ handler'[h].login = handler[h].login
            /\ handler'[h].pair = handler[h].pair
            /\ handler'[h].new = handler[h].new
            /\ handler'[h].late = handler[h].late
  BY <1>0, GotoMoves, ReturnMoves DEF Touch, Steps
<1>3. /\ handler[h].login \in Login
      /\ issued[handler[h].pair] = handler[h].login
  BY <1>1 DEF FrameOK, WithPair
<1>4. handler'[h] # Idle => ~handler[h].late
  BY <1>1, <1>2, <1>3 DEF LateOK, GoneOK
<1>10. SessionTypeOK'
  BY <1>1, <1>2, <1>3, <1>4 DEF SessionTypeOK
<1>11. FrameOK'
  BY <1>1, <1>2, <1>3, <1>4 DEF FrameOK, WithNew, WithPair, Idle
<1>12. LateOK'
  BY <1>1, <1>2, <1>3, <1>4 DEF LateOK, Past, Idle
<1>13. OwnOK'
  BY <1>1, <1>2, <1>3, <1>4 DEF OwnOK, SessionIsOwn
<1>14. GoneOK'
  BY <1>1, <1>2, <1>3, <1>4 DEF GoneOK, Creating, Known, Idle
<1>15. FreshOK'
  BY <1>1, <1>2, <1>3, <1>4 DEF FreshOK, Created, Idle
<1>16. KeepOK'
  BY <1>1, <1>2, <1>3, <1>4 DEF KeepOK, Created, Idle
<1> QED
  BY <1>10, <1>11, <1>12, <1>13, <1>14, <1>15, <1>16

-------------------------------------------------------------------------------
(* refreshToken *)
LEMMA RefreshFindInv ==
  ASSUME SessionInv, NEW h \in Handler, NEW l \in Login, RefreshFind(h, l)
  PROVE  SessionInv'
<1> USE SessionAssumption DEF SessionInv, LoginStep, ValidateStep, RefreshStep
<1>0. handler \in [Handler -> Frame]
  BY DEF SessionTypeOK
<1>1. /\ UNCHANGED <<issued, row, black, revoker, given, held, revoked>>
      /\ handler[h].pc = "idle"
      /\ row[l] \in given
      /\ excused \subseteq excused'
      /\ excused' \subseteq Login
      /\ Refreshing(l) => l \in excused'
  BY DEF RefreshFind, SessionTypeOK
<1>3. row[l] \in Pair /\ row[l] # None /\ issued[row[l]] = l
  BY <1>1 DEF SessionTypeOK, OwnOK, SessionIsOwn
<1>2. /\ handler' \in [Handler -> Frame]
      /\ \A g \in Handler \ {h} : handler'[g] = handler[g]
      /\ handler'[h] = [pc |-> "kcRefresh", login |-> l, pair |-> row[l], new |-> None,
                        late |-> FALSE]
  BY <1>0, <1>3, EnterMoves DEF RefreshFind, Frame
<1>4. \A g \in Handler : handler[g].pc \in LoginStep => handler[g].login # l
  BY <1>1, <1>3 DEF FreshOK, GoneOK, Created, Creating
<1>10. SessionTypeOK'
  BY <1>1, <1>2, <1>3, <1>4 DEF SessionTypeOK
<1>11. FrameOK'
  BY <1>1, <1>2, <1>3, <1>4 DEF FrameOK, WithNew, WithPair, Idle
<1>12. LateOK'
  BY <1>1, <1>2, <1>3, <1>4 DEF LateOK, Past, Idle
<1>13. OwnOK'
  BY <1>1, <1>2, <1>3, <1>4 DEF OwnOK, SessionIsOwn
<1>14. GoneOK'
  BY <1>1, <1>2, <1>3, <1>4 DEF GoneOK, Creating, Known, Idle
<1>15. FreshOK'
  BY <1>1, <1>2, <1>3, <1>4 DEF FreshOK, Created, Idle
<1>16. KeepOK'
  BY <1>1, <1>2, <1>3, <1>4 DEF KeepOK, Created, Idle, Refreshing
<1> QED
  BY <1>10, <1>11, <1>12, <1>13, <1>14, <1>15, <1>16

LEMMA RefreshKcInv ==
  ASSUME SessionInv, NEW h \in Handler, NEW p \in Pair, RefreshKc(h, p)
  PROVE  SessionInv'
<1> USE SessionAssumption DEF SessionInv, LoginStep, ValidateStep, RefreshStep
<1>0. handler \in [Handler -> Frame]
  BY DEF SessionTypeOK
<1>1. /\ UNCHANGED <<row, black, revoker, given, held, revoked, excused>>
      /\ handler[h].pc = "kcRefresh"
      /\ issued[p] = None
      /\ issued' = [issued EXCEPT ![p] = issued[handler[h].pair]]
  BY DEF RefreshKc, Issue, historyVars
<1>3. /\ handler[h].login \in Login
      /\ handler[h].pair \in Pair
      /\ issued[handler[h].pair] = handler[h].login
  BY <1>1 DEF FrameOK, WithPair
<1>2. /\ handler' \in [Handler -> Frame]
      /\ \A g \in Handler \ {h} : handler'[g] = handler[g]
      /\ handler'[h] = [pc |-> "findAgain", login |-> handler[h].login,
                        pair |-> handler[h].pair, new |-> p, late |-> FALSE]
  BY <1>0, <1>3, EnterMoves DEF RefreshKc, Frame
<1>4. /\ issued'[p] = handler[h].login
      /\ \A q \in Pair \ {p} : issued'[q] = issued[q]
      /\ issued' \in [Pair -> Login \cup {None}]
  BY <1>1, <1>3 DEF SessionTypeOK
<1>5. /\ p \notin given
      /\ \A k \in Login : row[k] # p /\ held[k] # p
      /\ revoked \subseteq Login
      /\ revoker.seen \subseteq Login
  BY <1>1 DEF OwnOK, SessionIsOwn, SessionTypeOK, Revoker
<1>6. \A k \in Login : Known(k) => Known(k)'
  BY <1>1, <1>4 DEF Known
<1>10. SessionTypeOK'
  BY <1>1, <1>2, <1>3, <1>4, <1>5 DEF SessionTypeOK
<1>11. FrameOK'
  BY <1>1, <1>2, <1>3, <1>4, <1>5 DEF FrameOK, WithNew, WithPair, Idle
<1>12. LateOK'
  BY <1>1, <1>2, <1>3, <1>4, <1>5 DEF LateOK, Past, Idle, FrameOK
<1>13. OwnOK'
  BY <1>1, <1>2, <1>3, <1>4, <1>5 DEF OwnOK, SessionIsOwn, SessionTypeOK
<1>14. GoneOK'
  BY <1>1, <1>2, <1>3, <1>4, <1>5, <1>6 DEF GoneOK, Creating
<1>15. FreshOK'
  BY <1>1, <1>2, <1>3, <1>4, <1>5 DEF FreshOK, Created, Idle
<1>16. KeepOK'
  BY <1>1, <1>2, <1>3, <1>4, <1>5 DEF KeepOK, Created, Idle
<1> QED
  BY <1>10, <1>11, <1>12, <1>13, <1>14, <1>15, <1>16

LEMMA RefreshFindAgainInv ==
  ASSUME SessionInv, NEW h \in Handler, RefreshFindAgain(h)
  PROVE  SessionInv'
<1> USE SessionAssumption DEF SessionInv, LoginStep, ValidateStep, RefreshStep
<1>0. handler \in [Handler -> Frame]
  BY DEF SessionTypeOK
<1>1. /\ UNCHANGED <<issued, row, black, revoker, given, held, revoked, excused>>
      /\ handler[h].pc = "findAgain"
  BY DEF RefreshFindAgain, historyVars
<1>3. /\ handler[h].login \in Login
      /\ handler[h].pair \in Pair
      /\ handler[h].new \in Pair
      /\ issued[handler[h].new] = handler[h].login
      /\ issued[handler[h].pair] = handler[h].login
  BY <1>1 DEF FrameOK, WithPair, WithNew
<1>2. /\ handler' \in [Handler -> Frame]
      /\ \A g \in Handler \ {h} : handler'[g] = handler[g]
      /\ handler'[h].login = handler[h].login
      /\ handler'[h].pair = handler[h].pair
      /\ handler'[h].new = handler[h].new
      /\ \/ handler'[h].pc = "save"
         \/ handler'[h].pc = "answer" /\ row[handler[h].login] # handler[h].pair
  <2>1. ASSUME NEW l \in Login, row[l] = handler[h].pair,
               Enter(h, [pc |-> "save", login |-> l, pair |-> handler[h].pair,
                         new |-> handler[h].new, late |-> FALSE])
        PROVE  <1>2!:
    <3>1. l = handler[h].login
      BY <1>3, <2>1 DEF OwnOK, SessionIsOwn
    <3>2. [pc |-> "save", login |-> l, pair |-> handler[h].pair, new |-> handler[h].new,
           late |-> FALSE] \in Frame
      BY <1>3 DEF Frame
    <3>3. /\ handler' \in [Handler -> Frame]
          /\ handler'[h] = [pc |-> "save", login |-> l, pair |-> handler[h].pair,
                            new |-> handler[h].new, late |-> FALSE]
          /\ \A g \in Handler \ {h} : handler'[g] = handler[g]
      BY <1>0, <2>1, <3>2, EnterMoves
    <3> QED
      BY <3>1, <3>3
  <2>2. ASSUME \A l \in Login : row[l] # handler[h].pair, Goto(h, "answer")
        PROVE  <1>2!:
    BY <1>0, <1>3, <2>2, GotoMoves DEF Steps
  <2> QED
    BY <2>1, <2>2 DEF RefreshFindAgain
<1>10. SessionTypeOK'
  BY <1>1, <1>2, <1>3 DEF SessionTypeOK
<1>11. FrameOK'
  BY <1>1, <1>2, <1>3 DEF FrameOK, WithNew, WithPair, Idle
<1>12. LateOK'
  BY <1>1, <1>2, <1>3 DEF LateOK, Past, Idle
<1>13. OwnOK'
  BY <1>1, <1>2, <1>3 DEF OwnOK, SessionIsOwn
<1>14. GoneOK'
  BY <1>1, <1>2, <1>3 DEF GoneOK, Creating, Known, Idle
<1>15. FreshOK'
  BY <1>1, <1>2, <1>3 DEF FreshOK, Created, Idle
<1>16. KeepOK'
  BY <1>1, <1>2, <1>3 DEF KeepOK, Created, Idle
<1> QED
  BY <1>10, <1>11, <1>12, <1>13, <1>14, <1>15, <1>16

LEMMA RefreshSaveInv ==
  ASSUME SessionInv, NEW h \in Handler, RefreshSave(h)
  PROVE  SessionInv'
<1> USE SessionAssumption DEF SessionInv, LoginStep, ValidateStep, RefreshStep
<1>0. handler \in [Handler -> Frame]
  BY DEF SessionTypeOK
<1>1. /\ UNCHANGED <<issued, black, revoker, given, held, revoked, excused>>
      /\ handler[h].pc = "save"
  BY DEF RefreshSave, historyVars
<1>3. /\ handler[h].login \in Login
      /\ handler[h].new \in Pair
      /\ issued[handler[h].new] = handler[h].login
  BY <1>1 DEF FrameOK, WithNew, WithPair
<1>2. CASE Return(h) /\ row[handler[h].login] = None /\ UNCHANGED row
  <2>1. /\ handler' \in [Handler -> Frame]
        /\ \A g \in Handler \ {h} : handler'[g] = handler[g]
        /\ handler'[h] = Idle
    BY <1>0, <1>2, ReturnMoves
  <2>2. SessionTypeOK' /\ FrameOK' /\ LateOK' /\ OwnOK'
    BY <1>1, <1>2, <2>1 DEF SessionTypeOK, FrameOK, WithNew, WithPair, LateOK, Past, OwnOK,
                            SessionIsOwn, Idle
  <2>3. GoneOK' /\ FreshOK' /\ KeepOK'
    BY <1>1, <1>2, <2>1 DEF GoneOK, Creating, Created, Known, FreshOK, KeepOK, Idle
  <2> QED
    BY <2>2, <2>3
<1>4. ASSUME row[handler[h].login] # None, Goto(h, "answer"),
             row' = [row EXCEPT ![handler[h].login] = handler[h].new]
      PROVE  SessionInv'
  <2>1. /\ handler' \in [Handler -> Frame]
        /\ \A g \in Handler \ {h} : handler'[g] = handler[g]
        /\ handler'[h].pc = "answer"
        /\ handler'[h].login = handler[h].login
        /\ handler'[h].pair = handler[h].pair
        /\ handler'[h].new = handler[h].new
        /\ handler'[h].late = handler[h].late
    BY <1>0, <1>4, GotoMoves DEF Steps
  <2>2. /\ row' \in [Login -> Pair \cup {None}]
        /\ row'[handler[h].login] = handler[h].new
        /\ \A l \in Login \ {handler[h].login} : row'[l] = row[l]
    BY <1>3, <1>4 DEF SessionTypeOK
  <2>3. \A g \in Handler : handler[g].pc \in LoginStep => handler[g].login # handler[h].login
    BY <1>1 DEF FreshOK
  <2>4. SessionTypeOK' /\ FrameOK' /\ LateOK'
    BY <1>1, <2>1, <2>2 DEF SessionTypeOK, FrameOK, WithNew, WithPair, LateOK, Past
  <2>5. OwnOK'
    BY <1>1, <1>3, <2>2 DEF OwnOK, SessionIsOwn
  <2>6. GoneOK'
    <3>1. \A l \in revoked \cup revoker.seen : Known(l)'
      BY <1>1 DEF GoneOK, Known
    <3>2. \A l \in revoked : row'[l] = None
      BY <1>4, <2>2 DEF GoneOK, SessionTypeOK
    <3>3. \A g \in Handler : handler'[g].pc \in Creating =>
            /\ handler'[g].login \notin revoked \cup revoker.seen
            /\ row'[handler'[g].login] = None
      BY <1>1, <2>1, <2>2, <2>3 DEF GoneOK, Creating, FrameOK
    <3> QED
      BY <1>1, <2>1, <3>1, <3>2, <3>3 DEF GoneOK
  <2>7. FreshOK'
    BY <1>1, <2>1, <2>2, <2>3 DEF FreshOK, Created, FrameOK
  <2>8. KeepOK'
    BY <1>1, <1>3, <2>1, <2>2, <2>3 DEF KeepOK, Created, FrameOK
  <2> QED
    BY <2>4, <2>5, <2>6, <2>7, <2>8
<1> QED
  BY <1>2, <1>4 DEF RefreshSave

LEMMA RefreshAnswerInv ==
  ASSUME SessionInv, NEW h \in Handler, RefreshAnswer(h)
  PROVE  SessionInv'
<1> USE SessionAssumption DEF SessionInv, LoginStep, ValidateStep, RefreshStep
<1>0. handler \in [Handler -> Frame]
  BY DEF SessionTypeOK
<1>1. /\ UNCHANGED <<issued, row, black, revoker, revoked, excused>>
      /\ handler[h].pc = "answer"
      /\ given' = given \cup {handler[h].new}
  BY DEF RefreshAnswer, Answer
<1>2. /\ handler' \in [Handler -> Frame]
      /\ \A g \in Handler \ {h} : handler'[g] = handler[g]
      /\ handler'[h] = Idle
  BY <1>0, ReturnMoves DEF RefreshAnswer, Answer
<1>3. /\ handler[h].login \in Login
      /\ handler[h].new \in Pair
      /\ issued[handler[h].new] = handler[h].login
  BY <1>1 DEF FrameOK, WithNew, WithPair
<1>4. /\ held' \in [Login -> Pair \cup {None}]
      /\ held'[handler[h].login] = handler[h].new
      /\ \A l \in Login \ {handler[h].login} : held'[l] = held[l]
  BY <1>3 DEF RefreshAnswer, Answer, SessionTypeOK
<1>5. \A g \in Handler : handler[g].pc \in LoginStep =>
        /\ handler[g].login \in Login
        /\ handler[g].login # handler[h].login
        /\ handler[g].new # handler[h].new
  BY <1>1, <1>3 DEF FreshOK, FrameOK, WithNew
<1>10. SessionTypeOK'
  BY <1>1, <1>2, <1>3, <1>4, <1>5 DEF SessionTypeOK
<1>11. FrameOK'
  BY <1>1, <1>2, <1>3, <1>4, <1>5 DEF FrameOK, WithNew, WithPair, Idle
<1>12. LateOK'
  BY <1>1, <1>2, <1>3, <1>4, <1>5 DEF LateOK, Past, Idle
<1>13. OwnOK'
  BY <1>1, <1>2, <1>3, <1>4, <1>5 DEF OwnOK, SessionIsOwn
<1>14. GoneOK'
  BY <1>1, <1>2, <1>3, <1>4, <1>5 DEF GoneOK, Creating, Known, Idle
<1>15. FreshOK'
  BY <1>1, <1>2, <1>3, <1>4, <1>5 DEF FreshOK, Created, Idle
<1>16. KeepOK'
  BY <1>1, <1>2, <1>3, <1>4, <1>5 DEF KeepOK, Created, Idle
<1> QED
  BY <1>10, <1>11, <1>12, <1>13, <1>14, <1>15, <1>16

-------------------------------------------------------------------------------
LEMMA HandlerFailsInv ==
  ASSUME SessionInv, NEW h \in Handler, HandlerFails(h)
  PROVE  SessionInv'
<1> USE SessionAssumption DEF SessionInv, LoginStep, ValidateStep, RefreshStep
<1>0. handler \in [Handler -> Frame]
  BY DEF SessionTypeOK
<1>1. /\ UNCHANGED <<issued, row, black, revoker, given, held, revoked>>
      /\ excused \subseteq excused'
      /\ handler[h].pc = "answer" => handler[h].login \in excused'
      /\ excused' \subseteq Login
  BY DEF HandlerFails, FrameOK, WithPair, SessionTypeOK
<1>2. /\ handler' \in [Handler -> Frame]
      /\ \A g \in Handler \ {h} : handler'[g] = handler[g]
      /\ handler'[h] = Idle
  BY <1>0, ReturnMoves DEF HandlerFails
<1>10. SessionTypeOK'
  BY <1>1, <1>2 DEF SessionTypeOK
<1>11. FrameOK'
  BY <1>1, <1>2 DEF FrameOK, WithNew, WithPair, Idle
<1>12. LateOK'
  BY <1>1, <1>2 DEF LateOK, Past, Idle
<1>13. OwnOK'
  BY <1>1, <1>2 DEF OwnOK, SessionIsOwn
<1>14. GoneOK'
  BY <1>1, <1>2 DEF GoneOK, Creating, Known, Idle
<1>15. FreshOK'
  BY <1>1, <1>2 DEF FreshOK, Created, Idle
<1>16. KeepOK'
  BY <1>1, <1>2 DEF KeepOK, Created, Idle
<1> QED
  BY <1>10, <1>11, <1>12, <1>13, <1>14, <1>15, <1>16

LEMMA SessionInvStep == SessionInv /\ [Next]_vars => SessionInv'
<1> SUFFICES ASSUME SessionInv, [Next]_vars
             PROVE  SessionInv'
  OBVIOUS
<1>1. CASE SessionAction
  BY <1>1, LoginKcInv, LoginPurgeInv, LoginCreateInv, LoginDoneInv, ValidateStartInv,
     SessionFindInv, TouchInv, RefreshFindInv, RefreshKcInv, RefreshFindAgainInv, RefreshSaveInv,
     RefreshAnswerInv, HandlerFailsInv DEF SessionAction
<1> QED
  BY <1>1, NextSplit, QuietInv, RevokeInv

-------------------------------------------------------------------------------
(* The roles: fetched and promised ones exist, and an older entry of the     *)
(* cache was written late.                                                  *)
PermInv == PermTypeOK /\ promised <= roles /\ AssignedRolesStay

LEMMA PermInvStep == PermInv /\ [Next]_vars => PermInv'
<1> SUFFICES ASSUME PermInv, [Next]_vars
             PROVE  PermInv'
  OBVIOUS
<1> USE RolesAssumption DEF PermInv, PermTypeOK, AssignedRolesStay
<1>1. CASE (SessionStep /\ UNCHANGED permVars) \/ UNCHANGED vars
  BY <1>1 DEF permVars, vars
<1>2. ASSUME NEW h \in Handler, Fails(h)
      PROVE  PermInv'
  BY <1>2 DEF Fails
<1>3. ASSUME NEW h \in Handler, Permissions(h)
      PROVE  PermInv'
  <2>1. CASE LoginRoles(h) \/ WarmFetch(h)
    BY <2>1 DEF LoginRoles, WarmFetch, FetchRoles
  <2>2. CASE LoginCache(h) \/ WarmSet(h)
    <3>1. /\ cache' = fetched[h]
          /\ fetched' = [fetched EXCEPT ![h] = 0]
          /\ UNCHANGED <<roles, assign, promised>>
      BY <2>2 DEF LoginCache, WarmSet, SetCachedPermissions
    <3>2. lateWrite' \in BOOLEAN /\ (fetched[h] < promised => lateWrite')
      BY <2>2, Zenon DEF LoginCache, WarmSet, SetCachedPermissions
    <3> QED
      BY <3>1, <3>2
  <2>3. CASE GetCachedPermissions(h)
    BY <2>3 DEF GetCachedPermissions
  <2>4. CASE ValidateAnswer(h)
    BY <2>4 DEF ValidateAnswer, permVars
  <2> QED
    BY <1>3, <2>1, <2>2, <2>3, <2>4 DEF Permissions
<1>4. CASE AssignKc \/ RevokeRole
  BY <1>4 DEF AssignKc, RevokeRole
<1>5. CASE AssignInvalidate \/ CleanupExpiredCache
  <2>1. /\ cache' = None
        /\ UNCHANGED <<roles, fetched>>
        /\ assign' \in {assign, "idle"}
        /\ promised' \in {promised, roles}
    BY <1>5 DEF AssignInvalidate, CleanupExpiredCache
  <2>2. lateWrite' \in BOOLEAN
    BY <1>5, Zenon DEF AssignInvalidate, CleanupExpiredCache
  <2> QED
    BY <2>1, <2>2
<1>6. CASE AssignFails
  BY <1>6 DEF AssignFails
<1> QED
  BY <1>1, <1>2, <1>3, <1>4, <1>5, <1>6 DEF Next

-------------------------------------------------------------------------------
LEMMA Invariant == Spec => [](SessionInv /\ PermInv)
<1>1. Init => SessionInv /\ PermInv
  <2> SUFFICES ASSUME Init PROVE PermInv
    BY SessionInitInv DEF Init
  <2>1. PermTypeOK
    <3>1. lateWrite \in BOOLEAN
      BY Zenon DEF Init, PermInit
    <3>2. /\ roles = 0 /\ cache = None /\ promised = 0 /\ assign = "idle"
          /\ fetched = [h \in Handler |-> 0]
      BY DEF Init, PermInit
    <3> QED
      BY <3>1, <3>2, RolesAssumption DEF PermTypeOK
  <2> QED
    BY <2>1 DEF Init, PermInit, PermInv, AssignedRolesStay
<1>2. SessionInv /\ PermInv /\ [Next]_vars => (SessionInv /\ PermInv)'
  BY SessionInvStep, PermInvStep
<1> QED
  BY <1>1, <1>2, PTL DEF Spec

(* Rows, handlers, the blacklist and the cached roles keep their types in    *)
(* every state of the session, token and permission handlers.               *)
THEOREM TypeCorrect == Spec => []TypeOK
<1>1. SessionInv /\ PermInv => TypeOK
  BY DEF SessionInv, PermInv, TypeOK
<1> QED
  BY <1>1, Invariant, PTL

(* However many logins, refreshes, revocations and cleanups interleave, a    *)
(* session row holds only tokens that were issued for its own login.        *)
THEOREM SessionsAreOwn == Spec => []SessionIsOwn
<1>1. SessionInv => SessionIsOwn
  BY DEF SessionInv, OwnOK
<1> QED
  BY <1>1, Invariant, PTL

(* A validateToken called after the session of its token was revoked does    *)
(* not answer valid: the row is gone for good, whatever the blacklist says. *)
THEOREM RevocationLasts == Spec => []RevokedStaysOut
<1>1. SessionInv => RevokedStaysOut
  BY DEF SessionInv, LateOK, Past, RevokedStaysOut
<1> QED
  BY <1>1, Invariant, PTL

(* A client that refreshes alone and got its answers keeps a session that    *)
(* stores the tokens it holds, until it is revoked or cleaned up.           *)
THEOREM SessionsAreKept == Spec => []KeepsSession
<1>1. SessionInv => KeepsSession
  BY DEF SessionInv, KeepOK, KeepsSession
<1> QED
  BY <1>1, Invariant, PTL

(* After assignRole returned, only a handler that fetched the roles before   *)
(* and writes them late can put older roles into the cache.                 *)
THEOREM AssignmentsStay == Spec => []AssignedRolesStay
<1>1. PermInv => AssignedRolesStay
  BY DEF PermInv
<1> QED
  BY <1>1, Invariant, PTL
===============================================================================
