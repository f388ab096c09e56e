------------------------------ MODULE AuthSessions ------------------------------
(***************************************************************************)
(* auth-service: SessionService, TokenBlacklistService and the handlers of *)
(* AuthEnhancedController that use them, next to the Keycloak that issues  *)
(* the tokens.  Every action is one awaited statement.  (AuthController    *)
(* registers some of the same gRPC methods before it; the later            *)
(* registration is the one that serves.)                                   *)
(*                                                                         *)
(* One user.  A login is the session row it creates, which refreshes only  *)
(* update; a pair is an access and a refresh token issued together.        *)
(* Time is not modelled: whether a token, a row or an entry of the         *)
(* blacklist has expired is a choice, made whenever the code asks.         *)
(***************************************************************************)
EXTENDS FiniteSets

CONSTANTS Login,    \* logins of the user, each the id of a session row
          Pair,     \* token pairs Keycloak can issue
          Handler,  \* concurrent authenticate / validateToken / refreshToken
          None      \* null

ASSUME SessionAssumption == None \notin Login \cup Pair

VARIABLES issued,   \* Keycloak: the login a pair was issued for, or None
          row,      \* the userSession row of a login: the pair it stores, or None
          black,    \* the pairs whose access token is in revokedToken
          handler,  \* the handlers in flight
          revoker,  \* revokeAllUserTokens
          given,    \* the pairs the clients were answered with
          held,     \* the pair the client of a login was answered with last
          revoked,  \* history: the logins whose session was revoked
          excused   \* history: the logins whose client may have lost its session

sessionVars == <<issued, row, black, handler, revoker, given, held, revoked, excused>>
historyVars == <<given, held, revoked, excused>>

LoginStep    == {"purge", "create", "loginRoles", "loginCache"}
ValidateStep == {"blacklist", "find", "introspect", "touch", "permGet", "permFetch",
                 "permSet", "valid"}
RefreshStep  == {"kcRefresh", "findAgain", "save", "answer"}

(* "new" is the pair Keycloak answered with; "late" remembers that the token *)
(* was already revoked when validateToken was called.                       *)
Frame == [pc : {"idle"} \cup LoginStep \cup ValidateStep \cup RefreshStep,
          login : Login \cup {None}, pair : Pair \cup {None}, new : Pair \cup {None},
          late : BOOLEAN]
Idle  == [pc |-> "idle", login |-> None, pair |-> None, new |-> None, late |-> FALSE]

Revoker   == [pc : {"idle", "blacklist", "delete"}, seen : SUBSET Login, pairs : SUBSET Pair]
NoRevoker == [pc |-> "idle", seen |-> {}, pairs |-> {}]

SessionTypeOK ==
  /\ issued \in [Pair -> Login \cup {None}]
  /\ row \in [Login -> Pair \cup {None}]
  /\ black \in SUBSET Pair
  /\ handler \in [Handler -> Frame]
  /\ revoker \in Revoker
  /\ given \in SUBSET Pair
  /\ held \in [Login -> Pair \cup {None}]
  /\ revoked \in SUBSET Login
  /\ excused \in SUBSET Login

SessionInit ==
  /\ issued = [p \in Pair |-> None]
  /\ row = [l \in Login |-> None]
  /\ black = {}
  /\ handler = [h \in Handler |-> Idle]
  /\ revoker = NoRevoker
  /\ given = {}
  /\ held = [l \in Login |-> None]
  /\ revoked = {}
  /\ excused = {}

HasRow == {l \in Login : row[l] # None}

Enter(h, frame) == handler' = [handler EXCEPT ![h] = frame]
Goto(h, step)   == handler' = [handler EXCEPT ![h].pc = step]
Return(h)       == handler' = [handler EXCEPT ![h] = Idle]

-------------------------------------------------------------------------------
(* Keycloak answers with a pair it never issued before. *)
Issue(p, l) ==
  /\ issued[p] = None
  /\ issued' = [issued EXCEPT ![p] = l]

(* authenticate, up to Keycloak's answer. *)
LoginKc(h, l, p) ==
  /\ handler[h].pc = "idle"
  /\ \A q \in Pair : issued[q] # l
  /\ Issue(p, l)
  /\ Enter(h, [pc |-> "purge", login |-> l, pair |-> None, new |-> p, late |-> FALSE])
  /\ UNCHANGED <<row, black, revoker, historyVars>>

(* Mutant: a user has one session. *)
LoginPurgeAll(h) ==
  /\ handler[h].pc = "purge"
  /\ row' = [l \in Login |-> None]
  /\ Goto(h, "create")
  /\ UNCHANGED <<issued, black, revoker, historyVars>>

(* createSession: deletes the rows that hold one of the new tokens. *)
LoginPurge(h) ==
  /\ handler[h].pc = "purge"
  /\ row' = [l \in Login |-> IF row[l] = handler[h].new THEN None ELSE row[l]]
  /\ Goto(h, "create")
  /\ UNCHANGED <<issued, black, revoker, historyVars>>

LoginCreate(h) ==
  /\ handler[h].pc = "create"
  /\ row' = [row EXCEPT ![handler[h].login] = handler[h].new]
  /\ Goto(h, "loginRoles")
  /\ UNCHANGED <<issued, black, revoker, historyVars>>

(* Mutant: the session's id is answered for its tokens. *)
AnswerSessionId(h) ==
  /\ given' = given \cup {handler[h].new}
  /\ held' = [held EXCEPT ![handler[h].login] = handler[h].login]
  /\ Return(h)

(* The tokens reach the client. *)
Answer(h) ==
  /\ given' = given \cup {handler[h].new}
  /\ held' = [held EXCEPT ![handler[h].login] = handler[h].new]
  /\ Return(h)

-------------------------------------------------------------------------------
(* validateToken *)
ValidateStart(h, p) ==
  /\ handler[h].pc = "idle"
  /\ p \in given
  /\ Enter(h, [pc |-> "blacklist", login |-> None, pair |-> p, new |-> None,
               late |-> issued[p] \in revoked])
  /\ UNCHANGED <<issued, row, black, revoker, historyVars>>

(* isTokenRevoked: an entry that has expired is deleted and counts for none. *)
BlacklistCheck(h) ==
  LET p == handler[h].pair IN
  /\ handler[h].pc = "blacklist"
  /\ \/ p \in black /\ Return(h) /\ UNCHANGED black
     \/ p \in black /\ Goto(h, "find") /\ black' = black \ {p}
     \/ p \notin black /\ Goto(h, "find") /\ UNCHANGED black
  /\ UNCHANGED <<issued, row, revoker, historyVars>>

(* The row that holds the token; none, or one that has expired, is invalid.  *)
SessionFind(h) ==
  LET p == handler[h].pair IN
  /\ handler[h].pc = "find"
  /\ \/ \E l \in Login :
          /\ row[l] = p
          /\ Enter(h, [pc |-> "introspect", login |-> l, pair |-> p, new |-> None,
                       late |-> handler[h].late])
     \/ Return(h)
  /\ UNCHANGED <<issued, row, black, revoker, historyVars>>

(* Keycloak says whether the access token is still active. *)
Introspect(h) ==
  /\ handler[h].pc = "introspect"
  /\ Goto(h, "touch") \/ Return(h)
  /\ UNCHANGED <<issued, row, black, revoker, historyVars>>

(* updateSessionActivity updates by id and throws when the row is gone. *)
Touch(h) ==
  /\ handler[h].pc = "touch"
  /\ \/ row[handler[h].login] # None /\ Goto(h, "permGet")
     \/ row[handler[h].login] = None /\ Return(h)
  /\ UNCHANGED <<issued, row, black, revoker, historyVars>>

-------------------------------------------------------------------------------
(* Another refresh of the login is under way. *)
Refreshing(l) == \E g \in Handler : handler[g].pc \in RefreshStep /\ handler[g].login = l

(* refreshToken: the row that holds the refresh token, or UNAUTHENTICATED. *)
RefreshFind(h, l) ==
  /\ handler[h].pc = "idle"
  /\ row[l] \in given
  /\ Enter(h, [pc |-> "kcRefresh", login |-> l, pair |-> row[l], new |-> None,
               late |-> FALSE])
  /\ excused' = IF Refreshing(l) THEN excused \cup {l} ELSE excused
  /\ UNCHANGED <<issued, row, black, revoker, given, held, revoked>>

RefreshKc(h, p) ==
  /\ handler[h].pc = "kcRefresh"
  /\ Issue(p, issued[handler[h].pair])
  /\ Enter(h, [pc |-> "findAgain", login |-> handler[h].login, pair |-> handler[h].pair,
               new |-> p, late |-> FALSE])
  /\ UNCHANGED <<row, black, revoker, historyVars>>

(* refreshSession looks the row up again, and its null is not looked at: the *)
(* client is answered with tokens no row holds.                             *)
RefreshFindAgain(h) ==
  LET f == handler[h] IN
  /\ f.pc = "findAgain"
  /\ \/ \E l \in Login :
          /\ row[l] = f.pair
          /\ Enter(h, [pc |-> "save", login |-> l, pair |-> f.pair, new |-> f.new,
                       late |-> FALSE])
     \/ /\ \A l \in Login : row[l] # f.pair
        /\ Goto(h, "answer")
  /\ UNCHANGED <<issued, row, black, revoker, historyVars>>

(* Mutant: the row is created again when it is gone. *)
RefreshSaveUpsert(h) ==
  /\ handler[h].pc = "save"
  /\ row' = [row EXCEPT ![handler[h].login] = handler[h].new]
  /\ Goto(h, "answer")
  /\ UNCHANGED <<issued, black, revoker, historyVars>>

(* Mutant: updates some session of the user. *)
RefreshSaveAny(h) ==
  /\ handler[h].pc = "save"
  /\ \E l \in HasRow : row' = [row EXCEPT ![l] = handler[h].new]
  /\ Goto(h, "answer")
  /\ UNCHANGED <<issued, black, revoker, historyVars>>

(* The update is by id and throws when the row is gone. *)
RefreshSave(h) ==
  LET l == handler[h].login IN
  /\ handler[h].pc = "save"
  /\ \/ /\ row[l] # None
        /\ row' = [row EXCEPT ![l] = handler[h].new]
        /\ Goto(h, "answer")
     \/ /\ row[l] = None
        /\ Return(h)
        /\ UNCHANGED row
  /\ UNCHANGED <<issued, black, revoker, historyVars>>

RefreshAnswer(h) ==
  /\ handler[h].pc = "answer"
  /\ Answer(h)
  /\ UNCHANGED <<issued, row, black, revoker, revoked, excused>>

(* A statement or a request fails, or the process dies: no answer is given.  *)
(* The client whose row was already rotated does not know its new tokens.   *)
HandlerFails(h) ==
  /\ handler[h].pc # "idle"
  /\ excused' = IF handler[h].pc = "answer" THEN excused \cup {handler[h].login} ELSE excused
  /\ Return(h)
  /\ UNCHANGED <<issued, row, black, revoker, given, held, revoked>>

-------------------------------------------------------------------------------
(* revokeAllUserTokens; nothing in the repository calls it but an operator.  *)
RevokeRead ==
  /\ revoker.pc = "idle"
  /\ HasRow # {}
  /\ revoker' = [pc |-> "blacklist", seen |-> HasRow, pairs |-> {row[l] : l \in HasRow}]
  /\ UNCHANGED <<issued, row, black, handler, historyVars>>

RevokeBlacklist ==
  /\ revoker.pc = "blacklist"
  /\ black' = black \cup revoker.pairs
  /\ revoker' = [revoker EXCEPT !.pc = "delete"]
  /\ UNCHANGED <<issued, row, handler, historyVars>>

(* Every row of the user goes, also one created or rotated since the read. *)
RevokeDelete ==
  /\ revoker.pc = "delete"
  /\ row' = [l \in Login |-> None]
  /\ revoked' = revoked \cup revoker.seen \cup HasRow
  /\ excused' = excused \cup HasRow
  /\ revoker' = NoRevoker
  /\ UNCHANGED <<issued, black, handler, given, held>>

RevokeFails ==
  /\ revoker.pc # "idle"
  /\ revoker' = NoRevoker
  /\ UNCHANGED <<issued, row, black, handler, historyVars>>

(* revokeToken, of one access token; like revokeAllUserTokens for operators. *)
RevokeToken(p) ==
  /\ p \in given \ black
  /\ black' = black \cup {p}
  /\ UNCHANGED <<issued, row, handler, revoker, historyVars>>

(* revokeSession, of one row. *)
RevokeSession(l) ==
  /\ row[l] # None
  /\ row' = [row EXCEPT ![l] = None]
  /\ revoked' = revoked \cup {l}
  /\ excused' = excused \cup {l}
  /\ UNCHANGED <<issued, black, handler, revoker, given, held>>

(* cleanupExpiredSessions, hourly: rows whose access token has expired go,   *)
(* although their refresh token may live much longer.                       *)
CleanupExpiredSessions(expired) ==
  /\ expired # {}
  /\ row' = [l \in Login |-> IF l \in expired THEN None ELSE row[l]]
  /\ excused' = excused \cup expired
  /\ UNCHANGED <<issued, black, handler, revoker, given, held, revoked>>

(* cleanupExpiredRevocations *)
CleanupExpiredRevocations(expired) ==
  /\ expired # {}
  /\ black' = black \ expired
  /\ UNCHANGED <<issued, row, handler, revoker, historyVars>>

HandlerStep(h) ==
  \/ \E l \in Login, p \in Pair : LoginKc(h, l, p)
  \/ LoginPurge(h) \/ LoginCreate(h)
  \/ \E p \in Pair : ValidateStart(h, p)
  \/ BlacklistCheck(h) \/ SessionFind(h) \/ Introspect(h) \/ Touch(h)
  \/ \E l \in Login : RefreshFind(h, l)
  \/ \E p \in Pair : RefreshKc(h, p)
  \/ RefreshFindAgain(h) \/ RefreshSave(h) \/ RefreshAnswer(h)

SessionStep ==
  \/ \E h \in Handler : HandlerStep(h)
  \/ RevokeRead \/ RevokeBlacklist \/ RevokeDelete \/ RevokeFails
  \/ \E p \in Pair : RevokeToken(p)
  \/ \E l \in Login : RevokeSession(l)
  \/ \E expired \in SUBSET HasRow : CleanupExpiredSessions(expired)
  \/ \E expired \in SUBSET black : CleanupExpiredRevocations(expired)

-------------------------------------------------------------------------------
(***************************************************************************)
(* Properties                                                              *)
(***************************************************************************)

(* A session row only ever holds tokens that were issued for its own login,  *)
(* whatever refreshes, revocations and cleanups run meanwhile.              *)
SessionIsOwn ==
  \A l \in Login : row[l] # None => issued[row[l]] = l

(* Once the session of a login was revoked, a validateToken that starts      *)
(* afterwards never accepts a token of that login: neither one that was      *)
(* blacklisted nor one from a refresh that was under way, and not even when  *)
(* the blacklist entry has expired.                                         *)
RevokedStaysOut ==
  \A h \in Handler : handler[h].pc = "valid" => ~handler[h].late

(* The client of a login goes on with the tokens it was given last: only a   *)
(* revocation, the cleanup, two refreshes at once or a lost answer can make  *)
(* its session forget them.                                                 *)
KeepsSession ==
  \A l \in Login \ excused :
    held[l] # None /\ (\A h \in Handler : ~(handler[h].pc = "answer" /\ handler[h].login = l))
      => row[l] = held[l]
===============================================================================
