------------------------------- MODULE RateLimit -------------------------------
(***************************************************************************)
(* auth-service: RateLimitService.  checkLimit is three awaited statements *)
(* (delete what has expired, find the entry, then reset, increment or      *)
(* create it) without a transaction; it is called by authenticate and      *)
(* refreshToken of every process that serves the database.  Whatever fails *)
(* in it, a lost race included, ends in the catch, which ALLOWS the        *)
(* request.                                                                *)
(*                                                                         *)
(* A key of the model is a (key, bucket) pair of the code; the unit of     *)
(* time is a fraction of the window.                                       *)
(***************************************************************************)
EXTENDS Integers, FiniteSets

CONSTANTS Key,       \* (key, bucket) pairs
          Call,      \* concurrent calls of checkLimit
          Limit,     \* maxRequests of the bucket
          Window,    \* windowMs
          MaxTime,   \* bound on the clock
          MaxCount,  \* bound on an entry's count
          MaxId,     \* bound on the entries ever created
          None       \* null

ASSUME RateAssumption ==
  /\ IsFiniteSet(Call)
  /\ Limit \in Nat \ {0} /\ Window \in Nat \ {0} /\ MaxTime \in Nat
  /\ MaxCount \in Nat /\ MaxCount >= Limit
  /\ MaxId \in Nat
  /\ None \notin Key
  /\ None \notin [id : 0..MaxId, count : 1..MaxCount, start : 0..MaxTime,
                  expires : 0..(MaxTime + Window)]

VARIABLES now,       \* the clock
          entry,     \* the rateLimitEntry row of a key, or None
          nextId,    \* row ids are never used twice
          call,      \* the calls in flight
          won,       \* history: requests allowed since its count was last set to 1
          open       \* history: requests allowed since then after a lost race

vars == <<now, entry, nextId, call, won, open>>

Entry == [id : 0..MaxId, count : 1..MaxCount, start : 0..MaxTime,
          expires : 0..(MaxTime + Window)]
Step  == {"idle", "purge", "find", "reset", "increment", "create", "denied"}
Frame == [pc : Step, key : Key \cup {None}, at : 0..MaxTime,
          seen : Entry \cup {None}]
Idle   == [pc |-> "idle", key |-> None, at |-> 0, seen |-> None]
Denied == [pc |-> "denied", key |-> None, at |-> 0, seen |-> None]

TypeOK ==
  /\ now \in 0..MaxTime
  /\ entry \in [Key -> Entry \cup {None}]
  /\ nextId \in 0..MaxId
  /\ call \in [Call -> Frame]
  /\ won \in [Key -> 0..Limit]
  /\ open \in [Key -> Nat]
  /\ \A c \in Call :
       /\ call[c].pc \notin {"idle", "denied"} => call[c].key \in Key
       /\ call[c].pc \in {"reset", "increment"} => call[c].seen \in Entry

Init ==
  /\ now = 0
  /\ entry = [k \in Key |-> None]
  /\ nextId = 0
  /\ call = [c \in Call |-> Idle]
  /\ won = [k \in Key |-> 0]
  /\ open = [k \in Key |-> 0]

Answer(c, allowed) ==
  call' = [call EXCEPT ![c] = IF allowed THEN Idle ELSE Denied]

(* Mutant: "<" for "<=". *)
AllowedBelow(count) == count < Limit

Allowed(count) == count <= Limit

(* The catch: the request is allowed and nothing has been counted. *)
AllowUncounted(c, lostRaces) ==
  /\ open' = [open EXCEPT ![call[c].key] = @ + lostRaces]
  /\ Answer(c, TRUE)
  /\ UNCHANGED <<now, entry, nextId, won>>

-------------------------------------------------------------------------------
Start(c, k) ==
  /\ call[c].pc = "idle"
  /\ call' = [call EXCEPT ![c] = [pc |-> "purge", key |-> k, at |-> now, seen |-> None]]
  /\ UNCHANGED <<now, entry, nextId, won, open>>

(* deleteMany of every entry that had expired when the call began. *)
Unexpired(at) == [k \in Key |-> IF entry[k] # None /\ entry[k].expires < at
                                THEN None ELSE entry[k]]

Purge(c) ==
  /\ call[c].pc = "purge"
  /\ entry' = Unexpired(call[c].at)
  /\ call' = [call EXCEPT ![c] = [pc |-> "find", key |-> @.key, at |-> @.at, seen |-> None]]
  /\ UNCHANGED <<now, nextId, won, open>>

(* The branch taken on the entry that was found. *)
Branch(row, at) ==
  IF row = None THEN "create"
  ELSE IF row.start < at - Window THEN "reset" ELSE "increment"

Find(c) ==
  LET row == entry[call[c].key] IN
  /\ call[c].pc = "find"
  /\ call' = [call EXCEPT ![c] = [pc  |-> Branch(row, @.at), key |-> @.key,
                                  at  |-> @.at, seen |-> row]]
  /\ UNCHANGED <<now, entry, nextId, won, open>>

(* The row that was found is still there: updates are by its id. *)
Present(c) ==
  entry[call[c].key] # None /\ entry[call[c].key].id = call[c].seen.id

(* The window is over: the entry begins a new one. *)
Reset(c) ==
  LET k == call[c].key IN
  /\ call[c].pc = "reset"
  /\ Present(c)
  /\ entry' = [entry EXCEPT ![k] = [id |-> @.id, count |-> 1, start |-> call[c].at,
                                    expires |-> call[c].at + Window]]
  /\ won' = [won EXCEPT ![k] = IF Allowed(1) THEN 1 ELSE 0]
  /\ open' = [open EXCEPT ![k] = 0]
  /\ Answer(c, Allowed(1))
  /\ UNCHANGED <<now, nextId>>

Counted(k, count) ==
  /\ entry' = [entry EXCEPT ![k] = [id |-> @.id, count |-> count, start |-> @.start,
                                    expires |-> @.expires]]
  /\ won' = [won EXCEPT ![k] = IF Allowed(count) THEN @ + 1 ELSE @]
  /\ UNCHANGED <<now, nextId, open>>

(* Mutant: writes the count that was read, plus one. *)
IncrementRead(c) ==
  LET k == call[c].key IN
  /\ call[c].pc = "increment"
  /\ Present(c)
  /\ call[c].seen.count < MaxCount
  /\ Counted(k, call[c].seen.count + 1)
  /\ Answer(c, Allowed(call[c].seen.count + 1))

(* { increment: 1 }: the database adds one and answers with the new count. *)
Increment(c) ==
  LET k == call[c].key IN
  /\ call[c].pc = "increment"
  /\ Present(c)
  /\ entry[k].count < MaxCount
  /\ Counted(k, entry[k].count + 1)
  /\ Answer(c, Allowed(entry[k].count + 1))

(* The row is gone: the update throws. *)
UpdateLosesRace(c) ==
  /\ call[c].pc \in {"reset", "increment"}
  /\ ~Present(c)
  /\ AllowUncounted(c, 1)

(* Mutant: the first request of a window is not counted. *)
CreateAtZero(c) ==
  LET k == call[c].key IN
  /\ call[c].pc = "create"
  /\ entry[k] = None
  /\ nextId < MaxId
  /\ entry' = [entry EXCEPT ![k] = [id |-> nextId, count |-> 0, start |-> call[c].at,
                                    expires |-> call[c].at + Window]]
  /\ nextId' = nextId + 1
  /\ won' = [won EXCEPT ![k] = 0]
  /\ open' = [open EXCEPT ![k] = 0]
  /\ Answer(c, Allowed(0))
  /\ UNCHANGED now

Create(c) ==
  LET k == call[c].key IN
  /\ call[c].pc = "create"
  /\ entry[k] = None
  /\ nextId < MaxId
  /\ entry' = [entry EXCEPT ![k] = [id |-> nextId, count |-> 1, start |-> call[c].at,
                                    expires |-> call[c].at + Window]]
  /\ nextId' = nextId + 1
  /\ won' = [won EXCEPT ![k] = IF Allowed(1) THEN 1 ELSE 0]
  /\ open' = [open EXCEPT ![k] = 0]
  /\ Answer(c, Allowed(1))
  /\ UNCHANGED now

(* (key, bucket) is unique: the second of two concurrent creates throws. *)
CreateLosesRace(c) ==
  /\ call[c].pc = "create"
  /\ entry[call[c].key] # None
  /\ AllowUncounted(c, 1)

(* A statement fails for a reason of its own. *)
StatementFails(c) ==
  /\ call[c].pc \notin {"idle", "denied"}
  /\ AllowUncounted(c, 0)

(* The answer { allowed: false } reaches the caller. *)
DenialReturned(c) ==
  /\ call[c].pc = "denied"
  /\ Answer(c, TRUE)
  /\ UNCHANGED <<now, entry, nextId, won, open>>

(* cleanupExpiredEntries, hourly. *)
CleanupExpiredEntries ==
  /\ entry' = Unexpired(now)
  /\ UNCHANGED <<now, nextId, call, won, open>>

(* resetLimit deletes the entry; no caller in the repository. *)
ResetLimit(k) ==
  /\ entry' = [entry EXCEPT ![k] = None]
  /\ UNCHANGED <<now, nextId, call, won, open>>

Tick ==
  /\ now < MaxTime
  /\ now' = now + 1
  /\ UNCHANGED <<entry, nextId, call, won, open>>

CheckLimit(c) ==
  \/ \E k \in Key : Start(c, k)
  \/ Purge(c) \/ Find(c)
  \/ Reset(c) \/ Increment(c) \/ UpdateLosesRace(c)
  \/ Create(c) \/ CreateLosesRace(c)
  \/ StatementFails(c) \/ DenialReturned(c)

Next ==
  \/ \E c \in Call : CheckLimit(c)
  \/ CleanupExpiredEntries
  \/ \E k \in Key : ResetLimit(k)
  \/ Tick

Spec == Init /\ [][Next]_vars

-------------------------------------------------------------------------------
(***************************************************************************)
(* Properties                                                              *)
(***************************************************************************)

Lesser(a, b) == IF a < b THEN a ELSE b

(* The count of an entry is exact although calls interleave: of the requests *)
(* counted since checkLimit created or reset it, the first Limit were allowed *)
(* and no other.                                                             *)
GrantsMatchCount ==
  \A k \in Key : entry[k] # None => won[k] = Lesser(entry[k].count, Limit)

(* checkLimit denies a request only if the same entry has allowed Limit      *)
(* requests: no race, reset or cleanup turns a client away early.            *)
NoFalseDenial ==
  [][\A c \in Call : call[c].pc # "denied" /\ call'[c].pc = "denied"
                       => /\ won[call[c].key] = Limit
                          /\ entry[call[c].key] # None]_vars

(* Failing open costs little when what fails is only a race with another      *)
(* call: each of the other calls in flight slips past the count of an entry   *)
(* at most once, so it lets at most Limit + |Call| - 1 requests through.      *)
BurstBound ==
  \A k \in Key : entry[k] # None
               => won[k] + open[k] <= Limit + Cardinality(Call) - 1
===============================================================================
