---------------------------- MODULE RateLimit_proofs ----------------------------
(***************************************************************************)
(* Proofs about RateLimit.  The invariant that carries them has two parts  *)
(* besides the types: an entry's count is exact (GrantsMatchCount), and    *)
(* the calls that can still slip past an entry are always fewer than Call, *)
(* because the call that created it is not one of them (SlipsBounded).     *)
(***************************************************************************)
EXTENDS RateLimit, FiniteSetTheorems, TLAPS

(* The calls whose next statement must fail against the present entry. *)
Slipping(k) ==
  {c \in Call : /\ call[c].key = k
                /\ \/ call[c].pc = "create"
                   \/ call[c].pc \in {"reset", "increment"} /\ ~Present(c)}

SlipsBounded ==
  \A k \in Key : entry[k] # None =>
    open[k] + Cardinality(Slipping(k)) <= Cardinality(Call) - 1

RateInv == TypeOK /\ GrantsMatchCount /\ SlipsBounded

-------------------------------------------------------------------------------
LEMMA CallCount == Cardinality(Call) \in Nat
  BY RateAssumption, FS_CardinalityType

LEMMA SlippingCount ==
  \A k \in Key : Cardinality(Slipping(k)) \in Nat /\ Cardinality(Slipping(k)) <= Cardinality(Call)
<1>1. \A k \in Key : Slipping(k) \in SUBSET Call
  BY DEF Slipping
<1> QED
  BY <1>1, RateAssumption, FS_CardinalityType, FS_Subset

(* While the entries of the others stay, a set of slipping calls that does  *)
(* not grow keeps the bound.                                                *)
LEMMA SlippingShrinks ==
  ASSUME NEW k \in Key, Slipping(k)' \subseteq Slipping(k)
  PROVE  /\ Cardinality(Slipping(k)') \in Nat
         /\ Cardinality(Slipping(k)') <= Cardinality(Slipping(k))
<1>1. IsFiniteSet(Slipping(k)) /\ Slipping(k) \in SUBSET Call
  BY RateAssumption, FS_Subset DEF Slipping
<1> QED
  BY <1>1, FS_Subset, FS_CardinalityType

(* One call fewer can slip: the bound drops by one. *)
LEMMA SlippingLoses ==
  ASSUME NEW k \in Key, NEW c \in Slipping(k), Slipping(k)' \subseteq Slipping(k) \ {c}
  PROVE  /\ Cardinality(Slipping(k)') \in Nat
         /\ Cardinality(Slipping(k)') + 1 <= Cardinality(Slipping(k))
<1>1. IsFiniteSet(Slipping(k))
  BY RateAssumption, FS_Subset DEF Slipping
<1>2. /\ IsFiniteSet(Slipping(k) \ {c})
      /\ Cardinality(Slipping(k) \ {c}) = Cardinality(Slipping(k)) - 1
      /\ Cardinality(Slipping(k)) \in Nat
  BY <1>1, FS_RemoveElement, FS_CardinalityType
<1>3. /\ Cardinality(Slipping(k)') \in Nat
      /\ Cardinality(Slipping(k)') <= Cardinality(Slipping(k) \ {c})
  BY <1>2, FS_Subset, FS_CardinalityType
<1> QED
  BY <1>2, <1>3

(* A new entry leaves its creator out. *)
LEMMA SlippingWithout ==
  ASSUME NEW k \in Key, NEW c \in Call, Slipping(k)' \subseteq Call \ {c}
  PROVE  /\ Cardinality(Slipping(k)') \in Nat
         /\ Cardinality(Slipping(k)') <= Cardinality(Call) - 1
<1>1. /\ IsFiniteSet(Call \ {c})
      /\ Cardinality(Call \ {c}) = Cardinality(Call) - 1
  BY RateAssumption, FS_RemoveElement
<1> QED
  BY <1>1, FS_Subset, FS_CardinalityType

-------------------------------------------------------------------------------
LEMMA RateInit == Init => RateInv
<1> SUFFICES ASSUME Init PROVE RateInv
  OBVIOUS
<1>1. TypeOK
  BY RateAssumption DEF Init, TypeOK, Idle, Frame, Step
<1>2. GrantsMatchCount /\ SlipsBounded
  BY DEF Init, GrantsMatchCount, SlipsBounded
<1> QED
  BY <1>1, <1>2 DEF RateInv

(* A call that ends lets the entries be and no other call slip. *)
LEMMA EndsType ==
  ASSUME TypeOK, NEW c \in Call, NEW a \in BOOLEAN, Answer(c, a)
  PROVE  /\ call' \in [Call -> Frame]
         /\ \A b \in Call :
              /\ call'[b].pc \notin {"idle", "denied"} => call'[b].key \in Key
              /\ call'[b].pc \in {"reset", "increment"} => call'[b].seen \in Entry
         /\ \A b \in Call \ {c} : call'[b] = call[b]
         /\ call'[c].pc \in {"idle", "denied"}
<1>1. Idle \in Frame /\ Denied \in Frame
  BY RateAssumption DEF Idle, Denied, Frame, Step
<1> QED
  BY <1>1 DEF TypeOK, Answer, Idle, Denied

LEMMA AllowedType == \A n \in Nat : Allowed(n) \in BOOLEAN
  BY RateAssumption DEF Allowed
-------------------------------------------------------------------------------
LEMMA UnexpiredType ==
  ASSUME TypeOK, NEW at \in Nat
  PROVE  /\ Unexpired(at) \in [Key -> Entry \cup {None}]
         /\ \A k \in Key : Unexpired(at)[k] # None => Unexpired(at)[k] = entry[k]
  BY DEF TypeOK, Unexpired

LEMMA TypeStep == TypeOK /\ GrantsMatchCount /\ [Next]_vars => TypeOK'
<1> SUFFICES ASSUME TypeOK, GrantsMatchCount, [Next]_vars
             PROVE  TypeOK'
  OBVIOUS
<1> USE RateAssumption DEF TypeOK
<1>1. ASSUME NEW c \in Call, CheckLimit(c)
      PROVE  TypeOK'
  <2>0. call[c] \in Frame
    OBVIOUS
  <2>1. ASSUME NEW k \in Key, Start(c, k)
        PROVE  TypeOK'
    <3>1. [pc |-> "purge", key |-> k, at |-> now, seen |-> None] \in Frame
      BY DEF Frame, Step
    <3> QED
      BY <2>1, <3>1 DEF Start
  <2>2. CASE Purge(c)
    <3>1. call'[c] \in Frame /\ call'[c].key \in Key /\ call'[c].pc = "find"
      BY <2>0, <2>2 DEF Purge, Frame, Step
    <3>2. entry' \in [Key -> Entry \cup {None}]
      BY <2>0, <2>2, UnexpiredType DEF Purge, Frame
    <3>3. /\ call' \in [Call -> Frame]
          /\ \A b \in Call \ {c} : call'[b] = call[b]
      BY <2>0, <2>2, <3>1 DEF Purge
    <3> QED
      BY <2>2, <3>1, <3>2, <3>3 DEF Purge
  <2>3. CASE Find(c)
    <3>1. entry[call[c].key] \in Entry \cup {None}
      BY <2>3 DEF Find
    <3>2. /\ call'[c] \in Frame /\ call'[c].key \in Key
          /\ call'[c].pc \in {"reset", "increment"} => call'[c].seen \in Entry
      BY <2>0, <2>3, <3>1 DEF Find, Branch, Frame, Step
    <3>3. /\ call' \in [Call -> Frame]
          /\ \A b \in Call \ {c} : call'[b] = call[b]
      BY <2>0, <2>3, <3>2 DEF Find
    <3> QED
      BY <2>3, <3>2, <3>3 DEF Find
  <2>4. CASE Reset(c)
    <3>1. /\ call[c].key \in Key /\ entry[call[c].key] \in Entry
          /\ call[c].at \in 0..MaxTime
      BY <2>0, <2>4 DEF Reset, Present, Frame
    <3>2. entry' \in [Key -> Entry \cup {None}]
      BY <2>4, <3>1 DEF Reset, Entry
    <3>3. won' \in [Key -> 0..Limit] /\ open' \in [Key -> Nat]
      BY <2>4, <3>1 DEF Reset
    <3> QED
      BY <2>4, <3>2, <3>3, EndsType, AllowedType DEF Reset
  <2>5. CASE Increment(c)
    <3>1. call[c].key \in Key /\ entry[call[c].key] \in Entry
      BY <2>0, <2>5 DEF Increment, Present
    <3>2. entry' \in [Key -> Entry \cup {None}]
      BY <2>5, <3>1 DEF Increment, Counted, Entry
    <3>3. /\ won[call[c].key] = Lesser(entry[call[c].key].count, Limit)
          /\ entry[call[c].key].count \in Nat
      BY <2>5, <3>1 DEF GrantsMatchCount, Entry
    <3>4. won' \in [Key -> 0..Limit]
      BY <2>5, <3>1, <3>3 DEF Increment, Counted, Allowed, Lesser
    <3>5. Allowed(entry[call[c].key].count + 1) \in BOOLEAN
      BY <3>3, AllowedType
    <3> QED
      BY <2>5, <3>2, <3>4, <3>5, EndsType DEF Increment, Counted
  <2>6. CASE UpdateLosesRace(c) \/ CreateLosesRace(c) \/ StatementFails(c)
    <3>1. Answer(c, TRUE) /\ UNCHANGED <<now, entry, nextId, won>>
      BY <2>6 DEF UpdateLosesRace, CreateLosesRace, StatementFails, AllowUncounted
    <3>2. /\ call[c].key \in Key
          /\ \E n \in {0, 1} : open' = [open EXCEPT ![call[c].key] = @ + n]
      BY <2>6 DEF UpdateLosesRace, CreateLosesRace, StatementFails, AllowUncounted
    <3>3. open' \in [Key -> Nat]
      BY <3>2
    <3> QED
      BY <3>1, <3>3, EndsType
  <2>7. CASE Create(c)
    <3>1. call[c].key \in Key /\ call[c].at \in 0..MaxTime
      BY <2>0, <2>7 DEF Create, Frame
    <3>2. entry' \in [Key -> Entry \cup {None}]
      BY <2>7, <3>1 DEF Create, Entry
    <3>3. won' \in [Key -> 0..Limit] /\ open' \in [Key -> Nat] /\ nextId' \in 0..MaxId
      BY <2>7, <3>1 DEF Create
    <3> QED
      BY <2>7, <3>2, <3>3, EndsType, AllowedType DEF Create
  <2>8. CASE DenialReturned(c)
    BY <2>8, EndsType DEF DenialReturned
  <2> QED
    BY <1>1, <2>1, <2>2, <2>3, <2>4, <2>5, <2>6, <2>7, <2>8 DEF CheckLimit
<1>2. CASE CleanupExpiredEntries
  <2>1. entry' \in [Key -> Entry \cup {None}]
    BY <1>2, UnexpiredType DEF CleanupExpiredEntries
  <2> QED
    BY <1>2, <2>1 DEF CleanupExpiredEntries
<1>3. ASSUME NEW k \in Key, ResetLimit(k)
      PROVE  TypeOK'
  BY <1>3 DEF ResetLimit
<1>4. CASE Tick
  BY <1>4 DEF Tick
<1>5. CASE UNCHANGED vars
  BY <1>5 DEF vars
<1> QED
  BY <1>1, <1>2, <1>3, <1>4, <1>5 DEF Next
(* The count of an entry is exact: only its own statements change it, and   *)
(* each one moves won with it.                                              *)
LEMMA CountStep == TypeOK /\ GrantsMatchCount /\ [Next]_vars => GrantsMatchCount'
<1> SUFFICES ASSUME TypeOK, GrantsMatchCount, [Next]_vars, NEW k \in Key, entry'[k] # None
             PROVE  won'[k] = Lesser(entry'[k].count, Limit)
  BY DEF GrantsMatchCount
<1> USE RateAssumption
<1>1. CASE entry'[k] = entry[k] /\ won'[k] = won[k]
  BY <1>1 DEF GrantsMatchCount
<1>2. ASSUME NEW c \in Call, CheckLimit(c)
      PROVE  won'[k] = Lesser(entry'[k].count, Limit)
  <2>1. CASE Purge(c)
    BY <1>1, <2>1, UnexpiredType DEF Purge, TypeOK, Frame
  <2>2. CASE Reset(c)
    BY <1>1, <2>2 DEF Reset, TypeOK, Allowed, Lesser
  <2>3. CASE Increment(c)
    <3>1. CASE k = call[c].key
      <4>1. entry[k] # None /\ entry[k] \in Entry
        BY <2>3, <3>1 DEF Increment, Present, TypeOK
      <4>2. won[k] = Lesser(entry[k].count, Limit) /\ entry[k].count \in Nat
        BY <4>1 DEF GrantsMatchCount, Entry
      <4>3. /\ entry'[k].count = entry[k].count + 1
            /\ won'[k] = IF Allowed(entry[k].count + 1) THEN won[k] + 1 ELSE won[k]
        BY <2>3, <3>1 DEF Increment, Counted, TypeOK
      <4> QED
        BY <4>2, <4>3 DEF Allowed, Lesser
    <3>2. CASE k # call[c].key
      BY <1>1, <2>3, <3>2 DEF Increment, Counted, TypeOK
    <3> QED
      BY <3>1, <3>2
  <2>4. CASE Create(c)
    BY <1>1, <2>4 DEF Create, TypeOK, Allowed, Lesser
  <2>5. CASE \/ \E l \in Key : Start(c, l)
             \/ Find(c) \/ UpdateLosesRace(c) \/ CreateLosesRace(c)
             \/ StatementFails(c) \/ DenialReturned(c)
    BY <1>1, <2>5 DEF Start, Find, UpdateLosesRace, CreateLosesRace, StatementFails,
                      DenialReturned, AllowUncounted
  <2> QED
    BY <1>2, <2>1, <2>2, <2>3, <2>4, <2>5 DEF CheckLimit
<1>3. CASE CleanupExpiredEntries
  BY <1>1, <1>3, UnexpiredType DEF CleanupExpiredEntries, TypeOK
<1>4. ASSUME NEW l \in Key, ResetLimit(l)
      PROVE  won'[k] = Lesser(entry'[k].count, Limit)
  BY <1>1, <1>4 DEF ResetLimit, TypeOK
<1>5. CASE Tick \/ UNCHANGED vars
  BY <1>1, <1>5 DEF Tick, vars
<1> QED
  BY <1>2, <1>3, <1>4, <1>5 DEF Next
-------------------------------------------------------------------------------
(* A step of call c that lets the entry of k live and leaves c unable to    *)
(* slip past it: no other call becomes able to.                             *)
LEMMA SlippingKept ==
  ASSUME NEW k \in Key, NEW c \in Call,
         entry[k] # None, entry'[k] # None, entry'[k].id = entry[k].id,
         \A b \in Call \ {c} : call'[b] = call[b],
         c \notin Slipping(k)'
  PROVE  Slipping(k)' \subseteq Slipping(k) \ {c}
  BY DEF Slipping, Present

LEMMA SlipsKept ==
  ASSUME TypeOK, TypeOK', SlipsBounded, NEW k \in Key, NEW c \in Call,
         entry[k] # None, entry'[k] # None, entry'[k].id = entry[k].id,
         \A b \in Call \ {c} : call'[b] = call[b],
         c \notin Slipping(k)',
         \/ open'[k] <= open[k]
         \/ c \in Slipping(k) /\ open'[k] = open[k] + 1
  PROVE  open'[k] + Cardinality(Slipping(k)') <= Cardinality(Call) - 1
<1>1. Slipping(k)' \subseteq Slipping(k) \ {c}
  BY SlippingKept
<1>2. /\ open[k] + Cardinality(Slipping(k)) <= Cardinality(Call) - 1
      /\ open[k] \in Nat /\ open'[k] \in Nat
      /\ Cardinality(Slipping(k)) \in Nat /\ Cardinality(Call) \in Nat
  BY SlippingCount, CallCount DEF SlipsBounded, TypeOK
<1>3. CASE open'[k] <= open[k]
  <2>1. /\ Cardinality(Slipping(k)') \in Nat
        /\ Cardinality(Slipping(k)') <= Cardinality(Slipping(k))
    BY <1>1, SlippingShrinks
  <2> QED
    BY <1>2, <1>3, <2>1
<1>4. CASE c \in Slipping(k) /\ open'[k] = open[k] + 1
  <2>1. /\ Cardinality(Slipping(k)') \in Nat
        /\ Cardinality(Slipping(k)') + 1 <= Cardinality(Slipping(k))
    BY <1>1, <1>4, SlippingLoses
  <2> QED
    BY <1>2, <1>4, <2>1
<1> QED
  BY <1>3, <1>4

LEMMA SlipsStep == TypeOK /\ TypeOK' /\ SlipsBounded /\ [Next]_vars => SlipsBounded'
<1> SUFFICES ASSUME TypeOK, TypeOK', SlipsBounded, [Next]_vars, NEW k \in Key, entry'[k] # None
             PROVE  open'[k] + Cardinality(Slipping(k)') <= Cardinality(Call) - 1
  BY DEF SlipsBounded
<1> DEFINE Goal == open'[k] + Cardinality(Slipping(k)') <= Cardinality(Call) - 1
<1>a. open[k] \in Nat
  BY DEF TypeOK
<1>1. ASSUME NEW c \in Call, CheckLimit(c)
      PROVE  Goal
  <2>1. ASSUME NEW l \in Key, Start(c, l)
        PROVE  Goal
    <3>1. /\ \A b \in Call \ {c} : call'[b] = call[b]
          /\ c \notin Slipping(k)'
          /\ entry' = entry /\ open' = open
      BY <2>1 DEF Start, TypeOK, Slipping
    <3> QED
      BY <1>a, <3>1, SlipsKept
  <2>2. CASE Purge(c)
    <3>1. /\ \A b \in Call \ {c} : call'[b] = call[b]
          /\ c \notin Slipping(k)'
          /\ open' = open
      BY <2>2 DEF Purge, TypeOK, Slipping
    <3>2. entry'[k] = entry[k]
      BY <2>2, UnexpiredType DEF Purge, TypeOK, Frame
    <3> QED
      BY <1>a, <3>1, <3>2, SlipsKept
  <2>3. CASE Find(c)
    <3>1. /\ \A b \in Call \ {c} : call'[b] = call[b]
          /\ call'[c].key = call[c].key /\ call'[c].seen = entry[call[c].key]
          /\ call'[c].pc = Branch(entry[call[c].key], call[c].at)
          /\ entry' = entry /\ open' = open
      BY <2>3 DEF Find, TypeOK
    <3>2. c \notin Slipping(k)'
      BY <3>1 DEF Slipping, Present, Branch
    <3> QED
      BY <1>a, <3>1, <3>2, SlipsKept
  <2>4. CASE Reset(c) \/ Increment(c)
    <3>1. /\ \A b \in Call \ {c} : call'[b] = call[b]
          /\ call'[c].pc \in {"idle", "denied"}
      BY <2>4, EndsType, AllowedType, RateAssumption
         DEF Reset, Increment, Present, TypeOK, Entry
    <3>2. entry[k] # None /\ entry'[k].id = entry[k].id
      BY <2>4 DEF Reset, Increment, Counted, Present, TypeOK
    <3>3. open'[k] <= open[k]
      BY <1>a, <2>4 DEF Reset, Increment, Counted, TypeOK
    <3>4. c \notin Slipping(k)'
      BY <3>1 DEF Slipping
    <3> QED
      BY <3>1, <3>2, <3>3, <3>4, SlipsKept
  <2>5. CASE UpdateLosesRace(c) \/ CreateLosesRace(c)
    <3>1. /\ Answer(c, TRUE) /\ entry' = entry /\ call[c].key \in Key
          /\ open' = [open EXCEPT ![call[c].key] = @ + 1]
      BY <2>5 DEF UpdateLosesRace, CreateLosesRace, AllowUncounted, TypeOK
    <3>2. /\ \A b \in Call \ {c} : call'[b] = call[b]
          /\ c \notin Slipping(k)'
      BY <3>1, EndsType DEF Slipping
    <3>3. CASE call[c].key = k
      <4>1. c \in Slipping(k) /\ open'[k] = open[k] + 1
        BY <2>5, <3>1, <3>3 DEF UpdateLosesRace, CreateLosesRace, Slipping, TypeOK
      <4> QED
        BY <3>1, <3>2, <4>1, SlipsKept
    <3>4. CASE call[c].key # k
      <4>1. open'[k] = open[k]
        BY <3>1, <3>4 DEF TypeOK
      <4> QED
        BY <1>a, <3>1, <3>2, <4>1, SlipsKept
    <3> QED
      BY <3>3, <3>4
  <2>6. CASE Create(c)
    <3>1. /\ \A b \in Call \ {c} : call'[b] = call[b]
          /\ call'[c].pc \in {"idle", "denied"}
      BY <2>6, EndsType, AllowedType DEF Create
    <3>2. c \notin Slipping(k)'
      BY <3>1 DEF Slipping
    <3>3. CASE call[c].key = k
      <4>1. open'[k] = 0
        BY <2>6, <3>3 DEF Create, TypeOK
      <4>2. Slipping(k)' \subseteq Call \ {c}
        BY <3>2 DEF Slipping
      <4> QED
        BY <4>1, <4>2, SlippingWithout, CallCount
    <3>4. CASE call[c].key # k
      <4>1. entry'[k] = entry[k] /\ open'[k] = open[k]
        BY <2>6, <3>4 DEF Create, TypeOK
      <4> QED
        BY <1>a, <3>1, <3>2, <4>1, SlipsKept
    <3> QED
      BY <3>3, <3>4
  <2>7. CASE StatementFails(c) \/ DenialReturned(c)
    <3>1. Answer(c, TRUE) /\ entry' = entry /\ open'[k] = open[k]
      <4>1. CASE StatementFails(c)
        <5>1. open' = [open EXCEPT ![call[c].key] = @ + 0] /\ open \in [Key -> Nat]
          BY <4>1 DEF StatementFails, AllowUncounted, TypeOK
        <5>2. open'[k] = open[k]
          BY <1>a, <5>1
        <5> QED
          BY <4>1, <5>2 DEF StatementFails, AllowUncounted
      <4>2. CASE DenialReturned(c)
        BY <4>2 DEF DenialReturned
      <4> QED
        BY <2>7, <4>1, <4>2
    <3>2. /\ \A b \in Call \ {c} : call'[b] = call[b]
          /\ c \notin Slipping(k)'
      BY <3>1, EndsType DEF Slipping
    <3> QED
      BY <1>a, <3>1, <3>2, SlipsKept
  <2> QED
    BY <1>1, <2>1, <2>2, <2>3, <2>4, <2>5, <2>6, <2>7 DEF CheckLimit
<1>2. CASE /\ entry'[k] = entry[k] /\ call' = call /\ open' = open
  <2>1. Slipping(k)' \subseteq Slipping(k)
    BY <1>2 DEF Slipping, Present
  <2> QED
    BY <1>a, <1>2, <2>1, SlippingShrinks, SlippingCount, CallCount DEF SlipsBounded
<1>3. CASE CleanupExpiredEntries
  BY <1>2, <1>3, UnexpiredType DEF CleanupExpiredEntries, TypeOK
<1>4. ASSUME NEW l \in Key, ResetLimit(l)
      PROVE  Goal
  BY <1>2, <1>4 DEF ResetLimit, TypeOK
<1>5. CASE Tick \/ UNCHANGED vars
  BY <1>2, <1>5 DEF Tick, vars
<1> QED
  BY <1>1, <1>3, <1>4, <1>5 DEF Next
-------------------------------------------------------------------------------
LEMMA RateInvariant == Spec => []RateInv
<1>1. RateInv /\ [Next]_vars => RateInv'
  BY TypeStep, CountStep, SlipsStep DEF RateInv
<1> QED
  BY RateInit, <1>1, PTL DEF Spec

(* Type correctness of checkLimit's entries and calls. *)
THEOREM TypeCorrect == Spec => []TypeOK
<1>1. RateInv => TypeOK
  BY DEF RateInv
<1> QED
  BY <1>1, RateInvariant, PTL

(* Of the requests an entry counts, the first Limit are allowed.  The        *)
(* database's increment makes checkLimit exact although calls interleave.   *)
THEOREM CountExact == Spec => []GrantsMatchCount
<1>1. RateInv => GrantsMatchCount
  BY DEF RateInv
<1> QED
  BY <1>1, RateInvariant, PTL

(* Calls that lose a race are allowed by the catch, but at most one per       *)
(* other call in the life of an entry.                                      *)
THEOREM BurstBounded == Spec => []BurstBound
<1>1. RateInv => BurstBound
  <2> SUFFICES ASSUME RateInv, NEW k \in Key, entry[k] # None
               PROVE  won[k] + open[k] <= Limit + Cardinality(Call) - 1
    BY DEF BurstBound
  <2>1. open[k] + Cardinality(Slipping(k)) <= Cardinality(Call) - 1
    BY DEF RateInv, SlipsBounded
  <2>2. /\ won[k] \in Nat /\ won[k] <= Limit /\ open[k] \in Nat
        /\ Limit \in Nat
    BY RateAssumption DEF RateInv, TypeOK
  <2> QED
    BY <2>1, <2>2, SlippingCount, CallCount
<1> QED
  BY <1>1, RateInvariant, PTL

(* checkLimit turns a request away only when the entry has allowed Limit.    *)
THEOREM DenialsAreDue == Spec => NoFalseDenial
<1> DEFINE Due == \A c \in Call : call[c].pc # "denied" /\ call'[c].pc = "denied"
                       => /\ won[call[c].key] = Limit
                          /\ entry[call[c].key] # None
<1>1. RateInv /\ [Next]_vars => [Due]_vars
  <2> SUFFICES ASSUME RateInv, [Next]_vars, NEW c \in Call,
                      call[c].pc # "denied", call'[c].pc = "denied"
               PROVE  won[call[c].key] = Limit /\ entry[call[c].key] # None
    OBVIOUS
  <2> USE RateAssumption
  <2>0. TypeOK /\ call[c] \in Frame
    BY DEF RateInv, TypeOK
  <2>1. ASSUME NEW b \in Call, CheckLimit(b)
        PROVE  won[call[c].key] = Limit /\ entry[call[c].key] # None
    <3>1. CASE Increment(b)
      <4>1. b = c
        BY <2>0, <3>1 DEF Increment, Answer, TypeOK
      <4>2. /\ entry[call[c].key] # None /\ call[c].key \in Key
            /\ ~Allowed(entry[call[c].key].count + 1)
        BY <2>0, <3>1, <4>1 DEF Increment, Present, Answer, TypeOK, Idle
      <4>3. /\ won[call[c].key] = Lesser(entry[call[c].key].count, Limit)
            /\ entry[call[c].key].count \in Nat
        BY <2>0, <4>2 DEF RateInv, GrantsMatchCount, TypeOK, Entry
      <4> QED
        BY <4>2, <4>3 DEF Allowed, Lesser
    <3>2. CASE Reset(b) \/ Create(b)
      BY <2>0, <3>2 DEF Reset, Create, Answer, Allowed, Idle, TypeOK
    <3>3. CASE \/ UpdateLosesRace(b) \/ CreateLosesRace(b)
               \/ StatementFails(b) \/ DenialReturned(b)
      BY <2>0, <3>3 DEF UpdateLosesRace, CreateLosesRace, StatementFails, DenialReturned,
                        AllowUncounted, Answer, Idle, TypeOK
    <3>4. CASE \/ \E k \in Key : Start(b, k)
               \/ Purge(b) \/ Find(b)
      BY <2>0, <3>4 DEF Start, Purge, Find, Branch, TypeOK
    <3> QED
      BY <2>1, <3>1, <3>2, <3>3, <3>4 DEF CheckLimit
  <2>2. CASE \/ CleanupExpiredEntries \/ \E k \in Key : ResetLimit(k)
             \/ Tick \/ UNCHANGED vars
    BY <2>2 DEF CleanupExpiredEntries, ResetLimit, Tick, vars
  <2> QED
    BY <2>1, <2>2 DEF Next
<1> QED
  BY <1>1, RateInvariant, PTL DEF Spec, NoFalseDenial
===============================================================================
