------------------------- MODULE MCServices_proofs -------------------------
(***************************************************************************)
(* Proofs about the components MCServices composes, and about their        *)
(* composition: what the run of MCServices checks of a small instance      *)
(* holds for every value of the constants that satisfies                   *)
(* ServicesAssumption.                                                     *)
(*                                                                         *)
(* Each part is about one component: its inductive invariant (XInv, made   *)
(* of named parts), what the operators it is built from return, a lemma    *)
(* for each kind of step, the initial states (XInitial), every step        *)
(* (XStep), and what the invariant implies (XHeld).  The last part has the *)
(* theorems.  What an instance takes from FiniteSets is a symbol of its    *)
(* own; XFinite says that it is the one of the library.                    *)
(***************************************************************************)
EXTENDS MCServices, Integers, TLAPS, FiniteSetTheorems, SequenceTheorems, FunctionTheorems

(* What is left of a sequence when one of its members is taken out.        *)
LEMMA Removed ==
  ASSUME NEW S, NEW s \in Seq(S), NEW p \in 1..Len(s)
  PROVE  LET t == SubSeq(s, 1, p - 1) \o SubSeq(s, p + 1, Len(s))
         IN /\ t \in Seq(S) /\ Len(t) = Len(s) - 1
            /\ \A i \in 1..(Len(s) - 1) : t[i] = IF i < p THEN s[i] ELSE s[i + 1]
<1> DEFINE a == SubSeq(s, 1, p - 1)
           b == SubSeq(s, p + 1, Len(s))
<1>1. Len(s) \in Nat /\ p \in Int /\ p - 1 \in Int /\ p + 1 \in Int /\ Len(s) \in Int
  BY LenProperties
<1>2. \A i \in 1..Len(s) : s[i] \in S
  BY ElementOfSeq
<1>3. \A i \in 1..(p - 1) : s[i] \in S
  BY <1>1, <1>2
<1>4. \A i \in (p + 1)..Len(s) : s[i] \in S
  BY <1>1, <1>2
<1>5. /\ a \in Seq(S) /\ Len(a) = p - 1
      /\ \A i \in 1..(p - 1) : a[i] = s[i]
  <2>1. /\ a \in Seq(S) /\ Len(a) = IF 1 <= p - 1 THEN (p - 1) - 1 + 1 ELSE 0
        /\ \A i \in 1..((p - 1) - 1 + 1) : a[i] = s[1 + i - 1]
    BY <1>1, <1>3, SubSeqProperties
  <2> QED
    BY <1>1, <2>1
<1>6. /\ b \in Seq(S) /\ Len(b) = Len(s) - p
      /\ \A i \in 1..(Len(s) - p) : b[i] = s[p + i]
  <2>1. /\ b \in Seq(S) /\ Len(b) = IF p + 1 <= Len(s) THEN Len(s) - (p + 1) + 1 ELSE 0
        /\ \A i \in 1..(Len(s) - (p + 1) + 1) : b[i] = s[(p + 1) + i - 1]
    BY <1>1, <1>4, SubSeqProperties
  <2> QED
    BY <1>1, <2>1
<1>7. /\ a \o b \in Seq(S) /\ Len(a \o b) = Len(a) + Len(b)
      /\ \A i \in 1..(Len(a) + Len(b)) : (a \o b)[i] = IF i <= Len(a) THEN a[i] ELSE b[i - Len(a)]
  BY <1>5, <1>6, ConcatProperties
<1> HIDE DEF a, b
<1>8. ASSUME NEW i \in 1..(Len(s) - 1)
      PROVE  (a \o b)[i] = IF i < p THEN s[i] ELSE s[i + 1]
  <2>1. i \in Nat /\ i \in 1..(Len(a) + Len(b))
    BY <1>1, <1>5, <1>6
  <2>2. CASE i < p
    <3>1. (a \o b)[i] = a[i] /\ i \in 1..(p - 1)
      BY <1>1, <1>5, <1>7, <2>1, <2>2
    <3> QED
      BY <1>5, <2>2, <3>1
  <2>3. CASE ~(i < p)
    <3>1. (a \o b)[i] = b[i - (p - 1)] /\ i - (p - 1) \in 1..(Len(s) - p)
      BY <1>1, <1>5, <1>7, <2>1, <2>3
    <3>2. p + (i - (p - 1)) = i + 1
      BY <1>1, <2>1
    <3> QED
      BY <1>6, <2>3, <3>1, <3>2
  <2> QED
    BY <2>2, <2>3
<1>9. Len(a \o b) = Len(s) - 1
  BY <1>1, <1>5, <1>6, <1>7
<1> QED
  BY <1>7, <1>8, <1>9 DEF a, b

-----------------------------------------------------------------------------
(***************************************************************************)
(* PaymentBilling.                                                         *)
(***************************************************************************)
(* What it counts is what the library counts.                               *)
LEMMA PaymentFinite == \A S : Payment!Cardinality(S) = Cardinality(S) /\ (Payment!IsFiniteSet(S) <=> IsFiniteSet(S))
  BY DEF Payment!Cardinality, Cardinality, Payment!IsFiniteSet, IsFiniteSet

CustomerOps     == {"createCustomer", "updateCustomer"}
SubscriptionOps == {"createSubscription", "updateSubscription", "cancelSubscription",
                    "reactivateSubscription", "recordUsage"}
MethodOps       == {"addPaymentMethod", "addDefaultMethod", "removePaymentMethod",
                    "setDefaultPaymentMethod"}

(* Which call is about what: the subject fits the operation.               *)
PayCallsFit ==
  \A c \in Callers : calls[c] # Payment!Idle =>
    LET k == calls[c] IN
    /\ k.op \in CustomerOps => k.of \in Customers
    /\ k.op \in SubscriptionOps => k.of \in Subscriptions
    /\ k.op \in MethodOps => k.of \in Methods
    /\ k.op = "generateInvoice" => k.of \in Invoices
    /\ k.op = "webhook" => k.of \in Events

PayTyped == Payment!TypeOK /\ PayCallsFit

(* What a call is about is a customer, or it is a webhook.                 *)
LEMMA PaySubjects ==
  ASSUME Payment!PaymentAssumption
  PROVE  /\ \A u \in Customers : Payment!About(u) = {u}
         /\ \A e \in Events : Payment!About(e) = {}
         /\ \A x \in Subscriptions \cup Methods \cup Invoices : Payment!About(x) = {Owner[x]} /\ Owner[x] \in Customers
         /\ \A x \in Payment!Subject : Payment!About(x) \subseteq Customers
  BY DEF Payment!PaymentAssumption, Payment!About, Payment!Subject

(* The services begin with every variable in its type.                     *)
LEMMA PayTypedInit == Payment!PaymentAssumption /\ Payment!Init => PayTyped
  BY DEF Payment!PaymentAssumption, Payment!Init, PayTyped, PayCallsFit, Payment!TypeOK,
         Payment!Idle

(* What the control of a call does to the calls, whatever it does else.    *)
ControlTyped ==
  /\ calls \in [Callers -> Payment!CallRecord \cup {Payment!Idle}]
  /\ made \in 0..MaxCalls /\ clean \subseteq Customers /\ faults \subseteq Faults
  /\ PayCallsFit

Fits(op, x) ==
  \/ op \in CustomerOps /\ x \in Customers
  \/ op \in SubscriptionOps /\ x \in Subscriptions
  \/ op \in MethodOps /\ x \in Methods
  \/ op = "generateInvoice" /\ x \in Invoices
  \/ op = "webhook" /\ x \in Events

(* No record of a call is that of an idle caller.                          *)
LEMMA IdleIsNone == Payment!Idle \notin Payment!CallRecord
  BY DEF Payment!Idle, Payment!CallRecord

(* A call that begins is written down with its own number.                 *)
LEMMA BeginTyped ==
  ASSUME Payment!PaymentAssumption, PayTyped, NEW c \in Callers, NEW op, NEW x, Fits(op, x),
         NEW pc \in {"lago", "row", "mark", "catch"}, Payment!Begin(c, op, x, pc)
  PROVE  /\ ControlTyped'
         /\ calls'[c] # Payment!Idle /\ calls'[c] \in Payment!CallRecord
         /\ calls'[c].op = op /\ calls'[c].of = x /\ calls'[c].pc = pc /\ calls'[c].n = made + 1
         /\ \A d \in Callers \ {c} : calls'[d] = calls[d]
<1>1. op \in Payment!Op /\ x \in Payment!Subject
  BY DEF Fits, Payment!Op, Payment!Subject, CustomerOps, SubscriptionOps, MethodOps
<1>2. made + 1 \in 1..MaxCalls /\ made' = made + 1 /\ made' \in 0..MaxCalls
  BY DEF PayTyped, Payment!TypeOK, Payment!Begin, Payment!PaymentAssumption
<1>3. [op |-> op, of |-> x, pc |-> pc, n |-> made + 1] \in Payment!CallRecord
  BY <1>1, <1>2 DEF Payment!CallRecord
<1>4. calls' = [calls EXCEPT ![c] = [op |-> op, of |-> x, pc |-> pc, n |-> made + 1]]
  BY DEF Payment!Begin
<1>5. calls \in [Callers -> Payment!CallRecord \cup {Payment!Idle}]
  BY DEF PayTyped, Payment!TypeOK
<1>6. /\ calls'[c] = [op |-> op, of |-> x, pc |-> pc, n |-> made + 1]
      /\ \A d \in Callers \ {c} : calls'[d] = calls[d]
      /\ calls' \in [Callers -> Payment!CallRecord \cup {Payment!Idle}]
  BY <1>3, <1>4, <1>5
<1>7. clean' \subseteq Customers /\ faults' \subseteq Faults
  BY DEF Payment!Begin, PayTyped, Payment!TypeOK
<1>8. PayCallsFit'
  BY <1>3, <1>6 DEF PayTyped, PayCallsFit, Fits, CustomerOps, SubscriptionOps, MethodOps
<1> QED
  BY <1>2, <1>3, <1>6, <1>7, <1>8, IdleIsNone DEF ControlTyped

(* A call that goes on changes its place and nothing else of itself.       *)
LEMMA GotoTyped ==
  ASSUME Payment!PaymentAssumption, PayTyped, NEW c \in Callers, calls[c] # Payment!Idle,
         NEW pc \in {"lago", "row", "mark", "catch"}, Payment!Goto(c, pc)
  PROVE  /\ ControlTyped'
         /\ calls'[c] = [calls[c] EXCEPT !.pc = pc] /\ calls'[c] \in Payment!CallRecord
         /\ calls'[c].op = calls[c].op /\ calls'[c].of = calls[c].of
         /\ calls'[c].n = calls[c].n /\ calls'[c].pc = pc
         /\ \A d \in Callers \ {c} : calls'[d] = calls[d]
<1>1. calls \in [Callers -> Payment!CallRecord \cup {Payment!Idle}] /\ calls[c] \in Payment!CallRecord
  BY DEF PayTyped, Payment!TypeOK
<1>2. calls' = [calls EXCEPT ![c] = [calls[c] EXCEPT !.pc = pc]]
  BY DEF Payment!Goto
<1>3. [calls[c] EXCEPT !.pc = pc] \in Payment!CallRecord
  BY <1>1 DEF Payment!CallRecord
<1>4. /\ calls'[c] = [calls[c] EXCEPT !.pc = pc]
      /\ \A d \in Callers \ {c} : calls'[d] = calls[d]
      /\ calls' \in [Callers -> Payment!CallRecord \cup {Payment!Idle}]
  BY <1>1, <1>2, <1>3
<1>5. /\ calls'[c].op = calls[c].op /\ calls'[c].of = calls[c].of
      /\ calls'[c].n = calls[c].n /\ calls'[c].pc = pc
  BY <1>1, <1>4 DEF Payment!CallRecord
<1>6. PayCallsFit'
  BY <1>4, <1>5 DEF PayTyped, PayCallsFit
<1> QED
  BY <1>3, <1>4, <1>5, <1>6 DEF ControlTyped, Payment!Goto, PayTyped, Payment!TypeOK

(* A call that returns, or is refused, is gone; the others stay.           *)
LEMMA EndTyped ==
  ASSUME Payment!PaymentAssumption, PayTyped, NEW c \in Callers, Payment!Return(c) \/ Payment!Refused(c)
  PROVE  /\ ControlTyped' /\ calls'[c] = Payment!Idle
         /\ \A d \in Callers \ {c} : calls'[d] = calls[d]
<1>1. calls \in [Callers -> Payment!CallRecord \cup {Payment!Idle}]
  BY DEF PayTyped, Payment!TypeOK
<1>2. calls' = [calls EXCEPT ![c] = Payment!Idle]
  BY DEF Payment!Return, Payment!Refused
<1>3. PayCallsFit'
  BY <1>1, <1>2 DEF PayTyped, PayCallsFit
<1> QED
  BY <1>1, <1>2, <1>3 DEF ControlTyped, Payment!Return, Payment!Refused, PayTyped, Payment!TypeOK

-----------------------------------------------------------------------------
(* The types are kept.                                                     *)

DataTyped ==
  /\ customer \in [Customers -> 0..MaxCalls] /\ atLago \in [Customers -> 0..MaxCalls]
  /\ status \in [Subscriptions -> {"none", "ACTIVE", "CANCELED"}]
  /\ items \in [Subscriptions -> SUBSET (1..MaxCalls)]
  /\ billed \in [Customers -> Nat]
  /\ used \in [Subscriptions -> [rows: Nat, lago: Nat]]
  /\ method \in [Methods -> {"none", "plain", "default"}]
  /\ invoice \in [Invoices -> {"none", "DRAFT", "PAID"}]
  /\ event \in [Events -> {"none", "stored", "error", "processed"}]

(* Types split in those of the calls and those of the data.                *)
LEMMA PayTypedParts == PayTyped <=> ControlTyped /\ DataTyped
  BY DEF PayTyped, Payment!TypeOK, ControlTyped, DataTyped

(* And they come together again after a step.                              *)
LEMMA PayTypedNext == ControlTyped' /\ DataTyped' => PayTyped'
  BY DEF PayTyped, Payment!TypeOK, ControlTyped, DataTyped

(* A call that goes on is one that was typed.                              *)
LEMMA CallUnderWay ==
  ASSUME Payment!PaymentAssumption, PayTyped, NEW c \in Callers, calls[c] # Payment!Idle
  PROVE  /\ calls[c] \in Payment!CallRecord /\ calls[c].n \in 1..MaxCalls /\ calls[c].n \in 0..MaxCalls
         /\ calls[c].of \in Payment!Subject
  BY DEF PayTyped, Payment!TypeOK, Payment!CallRecord, Payment!PaymentAssumption

(* createCustomer and updateCustomer keep the types.                       *)
LEMMA CustomerTyped ==
  ASSUME Payment!PaymentAssumption, PayTyped, NEW c \in Callers, NEW u \in Customers,
         Payment!CreateCustomer(c, u) \/ Payment!UpdateCustomer(c, u)
  PROVE  PayTyped'
<1> USE DEF Payment!Kept, Payment!people, Payment!plans
<1>1. ASSUME NEW op \in CustomerOps, Payment!Begin(c, op, u, "lago"), UNCHANGED <<Payment!people, Payment!plans, event, method, invoice>>
      PROVE  PayTyped'
  BY <1>1, BeginTyped, PayTypedParts, PayTypedNext DEF DataTyped, Fits
<1>2. ASSUME NEW op \in CustomerOps, Payment!In(c, op, u, "lago"), Payment!LagoCustomer(c, u), Payment!Goto(c, "row"),
             UNCHANGED <<customer, Payment!plans, event, method, invoice>>
      PROVE  PayTyped'
  BY <1>2, GotoTyped, CallUnderWay, PayTypedParts, PayTypedNext
     DEF DataTyped, Payment!In, Payment!LagoCustomer
<1>3. ASSUME NEW op \in CustomerOps, Payment!In(c, op, u, "row"), customer' = [customer EXCEPT ![u] = calls[c].n],
             Payment!Return(c), UNCHANGED <<atLago, Payment!plans, event, method, invoice>>
      PROVE  PayTyped'
  BY <1>3, EndTyped, CallUnderWay, PayTypedParts, PayTypedNext DEF DataTyped, Payment!In
<1>4. ASSUME Payment!Refused(c), UNCHANGED <<Payment!people, Payment!plans, event, method, invoice>>
      PROVE  PayTyped'
  BY <1>4, EndTyped, PayTypedParts, PayTypedNext DEF DataTyped
<1> QED
  BY <1>1, <1>2, <1>3, <1>4 DEF Payment!CreateCustomer, Payment!UpdateCustomer, CustomerOps

(* So do the five operations on a subscription,                            *)
LEMMA SubscriptionTyped ==
  ASSUME Payment!PaymentAssumption, PayTyped, NEW c \in Callers, NEW s \in Subscriptions,
         \/ Payment!CreateSubscription(c, s) \/ Payment!UpdateSubscription(c, s) \/ Payment!RecordUsage(c, s)
         \/ Payment!CancelSubscription(c, s) \/ Payment!ReactivateSubscription(c, s)
  PROVE  PayTyped'
<1> USE DEF Payment!Kept, Payment!people
<1> DEFINE Else == UNCHANGED <<Payment!people, event, method, invoice>>
<1>0. Owner[s] \in Customers
  BY PaySubjects
<1>1. ASSUME NEW op \in SubscriptionOps, NEW pc \in {"lago", "row"}, Payment!Begin(c, op, s, pc),
             items' = items \/ items' = [items EXCEPT ![s] = {}], UNCHANGED <<status, billed, used>>, Else
      PROVE  PayTyped'
  <2>1. ControlTyped'
    BY <1>1, BeginTyped DEF Fits
  <2>2. DataTyped'
    BY <1>1, PayTypedParts DEF DataTyped
  <2> QED
    BY <2>1, <2>2, PayTypedNext
<1>2. ASSUME calls[c] # Payment!Idle, Payment!Goto(c, "row"), Payment!LagoSubscribe(Owner[s]) \/ Payment!LagoCancel(Owner[s]),
             UNCHANGED <<status, items, used>>, Else
      PROVE  PayTyped'
  <2>1. ControlTyped'
    BY <1>2, GotoTyped
  <2>2. billed' \in [Customers -> Nat]
    <3>1. billed[Owner[s]] \in Nat
      BY <1>0, PayTypedParts DEF DataTyped
    <3>2. PICK k \in Nat : billed' = [billed EXCEPT ![Owner[s]] = k]
      BY <1>2, <3>1 DEF Payment!LagoSubscribe, Payment!LagoCancel
    <3> QED
      BY <3>2, PayTypedParts DEF DataTyped
  <2>3. DataTyped'
    BY <1>2, <2>2, PayTypedParts DEF DataTyped
  <2> QED
    BY <2>1, <2>3, PayTypedNext
<1>3. ASSUME NEW st \in {"ACTIVE", "CANCELED"}, calls[c] # Payment!Idle, Payment!Return(c), status' = [status EXCEPT ![s] = st],
             items' = items \/ items' = [items EXCEPT ![s] = {calls[c].n}],
             UNCHANGED <<billed, used>>, Else
      PROVE  PayTyped'
  BY <1>3, EndTyped, CallUnderWay, PayTypedParts, PayTypedNext DEF DataTyped
<1>4. ASSUME Payment!Refused(c), UNCHANGED Payment!plans, Else
      PROVE  PayTyped'
  BY <1>4, EndTyped, PayTypedParts, PayTypedNext DEF DataTyped, Payment!plans
<1>5. ASSUME calls[c] # Payment!Idle, Payment!Return(c), items' = [items EXCEPT ![s] = @ \cup {calls[c].n}],
             UNCHANGED <<status, billed, used>>, Else
      PROVE  PayTyped'
  BY <1>5, EndTyped, CallUnderWay, PayTypedParts, PayTypedNext DEF DataTyped
<1>6. ASSUME calls[c] # Payment!Idle, Payment!LagoEvent(s), Payment!Goto(c, "row"), UNCHANGED <<status, items, billed>>, Else
      PROVE  PayTyped'
  <2> DEFINE more == [used[s] EXCEPT !.lago = @ + 1]
  <2>1. more \in [rows: Nat, lago: Nat]
    BY PayTypedParts DEF DataTyped
  <2> HIDE DEF more
  <2>2. used' = used \/ used' = [used EXCEPT ![s] = more]
    BY <1>6 DEF Payment!LagoEvent, more
  <2>3. used' \in [Subscriptions -> [rows: Nat, lago: Nat]]
    BY <2>1, <2>2, PayTypedParts DEF DataTyped
  <2>4. ControlTyped'
    BY <1>6, GotoTyped
  <2>5. DataTyped'
    BY <1>6, <2>3, PayTypedParts DEF DataTyped
  <2> QED
    BY <2>4, <2>5, PayTypedNext
<1>7. ASSUME Payment!Return(c), used' = [used EXCEPT ![s].rows = @ + 1], UNCHANGED <<status, items, billed>>, Else
      PROVE  PayTyped'
  <2> DEFINE more == [used[s] EXCEPT !.rows = @ + 1]
  <2>1. more \in [rows: Nat, lago: Nat]
    BY PayTypedParts DEF DataTyped
  <2> HIDE DEF more
  <2>2. used' = [used EXCEPT ![s] = more]
    BY <1>7 DEF more
  <2>3. used' \in [Subscriptions -> [rows: Nat, lago: Nat]]
    BY <2>1, <2>2, PayTypedParts DEF DataTyped
  <2>4. ControlTyped'
    BY <1>7, EndTyped
  <2>5. DataTyped'
    BY <1>7, <2>3, PayTypedParts DEF DataTyped
  <2> QED
    BY <2>4, <2>5, PayTypedNext
<1>8. CASE Payment!CreateSubscription(c, s)
  BY <1>1, <1>2, <1>3, <1>8 DEF Payment!CreateSubscription, Payment!In, SubscriptionOps
<1>9. CASE Payment!UpdateSubscription(c, s)
  BY <1>1, <1>5, <1>9 DEF Payment!UpdateSubscription, Payment!In, SubscriptionOps
<1>10. CASE Payment!RecordUsage(c, s)
  BY <1>1, <1>6, <1>7, <1>10 DEF Payment!RecordUsage, Payment!In, SubscriptionOps
<1>11. CASE Payment!CancelSubscription(c, s)
  BY <1>1, <1>2, <1>3, <1>4, <1>11
     DEF Payment!CancelSubscription, Payment!In, SubscriptionOps, Payment!plans
<1>12. CASE Payment!ReactivateSubscription(c, s)
  BY <1>1, <1>2, <1>3, <1>12 DEF Payment!ReactivateSubscription, Payment!In, SubscriptionOps
<1> QED
  BY <1>8, <1>9, <1>10, <1>11, <1>12

(* those on payment methods and invoices,                                  *)
LEMMA LedgerTyped ==
  ASSUME Payment!PaymentAssumption, PayTyped, NEW c \in Callers,
         \/ \E i \in Invoices : Payment!GenerateInvoice(c, i)
         \/ \E m \in Methods :
              \/ \E default \in BOOLEAN : Payment!AddPaymentMethod(c, m, default)
              \/ Payment!RemovePaymentMethod(c, m) \/ Payment!SetDefaultPaymentMethod(c, m)
  PROVE  PayTyped'
<1> USE DEF Payment!people, Payment!plans
<1> DEFINE Else == UNCHANGED <<Payment!people, Payment!plans, event>>
<1>1. ASSUME ControlTyped', invoice' \in [Invoices -> {"none", "DRAFT", "PAID"}],
             method' \in [Methods -> {"none", "plain", "default"}], Else
      PROVE  PayTyped'
  BY <1>1, PayTypedParts, PayTypedNext DEF DataTyped
<1>2. ASSUME NEW i \in Invoices, Payment!GenerateInvoice(c, i)
      PROVE  PayTyped'
  BY <1>1, <1>2, BeginTyped, EndTyped, PayTypedParts, PayTypedNext
     DEF Payment!GenerateInvoice, DataTyped, Fits
<1>3. \A u : Payment!Unset(u) => method' \in [Methods -> {"none", "plain", "default"}]
  BY PayTypedParts, PayTypedNext DEF Payment!Unset, DataTyped
<1>4. ASSUME NEW m \in Methods, NEW default \in BOOLEAN, Payment!AddPaymentMethod(c, m, default)
      PROVE  PayTyped'
  BY <1>1, <1>3, <1>4, BeginTyped, EndTyped, PayTypedParts, PayTypedNext
     DEF Payment!AddPaymentMethod, DataTyped, Fits, MethodOps
<1>5. ASSUME NEW m \in Methods, Payment!RemovePaymentMethod(c, m)
      PROVE  PayTyped'
  BY <1>1, <1>5, BeginTyped, EndTyped, PayTypedParts, PayTypedNext
     DEF Payment!RemovePaymentMethod, DataTyped, Fits, MethodOps
<1>6. ASSUME NEW m \in Methods, Payment!SetDefaultPaymentMethod(c, m)
      PROVE  PayTyped'
  BY <1>1, <1>3, <1>6, BeginTyped, EndTyped, PayTypedParts, PayTypedNext
     DEF Payment!SetDefaultPaymentMethod, DataTyped, Fits, MethodOps
<1> QED
  BY <1>2, <1>4, <1>5, <1>6

(* and handleWebhook.                                                      *)
LEMMA WebhookTyped ==
  ASSUME Payment!PaymentAssumption, PayTyped, NEW c \in Callers, NEW e \in Events, Payment!HandleWebhook(c, e)
  PROVE  PayTyped'
<1> USE DEF Payment!people, Payment!plans
<1>1. ControlTyped'
  BY BeginTyped, GotoTyped, EndTyped DEF Payment!HandleWebhook, Fits, Payment!In
<1>2. invoice' \in [Invoices -> {"none", "DRAFT", "PAID"}]
  BY PayTypedParts, PayTypedNext DEF Payment!HandleWebhook, DataTyped, Payment!Pays
<1>3. event' \in [Events -> {"none", "stored", "error", "processed"}]
  BY PayTypedParts, PayTypedNext DEF Payment!HandleWebhook, DataTyped, Payment!StoreError
<1>4. UNCHANGED <<Payment!people, Payment!plans, method>>
  BY DEF Payment!HandleWebhook
<1> QED
  BY <1>1, <1>2, <1>3, <1>4, PayTypedParts, PayTypedNext DEF DataTyped

(* What becomes of a call that fails.                                      *)
LEMMA FailTyped ==
  ASSUME Payment!PaymentAssumption, PayTyped, NEW c \in Callers, Payment!CallFails(c)
  PROVE  /\ PayTyped'
         /\ \A d \in Callers \ {c} : calls'[d] = calls[d]
         /\ \/ calls'[c] = Payment!Idle
            \/ /\ calls'[c] # Payment!Idle /\ calls'[c].op = "webhook" /\ calls[c].op = "webhook"
               /\ calls'[c].of = calls[c].of
<1>1. calls \in [Callers -> Payment!CallRecord \cup {Payment!Idle}] /\ calls[c] \in Payment!CallRecord
  BY DEF PayTyped, Payment!TypeOK, Payment!CallFails
<1> DEFINE late == [calls[c] EXCEPT !.pc = "catch"]
<1>2. /\ late \in Payment!CallRecord /\ late.op = calls[c].op /\ late.of = calls[c].of
  BY <1>1 DEF Payment!CallRecord
<1> HIDE DEF late
<1>3. calls' = [calls EXCEPT ![c] = Payment!Idle] \/ (calls' = [calls EXCEPT ![c] = late] /\ calls[c].op = "webhook")
  BY DEF Payment!CallFails, late
<1>4. calls' \in [Callers -> Payment!CallRecord \cup {Payment!Idle}] /\ \A d \in Callers \ {c} : calls'[d] = calls[d]
  BY <1>1, <1>2, <1>3
<1>5. \/ calls'[c] = Payment!Idle
      \/ calls'[c] = late /\ calls[c].op = "webhook"
  BY <1>1, <1>2, <1>3
<1>6. PayCallsFit'
  BY <1>2, <1>4, <1>5, IdleIsNone DEF PayTyped, PayCallsFit, Payment!CallFails
<1>7. clean' \subseteq Customers /\ faults' \subseteq Faults /\ made' = made
  BY DEF Payment!CallFails, PayTyped, Payment!TypeOK
<1>8. ControlTyped'
  BY <1>4, <1>6, <1>7 DEF ControlTyped, PayTyped, Payment!TypeOK
<1>9. PayTyped'
  BY <1>8, PayTypedParts, PayTypedNext
     DEF DataTyped, Payment!CallFails, Payment!people, Payment!plans, Payment!ledger
<1> QED
  BY <1>2, <1>4, <1>5, <1>9, IdleIsNone

(* Every step keeps the types.                                             *)
LEMMA PayTypedStep == Payment!PaymentAssumption /\ PayTyped /\ [Payment!Next]_(Payment!vars) => PayTyped'
<1> SUFFICES ASSUME Payment!PaymentAssumption, PayTyped, [Payment!Next]_(Payment!vars)
             PROVE  PayTyped'
  OBVIOUS
<1>1. ASSUME NEW c \in Callers, Payment!Call(c) \/ Payment!CallFails(c)
      PROVE  PayTyped'
  BY <1>1, CustomerTyped, SubscriptionTyped, LedgerTyped, WebhookTyped, FailTyped DEF Payment!Call
<1>2. CASE UNCHANGED Payment!vars
  BY <1>2 DEF Payment!vars, PayTyped, Payment!TypeOK, PayCallsFit
<1> QED
  BY <1>1, <1>2 DEF Payment!Next

-----------------------------------------------------------------------------
(* The calls that are about to set a default of the customer.              *)
Setting(u) == {c \in Callers : /\ calls[c] # Payment!Idle
                               /\ calls[c].op \in {"addDefaultMethod", "setDefaultPaymentMethod"}
                               /\ Owner[calls[c].of] = u}
DefaultsInv == \A u \in Customers : Payment!Cardinality(Payment!Defaults(u)) + Payment!Cardinality(Setting(u)) <= Payment!Cardinality(Callers)

(* The sets that are counted are finite.                                   *)
LEMMA DefaultSets ==
  ASSUME Payment!PaymentAssumption, NEW u
  PROVE  /\ Payment!IsFiniteSet(Payment!Defaults(u)) /\ Payment!IsFiniteSet(Setting(u)) /\ Payment!IsFiniteSet(Callers)
         /\ Payment!Cardinality(Payment!Defaults(u)) \in Nat /\ Payment!Cardinality(Setting(u)) \in Nat
         /\ Payment!Cardinality(Callers) \in Nat /\ Payment!Cardinality(Setting(u)) <= Payment!Cardinality(Callers)
<1>1. Payment!IsFiniteSet(Callers) /\ Payment!IsFiniteSet(Methods)
  BY DEF Payment!PaymentAssumption
<1>2. Payment!Defaults(u) \subseteq Methods /\ Setting(u) \subseteq Callers
  BY DEF Payment!Defaults, Setting
<1> QED
  BY <1>1, <1>2, PaymentFinite, FS_Subset, FS_CardinalityType

(* What a step may do to the defaults and to the calls about to set one.   *)
Sets(u) ==
  \/ Payment!Defaults(u)' \subseteq Payment!Defaults(u) /\ Setting(u)' \subseteq Setting(u)
  \/ Payment!Defaults(u)' = {}
  \/ \E c \in Setting(u), m \in Methods :
       Setting(u)' \subseteq Setting(u) \ {c} /\ Payment!Defaults(u)' \subseteq Payment!Defaults(u) \cup {m}

(* A step after which no more calls are about to set, or have set, a       *)
(* default.                                                                *)
LEMMA SetsBounded ==
  ASSUME Payment!PaymentAssumption, NEW u, Sets(u),
         Payment!Cardinality(Payment!Defaults(u)) + Payment!Cardinality(Setting(u)) <= Payment!Cardinality(Callers)
  PROVE  Payment!Cardinality(Payment!Defaults(u)') + Payment!Cardinality(Setting(u)') <= Payment!Cardinality(Callers)
<1>1. /\ Payment!IsFiniteSet(Payment!Defaults(u)) /\ Payment!IsFiniteSet(Setting(u)) /\ Payment!IsFiniteSet(Callers)
      /\ Payment!Cardinality(Payment!Defaults(u)) \in Nat /\ Payment!Cardinality(Setting(u)) \in Nat
      /\ Payment!Cardinality(Callers) \in Nat
  BY DefaultSets
<1>2. Setting(u)' \subseteq Callers /\ Payment!Defaults(u)' \subseteq Methods
  BY DEF Setting, Payment!Defaults
<1>3. /\ Payment!IsFiniteSet(Payment!Defaults(u)') /\ Payment!IsFiniteSet(Setting(u)')
      /\ Payment!Cardinality(Payment!Defaults(u)') \in Nat /\ Payment!Cardinality(Setting(u)') \in Nat
  BY <1>2, PaymentFinite, FS_Subset, FS_CardinalityType DEF Payment!PaymentAssumption
<1>4. CASE Payment!Defaults(u)' \subseteq Payment!Defaults(u) /\ Setting(u)' \subseteq Setting(u)
  <2>1. Payment!Cardinality(Payment!Defaults(u)') <= Payment!Cardinality(Payment!Defaults(u)) /\ Payment!Cardinality(Setting(u)') <= Payment!Cardinality(Setting(u))
    BY <1>1, <1>4, PaymentFinite, FS_Subset
  <2> QED
    BY <1>1, <1>3, <2>1
<1>5. CASE Payment!Defaults(u)' = {}
  <2>1. Payment!Cardinality(Payment!Defaults(u)') = 0
    BY <1>5, PaymentFinite, FS_EmptySet
  <2>2. Payment!Cardinality(Setting(u)') <= Payment!Cardinality(Callers)
    BY <1>1, <1>2, PaymentFinite, FS_Subset
  <2> QED
    BY <1>1, <1>3, <2>1, <2>2
<1>6. ASSUME NEW c \in Setting(u), NEW m \in Methods,
             Setting(u)' \subseteq Setting(u) \ {c}, Payment!Defaults(u)' \subseteq Payment!Defaults(u) \cup {m}
      PROVE  Payment!Cardinality(Payment!Defaults(u)') + Payment!Cardinality(Setting(u)') <= Payment!Cardinality(Callers)
  <2>1. Payment!IsFiniteSet(Setting(u) \ {c}) /\ Payment!Cardinality(Setting(u) \ {c}) = Payment!Cardinality(Setting(u)) - 1
    BY <1>1, PaymentFinite, FS_RemoveElement
  <2>2. Payment!IsFiniteSet(Payment!Defaults(u) \cup {m}) /\ Payment!Cardinality(Payment!Defaults(u) \cup {m}) <= Payment!Cardinality(Payment!Defaults(u)) + 1
    <3>1. /\ Payment!IsFiniteSet(Payment!Defaults(u) \cup {m})
          /\ Payment!Cardinality(Payment!Defaults(u) \cup {m}) = IF m \in Payment!Defaults(u) THEN Payment!Cardinality(Payment!Defaults(u))
                                                                                             ELSE Payment!Cardinality(Payment!Defaults(u)) + 1
      BY <1>1, PaymentFinite, FS_AddElement
    <3> QED
      BY <1>1, <3>1
  <2>3. Payment!Cardinality(Setting(u)') <= Payment!Cardinality(Setting(u)) - 1
    BY <1>6, <2>1, PaymentFinite, FS_Subset
  <2>4. Payment!Cardinality(Payment!Defaults(u)') <= Payment!Cardinality(Payment!Defaults(u) \cup {m})
    BY <1>6, <2>2, PaymentFinite, FS_Subset
  <2>5. Payment!Cardinality(Payment!Defaults(u) \cup {m}) \in Nat
    BY <2>2, PaymentFinite, FS_CardinalityType
  <2> QED
    BY <1>1, <1>3, <2>2, <2>3, <2>4, <2>5
<1> QED
  BY <1>4, <1>5, <1>6 DEF Sets

(* An operation that leaves the methods alone sets no default.             *)
LEMMA OthersSetNothing ==
  ASSUME Payment!PaymentAssumption, PayTyped, NEW u, NEW c \in Callers, UNCHANGED method,
         \A d \in Callers \ {c} : calls'[d] = calls[d],
         calls'[c] = Payment!Idle \/ calls'[c].op \notin {"addDefaultMethod", "setDefaultPaymentMethod"}
  PROVE  Sets(u)
<1>1. Payment!Defaults(u)' = Payment!Defaults(u)
  BY DEF Payment!Defaults
<1>2. Setting(u)' \subseteq Setting(u)
  BY DEF Setting
<1> QED
  BY <1>1, <1>2 DEF Sets

(* Each operation on payment methods is such a step.                       *)
LEMMA MethodsSet ==
  ASSUME Payment!PaymentAssumption, PayTyped, NEW u \in Customers, NEW c \in Callers, NEW m \in Methods,
         \/ \E default \in BOOLEAN : Payment!AddPaymentMethod(c, m, default)
         \/ Payment!RemovePaymentMethod(c, m) \/ Payment!SetDefaultPaymentMethod(c, m)
  PROVE  Sets(u)
<1>1. Owner[m] \in Customers /\ Fits("addDefaultMethod", m) /\ Fits("addPaymentMethod", m)
      /\ Fits("removePaymentMethod", m) /\ Fits("setDefaultPaymentMethod", m)
  BY PaySubjects DEF Fits, MethodOps
<1>2. method \in [Methods -> {"none", "plain", "default"}]
  BY DEF PayTyped, Payment!TypeOK
<1>3. ASSUME NEW op \in {"addDefaultMethod", "setDefaultPaymentMethod"}, Payment!Begin(c, op, m, "row"), Payment!Unset(Owner[m])
      PROVE  Sets(u)
  <2>1. /\ calls'[c] # Payment!Idle /\ calls'[c].op = op /\ calls'[c].of = m
        /\ \A d \in Callers \ {c} : calls'[d] = calls[d]
    <3>1. Fits(op, m)
      BY <1>1
    <3> QED
      BY <1>3, <3>1, BeginTyped
  <2>2. CASE Owner[m] = u
    <3>1. Payment!Defaults(u)' = {}
      BY <1>2, <1>3, <2>2 DEF Payment!Defaults, Payment!Unset
    <3> QED
      BY <3>1 DEF Sets
  <2>3. CASE Owner[m] # u
    <3>1. Payment!Defaults(u)' \subseteq Payment!Defaults(u)
      BY <1>2, <1>3, <2>3 DEF Payment!Defaults, Payment!Unset
    <3>2. Setting(u)' \subseteq Setting(u)
      BY <2>1, <2>3 DEF Setting
    <3> QED
      BY <3>1, <3>2 DEF Sets
  <2> QED
    BY <2>2, <2>3
<1>4. ASSUME NEW op \in {"addPaymentMethod", "removePaymentMethod"}, Payment!Begin(c, op, m, "row"), UNCHANGED method
      PROVE  Sets(u)
  <2>1. /\ calls'[c] # Payment!Idle /\ calls'[c].op = op /\ calls'[c].of = m
        /\ \A d \in Callers \ {c} : calls'[d] = calls[d]
    <3>1. Fits(op, m)
      BY <1>1
    <3> QED
      BY <1>4, <3>1, BeginTyped
  <2> QED
    BY <1>4, <2>1, OthersSetNothing
<1>5. ASSUME NEW op \in {"addDefaultMethod", "setDefaultPaymentMethod"}, Payment!In(c, op, m, "row"), Payment!Return(c),
             method' = [method EXCEPT ![m] = "default"]
      PROVE  Sets(u)
  <2>1. calls'[c] = Payment!Idle /\ \A d \in Callers \ {c} : calls'[d] = calls[d]
    BY <1>5, EndTyped
  <2>2. CASE Owner[m] = u
    <3>1. c \in Setting(u)
      BY <1>5, <2>2 DEF Setting, Payment!In
    <3>2. Setting(u)' \subseteq Setting(u) \ {c}
      BY <2>1 DEF Setting
    <3>3. Payment!Defaults(u)' \subseteq Payment!Defaults(u) \cup {m}
      BY <1>2, <1>5 DEF Payment!Defaults
    <3> QED
      BY <3>1, <3>2, <3>3 DEF Sets
  <2>3. CASE Owner[m] # u
    <3>1. Setting(u)' \subseteq Setting(u)
      BY <2>1 DEF Setting
    <3>2. Payment!Defaults(u)' \subseteq Payment!Defaults(u)
      BY <1>2, <1>5, <2>3 DEF Payment!Defaults
    <3> QED
      BY <3>1, <3>2 DEF Sets
  <2> QED
    BY <2>2, <2>3
<1>6. ASSUME Payment!Return(c) \/ Payment!Refused(c),
             method' = method \/ \E v \in {"none", "plain"} : method' = [method EXCEPT ![m] = v]
      PROVE  Sets(u)
  <2>1. calls'[c] = Payment!Idle /\ \A d \in Callers \ {c} : calls'[d] = calls[d]
    BY <1>6, EndTyped
  <2>2. Setting(u)' \subseteq Setting(u)
    BY <2>1 DEF Setting
  <2>3. Payment!Defaults(u)' \subseteq Payment!Defaults(u)
    BY <1>2, <1>6 DEF Payment!Defaults
  <2> QED
    BY <2>2, <2>3 DEF Sets
<1>7. ASSUME NEW default \in BOOLEAN, Payment!AddPaymentMethod(c, m, default)
      PROVE  Sets(u)
  BY <1>3, <1>4, <1>5, <1>6, <1>7 DEF Payment!AddPaymentMethod
<1>8. CASE Payment!RemovePaymentMethod(c, m)
  BY <1>4, <1>6, <1>8 DEF Payment!RemovePaymentMethod
<1>9. CASE Payment!SetDefaultPaymentMethod(c, m)
  BY <1>3, <1>5, <1>6, <1>9 DEF Payment!SetDefaultPaymentMethod
<1> QED
  BY <1>7, <1>8, <1>9

(* How a call moves, whatever it is about: it begins, goes on or ends.     *)
Places == {"lago", "row", "mark", "catch"}
Moves(c, op, x) ==
  \/ \E pc \in Places : Payment!Begin(c, op, x, pc)
  \/ \E pc \in Places : /\ Payment!In(c, op, x, pc)
                        /\ Payment!Return(c) \/ Payment!Refused(c) \/ \E pd \in Places : Payment!Goto(c, pd)

(* A call stays what it is and about what it is, until it returns.         *)
LEMMA MovesKept ==
  ASSUME Payment!PaymentAssumption, PayTyped, NEW c \in Callers, NEW op, NEW x, Fits(op, x), Moves(c, op, x)
  PROVE  /\ \A d \in Callers \ {c} : calls'[d] = calls[d]
         /\ calls'[c] = Payment!Idle \/ (calls'[c] # Payment!Idle /\ calls'[c].op = op /\ calls'[c].of = x)
         /\ calls[c] # Payment!Idle => calls[c].op = op /\ calls[c].of = x
         /\ faults' = faults
<1>1. ASSUME NEW pc \in Places, Payment!Begin(c, op, x, pc)
      PROVE  /\ \A d \in Callers \ {c} : calls'[d] = calls[d]
             /\ calls'[c] # Payment!Idle /\ calls'[c].op = op /\ calls'[c].of = x
             /\ calls[c] = Payment!Idle /\ faults' = faults
  BY <1>1, BeginTyped DEF Payment!Begin, Places
<1>2. ASSUME NEW pc \in Places, Payment!In(c, op, x, pc), Payment!Return(c) \/ Payment!Refused(c)
      PROVE  /\ \A d \in Callers \ {c} : calls'[d] = calls[d]
             /\ calls'[c] = Payment!Idle /\ calls[c].op = op /\ calls[c].of = x /\ faults' = faults
  BY <1>2, EndTyped DEF Payment!In, Payment!Return, Payment!Refused
<1>3. ASSUME NEW pc \in Places, Payment!In(c, op, x, pc), NEW pd \in Places, Payment!Goto(c, pd)
      PROVE  /\ \A d \in Callers \ {c} : calls'[d] = calls[d]
             /\ calls'[c] # Payment!Idle /\ calls'[c].op = op /\ calls'[c].of = x
             /\ calls[c].op = op /\ calls[c].of = x /\ faults' = faults
  <2>1. calls[c] # Payment!Idle /\ calls[c].op = op /\ calls[c].of = x /\ faults' = faults
    BY <1>3 DEF Payment!In, Payment!Goto
  <2>2. /\ \A d \in Callers \ {c} : calls'[d] = calls[d]
        /\ calls'[c] \in Payment!CallRecord /\ calls'[c].op = calls[c].op /\ calls'[c].of = calls[c].of
    BY <1>3, <2>1, GotoTyped DEF Places
  <2> QED
    BY <2>1, <2>2, IdleIsNone
<1> QED
  BY <1>1, <1>2, <1>3 DEF Moves

(* Every operation is a call that begins, goes on or ends.                 *)
LEMMA ActionMoves ==
  ASSUME NEW c
  PROVE  /\ \A u : Payment!CreateCustomer(c, u) => Moves(c, "createCustomer", u)
         /\ \A u : Payment!UpdateCustomer(c, u) => Moves(c, "updateCustomer", u)
         /\ \A s : Payment!CreateSubscription(c, s) => Moves(c, "createSubscription", s)
         /\ \A s : Payment!UpdateSubscription(c, s) => Moves(c, "updateSubscription", s)
         /\ \A s : Payment!RecordUsage(c, s) => Moves(c, "recordUsage", s)
         /\ \A s : Payment!CancelSubscription(c, s) => Moves(c, "cancelSubscription", s)
         /\ \A s : Payment!ReactivateSubscription(c, s) => Moves(c, "reactivateSubscription", s)
         /\ \A i : Payment!GenerateInvoice(c, i) => Moves(c, "generateInvoice", i)
         /\ \A m : Payment!AddPaymentMethod(c, m, TRUE) => Moves(c, "addDefaultMethod", m)
         /\ \A m : Payment!AddPaymentMethod(c, m, FALSE) => Moves(c, "addPaymentMethod", m)
         /\ \A m : Payment!RemovePaymentMethod(c, m) => Moves(c, "removePaymentMethod", m)
         /\ \A m : Payment!SetDefaultPaymentMethod(c, m) => Moves(c, "setDefaultPaymentMethod", m)
         /\ \A e : Payment!HandleWebhook(c, e) => Moves(c, "webhook", e)
<1> USE DEF Moves, Places
<1>1. \A u : Payment!CreateCustomer(c, u) => Moves(c, "createCustomer", u)
  BY DEF Payment!CreateCustomer
<1>2. \A u : Payment!UpdateCustomer(c, u) => Moves(c, "updateCustomer", u)
  BY DEF Payment!UpdateCustomer
<1>3. \A s : Payment!CreateSubscription(c, s) => Moves(c, "createSubscription", s)
  BY DEF Payment!CreateSubscription
<1>4. \A s : Payment!UpdateSubscription(c, s) => Moves(c, "updateSubscription", s)
  BY DEF Payment!UpdateSubscription
<1>5. \A s : Payment!RecordUsage(c, s) => Moves(c, "recordUsage", s)
  BY DEF Payment!RecordUsage
<1>6. \A s : Payment!CancelSubscription(c, s) => Moves(c, "cancelSubscription", s)
  BY DEF Payment!CancelSubscription
<1>7. \A s : Payment!ReactivateSubscription(c, s) => Moves(c, "reactivateSubscription", s)
  BY DEF Payment!ReactivateSubscription
<1>8. \A i : Payment!GenerateInvoice(c, i) => Moves(c, "generateInvoice", i)
  BY DEF Payment!GenerateInvoice
<1>9. /\ \A m : Payment!AddPaymentMethod(c, m, TRUE) => Moves(c, "addDefaultMethod", m)
      /\ \A m : Payment!AddPaymentMethod(c, m, FALSE) => Moves(c, "addPaymentMethod", m)
  BY DEF Payment!AddPaymentMethod
<1>10. \A m : Payment!RemovePaymentMethod(c, m) => Moves(c, "removePaymentMethod", m)
  BY DEF Payment!RemovePaymentMethod
<1>11. \A m : Payment!SetDefaultPaymentMethod(c, m) => Moves(c, "setDefaultPaymentMethod", m)
  BY DEF Payment!SetDefaultPaymentMethod
<1>12. \A e : Payment!HandleWebhook(c, e) => Moves(c, "webhook", e)
  BY DEF Payment!HandleWebhook
<1> HIDE DEF Moves
<1> QED
  BY <1>1, <1>2, <1>3, <1>4, <1>5, <1>6, <1>7, <1>8, <1>9, <1>10, <1>11, <1>12

(* The call's operation, from the action.                                  *)
LEMMA CallMoves ==
  ASSUME Payment!PaymentAssumption, PayTyped, NEW c \in Callers, Payment!Call(c)
  PROVE  \E op \in Payment!Op, x \in Payment!Subject :
           /\ Fits(op, x) /\ Moves(c, op, x)
           /\ op \notin {"addPaymentMethod", "addDefaultMethod", "removePaymentMethod",
                         "setDefaultPaymentMethod"} => UNCHANGED method
           /\ op # "webhook" => UNCHANGED event
           /\ op = "webhook" => Payment!HandleWebhook(c, x)
           /\ op \in MethodOps => \/ \E default \in BOOLEAN : Payment!AddPaymentMethod(c, x, default)
                                  \/ Payment!RemovePaymentMethod(c, x) \/ Payment!SetDefaultPaymentMethod(c, x)
           /\ op \notin CustomerOps => UNCHANGED Payment!people
           /\ op \notin SubscriptionOps => UNCHANGED Payment!plans
           /\ op \in CustomerOps => Payment!CreateCustomer(c, x) \/ Payment!UpdateCustomer(c, x)
           /\ op \in SubscriptionOps => \/ Payment!CreateSubscription(c, x) \/ Payment!UpdateSubscription(c, x)
                                        \/ Payment!RecordUsage(c, x) \/ Payment!CancelSubscription(c, x)
                                        \/ Payment!ReactivateSubscription(c, x)
<1> USE DEF Fits, Payment!Op, Payment!Subject, CustomerOps, SubscriptionOps, MethodOps
<1>1. ASSUME NEW u \in Customers, Payment!CreateCustomer(c, u) \/ Payment!UpdateCustomer(c, u)
      PROVE  UNCHANGED <<method, event>> /\ UNCHANGED Payment!plans
  BY <1>1 DEF Payment!CreateCustomer, Payment!UpdateCustomer, Payment!Kept
<1>2. ASSUME NEW s \in Subscriptions,
             \/ Payment!CreateSubscription(c, s) \/ Payment!UpdateSubscription(c, s) \/ Payment!RecordUsage(c, s)
             \/ Payment!CancelSubscription(c, s) \/ Payment!ReactivateSubscription(c, s)
      PROVE  UNCHANGED <<method, event>> /\ UNCHANGED Payment!people
  BY <1>2
     DEF Payment!people, Payment!CreateSubscription, Payment!UpdateSubscription,
         Payment!RecordUsage, Payment!CancelSubscription, Payment!ReactivateSubscription,
         Payment!Kept
<1>3. ASSUME NEW i \in Invoices, Payment!GenerateInvoice(c, i)
      PROVE  UNCHANGED <<method, event>> /\ UNCHANGED Payment!people /\ UNCHANGED Payment!plans
  BY <1>3 DEF Payment!GenerateInvoice
<1>4. ASSUME NEW m \in Methods, 
             \/ \E default \in BOOLEAN : Payment!AddPaymentMethod(c, m, default)
             \/ Payment!RemovePaymentMethod(c, m) \/ Payment!SetDefaultPaymentMethod(c, m)
      PROVE  UNCHANGED event /\ UNCHANGED Payment!people /\ UNCHANGED Payment!plans
  BY <1>4 DEF Payment!AddPaymentMethod, Payment!RemovePaymentMethod, Payment!SetDefaultPaymentMethod
<1>5. ASSUME NEW e \in Events, Payment!HandleWebhook(c, e)
      PROVE  UNCHANGED method /\ UNCHANGED Payment!people /\ UNCHANGED Payment!plans
  BY <1>5 DEF Payment!HandleWebhook
<1> QED
  BY <1>1, <1>2, <1>3, <1>4, <1>5, ActionMoves, ZenonT(60) DEF Payment!Call

(* A step that is of no payment method.                                    *)
LEMMA DefaultsStep == Payment!PaymentAssumption /\ PayTyped /\ DefaultsInv /\ [Payment!Next]_(Payment!vars) => DefaultsInv'
<1> SUFFICES ASSUME Payment!PaymentAssumption, PayTyped, DefaultsInv, [Payment!Next]_(Payment!vars), NEW u \in Customers
             PROVE  Payment!Cardinality(Payment!Defaults(u)') + Payment!Cardinality(Setting(u)') <= Payment!Cardinality(Callers)
  BY DEF DefaultsInv
<1>1. ASSUME NEW c \in Callers, Payment!Call(c) \/ Payment!CallFails(c)
      PROVE  Sets(u)
  <2>1. CASE Payment!Call(c)
    <3>1. PICK op \in Payment!Op, x \in Payment!Subject :
           /\ Fits(op, x) /\ Moves(c, op, x)
           /\ op \notin {"addPaymentMethod", "addDefaultMethod", "removePaymentMethod",
                         "setDefaultPaymentMethod"} => UNCHANGED method
           /\ op \in MethodOps => \/ \E default \in BOOLEAN : Payment!AddPaymentMethod(c, x, default)
                                  \/ Payment!RemovePaymentMethod(c, x) \/ Payment!SetDefaultPaymentMethod(c, x)
      BY <2>1, CallMoves
    <3>2. /\ \A d \in Callers \ {c} : calls'[d] = calls[d]
          /\ calls'[c] = Payment!Idle \/ calls'[c].op = op
      BY <3>1, MovesKept
    <3>3. CASE op \in MethodOps
      <4>1. x \in Methods
        BY <3>1, <3>3 DEF Fits, MethodOps, CustomerOps, SubscriptionOps
      <4> QED
        BY <3>1, <3>3, <4>1, MethodsSet
    <3>4. CASE op \notin MethodOps
      BY <3>1, <3>2, <3>4, OthersSetNothing DEF MethodOps
    <3> QED
      BY <3>3, <3>4
  <2>2. CASE Payment!CallFails(c)
    <3>1. UNCHANGED method
      BY <2>2 DEF Payment!CallFails, Payment!ledger
    <3>2. /\ \A d \in Callers \ {c} : calls'[d] = calls[d]
          /\ calls'[c] = Payment!Idle \/ calls'[c].op = "webhook"
      BY <2>2, FailTyped
    <3> QED
      BY <3>1, <3>2, OthersSetNothing
  <2> QED
    BY <1>1, <2>1, <2>2
<1>2. CASE UNCHANGED Payment!vars
  <2>1. Payment!Defaults(u)' = Payment!Defaults(u) /\ Setting(u)' = Setting(u)
    BY <1>2 DEF Payment!vars, Setting, Payment!Defaults
  <2> QED
    BY <2>1 DEF DefaultsInv
<1> QED
  BY <1>1, <1>2, SetsBounded DEF Payment!Next, DefaultsInv

(* At first nobody has a default payment method.                           *)
LEMMA DefaultsInit == Payment!PaymentAssumption /\ Payment!Init => DefaultsInv
<1> SUFFICES ASSUME Payment!PaymentAssumption, Payment!Init, NEW u \in Customers
             PROVE  Payment!Cardinality(Payment!Defaults(u)) + Payment!Cardinality(Setting(u)) <= Payment!Cardinality(Callers)
  BY DEF DefaultsInv
<1>1. Payment!Defaults(u) = {}
  BY DEF Payment!Init, Payment!Defaults
<1>2. Payment!Cardinality(Payment!Defaults(u)) = 0
  BY <1>1, PaymentFinite, FS_EmptySet
<1> QED
  BY <1>2, DefaultSets

(* The sum bounds the defaults, whatever is under way.                     *)
LEMMA DefaultsHeld == Payment!PaymentAssumption /\ DefaultsInv => Payment!DefaultsBounded
<1> SUFFICES ASSUME Payment!PaymentAssumption, DefaultsInv, NEW u \in Customers
             PROVE  Payment!Cardinality(Payment!Defaults(u)) <= Payment!Cardinality(Callers)
  BY DEF Payment!DefaultsBounded
<1> QED
  BY DefaultSets DEF DefaultsInv

-----------------------------------------------------------------------------
(* WebhookAccounted is inductive once a call fits its subject.             *)
LEMMA WebhookStep == Payment!PaymentAssumption /\ PayTyped /\ Payment!WebhookAccounted /\ [Payment!Next]_(Payment!vars) => Payment!WebhookAccounted'
<1> SUFFICES ASSUME Payment!PaymentAssumption, PayTyped, Payment!WebhookAccounted, [Payment!Next]_(Payment!vars), NEW e \in Events,
                    event'[e] = "stored"
             PROVE  Payment!Busy(e)' \/ "lost" \in faults'
  BY DEF Payment!WebhookAccounted
<1>1. event \in [Events -> {"none", "stored", "error", "processed"}] /\ e \notin Customers \cup Subscriptions \cup Methods \cup Invoices
  BY DEF PayTyped, Payment!TypeOK, Payment!PaymentAssumption
<1>2. ASSUME NEW c \in Callers, event'[e] = event[e], faults \subseteq faults',
             \A d \in Callers \ {c} : calls'[d] = calls[d],
             calls[c] # Payment!Idle /\ calls[c].of = e => (calls'[c] # Payment!Idle /\ calls'[c].of = e) \/ "lost" \in faults'
      PROVE  Payment!Busy(e)' \/ "lost" \in faults'
  BY <1>2 DEF Payment!WebhookAccounted, Payment!Busy
<1>3. ASSUME NEW c \in Callers, NEW f \in Events, Payment!HandleWebhook(c, f)
      PROVE  Payment!Busy(e)' \/ "lost" \in faults'
  <2>0. Fits("webhook", f)
    BY DEF Fits
  <2>1. ASSUME NEW pc \in {"row", "catch"}, Payment!Begin(c, "webhook", f, pc)
        PROVE  Payment!Busy(e)' \/ "lost" \in faults'
    <3>1. calls'[c] # Payment!Idle /\ calls'[c].of = f /\ \A d \in Callers \ {c} : calls'[d] = calls[d]
      BY <2>0, <2>1, BeginTyped
    <3>2. calls[c] = Payment!Idle /\ faults' = faults
      BY <2>1 DEF Payment!Begin
    <3>3. CASE e = f
      BY <3>1, <3>3 DEF Payment!Busy
    <3>4. CASE e # f
      <4>1. event'[e] = event[e]
        BY <1>1, <1>3, <2>1, <3>1, <3>2, <3>4 DEF Payment!HandleWebhook, Payment!In
      <4> QED
        BY <1>2, <3>1, <3>2, <4>1
    <3> QED
      BY <3>3, <3>4
  <2>2. ASSUME NEW pc \in {"mark", "catch"}, calls[c] # Payment!Idle, Payment!Goto(c, pc), UNCHANGED event
        PROVE  Payment!Busy(e)' \/ "lost" \in faults'
    <3>1. /\ calls'[c] # Payment!Idle /\ calls'[c].of = calls[c].of
          /\ \A d \in Callers \ {c} : calls'[d] = calls[d]
      BY <2>2, GotoTyped, IdleIsNone
    <3>2. faults' = faults
      BY <2>2 DEF Payment!Goto
    <3> QED
      BY <1>2, <2>2, <3>1, <3>2
  <2>3. ASSUME NEW pc, Payment!In(c, "webhook", f, pc), Payment!Return(c), event'[e] = event[e] \/ e # f,
               \A g \in Events : event'[g] = "stored" => event[g] = "stored" /\ g # f
        PROVE  Payment!Busy(e)' \/ "lost" \in faults'
    <3>1. e # f /\ event[e] = "stored"
      BY <2>3
    <3>2. calls'[c] = Payment!Idle /\ \A d \in Callers \ {c} : calls'[d] = calls[d]
      BY <2>3, EndTyped
    <3>3. faults' = faults /\ calls[c].of = f
      BY <2>3 DEF Payment!Return, Payment!In
    <3> QED
      BY <3>1, <3>2, <3>3 DEF Payment!WebhookAccounted, Payment!Busy
  <2>4. CASE Payment!In(c, "webhook", f, "mark") /\ event' = [event EXCEPT ![f] = "processed"] /\ Payment!Return(c)
    BY <1>1, <2>3, <2>4
  <2>5. CASE Payment!In(c, "webhook", f, "catch") /\ Payment!StoreError(f) /\ Payment!Return(c)
    <3>1. \A g \in Events : event'[g] = "stored" => event[g] = "stored" /\ g # f
      BY <1>1, <2>5 DEF Payment!StoreError
    <3> QED
      BY <2>3, <2>5, <3>1
  <2> QED
    BY <1>3, <2>1, <2>2, <2>4, <2>5 DEF Payment!HandleWebhook, Payment!In
<1>4. ASSUME NEW c \in Callers, Payment!CallFails(c)
      PROVE  Payment!Busy(e)' \/ "lost" \in faults'
  <2>1. /\ \A d \in Callers \ {c} : calls'[d] = calls[d]
        /\ calls'[c] = Payment!Idle \/ (calls'[c] # Payment!Idle /\ calls'[c].of = calls[c].of)
    BY <1>4, FailTyped
  <2>2. event' = event /\ faults \subseteq faults'
    BY <1>4 DEF Payment!CallFails
  <2>3. CASE calls'[c] # Payment!Idle /\ calls'[c].of = calls[c].of
    BY <1>2, <2>1, <2>2, <2>3
  <2>4. CASE calls'[c] = Payment!Idle
    <3>1. "lost" \in faults' \/ calls[c].op # "webhook"
      BY <1>4, <2>4, IdleIsNone
         DEF Payment!CallFails, Payment!PaymentAssumption, PayTyped, Payment!TypeOK,
             Payment!CallRecord, Payment!Idle
    <3>2. calls[c] # Payment!Idle /\ (calls[c].op # "webhook" => calls[c].of # e)
      BY <1>1, <1>4
         DEF Payment!CallFails, PayTyped, Payment!TypeOK, Payment!CallRecord, PayCallsFit,
             Payment!Op, CustomerOps, SubscriptionOps, MethodOps
    <3> QED
      BY <1>2, <2>1, <2>2, <3>1, <3>2
  <2> QED
    BY <2>1, <2>3, <2>4
<1>5. ASSUME NEW c \in Callers, Payment!Call(c), \A f \in Events : ~Payment!HandleWebhook(c, f)
      PROVE  Payment!Busy(e)' \/ "lost" \in faults'
  <2>1. PICK op \in Payment!Op, x \in Payment!Subject :
           /\ Fits(op, x) /\ Moves(c, op, x)
           /\ op # "webhook" => UNCHANGED event
           /\ op = "webhook" => Payment!HandleWebhook(c, x)
    BY <1>5, CallMoves
  <2>2. op # "webhook"
    BY <1>5, <2>1 DEF Fits, CustomerOps, SubscriptionOps, MethodOps
  <2>3. x # e
    BY <1>1, <2>1, <2>2 DEF Fits
  <2>4. /\ \A d \in Callers \ {c} : calls'[d] = calls[d]
        /\ calls[c] # Payment!Idle => calls[c].of = x
        /\ faults' = faults
    BY <2>1, MovesKept
  <2> QED
    BY <1>2, <2>1, <2>2, <2>3, <2>4
<1>6. CASE UNCHANGED Payment!vars
  BY <1>6 DEF Payment!vars, Payment!WebhookAccounted, Payment!Busy
<1> QED
  BY <1>3, <1>4, <1>5, <1>6 DEF Payment!Next, Payment!Call

-----------------------------------------------------------------------------
(* What the call of a customer whose calls never overlapped knows.  An     *)
(* idle caller knows that the customer is in step.                         *)
Concerns(c, u) == calls[c] # Payment!Idle /\ u \in Payment!About(calls[c].of)
AtRow(c, op)   == calls[c].op = op /\ calls[c].pc = "row"
Debt(c, u) ==
  IF AtRow(c, "createSubscription") \/ AtRow(c, "reactivateSubscription")
  THEN billed[u] <= Payment!Cardinality(Payment!Active(u)) + 1
  ELSE IF AtRow(c, "cancelSubscription") THEN billed[u] + 1 <= Payment!Cardinality(Payment!Active(u))
  ELSE billed[u] <= Payment!Cardinality(Payment!Active(u))
Absent(c) == calls[c].op \in {"createSubscription", "reactivateSubscription"} => status[calls[c].of] # "ACTIVE"
Person(c, u) ==
  IF AtRow(c, "createCustomer") \/ AtRow(c, "updateCustomer")
  THEN atLago[u] = calls[c].n ELSE customer[u] = atLago[u]
Usage(c, u) ==
  \A s \in Subscriptions : Owner[s] = u =>
    \/ used[s].lago <= used[s].rows
    \/ AtRow(c, "recordUsage") /\ calls[c].of = s /\ used[s].lago <= used[s].rows + 1
OneItem(u) == \A s \in Subscriptions : Owner[s] = u => \A a, b \in items[s] : a = b
Emptied(c) == calls[c].op = "updateSubscription" => items[calls[c].of] = {}

Mine(c, u) == Debt(c, u) /\ Absent(c) /\ Person(c, u) /\ Usage(c, u) /\ OneItem(u) /\ Emptied(c)

Even(u) ==
  /\ billed[u] <= Payment!Cardinality(Payment!Active(u))
  /\ customer[u] = atLago[u]
  /\ \A s \in Subscriptions : Owner[s] = u => used[s].lago <= used[s].rows
  /\ OneItem(u)

StepInv ==
  \A u \in clean :
    /\ \A c, d \in Callers : Concerns(c, u) /\ Concerns(d, u) => c = d
    /\ Payment!Alone(u) => Even(u)
    /\ \A c \in Callers : Concerns(c, u) => Mine(c, u)

(* The data of a customer.                                                 *)
Same(u) ==
  /\ billed'[u] = billed[u] /\ customer'[u] = customer[u] /\ atLago'[u] = atLago[u]
  /\ \A s \in Subscriptions : Owner[s] = u =>
       status'[s] = status[s] /\ items'[s] = items[s] /\ used'[s] = used[s]

(* The active subscriptions of a customer can be counted.                  *)
LEMMA ActiveFinite ==
  ASSUME Payment!PaymentAssumption, NEW u
  PROVE  Payment!IsFiniteSet(Payment!Active(u)) /\ Payment!Cardinality(Payment!Active(u)) \in Nat
         /\ Payment!IsFiniteSet(Payment!Active(u)') /\ Payment!Cardinality(Payment!Active(u)') \in Nat
<1>1. Payment!Active(u) \subseteq Subscriptions /\ Payment!Active(u)' \subseteq Subscriptions
  BY DEF Payment!Active
<1> QED
  BY <1>1, PaymentFinite, FS_Subset, FS_CardinalityType DEF Payment!PaymentAssumption

(* Customers whose data stays have the same active subscriptions,          *)
LEMMA SameActive ==
  ASSUME NEW u, Same(u)
  PROVE  Payment!Active(u)' = Payment!Active(u)
  BY DEF Payment!Active, Same

(* and are in step if they were.                                           *)
LEMMA SameEven ==
  ASSUME NEW u, Same(u), Even(u)
  PROVE  Even(u)'
<1>1. Payment!Active(u)' = Payment!Active(u)
  BY SameActive
<1> QED
  BY <1>1 DEF Even, Same, OneItem

(* A call that stays where it is knows what it knew.                       *)
LEMMA SameMine ==
  ASSUME Payment!PaymentAssumption, PayTyped, NEW c \in Callers, NEW u, Same(u), Mine(c, u), calls'[c] = calls[c],
         Concerns(c, u)
  PROVE  Mine(c, u)'
<1>1. Payment!Active(u)' = Payment!Active(u)
  BY SameActive
<1>2. calls[c].op \in SubscriptionOps => calls[c].of \in Subscriptions /\ Owner[calls[c].of] = u
  BY PaySubjects DEF PayTyped, PayCallsFit, Concerns
<1>3. Debt(c, u)' /\ Person(c, u)'
  BY <1>1 DEF Mine, Debt, Person, AtRow, Same
<1>4. Absent(c)' /\ Emptied(c)'
  BY <1>2 DEF Mine, Absent, Emptied, Same, SubscriptionOps
<1>5. Usage(c, u)' /\ OneItem(u)'
  BY DEF Mine, Usage, OneItem, AtRow, Same
<1> QED
  BY <1>3, <1>4, <1>5 DEF Mine

(* An idle caller knows of a customer that it is in step, and no more.     *)
LEMMA EvenMine ==
  ASSUME NEW c, NEW u, calls[c] = Payment!Idle
  PROVE  Mine(c, u) <=> Even(u)
  BY DEF Mine, Even, Debt, Absent, Person, Usage, Emptied, AtRow, Payment!Idle

(* The same after a step.                                                  *)
LEMMA EvenMineNext ==
  ASSUME NEW c, NEW u, calls'[c] = Payment!Idle
  PROVE  Mine(c, u)' <=> Even(u)'
  BY DEF Mine, Even, Debt, Absent, Person, Usage, Emptied, AtRow, Payment!Idle

(* A call writes the data of the customers it is about and no other.       *)
LEMMA OthersSame ==
  ASSUME Payment!PaymentAssumption, PayTyped, NEW c \in Callers, NEW op, NEW x, Fits(op, x),
         op \notin CustomerOps => UNCHANGED Payment!people,
         op \notin SubscriptionOps => UNCHANGED Payment!plans,
         op \in CustomerOps => Payment!CreateCustomer(c, x) \/ Payment!UpdateCustomer(c, x),
         op \in SubscriptionOps => \/ Payment!CreateSubscription(c, x) \/ Payment!UpdateSubscription(c, x)
                                   \/ Payment!RecordUsage(c, x) \/ Payment!CancelSubscription(c, x)
                                   \/ Payment!ReactivateSubscription(c, x),
         NEW v \in Customers \ Payment!About(x)
  PROVE  Same(v)
<1>0. CustomerOps \cap SubscriptionOps = {}
  BY DEF CustomerOps, SubscriptionOps
<1>1. CASE op \in CustomerOps
  <2>1. x \in Customers /\ x # v /\ UNCHANGED Payment!plans
    BY <1>0, <1>1, PaySubjects DEF Fits, CustomerOps, MethodOps
  <2>2. customer'[v] = customer[v] /\ atLago'[v] = atLago[v]
    BY <1>1, <2>1
       DEF Payment!CreateCustomer, Payment!UpdateCustomer, Payment!LagoCustomer,
           Payment!people, PayTyped, Payment!TypeOK
  <2> QED
    BY <2>1, <2>2 DEF Same, Payment!plans
<1>2. CASE op \in SubscriptionOps
  <2>1. x \in Subscriptions /\ Owner[x] # v /\ Owner[x] \in Customers /\ UNCHANGED Payment!people
    BY <1>0, <1>2, PaySubjects DEF Fits, SubscriptionOps, CustomerOps, MethodOps
  <2>2. billed'[v] = billed[v]
    BY <1>2, <2>1
       DEF Payment!CreateSubscription, Payment!UpdateSubscription, Payment!RecordUsage,
           Payment!CancelSubscription, Payment!ReactivateSubscription, Payment!LagoSubscribe,
           Payment!LagoCancel, PayTyped, Payment!TypeOK
  <2>3. \A s \in Subscriptions : s # x => status'[s] = status[s]
    BY <1>2, <2>1
       DEF Payment!CreateSubscription, Payment!UpdateSubscription, Payment!RecordUsage,
           Payment!CancelSubscription, Payment!ReactivateSubscription, PayTyped, Payment!TypeOK
  <2>4. \A s \in Subscriptions : s # x => items'[s] = items[s]
    BY <1>2, <2>1
       DEF Payment!CreateSubscription, Payment!UpdateSubscription, Payment!RecordUsage,
           Payment!CancelSubscription, Payment!ReactivateSubscription, PayTyped, Payment!TypeOK
  <2>5. \A s \in Subscriptions : s # x => used'[s] = used[s]
    BY <1>2, <2>1
       DEF Payment!CreateSubscription, Payment!UpdateSubscription, Payment!RecordUsage,
           Payment!CancelSubscription, Payment!ReactivateSubscription, Payment!LagoEvent,
           PayTyped, Payment!TypeOK
  <2> QED
    BY <2>1, <2>2, <2>3, <2>4, <2>5 DEF Same, Payment!people
<1>3. CASE op \notin CustomerOps /\ op \notin SubscriptionOps
  BY <1>3 DEF Same, Payment!people, Payment!plans
<1> QED
  BY <1>1, <1>2, <1>3

(* An operation that is of no subscription leaves what is known of them.   *)
LEMMA PlansMine ==
  ASSUME Payment!PaymentAssumption, NEW c, NEW u \in Customers, UNCHANGED Payment!plans, Mine(c, u),
         calls[c] = Payment!Idle \/ calls[c].op \notin SubscriptionOps,
         calls'[c] = Payment!Idle \/ calls'[c].op \notin SubscriptionOps,
         Person(c, u)'
  PROVE  Mine(c, u)'
<1>0. calls[c].op \notin SubscriptionOps /\ calls'[c].op \notin SubscriptionOps
  BY DEF Payment!Idle, SubscriptionOps
<1>1. Payment!Active(u)' = Payment!Active(u) /\ billed' = billed /\ used' = used /\ items' = items
  BY DEF Payment!Active, Payment!plans
<1>2. Debt(c, u)' /\ Absent(c)' /\ Emptied(c)'
  BY <1>0, <1>1 DEF Mine, Debt, Absent, Emptied, AtRow, SubscriptionOps
<1>3. Usage(c, u)'
  BY <1>0, <1>1 DEF Mine, Usage, AtRow, SubscriptionOps
<1>4. OneItem(u)'
  BY <1>1 DEF Mine, OneItem
<1> QED
  BY <1>2, <1>3, <1>4 DEF Mine

(* A call that writes no customer still knows what it knew of it.          *)
LEMMA PeopleMine ==
  ASSUME NEW c, NEW u, UNCHANGED Payment!people, Person(c, u),
         calls[c] = Payment!Idle \/ calls[c].op \notin CustomerOps,
         calls'[c] = Payment!Idle \/ calls'[c].op \notin CustomerOps
  PROVE  Person(c, u)'
  BY DEF Person, AtRow, Payment!people, Payment!Idle, CustomerOps

(* createCustomer and updateCustomer: Lago first, then the row.            *)
LEMMA CustomerMine ==
  ASSUME Payment!PaymentAssumption, PayTyped, NEW c \in Callers, NEW u \in Customers, Mine(c, u),
         Payment!CreateCustomer(c, u) \/ Payment!UpdateCustomer(c, u), u \in clean'
  PROVE  Mine(c, u)'
<1>0. UNCHANGED Payment!plans /\ Payment!About(u) = {u} /\ customer \in [Customers -> 0..MaxCalls] /\ atLago \in [Customers -> 0..MaxCalls]
  BY PaySubjects DEF Payment!CreateCustomer, Payment!UpdateCustomer, PayTyped, Payment!TypeOK
<1>1. ASSUME NEW op \in CustomerOps, Payment!Begin(c, op, u, "lago"), UNCHANGED Payment!people
      PROVE  Mine(c, u)'
  <2>1. calls[c] = Payment!Idle /\ calls'[c].op = op /\ calls'[c].pc = "lago"
    BY <1>1, BeginTyped DEF Payment!Begin, Fits
  <2>2. Person(c, u)'
    BY <1>1, <2>1 DEF Mine, Person, AtRow, Payment!people, Payment!Idle
  <2> QED
    BY <1>0, <2>1, <2>2, PlansMine DEF CustomerOps, SubscriptionOps
<1>2. ASSUME NEW op \in CustomerOps, Payment!In(c, op, u, "lago"), Payment!LagoCustomer(c, u), Payment!Goto(c, "row")
      PROVE  Mine(c, u)'
  <2>1. calls[c].op = op /\ calls'[c].op = op /\ calls'[c].n = calls[c].n
    BY <1>2, GotoTyped DEF Payment!In
  <2>2. calls'[c].pc = "row"
    BY <1>2, GotoTyped DEF Payment!In
  <2>3. Person(c, u)'
    BY <1>0, <1>2, <2>1, <2>2 DEF Person, Payment!LagoCustomer, AtRow, CustomerOps
  <2> QED
    BY <1>0, <2>1, <2>3, PlansMine DEF CustomerOps, SubscriptionOps
<1>3. ASSUME NEW op \in CustomerOps, Payment!In(c, op, u, "row"), customer' = [customer EXCEPT ![u] = calls[c].n],
             UNCHANGED atLago, Payment!Return(c)
      PROVE  Mine(c, u)'
  <2>1. calls[c].op = op /\ calls[c].pc = "row" /\ calls'[c] = Payment!Idle
    BY <1>3, EndTyped DEF Payment!In
  <2>2. Person(c, u)'
    BY <1>0, <1>3, <2>1 DEF Mine, Person, AtRow, Payment!Idle, CustomerOps
  <2> QED
    BY <1>0, <2>1, <2>2, PlansMine DEF CustomerOps, SubscriptionOps
<1>4. ASSUME NEW op \in CustomerOps, Payment!In(c, op, u, "row"), Payment!Refused(c)
      PROVE  FALSE
  BY <1>0, <1>4 DEF Payment!In, Payment!Refused
<1> QED
  BY <1>1, <1>2, <1>3, <1>4 DEF Payment!CreateCustomer, Payment!UpdateCustomer, CustomerOps

(* The operations on a subscription, statement by statement.               *)
LEMMA SubscriptionMine ==
  ASSUME Payment!PaymentAssumption, PayTyped, NEW c \in Callers, NEW s \in Subscriptions, NEW u \in Customers,
         u = Owner[s], Mine(c, u), u \in clean',
         \/ Payment!CreateSubscription(c, s) \/ Payment!UpdateSubscription(c, s) \/ Payment!RecordUsage(c, s)
         \/ Payment!CancelSubscription(c, s) \/ Payment!ReactivateSubscription(c, s)
  PROVE  Mine(c, u)'
<1>0. /\ UNCHANGED Payment!people /\ Payment!About(s) = {u} /\ u \in Customers
      /\ status \in [Subscriptions -> {"none", "ACTIVE", "CANCELED"}]
      /\ items \in [Subscriptions -> SUBSET (1..MaxCalls)]
      /\ billed \in [Customers -> Nat] /\ billed[u] \in Nat
      /\ used \in [Subscriptions -> [rows: Nat, lago: Nat]]
      /\ \A t \in Subscriptions : used[t].lago \in Nat /\ used[t].rows \in Nat
  BY PaySubjects
     DEF Payment!CreateSubscription, Payment!UpdateSubscription, Payment!RecordUsage,
         Payment!CancelSubscription, Payment!ReactivateSubscription, PayTyped, Payment!TypeOK,
         Payment!people
<1>00. /\ Payment!IsFiniteSet(Payment!Active(u)) /\ Payment!Cardinality(Payment!Active(u)) \in Nat
       /\ Payment!IsFiniteSet(Payment!Active(u)') /\ Payment!Cardinality(Payment!Active(u)') \in Nat
  BY ActiveFinite
<1>000. \A op \in SubscriptionOps : Fits(op, s) /\ op \notin CustomerOps
  BY DEF Fits, SubscriptionOps, CustomerOps
\* A call that begins.
<1>1. ASSUME NEW op \in SubscriptionOps, NEW pc \in Places, Payment!Begin(c, op, s, pc),
             UNCHANGED <<status, billed, used>>,
             \/ op = "updateSubscription" /\ items' = [items EXCEPT ![s] = {}]
             \/ op # "updateSubscription" /\ items' = items /\ pc = "lago",
             op \in {"createSubscription", "reactivateSubscription"} => status[s] # "ACTIVE"
      PROVE  Mine(c, u)'
  <2>1. calls[c] = Payment!Idle /\ calls'[c].op = op /\ calls'[c].pc = pc /\ calls'[c].of = s
    BY <1>000, <1>1, BeginTyped DEF Payment!Begin, Places
  <2>2. Payment!Active(u)' = Payment!Active(u) /\ billed'[u] = billed[u]
    BY <1>1 DEF Payment!Active
  <2>3. Even(u)
    BY <2>1, EvenMine
  <2>4. Debt(c, u)'
    BY <1>1, <2>1, <2>2, <2>3 DEF Even, Debt, AtRow
  <2>5. Absent(c)' /\ Emptied(c)'
    BY <1>0, <1>1, <2>1 DEF Absent, Emptied
  <2>6. Usage(c, u)'
    BY <1>1, <2>3 DEF Even, Usage
  <2>7. OneItem(u)'
    BY <1>0, <1>1, <2>3 DEF Even, OneItem
  <2>8. Person(c, u)'
    BY <1>0, <1>000, <2>1, PeopleMine DEF Mine
  <2> QED
    BY <2>4, <2>5, <2>6, <2>7, <2>8 DEF Mine
\* What every other step keeps.
<1>2. ASSUME NEW op \in SubscriptionOps, NEW pc \in Places, Payment!In(c, op, s, pc), calls'[c] = Payment!Idle \/ calls'[c].op = op
      PROVE  Person(c, u)'
  BY <1>0, <1>000, <1>2, PeopleMine DEF Mine, Payment!In
\* Lago is asked.
<1>3. ASSUME NEW op \in {"createSubscription", "reactivateSubscription"}, Payment!In(c, op, s, "lago"),
             Payment!LagoSubscribe(u), Payment!Goto(c, "row"), UNCHANGED <<status, items, used>>
      PROVE  Mine(c, u)'
  <2>1. /\ calls[c].op = op /\ calls[c].pc = "lago" /\ calls[c].of = s
        /\ calls'[c].op = op /\ calls'[c].pc = "row" /\ calls'[c].of = s
    BY <1>3, GotoTyped DEF Payment!In
  <2>2. Payment!Active(u)' = Payment!Active(u) /\ billed'[u] = billed[u] + 1
    BY <1>0, <1>3 DEF Payment!Active, Payment!LagoSubscribe
  <2>3. billed[u] <= Payment!Cardinality(Payment!Active(u))
    BY <2>1 DEF Mine, Debt, AtRow
  <2>4. Debt(c, u)'
    BY <1>0, <1>00, <2>1, <2>2, <2>3 DEF Debt, AtRow
  <2>5. Absent(c)' /\ Emptied(c)'
    BY <1>3, <2>1 DEF Mine, Absent, Emptied
  <2>6. Usage(c, u)' /\ OneItem(u)'
    BY <1>3, <2>1 DEF Mine, Usage, OneItem, AtRow
  <2> QED
    BY <1>2, <1>3, <2>1, <2>4, <2>5, <2>6 DEF Mine, Places, SubscriptionOps
<1>4. ASSUME Payment!In(c, "cancelSubscription", s, "lago"), Payment!LagoCancel(u), Payment!Goto(c, "row"), UNCHANGED <<status, items, used>>
      PROVE  Mine(c, u)'
  <2>1. /\ calls[c].op = "cancelSubscription" /\ calls[c].pc = "lago" /\ calls[c].of = s
        /\ calls'[c].op = "cancelSubscription" /\ calls'[c].pc = "row" /\ calls'[c].of = s
    BY <1>4, GotoTyped DEF Payment!In
  <2>2. Payment!Active(u)' = Payment!Active(u) /\ billed'[u] = billed[u] - 1
    BY <1>0, <1>4 DEF Payment!Active, Payment!LagoCancel
  <2>3. billed[u] <= Payment!Cardinality(Payment!Active(u))
    BY <2>1 DEF Mine, Debt, AtRow
  <2>4. Debt(c, u)'
    BY <1>0, <1>00, <2>1, <2>2, <2>3 DEF Debt, AtRow
  <2>5. Absent(c)' /\ Emptied(c)'
    BY <2>1 DEF Absent, Emptied
  <2>6. Usage(c, u)' /\ OneItem(u)'
    BY <1>4, <2>1 DEF Mine, Usage, OneItem, AtRow
  <2> QED
    BY <1>2, <1>4, <2>1, <2>4, <2>5, <2>6 DEF Mine, Places, SubscriptionOps
\* A row is written.
<1>5. ASSUME NEW op \in {"createSubscription", "reactivateSubscription"}, Payment!In(c, op, s, "row"), Payment!Return(c),
             status' = [status EXCEPT ![s] = "ACTIVE"],
             items' = items \/ items' = [items EXCEPT ![s] = {calls[c].n}], UNCHANGED <<billed, used>>
      PROVE  Mine(c, u)'
  <2>1. calls[c].op = op /\ calls[c].pc = "row" /\ calls[c].of = s /\ calls'[c] = Payment!Idle
    BY <1>5, EndTyped DEF Payment!In
  <2>2. billed[u] <= Payment!Cardinality(Payment!Active(u)) + 1 /\ status[s] # "ACTIVE"
    BY <2>1 DEF Mine, Debt, AtRow, Absent
  <2>3. Payment!Active(u)' = Payment!Active(u) \cup {s} /\ s \notin Payment!Active(u)
    BY <1>0, <1>5, <2>2 DEF Payment!Active
  <2>4. Payment!Cardinality(Payment!Active(u)') = Payment!Cardinality(Payment!Active(u)) + 1
    <3>1. Payment!Cardinality(Payment!Active(u) \cup {s}) = Payment!Cardinality(Payment!Active(u)) + 1
      BY <1>00, <2>3, PaymentFinite, FS_AddElement
    <3> QED
      BY <2>3, <3>1
  <2>5. billed'[u] <= Payment!Cardinality(Payment!Active(u)')
    BY <1>5, <2>2, <2>4
  <2>6. OneItem(u)'
    BY <1>0, <1>5 DEF Mine, OneItem
  <2>7. \A t \in Subscriptions : Owner[t] = u => used'[t].lago <= used'[t].rows
    BY <1>5, <2>1 DEF Mine, Usage, AtRow
  <2>8. Person(c, u)'
    BY <1>2, <1>5, <2>1 DEF Places, SubscriptionOps
  <2> QED
    BY <2>1, <2>5, <2>6, <2>7, <2>8 DEF Mine, Debt, Absent, Usage, Emptied, AtRow, Payment!Idle
<1>6. ASSUME Payment!In(c, "cancelSubscription", s, "row"), Payment!Return(c),
             status' = [status EXCEPT ![s] = "CANCELED"], UNCHANGED <<items, billed, used>>
      PROVE  Mine(c, u)'
  <2>1. calls[c].op = "cancelSubscription" /\ calls[c].pc = "row" /\ calls[c].of = s /\ calls'[c] = Payment!Idle
    BY <1>6, EndTyped DEF Payment!In
  <2>2. billed[u] + 1 <= Payment!Cardinality(Payment!Active(u))
    BY <2>1 DEF Mine, Debt, AtRow
  <2>3. Payment!Active(u) \subseteq Payment!Active(u)' \cup {s}
    BY <1>0, <1>6 DEF Payment!Active
  <2>4. Payment!Cardinality(Payment!Active(u)) <= Payment!Cardinality(Payment!Active(u)') + 1
    <3>1. /\ Payment!IsFiniteSet(Payment!Active(u)' \cup {s})
          /\ Payment!Cardinality(Payment!Active(u)' \cup {s}) = IF s \in Payment!Active(u)' THEN Payment!Cardinality(Payment!Active(u)')
                                                                ELSE Payment!Cardinality(Payment!Active(u)') + 1
      BY <1>00, PaymentFinite, FS_AddElement
    <3>2. Payment!Cardinality(Payment!Active(u)) <= Payment!Cardinality(Payment!Active(u)' \cup {s})
      BY <2>3, <3>1, PaymentFinite, FS_Subset
    <3> QED
      BY <1>00, <3>1, <3>2
  <2>5. billed'[u] <= Payment!Cardinality(Payment!Active(u)')
    BY <1>0, <1>00, <1>6, <2>2, <2>4
  <2>6. OneItem(u)'
    BY <1>6 DEF Mine, OneItem
  <2>7. \A t \in Subscriptions : Owner[t] = u => used'[t].lago <= used'[t].rows
    BY <1>6, <2>1 DEF Mine, Usage, AtRow
  <2>8. Person(c, u)'
    BY <1>2, <1>6, <2>1 DEF Places, SubscriptionOps
  <2> QED
    BY <2>1, <2>5, <2>6, <2>7, <2>8 DEF Mine, Debt, Absent, Usage, Emptied, AtRow, Payment!Idle
<1>7. ASSUME Payment!In(c, "updateSubscription", s, "row"), Payment!Return(c),
             items' = [items EXCEPT ![s] = items[s] \cup {calls[c].n}], UNCHANGED <<status, billed, used>>
      PROVE  Mine(c, u)'
  <2>1. calls[c].op = "updateSubscription" /\ calls[c].pc = "row" /\ calls[c].of = s /\ calls'[c] = Payment!Idle
    BY <1>7, EndTyped DEF Payment!In
  <2>2. Payment!Active(u)' = Payment!Active(u) /\ billed'[u] <= Payment!Cardinality(Payment!Active(u)')
    BY <1>7, <2>1 DEF Mine, Debt, AtRow, Payment!Active
  <2>3. items[s] = {}
    BY <2>1 DEF Mine, Emptied
  <2>4. OneItem(u)'
    BY <1>0, <1>7, <2>3 DEF Mine, OneItem
  <2>5. \A t \in Subscriptions : Owner[t] = u => used'[t].lago <= used'[t].rows
    BY <1>7, <2>1 DEF Mine, Usage, AtRow
  <2>6. Person(c, u)'
    BY <1>2, <1>7, <2>1 DEF Places, SubscriptionOps
  <2> QED
    BY <2>1, <2>2, <2>4, <2>5, <2>6 DEF Mine, Debt, Absent, Usage, Emptied, AtRow, Payment!Idle
\* Usage.
<1>8. ASSUME Payment!In(c, "recordUsage", s, "lago"), Payment!LagoEvent(s), Payment!Goto(c, "row"), UNCHANGED <<status, items, billed>>
      PROVE  Mine(c, u)'
  <2>1. /\ calls[c].op = "recordUsage" /\ calls[c].pc = "lago" /\ calls[c].of = s
        /\ calls'[c].op = "recordUsage" /\ calls'[c].pc = "row" /\ calls'[c].of = s
    BY <1>8, GotoTyped DEF Payment!In
  <2>2. Payment!Active(u)' = Payment!Active(u) /\ billed'[u] <= Payment!Cardinality(Payment!Active(u)')
    BY <1>8, <2>1 DEF Mine, Debt, AtRow, Payment!Active
  <2>3. \A t \in Subscriptions : Owner[t] = u => used[t].lago <= used[t].rows
    BY <2>1 DEF Mine, Usage, AtRow
  <2>4. /\ \A t \in Subscriptions \ {s} : used'[t] = used[t]
        /\ used'[s].rows = used[s].rows /\ used'[s].lago \in {used[s].lago, used[s].lago + 1}
    BY <1>0, <1>8 DEF Payment!LagoEvent
  <2>5. Usage(c, u)'
    <3>1. SUFFICES ASSUME NEW t \in Subscriptions, Owner[t] = u
                   PROVE  \/ used'[t].lago <= used'[t].rows
                          \/ t = s /\ used'[t].lago <= used'[t].rows + 1
      BY <2>1 DEF Usage, AtRow
    <3>2. CASE t = s
      BY <1>0, <2>3, <2>4, <3>1, <3>2
    <3>3. CASE t # s
      BY <2>3, <2>4, <3>1, <3>3
    <3> QED
      BY <3>2, <3>3
  <2>6. OneItem(u)'
    BY <1>8 DEF Mine, OneItem
  <2>7. Person(c, u)'
    BY <1>2, <1>8, <2>1 DEF Places, SubscriptionOps
  <2> QED
    BY <2>1, <2>2, <2>5, <2>6, <2>7 DEF Mine, Debt, Absent, Emptied, AtRow
<1>9. ASSUME Payment!In(c, "recordUsage", s, "row"), used' = [used EXCEPT ![s].rows = @ + 1], Payment!Return(c),
             UNCHANGED <<status, items, billed>>
      PROVE  Mine(c, u)'
  <2>1. calls[c].op = "recordUsage" /\ calls[c].pc = "row" /\ calls[c].of = s /\ calls'[c] = Payment!Idle
    BY <1>9, EndTyped DEF Payment!In
  <2>2. Payment!Active(u)' = Payment!Active(u) /\ billed'[u] <= Payment!Cardinality(Payment!Active(u)')
    BY <1>9, <2>1 DEF Mine, Debt, AtRow, Payment!Active
  <2>3. /\ \A t \in Subscriptions \ {s} : used'[t] = used[t]
        /\ used'[s].rows = used[s].rows + 1 /\ used'[s].lago = used[s].lago
    BY <1>0, <1>9
  <2>4. \A t \in Subscriptions : Owner[t] = u => used'[t].lago <= used'[t].rows
    <3>1. SUFFICES ASSUME NEW t \in Subscriptions, Owner[t] = u
                   PROVE  used'[t].lago <= used'[t].rows
      OBVIOUS
    <3>2. used[t].lago <= used[t].rows \/ (s = t /\ used[t].lago <= used[t].rows + 1)
      BY <2>1, <3>1 DEF Mine, Usage
    <3>3. CASE t = s
      BY <1>0, <2>3, <3>2, <3>3
    <3>4. CASE t # s
      BY <2>3, <3>2, <3>4
    <3> QED
      BY <3>3, <3>4
  <2>5. OneItem(u)'
    BY <1>9 DEF Mine, OneItem
  <2>6. Person(c, u)'
    BY <1>2, <1>9, <2>1 DEF Places, SubscriptionOps
  <2> QED
    BY <2>1, <2>2, <2>4, <2>5, <2>6 DEF Mine, Debt, Absent, Usage, Emptied, AtRow, Payment!Idle
<1>10. ASSUME Payment!In(c, "cancelSubscription", s, "lago"), Payment!Refused(c)
       PROVE  FALSE
  BY <1>0, <1>10 DEF Payment!In, Payment!Refused
<1>11. CASE Payment!CreateSubscription(c, s)
  BY <1>1, <1>3, <1>5, <1>11 DEF Payment!CreateSubscription, SubscriptionOps, Places
<1>12. CASE Payment!UpdateSubscription(c, s)
  <2>1. CASE Payment!Begin(c, "updateSubscription", s, "row") /\ items' = [items EXCEPT ![s] = {}]
    <3>1. UNCHANGED <<status, billed, used>>
      BY <1>12 DEF Payment!UpdateSubscription
    <3>2. "updateSubscription" \in SubscriptionOps /\ "row" \in Places
      BY DEF SubscriptionOps, Places
    <3> QED
      BY <1>1, <2>1, <3>1, <3>2
  <2>2. CASE Payment!In(c, "updateSubscription", s, "row") /\ items' = [items EXCEPT ![s] = @ \cup {calls[c].n}] /\ Payment!Return(c)
    BY <1>7, <1>12, <2>2 DEF Payment!UpdateSubscription
  <2> QED
    BY <1>12, <2>1, <2>2 DEF Payment!UpdateSubscription
<1>13. CASE Payment!RecordUsage(c, s)
  BY <1>1, <1>8, <1>9, <1>13 DEF Payment!RecordUsage, SubscriptionOps, Places
<1>14. CASE Payment!CancelSubscription(c, s)
  BY <1>1, <1>4, <1>6, <1>10, <1>14 DEF Payment!CancelSubscription, SubscriptionOps, Places
<1>15. CASE Payment!ReactivateSubscription(c, s)
  BY <1>1, <1>3, <1>5, <1>15 DEF Payment!ReactivateSubscription, SubscriptionOps, Places
<1> QED
  BY <1>11, <1>12, <1>13, <1>14, <1>15

(* The call that acts about a customer acts alone.                         *)
LEMMA ActorMine ==
  ASSUME Payment!PaymentAssumption, PayTyped, StepInv, NEW c \in Callers, NEW u \in clean, u \in clean',
         NEW op, NEW x, Fits(op, x), Moves(c, op, x), u \in Payment!About(x)
  PROVE  /\ \A d \in Callers \ {c} : ~Concerns(d, u)
         /\ Mine(c, u)
<1>1. CASE calls[c] = Payment!Idle
  <2>1. \E pc \in Places : Payment!Begin(c, op, x, pc)
    BY <1>1 DEF Moves, Payment!In
  <2>2. Payment!Alone(u)
    BY <2>1 DEF Payment!Begin
  <2> QED
    BY <1>1, <2>2, EvenMine DEF Payment!Alone, Concerns, StepInv
<1>2. CASE calls[c] # Payment!Idle
  <2>1. calls[c].of = x
    BY <1>2 DEF Moves, Payment!In, Payment!Begin
  <2> QED
    BY <1>2, <2>1 DEF Concerns, StepInv
<1> QED
  BY <1>1, <1>2

(* Every step keeps clean customers in step with Lago.                     *)
LEMMA StepInvStep == Payment!PaymentAssumption /\ PayTyped /\ StepInv /\ [Payment!Next]_(Payment!vars) => StepInv'
<1> SUFFICES ASSUME Payment!PaymentAssumption, PayTyped, StepInv, [Payment!Next]_(Payment!vars)
             PROVE  StepInv'
  OBVIOUS
<1> DEFINE Held(u) == /\ \A c, d \in Callers : Concerns(c, u)' /\ Concerns(d, u)' => c = d
                      /\ Payment!Alone(u)' => Even(u)'
                      /\ \A c \in Callers : Concerns(c, u)' => Mine(c, u)'
\* A customer the step is not about.
<1>1. ASSUME NEW c \in Callers, NEW u \in clean, Same(u), \A d \in Callers \ {c} : calls'[d] = calls[d],
             ~Concerns(c, u), ~Concerns(c, u)'
      PROVE  Held(u)
  <2>1. \A d \in Callers : Concerns(d, u)' => d # c /\ Concerns(d, u) /\ calls'[d] = calls[d]
    BY <1>1 DEF Concerns
  <2>2. \A d \in Callers : Concerns(d, u)' => Mine(d, u)'
    BY <1>1, <2>1, SameMine DEF StepInv
  <2>3. Payment!Alone(u)' => Payment!Alone(u)
    BY <1>1 DEF Payment!Alone, Concerns
  <2>4. Payment!Alone(u)' => Even(u)'
    BY <1>1, <2>3, SameEven DEF StepInv
  <2> QED
    BY <2>1, <2>2, <2>4 DEF StepInv
\* A customer the step is about.
<1>2. ASSUME NEW c \in Callers, NEW u \in clean, \A d \in Callers \ {c} : calls'[d] = calls[d] /\ ~Concerns(d, u),
             Mine(c, u)', Concerns(c, u)' \/ calls'[c] = Payment!Idle
      PROVE  Held(u)
  <2>1. \A d \in Callers \ {c} : ~Concerns(d, u)'
    BY <1>2 DEF Concerns
  <2>2. calls'[c] = Payment!Idle => Even(u)'
    BY <1>2, EvenMineNext
  <2>3. Payment!Alone(u)' => calls'[c] = Payment!Idle
    BY <1>2 DEF Payment!Alone, Concerns
  <2> QED
    BY <1>2, <2>1, <2>2, <2>3
<1>3. ASSUME NEW c \in Callers, Payment!Call(c), NEW u \in clean, u \in clean'
      PROVE  Held(u)
  <2>1. PICK op \in Payment!Op, x \in Payment!Subject :
           /\ Fits(op, x) /\ Moves(c, op, x)
           /\ op \notin CustomerOps => UNCHANGED Payment!people
           /\ op \notin SubscriptionOps => UNCHANGED Payment!plans
           /\ op \in CustomerOps => Payment!CreateCustomer(c, x) \/ Payment!UpdateCustomer(c, x)
           /\ op \in SubscriptionOps => \/ Payment!CreateSubscription(c, x) \/ Payment!UpdateSubscription(c, x)
                                        \/ Payment!RecordUsage(c, x) \/ Payment!CancelSubscription(c, x)
                                        \/ Payment!ReactivateSubscription(c, x)
    BY <1>3, CallMoves
  <2>2. /\ \A d \in Callers \ {c} : calls'[d] = calls[d]
        /\ calls'[c] = Payment!Idle \/ (calls'[c] # Payment!Idle /\ calls'[c].op = op /\ calls'[c].of = x)
        /\ calls[c] # Payment!Idle => calls[c].op = op /\ calls[c].of = x
    BY <2>1, MovesKept
  <2>3. u \in Customers
    BY DEF PayTyped, Payment!TypeOK
  <2>4. CASE u \notin Payment!About(x)
    <3>1. Same(u)
      BY <2>1, <2>3, <2>4, OthersSame
    <3>2. ~Concerns(c, u) /\ ~Concerns(c, u)'
      BY <2>2, <2>4 DEF Concerns, Payment!About
    <3> QED
      BY <1>1, <2>2, <3>1, <3>2
  <2>5. CASE u \in Payment!About(x)
    <3>1. /\ \A d \in Callers \ {c} : ~Concerns(d, u)
          /\ Mine(c, u)
      BY <1>3, <2>1, <2>5, ActorMine
    <3>2. Concerns(c, u)' \/ calls'[c] = Payment!Idle
      BY <2>2, <2>5 DEF Concerns, Payment!About
    <3>3. Mine(c, u)'
      <4>1. CASE op \in CustomerOps
        <5>1. x \in Customers
          BY <2>1, <4>1 DEF Fits, CustomerOps, SubscriptionOps, MethodOps
        <5>2. x = u
          BY <2>5, <5>1, PaySubjects
        <5> QED
          BY <1>3, <2>1, <2>3, <3>1, <4>1, <5>2, CustomerMine
      <4>2. CASE op \in SubscriptionOps
        <5>1. x \in Subscriptions
          BY <2>1, <4>2 DEF Fits, CustomerOps, SubscriptionOps, MethodOps
        <5>2. u = Owner[x]
          BY <2>5, <5>1, PaySubjects
        <5> QED
          BY <1>3, <2>1, <2>3, <3>1, <4>2, <5>1, <5>2, SubscriptionMine
      <4>3. CASE op \notin CustomerOps /\ op \notin SubscriptionOps
        <5>1. Person(c, u)'
          BY <2>1, <2>2, <3>1, <4>3, PeopleMine DEF Mine
        <5> QED
          BY <2>1, <2>2, <2>3, <3>1, <4>3, <5>1, PlansMine
      <4> QED
        BY <4>1, <4>2, <4>3
    <3> QED
      BY <1>2, <2>2, <3>1, <3>2, <3>3
  <2> QED
    BY <2>4, <2>5
<1>4. ASSUME NEW c \in Callers, Payment!CallFails(c), NEW u \in clean, u \in clean'
      PROVE  Held(u)
  <2>1. UNCHANGED <<Payment!people, Payment!plans>> /\ calls[c] # Payment!Idle /\ clean' = clean \ Payment!About(calls[c].of)
    BY <1>4 DEF Payment!CallFails
  <2>2. /\ \A d \in Callers \ {c} : calls'[d] = calls[d]
        /\ calls'[c] = Payment!Idle \/ (calls'[c] # Payment!Idle /\ calls'[c].of = calls[c].of)
    BY <1>4, FailTyped
  <2>3. u \notin Payment!About(calls[c].of)
    BY <1>4, <2>1
  <2>4. Same(u)
    BY <2>1 DEF Same, Payment!people, Payment!plans
  <2>5. ~Concerns(c, u) /\ ~Concerns(c, u)'
    BY <2>2, <2>3 DEF Concerns, Payment!About
  <2> QED
    BY <1>1, <2>2, <2>4, <2>5
<1>5. CASE UNCHANGED Payment!vars
  <2>1. calls' = calls /\ clean' = clean /\ \A u : Same(u)
    BY <1>5 DEF Payment!vars, Same
  <2>2. \A u : \A c \in Callers : Concerns(c, u)' <=> Concerns(c, u)
    BY <2>1 DEF Concerns, Payment!About
  <2>3. \A u : Payment!Alone(u)' <=> Payment!Alone(u)
    BY <2>1 DEF Payment!Alone, Payment!About
  <2>4. ASSUME NEW u \in clean PROVE Held(u)
    BY <2>1, <2>2, <2>3, SameMine, SameEven DEF StepInv
  <2> QED
    BY <2>1, <2>4 DEF StepInv
<1>6. CASE Payment!Next
  <2>1. ASSUME NEW c \in Callers, Payment!Call(c)
        PROVE  clean' \subseteq clean
    <3>1. PICK op \in Payment!Op, x \in Payment!Subject : Moves(c, op, x)
      BY <2>1, CallMoves
    <3> QED
      BY <3>1 DEF Moves, Payment!Begin, Payment!Goto, Payment!Return, Payment!Refused
  <2>2. clean' \subseteq clean
    BY <1>6, <2>1 DEF Payment!Next, Payment!CallFails
  <2>3. ASSUME NEW u \in clean' PROVE Held(u)
    BY <1>3, <1>4, <1>6, <2>2 DEF Payment!Next
  <2> QED
    BY <2>3 DEF StepInv
<1> QED
  BY <1>5, <1>6

(* At first there is nothing to bill.                                      *)
LEMMA StepInvInit == Payment!PaymentAssumption /\ Payment!Init => StepInv
<1> SUFFICES ASSUME Payment!PaymentAssumption, Payment!Init, NEW u \in Customers
             PROVE  Even(u) /\ \A c \in Callers : ~Concerns(c, u)
  BY DEF StepInv, Payment!Init
<1>1. \A c \in Callers : ~Concerns(c, u)
  BY DEF Payment!Init, Concerns
<1>2. billed[u] <= Payment!Cardinality(Payment!Active(u))
  BY ActiveFinite DEF Payment!Init
<1>3. Even(u)
  BY <1>2 DEF Payment!Init, Even, OneItem
<1> QED
  BY <1>1, <1>3

(* A clean customer nobody is busy with is in step.                        *)
LEMMA StepInvHeld == Payment!PaymentAssumption /\ PayTyped /\ StepInv => Payment!InStep
<1> SUFFICES ASSUME Payment!PaymentAssumption, PayTyped, StepInv, NEW u \in clean, Payment!Alone(u)
             PROVE  /\ billed[u] <= Payment!Cardinality(Payment!Active(u))
                    /\ customer[u] = atLago[u]
                    /\ \A s \in Subscriptions : Owner[s] = u =>
                         used[s].lago <= used[s].rows /\ Payment!Cardinality(items[s]) <= 1
  BY DEF Payment!InStep
<1>1. Even(u)
  BY DEF StepInv
<1>2. ASSUME NEW s \in Subscriptions, Owner[s] = u
      PROVE  Payment!Cardinality(items[s]) <= 1
  <2>1. \A a, b \in items[s] : a = b
    BY <1>1, <1>2 DEF Even, OneItem
  <2>2. CASE items[s] = {}
    BY <2>2, PaymentFinite, FS_EmptySet
  <2>3. CASE items[s] # {}
    <3>1. PICK a : items[s] = {a}
      BY <2>1, <2>3
    <3>2. Payment!Cardinality({a}) = 1
      BY PaymentFinite, FS_Singleton
    <3> QED
      BY <3>1, <3>2
  <2> QED
    BY <2>2, <2>3
<1> QED
  BY <1>1, <1>2 DEF Even

-----------------------------------------------------------------------------
(***************************************************************************)
(* FeatureFlags.                                                           *)
(***************************************************************************)
(* What it counts is what the library counts.                               *)
LEMMA FeatureFinite == \A S : Feature!Cardinality(S) = Cardinality(S) /\ (Feature!IsFiniteSet(S) <=> IsFiniteSet(S))
  BY DEF Feature!Cardinality, Cardinality, Feature!IsFiniteSet, IsFiniteSet

(* RemoveFirst of a member takes out the one place it is at.               *)
LEMMA RemoveFirstIs ==
  ASSUME NEW S, NEW s \in Seq(S), NEW p \in 1..Len(s), \A i, j \in 1..Len(s) : s[i] = s[j] => i = j
  PROVE  Feature!RemoveFirst(s, s[p]) = SubSeq(s, 1, p - 1) \o SubSeq(s, p + 1, Len(s))
<1>1. {i \in 1..Len(s) : s[i] = s[p]} = {p}
  OBVIOUS
<1>2. p \in Nat /\ Len(s) \in Nat
  BY LenProperties
<1>3. Feature!Min({p}) = p
  BY <1>2 DEF Feature!Min
<1>4. Feature!RemoveFirst(s, s[p]) = Feature!RemoveAt(s, p)
  BY <1>1, <1>3 DEF Feature!RemoveFirst, Feature!SelectInSeq
<1> QED
  BY <1>4 DEF Feature!RemoveAt

-----------------------------------------------------------------------------
(* What holds of the features beside their types.                          *)
Unique == \A i, j \in 1..Len(features) : features[i] = features[j] => i = j
Created == \A i \in 1..Len(features) : name[features[i]] \in Names
Numbered == /\ Len(arrays) <= changes
            /\ \A p \in Features \X Envs : config[p] # None => config[p] \in 1..Len(arrays)
FlagTyped == Feature!TypeOK /\ Unique /\ Created /\ Numbered

(* An answer that is not Unleash's has less time left than Unleash's has   *)
(* been the same.                                                          *)
Stale == \A n \in Names : cache[n].left > 0 /\ cache[n].enabled # Feature!Verdict(n) => since[n] + cache[n].left <= TTL

(* What the pages to come still have to show.                              *)
Ahead == /\ reader.on => \A r \in reader.due :
              \/ r \in reader.seen
              \/ \E i \in Feature!Filtered : features[i] = r /\ Feature!Cardinality(Feature!Before(i)) >= reader.at
         /\ ~reader.on => reader.due \subseteq reader.seen

FlagInv == FlagTyped /\ Stale /\ Ahead

(* There is nothing to be wrong about at first.                            *)
LEMMA FlagInitial == Feature!FeatureAssumption /\ Feature!Init => FlagInv
<1> SUFFICES ASSUME Feature!FeatureAssumption, Feature!Init PROVE FlagInv
  OBVIOUS
<1>1. features \in Seq(Features) /\ arrays \in Seq(SUBSET Feature!Rule) /\ Len(features) = 0 /\ Len(arrays) = 0
  BY DEF Feature!Init
<1>2. Feature!TypeOK
  <2>1. config \in [Features \X Envs -> Feature!Arrays \cup {None}] /\ name \in [Features -> Names \cup {None}]
    BY DEF Feature!Init
  <2>2. reader \in [on: BOOLEAN, at: Nat, seen: SUBSET Features, due: SUBSET Features]
    BY DEF Feature!Init
  <2>3. cache \in [Names -> [enabled: BOOLEAN, left: 0..TTL]] /\ since \in [Names -> 0..TTL]
    BY DEF Feature!Init, Feature!FeatureAssumption
  <2>4. /\ tagged \subseteq Features /\ envs \subseteq Envs /\ toggles \subseteq Names /\ ready \in BOOLEAN
        /\ asked \subseteq Names /\ found \subseteq Names
    BY DEF Feature!Init
  <2>6. changes \in 0..FlagCalls
    BY DEF Feature!Init, Feature!FeatureAssumption
  <2>5. Len(arrays) <= FlagCalls
    BY <1>1 DEF Feature!FeatureAssumption
  <2> QED
    BY <1>1, <2>1, <2>2, <2>3, <2>4, <2>5, <2>6 DEF Feature!TypeOK
<1> QED
  BY <1>1, <1>2
     DEF Feature!Init, FlagInv, FlagTyped, Unique, Created, Numbered, Stale, Ahead,
         Feature!FeatureAssumption

(* Where a feature is in the map.                                          *)
LEMMA Domains ==
  ASSUME FlagTyped
  PROVE  /\ Len(features) \in Nat /\ DOMAIN features = 1..Len(features)
         /\ \A i \in 1..Len(features) : features[i] \in Features
         /\ \A f : Feature!Present(f) <=> \E i \in 1..Len(features) : features[i] = f
<1>1. /\ Len(features) \in Nat /\ DOMAIN features = 1..Len(features)
      /\ \A i \in 1..Len(features) : features[i] \in Features
  BY LenProperties, ElementOfSeq DEF FlagTyped, Feature!TypeOK
<1> QED
  BY <1>1 DEF Feature!Present, Feature!ToSet

(* The features that match, and those before one of them, can be counted.  *)
LEMMA FilteredFinite ==
  ASSUME FlagTyped
  PROVE  /\ Feature!Filtered \subseteq 1..Len(features) /\ Feature!IsFiniteSet(Feature!Filtered) /\ Feature!Cardinality(Feature!Filtered) \in Nat
         /\ \A i \in Feature!Filtered : /\ Feature!Before(i) \subseteq Feature!Filtered /\ Feature!IsFiniteSet(Feature!Before(i))
                                        /\ Feature!Cardinality(Feature!Before(i)) \in Nat
                                        /\ Feature!Cardinality(Feature!Before(i)) < Feature!Cardinality(Feature!Filtered)
<1>1. Feature!Filtered \subseteq 1..Len(features) /\ Len(features) \in Nat
  BY Domains DEF Feature!Filtered
<1>2. Feature!IsFiniteSet(Feature!Filtered) /\ Feature!Cardinality(Feature!Filtered) \in Nat
  <2>1. Feature!IsFiniteSet(1..Len(features))
    BY <1>1, FeatureFinite, FS_Interval
  <2> QED
    BY <1>1, <2>1, FeatureFinite, FS_Subset, FS_CardinalityType
<1>3. ASSUME NEW i \in Feature!Filtered
      PROVE  /\ Feature!Before(i) \subseteq Feature!Filtered /\ Feature!IsFiniteSet(Feature!Before(i))
             /\ Feature!Cardinality(Feature!Before(i)) \in Nat
             /\ Feature!Cardinality(Feature!Before(i)) < Feature!Cardinality(Feature!Filtered)
  <2>1. Feature!Before(i) \subseteq Feature!Filtered /\ i \notin Feature!Before(i)
    BY <1>1 DEF Feature!Before
  <2>2. Feature!IsFiniteSet(Feature!Before(i)) /\ Feature!Cardinality(Feature!Before(i)) \in Nat
    BY <1>2, <2>1, FeatureFinite, FS_Subset, FS_CardinalityType
  <2>3. Feature!Cardinality(Feature!Before(i)) <= Feature!Cardinality(Feature!Filtered) /\ (Feature!Cardinality(Feature!Before(i)) = Feature!Cardinality(Feature!Filtered) => Feature!Before(i) = Feature!Filtered)
    BY <1>2, <2>1, FeatureFinite, FS_Subset
  <2> QED
    BY <1>2, <2>1, <2>2, <2>3
<1> QED
  BY <1>1, <1>2, <1>3

(* Only the rules change.                                                  *)
LEMMA RulesKeep ==
  ASSUME FlagInv, UNCHANGED <<features, name, tagged, reader, Feature!unleash, Feature!redis>>,
         Feature!TypeOK', Numbered'
  PROVE  FlagInv'
<1>1. Unique' /\ Created'
  BY DEF FlagInv, FlagTyped, Unique, Created
<1>2. Stale'
  BY DEF FlagInv, Stale, Feature!Verdict, Feature!unleash, Feature!redis
<1>3. Ahead'
  <2>1. Feature!Filtered' = Feature!Filtered /\ \A i : Feature!Before(i)' = Feature!Before(i)
    BY DEF Feature!Filtered, Feature!Before
  <2> QED
    BY <2>1 DEF FlagInv, Ahead
<1> QED
  BY <1>1, <1>2, <1>3 DEF FlagInv, FlagTyped

(* Steps on the rules of one environment.                                  *)
LEMMA RulesChange ==
  ASSUME Feature!FeatureAssumption, FlagInv, NEW f \in Features, NEW e \in Envs, NEW r \in Rules,
         Feature!AddTargetingRule(f, e, r) \/ Feature!RemoveTargetingRule(f, e, r) \/ Feature!UpdateTargetingRule(f, e, r)
  PROVE  FlagInv'
<1> DEFINE old == config[<<f, e>>]
<1>0. /\ <<f, e>> \in Features \X Envs /\ arrays \in Seq(SUBSET Feature!Rule) /\ Len(arrays) \in Nat
      /\ config \in [Features \X Envs -> Feature!Arrays \cup {None}] /\ changes \in 0..FlagCalls /\ FlagCalls \in Nat
      /\ Len(arrays) <= changes /\ None \notin 1..FlagCalls
      /\ \A p \in Features \X Envs : config[p] # None => config[p] \in 1..Len(arrays)
      /\ \A i \in 1..Len(arrays) : arrays[i] \in SUBSET Feature!Rule
  BY LenProperties, ElementOfSeq
     DEF FlagInv, FlagTyped, Feature!TypeOK, Numbered, Feature!FeatureAssumption
<1>1. changes' = changes + 1 /\ changes' \in 0..FlagCalls /\ Feature!RulesOnly
  BY <1>0
     DEF Feature!AddTargetingRule, Feature!RemoveTargetingRule, Feature!UpdateTargetingRule,
         Feature!Write
<1>2. ASSUME NEW R \in SUBSET Feature!Rule, arrays' = Append(arrays, R), config' = [config EXCEPT ![<<f, e>>] = Len(arrays) + 1]
      PROVE  /\ arrays' \in Seq(SUBSET Feature!Rule) /\ Len(arrays') <= changes'
             /\ config' \in [Features \X Envs -> Feature!Arrays \cup {None}]
             /\ \A p \in Features \X Envs : config'[p] # None => config'[p] \in 1..Len(arrays')
  <2>1. arrays' \in Seq(SUBSET Feature!Rule) /\ Len(arrays') = Len(arrays) + 1
    BY <1>0, <1>2
  <2>2. Len(arrays) + 1 \in Feature!Arrays /\ Len(arrays') <= changes'
    BY <1>0, <1>1, <2>1 DEF Feature!Arrays
  <2> QED
    BY <1>0, <1>2, <2>1, <2>2
<1>3. ASSUME NEW R \in SUBSET Feature!Rule, arrays' = [arrays EXCEPT ![old] = R], config' = config, old # None
      PROVE  /\ arrays' \in Seq(SUBSET Feature!Rule) /\ Len(arrays') <= changes'
             /\ config' \in [Features \X Envs -> Feature!Arrays \cup {None}]
             /\ \A p \in Features \X Envs : config'[p] # None => config'[p] \in 1..Len(arrays')
  <2>1. old \in 1..Len(arrays)
    BY <1>0, <1>3
  <2>2. arrays' \in Seq(SUBSET Feature!Rule) /\ Len(arrays') = Len(arrays)
    BY <1>0, <1>3, <2>1, ExceptSeq
  <2> QED
    BY <1>0, <1>1, <1>3, <2>2
<1>4. Feature!RulesOf(f, e) \subseteq Feature!Rule
  BY <1>0 DEF Feature!RulesOf
<1>5. /\ arrays' \in Seq(SUBSET Feature!Rule) /\ Len(arrays') <= changes'
      /\ config' \in [Features \X Envs -> Feature!Arrays \cup {None}]
      /\ \A p \in Features \X Envs : config'[p] # None => config'[p] \in 1..Len(arrays')
  <2>1. CASE Feature!AddTargetingRule(f, e, r)
    <3> DEFINE rule == [id |-> r, edited |-> FALSE]
    <3>1. {rule} \in SUBSET Feature!Rule
      BY DEF Feature!Rule
    <3> HIDE DEF rule
    <3>2. \/ old = None /\ arrays' = Append(arrays, {rule}) /\ config' = [config EXCEPT ![<<f, e>>] = Len(arrays) + 1]
          \/ old # None /\ arrays' = [arrays EXCEPT ![old] = arrays[old] \cup {rule}] /\ config' = config
      BY <2>1 DEF Feature!AddTargetingRule, Feature!PushRule, rule
    <3>3. old # None => arrays[old] \cup {rule} \in SUBSET Feature!Rule
      BY <1>0, <3>1
    <3> QED
      BY <1>2, <1>3, <3>1, <3>2, <3>3
  <2>2. CASE Feature!RemoveTargetingRule(f, e, r)
    <3>1. {x \in Feature!RulesOf(f, e) : x.id # r} \in SUBSET Feature!Rule
      BY <1>4
    <3> QED
      BY <1>2, <2>2, <3>1 DEF Feature!RemoveTargetingRule, Feature!FilterRules
  <2>3. CASE Feature!UpdateTargetingRule(f, e, r)
    <3> DEFINE rule == [id |-> r, edited |-> TRUE]
    <3>1. {rule} \in SUBSET Feature!Rule
      BY DEF Feature!Rule
    <3> HIDE DEF rule
    <3>2. /\ arrays' = [arrays EXCEPT ![old] = {x \in arrays[old] : x.id # r} \cup {rule}]
          /\ config' = config /\ old # None
      BY <2>3 DEF Feature!UpdateTargetingRule, Feature!ReplaceRule, rule, Feature!RulesOf
    <3>3. {x \in arrays[old] : x.id # r} \cup {rule} \in SUBSET Feature!Rule
      BY <1>0, <3>1, <3>2
    <3> QED
      BY <1>3, <3>2, <3>3
  <2> QED
    BY <2>1, <2>2, <2>3
<1>6. Numbered'
  BY <1>5 DEF Numbered
<1>7. Len(arrays') <= FlagCalls
  <2>1. Len(arrays') \in Nat
    BY <1>5, LenProperties
  <2> QED
    BY <1>0, <1>1, <1>5, <2>1
<1>8. Feature!TypeOK'
  BY <1>1, <1>5, <1>7
     DEF FlagInv, FlagTyped, Feature!TypeOK, Feature!RulesOnly, Feature!unleash, Feature!redis
<1> QED
  BY <1>1, <1>6, <1>8, RulesKeep DEF Feature!RulesOnly

(* Environments are created, or copied from one another.                   *)
LEMMA EnvironmentsChange ==
  ASSUME Feature!FeatureAssumption, FlagInv, NEW e \in Envs, NEW t \in Envs, Feature!CreateEnvironment(e) \/ Feature!CopyEnvironment(e, t)
  PROVE  FlagInv'
<1>1. changes' = changes + 1 /\ changes' \in 0..FlagCalls /\ envs' \subseteq Envs /\ arrays' = arrays
      /\ UNCHANGED <<features, name, tagged, reader, Feature!unleash, Feature!redis>>
  BY DEF Feature!CreateEnvironment, Feature!CopyEnvironment, Feature!CopyConfigs, Feature!Write,
         FlagInv, FlagTyped, Feature!TypeOK, Feature!FeatureAssumption
<1>2. /\ config' \in [Features \X Envs -> Feature!Arrays \cup {None}]
      /\ \A p \in Features \X Envs : config'[p] # None => config'[p] \in 1..Len(arrays)
  <2>0. /\ config \in [Features \X Envs -> Feature!Arrays \cup {None}]
        /\ \A p \in Features \X Envs : config[p] # None => config[p] \in 1..Len(arrays)
        /\ \A p \in Features \X Envs : <<p[1], e>> \in Features \X Envs
    BY DEF FlagInv, FlagTyped, Feature!TypeOK, Numbered
  <2>1. config' = config \/ (DOMAIN config = Features \X Envs /\ config' = [p \in Features \X Envs |->
          IF p[2] = t /\ Feature!Present(p[1]) /\ config[<<p[1], e>>] # None THEN config[<<p[1], e>>] ELSE config[p]])
    BY <2>0 DEF Feature!CreateEnvironment, Feature!CopyEnvironment, Feature!CopyConfigs
  <2> QED
    BY <2>0, <2>1
<1>3. Numbered'
  <2>1. Len(arrays) \in Nat
    BY LenProperties DEF FlagInv, FlagTyped, Feature!TypeOK
  <2> QED
    BY <1>1, <1>2, <2>1 DEF FlagInv, FlagTyped, Feature!TypeOK, Numbered
<1>4. Feature!TypeOK'
  BY <1>1, <1>2 DEF FlagInv, FlagTyped, Feature!TypeOK, Feature!unleash, Feature!redis
<1> QED
  BY <1>1, <1>3, <1>4, RulesKeep

(* The other calls: what they do to the features, then to the answers.     *)
LEMMA NumberedKeeps ==
  ASSUME Feature!FeatureAssumption, FlagTyped, UNCHANGED <<config, arrays>>, changes' = changes \/ Feature!Write
  PROVE  Numbered' /\ changes' \in 0..FlagCalls
<1>1. Len(arrays) \in Nat /\ changes \in 0..FlagCalls
  BY LenProperties DEF FlagTyped, Feature!TypeOK
<1> QED
  BY <1>1 DEF FlagTyped, Numbered, Feature!Write, Feature!FeatureAssumption

(* Steps that leave Unleash and the cache alone.                           *)
LEMMA StaleKeeps ==
  ASSUME FlagInv, UNCHANGED Feature!unleash, UNCHANGED cache
  PROVE  Stale'
  BY DEF FlagInv, Stale, Feature!Verdict, Feature!unleash

(* A new feature comes behind the others.                                  *)
LEMMA FeatureCreated ==
  ASSUME Feature!FeatureAssumption, FlagInv, NEW f \in Features, NEW n \in Names, Feature!CreateFeature(f, n)
  PROVE  FlagInv'
<1> DEFINE N == Len(features)
<1>0. /\ N \in Nat /\ features \in Seq(Features) /\ name \in [Features -> Names \cup {None}]
      /\ DOMAIN features = 1..N /\ name[f] = None /\ None \notin Names
      /\ \A i \in 1..N : features[i] \in Features /\ features[i] # f
      /\ tagged \subseteq Features
  BY Domains
     DEF FlagInv, FlagTyped, Feature!TypeOK, Created, Feature!CreateFeature, Feature!Insert,
         Feature!FeatureAssumption
<1>1. features' = Append(features, f) /\ name' = [name EXCEPT ![f] = n]
  BY DEF Feature!CreateFeature, Feature!Insert
<1>2. /\ features' \in Seq(Features) /\ Len(features') = N + 1 /\ features'[N + 1] = f
      /\ \A i \in 1..N : features'[i] = features[i]
      /\ DOMAIN features' = 1..(N + 1)
  BY <1>0, <1>1
<1>3. /\ \A i \in 1..(N + 1) : i = N + 1 \/ i \in 1..N
      /\ tagged' \subseteq Features /\ \A g \in Features \ {f} : g \in tagged' <=> g \in tagged
  <2>1. \A i \in 1..(N + 1) : i = N + 1 \/ i \in 1..N
    BY <1>0
  <2>2. PICK t : tagged' = (tagged \ {f}) \cup t /\ t \subseteq {f}
    BY DEF Feature!CreateFeature, Feature!SetTags
  <2>3. tagged' \subseteq Features
    BY <1>0, <2>2
  <2>4. \A g \in Features \ {f} : g \in tagged' <=> g \in tagged
    BY <2>2
  <2> QED
    BY <2>1, <2>3, <2>4
<1>4. Unique' /\ Created'
  BY <1>0, <1>1, <1>2, <1>3 DEF FlagInv, FlagTyped, Unique, Created
<1>5. Numbered' /\ changes' \in 0..FlagCalls
  BY NumberedKeeps DEF Feature!CreateFeature, FlagInv
<1>6. Stale'
  BY StaleKeeps DEF Feature!CreateFeature, Feature!redis
<1>7. ASSUME NEW i \in Feature!Filtered
      PROVE  i \in Feature!Filtered' /\ features'[i] = features[i] /\ Feature!Before(i)' = Feature!Before(i)
  <2>1. i \in 1..N
    BY <1>7, <1>0 DEF Feature!Filtered
  <2>2. \A j \in 1..N : j \in Feature!Filtered' <=> j \in Feature!Filtered
    BY <1>0, <1>2, <1>3 DEF Feature!Filtered
  <2>3. Feature!Filtered' \subseteq 1..(N + 1) /\ Feature!Filtered \subseteq 1..N
    BY <1>0, <1>2 DEF Feature!Filtered
  <2>4. \A j : (j \in Feature!Filtered' /\ j < i) <=> (j \in Feature!Filtered /\ j < i)
    <3>1. ASSUME NEW j \in 1..(N + 1), j < i PROVE j \in 1..N
      BY <1>0, <2>1, <3>1
    <3>2. 1..N \subseteq 1..(N + 1)
      BY <1>0
    <3> QED
      BY <2>2, <2>3, <3>1, <3>2
  <2>5. Feature!Before(i)' = Feature!Before(i)
    BY <2>4 DEF Feature!Before
  <2> QED
    BY <1>2, <1>7, <2>1, <2>2, <2>5
<1>8. Ahead'
  <2>1. reader' = reader
    BY DEF Feature!CreateFeature
  <2>2. ASSUME NEW r \in reader.due, reader.on, r \notin reader.seen
        PROVE  \E i \in Feature!Filtered' : features'[i] = r /\ Feature!Cardinality(Feature!Before(i)') >= reader.at
    <3>1. PICK i \in Feature!Filtered : features[i] = r /\ Feature!Cardinality(Feature!Before(i)) >= reader.at
      BY <2>2 DEF FlagInv, Ahead
    <3>2. i \in Feature!Filtered' /\ features'[i] = r /\ Feature!Before(i)' = Feature!Before(i)
      BY <1>7, <3>1
    <3> QED
      BY <3>1, <3>2
  <2> QED
    BY <2>1, <2>2 DEF FlagInv, Ahead
<1>9. Feature!TypeOK'
  <2>1. name' \in [Features -> Names \cup {None}]
    BY <1>0, <1>1
  <2> QED
    BY <1>2, <1>3, <1>5, <2>1
       DEF Feature!CreateFeature, FlagInv, FlagTyped, Feature!TypeOK, Feature!unleash,
           Feature!redis
<1> QED
  BY <1>4, <1>5, <1>6, <1>8, <1>9 DEF FlagInv, FlagTyped

(* An updated feature keeps its place.                                     *)
LEMMA FeatureUpdated ==
  ASSUME Feature!FeatureAssumption, FlagInv, NEW f \in Features, Feature!UpdateFeature(f)
  PROVE  FlagInv'
<1>1. UNCHANGED <<features, name, config, arrays, envs, toggles, ready, since, cache, asked>>
  BY DEF Feature!UpdateFeature, Feature!Replace, Feature!unleash
<1>2. Unique' /\ Created'
  BY <1>1 DEF FlagInv, FlagTyped, Unique, Created
<1>3. Numbered' /\ changes' \in 0..FlagCalls
  BY <1>1, NumberedKeeps DEF Feature!UpdateFeature, FlagInv
<1>4. Stale'
  BY <1>1, StaleKeeps DEF Feature!UpdateFeature, Feature!unleash
<1>5. reader \in [on: BOOLEAN, at: Nat, seen: SUBSET Features, due: SUBSET Features]
      /\ tagged \subseteq Features
  BY DEF FlagInv, FlagTyped, Feature!TypeOK
<1>6. tagged' \subseteq Features /\ \A g : g # f => (g \in tagged' <=> g \in tagged)
  BY <1>5 DEF Feature!UpdateFeature, Feature!SetTags
<1>7. ASSUME (f \in tagged) = (f \in tagged')
      PROVE  Ahead' /\ reader' \in [on: BOOLEAN, at: Nat, seen: SUBSET Features, due: SUBSET Features]
  <2>1. tagged' = tagged
    BY <1>6, <1>7
  <2>2. reader' = reader
    BY <1>7 DEF Feature!UpdateFeature
  <2>3. Feature!Filtered' = Feature!Filtered /\ \A i : Feature!Before(i)' = Feature!Before(i)
    BY <1>1, <2>1 DEF Feature!Filtered, Feature!Before
  <2>4. Ahead'
    BY <1>1, <2>2, <2>3 DEF FlagInv, Ahead
  <2> QED
    BY <1>5, <2>2, <2>4
<1>8. ASSUME ~((f \in tagged) = (f \in tagged'))
      PROVE  Ahead' /\ reader' \in [on: BOOLEAN, at: Nat, seen: SUBSET Features, due: SUBSET Features]
  <2>1. reader' = [reader EXCEPT !.due = {}]
    BY <1>8 DEF Feature!UpdateFeature
  <2>2. reader'.due = {}
    BY <1>5, <2>1
  <2> QED
    BY <1>5, <2>1, <2>2 DEF Ahead
<1>9. Ahead' /\ reader' \in [on: BOOLEAN, at: Nat, seen: SUBSET Features, due: SUBSET Features]
  BY <1>5, <1>7, <1>8
<1>10. found' \subseteq Names
  <2>1. Feature!Present(f)
    BY DEF Feature!UpdateFeature, Feature!Replace
  <2>2. name[f] \in Names
    BY <2>1, Domains DEF FlagInv, FlagTyped, Created
  <2> QED
    BY <2>2 DEF Feature!UpdateFeature, FlagInv, FlagTyped, Feature!TypeOK
<1>11. Feature!TypeOK'
  BY <1>1, <1>3, <1>6, <1>9, <1>10 DEF FlagInv, FlagTyped, Feature!TypeOK
<1> QED
  BY <1>2, <1>3, <1>4, <1>9, <1>11 DEF FlagInv, FlagTyped

(* A deleted feature is due to nobody; those behind it move up.            *)
LEMMA FeatureDeleted ==
  ASSUME Feature!FeatureAssumption, FlagInv, NEW f \in Features, Feature!DeleteFeature(f)
  PROVE  FlagInv'
<1> DEFINE N == Len(features)
<1>0. N \in Nat /\ features \in Seq(Features) /\ \A i, j \in 1..N : features[i] = features[j] => i = j
  BY Domains DEF FlagInv, FlagTyped, Feature!TypeOK, Unique
<1>1. PICK p \in 1..N : features[p] = f
  BY Domains DEF Feature!DeleteFeature, Feature!Delete, FlagInv
<1>2. features' = SubSeq(features, 1, p - 1) \o SubSeq(features, p + 1, N)
  BY <1>0, <1>1, RemoveFirstIs DEF Feature!DeleteFeature, Feature!Delete
<1>3. /\ features' \in Seq(Features) /\ Len(features') = N - 1
      /\ \A i \in 1..(N - 1) : features'[i] = IF i < p THEN features[i] ELSE features[i + 1]
  BY <1>0, <1>1, <1>2, Removed
<1>4. Unique'
  BY <1>0, <1>3 DEF Unique
<1>5. Created'
  BY <1>0, <1>3, SMTT(30) DEF Created, Feature!DeleteFeature, FlagInv, FlagTyped
<1>6. Numbered' /\ changes' \in 0..FlagCalls
  BY NumberedKeeps DEF Feature!DeleteFeature, FlagInv
<1>7. Stale'
  BY StaleKeeps DEF Feature!DeleteFeature, Feature!redis
<1>8. reader \in [on: BOOLEAN, at: Nat, seen: SUBSET Features, due: SUBSET Features]
  BY DEF FlagInv, FlagTyped, Feature!TypeOK
<1>9. reader' \in [on: BOOLEAN, at: Nat, seen: SUBSET Features, due: SUBSET Features] /\ reader'.due = {}
  BY <1>8 DEF Feature!DeleteFeature
<1>10. Ahead'
  BY <1>9 DEF Ahead
<1>11. Feature!TypeOK'
  BY <1>3, <1>6, <1>9
     DEF Feature!DeleteFeature, FlagInv, FlagTyped, Feature!TypeOK, Feature!unleash,
         Feature!redis
<1> QED
  BY <1>4, <1>5, <1>6, <1>7, <1>10, <1>11 DEF FlagInv, FlagTyped

(* The client reads the first page, or the next.                           *)
LEMMA PagesRead ==
  ASSUME Feature!FeatureAssumption, FlagInv, Feature!ListFirst \/ Feature!ListFeatures
  PROVE  FlagInv'
<1>0. UNCHANGED <<features, name, tagged, config, arrays, envs, Feature!unleash, Feature!redis, changes>>
  BY DEF Feature!ListFirst, Feature!ListFeatures
<1>1. Unique' /\ Created' /\ Numbered'
  BY <1>0 DEF FlagInv, FlagTyped, Unique, Created, Numbered
<1>2. Stale'
  BY <1>0, StaleKeeps DEF Feature!redis
<1>3. Feature!Filtered' = Feature!Filtered /\ \A i : Feature!Before(i)' = Feature!Before(i)
  BY <1>0 DEF Feature!Filtered, Feature!Before
<1>4. /\ Feature!Filtered \subseteq 1..Len(features) /\ Feature!Cardinality(Feature!Filtered) \in Nat
      /\ \A i \in Feature!Filtered : Feature!Cardinality(Feature!Before(i)) \in Nat /\ Feature!Cardinality(Feature!Before(i)) < Feature!Cardinality(Feature!Filtered)
      /\ \A i \in Feature!Filtered : features[i] \in Features
  BY FilteredFinite, Domains DEF FlagInv
<1>5. /\ reader \in [on: BOOLEAN, at: Nat, seen: SUBSET Features, due: SUBSET Features]
      /\ FlagPage \in Nat \ {0} /\ reader.at \in Nat
  BY DEF FlagInv, FlagTyped, Feature!TypeOK, Feature!FeatureAssumption
<1>6. ASSUME Feature!ListFirst
      PROVE  Ahead' /\ reader' \in [on: BOOLEAN, at: Nat, seen: SUBSET Features, due: SUBSET Features]
  <2>1. reader' = [on |-> TRUE, at |-> 0, seen |-> {}, due |-> {features[i] : i \in Feature!Filtered}]
    BY <1>6 DEF Feature!ListFirst
  <2>2. reader' \in [on: BOOLEAN, at: Nat, seen: SUBSET Features, due: SUBSET Features]
    BY <1>4, <2>1
  <2>3. Ahead'
    BY <1>0, <1>3, <1>4, <2>1 DEF Ahead
  <2> QED
    BY <2>2, <2>3
<1>7. ASSUME Feature!ListFeatures
      PROVE  Ahead' /\ reader' \in [on: BOOLEAN, at: Nat, seen: SUBSET Features, due: SUBSET Features]
  <2>1. /\ reader.on /\ reader' \in [on: BOOLEAN, at: Nat, seen: SUBSET Features, due: SUBSET Features]
        /\ reader'.seen = reader.seen \cup Feature!Page(reader.at) /\ reader'.at = reader.at + FlagPage
        /\ reader'.on = (reader.at + FlagPage < Feature!Cardinality(Feature!Filtered)) /\ reader'.due = reader.due
    <3>1. Feature!Page(reader.at) \subseteq Features
      BY <1>4 DEF Feature!Page
    <3> QED
      <4>1. reader' = [reader EXCEPT !.seen = reader.seen \cup Feature!Page(reader.at),
                                     !.at = reader.at + FlagPage,
                                     !.on = reader.at + FlagPage < Feature!Cardinality(Feature!Filtered)]
        BY <1>7 DEF Feature!ListFeatures, Feature!NextToken
      <4>2. reader.on /\ (reader.at + FlagPage < Feature!Cardinality(Feature!Filtered)) \in BOOLEAN /\ reader.at + FlagPage \in Nat
        BY <1>5, <1>7 DEF Feature!ListFeatures
      <4>3. reader.seen \cup Feature!Page(reader.at) \subseteq Features
        BY <1>5, <3>1
      <4> QED
        BY <1>5, <4>1, <4>2, <4>3
  <2>2. ASSUME NEW r \in reader.due
        PROVE  \/ r \in reader'.seen
               \/ /\ reader'.on
                  /\ \E i \in Feature!Filtered : features[i] = r /\ Feature!Cardinality(Feature!Before(i)) >= reader'.at
    <3>1. CASE r \in reader.seen
      BY <2>1, <3>1
    <3>2. CASE r \notin reader.seen
      <4>1. PICK i \in Feature!Filtered : features[i] = r /\ Feature!Cardinality(Feature!Before(i)) >= reader.at
        BY <2>1, <2>2, <3>2 DEF FlagInv, Ahead
      <4>2. CASE Feature!Cardinality(Feature!Before(i)) < reader.at + FlagPage
        <5>1. r \in Feature!Page(reader.at)
          BY <4>1, <4>2 DEF Feature!Page
        <5> QED
          BY <2>1, <5>1
      <4>3. CASE Feature!Cardinality(Feature!Before(i)) >= reader.at + FlagPage
        BY <1>4, <1>5, <2>1, <4>1, <4>3
      <4> QED
        BY <1>4, <1>5, <4>1, <4>2, <4>3
    <3> QED
      BY <3>1, <3>2
  <2>3. Ahead'
    BY <1>0, <1>3, <2>1, <2>2 DEF Ahead
  <2> QED
    BY <2>1, <2>3
<1>8. Ahead' /\ reader' \in [on: BOOLEAN, at: Nat, seen: SUBSET Features, due: SUBSET Features]
  BY <1>6, <1>7
<1>9. Feature!TypeOK'
  BY <1>0, <1>8 DEF FlagInv, FlagTyped, Feature!TypeOK, Feature!unleash, Feature!redis
<1> QED
  BY <1>1, <1>2, <1>8, <1>9 DEF FlagInv, FlagTyped

(* What concerns the answers only.                                         *)
LEMMA StoreKeeps ==
  ASSUME FlagInv, UNCHANGED <<Feature!store, changes>>, Feature!TypeOK', Stale'
  PROVE  FlagInv'
<1>1. Feature!Filtered' = Feature!Filtered /\ \A i : Feature!Before(i)' = Feature!Before(i)
  BY DEF Feature!Filtered, Feature!Before, Feature!store
<1>2. Ahead'
  BY <1>1 DEF FlagInv, Ahead, Feature!store
<1>3. Unique' /\ Created' /\ Numbered'
  BY DEF FlagInv, FlagTyped, Unique, Created, Numbered, Feature!store
<1> QED
  BY <1>2, <1>3 DEF FlagInv, FlagTyped

(* What the cache and Unleash do with answers, and time.                   *)
LEMMA AnswersChange ==
  ASSUME Feature!FeatureAssumption, FlagInv,
         \/ \E n \in Names : Feature!Invalidate(n) \/ Feature!CacheMiss(n) \/ Feature!IsEnabled(n)
         \/ \E on \in SUBSET Names : Feature!Unleash(on)
         \/ Feature!Tick
  PROVE  FlagInv'
<1>0. /\ cache \in [Names -> [enabled: BOOLEAN, left: 0..TTL]] /\ since \in [Names -> 0..TTL]
      /\ TTL \in Nat /\ \A n \in Names : since[n] \in Nat /\ cache[n].left \in Nat /\ since[n] <= TTL
      /\ \A n \in Names : cache[n].left <= TTL /\ cache[n].enabled \in BOOLEAN
      /\ asked \subseteq Names /\ found \subseteq Names /\ toggles \subseteq Names /\ ready \in BOOLEAN
  BY DEF FlagInv, FlagTyped, Feature!TypeOK, Feature!FeatureAssumption
<1>1. ASSUME UNCHANGED <<Feature!store, changes>>, cache' \in [Names -> [enabled: BOOLEAN, left: 0..TTL]],
             since' \in [Names -> 0..TTL], asked' \subseteq Names, found' \subseteq Names,
             toggles' \subseteq Names, ready' \in BOOLEAN, Stale'
      PROVE  FlagInv'
  <2>1. Feature!TypeOK'
    BY <1>1 DEF FlagInv, FlagTyped, Feature!TypeOK, Feature!store
  <2> QED
    BY <1>1, <2>1, StoreKeeps
<1>2. ASSUME NEW n \in Names, Feature!Invalidate(n)
      PROVE  FlagInv'
  <2> DEFINE gone == [cache[n] EXCEPT !.left = 0]
  <2>1. gone \in [enabled: BOOLEAN, left: 0..TTL] /\ gone.left = 0
    BY <1>0
  <2> HIDE DEF gone
  <2>2. cache' = [cache EXCEPT ![n] = gone] \/ cache' = cache
    BY <1>2 DEF Feature!Invalidate, gone
  <2>3. cache' \in [Names -> [enabled: BOOLEAN, left: 0..TTL]]
        /\ \A m \in Names : cache'[m].left > 0 => cache'[m] = cache[m]
    BY <1>0, <2>1, <2>2
  <2>4. UNCHANGED <<Feature!store, Feature!unleash, asked, changes>> /\ found' \subseteq Names
    BY <1>0, <1>2 DEF Feature!Invalidate
  <2>5. Stale'
    BY <2>3, <2>4 DEF FlagInv, Stale, Feature!unleash, Feature!Verdict
  <2> QED
    BY <1>0, <1>1, <2>3, <2>4, <2>5 DEF Feature!unleash
<1>3. ASSUME NEW n \in Names, Feature!CacheMiss(n)
      PROVE  FlagInv'
  <2>1. Stale'
    BY <1>3, StaleKeeps DEF Feature!CacheMiss
  <2> QED
    BY <1>0, <1>1, <1>3, <2>1 DEF Feature!CacheMiss, Feature!unleash
<1>4. ASSUME NEW n \in Names, Feature!IsEnabled(n)
      PROVE  FlagInv'
  <2> DEFINE new == [enabled |-> Feature!Verdict(n), left |-> TTL]
  <2>1. new \in [enabled: BOOLEAN, left: 0..TTL] /\ new.enabled = Feature!Verdict(n)
    BY <1>0 DEF Feature!Verdict
  <2> HIDE DEF new
  <2>2. cache' = [cache EXCEPT ![n] = new] \/ cache' = cache
    BY <1>4 DEF Feature!IsEnabled, Feature!CacheSet, new
  <2>3. cache' \in [Names -> [enabled: BOOLEAN, left: 0..TTL]]
        /\ \A m \in Names : cache'[m] = cache[m] \/ cache'[m].enabled = Feature!Verdict(m)
    BY <1>0, <2>1, <2>2
  <2>4. UNCHANGED <<Feature!store, Feature!unleash, found, changes>> /\ asked' \subseteq Names
    BY <1>0, <1>4 DEF Feature!IsEnabled
  <2>5. Stale'
    BY <2>3, <2>4 DEF FlagInv, Stale, Feature!unleash, Feature!Verdict
  <2> QED
    BY <1>0, <1>1, <2>3, <2>4, <2>5 DEF Feature!unleash
<1>5. ASSUME NEW on \in SUBSET Names, Feature!Unleash(on)
      PROVE  FlagInv'
  <2>1. UNCHANGED <<Feature!store, Feature!redis, changes>> /\ ready' \in BOOLEAN /\ toggles' \subseteq Names
    BY <1>0, <1>5 DEF Feature!Unleash
  <2>2. since' = [n \in Names |-> IF Feature!Verdict(n)' = Feature!Verdict(n) THEN since[n] ELSE 0]
    BY <1>5 DEF Feature!Unleash
  <2>3. since' \in [Names -> 0..TTL]
    BY <1>0, <2>2
  <2>4. Stale'
    <3>1. SUFFICES ASSUME NEW n \in Names, cache[n].left > 0, cache[n].enabled # Feature!Verdict(n)'
                   PROVE  since'[n] + cache[n].left <= TTL
      BY <2>1 DEF Stale, Feature!redis
    <3>2. CASE Feature!Verdict(n)' = Feature!Verdict(n)
      BY <2>2, <3>1, <3>2 DEF FlagInv, Stale
    <3>3. CASE Feature!Verdict(n)' # Feature!Verdict(n)
      BY <1>0, <2>2, <3>3
    <3> QED
      BY <3>2, <3>3
  <2> QED
    BY <1>0, <1>1, <2>1, <2>3, <2>4 DEF Feature!redis
<1>6. CASE Feature!Tick
  <2>1. UNCHANGED <<Feature!store, toggles, ready, asked, found, changes>>
    BY <1>6 DEF Feature!Tick
  <2>2. ASSUME NEW n \in Names
        PROVE  /\ cache'[n] \in [enabled: BOOLEAN, left: 0..TTL]
               /\ cache'[n].enabled = cache[n].enabled
               /\ cache'[n].left = IF cache[n].left = 0 THEN 0 ELSE cache[n].left - 1
               /\ since'[n] = IF since[n] = TTL THEN TTL ELSE since[n] + 1
    <3> DEFINE next == [cache[n] EXCEPT !.left = IF cache[n].left = 0 THEN 0 ELSE cache[n].left - 1]
    <3>1. /\ next \in [enabled: BOOLEAN, left: 0..TTL] /\ next.enabled = cache[n].enabled
          /\ next.left = IF cache[n].left = 0 THEN 0 ELSE cache[n].left - 1
      <4>1. cache[n] \in [enabled: BOOLEAN, left: 0..TTL]
        BY <1>0, <2>2
      <4>2. (IF cache[n].left = 0 THEN 0 ELSE cache[n].left - 1) \in 0..TTL
        BY <1>0, <2>2
      <4> QED
        BY <4>1, <4>2
    <3>2. cache'[n] = next
      BY <1>6, <2>2 DEF Feature!Tick
    <3>3. since'[n] = IF since[n] = TTL THEN TTL ELSE since[n] + 1
      BY <1>6, <2>2 DEF Feature!Tick
    <3> QED
      BY <3>1, <3>2, <3>3
  <2>3. cache' \in [Names -> [enabled: BOOLEAN, left: 0..TTL]] /\ since' \in [Names -> 0..TTL]
    <3>1. /\ cache' = [n \in Names |-> cache'[n]]
          /\ since' = [n \in Names |-> since'[n]]
      BY <1>6 DEF Feature!Tick
    <3>2. \A n \in Names : cache'[n] \in [enabled: BOOLEAN, left: 0..TTL] /\ since'[n] \in 0..TTL
      BY <1>0, <2>2, SMTT(30)
    <3> QED
      BY <3>1, <3>2
  <2>4. Stale'
    <3>1. SUFFICES ASSUME NEW n \in Names, cache'[n].left > 0, cache'[n].enabled # Feature!Verdict(n)
                   PROVE  since'[n] + cache'[n].left <= TTL
      BY <2>1 DEF Stale, Feature!Verdict
    <3>2. since[n] + cache[n].left <= TTL /\ cache[n].left > 0
      BY <1>0, <2>2, <3>1 DEF FlagInv, Stale
    <3> QED
      BY <1>0, <2>2, <3>2
  <2> QED
    BY <1>0, <1>1, <2>1, <2>3, <2>4
<1> QED
  BY <1>2, <1>3, <1>4, <1>5, <1>6

(* Every step keeps the invariant of the flags.                            *)
LEMMA FlagStep == Feature!FeatureAssumption /\ FlagInv /\ [Feature!Next]_(Feature!vars) => FlagInv'
<1> SUFFICES ASSUME Feature!FeatureAssumption, FlagInv, [Feature!Next]_(Feature!vars) PROVE FlagInv'
  OBVIOUS
<1>1. CASE Feature!Next
  BY <1>1, FeatureCreated, FeatureUpdated, FeatureDeleted, RulesChange, EnvironmentsChange,
     PagesRead, AnswersChange DEF Feature!Next
<1>2. CASE UNCHANGED Feature!vars
  <2>1. Feature!TypeOK' /\ Stale'
    BY <1>2 DEF Feature!vars, FlagInv, FlagTyped, Feature!TypeOK, Stale, Feature!Verdict
  <2> QED
    BY <1>2, <2>1, StoreKeeps DEF Feature!vars, Feature!store
<1> QED
  BY <1>1, <1>2

(* What the invariant says to a client.                                    *)
LEMMA FlagHeld == Feature!FeatureAssumption /\ FlagInv => Feature!TypeOK /\ Feature!SettledAnswers /\ Feature!PagesMissNothing
<1> SUFFICES ASSUME Feature!FeatureAssumption, FlagInv PROVE Feature!TypeOK /\ Feature!SettledAnswers /\ Feature!PagesMissNothing
  OBVIOUS
<1>1. Feature!SettledAnswers
  <2>1. \A n \in Names : cache[n].left \in Nat /\ since[n] \in Nat /\ TTL \in Nat
    BY DEF FlagInv, FlagTyped, Feature!TypeOK, Feature!FeatureAssumption
  <2> QED
    BY <2>1 DEF Feature!SettledAnswers, FlagInv, Stale
<1> QED
  BY <1>1 DEF FlagInv, FlagTyped, Feature!PagesMissNothing, Ahead

(* A removal writes an array of its own, and one environment gets that one.*)
LEMMA RemovalStep == Feature!FeatureAssumption /\ FlagInv => Feature!RemovalLeavesOthers
<1> SUFFICES ASSUME Feature!FeatureAssumption, FlagInv, NEW f \in Features, NEW e \in Envs, NEW r \in Rules,
                    Feature!RemoveTargetingRule(f, e, r), NEW g \in Features, NEW d \in Envs, <<g, d>> # <<f, e>>
             PROVE  Feature!RulesOf(g, d)' = Feature!RulesOf(g, d)
  BY DEF Feature!RemovalLeavesOthers
<1>1. /\ config \in [Features \X Envs -> Feature!Arrays \cup {None}] /\ <<g, d>> \in Features \X Envs
      /\ arrays \in Seq(SUBSET Feature!Rule) /\ Len(arrays) \in Nat
      /\ config[<<g, d>>] # None => config[<<g, d>>] \in 1..Len(arrays)
  BY LenProperties DEF FlagInv, FlagTyped, Feature!TypeOK, Numbered
<1>2. PICK R : arrays' = Append(arrays, R) /\ config' = [config EXCEPT ![<<f, e>>] = Len(arrays) + 1]
               /\ R \in SUBSET Feature!Rule
  <2>1. Feature!RulesOf(f, e) \subseteq Feature!Rule
    <3>1. \A i \in 1..Len(arrays) : arrays[i] \subseteq Feature!Rule
      BY <1>1, ElementOfSeq
    <3>2. <<f, e>> \in Features \X Envs
      OBVIOUS
    <3> QED
      BY <3>1, <3>2 DEF Feature!RulesOf, FlagInv, FlagTyped, Numbered
  <2> QED
    BY <2>1 DEF Feature!RemoveTargetingRule, Feature!FilterRules
<1>3. config'[<<g, d>>] = config[<<g, d>>]
  BY <1>1, <1>2
<1>4. \A i \in 1..Len(arrays) : arrays'[i] = arrays[i]
  BY <1>1, <1>2
<1> QED
  BY <1>1, <1>3, <1>4 DEF Feature!RulesOf

-----------------------------------------------------------------------------
(***************************************************************************)
(* RealtimeChannels.                                                       *)
(***************************************************************************)
(* What it counts is what the library counts.                               *)
LEMMA ChannelFinite == \A S : Channel!Cardinality(S) = Cardinality(S) /\ (Channel!IsFiniteSet(S) <=> IsFiniteSet(S))
  BY DEF Channel!Cardinality, Cardinality, Channel!IsFiniteSet, IsFiniteSet

(* RemoveFirst of a member takes out the one place it is at.               *)
LEMMA ForgetIs ==
  ASSUME NEW S, NEW s \in Seq(S), NEW p \in 1..Len(s), \A i, j \in 1..Len(s) : s[i] = s[j] => i = j
  PROVE  Channel!RemoveFirst(s, s[p]) = SubSeq(s, 1, p - 1) \o SubSeq(s, p + 1, Len(s))
<1>1. {i \in 1..Len(s) : s[i] = s[p]} = {p}
  OBVIOUS
<1>2. p \in Nat /\ Len(s) \in Nat
  BY LenProperties
<1>3. Channel!Min({p}) = p
  BY <1>2 DEF Channel!Min
<1>4. Channel!RemoveFirst(s, s[p]) = Channel!RemoveAt(s, p)
  BY <1>1, <1>3 DEF Channel!RemoveFirst, Channel!SelectInSeq
<1> QED
  BY <1>4 DEF Channel!RemoveAt

(* Which channel ids a call holds.                                         *)
OnIt(c, x) == requests[c] # Channel!Idle /\ x \in DOMAIN requests[c].on

Distinct == \A i, j \in 1..Len(channels) : channels[i] = channels[j] => i = j
LiveBorn == \A x \in Channel!Live : born[x] \in 1..MaxCalls
ChannelTyped ==
  /\ Channel!TypeOK /\ DOMAIN requests = Callers /\ DOMAIN walk = {"left", "found", "due"}
  /\ Distinct /\ LiveBorn

(* A clean id: one call at most holds it, for the channel that has it; its *)
(* messages are that channel's, and there are none when there is none.     *)
Own ==
  \A x \in tidy :
    /\ \A c, d \in Callers : OnIt(c, x) /\ OnIt(d, x) => c = d
    /\ \A c \in Callers : OnIt(c, x) => x \in Channel!Live /\ requests[c].on[x] = born[x]
    /\ x \in Channel!Live => history[x] \subseteq {born[x]}
    /\ x \notin Channel!Live => history[x] = {}

(* Whoever is due was found, or is still on a channel to be visited.       *)
Walked ==
  \A p \in walk.due :
    \/ p \in walk.found
    \/ \E i \in 1..Len(walk.left) :
         /\ walk.left[i].id = p[2] /\ walk.left[i].presence /\ p[1] \in present[p[2]]

ChannelInv == ChannelTyped /\ Own /\ Walked

Visits == Seq([id: Channels, born: 1..MaxCalls, presence: BOOLEAN])
CallTyped(k) ==
  k # Channel!Idle =>
       /\ k.op \in {"publish", "delete", "removeHistory", "subscribe"}
       /\ DOMAIN k.on \subseteq Channels
       /\ \A x \in DOMAIN k.on : k.on[x] \in 1..MaxCalls
       /\ k.user \in Users \cup {"system"}

(* The live channels are those on the list.                                *)
LEMMA LiveIs ==
  ASSUME ChannelTyped
  PROVE  /\ Len(channels) \in Nat /\ DOMAIN channels = 1..Len(channels)
         /\ \A i \in 1..Len(channels) : channels[i] \in Channels /\ channels[i] \in Channel!Live
         /\ Channel!Live \subseteq Channels
         /\ \A x \in Channel!Live : \E i \in 1..Len(channels) : channels[i] = x
<1>1. /\ Len(channels) \in Nat /\ DOMAIN channels = 1..Len(channels)
      /\ \A i \in 1..Len(channels) : channels[i] \in Channels
  BY LenProperties, ElementOfSeq DEF ChannelTyped, Channel!TypeOK
<1> QED
  BY <1>1 DEF Channel!Live, Channel!ToSet

(* There are no channels at first.                                         *)
LEMMA ChannelInitial == Channel!ChannelAssumption /\ Channel!Init => ChannelInv
<1> SUFFICES ASSUME Channel!ChannelAssumption, Channel!Init PROVE ChannelInv
  OBVIOUS
<1>1. /\ channels \in Seq(Channels) /\ Len(channels) = 0 /\ DOMAIN channels = {}
      /\ walk.left \in Visits /\ Len(walk.left) = 0
  BY DEF Channel!Init, Channel!NoWalk, Visits
<1>2. Channel!Live = {}
  BY <1>1 DEF Channel!Live, Channel!ToSet
<1>3. \A c \in Callers : requests[c] = Channel!Idle
  BY DEF Channel!Init
<1>4. Channel!TypeOK
  <2>1. /\ settings \in [Channels -> [history: BOOLEAN, presence: BOOLEAN]]
        /\ born \in [Channels -> 0..MaxCalls] /\ asks \in 0..MaxCalls
    BY DEF Channel!Init, Channel!Defaults, Channel!ChannelAssumption
  <2>2. /\ history \in [Channels -> SUBSET (1..MaxCalls)] /\ present \in [Channels -> SUBSET Users]
        /\ walk.found \subseteq Users \X Channels /\ walk.due \subseteq Users \X Channels
        /\ tidy \subseteq Channels
    BY DEF Channel!Init, Channel!NoWalk
  <2> QED
    BY <1>1, <1>3, <2>1, <2>2 DEF Channel!TypeOK, Visits
<1>5. ChannelTyped
  BY <1>1, <1>2, <1>4 DEF ChannelTyped, Distinct, LiveBorn, Channel!Init, Channel!NoWalk
<1> QED
  BY <1>2, <1>3, <1>5 DEF ChannelInv, Own, Walked, OnIt, Channel!Init, Channel!NoWalk

(* A walk that goes on finds what it would have found.                     *)
LEMMA WalkKeeps ==
  ASSUME Walked, UNCHANGED walk, \A x : present[x] \subseteq present'[x]
  PROVE  Walked'
  BY DEF Walked

(* One call is written down; the others stay.                              *)
LEMMA CallsKeep ==
  ASSUME ChannelTyped, NEW c \in Callers, NEW k, CallTyped(k), requests' = [requests EXCEPT ![c] = k]
  PROVE  /\ DOMAIN requests' = Callers /\ requests'[c] = k
         /\ \A d \in Callers \ {c} : requests'[d] = requests[d]
         /\ \A d \in Callers : CallTyped(requests'[d])
  BY DEF ChannelTyped, Channel!TypeOK, CallTyped

(* A call begins with the channels as it finds them.                       *)
LEMMA ChannelBegins ==
  ASSUME Channel!ChannelAssumption, ChannelInv, NEW c \in Callers, NEW S \in SUBSET Channels,
         NEW op \in {"publish", "delete", "removeHistory", "subscribe"}, NEW u \in Users \cup {"system"},
         Channel!Begin(c, op, S, u), UNCHANGED <<Channel!map, Channel!centrifugo, walk>>
  PROVE  ChannelInv'
<1> DEFINE k == [op |-> op, on |-> [x \in S |-> born[x]], user |-> u]
<1>1. requests[c] = Channel!Idle /\ requests' = [requests EXCEPT ![c] = k] /\ S \subseteq Channel!Live
      /\ tidy' = tidy \ {x \in S : Channel!Busy(x)} /\ asks' = asks + 1 /\ asks' \in 0..MaxCalls
  BY DEF Channel!Begin, Channel!CheckChannelAccess, ChannelInv, ChannelTyped, Channel!TypeOK,
         Channel!ChannelAssumption
<1>2. /\ k.op = op /\ k.user = u /\ DOMAIN k.on = S /\ \A x \in S : k.on[x] = born[x]
      /\ k # Channel!Idle
  BY DEF Channel!Idle
<1> HIDE DEF k
<1>3. CallTyped(k)
  BY <1>1, <1>2 DEF CallTyped, ChannelInv, ChannelTyped, LiveBorn
<1>4. /\ DOMAIN requests' = Callers /\ requests'[c] = k
      /\ \A d \in Callers \ {c} : requests'[d] = requests[d]
      /\ \A d \in Callers : CallTyped(requests'[d])
  BY <1>1, <1>3, CallsKeep DEF ChannelInv
<1>5. Channel!Live' = Channel!Live
  BY DEF Channel!Live, Channel!map
<1>6. ChannelTyped'
  BY <1>1, <1>4, <1>5
     DEF ChannelInv, ChannelTyped, Channel!TypeOK, CallTyped, Distinct, LiveBorn, Channel!map,
         Channel!centrifugo
<1>7. Walked'
  BY WalkKeeps DEF ChannelInv, Channel!centrifugo
<1>8. ASSUME NEW x \in tidy'
      PROVE  /\ \A d, e \in Callers : OnIt(d, x)' /\ OnIt(e, x)' => d = e
             /\ \A d \in Callers : OnIt(d, x)' => x \in Channel!Live /\ requests'[d].on[x] = born[x]
             /\ x \in Channel!Live => history[x] \subseteq {born[x]}
             /\ x \notin Channel!Live => history[x] = {}
  <2>1. x \in tidy /\ (x \in S => ~Channel!Busy(x))
    BY <1>1, <1>8
  <2>2. x \in S => \A d \in Callers : ~OnIt(d, x)
    BY <2>1 DEF Channel!Busy, OnIt
  <2>3. \A d \in Callers \ {c} : OnIt(d, x)' <=> OnIt(d, x)
    BY <1>4 DEF OnIt
  <2>4. OnIt(c, x)' <=> x \in S
    BY <1>2, <1>4 DEF OnIt
  <2> QED
    BY <1>1, <1>2, <1>4, <2>1, <2>2, <2>3, <2>4 DEF ChannelInv, Own
<1>9. Own'
  BY <1>5, <1>8 DEF Own, Channel!map, Channel!centrifugo
<1> QED
  BY <1>6, <1>7, <1>9 DEF ChannelInv

(* A call that ends and leaves the map alone.                              *)
LEMMA ChannelEnds ==
  ASSUME Channel!ChannelAssumption, ChannelInv, NEW c \in Callers, requests[c] # Channel!Idle, Channel!Return(c), UNCHANGED <<Channel!map, walk, asks>>,
         tidy' \subseteq tidy,
         history' \in [Channels -> SUBSET (1..MaxCalls)], present' \in [Channels -> SUBSET Users],
         \A x : present[x] \subseteq present'[x],
         \A x \in tidy' : \/ history'[x] = history[x] \/ history'[x] = {}
                          \/ x \in DOMAIN requests[c].on /\ history'[x] = history[x] \cup {requests[c].on[x]}
  PROVE  ChannelInv'
<1>1. /\ DOMAIN requests' = Callers /\ requests'[c] = Channel!Idle
      /\ \A d \in Callers \ {c} : requests'[d] = requests[d]
      /\ \A d \in Callers : CallTyped(requests'[d])
  <2>1. CallTyped(Channel!Idle)
    BY DEF CallTyped
  <2> QED
    BY <2>1, CallsKeep DEF ChannelInv, Channel!Return
<1>2. Channel!Live' = Channel!Live
  BY DEF Channel!Live, Channel!map
<1>3. ChannelTyped'
  BY <1>1, <1>2
     DEF ChannelInv, ChannelTyped, Channel!TypeOK, CallTyped, Distinct, LiveBorn, Channel!map
<1>4. Walked'
  BY WalkKeeps DEF ChannelInv
<1>5. ASSUME NEW x \in tidy'
      PROVE  /\ \A d, e \in Callers : OnIt(d, x)' /\ OnIt(e, x)' => d = e
             /\ \A d \in Callers : OnIt(d, x)' => x \in Channel!Live /\ requests'[d].on[x] = born[x]
             /\ x \in Channel!Live => history'[x] \subseteq {born[x]}
             /\ x \notin Channel!Live => history'[x] = {}
  <2>1. \A d \in Callers : OnIt(d, x)' => d # c /\ OnIt(d, x)
    BY <1>1 DEF OnIt
  <2>2. x \in DOMAIN requests[c].on => x \in Channel!Live /\ requests[c].on[x] = born[x]
    BY <1>5 DEF ChannelInv, Own, OnIt
  <2> QED
    BY <1>1, <1>5, <2>1, <2>2 DEF ChannelInv, Own
<1>6. Own'
  BY <1>2, <1>5 DEF Own, Channel!map
<1> QED
  BY <1>3, <1>4, <1>6 DEF ChannelInv

(* A channel that is made where there is none, with a call on it or not.   *)
LEMMA ChannelMade ==
  ASSUME Channel!ChannelAssumption, ChannelInv, NEW x \in Channels, NEW s \in [history: BOOLEAN, presence: BOOLEAN],
         asks < MaxCalls, asks' = asks + 1,
         channels' = IF x \in Channel!Live THEN channels ELSE Append(channels, x),
         settings' = [settings EXCEPT ![x] = s], born' = [born EXCEPT ![x] = asks + 1]
  PROVE  /\ channels' \in Seq(Channels) /\ Distinct' /\ LiveBorn' /\ Channel!Live' = Channel!Live \cup {x}
         /\ settings' \in [Channels -> [history: BOOLEAN, presence: BOOLEAN]]
         /\ born' \in [Channels -> 0..MaxCalls] /\ asks' \in 0..MaxCalls /\ asks + 1 \in 1..MaxCalls
         /\ born'[x] = asks + 1 /\ \A y \in Channels \ {x} : born'[y] = born[y]
<1>1. /\ asks + 1 \in 1..MaxCalls /\ asks' \in 0..MaxCalls /\ asks + 1 \in 0..MaxCalls
      /\ born \in [Channels -> 0..MaxCalls]
      /\ settings \in [Channels -> [history: BOOLEAN, presence: BOOLEAN]]
  BY DEF ChannelInv, ChannelTyped, Channel!TypeOK, Channel!ChannelAssumption
<1>2. /\ settings' \in [Channels -> [history: BOOLEAN, presence: BOOLEAN]]
      /\ born' \in [Channels -> 0..MaxCalls]
      /\ born'[x] = asks + 1 /\ \A y \in Channels \ {x} : born'[y] = born[y]
  BY <1>1
<1>3. /\ Len(channels) \in Nat /\ DOMAIN channels = 1..Len(channels) /\ channels \in Seq(Channels)
      /\ \A i \in 1..Len(channels) : channels[i] \in Channel!Live
      /\ \A y \in Channel!Live : \E i \in 1..Len(channels) : channels[i] = y
      /\ Channel!Live \subseteq Channels
  BY LiveIs, SMTT(30) DEF ChannelInv, ChannelTyped, Channel!TypeOK
<1>4. /\ channels' \in Seq(Channels) /\ Distinct' /\ Channel!Live' = Channel!Live \cup {x}
  <2>1. CASE x \in Channel!Live
    <3>1. channels' = channels /\ Channel!Live \cup {x} = Channel!Live
      BY <2>1
    <3> QED
      BY <1>3, <3>1 DEF ChannelInv, ChannelTyped, Distinct, Channel!Live
  <2>2. CASE x \notin Channel!Live
    <3>1. channels' = Append(channels, x)
      BY <2>2
    <3>2. /\ channels' \in Seq(Channels) /\ Len(channels') = Len(channels) + 1
          /\ DOMAIN channels' = 1..(Len(channels) + 1) /\ channels'[Len(channels) + 1] = x
          /\ \A i \in 1..Len(channels) : channels'[i] = channels[i]
      BY <1>3, <3>1
    <3>3. \A i \in 1..(Len(channels) + 1) : i \in 1..Len(channels) \/ i = Len(channels) + 1
      BY <1>3
    <3>4. Distinct'
      BY <1>3, <2>2, <3>2, <3>3 DEF ChannelInv, ChannelTyped, Distinct
    <3>5. \A y : y \in Channel!Live' <=> \E i \in 1..(Len(channels) + 1) : channels'[i] = y
      BY <3>2 DEF Channel!Live, Channel!ToSet
    <3>6. \A y : y \in Channel!Live' <=> y \in Channel!Live \/ y = x
      BY <1>3, <3>2, <3>3, <3>5
    <3> QED
      BY <3>2, <3>4, <3>6
  <2> QED
    BY <2>1, <2>2
<1>5. LiveBorn'
  BY <1>1, <1>2, <1>3, <1>4 DEF ChannelInv, ChannelTyped, LiveBorn
<1> QED
  BY <1>1, <1>2, <1>4, <1>5

(* createChannel: a new channel has a number no message has.               *)
LEMMA ChannelCreated ==
  ASSUME Channel!ChannelAssumption, ChannelInv, NEW x \in Channels, NEW s \in [history: BOOLEAN, presence: BOOLEAN],
         Channel!CreateChannel(x, s)
  PROVE  ChannelInv'
<1>1. /\ channels' \in Seq(Channels) /\ Distinct' /\ LiveBorn' /\ Channel!Live' = Channel!Live \cup {x}
      /\ settings' \in [Channels -> [history: BOOLEAN, presence: BOOLEAN]]
      /\ born' \in [Channels -> 0..MaxCalls] /\ asks' \in 0..MaxCalls
      /\ \A y \in Channels \ {x} : born'[y] = born[y]
  BY ChannelMade DEF Channel!CreateChannel
<1>2. UNCHANGED <<history, present, requests, walk>> /\ tidy' \subseteq tidy /\ tidy \subseteq Channels
  BY DEF Channel!CreateChannel, Channel!centrifugo, ChannelInv, ChannelTyped, Channel!TypeOK
<1>3. ChannelTyped'
  BY <1>1, <1>2 DEF ChannelInv, ChannelTyped, Channel!TypeOK
<1>4. Walked'
  BY <1>2, WalkKeeps DEF ChannelInv
<1>5. ASSUME NEW y \in tidy'
      PROVE  /\ \A d, e \in Callers : OnIt(d, y)' /\ OnIt(e, y)' => d = e
             /\ \A d \in Callers : OnIt(d, y)' => y \in Channel!Live' /\ requests'[d].on[y] = born'[y]
             /\ y \in Channel!Live' => history'[y] \subseteq {born'[y]}
             /\ y \notin Channel!Live' => history'[y] = {}
  <2>1. \A d \in Callers : OnIt(d, y)' <=> OnIt(d, y)
    BY <1>2 DEF OnIt
  <2>2. CASE x = y
    <3>1. x \notin Channel!Live /\ ~Channel!Busy(x) /\ x \in tidy
      BY <1>5, <2>2 DEF Channel!CreateChannel
    <3>2. \A d \in Callers : ~OnIt(d, y)
      BY <2>2, <3>1 DEF Channel!Busy, OnIt
    <3>3. history[x] = {}
      BY <3>1 DEF ChannelInv, Own
    <3> QED
      BY <1>1, <1>2, <2>1, <2>2, <3>2, <3>3
  <2>3. CASE x # y
    BY <1>1, <1>2, <1>5, <2>1, <2>3 DEF ChannelInv, Own
  <2> QED
    BY <2>2, <2>3
<1>6. Own'
  BY <1>5 DEF Own
<1> QED
  BY <1>3, <1>4, <1>6 DEF ChannelInv

(* sendUserNotification makes the channel it publishes on, if there is     *)
(* none.                                                                   *)
LEMMA ChannelNotified ==
  ASSUME Channel!ChannelAssumption, ChannelInv, NEW c \in Callers, NEW x \in Channels, Channel!SendUserNotification(c, x)
  PROVE  ChannelInv'
<1>0. Channel!Defaults \in [history: BOOLEAN, presence: BOOLEAN] /\ x \notin Channel!Live /\ requests[c] = Channel!Idle
  BY DEF Channel!Defaults, Channel!SendUserNotification
<1>1. /\ channels' \in Seq(Channels) /\ Distinct' /\ LiveBorn' /\ Channel!Live' = Channel!Live \cup {x}
      /\ settings' \in [Channels -> [history: BOOLEAN, presence: BOOLEAN]]
      /\ born' \in [Channels -> 0..MaxCalls] /\ asks' \in 0..MaxCalls /\ asks + 1 \in 1..MaxCalls
      /\ born'[x] = asks + 1 /\ \A y \in Channels \ {x} : born'[y] = born[y]
  BY <1>0, ChannelMade DEF Channel!SendUserNotification
<1> DEFINE k == [op |-> "publish", on |-> [y \in {x} |-> asks + 1], user |-> "system"]
<1>2. /\ k.op = "publish" /\ k.user = "system" /\ DOMAIN k.on = {x} /\ k.on[x] = asks + 1 /\ k # Channel!Idle
  BY DEF Channel!Idle
<1>3. requests' = [requests EXCEPT ![c] = k]
  BY DEF Channel!SendUserNotification
<1> HIDE DEF k
<1>4. CallTyped(k)
  BY <1>1, <1>2 DEF CallTyped
<1>5. /\ DOMAIN requests' = Callers /\ requests'[c] = k
      /\ \A d \in Callers \ {c} : requests'[d] = requests[d]
      /\ \A d \in Callers : CallTyped(requests'[d])
  BY <1>3, <1>4, CallsKeep DEF ChannelInv
<1>6. UNCHANGED <<history, present, walk>> /\ tidy' \subseteq tidy /\ tidy \subseteq Channels
  BY DEF Channel!SendUserNotification, Channel!centrifugo, ChannelInv, ChannelTyped, Channel!TypeOK
<1>7. ChannelTyped'
  BY <1>1, <1>5, <1>6 DEF ChannelInv, ChannelTyped, Channel!TypeOK, CallTyped
<1>8. Walked'
  BY <1>6, WalkKeeps DEF ChannelInv
<1>9. ASSUME NEW y \in tidy'
      PROVE  /\ \A d, e \in Callers : OnIt(d, y)' /\ OnIt(e, y)' => d = e
             /\ \A d \in Callers : OnIt(d, y)' => y \in Channel!Live' /\ requests'[d].on[y] = born'[y]
             /\ y \in Channel!Live' => history'[y] \subseteq {born'[y]}
             /\ y \notin Channel!Live' => history'[y] = {}
  <2>1. \A d \in Callers \ {c} : OnIt(d, y)' <=> OnIt(d, y)
    BY <1>5 DEF OnIt
  <2>2. OnIt(c, y)' <=> y = x
    BY <1>2, <1>5 DEF OnIt
  <2>3. CASE x = y
    <3>1. ~Channel!Busy(x) /\ x \in tidy
      BY <1>9, <2>3 DEF Channel!SendUserNotification
    <3>2. \A d \in Callers : ~OnIt(d, y)
      BY <2>3, <3>1 DEF Channel!Busy, OnIt
    <3>3. history[x] = {}
      BY <1>0, <3>1 DEF ChannelInv, Own
    <3> QED
      BY <1>1, <1>2, <1>5, <1>6, <2>1, <2>3, <3>2, <3>3
  <2>4. CASE x # y
    <3>1. y \in tidy /\ y \in Channels \ {x} /\ born'[y] = born[y] /\ history'[y] = history[y]
      BY <1>1, <1>6, <1>9, <2>4
    <3>2. y \in Channel!Live' <=> y \in Channel!Live
      BY <1>1, <2>4
    <3>3. \A d \in Callers : OnIt(d, y)' => OnIt(d, y) /\ requests'[d] = requests[d]
      BY <1>5, <2>1, <2>2, <2>4
    <3>4. /\ \A d, e \in Callers : OnIt(d, y) /\ OnIt(e, y) => d = e
          /\ \A d \in Callers : OnIt(d, y) => y \in Channel!Live /\ requests[d].on[y] = born[y]
          /\ y \in Channel!Live => history[y] \subseteq {born[y]}
          /\ y \notin Channel!Live => history[y] = {}
      BY <3>1 DEF ChannelInv, Own
    <3> QED
      BY <3>1, <3>2, <3>3, <3>4
  <2> QED
    BY <2>3, <2>4
<1>10. Own'
  BY <1>9 DEF Own
<1> QED
  BY <1>7, <1>8, <1>10 DEF ChannelInv

(* Settings of other channels stay.                                        *)
LEMMA ForgetsThis ==
  ASSUME Channel!ChannelAssumption, ChannelInv, NEW x, Channel!Forget(x)
  PROVE  /\ settings' \in [Channels -> [history: BOOLEAN, presence: BOOLEAN]]
         /\ born' \in [Channels -> 0..MaxCalls] /\ \A y \in Channels \ {x} : born'[y] = born[y]
<1>1. /\ settings \in [Channels -> [history: BOOLEAN, presence: BOOLEAN]]
      /\ born \in [Channels -> 0..MaxCalls] /\ 0 \in 0..MaxCalls
  BY DEF ChannelInv, ChannelTyped, Channel!TypeOK, Channel!ChannelAssumption
<1>2. Channel!Defaults \in [history: BOOLEAN, presence: BOOLEAN]
  BY DEF Channel!Defaults
<1>3. settings' = [settings EXCEPT ![x] = Channel!Defaults] /\ born' = [born EXCEPT ![x] = 0]
  BY DEF Channel!Forget
<1>4. settings' \in [Channels -> [history: BOOLEAN, presence: BOOLEAN]]
  BY <1>1, <1>2, <1>3
<1>5. born' \in [Channels -> 0..MaxCalls]
  BY <1>1, <1>3
<1>6. \A y \in Channels \ {x} : born'[y] = born[y]
  BY <1>1, <1>3
<1> QED
  BY <1>4, <1>5, <1>6

(* A channel that is forgotten leaves the others where they were.          *)
LEMMA Forgotten ==
  ASSUME Channel!ChannelAssumption, ChannelInv, NEW x \in Channel!Live, Channel!Forget(x)
  PROVE  /\ channels' \in Seq(Channels) /\ Distinct' /\ LiveBorn' /\ Channel!Live' = Channel!Live \ {x}
         /\ settings' \in [Channels -> [history: BOOLEAN, presence: BOOLEAN]]
         /\ born' \in [Channels -> 0..MaxCalls] /\ \A y \in Channels \ {x} : born'[y] = born[y]
<1> DEFINE N == Len(channels)
<1>1. /\ N \in Nat /\ DOMAIN channels = 1..N /\ channels \in Seq(Channels)
      /\ \A i \in 1..N : channels[i] \in Channel!Live
      /\ \A y \in Channel!Live : \E i \in 1..N : channels[i] = y
      /\ Channel!Live \subseteq Channels
      /\ \A i, j \in 1..N : channels[i] = channels[j] => i = j
  BY LiveIs DEF ChannelInv, ChannelTyped, Channel!TypeOK, Distinct
<1>2. PICK p \in 1..N : channels[p] = x
  BY <1>1
<1>3. channels' = SubSeq(channels, 1, p - 1) \o SubSeq(channels, p + 1, N)
  BY <1>1, <1>2, ForgetIs DEF Channel!Forget
<1>4. /\ channels' \in Seq(Channels) /\ Len(channels') = N - 1
      /\ \A i \in 1..(N - 1) : channels'[i] = IF i < p THEN channels[i] ELSE channels[i + 1]
  BY <1>1, <1>2, <1>3, Removed, ZenonT(60)
<1>5. Distinct'
  BY <1>1, <1>4 DEF Distinct
<1>6. Channel!Live' = Channel!Live \ {x}
  <2>1. DOMAIN channels' = 1..(N - 1)
    BY <1>4, LenProperties
  <2>2. \A y : y \in Channel!Live' <=> \E i \in 1..(N - 1) : channels'[i] = y
    BY <2>1 DEF Channel!Live, Channel!ToSet
  <2>3. ASSUME NEW y \in Channel!Live' PROVE y \in Channel!Live /\ y # x
    BY <1>1, <1>2, <1>4, <2>2
  <2>4. ASSUME NEW y \in Channel!Live, y # x PROVE y \in Channel!Live'
    <3>1. PICK i \in 1..N : channels[i] = y
      BY <1>1
    <3>2. CASE i < p
      <4>1. i \in 1..(N - 1) /\ channels'[i] = y
        BY <1>1, <1>4, <3>1, <3>2
      <4> QED
        BY <2>2, <4>1
    <3>3. CASE i > p
      <4>1. i - 1 \in 1..(N - 1) /\ ~(i - 1 < p) /\ (i - 1) + 1 = i
        BY <1>1, <3>1, <3>3
      <4>2. channels'[i - 1] = y
        BY <1>4, <3>1, <4>1
      <4> QED
        BY <2>2, <4>1, <4>2
    <3>4. i # p
      BY <1>2, <2>4, <3>1
    <3> QED
      BY <1>1, <3>2, <3>3, <3>4
  <2> QED
    BY <2>3, <2>4
<1>7. /\ settings' \in [Channels -> [history: BOOLEAN, presence: BOOLEAN]]
      /\ born' \in [Channels -> 0..MaxCalls] /\ \A y \in Channels \ {x} : born'[y] = born[y]
  BY ForgetsThis
<1>8. LiveBorn'
  BY <1>1, <1>6, <1>7 DEF ChannelInv, ChannelTyped, LiveBorn
<1> QED
  BY <1>4, <1>5, <1>6, <1>7, <1>8

(* deleteChannel, from its first request to the end.                       *)
LEMMA ChannelDeleted ==
  ASSUME Channel!ChannelAssumption, ChannelInv, NEW c \in Callers, NEW x \in Channels, Channel!DeleteChannel(c, x)
  PROVE  ChannelInv'
<1>0. UNCHANGED <<present, walk>>
  BY DEF Channel!DeleteChannel
<1>1. CASE Channel!Begin(c, "delete", {x}, "system") /\ UNCHANGED <<Channel!map, history>>
  BY <1>0, <1>1, ChannelBegins DEF Channel!centrifugo
<1>2. CASE /\ Channel!Await(c, "delete") /\ DOMAIN requests[c].on = {x}
           /\ Channel!HistoryRemove(x) /\ Channel!Forget(x) /\ Channel!Return(c) /\ UNCHANGED <<asks, tidy>>
  <2>1. x \notin tidy => x \notin tidy'
    BY <1>2
  <2>2. /\ DOMAIN requests' = Callers /\ requests'[c] = Channel!Idle
        /\ \A d \in Callers \ {c} : requests'[d] = requests[d]
        /\ \A d \in Callers : CallTyped(requests'[d])
    <3>1. CallTyped(Channel!Idle)
      BY DEF CallTyped
    <3> QED
      BY <1>2, <3>1, CallsKeep DEF ChannelInv, Channel!Return
  <2>3. history' \in [Channels -> SUBSET (1..MaxCalls)] /\ history'[x] = {} /\ \A y \in Channels \ {x} : history'[y] = history[y]
    BY <1>2 DEF Channel!HistoryRemove, ChannelInv, ChannelTyped, Channel!TypeOK
  <2>4. /\ channels' \in Seq(Channels) /\ Distinct' /\ LiveBorn' /\ Channel!Live' = Channel!Live \ {x}
        /\ settings' \in [Channels -> [history: BOOLEAN, presence: BOOLEAN]]
        /\ born' \in [Channels -> 0..MaxCalls] /\ \A y \in Channels \ {x} : born'[y] = born[y]
    <3>1. CASE x \in Channel!Live
      BY <1>2, <3>1, Forgotten
    <3>2. CASE x \notin Channel!Live
      <4>1. ~ \E i \in 1..Len(channels) : channels[i] = x
        BY <3>2, LiveIs DEF ChannelInv
      <4>2. channels' = channels
        BY <1>2, <4>1 DEF Channel!Forget, Channel!RemoveFirst
      <4>3. Channel!Live' = Channel!Live /\ Channel!Live \ {x} = Channel!Live /\ Channel!Live \subseteq Channels
        BY <3>2, <4>2, LiveIs DEF Channel!Live, ChannelInv
      <4>4. /\ settings' \in [Channels -> [history: BOOLEAN, presence: BOOLEAN]]
            /\ born' \in [Channels -> 0..MaxCalls] /\ \A y \in Channels \ {x} : born'[y] = born[y]
        BY <1>2, ForgetsThis
      <4>5. LiveBorn'
        BY <3>2, <4>3, <4>4 DEF ChannelInv, ChannelTyped, LiveBorn
      <4> QED
        BY <4>2, <4>3, <4>4, <4>5 DEF ChannelInv, ChannelTyped, Channel!TypeOK, Distinct
    <3> QED
      BY <3>1, <3>2
  <2>5. ChannelTyped'
    BY <1>0, <1>2, <2>2, <2>3, <2>4 DEF ChannelInv, ChannelTyped, Channel!TypeOK, CallTyped
  <2>6. Walked'
    BY <1>0, WalkKeeps DEF ChannelInv
  <2>7. OnIt(c, x) /\ tidy' = tidy /\ tidy \subseteq Channels
    BY <1>2 DEF OnIt, Channel!Await, ChannelInv, ChannelTyped, Channel!TypeOK
  <2>8. ASSUME NEW y \in tidy
        PROVE  /\ \A d, e \in Callers : OnIt(d, y)' /\ OnIt(e, y)' => d = e
               /\ \A d \in Callers : OnIt(d, y)' => y \in Channel!Live' /\ requests'[d].on[y] = born'[y]
               /\ y \in Channel!Live' => history'[y] \subseteq {born'[y]}
               /\ y \notin Channel!Live' => history'[y] = {}
    <3>1. \A d \in Callers : OnIt(d, y)' => d # c /\ OnIt(d, y) /\ requests'[d] = requests[d]
      BY <2>2 DEF OnIt
    <3>2. CASE y = x
      <4>1. \A d \in Callers : ~OnIt(d, y)'
        BY <2>7, <2>8, <3>1, <3>2 DEF ChannelInv, Own
      <4> QED
        BY <2>3, <2>4, <3>2, <4>1
    <3>3. CASE y # x
      <4>1. y \in Channels \ {x} /\ born'[y] = born[y] /\ history'[y] = history[y] /\ (y \in Channel!Live' <=> y \in Channel!Live)
        BY <2>3, <2>4, <2>7, <2>8, <3>3
      <4>2. /\ \A d, e \in Callers : OnIt(d, y) /\ OnIt(e, y) => d = e
            /\ \A d \in Callers : OnIt(d, y) => y \in Channel!Live /\ requests[d].on[y] = born[y]
            /\ y \in Channel!Live => history[y] \subseteq {born[y]}
            /\ y \notin Channel!Live => history[y] = {}
        BY <2>8 DEF ChannelInv, Own
      <4> QED
        BY <3>1, <4>1, <4>2
    <3> QED
      BY <3>2, <3>3
  <2>9. Own'
    BY <2>7, <2>8 DEF Own
  <2> QED
    BY <2>5, <2>6, <2>9 DEF ChannelInv
<1>3. CASE /\ x \in Channel!Live /\ ~settings[x].history /\ asks < MaxCalls /\ asks' = asks + 1
           /\ Channel!Forget(x) /\ tidy' = tidy \ {x} /\ UNCHANGED <<history, requests>>
  <2>1. /\ channels' \in Seq(Channels) /\ Distinct' /\ LiveBorn' /\ Channel!Live' = Channel!Live \ {x}
        /\ settings' \in [Channels -> [history: BOOLEAN, presence: BOOLEAN]]
        /\ born' \in [Channels -> 0..MaxCalls] /\ \A y \in Channels \ {x} : born'[y] = born[y]
    BY <1>3, Forgotten
  <2>2. asks' \in 0..MaxCalls /\ tidy \subseteq Channels
    BY <1>3 DEF ChannelInv, ChannelTyped, Channel!TypeOK, Channel!ChannelAssumption
  <2>3. ChannelTyped'
    BY <1>0, <1>3, <2>1, <2>2 DEF ChannelInv, ChannelTyped, Channel!TypeOK
  <2>4. Walked'
    BY <1>0, WalkKeeps DEF ChannelInv
  <2>5. ASSUME NEW y \in tidy, y # x
        PROVE  /\ \A d, e \in Callers : OnIt(d, y)' /\ OnIt(e, y)' => d = e
               /\ \A d \in Callers : OnIt(d, y)' => y \in Channel!Live' /\ requests'[d].on[y] = born'[y]
               /\ y \in Channel!Live' => history'[y] \subseteq {born'[y]}
               /\ y \notin Channel!Live' => history'[y] = {}
    <3>1. \A d \in Callers : OnIt(d, y)' <=> OnIt(d, y)
      BY <1>3 DEF OnIt
    <3> QED
      BY <1>3, <2>1, <2>2, <2>5, <3>1 DEF ChannelInv, Own
  <2>6. Own'
    BY <1>3, <2>5 DEF Own
  <2> QED
    BY <2>3, <2>4, <2>6 DEF ChannelInv
<1> QED
  BY <1>1, <1>2, <1>3 DEF Channel!DeleteChannel

(* Messages are published, land, fail or are removed.                      *)
LEMMA MessagesMove ==
  ASSUME Channel!ChannelAssumption, ChannelInv, NEW c \in Callers,
         \/ \E S \in SUBSET Channels : Channel!PublishBatch(c, S)
         \/ \E x \in Channels : \/ Channel!RemoveHistory(c, x) \/ Channel!Publish(c, x)
                                \/ \E u \in Users : Channel!Subscribe(c, x, u)
         \/ Channel!PublishLands(c) \/ Channel!RequestFails(c)
  PROVE  ChannelInv'
<1>0. /\ history \in [Channels -> SUBSET (1..MaxCalls)] /\ present \in [Channels -> SUBSET Users]
      /\ tidy \subseteq Channels
  BY DEF ChannelInv, ChannelTyped, Channel!TypeOK
<1>1. ASSUME NEW S \in SUBSET Channels, Channel!PublishBatch(c, S)
      PROVE  ChannelInv'
  BY <1>1, ChannelBegins DEF Channel!PublishBatch
<1>2. ASSUME NEW x \in Channels, Channel!Publish(c, x)
      PROVE  ChannelInv'
  BY <1>2, ChannelBegins DEF Channel!Publish
<1>3. ASSUME NEW x \in Channels, Channel!RemoveHistory(c, x)
      PROVE  ChannelInv'
  <2>1. CASE Channel!Begin(c, "removeHistory", {x}, "system") /\ UNCHANGED history
    BY <1>3, <2>1, ChannelBegins DEF Channel!RemoveHistory, Channel!centrifugo
  <2>2. CASE Channel!Await(c, "removeHistory") /\ Channel!HistoryRemove(x) /\ Channel!Return(c) /\ UNCHANGED <<asks, tidy>>
    <3>1. history' \in [Channels -> SUBSET (1..MaxCalls)] /\ \A y \in Channels : history'[y] = history[y] \/ history'[y] = {}
      BY <1>0, <2>2 DEF Channel!HistoryRemove
    <3>2. UNCHANGED <<Channel!map, present, walk>>
      BY <1>3 DEF Channel!RemoveHistory
    <3> QED
      BY <1>0, <2>2, <3>1, <3>2, ChannelEnds DEF Channel!Await
  <2> QED
    BY <1>3, <2>1, <2>2 DEF Channel!RemoveHistory
<1>4. ASSUME NEW x \in Channels, NEW u \in Users, Channel!Subscribe(c, x, u)
      PROVE  ChannelInv'
  <2>1. CASE Channel!Begin(c, "subscribe", {x}, u) /\ UNCHANGED present
    BY <1>4, <2>1, ChannelBegins DEF Channel!Subscribe, Channel!centrifugo
  <2>2. CASE Channel!Await(c, "subscribe") /\ Channel!PostSubscribe(x, u) /\ Channel!Return(c) /\ UNCHANGED <<asks, tidy>>
    <3>1. present' \in [Channels -> SUBSET Users] /\ \A y : present[y] \subseteq present'[y]
      BY <1>0, <2>2 DEF Channel!PostSubscribe
    <3>2. UNCHANGED <<Channel!map, history, walk>>
      BY <1>4 DEF Channel!Subscribe
    <3> QED
      BY <1>0, <2>2, <3>1, <3>2, ChannelEnds DEF Channel!Await
  <2> QED
    BY <1>4, <2>1, <2>2 DEF Channel!Subscribe
<1>5. CASE Channel!PublishLands(c)
  <2>1. requests[c] # Channel!Idle /\ Channel!Return(c) /\ UNCHANGED <<Channel!map, present, walk, asks, tidy>>
    BY <1>5 DEF Channel!PublishLands, Channel!Await
  <2>2. history' = [x \in Channels |-> IF x \in DOMAIN requests[c].on THEN history[x] \cup {requests[c].on[x]} ELSE history[x]]
    BY <1>5 DEF Channel!PublishLands, Channel!PostMessages
  <2>3. \A x \in DOMAIN requests[c].on : requests[c].on[x] \in 1..MaxCalls
    BY <2>1 DEF ChannelInv, ChannelTyped, Channel!TypeOK
  <2>4. history' \in [Channels -> SUBSET (1..MaxCalls)]
    BY <1>0, <2>2, <2>3
  <2> QED
    BY <1>0, <2>1, <2>2, <2>4, ChannelEnds
<1>6. CASE Channel!RequestFails(c)
  BY <1>0, <1>6, ChannelEnds DEF Channel!RequestFails, Channel!centrifugo
<1> QED
  BY <1>1, <1>2, <1>3, <1>4, <1>5, <1>6

Visited == [id: Channels, born: 1..MaxCalls, presence: BOOLEAN]

(* The types of a walk.                                                    *)
LEMMA WalkIs ==
  ASSUME ChannelInv
  PROVE  /\ walk.left \in Seq(Visited) /\ Len(walk.left) \in Nat /\ DOMAIN walk.left = 1..Len(walk.left)
         /\ \A i \in 1..Len(walk.left) : walk.left[i] \in Visited
         /\ walk.found \subseteq Users \X Channels /\ walk.due \subseteq Users \X Channels
         /\ \A p \in walk.due : p[1] \in Users /\ p[2] \in Channels /\ p = <<p[1], p[2]>>
<1>1. /\ walk.left \in Seq(Visited) /\ walk.found \subseteq Users \X Channels
      /\ walk.due \subseteq Users \X Channels
  BY DEF ChannelInv, ChannelTyped, Channel!TypeOK, Visited
<1>2. /\ Len(walk.left) \in Nat /\ DOMAIN walk.left = 1..Len(walk.left)
      /\ \A i \in 1..Len(walk.left) : walk.left[i] \in Visited
  BY <1>1, LenProperties, ElementOfSeq
<1>3. \A p \in Users \X Channels : p[1] \in Users /\ p[2] \in Channels /\ p = <<p[1], p[2]>>
  OBVIOUS
<1> QED
  BY <1>1, <1>2, <1>3

(* updateChannelSettings: nobody is due where presence is turned off.      *)
LEMMA SettingsUpdated ==
  ASSUME Channel!ChannelAssumption, ChannelInv, NEW x \in Channels, NEW s \in [history: BOOLEAN, presence: BOOLEAN],
         Channel!UpdateChannelSettings(x, s)
  PROVE  ChannelInv'
<1> DEFINE N == Len(walk.left)
           due == IF s.presence THEN walk.due ELSE {p \in walk.due : p[2] # x}
           left == [i \in DOMAIN walk.left |->
                      IF walk.left[i].id = x /\ walk.left[i].born = born[x]
                      THEN [walk.left[i] EXCEPT !.presence = s.presence] ELSE walk.left[i]]
<1>1. /\ walk.left \in Seq(Visited) /\ N \in Nat /\ DOMAIN walk.left = 1..N
      /\ \A i \in 1..N : walk.left[i] \in Visited
      /\ walk.found \subseteq Users \X Channels /\ walk.due \subseteq Users \X Channels
  BY WalkIs
<1>2. /\ UNCHANGED <<channels, born, history, present, requests, asks>>
      /\ tidy' \subseteq tidy /\ settings' = [settings EXCEPT ![x] = s]
      /\ walk' = [walk EXCEPT !.left = left, !.due = due]
  BY DEF Channel!UpdateChannelSettings, Channel!centrifugo
<1>3. DOMAIN walk = {"left", "found", "due"}
  BY DEF ChannelInv, ChannelTyped
<1>4. \A i \in 1..N : /\ left[i] \in Visited /\ left[i].id = walk.left[i].id
                      /\ left[i].presence = walk.left[i].presence \/ left[i].presence = s.presence
                      /\ walk.left[i].id # x => left[i] = walk.left[i]
  BY <1>1 DEF Visited
<1>5. left \in [1..N -> Visited]
  BY <1>1, <1>4
<1>6. left \in Seq(Visited) /\ Len(left) = N
  BY <1>1, <1>5
<1>7. due \subseteq walk.due /\ \A p \in due : s.presence \/ p[2] # x
  OBVIOUS
<1> HIDE DEF left, due
<1>8. walk'.left = left /\ walk'.due = due /\ walk'.found = walk.found /\ DOMAIN walk' = {"left", "found", "due"}
  BY <1>2, <1>3
<1>9. ChannelTyped'
  <2>1. settings' \in [Channels -> [history: BOOLEAN, presence: BOOLEAN]]
    BY <1>2 DEF ChannelInv, ChannelTyped, Channel!TypeOK
  <2>2. walk'.left \in Seq([id: Channels, born: 1..MaxCalls, presence: BOOLEAN])
    BY <1>6, <1>8 DEF Visited
  <2>3. walk'.found \subseteq Users \X Channels /\ walk'.due \subseteq Users \X Channels /\ tidy' \subseteq Channels
    BY <1>1, <1>2, <1>7, <1>8 DEF ChannelInv, ChannelTyped, Channel!TypeOK
  <2>4. Channel!Live' = Channel!Live
    BY <1>2 DEF Channel!Live
  <2> QED
    BY <1>2, <1>8, <2>1, <2>2, <2>3, <2>4
       DEF ChannelInv, ChannelTyped, Channel!TypeOK, Distinct, LiveBorn
<1>10. Own'
  <2>1. Channel!Live' = Channel!Live
    BY <1>2 DEF Channel!Live
  <2> QED
    BY <1>2, <2>1 DEF ChannelInv, Own, OnIt
<1>11. ASSUME NEW p \in due
       PROVE  \/ p \in walk.found
              \/ \E i \in 1..Len(left) :
                   /\ left[i].id = p[2] /\ left[i].presence /\ p[1] \in present[p[2]]
  <2>1. CASE p \in walk.found
    BY <2>1
  <2>2. CASE p \notin walk.found
    <3>1. PICK i \in 1..N : walk.left[i].id = p[2] /\ walk.left[i].presence /\ p[1] \in present[p[2]]
      BY <1>7, <1>11, <2>2 DEF ChannelInv, Walked
    <3>2. left[i].id = p[2] /\ left[i].presence
      BY <1>4, <1>7, <1>11, <3>1
    <3> QED
      BY <1>6, <3>1, <3>2
  <2> QED
    BY <2>1, <2>2
<1>12. Walked'
  BY <1>2, <1>8, <1>11 DEF Walked
<1> QED
  BY <1>9, <1>10, <1>12 DEF ChannelInv

(* Steps on the presence and the walk only.                                *)
LEMMA WalkMoves ==
  ASSUME ChannelInv, UNCHANGED <<Channel!map, history, requests, asks, tidy>>,
         present' \in [Channels -> SUBSET Users],
         DOMAIN walk' = {"left", "found", "due"}, walk'.left \in Seq(Visited),
         walk'.found \subseteq Users \X Channels, walk'.due \subseteq Users \X Channels, Walked'
  PROVE  ChannelInv'
<1>1. Channel!Live' = Channel!Live
  BY DEF Channel!Live, Channel!map
<1>2. ChannelTyped'
  BY <1>1 DEF ChannelInv, ChannelTyped, Channel!TypeOK, Distinct, LiveBorn, Channel!map, Visited
<1>3. Own'
  BY <1>1 DEF ChannelInv, Own, OnIt, Channel!map
<1> QED
  BY <1>2, <1>3 DEF ChannelInv

(* A user leaves a channel and is due there no more.                       *)
LEMMA UserLeaves ==
  ASSUME ChannelInv, NEW u \in Users, NEW S \in SUBSET Channels, Channel!Leave(u, S),
         present' \in [Channels -> SUBSET Users],
         \A x \in Channels : \A v \in present[x] : (v \in present'[x]) \/ (v = u /\ x \in S)
  PROVE  ChannelInv'
<1> DEFINE due == {p \in walk.due : p[1] # u \/ p[2] \notin S}
<1>1. walk' = [walk EXCEPT !.due = due] /\ UNCHANGED <<Channel!map, history, requests, asks, tidy>>
  BY DEF Channel!Leave
<1>2. DOMAIN walk = {"left", "found", "due"}
  BY DEF ChannelInv, ChannelTyped
<1>3. \A p \in due : p \in walk.due /\ (p[1] # u \/ p[2] \notin S) /\ p[2] \in Channels
  BY WalkIs
<1> HIDE DEF due
<1>4. walk'.left = walk.left /\ walk'.due = due /\ walk'.found = walk.found /\ DOMAIN walk' = {"left", "found", "due"}
  BY <1>1, <1>2
<1>5. ASSUME NEW p \in due
      PROVE  \/ p \in walk.found
             \/ \E i \in 1..Len(walk.left) :
                  /\ walk.left[i].id = p[2] /\ walk.left[i].presence /\ p[1] \in present'[p[2]]
  BY <1>3 DEF ChannelInv, Walked
<1>6. Walked'
  BY <1>4, <1>5 DEF Walked
<1>7. /\ walk'.left \in Seq(Visited) /\ walk'.found \subseteq Users \X Channels
      /\ walk'.due \subseteq Users \X Channels
  BY <1>3, <1>4, WalkIs
<1> QED
  BY <1>1, <1>4, <1>6, <1>7, WalkMoves

(* A user leaves every channel.                                            *)
LEMMA UserGoes ==
  ASSUME ChannelInv, NEW u \in Users, Channel!Disconnect(u) \/ \E x \in Channels : Channel!Unsubscribe(u, x)
  PROVE  ChannelInv'
<1>0. present \in [Channels -> SUBSET Users]
  BY DEF ChannelInv, ChannelTyped, Channel!TypeOK
<1>1. CASE Channel!Disconnect(u)
  <2>1. present' = [x \in Channels |-> present[x] \ {u}] /\ Channel!Leave(u, Channels)
    BY <1>1 DEF Channel!Disconnect, Channel!PostDisconnect
  <2>2. /\ present' \in [Channels -> SUBSET Users]
        /\ \A x \in Channels : \A v \in present[x] : (v \in present'[x]) \/ (v = u /\ x \in Channels)
    BY <1>0, <2>1
  <2> QED
    BY <2>1, <2>2, UserLeaves
<1>2. ASSUME NEW x \in Channels, Channel!Unsubscribe(u, x)
      PROVE  ChannelInv'
  <2>1. present' = [present EXCEPT ![x] = @ \ {u}] /\ Channel!Leave(u, {x})
    BY <1>2 DEF Channel!Unsubscribe, Channel!PostUnsubscribe
  <2>2. /\ present' \in [Channels -> SUBSET Users]
        /\ \A y \in Channels : \A v \in present[y] : (v \in present'[y]) \/ (v = u /\ y \in {x})
    <3>1. present'[x] = present[x] \ {u} /\ \A y \in Channels \ {x} : present'[y] = present[y]
      BY <1>0, <2>1
    <3>2. \A y \in Channels : present'[y] \subseteq Users
      BY <1>0, <3>1
    <3>3. present' \in [Channels -> SUBSET Users]
      BY <1>0, <2>1, <3>2
    <3>4. ASSUME NEW y \in Channels, NEW v \in present[y]
          PROVE  v \in present'[y] \/ (v = u /\ y \in {x})
      <4>1. CASE y = x
        BY <3>1, <4>1
      <4>2. CASE y # x
        BY <3>1, <4>2
      <4> QED
        BY <4>1, <4>2
    <3> QED
      BY <3>3, <3>4
  <2> QED
    BY <2>1, <2>2, UserLeaves
<1> QED
  BY <1>1, <1>2

(* A walk begins with all who are on the channels of its page.             *)
LEMMA WalkBegins ==
  ASSUME Channel!ChannelAssumption, ChannelInv, Channel!GetOnlineUsers
  PROVE  ChannelInv'
<1> DEFINE n == IF Len(channels) < ChannelPage THEN Len(channels) ELSE ChannelPage
           page == [i \in 1..n |-> [id |-> channels[i], born |-> born[channels[i]],
                                    presence |-> settings[channels[i]].presence]]
           due == {p \in Users \X Channels : p[1] \in present[p[2]] /\
                         \E o \in Channel!ToSet(page) : o.id = p[2] /\ o.presence}
<1>1. /\ Len(channels) \in Nat /\ \A i \in 1..Len(channels) : channels[i] \in Channels /\ channels[i] \in Channel!Live
      /\ ChannelPage \in Nat /\ settings \in [Channels -> [history: BOOLEAN, presence: BOOLEAN]]
      /\ \A x \in Channel!Live : born[x] \in 1..MaxCalls
  BY LiveIs DEF ChannelInv, ChannelTyped, Channel!TypeOK, LiveBorn, Channel!ChannelAssumption
<1>2. n \in Nat /\ n <= Len(channels)
  BY <1>1
<1> HIDE DEF n
<1>3. \A i \in 1..n : page[i] \in Visited
  BY <1>1, <1>2 DEF Visited
<1>4. page \in [1..n -> Visited]
  BY <1>3
<1>5. page \in Seq(Visited) /\ Len(page) = n /\ DOMAIN page = 1..n
  BY <1>2, <1>4
<1>6. walk' = [left |-> page, found |-> {}, due |-> due] /\ UNCHANGED <<Channel!map, history, present, requests, asks, tidy>>
  BY DEF Channel!GetOnlineUsers, Channel!ListChannels, n, Channel!centrifugo
<1> HIDE DEF page
<1>7. \A p \in due : /\ p \in Users \X Channels /\ p[1] \in present[p[2]]
                     /\ \E i \in 1..Len(page) : page[i].id = p[2] /\ page[i].presence
  BY <1>5 DEF Channel!ToSet
<1> HIDE DEF due
<1>8. walk'.left = page /\ walk'.due = due /\ walk'.found = {} /\ DOMAIN walk' = {"left", "found", "due"}
  BY <1>6
<1>9. Walked'
  BY <1>6, <1>7, <1>8 DEF Walked
<1>10. present' \in [Channels -> SUBSET Users] /\ due \subseteq Users \X Channels
  BY <1>6, <1>7 DEF ChannelInv, ChannelTyped, Channel!TypeOK
<1> QED
  BY <1>5, <1>6, <1>8, <1>9, <1>10, WalkMoves

(* A walk visits the next channel, or its request fails.                   *)
LEMMA WalkVisits ==
  ASSUME Channel!ChannelAssumption, ChannelInv, Channel!Visit
  PROVE  ChannelInv'
<1> DEFINE N == Len(walk.left)
           x == Head(walk.left)
           t == Tail(walk.left)
<1>1. /\ walk.left \in Seq(Visited) /\ N \in Nat /\ DOMAIN walk.left = 1..N
      /\ \A i \in 1..N : walk.left[i] \in Visited
      /\ walk.found \subseteq Users \X Channels /\ walk.due \subseteq Users \X Channels
      /\ \A p \in walk.due : p[1] \in Users /\ p[2] \in Channels /\ p = <<p[1], p[2]>>
  BY WalkIs
<1>2. /\ walk.left # <<>> /\ UNCHANGED <<Channel!map, history, present, requests, asks, tidy>>
      /\ \/ walk' = [walk EXCEPT !.left = t,
                                 !.found = IF x.presence THEN walk.found \cup Channel!Presence(x.id) ELSE walk.found]
         \/ walk' = [walk EXCEPT !.left = t, !.due = {p \in walk.due : p[2] # x.id}]
  BY DEF Channel!Visit, Channel!centrifugo
<1>3. /\ N >= 1 /\ x = walk.left[1] /\ t \in Seq(Visited) /\ Len(t) = N - 1
      /\ \A i \in 1..(N - 1) : t[i] = walk.left[i + 1]
  BY <1>1, <1>2, HeadTailProperties, EmptySeq
<1> HIDE DEF x, t
<1>4. DOMAIN walk = {"left", "found", "due"} /\ present \in [Channels -> SUBSET Users] /\ x \in Visited
  BY <1>1, <1>3 DEF ChannelInv, ChannelTyped, Channel!TypeOK
<1>5. ASSUME NEW p \in walk.due, p \notin walk.found
      PROVE  \/ x.id = p[2] /\ x.presence /\ p[1] \in present[p[2]]
             \/ \E i \in 1..Len(t) :
                  /\ t[i].id = p[2] /\ t[i].presence /\ p[1] \in present[p[2]]
  <2>1. PICK i \in 1..N : walk.left[i].id = p[2] /\ walk.left[i].presence /\ p[1] \in present[p[2]]
    BY <1>5 DEF ChannelInv, Walked
  <2>2. CASE i = 1
    BY <1>3, <2>1, <2>2
  <2>3. CASE i # 1
    <3>1. i - 1 \in 1..(N - 1) /\ (i - 1) + 1 = i
      BY <1>1, <2>3
    <3>2. t[i - 1] = walk.left[i]
      BY <1>3, <3>1
    <3> QED
      BY <1>3, <2>1, <3>1, <3>2
  <2> QED
    BY <2>2, <2>3
<1>6. Channel!Presence(x.id) \subseteq Users \X Channels
      /\ \A p \in walk.due : x.id = p[2] /\ p[1] \in present[p[2]] => p \in Channel!Presence(x.id)
  BY <1>1, <1>4 DEF Channel!Presence, Visited
<1>7. CASE walk' = [walk EXCEPT !.left = t,
                                 !.found = IF x.presence THEN walk.found \cup Channel!Presence(x.id) ELSE walk.found]
  <2> DEFINE online == IF x.presence THEN walk.found \cup Channel!Presence(x.id) ELSE walk.found
  <2>1. online \subseteq Users \X Channels /\ \A p \in walk.due :
          p \in walk.found \/ (x.id = p[2] /\ x.presence /\ p[1] \in present[p[2]]) => p \in online
    BY <1>1, <1>6
  <2>2. walk' = [walk EXCEPT !.left = t, !.found = online]
    BY <1>7
  <2> HIDE DEF online
  <2>3. walk'.left = t /\ walk'.due = walk.due /\ walk'.found = online /\ DOMAIN walk' = {"left", "found", "due"}
    BY <1>4, <2>2
  <2>4. Walked'
    BY <1>2, <1>5, <2>1, <2>3 DEF Walked
  <2> QED
    BY <1>1, <1>2, <1>3, <1>4, <2>1, <2>3, <2>4, WalkMoves
<1>8. CASE walk' = [walk EXCEPT !.left = t, !.due = {p \in walk.due : p[2] # x.id}]
  <2> DEFINE due == {p \in walk.due : p[2] # x.id}
  <2>1. walk'.left = t /\ walk'.due = due /\ walk'.found = walk.found /\ DOMAIN walk' = {"left", "found", "due"}
    BY <1>4, <1>8
  <2>2. Walked'
    BY <1>2, <1>5, <2>1 DEF Walked
  <2>3. due \subseteq Users \X Channels
    BY <1>1
  <2> QED
    BY <1>1, <1>2, <1>3, <1>4, <2>1, <2>2, <2>3, WalkMoves
<1> QED
  BY <1>2, <1>7, <1>8

(* A restart empties the map of channels.                                  *)
LEMMA ChannelsGone ==
  ASSUME Channel!ChannelAssumption, ChannelInv, Channel!Restart
  PROVE  ChannelInv'
<1>1. /\ channels' = <<>> /\ Len(<<>>) = 0 /\ DOMAIN <<>> = {} /\ channels' \in Seq(Channels)
      /\ tidy' = {} /\ UNCHANGED <<history, present, asks>>
      /\ requests' = [c \in Callers |-> Channel!Idle] /\ walk' = Channel!NoWalk
  BY DEF Channel!Restart, Channel!centrifugo
<1>2. Channel!Live' = {}
  BY <1>1 DEF Channel!Live, Channel!ToSet
<1>3. /\ settings' \in [Channels -> [history: BOOLEAN, presence: BOOLEAN]]
      /\ born' \in [Channels -> 0..MaxCalls]
  BY DEF Channel!Restart, Channel!Defaults, Channel!ChannelAssumption
<1>4. /\ walk'.left = <<>> /\ walk'.found = {} /\ walk'.due = {} /\ DOMAIN walk' = {"left", "found", "due"}
      /\ walk'.left \in Seq([id: Channels, born: 1..MaxCalls, presence: BOOLEAN])
  BY <1>1 DEF Channel!NoWalk
<1>5. DOMAIN requests' = Callers /\ \A c \in Callers : requests'[c] = Channel!Idle
  BY <1>1
<1>6. ChannelTyped'
  BY <1>1, <1>2, <1>3, <1>4, <1>5 DEF ChannelInv, ChannelTyped, Channel!TypeOK, Distinct, LiveBorn
<1>7. Own' /\ Walked'
  BY <1>1, <1>4 DEF Own, Walked
<1> QED
  BY <1>6, <1>7 DEF ChannelInv

(* Every step keeps the invariant of the channels.                         *)
LEMMA ChannelStep == Channel!ChannelAssumption /\ ChannelInv /\ [Channel!Next]_(Channel!vars) => ChannelInv'
<1> SUFFICES ASSUME Channel!ChannelAssumption, ChannelInv, [Channel!Next]_(Channel!vars) PROVE ChannelInv'
  OBVIOUS
<1>1. ASSUME NEW x \in Channels, NEW s \in [history: BOOLEAN, presence: BOOLEAN],
             Channel!CreateChannel(x, s) \/ Channel!UpdateChannelSettings(x, s)
      PROVE  ChannelInv'
  BY <1>1, ChannelCreated, SettingsUpdated
<1>2. ASSUME NEW c \in Callers,
             \/ \E S \in {T \in SUBSET Channels : Channel!Cardinality(T) > 1} : Channel!PublishBatch(c, S)
             \/ \E x \in Channels : \/ Channel!RemoveHistory(c, x) \/ Channel!Publish(c, x)
                                    \/ \E u \in Users : Channel!Subscribe(c, x, u)
             \/ Channel!PublishLands(c) \/ Channel!RequestFails(c)
      PROVE  ChannelInv'
  BY <1>2, MessagesMove
<1>3. ASSUME NEW c \in Callers, NEW x \in Channels, Channel!DeleteChannel(c, x) \/ Channel!SendUserNotification(c, x)
      PROVE  ChannelInv'
  BY <1>3, ChannelDeleted, ChannelNotified
<1>4. ASSUME NEW u \in Users, Channel!Disconnect(u) \/ \E x \in Channels : Channel!Unsubscribe(u, x)
      PROVE  ChannelInv'
  BY <1>4, UserGoes
<1>5. CASE Channel!GetOnlineUsers \/ Channel!Visit \/ Channel!Restart
  BY <1>5, WalkBegins, WalkVisits, ChannelsGone
<1>6. CASE UNCHANGED Channel!vars
  <2>1. UNCHANGED <<Channel!map, history, present, requests, walk, asks, tidy>>
    BY <1>6 DEF Channel!vars, Channel!map
  <2>2. Walked'
    BY <2>1, WalkKeeps DEF ChannelInv
  <2>3. present' \in [Channels -> SUBSET Users] /\ DOMAIN walk' = {"left", "found", "due"}
    BY <2>1 DEF ChannelInv, ChannelTyped, Channel!TypeOK
  <2> QED
    BY <2>1, <2>2, <2>3, WalkIs, WalkMoves
<1> QED
  BY <1>1, <1>2, <1>3, <1>4, <1>5, <1>6 DEF Channel!Next

(* What the invariant says to a client.                                    *)
LEMMA ChannelHeld == Channel!ChannelAssumption /\ ChannelInv => Channel!TypeOK /\ Channel!HistoryIsOwn /\ Channel!OnlineIsComplete
<1> SUFFICES ASSUME Channel!ChannelAssumption, ChannelInv PROVE Channel!TypeOK /\ Channel!HistoryIsOwn /\ Channel!OnlineIsComplete
  OBVIOUS
<1>1. Channel!TypeOK
  BY DEF ChannelInv, ChannelTyped
<1>2. Channel!HistoryIsOwn
  BY DEF ChannelInv, Own, Channel!HistoryIsOwn, Channel!GetHistory, Channel!History
<1>3. Channel!OnlineIsComplete
  <2>1. SUFFICES ASSUME walk.left = <<>>
                 PROVE  /\ \A p \in walk.due : Channel!IsUserOnline(p[1]) /\ p[2] \in Channel!GetUserChannels(p[1])
                        /\ \A S \in SUBSET Channels :
                             Channel!Cardinality({p \in walk.due : p[2] \in S}) <= Channel!GetActiveUsersByChannelType(S)
    BY DEF Channel!OnlineIsComplete
  <2>2. walk.due \subseteq walk.found
    <3>1. Len(walk.left) = 0
      BY <2>1
    <3> QED
      BY <3>1 DEF ChannelInv, Walked
  <2>3. \A p \in walk.due : Channel!IsUserOnline(p[1]) /\ p[2] \in Channel!GetUserChannels(p[1])
    BY <2>2 DEF Channel!IsUserOnline, Channel!GetUserChannels
  <2>4. ASSUME NEW S \in SUBSET Channels
        PROVE  Channel!Cardinality({p \in walk.due : p[2] \in S}) <= Channel!GetActiveUsersByChannelType(S)
    <3>1. Channel!IsFiniteSet(Users \X Channels)
      BY ChannelFinite, FS_Product DEF Channel!ChannelAssumption
    <3>2. {p \in walk.found : p[2] \in S} \subseteq Users \X Channels
      BY WalkIs
    <3>3. Channel!IsFiniteSet({p \in walk.found : p[2] \in S})
      BY <3>1, <3>2, ChannelFinite, FS_Subset
    <3>4. {p \in walk.due : p[2] \in S} \subseteq {p \in walk.found : p[2] \in S}
      BY <2>2
    <3> QED
      BY <3>3, <3>4, ChannelFinite, FS_Subset DEF Channel!GetActiveUsersByChannelType
  <2> QED
    BY <2>3, <2>4
<1> QED
  BY <1>1, <1>2, <1>3

-----------------------------------------------------------------------------
(***************************************************************************)
(* QueueReports.                                                           *)
(***************************************************************************)
(* What it counts is what the library counts.                               *)
LEMMA ReportFinite == \A S : Report!Cardinality(S) = Cardinality(S) /\ (Report!IsFiniteSet(S) <=> IsFiniteSet(S))
  BY DEF Report!Cardinality, Cardinality, Report!IsFiniteSet, IsFiniteSet

(* Counting the subsets of a finite set.                                   *)
LEMMA SubsetCounts ==
  ASSUME NEW J, Report!IsFiniteSet(J)
  PROVE  /\ Report!Cardinality(J) \in Nat
         /\ \A S \in SUBSET J : Report!IsFiniteSet(S) /\ Report!Cardinality(S) \in 0..Report!Cardinality(J) /\ Report!Cardinality(S) \in Nat
         /\ \A S, T \in SUBSET J : S \subseteq T => Report!Cardinality(S) <= Report!Cardinality(T)
         /\ \A S, T \in SUBSET J : S \cap T = {} => Report!Cardinality(S \cup T) = Report!Cardinality(S) + Report!Cardinality(T)
<1>1. Report!Cardinality(J) \in Nat
  BY ReportFinite, FS_CardinalityType
<1>2. \A S \in SUBSET J : Report!IsFiniteSet(S) /\ Report!Cardinality(S) <= Report!Cardinality(J)
  BY ReportFinite, FS_Subset
<1>3. \A S \in SUBSET J : Report!Cardinality(S) \in Nat
  BY <1>2, ReportFinite, FS_CardinalityType
<1>4. \A S, T \in SUBSET J : S \subseteq T => Report!Cardinality(S) <= Report!Cardinality(T)
  BY <1>2, ReportFinite, FS_Subset
<1>5. ASSUME NEW S \in SUBSET J, NEW T \in SUBSET J, S \cap T = {}
      PROVE  Report!Cardinality(S \cup T) = Report!Cardinality(S) + Report!Cardinality(T)
  <2>1. Report!Cardinality(S \cup T) = Report!Cardinality(S) + Report!Cardinality(T) - Report!Cardinality(S \cap T)
    BY <1>2, ReportFinite, FS_Union
  <2>2. Report!Cardinality(S \cap T) = 0
    BY <1>5, ReportFinite, FS_EmptySet
  <2> QED
    BY <1>3, <2>1, <2>2
<1> QED
  BY <1>1, <1>2, <1>3, <1>4, <1>5

(* A count that is off by no more than what moved is so when more moves.   *)
LEMMA SlackGrows ==
  ASSUME NEW J, Report!IsFiniteSet(J), NEW A \in SUBSET J, NEW M \in SUBSET J, NEW S \in SUBSET J, A \cap M = {}, NEW n \in Nat,
         Report!Cardinality(A) <= n, n <= Report!Cardinality(A) + Report!Cardinality(M)
  PROVE  Report!Cardinality(A \ S) <= n /\ n <= Report!Cardinality(A \ S) + Report!Cardinality(M \cup S)
<1>1. A \ S \in SUBSET J /\ A \cap S \in SUBSET J /\ M \cup S \in SUBSET J /\ M \cup (A \cap S) \in SUBSET J
  OBVIOUS
<1>2. Report!Cardinality(A) = Report!Cardinality(A \ S) + Report!Cardinality(A \cap S)
  <2>1. A = (A \ S) \cup (A \cap S) /\ (A \ S) \cap (A \cap S) = {}
    OBVIOUS
  <2> QED
    BY <1>1, <2>1, SubsetCounts
<1>3. Report!Cardinality(M \cup (A \cap S)) = Report!Cardinality(M) + Report!Cardinality(A \cap S)
  BY <1>1, SubsetCounts
<1>4. Report!Cardinality(M \cup (A \cap S)) <= Report!Cardinality(M \cup S)
  BY <1>1, SubsetCounts
<1>5. /\ Report!Cardinality(A) \in Nat /\ Report!Cardinality(A \ S) \in Nat /\ Report!Cardinality(A \cap S) \in Nat
      /\ Report!Cardinality(M) \in Nat /\ Report!Cardinality(M \cup S) \in Nat
  BY <1>1, SubsetCounts
<1> QED
  BY <1>2, <1>3, <1>4, <1>5

ReportFields == {"on", "from", "to", "tenant", "total", "completed", "failed", "typed", "hours"}
(* A count of jobs, but for those that changed since the report began.     *)
Near(n, S) == /\ Report!Cardinality(S \ changed) <= n
              /\ n <= Report!Cardinality(S \ changed) + Report!Cardinality(changed)
Counts ==
  /\ DOMAIN report = ReportFields /\ DOMAIN report.hours = Report!Hours(report.from, report.to)
  /\ report.total # Report!NotYet => Near(report.total, Report!Where)
  /\ report.typed # Report!NotYet => Near(report.typed, Report!Where)
  /\ report.completed # Report!NotYet => Near(report.completed, Report!With("completed"))
  /\ report.failed # Report!NotYet => Near(report.failed, Report!With("failed"))
  /\ \A h \in DOMAIN report.hours :
       report.hours[h] # Report!NotYet => Report!Cardinality(Report!JobsInHour(h) \ changed) <= report.hours[h]
ReportInv == Report!TypeOK /\ (report # Report!NoReport => Counts)

(* A report under way is not NoReport.                                     *)
LEMMA ReportIs == \A r : DOMAIN r = ReportFields => r # Report!NoReport
<1>1. DOMAIN Report!NoReport = {"on"} /\ "to" \in ReportFields
  BY DEF Report!NoReport, ReportFields
<1> QED
  BY <1>1

(* Counting jobs: every count is a number a statement can answer.          *)
LEMMA JobCounts ==
  ASSUME Report!ReportAssumption
  PROVE  /\ Report!Cardinality(Jobs) \in Nat
         /\ \A S \in SUBSET Jobs : Report!IsFiniteSet(S) /\ Report!Cardinality(S) \in 0..Report!Cardinality(Jobs) /\ Report!Cardinality(S) \in Nat
         /\ \A S, T \in SUBSET Jobs : S \subseteq T => Report!Cardinality(S) <= Report!Cardinality(T)
         /\ \A S, T \in SUBSET Jobs : S \cap T = {} => Report!Cardinality(S \cup T) = Report!Cardinality(S) + Report!Cardinality(T)
         /\ Report!Count \subseteq Nat /\ Report!NotYet \in Nat /\ Report!NotYet \notin Report!Count
         /\ \A S \in SUBSET Jobs : Report!Cardinality(S) \in Report!Count
<1>1. Report!IsFiniteSet(Jobs)
  BY DEF Report!ReportAssumption
<1>2. /\ Report!Cardinality(Jobs) \in Nat
      /\ \A S \in SUBSET Jobs : Report!IsFiniteSet(S) /\ Report!Cardinality(S) \in 0..Report!Cardinality(Jobs) /\ Report!Cardinality(S) \in Nat
      /\ \A S, T \in SUBSET Jobs : S \subseteq T => Report!Cardinality(S) <= Report!Cardinality(T)
      /\ \A S, T \in SUBSET Jobs : S \cap T = {} => Report!Cardinality(S \cup T) = Report!Cardinality(S) + Report!Cardinality(T)
  BY <1>1, SubsetCounts
<1> QED
  <2> DEFINE n == Report!Cardinality(Jobs)
  <2>1. n \in Nat /\ \A S \in SUBSET Jobs : Report!Cardinality(S) \in 0..n
    BY <1>2
  <2>2. Report!Count = 0..n /\ Report!NotYet = n + 1
    BY DEF Report!Count, Report!NotYet
  <2> HIDE DEF n
  <2>3. Report!Count \subseteq Nat /\ Report!NotYet \in Nat /\ Report!NotYet \notin Report!Count
    BY <2>1, <2>2
  <2> QED
    BY <1>2, <2>1, <2>2, <2>3

(* The rows a report is about are rows of jobs.                            *)
LEMMA WhereIs == /\ Report!Where \in SUBSET Jobs /\ \A s : Report!With(s) \in SUBSET Report!Where /\ Report!With(s) \in SUBSET Jobs
                 /\ \A h : Report!JobsInHour(h) \in SUBSET Jobs
  BY DEF Report!Where, Report!With, Report!JobsInHour

(* One job's row changes: it is counted among those that did.              *)
LEMMA RowChanges ==
  ASSUME Report!ReportAssumption, ReportInv, NEW j \in Jobs, Report!Change(j),
         rows' \in [Jobs -> Report!Row \cup {Report!NoRow}], deleted' \subseteq Jobs,
         \A k \in Jobs \ {j} : rows'[k] = rows[k] /\ (k \in deleted' <=> k \in deleted)
  PROVE  ReportInv'
<1>1. UNCHANGED <<clock, report>> /\ changed' = (IF report = Report!NoReport THEN {} ELSE changed \cup {j})
      /\ changed \subseteq Jobs
  BY DEF Report!Change, ReportInv, Report!TypeOK
<1>2. Report!TypeOK'
  BY <1>1 DEF ReportInv, Report!TypeOK
<1>3. ASSUME report # Report!NoReport PROVE Counts'
  <2>1. changed' = changed \cup {j} /\ Counts /\ Report!IsFiniteSet(Jobs)
    BY <1>1, <1>3 DEF ReportInv, Report!ReportAssumption
  <2>2. /\ Report!Where' \ changed' = (Report!Where \ changed) \ {j}
        /\ \A s : Report!With(s)' \ changed' = (Report!With(s) \ changed) \ {j}
        /\ \A h : Report!JobsInHour(h)' \ changed' = (Report!JobsInHour(h) \ changed) \ {j}
    <3>1. \A k \in Jobs \ {j} : k \in Report!Where' <=> k \in Report!Where
      BY <1>1 DEF Report!Where
    <3>2. Report!Where' \ changed' = (Report!Where \ changed) \ {j}
      <4>1. Report!Where' \subseteq Jobs /\ Report!Where \subseteq Jobs
        BY DEF Report!Where
      <4> QED
        BY <2>1, <3>1, <4>1
    <3>3. ASSUME NEW s PROVE Report!With(s)' \ changed' = (Report!With(s) \ changed) \ {j}
      <4>1. \A k \in Jobs \ {j} : k \in Report!With(s)' <=> k \in Report!With(s)
        BY <3>1 DEF Report!With
      <4>2. Report!With(s)' \subseteq Jobs /\ Report!With(s) \subseteq Jobs
        BY DEF Report!With, Report!Where
      <4> QED
        BY <2>1, <4>1, <4>2
    <3>4. ASSUME NEW h PROVE Report!JobsInHour(h)' \ changed' = (Report!JobsInHour(h) \ changed) \ {j}
      <4>1. \A k \in Jobs \ {j} : k \in Report!JobsInHour(h)' <=> k \in Report!JobsInHour(h)
        BY <1>1 DEF Report!JobsInHour
      <4>2. Report!JobsInHour(h)' \subseteq Jobs /\ Report!JobsInHour(h) \subseteq Jobs
        BY DEF Report!JobsInHour
      <4> QED
        BY <2>1, <4>1, <4>2
    <3> QED
      BY <3>2, <3>3, <3>4
  <2>3. ASSUME NEW n \in Nat, NEW S \in SUBSET Jobs, Near(n, S), NEW T, T \ changed' = (S \ changed) \ {j}
        PROVE  Report!Cardinality(T \ changed') <= n /\ n <= Report!Cardinality(T \ changed') + Report!Cardinality(changed')
    <3>1. S \ changed \in SUBSET Jobs /\ changed \in SUBSET Jobs /\ {j} \in SUBSET Jobs /\ (S \ changed) \cap changed = {}
      BY <1>1
    <3>2. Report!Cardinality(S \ changed) <= n /\ n <= Report!Cardinality(S \ changed) + Report!Cardinality(changed)
      BY <2>3 DEF Near
    <3>3. /\ Report!Cardinality((S \ changed) \ {j}) <= n
          /\ n <= Report!Cardinality((S \ changed) \ {j}) + Report!Cardinality(changed \cup {j})
      BY <2>1, <3>1, <3>2, SlackGrows
    <3> QED
      BY <2>1, <2>3, <3>3
  <2>4. /\ report.total # Report!NotYet => report.total \in Nat
        /\ report.typed # Report!NotYet => report.typed \in Nat
        /\ report.completed # Report!NotYet => report.completed \in Nat
        /\ report.failed # Report!NotYet => report.failed \in Nat
        /\ \A h \in DOMAIN report.hours : report.hours[h] \in Nat
    BY <1>3, JobCounts DEF ReportInv, Report!TypeOK
  <2>5. /\ report.total # Report!NotYet => Near(report.total, Report!Where)'
        /\ report.typed # Report!NotYet => Near(report.typed, Report!Where)'
        /\ report.completed # Report!NotYet => Near(report.completed, Report!With("completed"))'
        /\ report.failed # Report!NotYet => Near(report.failed, Report!With("failed"))'
    <3>1. report.total # Report!NotYet => Near(report.total, Report!Where)'
      BY <1>1, <2>1, <2>2, <2>3, <2>4, WhereIs DEF Counts, Near
    <3>2. report.typed # Report!NotYet => Near(report.typed, Report!Where)'
      BY <1>1, <2>1, <2>2, <2>3, <2>4, WhereIs DEF Counts, Near
    <3>3. report.completed # Report!NotYet => Near(report.completed, Report!With("completed"))'
      BY <1>1, <2>1, <2>2, <2>3, <2>4, WhereIs DEF Counts, Near
    <3>4. report.failed # Report!NotYet => Near(report.failed, Report!With("failed"))'
      BY <1>1, <2>1, <2>2, <2>3, <2>4, WhereIs DEF Counts, Near
    <3> QED
      BY <3>1, <3>2, <3>3, <3>4
  <2>6. ASSUME NEW h \in DOMAIN report.hours, report.hours[h] # Report!NotYet
        PROVE  Report!Cardinality(Report!JobsInHour(h)' \ changed') <= report.hours[h]
    <3>1. Report!Cardinality(Report!JobsInHour(h) \ changed) <= report.hours[h]
      BY <2>1, <2>6 DEF Counts
    <3>2. (Report!JobsInHour(h) \ changed) \in SUBSET Jobs /\ (Report!JobsInHour(h) \ changed) \ {j} \in SUBSET Jobs
      BY WhereIs
    <3>3. /\ Report!Cardinality((Report!JobsInHour(h) \ changed) \ {j}) <= Report!Cardinality(Report!JobsInHour(h) \ changed)
          /\ Report!Cardinality((Report!JobsInHour(h) \ changed) \ {j}) \in Nat /\ Report!Cardinality(Report!JobsInHour(h) \ changed) \in Nat
      BY <3>2, JobCounts
    <3> QED
      BY <2>2, <2>4, <3>1, <3>3, SMTT(30)
  <2> QED
    BY <1>1, <2>1, <2>5, <2>6 DEF Counts
<1> QED
  BY <1>1, <1>2, <1>3 DEF ReportInv

(* A statement counts what there is.                                       *)
LEMMA ReportCounts ==
  ASSUME Report!ReportAssumption, ReportInv, report # Report!NoReport, UNCHANGED <<clock, rows, deleted, changed>>,
         DOMAIN report' = ReportFields, report'.from = report.from, report'.to = report.to,
         report'.tenant = report.tenant,
         report'.total \in {report.total, Report!Cardinality(Report!Where)},
         report'.typed \in {report.typed, Report!Cardinality(Report!Where)},
         report'.completed \in {report.completed, Report!Cardinality(Report!With("completed"))},
         report'.failed \in {report.failed, Report!Cardinality(Report!With("failed"))},
         DOMAIN report'.hours = DOMAIN report.hours,
         \A h \in DOMAIN report.hours : report'.hours[h] \in {report.hours[h], Report!Cardinality(Report!JobsInHour(h))}
  PROVE  ReportInv'
<1>1. Report!Where' = Report!Where /\ \A s : Report!With(s)' = Report!With(s)
  BY DEF Report!Where, Report!With
<1>2. \A h : Report!JobsInHour(h)' = Report!JobsInHour(h)
  BY DEF Report!JobsInHour
<1>3. Counts /\ changed \in SUBSET Jobs
  BY DEF ReportInv, Report!TypeOK
<1>4. ASSUME NEW S \in SUBSET Jobs
      PROVE  Near(Report!Cardinality(S), S) /\ Report!Cardinality(S \ changed) <= Report!Cardinality(S) /\ Report!Cardinality(S) \in Report!Count
  <2>1. S \ changed \in SUBSET Jobs /\ S \cap changed \in SUBSET Jobs
        /\ S = (S \ changed) \cup (S \cap changed) /\ (S \ changed) \cap (S \cap changed) = {}
    OBVIOUS
  <2>2. Report!Cardinality(S) = Report!Cardinality(S \ changed) + Report!Cardinality(S \cap changed)
    BY <2>1, JobCounts
  <2>3. Report!Cardinality(S \cap changed) <= Report!Cardinality(changed)
    BY <1>3, <2>1, JobCounts
  <2>4. /\ Report!Cardinality(S \ changed) \in Nat /\ Report!Cardinality(S \cap changed) \in Nat /\ Report!Cardinality(changed) \in Nat
        /\ Report!Cardinality(S) \in Nat /\ Report!Cardinality(S) \in Report!Count
    BY <1>3, <2>1, JobCounts
  <2> QED
    BY <2>2, <2>3, <2>4 DEF Near
<1>5. \A n, S : Near(n, S) => Report!Cardinality(S \ changed') <= n /\ n <= Report!Cardinality(S \ changed') + Report!Cardinality(changed')
  BY DEF Near
<1>6. /\ report'.total # Report!NotYet => Near(report.total, Report!Where)'
      /\ report'.typed # Report!NotYet => Near(report.typed, Report!Where)'
      /\ report'.completed # Report!NotYet => Near(report.completed, Report!With("completed"))'
      /\ report'.failed # Report!NotYet => Near(report.failed, Report!With("failed"))'
  <2>1. report'.total # Report!NotYet => Near(report.total, Report!Where)'
    BY <1>1, <1>3, <1>4, <1>5, WhereIs DEF Counts, Near
  <2>2. report'.typed # Report!NotYet => Near(report.typed, Report!Where)'
    BY <1>1, <1>3, <1>4, <1>5, WhereIs DEF Counts, Near
  <2>3. report'.completed # Report!NotYet => Near(report.completed, Report!With("completed"))'
    BY <1>1, <1>3, <1>4, <1>5, WhereIs DEF Counts, Near
  <2>4. report'.failed # Report!NotYet => Near(report.failed, Report!With("failed"))'
    BY <1>1, <1>3, <1>4, <1>5, WhereIs DEF Counts, Near
  <2> QED
    BY <2>1, <2>2, <2>3, <2>4
<1>7. \A h \in DOMAIN report'.hours :
        report'.hours[h] # Report!NotYet => Report!Cardinality(Report!JobsInHour(h)' \ changed') <= report'.hours[h]
  BY <1>2, <1>3, <1>4, WhereIs DEF Counts
<1>8. Counts'
  BY <1>3, <1>6, <1>7 DEF Counts
<1>9. Report!TypeOK'
  <2>1. /\ Report!Cardinality(Report!Where) \in Report!Count /\ Report!Cardinality(Report!With("completed")) \in Report!Count
        /\ Report!Cardinality(Report!With("failed")) \in Report!Count /\ \A h : Report!Cardinality(Report!JobsInHour(h)) \in Report!Count
    BY <1>4, WhereIs
  <2>2. /\ report'.total \in Report!Count \cup {Report!NotYet} /\ report'.typed \in Report!Count \cup {Report!NotYet}
        /\ report'.completed \in Report!Count \cup {Report!NotYet} /\ report'.failed \in Report!Count \cup {Report!NotYet}
        /\ \A h \in DOMAIN report'.hours : report'.hours[h] \in Report!Count \cup {Report!NotYet}
    BY <2>1 DEF ReportInv, Report!TypeOK
  <2> QED
    BY <2>2 DEF ReportInv, Report!TypeOK
<1> QED
  BY <1>8, <1>9 DEF ReportInv

(* Rows are created, written and deleted.                                  *)
LEMMA RowsMove ==
  ASSUME Report!ReportAssumption, ReportInv, NEW j \in Jobs, Report!CreateRow(j) \/ Report!WriteStatus(j) \/ Report!DeleteRow(j)
  PROVE  ReportInv'
<1>0. rows \in [Jobs -> Report!Row \cup {Report!NoRow}] /\ deleted \subseteq Jobs /\ clock \in 0..ReportTime
  BY DEF ReportInv, Report!TypeOK
<1>1. CASE Report!CreateRow(j)
  <2>1. PICK t \in Tenants : rows' = [rows EXCEPT ![j] = [tenant |-> t, at |-> clock, status |-> "waiting"]]
    BY <1>1 DEF Report!CreateRow
  <2>2. [tenant |-> t, at |-> clock, status |-> "waiting"] \in Report!Row
    BY <1>0 DEF Report!Row
  <2>3. rows' \in [Jobs -> Report!Row \cup {Report!NoRow}] /\ \A k \in Jobs \ {j} : rows'[k] = rows[k]
    BY <1>0, <2>1, <2>2
  <2>4. Report!Change(j) /\ deleted' = deleted
    BY <1>1 DEF Report!CreateRow
  <2> QED
    BY <1>0, <2>3, <2>4, RowChanges
<1>2. CASE Report!WriteStatus(j)
  <2>1. PICK m \in Report!Moves : rows' = [rows EXCEPT ![j] = [rows[j] EXCEPT !.status = m[2]]]
    BY <1>2 DEF Report!WriteStatus
  <2>2. rows[j] \in Report!Row
    BY <1>0, <1>2 DEF Report!WriteStatus
  <2>3. m[2] \in {"waiting", "active", "completed", "failed"}
    BY DEF Report!Moves
  <2>4. [rows[j] EXCEPT !.status = m[2]] \in Report!Row
    BY <2>2, <2>3 DEF Report!Row
  <2>5. rows' \in [Jobs -> Report!Row \cup {Report!NoRow}] /\ \A k \in Jobs \ {j} : rows'[k] = rows[k]
    BY <1>0, <2>1, <2>4
  <2>6. Report!Change(j) /\ deleted' = deleted
    BY <1>2 DEF Report!WriteStatus
  <2> QED
    BY <1>0, <2>5, <2>6, RowChanges
<1>3. CASE Report!DeleteRow(j)
  <2>1. Report!Change(j) /\ rows' = rows /\ deleted' = deleted \cup {j}
    BY <1>3 DEF Report!DeleteRow
  <2> QED
    BY <1>0, <2>1, RowChanges
<1> QED
  BY <1>1, <1>2, <1>3

(* A statement of the report answers.                                      *)
LEMMA ReportsMove ==
  ASSUME Report!ReportAssumption, ReportInv, Report!CountStatement \/ Report!GroupByType \/ \E h : Report!CountHour(h)
  PROVE  ReportInv'
<1>1. report # Report!NoReport /\ UNCHANGED <<clock, rows, deleted, changed>>
  BY DEF Report!CountStatement, Report!GroupByType, Report!CountHour, Report!table
<1>2. DOMAIN report = ReportFields
  BY <1>1 DEF ReportInv, Counts
<1>3. CASE Report!CountStatement
  <2>1. \/ report' = [report EXCEPT !.total = Report!Cardinality(Report!Where)]
        \/ report' = [report EXCEPT !.completed = Report!Cardinality(Report!With("completed"))]
        \/ report' = [report EXCEPT !.failed = Report!Cardinality(Report!With("failed"))]
    BY <1>3 DEF Report!CountStatement
  <2>2. CASE report' = [report EXCEPT !.total = Report!Cardinality(Report!Where)]
    <3>1. /\ DOMAIN report' = ReportFields /\ report'.from = report.from /\ report'.to = report.to
          /\ report'.tenant = report.tenant /\ report'.total = Report!Cardinality(Report!Where) /\ report'.typed = report.typed
          /\ report'.completed = report.completed /\ report'.failed = report.failed /\ report'.hours = report.hours
      BY <1>2, <2>2 DEF ReportFields
    <3> QED
      BY <1>1, <3>1, ReportCounts
  <2>3. CASE report' = [report EXCEPT !.completed = Report!Cardinality(Report!With("completed"))]
    <3>1. /\ DOMAIN report' = ReportFields /\ report'.from = report.from /\ report'.to = report.to
          /\ report'.tenant = report.tenant /\ report'.total = report.total /\ report'.typed = report.typed
          /\ report'.completed = Report!Cardinality(Report!With("completed")) /\ report'.failed = report.failed
          /\ report'.hours = report.hours
      BY <1>2, <2>3 DEF ReportFields
    <3> QED
      BY <1>1, <3>1, ReportCounts
  <2>4. CASE report' = [report EXCEPT !.failed = Report!Cardinality(Report!With("failed"))]
    <3>1. /\ DOMAIN report' = ReportFields /\ report'.from = report.from /\ report'.to = report.to
          /\ report'.tenant = report.tenant /\ report'.total = report.total /\ report'.typed = report.typed
          /\ report'.completed = report.completed /\ report'.failed = Report!Cardinality(Report!With("failed"))
          /\ report'.hours = report.hours
      BY <1>2, <2>4 DEF ReportFields
    <3> QED
      BY <1>1, <3>1, ReportCounts
  <2> QED
    BY <2>1, <2>2, <2>3, <2>4
<1>4. CASE Report!GroupByType
  <2>1. report' = [report EXCEPT !.typed = Report!Cardinality(Report!Where)]
    BY <1>4 DEF Report!GroupByType
  <2>2. /\ DOMAIN report' = ReportFields /\ report'.from = report.from /\ report'.to = report.to
        /\ report'.tenant = report.tenant /\ report'.total = report.total /\ report'.typed = Report!Cardinality(Report!Where)
        /\ report'.completed = report.completed /\ report'.failed = report.failed /\ report'.hours = report.hours
    BY <1>2, <2>1 DEF ReportFields
  <2> QED
    BY <1>1, <2>2, ReportCounts
<1>5. ASSUME NEW h, Report!CountHour(h) PROVE ReportInv'
  <2>1. h \in DOMAIN report.hours /\ report' = [report EXCEPT !.hours = [report.hours EXCEPT ![h] = Report!Cardinality(Report!JobsInHour(h))]]
    BY <1>5 DEF Report!CountHour
  <2> DEFINE hs == [report.hours EXCEPT ![h] = Report!Cardinality(Report!JobsInHour(h))]
  <2>2. DOMAIN hs = DOMAIN report.hours
        /\ \A g \in DOMAIN report.hours : hs[g] \in {report.hours[g], Report!Cardinality(Report!JobsInHour(g))}
    BY <2>1
  <2>3. report' = [report EXCEPT !.hours = hs]
    BY <2>1
  <2> HIDE DEF hs
  <2>4. /\ DOMAIN report' = ReportFields /\ report'.from = report.from /\ report'.to = report.to
        /\ report'.tenant = report.tenant /\ report'.total = report.total /\ report'.typed = report.typed
        /\ report'.completed = report.completed /\ report'.failed = report.failed /\ report'.hours = hs
    BY <1>2, <2>3 DEF ReportFields
  <2> QED
    BY <1>1, <2>2, <2>4, ReportCounts
<1> QED
  BY <1>3, <1>4, <1>5

(* A report begins with nothing counted and nothing changed.               *)
LEMMA ReportBegins ==
  ASSUME Report!ReportAssumption, ReportInv, NEW from \in 0..ReportTime, NEW to \in 0..ReportTime,
         NEW t \in Tenants \cup {Anyone}, Report!GetJobMetrics(from, to, t)
  PROVE  ReportInv'
<1> DEFINE hs == [h \in Report!Hours(from, to) |-> Report!NotYet]
<1>1. /\ report' = [on |-> TRUE, from |-> from, to |-> to, tenant |-> t,
                    total |-> Report!NotYet, completed |-> Report!NotYet, failed |-> Report!NotYet,
                    typed |-> Report!NotYet, hours |-> hs]
      /\ changed' = {} /\ UNCHANGED <<clock, rows, deleted>>
  BY DEF Report!GetJobMetrics, Report!table
<1>2. DOMAIN hs = Report!Hours(from, to) /\ \A h \in DOMAIN hs : hs[h] = Report!NotYet
  OBVIOUS
<1> HIDE DEF hs
<1>3. /\ report'.from = from /\ report'.to = to /\ report'.tenant = t /\ report'.total = Report!NotYet
      /\ report'.completed = Report!NotYet /\ report'.failed = Report!NotYet /\ report'.typed = Report!NotYet
      /\ report'.hours = hs /\ DOMAIN report' = ReportFields
  BY <1>1 DEF ReportFields
<1>4. Report!TypeOK'
  BY <1>1, <1>2, <1>3 DEF ReportInv, Report!TypeOK
<1>5. Counts'
  BY <1>2, <1>3 DEF Counts
<1> QED
  BY <1>4, <1>5 DEF ReportInv

(* There is no report at first.                                            *)
LEMMA ReportInitial == Report!ReportAssumption /\ Report!Init => ReportInv
<1> SUFFICES ASSUME Report!ReportAssumption, Report!Init PROVE ReportInv
  OBVIOUS
<1>1. clock \in 0..ReportTime /\ rows \in [Jobs -> Report!Row \cup {Report!NoRow}]
  BY DEF Report!Init, Report!ReportAssumption
<1> QED
  BY <1>1 DEF Report!Init, ReportInv, Report!TypeOK

(* Every step keeps the invariant of the reports.                          *)
LEMMA ReportStep == Report!ReportAssumption /\ ReportInv /\ [Report!Next]_(Report!vars) => ReportInv'
<1> SUFFICES ASSUME Report!ReportAssumption, ReportInv, [Report!Next]_(Report!vars) PROVE ReportInv'
  OBVIOUS
<1>1. ASSUME NEW j \in Jobs, Report!CreateRow(j) \/ Report!WriteStatus(j) \/ Report!DeleteRow(j) PROVE ReportInv'
  BY <1>1, RowsMove
<1>2. ASSUME NEW from \in 0..ReportTime, NEW to \in 0..ReportTime, NEW t \in Tenants \cup {Anyone},
             Report!GetJobMetrics(from, to, t)
      PROVE  ReportInv'
  BY <1>2, ReportBegins
<1>3. CASE Report!CountStatement \/ Report!GroupByType \/ \E h \in Report!Hour(0)..Report!Hour(ReportTime) : Report!CountHour(h)
  BY <1>3, ReportsMove
<1>4. CASE Report!Tick \/ UNCHANGED Report!vars
  <2>1. clock' \in 0..ReportTime /\ UNCHANGED <<rows, deleted, report, changed>>
    BY <1>4
       DEF Report!Tick, Report!table, Report!vars, ReportInv, Report!TypeOK,
           Report!ReportAssumption
  <2>2. Report!TypeOK'
    BY <2>1 DEF ReportInv, Report!TypeOK
  <2>3. Counts' <=> Counts
    BY <2>1 DEF Counts, Near, Report!Where, Report!With, Report!JobsInHour
  <2> QED
    BY <2>1, <2>2, <2>3 DEF ReportInv
<1>5. CASE Report!Answer
  <2>1. report' = Report!NoReport /\ changed' = {} /\ UNCHANGED <<clock, rows, deleted>>
    BY <1>5 DEF Report!Answer, Report!table
  <2> QED
    BY <2>1 DEF ReportInv, Report!TypeOK
<1> QED
  BY <1>1, <1>2, <1>3, <1>4, <1>5 DEF Report!Next

(* What was completed before the report is in one of the hours.            *)
LEMMA HoursAddUp ==
  ASSUME Report!ReportAssumption, ReportInv, Report!Answered, report.tenant # Anyone
  PROVE  Report!Cardinality(Report!With("completed") \ changed) <= Report!Cardinality(Report!InHours) /\ Report!Cardinality(Report!InHours) \in Nat
<1> DEFINE D == DOMAIN report.hours
           In(h) == Report!JobsInHour(h) \ changed
           T == {t \in D \X (1..Report!Cardinality(Jobs)) : t[2] <= Report!Cardinality(In(t[1]))}
           W == UNION {In(h) : h \in D}
           G == [h \in D |-> CHOOSE g : g \in Bijection(1..Report!Cardinality(In(h)), In(h))]
           f == [t \in T |-> G[t[1]][t[2]]]
<1>1. /\ report # Report!NoReport /\ Counts /\ report.from \in 0..ReportTime /\ report.to \in 0..ReportTime
      /\ D = Report!Hours(report.from, report.to) /\ ReportTime \in Nat
      /\ \A h \in D : report.hours[h] # Report!NotYet /\ report.hours[h] \in Report!Count
  BY DEF Report!Answered, ReportInv, Report!TypeOK, Counts, Report!ReportAssumption
<1>2. \A h \in D : /\ In(h) \in SUBSET Jobs /\ Report!Cardinality(In(h)) \in 0..Report!Cardinality(Jobs)
                   /\ Report!Cardinality(In(h)) <= report.hours[h] /\ report.hours[h] \in 0..Report!Cardinality(Jobs)
                   /\ Report!IsFiniteSet(In(h))
  <2>1. \A h \in D : Report!Cardinality(In(h)) <= report.hours[h]
    BY <1>1 DEF Counts
  <2>2. \A h : In(h) \in SUBSET Jobs
    BY WhereIs
  <2> QED
    BY <1>1, <2>1, <2>2, JobCounts DEF Report!Count
<1>3. \A h \in D : G[h] \in Bijection(1..Report!Cardinality(In(h)), In(h))
  <2>1. \A h \in D : ExistsBijection(1..Report!Cardinality(In(h)), In(h))
    BY <1>2, ReportFinite, FS_CardinalityType
  <2> QED
    BY <2>1 DEF ExistsBijection
<1>4. \A h \in D : /\ \A i \in 1..Report!Cardinality(In(h)) : G[h][i] \in In(h)
                   /\ \A j \in In(h) : \E i \in 1..Report!Cardinality(In(h)) : G[h][i] = j
  BY <1>3 DEF Bijection, Surjection, Injection
<1> HIDE DEF G
<1>5. \A t \in T : t[1] \in D /\ t[2] \in 1..Report!Cardinality(In(t[1])) /\ t[2] \in 1..Report!Cardinality(Jobs)
  BY <1>2, JobCounts
<1>6. f \in [T -> W]
  BY <1>4, <1>5
<1>7. ASSUME NEW j \in W PROVE \E t \in T : f[t] = j
  <2>1. PICK h \in D : j \in In(h)
    BY <1>7
  <2>2. PICK i \in 1..Report!Cardinality(In(h)) : G[h][i] = j
    BY <1>4, <2>1
  <2>3. i \in 1..Report!Cardinality(Jobs) /\ i <= Report!Cardinality(In(h))
    <3>1. Report!Cardinality(In(h)) \in 0..Report!Cardinality(Jobs) /\ Report!Cardinality(Jobs) \in Nat
      BY <1>2, JobCounts
    <3> HIDE DEF In
    <3> QED
      BY <2>2, <3>1
  <2>4. <<h, i>> \in T
    BY <2>3
  <2>5. f[<<h, i>>] = j
    BY <2>2, <2>4
  <2> QED
    BY <2>4, <2>5
<1>8. f \in Surjection(T, W)
  BY <1>6, <1>7 DEF Surjection
<1>9. Report!IsFiniteSet(D \X (1..Report!Cardinality(Jobs)))
  <2>1. \A x, y \in Nat : Report!IsFiniteSet(x..y)
    BY ReportFinite, FS_Interval
  <2>2. Report!Hour(report.from) \in Nat /\ Report!Hour(report.to) \in Nat
    BY <1>1 DEF Report!Hour
  <2>3. Report!IsFiniteSet(D) /\ Report!IsFiniteSet(1..Report!Cardinality(Jobs))
    BY <1>1, <2>1, <2>2, JobCounts DEF Report!Hours
  <2> QED
    BY <2>3, ReportFinite, FS_Product
<1>10. Report!IsFiniteSet(Report!InHours) /\ T \subseteq Report!InHours
  <2>1. Report!InHours \subseteq D \X (1..Report!Cardinality(Jobs))
    <3>1. ASSUME NEW t \in Report!InHours PROVE t \in D \X (1..Report!Cardinality(Jobs))
      <4>1. PICK h \in D : t \in {h} \X (1..report.hours[h])
        BY <3>1 DEF Report!InHours
      <4>2. report.hours[h] \in 0..Report!Cardinality(Jobs) /\ Report!Cardinality(Jobs) \in Nat
        BY <1>2, JobCounts
      <4>3. 1..report.hours[h] \subseteq 1..Report!Cardinality(Jobs)
        BY <4>2
      <4> QED
        BY <4>1, <4>3
    <3> QED
      BY <3>1
  <2>2. T \subseteq Report!InHours
    <3>1. ASSUME NEW t \in T PROVE t \in {t[1]} \X (1..report.hours[t[1]])
      <4>1. t[2] \in 1..report.hours[t[1]]
        BY <1>2, <1>5, <3>1, JobCounts
      <4>2. t = <<t[1], t[2]>>
        BY <3>1
      <4> QED
        BY <4>1, <4>2
    <3> QED
      BY <1>5, <3>1 DEF Report!InHours
  <2> QED
    BY <1>9, <2>1, <2>2, ReportFinite, FS_Subset
<1>11. Report!IsFiniteSet(T) /\ Report!Cardinality(T) <= Report!Cardinality(Report!InHours)
  BY <1>10, ReportFinite, FS_Subset
<1>12. Report!IsFiniteSet(W) /\ Report!Cardinality(W) <= Report!Cardinality(T)
  <2> HIDE DEF f, T, W
  <2> QED
    BY <1>8, <1>11, ReportFinite, FS_Surjection
<1>13. Report!With("completed") \ changed \subseteq W
  <2>1. ASSUME NEW j \in Report!With("completed") \ changed PROVE \E h \in D : j \in In(h)
    <3>1. /\ j \in Jobs /\ rows[j] # Report!NoRow /\ report.from <= rows[j].at /\ rows[j].at <= report.to
          /\ report.tenant \in {Anyone, rows[j].tenant} /\ rows[j].status = "completed"
      BY <2>1 DEF Report!With, Report!Where
    <3>2. rows[j].at \in 0..ReportTime /\ report.tenant = rows[j].tenant
      BY <3>1 DEF ReportInv, Report!TypeOK, Report!Row
    <3>3. Report!Hour(rows[j].at) \in D
      <4>1. rows[j].at \in Int /\ report.from \in Int /\ report.to \in Int
        BY <1>1, <3>2
      <4> QED
        BY <1>1, <3>1, <4>1 DEF Report!Hours, Report!Hour
    <3>4. j \in In(Report!Hour(rows[j].at))
      BY <2>1, <3>1, <3>2 DEF Report!JobsInHour
    <3> QED
      BY <3>3, <3>4
  <2> QED
    BY <2>1
<1>14. Report!Cardinality(Report!With("completed") \ changed) <= Report!Cardinality(W)
  BY <1>12, <1>13, ReportFinite, FS_Subset
<1>15. /\ Report!Cardinality(Report!With("completed") \ changed) \in Nat /\ Report!Cardinality(W) \in Nat /\ Report!Cardinality(T) \in Nat
       /\ Report!Cardinality(Report!InHours) \in Nat
  <2>1. Report!With("completed") \ changed \in SUBSET Jobs
    BY WhereIs
  <2> QED
    BY <1>10, <1>11, <1>12, <2>1, JobCounts, ReportFinite, FS_CardinalityType
<1> HIDE DEF T, W, f
<1> QED
  BY <1>11, <1>12, <1>14, <1>15

(* The sums disagree by no more than the jobs that changed.                *)
LEMMA ReportHeld == Report!ReportAssumption /\ ReportInv => Report!TypeOK /\ Report!ReportAddsUp
<1> SUFFICES ASSUME Report!ReportAssumption, ReportInv, Report!Answered
             PROVE  LET slack == Report!Cardinality(changed)
                    IN /\ report.completed + report.failed <= report.total + 2 * slack
                       /\ report.typed <= report.total + slack /\ report.total <= report.typed + slack
                       /\ report.tenant # Anyone =>
                            report.completed <= slack + Report!Cardinality(Report!InHours)
  BY DEF ReportInv, Report!ReportAddsUp
<1> DEFINE slack == Report!Cardinality(changed)
           w == Report!Cardinality(Report!Where \ changed)
           c == Report!Cardinality(Report!With("completed") \ changed)
           f == Report!Cardinality(Report!With("failed") \ changed)
<1>1. /\ report # Report!NoReport /\ Counts /\ changed \in SUBSET Jobs
      /\ report.total # Report!NotYet /\ report.completed # Report!NotYet /\ report.failed # Report!NotYet /\ report.typed # Report!NotYet
      /\ report.total \in Report!Count /\ report.completed \in Report!Count /\ report.failed \in Report!Count /\ report.typed \in Report!Count
  BY DEF Report!Answered, Report!Counted, Report!Grouped, ReportInv, Report!TypeOK
<1>2. /\ w <= report.total /\ report.total <= w + slack /\ w <= report.typed /\ report.typed <= w + slack
      /\ report.completed <= c + slack /\ report.failed <= f + slack
  BY <1>1 DEF Counts, Near
<1>3. c + f <= w
  <2>1. Report!With("completed") \ changed \in SUBSET Jobs /\ Report!With("failed") \ changed \in SUBSET Jobs
        /\ (Report!With("completed") \ changed) \cap (Report!With("failed") \ changed) = {}
        /\ (Report!With("completed") \ changed) \cup (Report!With("failed") \ changed) \subseteq Report!Where \ changed
        /\ (Report!With("completed") \ changed) \cup (Report!With("failed") \ changed) \in SUBSET Jobs
        /\ Report!Where \ changed \in SUBSET Jobs
    BY DEF Report!With, Report!Where
  <2>2. Report!Cardinality((Report!With("completed") \ changed) \cup (Report!With("failed") \ changed)) = c + f
    BY <2>1, JobCounts
  <2> QED
    BY <2>1, <2>2, JobCounts
<1>4. w \in Nat /\ c \in Nat /\ f \in Nat /\ slack \in Nat
  <2>1. /\ Report!With("completed") \ changed \in SUBSET Jobs /\ Report!With("failed") \ changed \in SUBSET Jobs
        /\ Report!Where \ changed \in SUBSET Jobs
    BY WhereIs
  <2> QED
    BY <1>1, <2>1, JobCounts
<1>5. report.total \in Nat /\ report.completed \in Nat /\ report.failed \in Nat /\ report.typed \in Nat
  BY <1>1, JobCounts
<1>6. report.tenant # Anyone => c <= Report!Cardinality(Report!InHours) /\ Report!Cardinality(Report!InHours) \in Nat
  BY HoursAddUp
<1> HIDE DEF slack, w, c, f
<1>7. report.completed + report.failed <= report.total + 2 * slack
  BY <1>2, <1>3, <1>4, <1>5
<1>8. report.typed <= report.total + slack /\ report.total <= report.typed + slack
  BY <1>2, <1>4, <1>5
<1>9. report.tenant # Anyone => report.completed <= slack + Report!Cardinality(Report!InHours)
  BY <1>2, <1>4, <1>5, <1>6
<1> QED
  BY <1>7, <1>8, <1>9 DEF slack

-----------------------------------------------------------------------------
(***************************************************************************)
(* QueueHealth.                                                            *)
(***************************************************************************)
(* What it counts is what the library counts.                               *)
LEMMA HealthFinite == \A S : Health!Cardinality(S) = Cardinality(S) /\ (Health!IsFiniteSet(S) <=> IsFiniteSet(S))
  BY DEF Health!Cardinality, Cardinality, Health!IsFiniteSet, IsFiniteSet

ReadFields == {"kind", "left", "replies", "isPaused"}
(* The jobs of a list that did not move since a reader began.              *)
Stayed(r, l) == {j \in Jobs \ moved[r] : jobs[j] = l}
(* A reply counts the jobs that stayed, and may count some that moved.     *)
Bounds(r, l) ==
  /\ Health!Cardinality(Stayed(r, l)) <= readers[r].replies[l]
  /\ readers[r].replies[l] <= Health!Cardinality(Stayed(r, l)) + Health!Cardinality(moved[r])
Expected(kind) == IF kind \in {"getQueueStatus", "getQueueHealth"} THEN Health!Lists ELSE {"waiting", "failed"}
Open(r, l) == \E i \in 1..Len(readers[r].left) : readers[r].left[i] = l
HealthTyped ==
  /\ Health!TypeOK /\ DOMAIN readers = Readers
  /\ \A r \in Readers : readers[r] # Health!Idle => DOMAIN readers[r] = ReadFields
HealthInv ==
  /\ HealthTyped
  /\ \A r \in Readers : readers[r] # Health!Idle =>
       \A l \in Expected(readers[r].kind) : Open(r, l) \/ Bounds(r, l)

Signals == Health!Lists \cup {"isPaused", "upsert"}
LEMMA RequestsAre ==
  ASSUME NEW kind \in DOMAIN Health!Requests
  PROVE  /\ Health!Requests[kind] \in Seq(Signals)
         /\ \A l \in Expected(kind) : \E i \in 1..Len(Health!Requests[kind]) : Health!Requests[kind][i] = l
<1>1. kind \in {"checkQueueHealth", "isHealthy", "getQueueStatus", "getQueueHealth"}
  BY DEF Health!Requests
<1>2. CASE kind = "checkQueueHealth"
  <2>1. Health!Requests[kind] = <<"isPaused", "waiting", "active", "failed", "upsert">>
    BY <1>2 DEF Health!Requests
  <2> QED
    BY <1>2, <2>1 DEF Expected, Signals, Health!Lists
<1>3. CASE kind = "isHealthy"
  <2>1. Health!Requests[kind] = <<"isPaused", "failed", "waiting">>
    BY <1>3 DEF Health!Requests
  <2> QED
    BY <1>3, <2>1 DEF Expected, Signals, Health!Lists
<1>4. CASE kind = "getQueueStatus"
  <2>1. Health!Requests[kind] = <<"waiting", "active", "completed", "failed", "delayed", "paused">>
    BY <1>4 DEF Health!Requests
  <2> QED
    BY <1>4, <2>1 DEF Expected, Signals, Health!Lists
<1>5. CASE kind = "getQueueHealth"
  <2>1. Health!Requests[kind] = <<"waiting", "active", "completed", "failed", "delayed", "paused", "isPaused">>
    BY <1>5 DEF Health!Requests
  <2> QED
    BY <1>5, <2>1 DEF Expected, Signals, Health!Lists
<1> QED
  BY <1>1, <1>2, <1>3, <1>4, <1>5

(* Counting jobs.                                                          *)
LEMMA CountsAre ==
  ASSUME Health!HealthAssumption
  PROVE  /\ Health!Cardinality(Jobs) \in Nat
         /\ \A S \in SUBSET Jobs : Health!IsFiniteSet(S) /\ Health!Cardinality(S) \in 0..Health!Cardinality(Jobs) /\ Health!Cardinality(S) \in Nat
         /\ \A S, T \in SUBSET Jobs : S \subseteq T => Health!Cardinality(S) <= Health!Cardinality(T)
         /\ \A S, T \in SUBSET Jobs : S \cap T = {} => Health!Cardinality(S \cup T) = Health!Cardinality(S) + Health!Cardinality(T)
<1>1. Health!IsFiniteSet(Jobs) /\ Health!Cardinality(Jobs) \in Nat
  BY HealthFinite, FS_CardinalityType DEF Health!HealthAssumption
<1>2. \A S \in SUBSET Jobs : Health!IsFiniteSet(S) /\ Health!Cardinality(S) <= Health!Cardinality(Jobs)
  BY <1>1, HealthFinite, FS_Subset
<1>3. \A S \in SUBSET Jobs : Health!Cardinality(S) \in Nat
  BY <1>2, HealthFinite, FS_CardinalityType
<1>4. \A S, T \in SUBSET Jobs : S \subseteq T => Health!Cardinality(S) <= Health!Cardinality(T)
  BY <1>2, HealthFinite, FS_Subset
<1>5. ASSUME NEW S \in SUBSET Jobs, NEW T \in SUBSET Jobs, S \cap T = {}
      PROVE  Health!Cardinality(S \cup T) = Health!Cardinality(S) + Health!Cardinality(T)
  <2>1. Health!Cardinality(S \cup T) = Health!Cardinality(S) + Health!Cardinality(T) - Health!Cardinality(S \cap T)
    BY <1>2, HealthFinite, FS_Union
  <2>2. Health!Cardinality(S \cap T) = 0
    BY <1>5, HealthFinite, FS_EmptySet
  <2> QED
    BY <1>3, <2>1, <2>2
<1> QED
  BY <1>1, <1>2, <1>3, <1>4, <1>5

(* Jobs that move are no longer among those that stayed.                   *)
LEMMA JobsMove ==
  ASSUME Health!HealthAssumption, HealthInv, NEW S \in SUBSET Jobs, NEW to \in Health!Lists \cup {"none"}, Health!Move(S, to),
         paused' \in BOOLEAN, UNCHANGED <<row, readers>>
  PROVE  HealthInv'
<1>1. /\ jobs \in [Jobs -> Health!Lists \cup {"none"}] /\ moved \in [Readers -> SUBSET Jobs]
      /\ jobs' = [j \in Jobs |-> IF j \in S THEN to ELSE jobs[j]]
      /\ moved' = [r \in Readers |-> moved[r] \cup S]
  BY DEF HealthInv, HealthTyped, Health!TypeOK, Health!Move
<1>2. jobs' \in [Jobs -> Health!Lists \cup {"none"}] /\ moved' \in [Readers -> SUBSET Jobs]
  BY <1>1
<1>3. HealthTyped'
  BY <1>2 DEF HealthInv, HealthTyped, Health!TypeOK
<1>4. ASSUME NEW r \in Readers, readers[r] # Health!Idle, NEW l \in Health!Lists, Bounds(r, l)
      PROVE  Bounds(r, l)'
  <2> DEFINE A == Stayed(r, l)
             M == moved[r]
  <2>1. A \in SUBSET Jobs /\ M \in SUBSET Jobs /\ A \cap M = {}
    BY <1>1 DEF Stayed
  <2>2. Stayed(r, l)' = A \ S /\ moved'[r] = M \cup S
    BY <1>1 DEF Stayed
  <2>3. readers[r].replies[l] \in Nat
    BY <1>4, CountsAre DEF HealthInv, HealthTyped, Health!TypeOK
  <2>4. Health!Cardinality(A) <= readers[r].replies[l] /\ readers[r].replies[l] <= Health!Cardinality(A) + Health!Cardinality(M)
    BY <1>4 DEF Bounds
  <2> HIDE DEF A, M
  <2>5. A \ S \in SUBSET Jobs /\ A \cap S \in SUBSET Jobs /\ M \cup S \in SUBSET Jobs /\ M \cup (A \cap S) \in SUBSET Jobs
    BY <2>1
  <2>6. Health!Cardinality(A) = Health!Cardinality(A \ S) + Health!Cardinality(A \cap S)
    <3>1. A = (A \ S) \cup (A \cap S) /\ (A \ S) \cap (A \cap S) = {}
      OBVIOUS
    <3> QED
      BY <2>5, <3>1, CountsAre
  <2>7. Health!Cardinality(M \cup (A \cap S)) = Health!Cardinality(M) + Health!Cardinality(A \cap S)
    BY <2>1, <2>5, CountsAre
  <2>8. Health!Cardinality(M \cup (A \cap S)) <= Health!Cardinality(M \cup S)
    BY <2>5, CountsAre
  <2>9. /\ Health!Cardinality(A) \in Nat /\ Health!Cardinality(A \ S) \in Nat /\ Health!Cardinality(A \cap S) \in Nat
        /\ Health!Cardinality(M) \in Nat /\ Health!Cardinality(M \cup S) \in Nat
    BY <2>1, <2>5, CountsAre
  <2>10. Health!Cardinality(A \ S) <= readers[r].replies[l] /\ readers[r].replies[l] <= Health!Cardinality(A \ S) + Health!Cardinality(M \cup S)
    BY <2>3, <2>4, <2>6, <2>7, <2>8, <2>9
  <2> QED
    BY <2>2, <2>10 DEF Bounds
<1>5. \A r \in Readers : readers[r] # Health!Idle => Expected(readers[r].kind) \subseteq Health!Lists
  BY DEF Expected, Health!Lists
<1> QED
  BY <1>3, <1>4, <1>5 DEF HealthInv, Open

(* Jobs move between the lists, and the queue is paused and resumed.       *)
LEMMA BrokerMoves ==
  ASSUME Health!HealthAssumption, HealthInv, Health!PauseQueue \/ Health!ResumeQueue \/ \E j \in Jobs : Health!MoveJob(j)
  PROVE  HealthInv'
<1>0. paused \in BOOLEAN
  BY DEF HealthInv, HealthTyped, Health!TypeOK
<1>1. CASE Health!PauseQueue
  <2>1. Health!In("waiting") \in SUBSET Jobs /\ "paused" \in Health!Lists \cup {"none"}
    BY DEF Health!In, Health!Lists
  <2> QED
    BY <1>1, <2>1, JobsMove DEF Health!PauseQueue
<1>2. CASE Health!ResumeQueue
  <2>1. Health!In("paused") \in SUBSET Jobs /\ "waiting" \in Health!Lists \cup {"none"}
    BY DEF Health!In, Health!Lists
  <2> QED
    BY <1>2, <2>1, JobsMove DEF Health!ResumeQueue
<1>3. ASSUME NEW j \in Jobs, Health!MoveJob(j) PROVE HealthInv'
  <2>1. PICK m \in Health!Moves : Health!Move({j}, m[2])
    BY <1>3 DEF Health!MoveJob
  <2>2. m[2] \in Health!Lists \cup {"none"}
    BY DEF Health!Moves, Health!Waits, Health!Lists
  <2>3. UNCHANGED <<paused, row, readers>>
    BY <1>3 DEF Health!MoveJob
  <2>4. {j} \in SUBSET Jobs
    OBVIOUS
  <2> QED
    BY <1>0, <2>1, <2>2, <2>3, <2>4, JobsMove
<1> QED
  BY <1>1, <1>2, <1>3

(* What one reader does is nothing to another.                             *)
LEMMA ReadersMove ==
  ASSUME HealthInv, NEW r \in Readers, UNCHANGED <<jobs, paused>>, row' \in {"none", "yes", "no"},
         DOMAIN readers' = Readers, moved' \in [Readers -> SUBSET Jobs],
         \A q \in Readers \ {r} : readers'[q] = readers[q] /\ moved'[q] = moved[q],
         readers'[r] # Health!Idle =>
           /\ DOMAIN readers'[r] = ReadFields
           /\ readers'[r].kind \in DOMAIN Health!Requests /\ readers'[r].left \in Seq(Signals)
           /\ readers'[r].replies \in [Health!Lists -> 0..Health!Cardinality(Jobs)] /\ readers'[r].isPaused \in BOOLEAN
           /\ \A l \in Expected(readers'[r].kind) : Open(r, l)' \/ Bounds(r, l)'
  PROVE  HealthInv'
<1>1. ASSUME NEW q \in Readers, readers'[q] # Health!Idle
      PROVE  /\ DOMAIN readers'[q] = ReadFields
             /\ readers'[q].kind \in DOMAIN Health!Requests /\ readers'[q].left \in Seq(Signals)
             /\ readers'[q].replies \in [Health!Lists -> 0..Health!Cardinality(Jobs)] /\ readers'[q].isPaused \in BOOLEAN
             /\ \A l \in Expected(readers'[q].kind) : Open(q, l)' \/ Bounds(q, l)'
  <2>1. CASE q = r
    BY <1>1, <2>1
  <2>2. CASE q # r
    <3>1. readers'[q] = readers[q] /\ moved'[q] = moved[q]
      BY <2>2
    <3>2. \A l : (Open(q, l)' <=> Open(q, l)) /\ (Bounds(q, l)' <=> Bounds(q, l))
      BY <3>1 DEF Open, Bounds, Stayed
    <3>3. /\ DOMAIN readers[q] = ReadFields
          /\ readers[q].kind \in DOMAIN Health!Requests /\ readers[q].left \in Seq(Signals)
          /\ readers[q].replies \in [Health!Lists -> 0..Health!Cardinality(Jobs)] /\ readers[q].isPaused \in BOOLEAN
          /\ \A l \in Expected(readers[q].kind) : Open(q, l) \/ Bounds(q, l)
      BY <1>1, <3>1 DEF HealthInv, HealthTyped, Health!TypeOK, Signals
    <3> QED
      BY <3>1, <3>2, <3>3
  <2> QED
    BY <2>1, <2>2
<1>2. HealthTyped'
  BY <1>1 DEF HealthInv, HealthTyped, Health!TypeOK, Signals
<1> QED
  BY <1>1, <1>2 DEF HealthInv

(* A reader begins: nothing has moved yet.                                 *)
LEMMA ReaderAsks ==
  ASSUME Health!HealthAssumption, HealthInv, NEW r \in Readers, NEW kind \in DOMAIN Health!Requests, Health!Begin(r, kind)
  PROVE  HealthInv'
<1> DEFINE k == [kind |-> kind, left |-> Health!Requests[kind], replies |-> Health!NoReplies, isPaused |-> FALSE]
<1>1. /\ readers' = [readers EXCEPT ![r] = k] /\ moved' = [moved EXCEPT ![r] = {}]
      /\ UNCHANGED <<jobs, paused, row>>
  BY DEF Health!Begin
<1>2. /\ k.kind = kind /\ k.left = Health!Requests[kind] /\ k.replies = Health!NoReplies /\ k.isPaused = FALSE
      /\ DOMAIN k = ReadFields
  BY DEF ReadFields
<1> HIDE DEF k
<1>3. /\ DOMAIN readers = Readers /\ moved \in [Readers -> SUBSET Jobs] /\ row \in {"none", "yes", "no"}
  BY DEF HealthInv, HealthTyped, Health!TypeOK
<1>4. Health!NoReplies \in [Health!Lists -> 0..Health!Cardinality(Jobs)]
  BY CountsAre DEF Health!NoReplies
<1>5. /\ DOMAIN readers' = Readers /\ moved' \in [Readers -> SUBSET Jobs] /\ readers'[r] = k
      /\ \A q \in Readers \ {r} : readers'[q] = readers[q] /\ moved'[q] = moved[q]
  BY <1>1, <1>3
<1>6. \A l \in Expected(kind) : Open(r, l)'
  BY <1>2, <1>5, RequestsAre DEF Open
<1>7. Health!Requests[kind] \in Seq(Signals)
  BY RequestsAre
<1> QED
  BY <1>1, <1>2, <1>3, <1>4, <1>5, <1>6, <1>7, ReadersMove

(* A reader is done with, or its request fails.                            *)
LEMMA ReaderEnds ==
  ASSUME Health!HealthAssumption, HealthInv, NEW r \in Readers, readers' = [readers EXCEPT ![r] = Health!Idle],
         row' \in {"none", "yes", "no"}, UNCHANGED <<jobs, paused, moved>>
  PROVE  HealthInv'
<1>1. DOMAIN readers = Readers /\ moved' \in [Readers -> SUBSET Jobs]
  BY DEF HealthInv, HealthTyped, Health!TypeOK
<1>2. DOMAIN readers' = Readers /\ readers'[r] = Health!Idle /\ \A q \in Readers \ {r} : readers'[q] = readers[q]
  BY <1>1
<1> QED
  BY <1>1, <1>2, ReadersMove

(* A reader hears the length of one list, as it is now.                    *)
LEMMA ReaderHears ==
  ASSUME Health!HealthAssumption, HealthInv, NEW r \in Readers, NEW l \in Health!Lists \cup {"isPaused"}, Health!Reply(r, l)
  PROVE  HealthInv'
<1> DEFINE k == readers[r]
           n == IF l = "isPaused" THEN k.replies ELSE [k.replies EXCEPT ![l] = Health!Cardinality(Health!In(l))]
           p == IF l = "isPaused" THEN paused ELSE k.isPaused
<1>1. /\ k # Health!Idle /\ k.left # <<>> /\ Head(k.left) = l /\ UNCHANGED <<jobs, paused, row, moved>>
      /\ readers' = IF l = "isPaused"
                    THEN [readers EXCEPT ![r].left = Tail(@), ![r].isPaused = paused]
                    ELSE [readers EXCEPT ![r].left = Tail(@), ![r].replies[l] = Health!Cardinality(Health!In(l))]
  BY DEF Health!Reply, Health!Awaits
<1>2. /\ DOMAIN readers = Readers /\ DOMAIN k = ReadFields /\ k.kind \in DOMAIN Health!Requests
      /\ k.left \in Seq(Signals) /\ k.replies \in [Health!Lists -> 0..Health!Cardinality(Jobs)]
      /\ k.isPaused \in BOOLEAN /\ paused \in BOOLEAN /\ row \in {"none", "yes", "no"}
      /\ moved \in [Readers -> SUBSET Jobs] /\ jobs \in [Jobs -> Health!Lists \cup {"none"}]
      /\ \A m \in Expected(k.kind) : Open(r, m) \/ Bounds(r, m)
  BY <1>1 DEF HealthInv, HealthTyped, Health!TypeOK, Signals
<1>3. "isPaused" \notin Health!Lists
  BY DEF Health!Lists
<1> HIDE DEF k
<1>4. /\ l = "isPaused" => readers'[r] = [k EXCEPT !.left = Tail(@), !.isPaused = paused]
      /\ l # "isPaused" => readers'[r] = [k EXCEPT !.left = Tail(@), !.replies[l] = Health!Cardinality(Health!In(l))]
  BY <1>1, <1>2 DEF k
<1>5. /\ readers'[r].kind = k.kind /\ readers'[r].left = Tail(k.left) /\ readers'[r].replies = n
      /\ readers'[r].isPaused = p /\ DOMAIN readers'[r] = ReadFields
  BY <1>2, <1>4 DEF ReadFields
<1>6. DOMAIN readers' = Readers /\ \A q \in Readers \ {r} : readers'[q] = readers[q]
  BY <1>1, <1>2
<1>7. Health!In(l) \in SUBSET Jobs /\ Health!Cardinality(Health!In(l)) \in 0..Health!Cardinality(Jobs)
  <2>1. Health!In(l) \in SUBSET Jobs
    BY DEF Health!In
  <2> QED
    BY <2>1, CountsAre
<1>8. /\ n \in [Health!Lists -> 0..Health!Cardinality(Jobs)] /\ p \in BOOLEAN
      /\ \A m \in Health!Lists : m # l => n[m] = k.replies[m]
      /\ l \in Health!Lists => n[l] = Health!Cardinality(Health!In(l))
  BY <1>2, <1>3, <1>7
<1> HIDE DEF n, p
<1>9. /\ Tail(k.left) \in Seq(Signals) /\ Len(k.left) \in Nat /\ Len(k.left) >= 1 /\ k.left[1] = l
      /\ Len(Tail(k.left)) = Len(k.left) - 1
      /\ \A i \in 1..(Len(k.left) - 1) : Tail(k.left)[i] = k.left[i + 1]
  BY <1>1, <1>2, HeadTailProperties, EmptySeq, LenProperties
<1>10. ASSUME NEW m \in Expected(k.kind) PROVE Open(r, m)' \/ Bounds(r, m)'
  <2>0. m \in Health!Lists
    BY DEF Expected, Health!Lists
  <2>1. CASE Open(r, m) /\ m # l
    <3>1. PICK i \in 1..Len(k.left) : k.left[i] = m
      BY <2>1 DEF Open, k
    <3>2. i - 1 \in 1..(Len(k.left) - 1) /\ (i - 1) + 1 = i
      BY <1>9, <2>1, <3>1
    <3>3. Tail(k.left)[i - 1] = m
      BY <1>9, <3>1, <3>2
    <3> QED
      BY <1>5, <1>9, <3>2, <3>3 DEF Open
  <2>2. CASE m = l
    <3> DEFINE A == Stayed(r, l)
               B == Health!In(l) \cap moved[r]
    <3>1. A \in SUBSET Jobs /\ B \in SUBSET Jobs /\ A \cap B = {} /\ Health!In(l) = A \cup B
          /\ moved[r] \in SUBSET Jobs /\ B \subseteq moved[r]
      BY <1>2 DEF Stayed, Health!In
    <3>2. Stayed(r, l)' = A /\ moved'[r] = moved[r]
      BY <1>1 DEF Stayed
    <3> HIDE DEF A, B
    <3>3. Health!Cardinality(Health!In(l)) = Health!Cardinality(A) + Health!Cardinality(B) /\ Health!Cardinality(B) <= Health!Cardinality(moved[r])
          /\ Health!Cardinality(A) \in Nat /\ Health!Cardinality(B) \in Nat /\ Health!Cardinality(moved[r]) \in Nat
      BY <3>1, CountsAre
    <3>4. readers'[r].replies[l] = Health!Cardinality(Health!In(l))
      BY <1>5, <1>8, <2>0, <2>2
    <3> QED
      BY <2>2, <3>2, <3>3, <3>4 DEF Bounds
  <2>3. CASE Bounds(r, m) /\ m # l
    <3>1. Stayed(r, m)' = Stayed(r, m) /\ moved'[r] = moved[r] /\ readers'[r].replies[m] = k.replies[m]
      BY <1>1, <1>5, <1>8, <2>0, <2>3 DEF Stayed
    <3> QED
      BY <2>3, <3>1 DEF Bounds, k
  <2> QED
    BY <1>2, <2>1, <2>2, <2>3
<1> QED
  BY <1>1, <1>2, <1>5, <1>6, <1>8, <1>9, <1>10, ReadersMove

(* Nobody reads at first.                                                  *)
LEMMA HealthInitial == Health!HealthAssumption /\ Health!Init => HealthInv
<1> SUFFICES ASSUME Health!HealthAssumption, Health!Init PROVE HealthInv
  OBVIOUS
<1>1. DOMAIN readers = Readers /\ \A r \in Readers : readers[r] = Health!Idle
  BY DEF Health!Init
<1>2. /\ jobs \in [Jobs -> Health!Lists \cup {"none"}] /\ moved \in [Readers -> SUBSET Jobs]
      /\ paused \in BOOLEAN /\ row \in {"none", "yes", "no"}
  BY DEF Health!Init
<1> QED
  BY <1>1, <1>2 DEF HealthInv, HealthTyped, Health!TypeOK

(* Every step keeps what the readers know.                                 *)
LEMMA HealthStep == Health!HealthAssumption /\ HealthInv /\ [Health!Next]_(Health!vars) => HealthInv'
<1> SUFFICES ASSUME Health!HealthAssumption, HealthInv, [Health!Next]_(Health!vars) PROVE HealthInv'
  OBVIOUS
<1>0. row \in {"none", "yes", "no"} /\ DOMAIN readers = Readers /\ moved \in [Readers -> SUBSET Jobs]
  BY DEF HealthInv, HealthTyped, Health!TypeOK
<1>1. CASE Health!PauseQueue \/ Health!ResumeQueue \/ \E j \in Jobs : Health!MoveJob(j)
  BY <1>1, BrokerMoves
<1>2. ASSUME NEW r \in Readers, Health!CheckQueueHealth(r) \/ Health!IsHealthy(r) \/ Health!GetQueueStatus(r) \/ Health!GetQueueHealth(r)
      PROVE  HealthInv'
  <2>1. {"checkQueueHealth", "isHealthy", "getQueueStatus", "getQueueHealth"} \subseteq DOMAIN Health!Requests
    BY DEF Health!Requests
  <2> QED
    BY <1>2, <2>1, ReaderAsks
       DEF Health!CheckQueueHealth, Health!IsHealthy, Health!GetQueueStatus,
           Health!GetQueueHealth
<1>3. ASSUME NEW r \in Readers, Health!UpsertRow(r) \/ Health!Done(r) PROVE HealthInv'
  <2>1. /\ readers' = [readers EXCEPT ![r] = Health!Idle] /\ row' \in {"none", "yes", "no"}
        /\ UNCHANGED <<jobs, paused, moved>>
    BY <1>0, <1>3 DEF Health!UpsertRow, Health!Done
  <2> QED
    BY <2>1, ReaderEnds
<1>4. ASSUME NEW r \in Readers, NEW l \in Health!Lists \cup {"isPaused"}, Health!Reply(r, l) PROVE HealthInv'
  BY <1>4, ReaderHears
<1>5. CASE Health!CreateQueue \/ UNCHANGED Health!vars
  <2>1. row' \in {"none", "yes", "no"} /\ UNCHANGED <<jobs, paused, readers, moved>>
    BY <1>0, <1>5 DEF Health!CreateQueue, Health!vars
  <2>2. \A r, l : (Open(r, l)' <=> Open(r, l)) /\ (Bounds(r, l)' <=> Bounds(r, l))
    BY <2>1 DEF Open, Bounds, Stayed
  <2> QED
    BY <2>1, <2>2 DEF HealthInv, HealthTyped, Health!TypeOK
<1> QED
  BY <1>1, <1>2, <1>3, <1>4, <1>5 DEF Health!Next

(* The lists together hold what is in the queue.                           *)
LEMMA ListsAddUp ==
  ASSUME Health!HealthAssumption, HealthInv, NEW r \in Readers
  PROVE  Health!Cardinality({j \in Jobs \ moved[r] : jobs[j] # "none"})
           = Health!Cardinality(Stayed(r, "waiting")) + Health!Cardinality(Stayed(r, "active"))
             + Health!Cardinality(Stayed(r, "completed")) + Health!Cardinality(Stayed(r, "failed"))
             + Health!Cardinality(Stayed(r, "delayed")) + Health!Cardinality(Stayed(r, "paused"))
<1> DEFINE a == Stayed(r, "waiting")
           b == Stayed(r, "active")
           c == Stayed(r, "completed")
           d == Stayed(r, "failed")
           e == Stayed(r, "delayed")
           f == Stayed(r, "paused")
<1>1. jobs \in [Jobs -> Health!Lists \cup {"none"}]
  BY DEF HealthInv, HealthTyped, Health!TypeOK
<1>2. {j \in Jobs \ moved[r] : jobs[j] # "none"} = a \cup (b \cup (c \cup (d \cup (e \cup f))))
  BY <1>1 DEF Stayed, Health!Lists
<1>3. /\ a \in SUBSET Jobs /\ b \in SUBSET Jobs /\ c \in SUBSET Jobs
      /\ d \in SUBSET Jobs /\ e \in SUBSET Jobs /\ f \in SUBSET Jobs
  BY DEF Stayed
<1>4. /\ e \cap f = {} /\ d \cap (e \cup f) = {} /\ c \cap (d \cup (e \cup f)) = {}
      /\ b \cap (c \cup (d \cup (e \cup f))) = {} /\ a \cap (b \cup (c \cup (d \cup (e \cup f)))) = {}
  BY DEF Stayed
<1> HIDE DEF a, b, c, d, e, f
<1>5. /\ Health!Cardinality(a) \in Nat /\ Health!Cardinality(b) \in Nat /\ Health!Cardinality(c) \in Nat
      /\ Health!Cardinality(d) \in Nat /\ Health!Cardinality(e) \in Nat /\ Health!Cardinality(f) \in Nat
  BY <1>3, CountsAre
<1>6. Health!Cardinality(e \cup f) = Health!Cardinality(e) + Health!Cardinality(f)
  BY <1>3, <1>4, CountsAre
<1>7. Health!Cardinality(d \cup (e \cup f)) = Health!Cardinality(d) + Health!Cardinality(e \cup f)
  BY <1>3, <1>4, CountsAre
<1>8. Health!Cardinality(c \cup (d \cup (e \cup f))) = Health!Cardinality(c) + Health!Cardinality(d \cup (e \cup f))
  BY <1>3, <1>4, CountsAre
<1>9. Health!Cardinality(b \cup (c \cup (d \cup (e \cup f)))) = Health!Cardinality(b) + Health!Cardinality(c \cup (d \cup (e \cup f)))
  BY <1>3, <1>4, CountsAre
<1>10. Health!Cardinality(a \cup (b \cup (c \cup (d \cup (e \cup f)))))
         = Health!Cardinality(a) + Health!Cardinality(b \cup (c \cup (d \cup (e \cup f))))
  BY <1>3, <1>4, CountsAre
<1>11. Health!Cardinality(a \cup (b \cup (c \cup (d \cup (e \cup f)))))
         = Health!Cardinality(a) + Health!Cardinality(b) + Health!Cardinality(c) + Health!Cardinality(d) + Health!Cardinality(e) + Health!Cardinality(f)
  BY <1>5, <1>6, <1>7, <1>8, <1>9, <1>10
<1> QED
  BY <1>2, <1>11 DEF a, b, c, d, e, f

(* There are six lists.                                                    *)
LEMMA SixLists == Health!Cardinality(Health!Lists) = 6
<1>1. Health!Lists = {"waiting"} \cup {"active"} \cup {"completed"} \cup {"failed"} \cup {"delayed"} \cup {"paused"}
  BY DEF Health!Lists
<1>2. Health!IsFiniteSet({"waiting"}) /\ Health!Cardinality({"waiting"}) = 1
  BY HealthFinite, FS_Singleton
<1>3. /\ Health!IsFiniteSet({"waiting"} \cup {"active"}) /\ Health!Cardinality({"waiting"} \cup {"active"}) = 2
  BY <1>2, HealthFinite, FS_AddElement
<1>4. /\ Health!IsFiniteSet({"waiting"} \cup {"active"} \cup {"completed"})
      /\ Health!Cardinality({"waiting"} \cup {"active"} \cup {"completed"}) = 3
  BY <1>3, HealthFinite, FS_AddElement
<1>5. /\ Health!IsFiniteSet({"waiting"} \cup {"active"} \cup {"completed"} \cup {"failed"})
      /\ Health!Cardinality({"waiting"} \cup {"active"} \cup {"completed"} \cup {"failed"}) = 4
  BY <1>4, HealthFinite, FS_AddElement
<1>6. /\ Health!IsFiniteSet({"waiting"} \cup {"active"} \cup {"completed"} \cup {"failed"} \cup {"delayed"})
      /\ Health!Cardinality({"waiting"} \cup {"active"} \cup {"completed"} \cup {"failed"} \cup {"delayed"}) = 5
  BY <1>5, HealthFinite, FS_AddElement
<1>7. Health!Cardinality({"waiting"} \cup {"active"} \cup {"completed"} \cup {"failed"} \cup {"delayed"} \cup {"paused"}) = 6
  BY <1>6, HealthFinite, FS_AddElement
<1> QED
  BY <1>1, <1>7

(* What a finished reader can say of the queue.                            *)
LEMMA HealthHeld == Health!HealthAssumption /\ HealthInv => Health!TypeOK /\ Health!StatusAddsUp
<1> SUFFICES ASSUME Health!HealthAssumption, HealthInv PROVE Health!StatusAddsUp
  BY DEF HealthInv, HealthTyped
<1> SUFFICES ASSUME NEW r \in Readers, Health!Answered(r)
             PROVE  LET n == readers[r].replies
                        still == Health!Cardinality({j \in Jobs \ moved[r] : jobs[j] # "none"})
                        counted == [l \in Health!Lists |-> Health!Cardinality(Health!In(l))]
                    IN /\ readers[r].kind = "getQueueStatus" =>
                            /\ still <= Health!Total(n)
                            /\ Health!Total(n) <= still + Health!Cardinality(Health!Lists) * Health!Cardinality(moved[r])
                       /\ readers[r].kind # "getQueueStatus" /\ moved[r] = {} =>
                            ((Health!Errors(n) # {}) <=> (Health!CalculateHealthScore(counted) = "unhealthy"))
  BY DEF Health!StatusAddsUp
<1> DEFINE n == readers[r].replies
           still == Health!Cardinality({j \in Jobs \ moved[r] : jobs[j] # "none"})
           counted == [l \in Health!Lists |-> Health!Cardinality(Health!In(l))]
           slack == Health!Cardinality(moved[r])
<1>1. /\ readers[r] # Health!Idle /\ readers[r].left = <<>> /\ readers[r].kind \in DOMAIN Health!Requests
      /\ n \in [Health!Lists -> 0..Health!Cardinality(Jobs)] /\ moved[r] \in SUBSET Jobs
      /\ \A l \in Expected(readers[r].kind) : Open(r, l) \/ Bounds(r, l)
  BY DEF Health!Answered, HealthInv, HealthTyped, Health!TypeOK
<1>2. \A l \in Expected(readers[r].kind) : Bounds(r, l)
  <2>1. Len(<<>>) = 0
    OBVIOUS
  <2> QED
    BY <1>1, <2>1 DEF Open
<1>3. Health!Cardinality(Jobs) \in Nat /\ slack \in Nat
      /\ \A l : Stayed(r, l) \in SUBSET Jobs /\ Health!Cardinality(Stayed(r, l)) \in Nat
  <2>1. \A l : Stayed(r, l) \in SUBSET Jobs
    BY DEF Stayed
  <2> QED
    BY <1>1, <2>1, CountsAre
<1>4. \A l \in Health!Lists : n[l] \in Nat
  BY <1>1, <1>3
<1>5. ASSUME readers[r].kind = "getQueueStatus"
      PROVE  still <= Health!Total(n) /\ Health!Total(n) <= still + Health!Cardinality(Health!Lists) * slack
  <2>1. \A l \in Health!Lists : /\ Health!Cardinality(Stayed(r, l)) <= n[l]
                                /\ n[l] <= Health!Cardinality(Stayed(r, l)) + slack
    BY <1>2, <1>5 DEF Expected, Bounds
  <2>2. still = Health!Cardinality(Stayed(r, "waiting")) + Health!Cardinality(Stayed(r, "active"))
                + Health!Cardinality(Stayed(r, "completed")) + Health!Cardinality(Stayed(r, "failed"))
                + Health!Cardinality(Stayed(r, "delayed")) + Health!Cardinality(Stayed(r, "paused"))
    BY ListsAddUp
  <2> HIDE DEF n, slack, still
  <2>3. /\ "waiting" \in Health!Lists /\ "active" \in Health!Lists /\ "completed" \in Health!Lists
        /\ "failed" \in Health!Lists /\ "delayed" \in Health!Lists /\ "paused" \in Health!Lists
    BY DEF Health!Lists
  <2>4. still <= Health!Total(n) /\ Health!Total(n) <= still + 6 * slack
    BY <1>3, <1>4, <2>1, <2>2, <2>3 DEF Health!Total
  <2> QED
    BY <2>4, SixLists
<1>6. ASSUME moved[r] = {}
      PROVE  (Health!Errors(n) # {}) <=> (Health!CalculateHealthScore(counted) = "unhealthy")
  <2>1. {"waiting", "failed"} \subseteq Expected(readers[r].kind) /\ {"waiting", "failed"} \subseteq Health!Lists
    BY DEF Expected, Health!Lists
  <2>2. slack = 0
    BY <1>6, HealthFinite, FS_EmptySet
  <2>3. \A l \in {"waiting", "failed"} : n[l] = Health!Cardinality(Stayed(r, l))
    <3>1. \A l \in {"waiting", "failed"} : /\ Health!Cardinality(Stayed(r, l)) <= n[l]
                                           /\ n[l] <= Health!Cardinality(Stayed(r, l)) + slack
      BY <1>2, <2>1 DEF Bounds
    <3> HIDE DEF n, slack
    <3> QED
      BY <1>3, <1>4, <2>1, <2>2, <3>1
  <2>4. \A l : Stayed(r, l) = Health!In(l)
    BY <1>6 DEF Stayed, Health!In
  <2>5. counted["waiting"] = n["waiting"] /\ counted["failed"] = n["failed"]
    BY <2>1, <2>3, <2>4
  <2>6. /\ FailedLimit \in Nat /\ WaitingLimit \in Nat /\ n["waiting"] \in Nat /\ n["failed"] \in Nat
    BY <1>4, <2>1 DEF Health!HealthAssumption
  <2> HIDE DEF n, counted
  <2>7. (Health!Errors(n) # {}) <=> (n["failed"] > FailedLimit \/ n["waiting"] > WaitingLimit)
    BY <2>6 DEF Health!Errors
  <2>8. CASE n["failed"] > FailedLimit \/ n["waiting"] > WaitingLimit
    BY <2>5, <2>6, <2>7, <2>8 DEF Health!CalculateHealthScore
  <2>9. CASE ~(n["failed"] > FailedLimit \/ n["waiting"] > WaitingLimit)
    BY <2>5, <2>6, <2>7, <2>9 DEF Health!CalculateHealthScore
  <2> QED
    BY <2>8, <2>9
<1> QED
  BY <1>5, <1>6

-----------------------------------------------------------------------------
(***************************************************************************)
(* PagedLists.                                                             *)
(***************************************************************************)
(* What it counts is what the library counts.                               *)
LEMMA ListsFinite == \A S : Lists!Cardinality(S) = Cardinality(S) /\ (Lists!IsFiniteSet(S) <=> IsFiniteSet(S))
  BY DEF Lists!Cardinality, Cardinality, Lists!IsFiniteSet, IsFiniteSet

(* RemoveFirst of a member takes out the one place it is at.               *)
LEMMA RowRemoved ==
  ASSUME NEW S, NEW s \in Seq(S), NEW p \in 1..Len(s), \A i, j \in 1..Len(s) : s[i] = s[j] => i = j
  PROVE  Lists!RemoveFirst(s, s[p]) = SubSeq(s, 1, p - 1) \o SubSeq(s, p + 1, Len(s))
<1>1. {i \in 1..Len(s) : s[i] = s[p]} = {p}
  OBVIOUS
<1>2. p \in Nat /\ Len(s) \in Nat
  BY LenProperties
<1>3. Lists!Min({p}) = p
  BY <1>2 DEF Lists!Min
<1>4. Lists!RemoveFirst(s, s[p]) = Lists!RemoveAt(s, p)
  BY <1>1, <1>3 DEF Lists!RemoveFirst, Lists!SelectInSeq
<1> QED
  BY <1>4 DEF Lists!RemoveAt

RowsOnce == \A i, j \in 1..Len(table) : table[i] = table[j] => i = j
ReaderFields == {"on", "at", "page", "total", "seen", "due"}
ListTyped == Lists!TypeOK /\ RowsOnce /\ DOMAIN client = ReaderFields

(* Where a row is that the client still has to see: on the page that was   *)
(* read, or among those that the offset, or the next one, has not reached, *)
(* and then the number says so.                                            *)
ToCome(r) ==
  \/ /\ client.page = <<>> /\ r \in match
     /\ client.at <= Lists!Cardinality(Lists!Newer(r))
     /\ client.total # <<>> => Lists!Cardinality(Lists!Newer(r)) < client.total[1]
  \/ /\ client.page # <<>> /\ r \in client.page[1]
  \/ /\ client.page # <<>> /\ r \in match
     /\ client.at + ListPage <= Lists!Cardinality(Lists!Newer(r))
     /\ client.total # <<>> => client.at + ListPage < client.total[1]

ListInv ==
  /\ ListTyped
  /\ \A r \in client.due : r \in client.seen \/ (client.on /\ ToCome(r))

(* Places and ranks of the rows.                                           *)
LEMMA TableIs ==
  ASSUME Lists!ListAssumption, ListTyped
  PROVE  /\ table \in Seq(Rows) /\ Len(table) \in Nat /\ DOMAIN table = 1..Len(table)
         /\ \A i \in 1..Len(table) : table[i] \in Rows /\ Lists!Position(table[i]) = i
         /\ \A r \in Lists!ToSet(table) : Lists!Position(r) \in 1..Len(table) /\ table[Lists!Position(r)] = r
         /\ match \subseteq Lists!ToSet(table) /\ match \subseteq Rows
         /\ Lists!IsFiniteSet(match) /\ Lists!Cardinality(match) \in Nat
         /\ \A r : /\ Lists!Newer(r) \subseteq match /\ Lists!IsFiniteSet(Lists!Newer(r)) /\ Lists!Cardinality(Lists!Newer(r)) \in Nat
                   /\ Lists!Cardinality(Lists!Newer(r)) <= Lists!Cardinality(match)
                   /\ r \in match => Lists!Cardinality(Lists!Newer(r)) < Lists!Cardinality(match)
<1>1. table \in Seq(Rows) /\ match \subseteq Lists!ToSet(table) /\ \A i, j \in 1..Len(table) : table[i] = table[j] => i = j
  BY DEF ListTyped, Lists!TypeOK, RowsOnce
<1>2. Len(table) \in Nat /\ DOMAIN table = 1..Len(table) /\ \A i \in 1..Len(table) : table[i] \in Rows
  BY <1>1, LenProperties, ElementOfSeq
<1>3. \A i \in 1..Len(table) : Lists!Position(table[i]) = i
  BY <1>1, <1>2 DEF Lists!Position
<1>4. \A r \in Lists!ToSet(table) : \E i \in 1..Len(table) : table[i] = r
  BY <1>2 DEF Lists!ToSet
<1>5. \A r \in Lists!ToSet(table) : Lists!Position(r) \in 1..Len(table) /\ table[Lists!Position(r)] = r
  BY <1>3, <1>4
<1>6. match \subseteq Rows
  BY <1>1, <1>2, <1>4
<1>7. Lists!IsFiniteSet(match) /\ Lists!Cardinality(match) \in Nat
  BY <1>6, ListsFinite, FS_Subset, FS_CardinalityType DEF Lists!ListAssumption
<1>8. ASSUME NEW r
      PROVE  /\ Lists!Newer(r) \subseteq match /\ Lists!IsFiniteSet(Lists!Newer(r)) /\ Lists!Cardinality(Lists!Newer(r)) \in Nat
             /\ Lists!Cardinality(Lists!Newer(r)) <= Lists!Cardinality(match)
             /\ r \in match => Lists!Cardinality(Lists!Newer(r)) < Lists!Cardinality(match)
  <2>1. Lists!Newer(r) \subseteq match
    BY DEF Lists!Newer
  <2>2. Lists!IsFiniteSet(Lists!Newer(r)) /\ Lists!Cardinality(Lists!Newer(r)) <= Lists!Cardinality(match)
        /\ (Lists!Cardinality(match) = Lists!Cardinality(Lists!Newer(r)) => match = Lists!Newer(r))
    BY <1>7, <2>1, ListsFinite, FS_Subset
  <2>3. Lists!Cardinality(Lists!Newer(r)) \in Nat
    BY <2>2, ListsFinite, FS_CardinalityType
  <2>4. r \in match => match # Lists!Newer(r)
    <3>1. r \in match => ~(Lists!Position(r) < Lists!Position(r))
      BY <1>1, <1>2, <1>5
    <3> QED
      BY <3>1 DEF Lists!Newer
  <2> QED
    BY <1>7, <2>1, <2>2, <2>3, <2>4
<1> QED
  BY <1>1, <1>2, <1>3, <1>5, <1>6, <1>7, <1>8

(* The same after a step.                                                  *)
LEMMA TableWas ==
  ASSUME Lists!ListAssumption, ListTyped'
  PROVE  /\ \A i \in 1..Len(table') : Lists!Position(table[i])' = i
         /\ match' \subseteq Lists!ToSet(table') /\ match' \subseteq Rows
         /\ Lists!IsFiniteSet(match') /\ Lists!Cardinality(match') \in Nat
         /\ \A r : Lists!IsFiniteSet(Lists!Newer(r)') /\ Lists!Cardinality(Lists!Newer(r)') \in Nat
<1>1. table' \in Seq(Rows) /\ match' \subseteq Lists!ToSet(table') /\ \A i, j \in 1..Len(table') : table'[i] = table'[j] => i = j
  BY DEF ListTyped, Lists!TypeOK, RowsOnce
<1>2. Len(table') \in Nat /\ DOMAIN table' = 1..Len(table') /\ \A i \in 1..Len(table') : table'[i] \in Rows
  BY <1>1, LenProperties, ElementOfSeq
<1>3. \A i \in 1..Len(table') : Lists!Position(table[i])' = i
  BY <1>1, <1>2 DEF Lists!Position
<1>4. \A r \in Lists!ToSet(table') : r \in Rows
  BY <1>2 DEF Lists!ToSet
<1>5. Lists!IsFiniteSet(match') /\ Lists!Cardinality(match') \in Nat
  BY <1>1, <1>4, ListsFinite, FS_Subset, FS_CardinalityType DEF Lists!ListAssumption
<1>6. \A r : Lists!Newer(r)' \subseteq match'
  BY DEF Lists!Newer
<1>7. \A r : Lists!IsFiniteSet(Lists!Newer(r)') /\ Lists!Cardinality(Lists!Newer(r)') \in Nat
  BY <1>5, <1>6, ListsFinite, FS_Subset, FS_CardinalityType
<1> QED
  BY <1>1, <1>3, <1>4, <1>5, <1>7

(* The types of a client.                                                  *)
LEMMA ReaderIs ==
  ASSUME ListTyped
  PROVE  /\ client.on \in BOOLEAN /\ client.at \in Nat
         /\ client.page # <<>> => client.page[1] \subseteq Rows
         /\ client.total # <<>> => client.total[1] \in Nat
         /\ client.seen \subseteq Rows /\ client.due \subseteq Rows
<1>1. client.page # <<>> => client.page[1] \subseteq Rows
  BY DEF ListTyped, Lists!TypeOK
<1>2. client.total # <<>> => client.total[1] \in Nat
  <2>1. client.total \in Seq(Nat)
    BY DEF ListTyped, Lists!TypeOK
  <2>2. client.total # <<>> => Len(client.total) # 0 /\ Len(client.total) \in Nat
    BY <2>1, EmptySeq, LenProperties
  <2>3. \A i \in 1..Len(client.total) : client.total[i] \in Nat
    BY <2>1, ElementOfSeq
  <2> QED
    BY <2>2, <2>3
<1> QED
  BY <1>1, <1>2 DEF ListTyped, Lists!TypeOK

(* A table that changes takes no row away that the client has to see.      *)
LEMMA TableMoves ==
  ASSUME Lists!ListAssumption, ListInv, UNCHANGED list, table' \in Seq(Rows), match' \subseteq Lists!ToSet(table'), RowsOnce',
         DOMAIN client' = ReaderFields, client'.on = client.on, client'.at = client.at,
         client'.page = client.page, client'.total = client.total, client'.seen = client.seen,
         client'.due \subseteq client.due,
         \A r \in client'.due : r \in match => /\ r \in match' /\ Lists!Newer(r) \subseteq Lists!Newer(r)'
                                               /\ client.page = <<>> /\ client.total # <<>> => Lists!Newer(r)' = Lists!Newer(r)
  PROVE  ListInv'
<1>1. ListTyped'
  BY DEF ListInv, ListTyped, Lists!TypeOK
<1>2. \A r \in match : /\ Lists!Newer(r) \subseteq Lists!Newer(r)' => Lists!Cardinality(Lists!Newer(r)) <= Lists!Cardinality(Lists!Newer(r)')
  <2>1. \A r : Lists!IsFiniteSet(Lists!Newer(r)')
    BY <1>1, TableWas
  <2> QED
    BY <2>1, ListsFinite, FS_Subset
<1>3. \A r : Lists!Cardinality(Lists!Newer(r)) \in Nat /\ Lists!Cardinality(Lists!Newer(r)') \in Nat
  BY <1>1, TableIs, TableWas DEF ListInv
<1>4. ListPage \in Nat /\ client.at \in Nat
  BY ReaderIs DEF ListInv, Lists!ListAssumption
<1>5. ASSUME NEW r \in client'.due PROVE r \in client'.seen \/ (client'.on /\ ToCome(r)')
  <2>1. CASE r \in client.seen
    BY <2>1
  <2>2. CASE client.on /\ ToCome(r)
    <3>1. CASE client.page # <<>> /\ r \in client.page[1]
      BY <2>2, <3>1 DEF ToCome
    <3>2. CASE /\ client.page = <<>> /\ r \in match
               /\ client.at <= Lists!Cardinality(Lists!Newer(r))
               /\ client.total # <<>> => Lists!Cardinality(Lists!Newer(r)) < client.total[1]
      <4>1. r \in match' /\ Lists!Cardinality(Lists!Newer(r)) <= Lists!Cardinality(Lists!Newer(r)')
        BY <1>2, <1>5, <3>2
      <4>2. client.total # <<>> => Lists!Cardinality(Lists!Newer(r)') < client.total[1]
        BY <1>5, <3>2
      <4>3. client.at <= Lists!Cardinality(Lists!Newer(r)')
        BY <1>3, <1>4, <3>2, <4>1
      <4> QED
        BY <2>2, <3>2, <4>1, <4>2, <4>3 DEF ToCome
    <3>3. CASE /\ client.page # <<>> /\ r \in match
               /\ client.at + ListPage <= Lists!Cardinality(Lists!Newer(r))
               /\ client.total # <<>> => client.at + ListPage < client.total[1]
      <4>1. r \in match' /\ Lists!Cardinality(Lists!Newer(r)) <= Lists!Cardinality(Lists!Newer(r)')
        BY <1>2, <1>5, <3>3
      <4>2. client.at + ListPage <= Lists!Cardinality(Lists!Newer(r)')
        BY <1>3, <1>4, <3>3, <4>1
      <4> QED
        BY <2>2, <3>3, <4>1, <4>2 DEF ToCome
    <3> QED
      BY <2>2, <3>1, <3>2, <3>3 DEF ToCome
  <2> QED
    BY <1>5, <2>1, <2>2 DEF ListInv
<1> QED
  BY <1>1, <1>5 DEF ListInv

(* What a row that begins to match does to the client.                     *)
LEMMA RowArrives ==
  ASSUME ListInv, Lists!Arrives
  PROVE  /\ DOMAIN client' = ReaderFields /\ client'.on = client.on /\ client'.at = client.at
         /\ client'.page = client.page /\ client'.total = client.total /\ client'.seen = client.seen
         /\ client'.due \subseteq client.due
         /\ client.page = <<>> /\ client.total # <<>> => client'.due = {}
<1>1. DOMAIN client = ReaderFields
  BY DEF ListInv, ListTyped
<1> QED
  BY <1>1 DEF Lists!Arrives, ReaderFields

(* What a row that ceases to match does to the client.                     *)
LEMMA RowLeaves ==
  ASSUME ListInv, NEW r, Lists!Leaves(r)
  PROVE  /\ DOMAIN client' = ReaderFields /\ client'.on = client.on /\ client'.at = client.at
         /\ client'.page = client.page /\ client'.total = client.total /\ client'.seen = client.seen
         /\ client'.due \subseteq client.due
         /\ \A q \in client'.due : Lists!Position(q) < Lists!Position(r)
<1>1. DOMAIN client = ReaderFields
  BY DEF ListInv, ListTyped
<1> QED
  BY <1>1 DEF Lists!Leaves, ReaderFields

(* A new row comes first in the list.                                      *)
LEMMA RowCreated ==
  ASSUME Lists!ListAssumption, ListInv, NEW r \in Rows, Lists!Create(r)
  PROVE  ListInv'
<1> DEFINE N == Len(table)
<1>1. /\ table \in Seq(Rows) /\ N \in Nat /\ DOMAIN table = 1..N
      /\ \A i \in 1..N : table[i] \in Rows /\ Lists!Position(table[i]) = i
      /\ \A q \in Lists!ToSet(table) : Lists!Position(q) \in 1..N /\ table[Lists!Position(q)] = q
      /\ match \subseteq Lists!ToSet(table)
  BY TableIs DEF ListInv
<1>2. RowsOnce /\ DOMAIN client = ReaderFields
  BY DEF ListInv, ListTyped
<1>3. /\ <<r>> \in Seq(Rows) /\ Len(<<r>>) = 1 /\ <<r>>[1] = r
  OBVIOUS
<1>4. /\ table' \in Seq(Rows) /\ Len(table') = N + 1 /\ table'[1] = r
      /\ \A i \in 1..N : table'[i + 1] = table[i]
  <2>1. table' = <<r>> \o table
    BY DEF Lists!Create
  <2>2. /\ table' \in Seq(Rows) /\ Len(table') = 1 + N
        /\ \A i \in 1..(1 + N) : table'[i] = IF i <= 1 THEN <<r>>[i] ELSE table[i - 1]
    BY <1>1, <1>3, <2>1, ConcatProperties
  <2>3. \A i \in 1..N : i + 1 \in 1..(1 + N) /\ ~(i + 1 <= 1) /\ (i + 1) - 1 = i
    BY <1>1
  <2>4. 1 \in 1..(1 + N) /\ 1 <= 1
    BY <1>1
  <2>5. \A i \in 1..N : table'[i + 1] = table[i]
    BY <2>2, <2>3
  <2>6. table'[1] = r
    BY <1>3, <2>2, <2>4
  <2> QED
    BY <1>1, <2>2, <2>5, <2>6
<1>5. \A i \in 1..N : table[i] # r
  BY <1>1 DEF Lists!Create, Lists!ToSet
<1>6. \A i \in 1..(N + 1) : i = 1 \/ (i - 1 \in 1..N /\ (i - 1) + 1 = i)
  BY <1>1
<1>7. RowsOnce'
  <2>1. ASSUME NEW i \in 1..(N + 1), NEW j \in 1..(N + 1), table'[i] = table'[j] PROVE i = j
    <3>1. CASE i = 1 /\ j = 1
      BY <3>1
    <3>2. CASE i = 1 /\ j # 1
      <4>1. table'[j] = table[j - 1] /\ j - 1 \in 1..N
        BY <1>4, <1>6, <3>2
      <4> QED
        BY <1>4, <1>5, <2>1, <3>2, <4>1
    <3>3. CASE i # 1 /\ j = 1
      <4>1. table'[i] = table[i - 1] /\ i - 1 \in 1..N
        BY <1>4, <1>6, <3>3
      <4> QED
        BY <1>4, <1>5, <2>1, <3>3, <4>1
    <3>4. CASE i # 1 /\ j # 1
      <4>1. table'[i] = table[i - 1] /\ i - 1 \in 1..N /\ table'[j] = table[j - 1] /\ j - 1 \in 1..N
        BY <1>4, <1>6, <3>4
      <4>2. i - 1 = j - 1
        BY <1>2, <2>1, <4>1 DEF RowsOnce
      <4> QED
        BY <1>1, <4>2
    <3> QED
      BY <3>1, <3>2, <3>3, <3>4
  <2> QED
    BY <1>4, <2>1 DEF RowsOnce
<1>8. Lists!ToSet(table') = Lists!ToSet(table) \cup {r}
  <2>1. DOMAIN table' = 1..(N + 1)
    BY <1>1, <1>4, LenProperties
  <2>2. \A q : q \in Lists!ToSet(table') <=> \E i \in 1..(N + 1) : table'[i] = q
    BY <2>1 DEF Lists!ToSet
  <2>3. \A q : q \in Lists!ToSet(table) <=> \E i \in 1..N : table[i] = q
    BY <1>1 DEF Lists!ToSet
  <2>4. ASSUME NEW q \in Lists!ToSet(table') PROVE q \in Lists!ToSet(table) \/ q = r
    <3>1. PICK i \in 1..(N + 1) : table'[i] = q
      BY <2>2
    <3>2. CASE i = 1
      BY <1>4, <3>1, <3>2
    <3>3. CASE i # 1
      <4>1. i - 1 \in 1..N /\ (i - 1) + 1 = i
        BY <1>6, <3>3
      <4>2. table[i - 1] = q
        BY <1>4, <3>1, <4>1
      <4> QED
        BY <2>3, <4>1, <4>2
    <3> QED
      BY <3>2, <3>3
  <2>5. 1 \in 1..(N + 1) /\ \A i \in 1..N : i + 1 \in 1..(N + 1)
    BY <1>1
  <2>6. \A q \in Lists!ToSet(table) \cup {r} : q \in Lists!ToSet(table')
    BY <1>4, <2>2, <2>3, <2>5
  <2> QED
    BY <2>4, <2>6
<1>9. \A i \in 1..(N + 1) : Lists!Position(table[i])' = i
  <2>1. Len(table') \in Nat /\ DOMAIN table' = 1..(N + 1)
    BY <1>1, <1>4, LenProperties
  <2>2. \A i, j \in 1..(N + 1) : table'[i] = table'[j] => i = j
    BY <1>4, <1>7 DEF RowsOnce
  <2> QED
    BY <2>1, <2>2 DEF Lists!Position
<1>10. Lists!Position(r)' = 1 /\ \A q \in Lists!ToSet(table) : Lists!Position(q)' = Lists!Position(q) + 1
  <2>1. 1 \in 1..(N + 1) /\ \A i \in 1..N : i + 1 \in 1..(N + 1)
    BY <1>1
  <2>2. Lists!Position(r)' = 1
    BY <1>4, <1>9, <2>1
  <2>3. ASSUME NEW q \in Lists!ToSet(table) PROVE Lists!Position(q)' = Lists!Position(q) + 1
    <3>1. Lists!Position(q) \in 1..N /\ table[Lists!Position(q)] = q /\ table'[Lists!Position(q) + 1] = q
      BY <1>1, <1>4
    <3> QED
      BY <1>9, <2>1, <3>1
  <2> QED
    BY <2>2, <2>3
<1>11. UNCHANGED list /\ ((match' = match /\ client' = client) \/ (match' = match \cup {r} /\ Lists!Arrives))
  BY DEF Lists!Create
<1>12. r \notin Lists!ToSet(table)
  BY DEF Lists!Create
<1>13. \A q, s \in match : Lists!Position(q)' < Lists!Position(s)' <=> Lists!Position(q) < Lists!Position(s)
  BY <1>1, <1>10
<1>14. \A q \in match : Lists!Newer(q) \subseteq Lists!Newer(q)' /\ (match' = match => Lists!Newer(q)' = Lists!Newer(q))
  <2>1. match \subseteq match'
    BY <1>11
  <2> QED
    BY <1>13, <2>1 DEF Lists!Newer
<1>15. match' \subseteq Lists!ToSet(table')
  BY <1>1, <1>8, <1>11
<1>16. CASE match' = match /\ client' = client
  BY <1>2, <1>4, <1>7, <1>11, <1>14, <1>15, <1>16, TableMoves
<1>17. CASE match' = match \cup {r} /\ Lists!Arrives
  <2>1. /\ DOMAIN client' = ReaderFields /\ client'.on = client.on /\ client'.at = client.at
        /\ client'.page = client.page /\ client'.total = client.total /\ client'.seen = client.seen
        /\ client'.due \subseteq client.due
        /\ client.page = <<>> /\ client.total # <<>> => client'.due = {}
    BY <1>17, RowArrives
  <2> QED
    BY <1>4, <1>7, <1>11, <1>14, <1>15, <1>17, <2>1, TableMoves
<1> QED
  BY <1>11, <1>16, <1>17

(* An updated row begins or ceases to match, in its place.                 *)
LEMMA RowUpdated ==
  ASSUME Lists!ListAssumption, ListInv, NEW r \in Rows, Lists!Update(r)
  PROVE  ListInv'
<1>1. /\ table \in Seq(Rows) /\ Len(table) \in Nat
      /\ \A q \in Lists!ToSet(table) : Lists!Position(q) \in 1..Len(table)
      /\ match \subseteq Lists!ToSet(table)
  BY TableIs DEF ListInv
<1>2. RowsOnce' /\ UNCHANGED <<list, table>> /\ r \in Lists!ToSet(table)
  BY DEF ListInv, ListTyped, RowsOnce, Lists!Update
<1>3. \A q : Lists!Position(q)' = Lists!Position(q)
  BY <1>2 DEF Lists!Position
<1>4. CASE r \in match
  <2>1. match' = match \ {r} /\ Lists!Leaves(r)
    BY <1>4 DEF Lists!Update
  <2>2. /\ DOMAIN client' = ReaderFields /\ client'.on = client.on /\ client'.at = client.at
        /\ client'.page = client.page /\ client'.total = client.total /\ client'.seen = client.seen
        /\ client'.due \subseteq client.due
        /\ \A q \in client'.due : Lists!Position(q) < Lists!Position(r)
    BY <2>1, RowLeaves
  <2>3. ASSUME NEW q \in client'.due, q \in match PROVE q \in match' /\ Lists!Newer(q)' = Lists!Newer(q)
    <3>1. Lists!Position(q) < Lists!Position(r) /\ Lists!Position(q) \in Nat /\ Lists!Position(r) \in Nat
      BY <1>1, <1>2, <2>2, <2>3
    <3>2. q # r /\ ~(Lists!Position(r) < Lists!Position(q))
      BY <3>1
    <3> QED
      BY <1>3, <2>1, <2>3, <3>2 DEF Lists!Newer
  <2>4. match' \subseteq Lists!ToSet(table')
    BY <1>1, <1>2, <2>1
  <2> QED
    BY <1>1, <1>2, <2>2, <2>3, <2>4, TableMoves
<1>5. CASE r \notin match
  <2>1. match' = match \cup {r} /\ Lists!Arrives
    BY <1>5 DEF Lists!Update
  <2>2. /\ DOMAIN client' = ReaderFields /\ client'.on = client.on /\ client'.at = client.at
        /\ client'.page = client.page /\ client'.total = client.total /\ client'.seen = client.seen
        /\ client'.due \subseteq client.due
        /\ client.page = <<>> /\ client.total # <<>> => client'.due = {}
    BY <2>1, RowArrives
  <2>3. \A q : Lists!Newer(q) \subseteq Lists!Newer(q)'
    BY <1>3, <2>1 DEF Lists!Newer
  <2>4. match' \subseteq Lists!ToSet(table')
    BY <1>1, <1>2, <2>1
  <2> QED
    BY <1>1, <1>2, <2>1, <2>2, <2>3, <2>4, TableMoves
<1> QED
  BY <1>4, <1>5

(* A row is deleted.                                                       *)
LEMMA RowCleaned ==
  ASSUME Lists!ListAssumption, ListInv, NEW r \in Rows, Lists!Cleanup(r)
  PROVE  ListInv'
<1> DEFINE N == Len(table)
           p == Lists!Position(r)
           Now(i) == IF i < p THEN i ELSE i - 1
<1>1. /\ table \in Seq(Rows) /\ N \in Nat /\ DOMAIN table = 1..N
      /\ \A i \in 1..N : table[i] \in Rows /\ Lists!Position(table[i]) = i
      /\ \A q \in Lists!ToSet(table) : Lists!Position(q) \in 1..N /\ table[Lists!Position(q)] = q
      /\ match \subseteq Lists!ToSet(table)
      /\ \A i, j \in 1..N : table[i] = table[j] => i = j
  BY TableIs DEF ListInv, ListTyped, RowsOnce
<1>2. r \in Lists!ToSet(table) /\ table' = Lists!RemoveFirst(table, r) /\ match' = match \ {r} /\ Lists!Leaves(r) /\ UNCHANGED list
  BY DEF Lists!Cleanup
<1>3. p \in 1..N /\ table[p] = r
  BY <1>1, <1>2
<1> HIDE DEF p
<1>4. table' = SubSeq(table, 1, p - 1) \o SubSeq(table, p + 1, N)
  BY <1>1, <1>2, <1>3, RowRemoved
<1>5. /\ table' \in Seq(Rows) /\ Len(table') = N - 1
      /\ \A i \in 1..(N - 1) : table'[i] = IF i < p THEN table[i] ELSE table[i + 1]
  <2>1. table \in Seq(Rows) /\ p \in 1..Len(table)
    BY <1>1, <1>3
  <2>2. LET t == SubSeq(table, 1, p - 1) \o SubSeq(table, p + 1, Len(table))
        IN /\ t \in Seq(Rows) /\ Len(t) = Len(table) - 1
           /\ \A i \in 1..(Len(table) - 1) : t[i] = IF i < p THEN table[i] ELSE table[i + 1]
    BY <2>1, Removed
  <2> QED
    BY <1>4, <2>2
<1>6. RowsOnce'
  BY <1>1, <1>3, <1>5 DEF RowsOnce
<1>7. \A i \in 1..(N - 1) : Lists!Position(table[i])' = i
  <2>1. Len(table') \in Nat /\ DOMAIN table' = 1..(N - 1)
    BY <1>1, <1>5, LenProperties
  <2>2. \A i, j \in 1..(N - 1) : table'[i] = table'[j] => i = j
    BY <1>5, <1>6 DEF RowsOnce
  <2> QED
    BY <2>1, <2>2 DEF Lists!Position
<1>8. ASSUME NEW i \in 1..N, i # p PROVE Now(i) \in 1..(N - 1) /\ table'[Now(i)] = table[i]
  <2>1. CASE i < p
    BY <1>1, <1>3, <1>5, <2>1
  <2>2. CASE ~(i < p)
    <3>1. i - 1 \in 1..(N - 1) /\ ~(i - 1 < p) /\ (i - 1) + 1 = i
      BY <1>1, <1>3, <1>8, <2>2
    <3>2. table'[i - 1] = table[i]
      BY <1>5, <3>1
    <3> QED
      BY <2>2, <3>1, <3>2
  <2> QED
    BY <2>1, <2>2
<1>9. ASSUME NEW q \in Lists!ToSet(table), q # r PROVE Lists!Position(q)' = Now(Lists!Position(q)) /\ Lists!Position(q) # p /\ q \in Lists!ToSet(table')
  <2>1. Lists!Position(q) \in 1..N /\ table[Lists!Position(q)] = q /\ Lists!Position(q) # p
    BY <1>1, <1>3, <1>9
  <2>2. Now(Lists!Position(q)) \in 1..(N - 1) /\ table'[Now(Lists!Position(q))] = q
    BY <1>8, <2>1
  <2>3. DOMAIN table' = 1..(N - 1)
    BY <1>1, <1>5, LenProperties
  <2> HIDE DEF Now
  <2> QED
    BY <1>7, <2>1, <2>2, <2>3 DEF Lists!ToSet
<1>10. /\ DOMAIN client' = ReaderFields /\ client'.on = client.on /\ client'.at = client.at
       /\ client'.page = client.page /\ client'.total = client.total /\ client'.seen = client.seen
       /\ client'.due \subseteq client.due
       /\ \A q \in client'.due : Lists!Position(q) < p
  BY <1>2, RowLeaves DEF p
<1>11. match' \subseteq Lists!ToSet(table')
  BY <1>1, <1>2, <1>9
<1>12. ASSUME NEW q \in client'.due, q \in match PROVE q \in match' /\ Lists!Newer(q)' = Lists!Newer(q)
  <2>1. Lists!Position(q) < p /\ Lists!Position(q) \in 1..N /\ p \in Nat /\ q \in Lists!ToSet(table)
    BY <1>1, <1>3, <1>10, <1>12
  <2>2. q # r
    BY <2>1 DEF p
  <2>3. Lists!Position(q)' = Lists!Position(q)
    BY <1>9, <2>1, <2>2
  <2>4. ~(p < Lists!Position(q))
    BY <2>1
  <2>5. ASSUME NEW s \in match, s # r PROVE Lists!Position(s)' < Lists!Position(q) <=> Lists!Position(s) < Lists!Position(q)
    <3>1. Lists!Position(s)' = Now(Lists!Position(s)) /\ Lists!Position(s) # p /\ Lists!Position(s) \in 1..N
      BY <1>1, <1>9, <2>5
    <3> QED
      BY <2>1, <3>1
  <2> QED
    BY <1>2, <1>12, <2>2, <2>3, <2>4, <2>5 DEF Lists!Newer, p
<1> QED
  BY <1>2, <1>5, <1>6, <1>10, <1>11, <1>12, TableMoves

(* The client's own steps.                                                 *)
LEMMA ReaderMoves ==
  ASSUME Lists!ListAssumption, ListInv, Lists!Ask \/ Lists!Statement \/ Lists!Page, UNCHANGED <<list, table, match>>
  PROVE  ListInv'
<1>1. /\ ListTyped /\ DOMAIN client = ReaderFields /\ RowsOnce'
      /\ match \subseteq Rows /\ Lists!Cardinality(match) \in Nat
  BY TableIs DEF ListInv, ListTyped, RowsOnce
<1>2. \A r : /\ Lists!Cardinality(Lists!Newer(r)) \in Nat /\ Lists!Newer(r)' = Lists!Newer(r)
             /\ r \in match => Lists!Cardinality(Lists!Newer(r)) < Lists!Cardinality(match)
  <2>1. \A r : Lists!Newer(r)' = Lists!Newer(r)
    BY DEF Lists!Newer, Lists!Position
  <2> QED
    BY <1>1, <2>1, TableIs
<1>3. ListPage \in Nat /\ client.at \in Nat /\ Lists!FindMany \subseteq match
      /\ (client.total # <<>> => client.total[1] \in Nat)
  BY <1>1, ReaderIs DEF Lists!FindMany, Lists!ListAssumption
<1>4. CASE Lists!Ask
  <2>1. client' = [on |-> TRUE, at |-> 0, page |-> <<>>, total |-> <<>>, seen |-> {}, due |-> match]
    BY <1>4 DEF Lists!Ask
  <2>2. /\ client'.on = TRUE /\ client'.at = 0 /\ client'.page = <<>> /\ client'.total = <<>>
        /\ client'.seen = {} /\ client'.due = match /\ DOMAIN client' = ReaderFields
    BY <2>1 DEF ReaderFields
  <2>3. ListTyped'
    <3>1. <<>> \in Seq(Nat) /\ Len(<<>>) <= 1 /\ 0 \in Nat
      OBVIOUS
    <3> QED
      BY <1>1, <2>2, <3>1 DEF ListTyped, Lists!TypeOK
  <2>4. \A r \in match : ToCome(r)'
    BY <1>2, <2>2 DEF ToCome
  <2> QED
    BY <2>2, <2>3, <2>4 DEF ListInv
<1>5. CASE client.on /\ client.page = <<>> /\ client' = [client EXCEPT !.page = <<Lists!FindMany>>]
  <2>1. /\ client'.on = TRUE /\ client'.at = client.at /\ client'.page = <<Lists!FindMany>> /\ client'.total = client.total
        /\ client'.seen = client.seen /\ client'.due = client.due /\ DOMAIN client' = ReaderFields
    BY <1>1, <1>5 DEF ReaderFields, ListTyped, Lists!TypeOK
  <2>2. ListTyped'
    BY <1>1, <1>3, <2>1 DEF ListTyped, Lists!TypeOK
  <2>3. ASSUME NEW r \in client.due, r \notin client.seen PROVE ToCome(r)'
    <3>1. /\ r \in match /\ client.at <= Lists!Cardinality(Lists!Newer(r))
          /\ client.total # <<>> => Lists!Cardinality(Lists!Newer(r)) < client.total[1]
      BY <1>5, <2>3 DEF ListInv, ToCome
    <3>2. CASE Lists!Cardinality(Lists!Newer(r)) < client.at + ListPage
      <4>1. r \in Lists!FindMany
        BY <3>1, <3>2 DEF Lists!FindMany
      <4> QED
        BY <2>1, <4>1 DEF ToCome
    <3>3. CASE client.at + ListPage <= Lists!Cardinality(Lists!Newer(r))
      BY <1>2, <1>3, <2>1, <3>1, <3>3 DEF ToCome
    <3> QED
      BY <1>2, <1>3, <3>2, <3>3
  <2> QED
    BY <2>1, <2>2, <2>3 DEF ListInv
<1>6. CASE client.on /\ client.total = <<>> /\ client' = [client EXCEPT !.total = <<Lists!Cardinality(match)>>]
  <2>1. /\ client'.on = TRUE /\ client'.at = client.at /\ client'.page = client.page /\ client'.total = <<Lists!Cardinality(match)>>
        /\ client'.seen = client.seen /\ client'.due = client.due /\ DOMAIN client' = ReaderFields
    BY <1>1, <1>6 DEF ReaderFields, ListTyped, Lists!TypeOK
  <2>2. ListTyped'
    <3>1. <<Lists!Cardinality(match)>> \in Seq(Nat) /\ Len(<<Lists!Cardinality(match)>>) <= 1
      BY <1>1
    <3> QED
      BY <1>1, <2>1, <3>1 DEF ListTyped, Lists!TypeOK
  <2>3. ASSUME NEW r \in client.due, r \notin client.seen PROVE ToCome(r)'
    <3>1. ToCome(r)
      BY <1>6, <2>3 DEF ListInv
    <3> QED
      BY <1>2, <1>3, <1>1, <2>1, <3>1 DEF ToCome
  <2> QED
    BY <2>1, <2>2, <2>3 DEF ListInv
<1>7. CASE Lists!Page
  <2> DEFINE more == client.at + ListPage < client.total[1]
  <2>1. client.on /\ client.page # <<>> /\ client.total # <<>>
        /\ client' = [client EXCEPT !.seen = client.seen \cup client.page[1], !.on = more,
                                    !.at = IF more THEN client.at + ListPage ELSE 0,
                                    !.page = <<>>, !.total = <<>>]
    BY <1>7 DEF Lists!Page
  <2>2. /\ client'.on = more /\ client'.at = (IF more THEN client.at + ListPage ELSE 0)
        /\ client'.page = <<>> /\ client'.total = <<>>
        /\ client'.seen = client.seen \cup client.page[1] /\ client'.due = client.due /\ DOMAIN client' = ReaderFields
    BY <1>1, <2>1 DEF ReaderFields
  <2>3. more \in BOOLEAN /\ (IF more THEN client.at + ListPage ELSE 0) \in Nat
    BY <1>3
  <2>4. client.page[1] \subseteq Rows /\ client.seen \subseteq Rows
    BY <1>1, <2>1, ReaderIs
  <2>5. ListTyped'
    BY <1>1, <2>2, <2>3, <2>4 DEF ListTyped, Lists!TypeOK
  <2>6. ASSUME NEW r \in client.due, r \notin client.seen, r \notin client.page[1] PROVE more /\ ToCome(r)'
    <3>1. /\ r \in match /\ client.at + ListPage <= Lists!Cardinality(Lists!Newer(r))
          /\ client.at + ListPage < client.total[1]
      BY <2>1, <2>6 DEF ListInv, ToCome
    <3> QED
      BY <1>2, <2>2, <3>1 DEF ToCome
  <2> HIDE DEF more
  <2> QED
    BY <2>2, <2>5, <2>6 DEF ListInv
<1> QED
  BY <1>4, <1>5, <1>6, <1>7 DEF Lists!Statement

(* Nobody reads at first.                                                  *)
LEMMA ListInitial == Lists!ListAssumption /\ Lists!Init => ListInv
<1> SUFFICES ASSUME Lists!ListAssumption, Lists!Init PROVE ListInv
  OBVIOUS
<1>1. table \in Seq(Rows) /\ Len(table) = 0 /\ match = {} /\ list \in Lists!Lists
  BY DEF Lists!Init
<1>2. /\ client.on = FALSE /\ client.at = 0 /\ client.page = <<>> /\ client.total = <<>>
      /\ client.seen = {} /\ client.due = {} /\ DOMAIN client = ReaderFields
  BY DEF Lists!Init, ReaderFields
<1>3. client.total \in Seq(Nat) /\ Len(client.total) <= 1
  BY <1>2
<1> QED
  <2>1. RowsOnce /\ match \subseteq Lists!ToSet(table) /\ 0 \in Nat
    BY <1>1 DEF RowsOnce
  <2>2. Lists!TypeOK
    BY <1>1, <1>2, <1>3, <2>1 DEF Lists!TypeOK
  <2> QED
    BY <1>2, <2>1, <2>2 DEF ListInv, ListTyped

(* Every step keeps what is to come for the client.                        *)
LEMMA ListStep == Lists!ListAssumption /\ ListInv /\ [Lists!Next]_(Lists!vars) => ListInv'
<1> SUFFICES ASSUME Lists!ListAssumption, ListInv, [Lists!Next]_(Lists!vars) PROVE ListInv'
  OBVIOUS
<1>1. ASSUME NEW r \in Rows, Lists!Create(r) \/ Lists!Update(r) \/ Lists!Cleanup(r) PROVE ListInv'
  BY <1>1, RowCreated, RowUpdated, RowCleaned
<1>2. ASSUME NEW l, Lists!List(l) PROVE ListInv'
  BY <1>2, ReaderMoves DEF Lists!List
<1>3. CASE UNCHANGED Lists!vars
  <2>1. UNCHANGED <<list, table, match, client>>
    BY <1>3 DEF Lists!vars
  <2>2. \A r : Lists!Newer(r)' = Lists!Newer(r)
    BY <2>1 DEF Lists!Newer, Lists!Position
  <2> QED
    BY <2>1, <2>2 DEF ListInv, ListTyped, Lists!TypeOK, RowsOnce, ToCome
<1> QED
  BY <1>1, <1>2, <1>3
     DEF Lists!Next, Lists!ListWorkflows, Lists!ListTemplates, Lists!ListExecutions,
         Lists!ListScheduledJobs, Lists!ListCustomers, Lists!ListInvoices, Lists!GetAuditLogs,
         Lists!GetRevokedTokens

-----------------------------------------------------------------------------
(***************************************************************************)
(* The composition.  A step of ServicesSpec is a step of the component     *)
(* that acts, or it changes nothing of it: so the component's inductive    *)
(* invariant holds whenever it is the one that acts.                       *)
(***************************************************************************)
KeycloakProofs == INSTANCE KeycloakAdmin_proofs WITH calls <- admins, made <- admined, clean <- apart,
                                                     MaxCalls <- AdminCalls, MaxTime <- AdminTime
TemplateProofs == INSTANCE WorkflowTemplates_proofs WITH Ids <- StepIdentifiers, StartId <- "start",
                                                         Definitions <- Defs

PaymentInv == PayTyped /\ DefaultsInv /\ Payment!WebhookAccounted /\ StepInv

(* The component that acts stays the one that acts.                        *)
LEMMA ServiceIs == [ServicesNext]_ServicesVars => service' = service
  BY DEF ServicesNext, ServicesVars, Acts

(* PaymentBilling.                                                         *)
LEMMA PaymentHolds == ServicesSpec => [](service = "payment" => PaymentInv)
<1>1. ServicesInit => (service = "payment" => PaymentInv)
  BY ServicesAssumption, PayTypedInit, DefaultsInit, StepInvInit
     DEF ServicesInit, PaymentInv, Payment!Init, Payment!WebhookAccounted
<1>2. PaymentInv /\ [Payment!Next]_(Payment!vars) => PaymentInv'
  BY ServicesAssumption, PayTypedStep, DefaultsStep, WebhookStep, StepInvStep DEF PaymentInv
<1>3. service = "payment" /\ [ServicesNext]_ServicesVars => [Payment!Next]_(Payment!vars)
  BY DEF ServicesNext, ServicesVars, paymentVars, Payment!vars, Acts
<1>4. (service = "payment" => PaymentInv) /\ [ServicesNext]_ServicesVars => (service = "payment" => PaymentInv)'
  BY ServiceIs, <1>2, <1>3
<1> QED
  BY <1>1, <1>4, PTL DEF ServicesSpec

(* FeatureFlags.                                                           *)
LEMMA FeatureHolds == ServicesSpec => [](service = "feature" => FlagInv)
<1>1. ServicesInit => (service = "feature" => FlagInv)
  BY ServicesAssumption, FlagInitial DEF ServicesInit
<1>2. FlagInv /\ [Feature!Next]_(Feature!vars) => FlagInv'
  BY ServicesAssumption, FlagStep
<1>3. service = "feature" /\ [ServicesNext]_ServicesVars => [Feature!Next]_(Feature!vars)
  BY DEF ServicesNext, ServicesVars, flagVars, Feature!vars, Acts
<1>4. (service = "feature" => FlagInv) /\ [ServicesNext]_ServicesVars => (service = "feature" => FlagInv)'
  BY ServiceIs, <1>2, <1>3
<1> QED
  BY <1>1, <1>4, PTL DEF ServicesSpec

(* RealtimeChannels.                                                       *)
LEMMA ChannelHolds == ServicesSpec => [](service = "realtime" => ChannelInv)
<1>1. ServicesInit => (service = "realtime" => ChannelInv)
  BY ServicesAssumption, ChannelInitial DEF ServicesInit
<1>2. ChannelInv /\ [Channel!Next]_(Channel!vars) => ChannelInv'
  BY ServicesAssumption, ChannelStep
<1>3. service = "realtime" /\ [ServicesNext]_ServicesVars => [Channel!Next]_(Channel!vars)
  BY DEF ServicesNext, ServicesVars, channelVars, Channel!vars, Acts
<1>4. (service = "realtime" => ChannelInv) /\ [ServicesNext]_ServicesVars => (service = "realtime" => ChannelInv)'
  BY ServiceIs, <1>2, <1>3
<1> QED
  BY <1>1, <1>4, PTL DEF ServicesSpec

(* QueueReports.                                                           *)
LEMMA ReportHolds == ServicesSpec => [](service = "reports" => ReportInv)
<1>1. ServicesInit => (service = "reports" => ReportInv)
  BY ServicesAssumption, ReportInitial DEF ServicesInit
<1>2. ReportInv /\ [Report!Next]_(Report!vars) => ReportInv'
  BY ServicesAssumption, ReportStep
<1>3. service = "reports" /\ [ServicesNext]_ServicesVars => [Report!Next]_(Report!vars)
  BY DEF ServicesNext, ServicesVars, reportVars, Report!vars, Acts
<1>4. (service = "reports" => ReportInv) /\ [ServicesNext]_ServicesVars => (service = "reports" => ReportInv)'
  BY ServiceIs, <1>2, <1>3
<1> QED
  BY <1>1, <1>4, PTL DEF ServicesSpec

(* QueueHealth.                                                            *)
LEMMA HealthHolds == ServicesSpec => [](service = "health" => HealthInv)
<1>1. ServicesInit => (service = "health" => HealthInv)
  BY ServicesAssumption, HealthInitial DEF ServicesInit
<1>2. HealthInv /\ [Health!Next]_(Health!vars) => HealthInv'
  BY ServicesAssumption, HealthStep
<1>3. service = "health" /\ [ServicesNext]_ServicesVars => [Health!Next]_(Health!vars)
  BY DEF ServicesNext, ServicesVars, healthVars, Health!vars, Acts
<1>4. (service = "health" => HealthInv) /\ [ServicesNext]_ServicesVars => (service = "health" => HealthInv)'
  BY ServiceIs, <1>2, <1>3
<1> QED
  BY <1>1, <1>4, PTL DEF ServicesSpec

(* PagedLists.                                                             *)
LEMMA ListsHold == ServicesSpec => [](service = "lists" => ListInv)
<1>1. ServicesInit => (service = "lists" => ListInv)
  BY ServicesAssumption, ListInitial DEF ServicesInit
<1>2. ListInv /\ [Lists!Next]_(Lists!vars) => ListInv'
  BY ServicesAssumption, ListStep
<1>3. service = "lists" /\ [ServicesNext]_ServicesVars => [Lists!Next]_(Lists!vars)
  BY DEF ServicesNext, ServicesVars, listVars, Lists!vars, Acts
<1>4. (service = "lists" => ListInv) /\ [ServicesNext]_ServicesVars => (service = "lists" => ListInv)'
  BY ServiceIs, <1>2, <1>3
<1> QED
  BY <1>1, <1>4, PTL DEF ServicesSpec

(* KeycloakAdmin, by the lemmas of its own proofs.                         *)
LEMMA KeycloakHolds == ServicesSpec => [](service = "keycloak" => KeycloakProofs!WriteInv)
<1>0. KeycloakProofs!KeycloakAssumption
  BY ServicesAssumption DEF Keycloak!KeycloakAssumption, KeycloakProofs!KeycloakAssumption
<1>1. ServicesInit => (service = "keycloak" => KeycloakProofs!WriteInv)
  <2>1. Keycloak!Init => KeycloakProofs!Init
    BY DEF Keycloak!Init, Keycloak!Idle, Keycloak!NoUser, KeycloakProofs!Init,
         KeycloakProofs!Idle, KeycloakProofs!NoUser
  <2>2. KeycloakProofs!Init => KeycloakProofs!WriteInv
    BY <1>0, KeycloakProofs!InitInv
       DEF KeycloakProofs!WriteInv, KeycloakProofs!Apart, KeycloakProofs!Init, KeycloakProofs!Writing
  <2> QED
    BY <2>1, <2>2 DEF ServicesInit
<1>2. KeycloakProofs!WriteInv /\ [KeycloakProofs!Next]_(KeycloakProofs!vars) => KeycloakProofs!WriteInv'
  BY <1>0, KeycloakProofs!WriteStep, SMTT(30)
<1>3. Keycloak!Next => KeycloakProofs!Next
  BY DEF Keycloak!Next, Keycloak!GetUser, Keycloak!CreateUser, Keycloak!UpdateUser,
         Keycloak!AssignRole, Keycloak!RevokeRole, Keycloak!GetUserRoles,
         Keycloak!RefreshAdminToken, Keycloak!Answer, Keycloak!Fails, Keycloak!Tick,
         Keycloak!Start, Keycloak!AnyField, Keycloak!Idle, Keycloak!Send,
         Keycloak!Effect, Keycloak!Requests, Keycloak!Proceed, Keycloak!Following,
         Keycloak!Request, Keycloak!NoUser, Keycloak!Writing, Keycloak!UpdatePayload,
         Keycloak!GetAdminHeaders, KeycloakProofs!Next, KeycloakProofs!GetUser,
         KeycloakProofs!CreateUser, KeycloakProofs!UpdateUser,
         KeycloakProofs!AssignRole, KeycloakProofs!RevokeRole,
         KeycloakProofs!GetUserRoles, KeycloakProofs!RefreshAdminToken,
         KeycloakProofs!Answer, KeycloakProofs!Fails, KeycloakProofs!Tick,
         KeycloakProofs!Start, KeycloakProofs!AnyField, KeycloakProofs!Idle,
         KeycloakProofs!Send, KeycloakProofs!Effect, KeycloakProofs!Requests,
         KeycloakProofs!Proceed, KeycloakProofs!Following, KeycloakProofs!Request,
         KeycloakProofs!NoUser, KeycloakProofs!Writing, KeycloakProofs!UpdatePayload,
         KeycloakProofs!GetAdminHeaders
<1>4. service = "keycloak" /\ [ServicesNext]_ServicesVars => [KeycloakProofs!Next]_(KeycloakProofs!vars)
  BY <1>3 DEF ServicesNext, ServicesVars, keycloakVars, KeycloakProofs!vars, Acts
<1>5. (service = "keycloak" => KeycloakProofs!WriteInv) /\ [ServicesNext]_ServicesVars => (service = "keycloak" => KeycloakProofs!WriteInv)'
  BY ServiceIs, <1>2, <1>4
<1> QED
  BY <1>1, <1>5, PTL DEF ServicesSpec

(* WorkflowTemplates, by the lemmas of its own proofs.                     *)
LEMMA TemplatesHold == ServicesSpec => [](service = "templates" => TemplateProofs!TemplateInv)
<1>1. ServicesInit => (service = "templates" => TemplateProofs!TemplateInv)
  BY TemplateProofs!InitInv DEF ServicesInit, Template!Init, TemplateProofs!Init
<1>2. TemplateProofs!TemplateInv /\ [TemplateProofs!Next]_(TemplateProofs!vars) => TemplateProofs!TemplateInv'
  BY TemplateProofs!StepInv, SMTT(30)
<1>3. Template!Next => TemplateProofs!Next
  BY DEF Template!Next, Template!CreateTemplate, Template!InstantiateTemplate,
         Template!ApplyParameterOverrides, Template!ValidateWorkflowDefinition,
         Template!Nodes, Template!Connections, Template!Steps, Template!StepIds,
         Template!ConvertStepToNode, Template!Roots, TemplateProofs!Next,
         TemplateProofs!CreateTemplate, TemplateProofs!InstantiateTemplate,
         TemplateProofs!ApplyParameterOverrides,
         TemplateProofs!ValidateWorkflowDefinition, TemplateProofs!Nodes,
         TemplateProofs!Connections, TemplateProofs!Steps, TemplateProofs!StepIds,
         TemplateProofs!ConvertStepToNode, TemplateProofs!Roots
<1>4. service = "templates" /\ [ServicesNext]_ServicesVars => [TemplateProofs!Next]_(TemplateProofs!vars)
  BY <1>3 DEF ServicesNext, ServicesVars, templateVars, TemplateProofs!vars, Acts
<1>5. (service = "templates" => TemplateProofs!TemplateInv) /\ [ServicesNext]_ServicesVars => (service = "templates" => TemplateProofs!TemplateInv)'
  BY ServiceIs, <1>2, <1>4
<1> QED
  BY <1>1, <1>5, PTL DEF ServicesSpec

(* One of the components acts.                                             *)
LEMMA ServiceStays ==
  ServicesSpec => [](service \in {"payment", "feature", "realtime", "keycloak", "templates", "reports", "health", "lists"})
<1> DEFINE One == service \in {"payment", "feature", "realtime", "keycloak", "templates", "reports", "health", "lists"}
<1>1. ServicesInit => One
  BY DEF ServicesInit
<1>2. One /\ [ServicesNext]_ServicesVars => One'
  BY ServiceIs
<1> QED
  BY <1>1, <1>2, PTL DEF ServicesSpec

(* Whichever component acts, every variable it has keeps its type.         *)
THEOREM ServicesTyped == ServicesSpec => []ServicesTypeOK
<1>1. KeycloakProofs!WriteInv => Keycloak!TypeOK
  BY DEF KeycloakProofs!WriteInv, KeycloakProofs!AdminInv, Keycloak!TypeOK, Keycloak!Token,
         Keycloak!Call, Keycloak!Idle, Keycloak!Profile, Keycloak!Requests,
         KeycloakProofs!TypeOK, KeycloakProofs!Token, KeycloakProofs!Call,
         KeycloakProofs!Idle, KeycloakProofs!Profile, KeycloakProofs!Requests
<1>2. TemplateProofs!TemplateInv => Template!TypeOK
  <2>1. TemplateProofs!TemplateAssumption
    BY ServicesAssumption DEF Template!TemplateAssumption, TemplateProofs!TemplateAssumption,
                              Template!Step, TemplateProofs!Step
  <2>2. TemplateProofs!TemplateInv => TemplateProofs!TypeOK
    BY <2>1, TemplateProofs!MadeIsTyped
  <2> QED
    BY <2>2 DEF Template!TypeOK, TemplateProofs!TypeOK
<1>3. /\ service \in {"payment", "feature", "realtime", "keycloak", "templates", "reports", "health", "lists"}
      /\ service = "payment" => PaymentInv
      /\ service = "feature" => FlagInv
      /\ service = "realtime" => ChannelInv
      /\ service = "keycloak" => KeycloakProofs!WriteInv
      /\ service = "templates" => TemplateProofs!TemplateInv
      /\ service = "reports" => ReportInv
      /\ service = "health" => HealthInv
      /\ service = "lists" => ListInv
      => ServicesTypeOK
  <2>1. PaymentInv => Payment!TypeOK
    BY DEF PaymentInv, PayTyped
  <2>2. FlagInv => Feature!TypeOK
    BY ServicesAssumption, FlagHeld
  <2>3. ChannelInv => Channel!TypeOK
    BY ServicesAssumption, ChannelHeld
  <2>4. ReportInv => Report!TypeOK
    BY ServicesAssumption, ReportHeld
  <2>5. HealthInv => Health!TypeOK
    BY ServicesAssumption, HealthHeld
  <2>6. ListInv => Lists!TypeOK
    BY DEF ListInv, ListTyped
  <2> QED
    BY <1>1, <1>2, <2>1, <2>2, <2>3, <2>4, <2>5, <2>6 DEF ServicesTypeOK
<1> QED
  BY <1>3, ServiceStays, PaymentHolds, FeatureHolds, ChannelHolds, KeycloakHolds, TemplatesHold,
     ReportHolds, HealthHolds, ListsHold, PTL

(* However calls of setDefaultPaymentMethod and addPaymentMethod            *)
(* interleave, and whichever of them fails, a customer never has more      *)
(* default payment methods than there are calls.                           *)
THEOREM DefaultsStayBounded == ServicesSpec => []DefaultsBounded
<1>1. PaymentInv => Payment!DefaultsBounded
  BY ServicesAssumption, DefaultsHeld DEF PaymentInv
<1>2. (service = "payment" => PaymentInv) => DefaultsBounded
  BY <1>1 DEF DefaultsBounded
<1> QED
  BY <1>2, PaymentHolds, PTL

(* A customer whose calls ran one after another, each to its end, is not   *)
(* billed in Lago for more than the rows say, and is the same there.       *)
THEOREM LedgersInStep == ServicesSpec => []InStep
<1>1. PaymentInv => Payment!InStep
  BY ServicesAssumption, StepInvHeld DEF PaymentInv
<1>2. (service = "payment" => PaymentInv) => InStep
  BY <1>1 DEF InStep
<1> QED
  BY <1>2, PaymentHolds, PTL

(* A webhook that was stored, and that no call handles any more, is        *)
(* processed or marked as failed, unless a call was lost.                  *)
THEOREM WebhooksAccounted == ServicesSpec => []WebhookAccounted
<1>1. (service = "payment" => PaymentInv) => WebhookAccounted
  BY DEF WebhookAccounted, PaymentInv
<1> QED
  BY <1>1, PaymentHolds, PTL

(* Once Unleash has given one answer for TTL, no cached answer differs.    *)
THEOREM AnswersSettle == ServicesSpec => []SettledAnswers
<1>1. (service = "feature" => FlagInv) => SettledAnswers
  BY ServicesAssumption, FlagHeld DEF SettledAnswers
<1> QED
  BY <1>1, FeatureHolds, PTL

(* A walk over the pages of the features, or of any of the lists, to the   *)
(* end has seen all it promised, whatever was written on the way.          *)
THEOREM PagesComplete == ServicesSpec => []PagesMissNothing
<1>1. FlagInv => Feature!PagesMissNothing
  BY ServicesAssumption, FlagHeld
<1>2. ListInv => Lists!PagesMissNothing
  BY DEF ListInv, ListTyped, Lists!PagesMissNothing
<1>3. (service = "feature" => FlagInv) /\ (service = "lists" => ListInv) => PagesMissNothing
  BY <1>1, <1>2 DEF PagesMissNothing
<1> QED
  BY <1>3, FeatureHolds, ListsHold, PTL

(* Removing a rule from one environment changes no other environment and   *)
(* no copy of its rules.                                                   *)
THEOREM RemovalStaysLocal == ServicesSpec => RemovalIsLocal
<1>1. (service = "feature" => FlagInv) => (service = "feature" => Feature!RemovalLeavesOthers)
  BY ServicesAssumption, RemovalStep
<1> QED
  BY <1>1, FeatureHolds, PTL DEF RemovalIsLocal

(* No message of a deleted channel comes back under a new one of its id,   *)
(* if the calls about that id did not overlap and none of them failed.     *)
THEOREM HistoriesOwn == ServicesSpec => []HistoryIsOwn
<1>1. (service = "realtime" => ChannelInv) => HistoryIsOwn
  BY ServicesAssumption, ChannelHeld DEF HistoryIsOwn
<1> QED
  BY <1>1, ChannelHolds, PTL

(* A walk over the online users finds everybody who was there from its     *)
(* beginning to its end, however the requests it makes channel by channel  *)
(* interleave with what changes the channels and who is present.           *)
THEOREM OnlineComplete == ServicesSpec => []OnlineIsComplete
<1>1. (service = "realtime" => ChannelInv) => OnlineIsComplete
  BY ServicesAssumption, ChannelHeld DEF OnlineIsComplete
<1> QED
  BY <1>1, ChannelHolds, PTL

(* In the composition as on its own: no admin token is used that Keycloak  *)
(* has refused for as long as one request may take.                        *)
THEOREM TokensFresh == ServicesSpec => []TokenStaleness
<1>1. KeycloakProofs!WriteInv => Keycloak!TokenStaleness
  BY DEF KeycloakProofs!WriteInv, KeycloakProofs!AdminInv, Keycloak!TokenStaleness,
         Keycloak!Idle, KeycloakProofs!TokenStaleness, KeycloakProofs!Idle
<1>2. (service = "keycloak" => KeycloakProofs!WriteInv) => TokenStaleness
  BY <1>1 DEF TokenStaleness
<1> QED
  BY <1>2, KeycloakHolds, PTL

(* A user whose writes never overlapped has in every field of Keycloak     *)
(* what was written there last, for any number of users and calls.         *)
THEOREM WritesKept == ServicesSpec => []UpdatesKept
<1>1. KeycloakProofs!WriteInv => Keycloak!UpdatesKept
  BY DEF KeycloakProofs!WriteInv, KeycloakProofs!Apart, Keycloak!UpdatesKept
<1>2. (service = "keycloak" => KeycloakProofs!WriteInv) => UpdatesKept
  BY <1>1 DEF UpdatesKept
<1> QED
  BY <1>2, KeycloakHolds, PTL

(* Every workflow made of a sound template runs to its end in n8n.         *)
THEOREM InstancesRun == ServicesSpec => []InstanceRuns
<1>1. TemplateProofs!TemplateInv => TemplateProofs!InstanceRuns
  <2>1. TemplateProofs!TemplateAssumption
    BY ServicesAssumption DEF Template!TemplateAssumption, TemplateProofs!TemplateAssumption,
                              Template!Step, TemplateProofs!Step
  <2> QED
    BY <2>1, TemplateProofs!MadeRuns DEF TemplateProofs!TemplateInv
<1>2. TemplateProofs!InstanceRuns => Template!InstanceRuns
  BY DEF Template!InstanceRuns, Template!Acyclic, Template!StepIds, Template!Entered,
         Template!ParameterSchemas, Template!Steps, TemplateProofs!InstanceRuns,
         TemplateProofs!Acyclic, TemplateProofs!StepIds, TemplateProofs!Entered,
         TemplateProofs!ParameterSchemas, TemplateProofs!Steps
<1>3. (service = "templates" => TemplateProofs!TemplateInv) => InstanceRuns
  BY <1>1, <1>2 DEF InstanceRuns
<1> QED
  BY <1>3, TemplatesHold, PTL

(* The numbers a report or a health check counts one by one disagree by no *)
(* more than the jobs that changed meanwhile.                              *)
THEOREM ReportsAddUp == ServicesSpec => []ReportAddsUp
<1>1. ReportInv => Report!ReportAddsUp
  BY ServicesAssumption, ReportHeld
<1>2. HealthInv => Health!StatusAddsUp
  BY ServicesAssumption, HealthHeld
<1>3. (service = "reports" => ReportInv) /\ (service = "health" => HealthInv) => ReportAddsUp
  BY <1>1, <1>2 DEF ReportAddsUp
<1> QED
  BY <1>3, ReportHolds, HealthHolds, PTL
=============================================================================
