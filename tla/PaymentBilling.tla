--------------------------- MODULE PaymentBilling ---------------------------
(***************************************************************************)
(* The payment service: PaymentService writes every customer,              *)
(* subscription and usage record twice, in Lago through LagoService and    *)
(* then in Postgres, and nothing compensates when the second write fails.  *)
(* Lago is external: it is what the calls of LagoService make of it.  Its  *)
(* subscriptions are addressed by the customer, so all the model keeps of  *)
(* them is how many each customer has.                                     *)
(*                                                                         *)
(* A call goes from one await to the next.  Amounts, dates and addresses   *)
(* are left out; a value that two writes must agree on is the number of    *)
(* the call that wrote it.                                                 *)
(***************************************************************************)
EXTENDS Naturals, FiniteSets

CONSTANTS Customers, Subscriptions, Methods, Invoices, Callers,
          Owner,      \* the customer of a subscription, payment method or invoice
          Events,     \* webhook events: the provider, and the invoice it says is paid
          MaxCalls,   \* bound on calls
          Faults      \* "error": a statement or request fails, once; "lost": a call is lost, once

PaymentAssumption ==
  /\ Owner \in [Subscriptions \cup Methods \cup Invoices -> Customers]
  /\ Customers \cap (Subscriptions \cup Methods \cup Invoices \cup Events) = {}
  /\ Events \cap (Subscriptions \cup Methods \cup Invoices) = {}
  /\ \A e \in Events : DOMAIN e = {"id", "provider", "pays"} /\ e.pays \in Invoices \cup {"other"}
  /\ IsFiniteSet(Callers) /\ IsFiniteSet(Subscriptions) /\ IsFiniteSet(Methods)
  /\ Faults \subseteq {"error", "lost"}
  /\ MaxCalls \in Nat

VARIABLES
  customer,   \* the call that last wrote the customer's row, or "none"
  atLago,     \* the call that last wrote the customer in Lago, or "none"
  status,     \* status of a subscription, or "none"
  items,      \* the calls whose items the subscription has
  billed,     \* how many subscriptions Lago has of a customer
  used,       \* usage of a subscription: [rows, lago], records here and there
  method,     \* "none", "plain" or "default"
  invoice,    \* "none", "DRAFT" or "PAID"
  event,      \* webhook events: "none", "stored", "error", "processed"
  calls,      \* the calls under way, [op, of, pc, n]
  made,       \* calls made: they number the calls
  clean,      \* history: customers whose calls never overlapped and all returned
  faults

vars == <<customer, atLago, status, items, billed, used, method, invoice, event,
          calls, made, clean, faults>>
people  == <<customer, atLago>>
plans   == <<status, items, billed, used>>
ledger  == <<method, invoice>>
control == <<calls, made, clean, faults>>

Idle    == [op |-> "idle"]
Op == {"createCustomer", "updateCustomer", "createSubscription", "updateSubscription",
       "cancelSubscription", "reactivateSubscription", "recordUsage", "generateInvoice",
       "addPaymentMethod", "addDefaultMethod", "removePaymentMethod",
       "setDefaultPaymentMethod", "webhook"}
Subject == Customers \cup Subscriptions \cup Methods \cup Invoices \cup Events
CallRecord == [op: Op, of: Subject, pc: {"lago", "row", "mark", "catch"}, n: 1..MaxCalls]

TypeOK ==
  /\ customer \in [Customers -> 0..MaxCalls] /\ atLago \in [Customers -> 0..MaxCalls]
  /\ status \in [Subscriptions -> {"none", "ACTIVE", "CANCELED"}]
  /\ items \in [Subscriptions -> SUBSET (1..MaxCalls)]
  /\ billed \in [Customers -> Nat]
  /\ used \in [Subscriptions -> [rows: Nat, lago: Nat]]
  /\ method \in [Methods -> {"none", "plain", "default"}]
  /\ invoice \in [Invoices -> {"none", "DRAFT", "PAID"}]
  /\ event \in [Events -> {"none", "stored", "error", "processed"}]
  /\ calls \in [Callers -> CallRecord \cup {Idle}]
  /\ made \in 0..MaxCalls
  /\ clean \subseteq Customers
  /\ faults \subseteq Faults

Init ==
  /\ customer = [u \in Customers |-> 0] /\ atLago = [u \in Customers |-> 0]
  /\ status = [s \in Subscriptions |-> "none"]
  /\ items = [s \in Subscriptions |-> {}]
  /\ billed = [u \in Customers |-> 0]
  /\ used = [s \in Subscriptions |-> [rows |-> 0, lago |-> 0]]
  /\ method = [m \in Methods |-> "none"]
  /\ invoice = [i \in Invoices |-> "none"]
  /\ event = [e \in Events |-> "none"]
  /\ calls = [c \in Callers |-> Idle]
  /\ made = 0
  /\ clean = Customers
  /\ faults = {}

\* The customers a call is about; a webhook is about none.
About(x) == IF x \in Customers THEN {x} ELSE IF x \in Events THEN {} ELSE {Owner[x]}
Busy(x)  == \E c \in Callers : calls[c] # Idle /\ calls[c].of = x
Alone(u) == \A c \in Callers : calls[c] # Idle => u \notin About(calls[c].of)

Begin(c, op, x, pc) ==
  /\ calls[c] = Idle /\ made < MaxCalls
  /\ made' = made + 1
  /\ calls' = [calls EXCEPT ![c] = [op |-> op, of |-> x, pc |-> pc, n |-> made + 1]]
  /\ clean' = clean \ {u \in About(x) : ~Alone(u)}
  /\ UNCHANGED faults

In(c, op, x, pc) == calls[c] # Idle /\ calls[c].op = op /\ calls[c].of = x /\ calls[c].pc = pc
Goto(c, pc) == /\ calls' = [calls EXCEPT ![c] = [@ EXCEPT !.pc = pc]]
               /\ UNCHANGED <<made, clean, faults>>
Return(c)   == calls' = [calls EXCEPT ![c] = Idle] /\ UNCHANGED <<made, clean, faults>>
Refused(c)  == /\ calls' = [calls EXCEPT ![c] = Idle]
               /\ clean' = clean \ About(calls[c].of) /\ UNCHANGED <<made, faults>>

-----------------------------------------------------------------------------
(* LagoService: one request each, posted for a customer.                   *)

LagoCustomer(c, u) == atLago' = [atLago EXCEPT ![u] = calls[c].n]
LagoSubscribe(u)   == billed' = [billed EXCEPT ![u] = @ + 1]
\* The request names the customer; with no subscription left it is refused.
LagoCancel(u)      == billed[u] > 0 /\ billed' = [billed EXCEPT ![u] = @ - 1]
\* An event with the transaction of another one is not counted again.
LagoEvent(s) ==
  \E again \in BOOLEAN :
    /\ again => used[s].lago > 0
    /\ used' = IF again THEN used ELSE [used EXCEPT ![s].lago = @ + 1]

-----------------------------------------------------------------------------
(* PaymentService.                                                         *)

Kept == UNCHANGED <<event, method, invoice>>

CreateCustomer(c, u) ==
  /\ \/ Begin(c, "createCustomer", u, "lago") /\ UNCHANGED people
     \/ /\ In(c, "createCustomer", u, "lago") /\ LagoCustomer(c, u)
        /\ Goto(c, "row") /\ UNCHANGED customer
     \/ /\ In(c, "createCustomer", u, "row") /\ customer[u] = 0
        /\ customer' = [customer EXCEPT ![u] = calls[c].n]
        /\ Return(c) /\ UNCHANGED atLago
     \/ \* the externalId is unique
        /\ In(c, "createCustomer", u, "row") /\ customer[u] # 0
        /\ Refused(c) /\ UNCHANGED people
  /\ Kept /\ UNCHANGED plans

UpdateCustomer(c, u) ==
  /\ \/ /\ customer[u] # 0 /\ Begin(c, "updateCustomer", u, "lago") /\ UNCHANGED people
     \/ /\ In(c, "updateCustomer", u, "lago") /\ LagoCustomer(c, u)
        /\ Goto(c, "row") /\ UNCHANGED customer
     \/ /\ In(c, "updateCustomer", u, "row")
        /\ customer' = [customer EXCEPT ![u] = calls[c].n]
        /\ Return(c) /\ UNCHANGED atLago
  /\ Kept /\ UNCHANGED plans

CreateSubscription(c, s) ==
  /\ \/ /\ status[s] = "none" /\ ~Busy(s) /\ customer[Owner[s]] # 0   \* ids are new
        /\ Begin(c, "createSubscription", s, "lago") /\ UNCHANGED <<status, items, billed>>
     \/ /\ In(c, "createSubscription", s, "lago") /\ LagoSubscribe(Owner[s])
        /\ Goto(c, "row") /\ UNCHANGED <<status, items>>
     \/ /\ In(c, "createSubscription", s, "row")
        /\ status' = [status EXCEPT ![s] = "ACTIVE"]
        /\ items' = [items EXCEPT ![s] = {calls[c].n}]
        /\ Return(c) /\ UNCHANGED billed
  /\ Kept /\ UNCHANGED <<people, used>>

\* deleteMany and createMany are two statements.
UpdateSubscription(c, s) ==
  /\ \/ /\ status[s] # "none" /\ Begin(c, "updateSubscription", s, "row")
        /\ items' = [items EXCEPT ![s] = {}]
     \/ /\ In(c, "updateSubscription", s, "row")
        /\ items' = [items EXCEPT ![s] = @ \cup {calls[c].n}] /\ Return(c)
  /\ Kept /\ UNCHANGED <<people, status, billed, used>>

\* The status is not looked at.
CancelSubscription(c, s) ==
  /\ \/ /\ status[s] # "none" /\ Begin(c, "cancelSubscription", s, "lago")
        /\ UNCHANGED <<status, billed>>
     \/ /\ In(c, "cancelSubscription", s, "lago") /\ LagoCancel(Owner[s])
        /\ Goto(c, "row") /\ UNCHANGED status
     \/ /\ In(c, "cancelSubscription", s, "lago") /\ billed[Owner[s]] = 0
        /\ Refused(c) /\ UNCHANGED <<status, billed>>
     \/ /\ In(c, "cancelSubscription", s, "row")
        /\ status' = [status EXCEPT ![s] = "CANCELED"]
        /\ Return(c) /\ UNCHANGED billed
  /\ Kept /\ UNCHANGED <<people, items, used>>

(* Mutant: a subscription is reactivated whatever its status.              *)
ReactivateAny(c, s) ==
  /\ \/ /\ status[s] # "none" /\ Begin(c, "reactivateSubscription", s, "lago")
        /\ UNCHANGED <<status, billed>>
     \/ /\ In(c, "reactivateSubscription", s, "lago") /\ LagoSubscribe(Owner[s])
        /\ Goto(c, "row") /\ UNCHANGED status
     \/ /\ In(c, "reactivateSubscription", s, "row")
        /\ status' = [status EXCEPT ![s] = "ACTIVE"]
        /\ Return(c) /\ UNCHANGED billed
  /\ Kept /\ UNCHANGED <<people, items, used>>

\* The status is looked at before Lago is asked for a new subscription.
ReactivateSubscription(c, s) ==
  /\ \/ /\ status[s] = "CANCELED" /\ Begin(c, "reactivateSubscription", s, "lago")
        /\ UNCHANGED <<status, billed>>
     \/ /\ In(c, "reactivateSubscription", s, "lago") /\ LagoSubscribe(Owner[s])
        /\ Goto(c, "row") /\ UNCHANGED status
     \/ /\ In(c, "reactivateSubscription", s, "row")
        /\ status' = [status EXCEPT ![s] = "ACTIVE"]
        /\ Return(c) /\ UNCHANGED billed
  /\ Kept /\ UNCHANGED <<people, items, used>>

\* The transaction is named by the millisecond.
RecordUsage(c, s) ==
  /\ \/ status[s] # "none" /\ Begin(c, "recordUsage", s, "lago") /\ UNCHANGED used
     \/ In(c, "recordUsage", s, "lago") /\ LagoEvent(s) /\ Goto(c, "row")
     \/ /\ In(c, "recordUsage", s, "row")
        /\ used' = [used EXCEPT ![s].rows = @ + 1] /\ Return(c)
  /\ Kept /\ UNCHANGED <<people, status, items, billed>>

(* Mutant: an invoice is issued as pending.                                *)
GeneratePending(c, i) ==
  /\ invoice[i] = "none" /\ calls[c] = Idle
  /\ invoice' = [invoice EXCEPT ![i] = "PENDING"]
  /\ UNCHANGED <<people, plans, method, event, control>>

\* Lago refreshes its invoice; the draft gets a number of this service's own.
GenerateInvoice(c, i) ==
  /\ \/ /\ invoice[i] = "none" /\ ~Busy(i)
        /\ \E s \in Subscriptions : Owner[s] = Owner[i] /\ status[s] # "none"
        /\ Begin(c, "generateInvoice", i, "row") /\ UNCHANGED invoice
     \/ /\ In(c, "generateInvoice", i, "row")
        /\ invoice' = [invoice EXCEPT ![i] = "DRAFT"] /\ Return(c)
  /\ UNCHANGED <<people, plans, method, event>>

(* Mutant: no default is unset.                                            *)
UnsetNothing(u) == UNCHANGED method
Unset(u) == method' = [m \in Methods |-> IF method[m] = "default" /\ Owner[m] = u
                                         THEN "plain" ELSE method[m]]

\* A method that is added as the default unsets the others first.
AddPaymentMethod(c, m, default) ==
  LET op == IF default THEN "addDefaultMethod" ELSE "addPaymentMethod"
  IN /\ \/ /\ method[m] = "none" /\ ~Busy(m)   \* ids are new
           /\ Begin(c, op, m, "row")
           /\ IF default THEN Unset(Owner[m]) ELSE UNCHANGED method
        \/ /\ In(c, op, m, "row")
           /\ method' = [method EXCEPT ![m] = IF default THEN "default" ELSE "plain"]
           /\ Return(c)
     /\ UNCHANGED <<people, plans, invoice, event>>

RemovePaymentMethod(c, m) ==
  /\ \/ /\ method[m] # "none" /\ Begin(c, "removePaymentMethod", m, "row") /\ UNCHANGED method
     \/ In(c, "removePaymentMethod", m, "row") /\ method[m] = "none" /\ Refused(c) /\ UNCHANGED method
     \/ /\ In(c, "removePaymentMethod", m, "row") /\ method[m] # "none"
        /\ method' = [method EXCEPT ![m] = "none"] /\ Return(c)
  /\ UNCHANGED <<people, plans, invoice, event>>

\* The request names the owner of the method (the code takes its word).
SetDefaultPaymentMethod(c, m) ==
  /\ \/ Begin(c, "setDefaultPaymentMethod", m, "row") /\ Unset(Owner[m])
     \/ In(c, "setDefaultPaymentMethod", m, "row") /\ method[m] = "none" /\ Refused(c) /\ UNCHANGED method
     \/ /\ In(c, "setDefaultPaymentMethod", m, "row") /\ method[m] # "none"
        /\ method' = [method EXCEPT ![m] = "default"] /\ Return(c)
  /\ UNCHANGED <<people, plans, invoice, event>>

\* processLagoWebhook: a paid invoice is looked for by its number.
Pays(e) == e.provider = "lago" /\ e.pays \in Invoices /\ invoice[e.pays] # "none"

(* Mutant: the catch only tells its caller.                                *)
StoreNoError(e) == UNCHANGED event
\* The catch writes the error on every unprocessed event of the same kind.
Kind(e) == <<e.provider, e.pays = "other">>
StoreError(e) ==
  event' = [f \in Events |-> IF Kind(f) = Kind(e) /\ event[f] = "stored" THEN "error" ELSE event[f]]

HandleWebhook(c, e) ==
  /\ \/ /\ event[e] = "none" /\ ~Busy(e)   \* ids are new
        /\ \/ Begin(c, "webhook", e, "row") /\ event' = [event EXCEPT ![e] = "stored"]
           \/ Begin(c, "webhook", e, "catch") /\ UNCHANGED event   \* the payload is no JSON
        /\ UNCHANGED invoice
     \/ /\ In(c, "webhook", e, "row") /\ e.provider \in {"lago", "stripe"} /\ Goto(c, "mark")
        /\ invoice' = IF Pays(e) THEN [invoice EXCEPT ![e.pays] = "PAID"] ELSE invoice
        /\ UNCHANGED event
     \/ /\ In(c, "webhook", e, "row") /\ e.provider \notin {"lago", "stripe"}
        /\ Goto(c, "catch") /\ UNCHANGED <<invoice, event>>
     \/ /\ In(c, "webhook", e, "mark") /\ event' = [event EXCEPT ![e] = "processed"]
        /\ Return(c) /\ UNCHANGED invoice
     \/ /\ In(c, "webhook", e, "catch") /\ StoreError(e) /\ Return(c) /\ UNCHANGED invoice
  /\ UNCHANGED <<people, plans, method>>

\* A statement or a request fails: the error goes to the caller, or to the
\* catch of the webhook.  A lost call ends with its process, or in its catch.
CallFails(c) ==
  /\ calls[c] # Idle
  /\ \E f \in Faults \ faults :
       LET caught == f = "error" /\ calls[c].op = "webhook" /\ calls[c].pc # "catch"
       IN /\ f = "error" => calls[c].pc # "catch"
          /\ faults' = faults \cup {f}
          /\ calls' = [calls EXCEPT ![c] = IF caught THEN [@ EXCEPT !.pc = "catch"] ELSE Idle]
  /\ clean' = clean \ About(calls[c].of)
  /\ UNCHANGED <<people, plans, ledger, event, made>>

Call(c) ==
  \/ \E u \in Customers : CreateCustomer(c, u) \/ UpdateCustomer(c, u)
  \/ \E s \in Subscriptions :
       \/ CreateSubscription(c, s) \/ UpdateSubscription(c, s) \/ RecordUsage(c, s)
       \/ CancelSubscription(c, s) \/ ReactivateSubscription(c, s)
  \/ \E i \in Invoices : GenerateInvoice(c, i)
  \/ \E m \in Methods :
       \/ \E default \in BOOLEAN : AddPaymentMethod(c, m, default)
       \/ RemovePaymentMethod(c, m) \/ SetDefaultPaymentMethod(c, m)
  \/ \E e \in Events : HandleWebhook(c, e)

Next == \E c \in Callers : Call(c) \/ CallFails(c)

Spec == Init /\ [][Next]_vars

-----------------------------------------------------------------------------
(* A customer has at most as many default payment methods as there are     *)
(* calls at once: addPaymentMethod and setDefaultPaymentMethod unset the   *)
(* others and set the new one in two statements, so two calls can leave    *)
(* two defaults, and the next one to begin removes them all.               *)
Defaults(u) == {m \in Methods : method[m] = "default" /\ Owner[m] = u}
DefaultsBounded == \A u \in Customers : Cardinality(Defaults(u)) <= Cardinality(Callers)

(* A customer whose calls ran one after another, each to its end, is not   *)
(* billed in Lago for more subscriptions than the rows have ACTIVE, nor    *)
(* for more usage than the rows record, and the customer of Lago is the    *)
(* customer of the row.  (Lago may bill for fewer: cancelSubscription      *)
(* names the customer, so a second cancel of one ends another.)            *)
Active(u) == {s \in Subscriptions : Owner[s] = u /\ status[s] = "ACTIVE"}
InStep ==
  \A u \in clean : Alone(u) =>
    /\ billed[u] <= Cardinality(Active(u))
    /\ customer[u] = atLago[u]
    /\ \A s \in Subscriptions : Owner[s] = u =>
         used[s].lago <= used[s].rows /\ Cardinality(items[s]) <= 1

(* A stored webhook event that no call handles any more has its error,     *)
(* unless the call was lost: handleWebhook writes the one or the other.    *)
WebhookAccounted == \A e \in Events : event[e] = "stored" => Busy(e) \/ "lost" \in faults
=============================================================================
