-------------------------------- MODULE Payments --------------------------------
(***************************************************************************)
(* How an order is paid: by card through Stripe payment intents and their  *)
(* webhooks, or in cash to a driver, whose wallet owes the cash until it   *)
(* is reconciled.                                                          *)
(*                                                                         *)
(* The payment row is created with the order, so it always exists, and so  *)
(* do the wallets here: the first use of a wallet only creates it.  All    *)
(* orders have one fee.                                                    *)
(*                                                                         *)
(* Stripe is external.  It answers a creation whose idempotency key it     *)
(* knows with the intent it made then, may forget its keys (after a day),  *)
(* and sends an event until it is answered: late, repeatedly and in any    *)
(* order.  The statuses an administrator writes over an order are left to  *)
(* TripLifecycle.                                                          *)
(***************************************************************************)
EXTENDS Integers, Sequences, FiniteSets, FiniteSetsExt

CONSTANTS
  Handler,     \* requests in flight at a time
  Order, Driver,
  NoOrder,     \* a reconciliation whose reference is not an order
  Fee,         \* shippingFee, which is also the amount of the payment
  Amounts,     \* the amounts a driver or an administrator may type
  MaxIntents,  \* bound on the intents of an order
  MaxEntries   \* bound on the ledger

ASSUME NoOrderAssumption == NoOrder \notin Order
ASSUME AmountAssumption == Fee \in Nat \ {0} /\ Amounts \subseteq Nat \ {0}
ASSUME BoundAssumption == MaxIntents \in Nat /\ MaxEntries \in Nat

VARIABLES
  payment,    \* per order: its row of payments
  order,      \* per order: what payment and tracking read and write of it
  wallet,     \* per driver: codCollected
  ledger,     \* the rows of transactions
  intents,    \* per order: the statuses of its intents at Stripe
  keyed,      \* per order: the intent of each idempotency key, 0 if there is none
  shown,      \* per order: the intents whose client secret its customer has
  sent,       \* per order: the events Stripe has sent
  task,       \* per handler: what its request holds between two awaits
  contended,  \* history: orders and drivers whose requests overlapped or broke off
  misread     \* history: orders whose intent Stripe failed to return, or whose keys
              \* it forgot

stripeVars == <<intents, keyed, shown, sent, misread>>
cashVars == <<order, wallet, ledger>>
vars == <<payment, order, wallet, ledger, intents, keyed, shown, sent, task,
          contended, misread>>

\* An intent is known by its number, an idempotency key by the intent that the new
\* one replaces: 0 for the first.
Intent == 1..MaxIntents
NoIntent == 0
EventType == {"succeeded", "payment_failed"}

Payment == [method : {"COD", "STRIPE"}, status : {"PENDING", "COMPLETED", "FAILED"},
            intent : Intent \cup {NoIntent}]
OrderRow == [delivered : BOOLEAN, collected : BOOLEAN, reconciled : BOOLEAN]
Entry == [driver : Driver, order : Order \cup {NoOrder}, amount : Int,
          type : {"COD_COLLECTION", "COD_RECONCILIATION"}]
Idle == [op |-> "idle"]
Task ==
  {Idle}
    \cup [op : {"retrieve", "save"}, order : Order, intent : Intent]
    \cup [op : {"create"}, order : Order, intent : Intent \cup {NoIntent}]
    \cup [op : {"confirm", "deliver", "deliverOnly"}, order : Order, driver : Driver]
    \cup [op : {"add"}, order : Order, driver : Driver, amount : Amounts]
    \cup [op : {"addMark", "reconcileMark"}, order : Order]
    \cup [op : {"reconcile"}, driver : Driver, amount : Amounts,
          order : Order \cup {NoOrder}]

TypeOK ==
  /\ payment \in [Order -> Payment]
  /\ order \in [Order -> OrderRow]
  /\ wallet \in [Driver -> Int]
  /\ ledger \in Seq(Entry)
  /\ intents \in [Order -> Seq({"open", "succeeded", "canceled"})]
  /\ \A o \in Order : Len(intents[o]) <= MaxIntents
  /\ keyed \in [Order -> [0..MaxIntents -> 0..MaxIntents]]
  /\ shown \in [Order -> SUBSET Intent]
  /\ sent \in [Order -> SUBSET (Intent \X EventType)]
  /\ task \in [Handler -> Task]
  /\ contended \subseteq Order \cup Driver
  /\ misread \subseteq Order

Init ==
  /\ payment \in [Order -> [method : {"COD", "STRIPE"}, status : {"PENDING"},
                            intent : {NoIntent}]]
  /\ order = [o \in Order |->
                [delivered |-> FALSE, collected |-> FALSE, reconciled |-> FALSE]]
  /\ wallet = [d \in Driver |-> 0]
  /\ ledger = <<>>
  /\ intents = [o \in Order |-> <<>>]
  /\ keyed = [o \in Order |-> [p \in 0..MaxIntents |-> NoIntent]]
  /\ shown = [o \in Order |-> {}]
  /\ sent = [o \in Order |-> {}]
  /\ task = [h \in Handler |-> Idle]
  /\ contended = {}
  /\ misread = {}

\* What the requests in flight are about: orders, or the driver of a reconciliation.
Subject(r) ==
  IF r.op \in {"idle", "reconcileMark"} THEN {}
  ELSE IF r.op = "reconcile" THEN {r.driver} ELSE {r.order}

\* A request arrives and has read what it decides on; it holds r until it goes on.
Begin(h, r) ==
  /\ task[h] = Idle
  /\ task' = [task EXCEPT ![h] = r]
  /\ contended' = contended \cup (Subject(r) \cap UNION {Subject(task[g]) : g \in Handler})

Continue(h, r) == task' = [task EXCEPT ![h] = r] /\ UNCHANGED contended
Op(h, op) == task[h].op = op

--------------------------------------------------------------------------------
(***************************************************************************)
(* Payment intents.                                                        *)
(***************************************************************************)

\* createPaymentIntent, up to the decision on the intent it may reuse.
IntentBegin(h, o) ==
  /\ payment[o].method # "COD"
  /\ payment[o].status # "COMPLETED"
  /\ LET previous == IF payment[o].status = "PENDING" THEN payment[o].intent
                     ELSE NoIntent
     IN Begin(h, [op |-> IF previous = NoIntent THEN "create" ELSE "retrieve",
                  order |-> o, intent |-> previous])
  /\ UNCHANGED <<payment, cashVars, stripeVars>>

\* getReusablePaymentIntent: an intent that can still be paid is shown again.
IntentRetrieve(h) ==
  /\ Op(h, "retrieve")
  /\ LET o == task[h].order
         i == task[h].intent
     IN \/ /\ intents[o][i] = "open"
           /\ shown' = [shown EXCEPT ![o] = @ \cup {i}]
           /\ Continue(h, Idle)
           /\ UNCHANGED misread
        \/ /\ intents[o][i] # "open"
           /\ Continue(h, [task[h] EXCEPT !.op = "create"])
           /\ UNCHANGED <<shown, misread>>
        \/ /\ misread' = misread \cup {o}  \* Stripe answers with an error
           /\ Continue(h, [task[h] EXCEPT !.op = "create"])
           /\ UNCHANGED shown
  /\ UNCHANGED <<payment, cashVars, intents, keyed, sent>>

\* The intent Stripe returns for the key of previous, a new one if it has none.
WithoutKey(o, previous) == Len(intents[o]) + 1  \* mutant
Created(o, previous) ==
  IF keyed[o][previous] = NoIntent THEN Len(intents[o]) + 1 ELSE keyed[o][previous]

IntentCreate(h) ==
  /\ Op(h, "create")
  /\ LET o == task[h].order
         previous == task[h].intent
         i == Created(o, previous)
     IN /\ i \in Intent
        /\ intents' = IF i \in DOMAIN intents[o] THEN intents
                      ELSE [intents EXCEPT ![o] = Append(@, "open")]
        /\ keyed' = [keyed EXCEPT ![o][previous] = i]
        /\ Continue(h, [task[h] EXCEPT !.op = "save", !.intent = i])
  /\ UNCHANGED <<payment, cashVars, shown, sent, misread>>

\* upsertPayment, whatever the row has become.
IntentSave(h) ==
  /\ Op(h, "save")
  /\ LET o == task[h].order
         i == task[h].intent
     IN /\ payment' = [payment EXCEPT ![o] = [method |-> "STRIPE", status |-> "PENDING",
                                              intent |-> i]]
        /\ shown' = [shown EXCEPT ![o] = @ \cup {i}]
  /\ Continue(h, Idle)
  /\ UNCHANGED <<cashVars, intents, keyed, sent, misread>>

\* Stripe: the customer pays or fails to pay an intent; an intent is canceled.
Settle(o, i, status, events) ==
  /\ i \in DOMAIN intents[o] /\ intents[o][i] = "open"
  /\ intents' = [intents EXCEPT ![o][i] = status]
  /\ sent' = [sent EXCEPT ![o] = @ \cup events]
  /\ UNCHANGED <<payment, cashVars, keyed, shown, task, contended, misread>>

Pay(o, i) == i \in shown[o] /\ Settle(o, i, "succeeded", {<<i, "succeeded">>})
Decline(o, i) == i \in shown[o] /\ Settle(o, i, "open", {<<i, "payment_failed">>})
Cancel(o, i) == Settle(o, i, "canceled", {})

\* Stripe: the idempotency keys of an order are forgotten.
Forget(o) ==
  /\ keyed' = [keyed EXCEPT ![o] = [p \in 0..MaxIntents |-> NoIntent]]
  /\ misread' = misread \cup {o}
  /\ UNCHANGED <<payment, cashVars, intents, shown, sent, task, contended>>

\* handleStripeWebhook: the row is found by its intent; an event whose intent no row
\* has is answered with an error, and Stripe sends it again.
NamesAny(o, i) == TRUE  \* mutant
Names(o, i) == payment[o].intent = i

StatusUnmapped(type) == type  \* mutant
StatusOf(type) == IF type = "succeeded" THEN "COMPLETED" ELSE "FAILED"

Webhook(o, e) ==
  /\ e \in sent[o]
  /\ Names(o, e[1])
  /\ payment' = [payment EXCEPT ![o].status = StatusOf(e[2])]
  /\ UNCHANGED <<cashVars, stripeVars, task, contended>>

--------------------------------------------------------------------------------
(***************************************************************************)
(* Cash.                                                                   *)
(***************************************************************************)

\* One row of transactions and the codCollected of the wallet, in one transaction.
Book(d, o, amount, type) ==
  /\ Len(ledger) < MaxEntries
  /\ ledger' = Append(ledger, [driver |-> d, order |-> o, amount |-> amount,
                               type |-> type])

\* confirmCOD: the driver says the customer has paid.
ConfirmableUnmarked(o) ==  \* mutant
  payment[o].method # "STRIPE" /\ payment[o].status # "COMPLETED"
Confirmable(o) ==
  /\ payment[o].method # "STRIPE"
  /\ payment[o].status # "COMPLETED"
  /\ ~order[o].collected

ConfirmBegin(h, o, d) ==
  /\ Confirmable(o)
  /\ Begin(h, [op |-> "confirm", order |-> o, driver |-> d])
  /\ UNCHANGED <<payment, cashVars, stripeVars>>

ConfirmWrite(h) ==
  /\ Op(h, "confirm")
  /\ LET o == task[h].order
         d == task[h].driver
     IN /\ payment' = [payment EXCEPT ![o] = [@ EXCEPT !.method = "COD",
                                                       !.status = "COMPLETED"]]
        /\ Book(d, o, Fee, "COD_COLLECTION")
        /\ wallet' = [wallet EXCEPT ![d] = @ + Fee]
        /\ order' = [order EXCEPT ![o].collected = TRUE]
  /\ Continue(h, Idle)
  /\ UNCHANGED stripeVars

\* createEvent with DELIVERED, by a driver: it collects what is still to be collected.
CollectsFailed(o) ==  \* mutant
  payment[o].method = "COD" /\ payment[o].status = "FAILED" /\ ~order[o].collected
Collects(o) ==
  /\ payment[o].method = "COD"
  /\ payment[o].status # "COMPLETED"
  /\ ~order[o].collected

DeliverBegin(h, o, d) ==
  /\ ~order[o].delivered
  /\ Begin(h, [op |-> IF Collects(o) THEN "deliver" ELSE "deliverOnly",
               order |-> o, driver |-> d])
  /\ UNCHANGED <<payment, cashVars, stripeVars>>

DeliverWrite(h) ==
  /\ Op(h, "deliver")
  /\ LET o == task[h].order
         d == task[h].driver
     IN /\ order' = [order EXCEPT ![o] = [@ EXCEPT !.delivered = TRUE,
                                                   !.collected = TRUE]]
        /\ Book(d, o, Fee, "COD_COLLECTION")
        /\ wallet' = [wallet EXCEPT ![d] = @ + Fee]
        /\ payment' = [payment EXCEPT ![o].status = "COMPLETED"]
  /\ Continue(h, Idle)
  /\ UNCHANGED stripeVars

DeliverOnlyWrite(h) ==
  /\ Op(h, "deliverOnly")
  /\ order' = [order EXCEPT ![task[h].order].delivered = TRUE]
  /\ Continue(h, Idle)
  /\ UNCHANGED <<payment, wallet, ledger, stripeVars>>

\* addCodToDriver: any order, and the amount the driver types; the order is marked
\* in a write of its own.
AddBegin(h, o, d, amount) ==
  /\ ~order[o].collected
  /\ Begin(h, [op |-> "add", order |-> o, driver |-> d, amount |-> amount])
  /\ UNCHANGED <<payment, cashVars, stripeVars>>

AddWrite(h) ==
  /\ Op(h, "add")
  /\ LET r == task[h]
     IN /\ Book(r.driver, r.order, r.amount, "COD_COLLECTION")
        /\ wallet' = [wallet EXCEPT ![r.driver] = @ + r.amount]
        /\ Continue(h, [op |-> "addMark", order |-> r.order])
  /\ UNCHANGED <<payment, order, stripeVars>>

AddMark(h) ==
  /\ Op(h, "addMark")
  /\ order' = [order EXCEPT ![task[h].order].collected = TRUE]
  /\ Continue(h, Idle)
  /\ UNCHANGED <<payment, wallet, ledger, stripeVars>>

\* reconcileCodForDriver: the driver hands cash in, perhaps for a given order.
CoversSome(d, amount) == wallet[d] > 0  \* mutant
Covers(d, amount) == wallet[d] >= amount

Unsigned(amount) == amount  \* mutant
Debit(amount) == -amount

ReconcileBegin(h, d, amount, o) ==
  /\ Covers(d, amount)
  /\ Begin(h, [op |-> "reconcile", driver |-> d, amount |-> amount, order |-> o])
  /\ UNCHANGED <<payment, cashVars, stripeVars>>

ReconcileWrite(h) ==
  /\ Op(h, "reconcile")
  /\ LET r == task[h]
     IN /\ Book(r.driver, r.order, Debit(r.amount), "COD_RECONCILIATION")
        /\ wallet' = [wallet EXCEPT ![r.driver] = @ - r.amount]
        /\ Continue(h, IF r.order = NoOrder THEN Idle
                       ELSE [op |-> "reconcileMark", order |-> r.order])
  /\ UNCHANGED <<payment, order, stripeVars>>

\* The updateMany of reconcileCodForDriver.
MarkableAny(o) == TRUE  \* mutant
Markable(o) == order[o].collected

ReconcileMark(h) ==
  /\ Op(h, "reconcileMark")
  /\ LET o == task[h].order
     IN order' = IF Markable(o) THEN [order EXCEPT ![o].reconciled = TRUE] ELSE order
  /\ Continue(h, Idle)
  /\ UNCHANGED <<payment, wallet, ledger, stripeVars>>

\* The process dies, or what a request awaits throws: the request is gone.
BreakOff(h) ==
  /\ task[h] # Idle
  /\ task' = [task EXCEPT ![h] = Idle]
  /\ contended' = contended \cup Subject(task[h])
  /\ UNCHANGED <<payment, cashVars, stripeVars>>

--------------------------------------------------------------------------------
Proceed(h) ==
  \/ IntentRetrieve(h) \/ IntentCreate(h) \/ IntentSave(h) \/ ConfirmWrite(h)
  \/ DeliverWrite(h) \/ DeliverOnlyWrite(h) \/ AddWrite(h) \/ AddMark(h)
  \/ ReconcileWrite(h) \/ ReconcileMark(h)

Next ==
  \/ \E h \in Handler : Proceed(h) \/ BreakOff(h)
  \/ \E h \in Handler, o \in Order : IntentBegin(h, o)
  \/ \E h \in Handler, o \in Order, d \in Driver : ConfirmBegin(h, o, d) \/ DeliverBegin(h, o, d)
  \/ \E h \in Handler, o \in Order, d \in Driver, a \in Amounts : AddBegin(h, o, d, a)
  \/ \E h \in Handler, d \in Driver, a \in Amounts, o \in Order \cup {NoOrder} :
       ReconcileBegin(h, d, a, o)
  \/ \E o \in Order, i \in Intent : Pay(o, i) \/ Decline(o, i) \/ Cancel(o, i)
  \/ \E o \in Order, e \in Intent \X EventType : Webhook(o, e)
  \/ \E o \in Order : Forget(o)

Spec == Init /\ [][Next]_vars
--------------------------------------------------------------------------------
(***************************************************************************)
(* Properties.                                                             *)
(***************************************************************************)

\* A COMPLETED payment is money that has been paid: the intent in the row succeeded
\* at Stripe, or a driver collected the cash, whatever repeats or comes late.
CompletedIsPaid ==
  \A o \in Order : payment[o].status = "COMPLETED" =>
    IF payment[o].method = "COD" THEN order[o].collected
    ELSE intents[o][payment[o].intent] = "succeeded"

\* A tracking event delivers a COD order only against cash, whichever request
\* collected it, even if requests of the order overlap or break off.
DeliveredCollected ==
  \A o \in Order : payment[o].method = "COD" /\ order[o].delivered => order[o].collected

\* A mark on an order has its row of transactions: one says who owes the cash of a
\* collected order, and a reconciled order was collected and handed in.
MarkedIsBooked ==
  \A o \in Order :
    /\ order[o].collected =>
         \E i \in DOMAIN ledger : ledger[i].order = o /\ ledger[i].type = "COD_COLLECTION"
    /\ order[o].reconciled =>
         /\ order[o].collected
         /\ \E i \in DOMAIN ledger :
              ledger[i].order = o /\ ledger[i].type = "COD_RECONCILIATION"

\* The cash of an order is credited once, by confirmCOD, the delivery or add-cod,
\* unless two requests about the order overlapped or one broke off.
CreditedOnce ==
  \A i, j \in DOMAIN ledger :
    /\ i # j
    /\ ledger[i].type = "COD_COLLECTION" /\ ledger[j].type = "COD_COLLECTION"
    /\ ledger[i].order = ledger[j].order
    => ledger[i].order \in contended

\* A driver hands in no more than he owes, unless two of his reconciliations overlap.
OwesNoLess == \A d \in Driver : wallet[d] < 0 => d \in contended

\* The cash of COD orders is accounted for on the order, in the ledger and in the wallet,
\* whichever requests collect it and hand it in.
CashAccounted == DeliveredCollected /\ MarkedIsBooked /\ CreditedOnce /\ OwesNoLess

\* codCollected is the sum of the wallet's transactions.
AmountOf(rows, l) == MapThenSumSet(LAMBDA i : l[i].amount, rows)
RowsOf(d) == {i \in DOMAIN ledger : ledger[i].driver = d}
LedgerBalanced == \A d \in Driver : wallet[d] = AmountOf(RowsOf(d), ledger)

\* The customer is never left with two intents that can be paid, however requests
\* overlap and break off, as long as Stripe answers when asked for the last one
\* and remembers the keys.
OneOpenIntent ==
  \A o \in Order \ misread : \A i, j \in DOMAIN intents[o] :
    intents[o][i] = "open" /\ intents[o][j] = "open" => i = j
================================================================================
