---------------------------- MODULE Payments_proofs -----------------------------
(***************************************************************************)
(* The safety of payments, for any orders, drivers, requests in flight and *)
(* amounts, and however requests overlap and break off and Stripe repeats  *)
(* and reorders its events.  Three inductive invariants build on the       *)
(* types: card payments (CardInv), what the cash of an order rests on      *)
(* (CashInv), and what requests that meet no other may rely on (OnceInv).  *)
(* That wallets are the sums of the ledger's rows needs the types alone.   *)
(***************************************************************************)
EXTENDS Payments, SetLemmas

\* Intents, keys and events of one order.  Without an error of Stripe the key of each
\* intent but the last has the next one, so only the last can be open.
CardOrder(o) ==
  /\ payment[o].method = "COD" => payment[o].intent = NoIntent
  /\ payment[o].intent # NoIntent => payment[o].intent \in DOMAIN intents[o]
  /\ \A p \in 0..MaxIntents :
       keyed[o][p] # NoIntent => keyed[o][p] \in DOMAIN intents[o]
  /\ \A i \in Intent : <<i, "succeeded">> \in sent[o] =>
       i \in DOMAIN intents[o] /\ intents[o][i] = "succeeded"
  /\ o \notin misread =>
       /\ \A p \in 0..MaxIntents :
            keyed[o][p] = IF p < Len(intents[o]) THEN p + 1 ELSE NoIntent
       /\ \A i \in DOMAIN intents[o] : i < Len(intents[o]) => intents[o][i] # "open"

\* What request r about a payment holds: one for an intent is about a card payment,
\* the intent it found, if any, exists, and it is over when a new one is to replace it.
CardTask(r) ==
  /\ r.op \in {"retrieve", "create", "save"} => payment[r.order].method = "STRIPE"
  /\ r.op \in {"confirm", "deliver"} => payment[r.order].method = "COD"
  /\ r.op \in {"retrieve", "save"} => r.intent \in DOMAIN intents[r.order]
  /\ r.op = "create" /\ r.intent # NoIntent =>
       /\ r.intent \in DOMAIN intents[r.order]
       /\ r.order \notin misread => intents[r.order][r.intent] # "open"

CardInv ==
  /\ \A o \in Order : CardOrder(o)
  /\ \A h \in Handler : CardTask(task[h])

\* The ledger has cash collected for order o; cash handed in for it.
Credited(o) ==
  \E i \in DOMAIN ledger : ledger[i].order = o /\ ledger[i].type = "COD_COLLECTION"
HandedIn(o) ==
  \E i \in DOMAIN ledger : ledger[i].order = o /\ ledger[i].type = "COD_RECONCILIATION"

CashOrder(o) ==
  /\ payment[o].status = "COMPLETED" =>
       IF payment[o].method = "COD" THEN order[o].collected
       ELSE intents[o][payment[o].intent] = "succeeded"
  /\ payment[o].status = "COMPLETED" /\ payment[o].method = "STRIPE" =>
       payment[o].intent # NoIntent
  /\ payment[o].method = "COD" /\ order[o].delivered => order[o].collected
  /\ order[o].collected => Credited(o)
  /\ order[o].reconciled => order[o].collected /\ HandedIn(o)

CashTask(r) ==
  /\ r.op = "deliverOnly" /\ payment[r.order].method = "COD" => order[r.order].collected
  /\ r.op = "addMark" => Credited(r.order)
  /\ r.op = "reconcileMark" => HandedIn(r.order)

CashInv ==
  /\ \A o \in Order : CashOrder(o)
  /\ \A h \in Handler : CashTask(task[h])

\* Whose requests neither overlapped nor broke off has one request in flight; before
\* it credits the cash nobody has, and what it is to reconcile is owed.
OnceTask(r) ==
  /\ r.op \in {"confirm", "deliver", "add"} =>
       r.order \in contended \/ ~Credited(r.order)
  /\ r.op = "reconcile" => r.driver \in contended \/ wallet[r.driver] >= r.amount

OnceInv ==
  /\ \A g, h \in Handler :
       g # h => Subject(task[g]) \cap Subject(task[h]) \subseteq contended
  /\ \A o \in Order : Credited(o) =>
       \/ o \in contended
       \/ order[o].collected
       \/ \E h \in Handler : task[h].op = "addMark" /\ task[h].order = o
  /\ \A h \in Handler : OnceTask(task[h])
  /\ CreditedOnce
  /\ OwesNoLess

--------------------------------------------------------------------------------
(***************************************************************************)
(* Types.                                                                  *)
(***************************************************************************)

\* What a request holds is determined by its next step.
LEMMA TaskShape ==
  ASSUME NEW r \in Task
  PROVE  /\ r.op \in {"retrieve", "create", "save"} =>
              r \in [op : {"retrieve", "create", "save"}, order : Order,
                     intent : Intent \cup {NoIntent}]
         /\ r.op \in {"retrieve", "save"} => r.intent \in Intent
         /\ r.op \in {"confirm", "deliver", "deliverOnly"} =>
              r \in [op : {"confirm", "deliver", "deliverOnly"}, order : Order,
                     driver : Driver]
         /\ r.op = "add" =>
              r \in [op : {"add"}, order : Order, driver : Driver, amount : Amounts]
         /\ r.op \in {"addMark", "reconcileMark"} =>
              r \in [op : {"addMark", "reconcileMark"}, order : Order]
         /\ r.op = "reconcile" =>
              r \in [op : {"reconcile"}, driver : Driver, amount : Amounts,
                     order : Order \cup {NoOrder}]
BY DEF Task, Idle

\* Requests hold what their type says, and what they overlap with is an order or a
\* driver.
LEMMA TaskStep ==
  ASSUME TypeOK, NEW h \in Handler, NEW r \in Task, Begin(h, r) \/ Continue(h, r)
  PROVE  /\ task' \in [Handler -> Task]
         /\ contended' \subseteq Order \cup Driver
<1>1. task \in [Handler -> Task] /\ contended \subseteq Order \cup Driver
  BY DEF TypeOK
<1>2. \A g \in Handler : Subject(task[g]) \subseteq Order \cup Driver
  BY <1>1, TaskShape DEF Subject, Task, Idle
<1> QED
  BY <1>1, <1>2 DEF Begin, Continue

\* A row of transactions and a wallet keep their types.
LEMMA BookType ==
  ASSUME TypeOK, NEW d \in Driver, NEW o \in Order \cup {NoOrder}, NEW amount \in Int,
         NEW type \in {"COD_COLLECTION", "COD_RECONCILIATION"},
         Book(d, o, amount, type)
  PROVE  ledger' \in Seq(Entry)
<1>1. [driver |-> d, order |-> o, amount |-> amount, type |-> type] \in Entry
  BY DEF Entry
<1> QED
  BY <1>1 DEF TypeOK, Book

LEMMA TypeInit == Init => TypeOK
<1> SUFFICES ASSUME Init PROVE TypeOK
  OBVIOUS
<1>1. task \in [Handler -> Task] /\ order \in [Order -> OrderRow]
  BY DEF Init, Task, OrderRow
<1>2. payment \in [Order -> Payment]
  BY DEF Init, Payment
<1>3. keyed \in [Order -> [0..MaxIntents -> 0..MaxIntents]]
  BY BoundAssumption DEF Init, NoIntent
<1>4. /\ intents \in [Order -> Seq({"open", "succeeded", "canceled"})]
      /\ \A o \in Order : Len(intents[o]) <= MaxIntents
      /\ ledger \in Seq(Entry)
  BY BoundAssumption DEF Init
<1> QED
  BY <1>1, <1>2, <1>3, <1>4 DEF Init, TypeOK

\* The steps of a request for an intent.
LEMMA IntentType ==
  ASSUME TypeOK, NEW h \in Handler,
         \/ \E o \in Order : IntentBegin(h, o)
         \/ IntentRetrieve(h) \/ IntentCreate(h) \/ IntentSave(h)
  PROVE  TypeOK'
<1> USE BoundAssumption
<1>0. /\ task[h] \in Task /\ Idle \in Task
      /\ payment \in [Order -> Payment]
  BY DEF TypeOK, Task
<1>1. ASSUME NEW o \in Order, IntentBegin(h, o)
      PROVE  TypeOK'
  <2>1. PICK p \in Intent \cup {NoIntent}, op \in {"create", "retrieve"} :
          /\ Begin(h, [op |-> op, order |-> o, intent |-> p])
          /\ op = "retrieve" => p # NoIntent
    BY <1>0, <1>1 DEF IntentBegin, Payment
  <2>2. [op |-> op, order |-> o, intent |-> p] \in Task
    BY <2>1 DEF Task
  <2>3. task' \in [Handler -> Task] /\ contended' \subseteq Order \cup Driver
    BY <2>1, <2>2, TaskStep
  <2> QED
    BY <1>1, <2>3 DEF IntentBegin, TypeOK, cashVars, stripeVars
<1>2. CASE IntentRetrieve(h)
  <2>1. /\ task[h] \in [op : {"retrieve"}, order : Order, intent : Intent]
    BY <1>0, <1>2, TaskShape DEF IntentRetrieve, Op
  <2>2. [task[h] EXCEPT !.op = "create"] \in Task
    BY <2>1 DEF Task
  <2>3. task' \in [Handler -> Task] /\ contended' \subseteq Order \cup Driver
    BY <1>0, <1>2, <2>2, TaskStep DEF IntentRetrieve
  <2>4. shown' \in [Order -> SUBSET Intent] /\ misread' \subseteq Order
    <3>1. PICK o \in Order, i \in Intent : o = task[h].order /\ i = task[h].intent
      BY <2>1
    <3>2. shown \in [Order -> SUBSET Intent] /\ misread \subseteq Order
      BY DEF TypeOK
    <3>3. \/ shown' = [shown EXCEPT ![o] = @ \cup {i}] /\ misread' = misread
          \/ shown' = shown /\ misread' \in {misread, misread \cup {o}}
      BY <1>2, <3>1 DEF IntentRetrieve
    <3> QED
      BY <3>2, <3>3
  <2> QED
    BY <1>2, <2>3, <2>4 DEF IntentRetrieve, TypeOK, cashVars
<1>3. CASE IntentCreate(h)
  <2>1. task[h] \in [op : {"create"}, order : Order, intent : Intent \cup {NoIntent}]
    BY <1>0, <1>3, TaskShape DEF IntentCreate, Op
  <2>2. PICK o \in Order, p \in 0..MaxIntents :
          o = task[h].order /\ p = task[h].intent
    BY <2>1 DEF Intent, NoIntent
  <2>3. PICK i \in Intent :
          /\ i = Created(o, p)
          /\ intents' = IF i \in DOMAIN intents[o] THEN intents
                        ELSE [intents EXCEPT ![o] = Append(@, "open")]
          /\ keyed' = [keyed EXCEPT ![o][p] = i]
          /\ Continue(h, [task[h] EXCEPT !.op = "save", !.intent = i])
    BY <1>3, <2>2 DEF IntentCreate
  <2>4. [task[h] EXCEPT !.op = "save", !.intent = i] \in Task
    BY <2>1 DEF Task
  <2>5. task' \in [Handler -> Task] /\ contended' \subseteq Order \cup Driver
    BY <2>3, <2>4, TaskStep
  <2>6. keyed' \in [Order -> [0..MaxIntents -> 0..MaxIntents]]
    BY <2>3 DEF TypeOK, Intent
  <2>7. /\ intents' \in [Order -> Seq({"open", "succeeded", "canceled"})]
        /\ \A q \in Order : Len(intents'[q]) <= MaxIntents
    <3>0. /\ intents \in [Order -> Seq({"open", "succeeded", "canceled"})]
          /\ keyed \in [Order -> [0..MaxIntents -> 0..MaxIntents]]
          /\ \A q \in Order : Len(intents[q]) <= MaxIntents
      BY DEF TypeOK
    <3>1. CASE i \in DOMAIN intents[o]
      BY <2>3, <3>0, <3>1
    <3>2. CASE i \notin DOMAIN intents[o]
      <4>1. Append(intents[o], "open") \in Seq({"open", "succeeded", "canceled"})
        BY <3>0
      <4>2. Len(Append(intents[o], "open")) <= MaxIntents
        BY <3>0, <3>2 DEF Intent
      <4> QED
        BY <2>3, <3>0, <3>2, <4>1, <4>2
    <3> QED
      BY <3>1, <3>2
  <2> QED
    BY <1>3, <2>5, <2>6, <2>7 DEF IntentCreate, TypeOK, cashVars
<1>4. CASE IntentSave(h)
  <2>1. /\ task[h] \in [op : {"save"}, order : Order, intent : Intent]
    BY <1>0, <1>4, TaskShape DEF IntentSave, Op
  <2>2. task' \in [Handler -> Task] /\ contended' \subseteq Order \cup Driver
    BY <1>0, <1>4, TaskStep DEF IntentSave
  <2>3. payment' \in [Order -> Payment] /\ shown' \in [Order -> SUBSET Intent]
    BY <1>4, <2>1 DEF IntentSave, TypeOK, Payment
  <2> QED
    BY <1>4, <2>2, <2>3 DEF IntentSave, TypeOK, cashVars
<1> QED
  BY <1>1, <1>2, <1>3, <1>4

\* The steps of Stripe.
LEMMA StripeType ==
  ASSUME TypeOK, NEW o \in Order,
         \/ \E i \in Intent : Pay(o, i) \/ Decline(o, i) \/ Cancel(o, i)
         \/ \E e \in Intent \X EventType : Webhook(o, e)
         \/ Forget(o)
  PROVE  TypeOK'
<1> USE BoundAssumption
<1>1. ASSUME NEW i \in Intent, NEW status \in {"open", "succeeded", "canceled"},
             NEW events \in SUBSET (Intent \X EventType), Settle(o, i, status, events)
      PROVE  TypeOK'
  <2>0. /\ intents \in [Order -> Seq({"open", "succeeded", "canceled"})]
        /\ sent \in [Order -> SUBSET (Intent \X EventType)]
        /\ \A q \in Order : Len(intents[q]) <= MaxIntents
    BY DEF TypeOK
  <2>1. [intents[o] EXCEPT ![i] = status] \in Seq({"open", "succeeded", "canceled"})
    BY <1>1, <2>0 DEF Settle
  <2>2. Len([intents[o] EXCEPT ![i] = status]) <= MaxIntents
    BY <1>1, <2>0 DEF Settle
  <2>3. intents' = [intents EXCEPT ![o] = [intents[o] EXCEPT ![i] = status]]
    BY <1>1, <2>0 DEF Settle
  <2>4. /\ intents' \in [Order -> Seq({"open", "succeeded", "canceled"})]
        /\ \A q \in Order : Len(intents'[q]) <= MaxIntents
    BY <2>0, <2>1, <2>2, <2>3
  <2>5. sent' \in [Order -> SUBSET (Intent \X EventType)]
    BY <1>1, <2>0 DEF Settle
  <2> QED
    BY <1>1, <2>4, <2>5 DEF Settle, TypeOK, cashVars
<1>2. ASSUME NEW i \in Intent, Pay(o, i) \/ Decline(o, i) \/ Cancel(o, i)
      PROVE  TypeOK'
  BY <1>1, <1>2 DEF Pay, Decline, Cancel, EventType
<1>3. ASSUME NEW e \in Intent \X EventType, Webhook(o, e)
      PROVE  TypeOK'
  <2>1. payment \in [Order -> Payment] /\ StatusOf(e[2]) \in {"COMPLETED", "FAILED"}
    BY DEF TypeOK, StatusOf
  <2>2. payment' \in [Order -> Payment]
    BY <1>3, <2>1 DEF Webhook, Payment
  <2> QED
    BY <1>3, <2>2 DEF Webhook, TypeOK, cashVars, stripeVars
<1>4. CASE Forget(o)
  <2>1. keyed' \in [Order -> [0..MaxIntents -> 0..MaxIntents]] /\ misread' \subseteq Order
    <3>1. NoIntent \in 0..MaxIntents
      BY DEF NoIntent
    <3>2. [p \in 0..MaxIntents |-> NoIntent] \in [0..MaxIntents -> 0..MaxIntents]
      BY <3>1
    <3>3. /\ keyed \in [Order -> [0..MaxIntents -> 0..MaxIntents]]
          /\ misread \subseteq Order
      BY DEF TypeOK
    <3> QED
      BY <1>4, <3>2, <3>3 DEF Forget
  <2> QED
    BY <1>4, <2>1 DEF Forget, TypeOK, cashVars
<1> QED
  BY <1>2, <1>3, <1>4

\* The steps of a request about cash that collect it.
LEMMA CollectType ==
  ASSUME TypeOK, NEW h \in Handler,
         \/ \E o \in Order, d \in Driver : ConfirmBegin(h, o, d) \/ DeliverBegin(h, o, d)
         \/ ConfirmWrite(h) \/ DeliverWrite(h) \/ DeliverOnlyWrite(h)
  PROVE  TypeOK'
<1>0. /\ task[h] \in Task /\ Idle \in Task /\ Fee \in Int
      /\ payment \in [Order -> Payment] /\ order \in [Order -> OrderRow]
      /\ wallet \in [Driver -> Int]
  BY AmountAssumption DEF TypeOK, Task
<1>1. ASSUME NEW o \in Order, NEW d \in Driver,
             ConfirmBegin(h, o, d) \/ DeliverBegin(h, o, d)
      PROVE  TypeOK'
  <2>1. PICK op \in {"confirm", "deliver", "deliverOnly"} :
          Begin(h, [op |-> op, order |-> o, driver |-> d])
    BY <1>1 DEF ConfirmBegin, DeliverBegin
  <2>2. [op |-> op, order |-> o, driver |-> d] \in Task
    BY DEF Task
  <2>3. task' \in [Handler -> Task] /\ contended' \subseteq Order \cup Driver
    BY <2>1, <2>2, TaskStep
  <2> QED
    BY <1>1, <2>3 DEF ConfirmBegin, DeliverBegin, TypeOK, cashVars, stripeVars
<1>2. CASE ConfirmWrite(h) \/ DeliverWrite(h)
  <2>1. task[h].order \in Order /\ task[h].driver \in Driver
    BY <1>0, <1>2, TaskShape DEF ConfirmWrite, DeliverWrite, Op
  <2>2. task' \in [Handler -> Task] /\ contended' \subseteq Order \cup Driver
    BY <1>0, <1>2, TaskStep DEF ConfirmWrite, DeliverWrite
  <2>3. ledger' \in Seq(Entry)
    BY <1>0, <1>2, <2>1, BookType DEF ConfirmWrite, DeliverWrite
  <2>4. payment' \in [Order -> Payment]
    <3>1. PICK o \in Order : o = task[h].order
      BY <2>1
    <3>2. /\ [payment[o] EXCEPT !.method = "COD", !.status = "COMPLETED"] \in Payment
          /\ [payment[o] EXCEPT !.status = "COMPLETED"] \in Payment
      BY <1>0 DEF Payment
    <3>3. \E row \in Payment : payment' = [payment EXCEPT ![o] = row]
      BY <1>2, <3>1, <3>2 DEF ConfirmWrite, DeliverWrite
    <3> QED
      BY <1>0, <3>3
  <2>6. order' \in [Order -> OrderRow]
    <3>1. PICK o \in Order : o = task[h].order
      BY <2>1
    <3>2. /\ [order[o] EXCEPT !.collected = TRUE] \in OrderRow
          /\ [order[o] EXCEPT !.delivered = TRUE, !.collected = TRUE] \in OrderRow
      BY <1>0 DEF OrderRow
    <3>3. \E row \in OrderRow : order' = [order EXCEPT ![o] = row]
      BY <1>2, <3>1, <3>2 DEF ConfirmWrite, DeliverWrite
    <3> QED
      BY <1>0, <3>3
  <2>5. wallet' \in [Driver -> Int]
    BY <1>0, <1>2, <2>1 DEF ConfirmWrite, DeliverWrite
  <2> QED
    BY <1>2, <2>2, <2>3, <2>4, <2>5, <2>6
    DEF ConfirmWrite, DeliverWrite, TypeOK, stripeVars
<1>3. CASE DeliverOnlyWrite(h)
  <2>1. task[h].order \in Order
    BY <1>0, <1>3, TaskShape DEF DeliverOnlyWrite, Op
  <2>2. task' \in [Handler -> Task] /\ contended' \subseteq Order \cup Driver
    BY <1>0, <1>3, TaskStep DEF DeliverOnlyWrite
  <2>3. order' \in [Order -> OrderRow]
    BY <1>0, <1>3, <2>1 DEF DeliverOnlyWrite, OrderRow
  <2> QED
    BY <1>3, <2>2, <2>3 DEF DeliverOnlyWrite, TypeOK, stripeVars
<1> QED
  BY <1>1, <1>2, <1>3

\* The steps of add-cod, of a reconciliation, and a request that breaks off.
LEMMA WalletType ==
  ASSUME TypeOK, NEW h \in Handler,
         \/ \E o \in Order, d \in Driver, a \in Amounts : AddBegin(h, o, d, a)
         \/ \E d \in Driver, a \in Amounts, o \in Order \cup {NoOrder} :
              ReconcileBegin(h, d, a, o)
         \/ AddWrite(h) \/ AddMark(h) \/ ReconcileWrite(h) \/ ReconcileMark(h)
         \/ BreakOff(h)
  PROVE  TypeOK'
<1>0. /\ task[h] \in Task /\ Idle \in Task /\ Amounts \subseteq Nat
      /\ order \in [Order -> OrderRow] /\ wallet \in [Driver -> Int]
  BY AmountAssumption DEF TypeOK, Task
<1>1. ASSUME NEW o \in Order, NEW d \in Driver, NEW a \in Amounts, AddBegin(h, o, d, a)
      PROVE  TypeOK'
  <2>1. [op |-> "add", order |-> o, driver |-> d, amount |-> a] \in Task
    BY DEF Task
  <2>2. task' \in [Handler -> Task] /\ contended' \subseteq Order \cup Driver
    BY <1>1, <2>1, TaskStep DEF AddBegin
  <2> QED
    BY <1>1, <2>2 DEF AddBegin, TypeOK, cashVars, stripeVars
<1>2. ASSUME NEW d \in Driver, NEW a \in Amounts, NEW o \in Order \cup {NoOrder},
             ReconcileBegin(h, d, a, o)
      PROVE  TypeOK'
  <2>1. [op |-> "reconcile", driver |-> d, amount |-> a, order |-> o] \in Task
    BY DEF Task
  <2>2. task' \in [Handler -> Task] /\ contended' \subseteq Order \cup Driver
    BY <1>2, <2>1, TaskStep DEF ReconcileBegin
  <2> QED
    BY <1>2, <2>2 DEF ReconcileBegin, TypeOK, cashVars, stripeVars
<1>3. CASE AddWrite(h)
  <2>1. PICK o \in Order, d \in Driver, a \in Amounts :
          o = task[h].order /\ d = task[h].driver /\ a = task[h].amount
    BY <1>0, <1>3, TaskShape DEF AddWrite, Op
  <2>2. [op |-> "addMark", order |-> o] \in Task /\ a \in Int
    BY <1>0 DEF Task
  <2>3. task' \in [Handler -> Task] /\ contended' \subseteq Order \cup Driver
    BY <1>3, <2>1, <2>2, TaskStep DEF AddWrite
  <2>4. ledger' \in Seq(Entry) /\ wallet' \in [Driver -> Int]
    BY <1>0, <1>3, <2>1, <2>2, BookType DEF AddWrite
  <2> QED
    BY <1>3, <2>3, <2>4 DEF AddWrite, TypeOK, stripeVars
<1>4. CASE AddMark(h) \/ ReconcileMark(h)
  <2>1. task[h].order \in Order
    BY <1>0, <1>4, TaskShape DEF AddMark, ReconcileMark, Op
  <2>2. task' \in [Handler -> Task] /\ contended' \subseteq Order \cup Driver
    BY <1>0, <1>4, TaskStep DEF AddMark, ReconcileMark
  <2>3. order' \in [Order -> OrderRow]
    BY <1>0, <1>4, <2>1 DEF AddMark, ReconcileMark, OrderRow
  <2> QED
    BY <1>4, <2>2, <2>3 DEF AddMark, ReconcileMark, TypeOK, stripeVars
<1>5. CASE ReconcileWrite(h)
  <2>1. PICK o \in Order \cup {NoOrder}, d \in Driver, a \in Amounts :
          o = task[h].order /\ d = task[h].driver /\ a = task[h].amount
    BY <1>0, <1>5, TaskShape DEF ReconcileWrite, Op
  <2>2. o \in Order => [op |-> "reconcileMark", order |-> o] \in Task
    BY DEF Task
  <2>3. a \in Int /\ Debit(a) \in Int
    BY <1>0 DEF Debit
  <2>4. Continue(h, IF o = NoOrder THEN Idle ELSE [op |-> "reconcileMark", order |-> o])
    BY <1>5, <2>1 DEF ReconcileWrite
  <2>5. task' \in [Handler -> Task] /\ contended' \subseteq Order \cup Driver
    BY <1>0, <2>2, <2>4, TaskStep
  <2>6. ledger' \in Seq(Entry)
    <3>1. Book(d, o, Debit(a), "COD_RECONCILIATION")
      BY <1>5, <2>1 DEF ReconcileWrite
    <3> QED
      BY <2>3, <3>1, BookType
  <2>7. wallet' \in [Driver -> Int]
    BY <1>0, <1>5, <2>1, <2>3 DEF ReconcileWrite
  <2> QED
    BY <1>5, <2>5, <2>6, <2>7 DEF ReconcileWrite, TypeOK, stripeVars
<1>6. CASE BreakOff(h)
  <2>1. task' \in [Handler -> Task] /\ contended' \subseteq Order \cup Driver
    BY <1>0, <1>6, TaskShape DEF BreakOff, TypeOK, Subject, Task, Idle
  <2> QED
    BY <1>6, <2>1 DEF BreakOff, TypeOK, cashVars, stripeVars
<1> QED
  BY <1>1, <1>2, <1>3, <1>4, <1>5, <1>6

LEMMA TypeStep == TypeOK /\ [Next]_vars => TypeOK'
<1> SUFFICES ASSUME TypeOK, [Next]_vars PROVE TypeOK'
  OBVIOUS
<1>1. CASE UNCHANGED vars
  BY <1>1 DEF TypeOK, vars
<1>2. CASE Next
  BY <1>2, IntentType, StripeType, CollectType, WalletType DEF Next, Proceed
<1> QED
  BY <1>1, <1>2

--------------------------------------------------------------------------------
(***************************************************************************)
(* Card payments.                                                          *)
(***************************************************************************)

\* The method of a payment never changes.
LEMMA MethodFixed ==
  ASSUME TypeOK, CardInv, [Next]_vars, NEW q \in Order
  PROVE  payment'[q].method = payment[q].method
<1>0. /\ \A h \in Handler : task[h] \in Task /\ CardTask(task[h])
      /\ payment \in [Order -> Payment]
  BY DEF TypeOK, CardInv
<1>1. ASSUME NEW h \in Handler, IntentSave(h)
      PROVE  payment'[q].method = payment[q].method
  <2>1. PICK o \in Order : o = task[h].order /\ payment[o].method = "STRIPE"
    BY <1>0, <1>1, TaskShape DEF IntentSave, Op, CardTask
  <2> QED
    BY <1>0, <1>1, <2>1 DEF IntentSave
<1>2. ASSUME NEW h \in Handler, ConfirmWrite(h)
      PROVE  payment'[q].method = payment[q].method
  <2>1. PICK o \in Order : o = task[h].order /\ payment[o].method = "COD"
    BY <1>0, <1>2, TaskShape DEF ConfirmWrite, Op, CardTask
  <2> QED
    BY <1>0, <1>2, <2>1 DEF ConfirmWrite, Payment
<1>3. ASSUME NEW h \in Handler, DeliverWrite(h)
      PROVE  payment'[q].method = payment[q].method
  BY <1>0, <1>3 DEF DeliverWrite, Payment
<1>4. ASSUME NEW o \in Order, NEW e \in Intent \X EventType, Webhook(o, e)
      PROVE  payment'[q].method = payment[q].method
  BY <1>0, <1>4 DEF Webhook, Payment
<1>5. CASE UNCHANGED payment
  BY <1>5
<1> QED
  BY <1>1, <1>2, <1>3, <1>4, <1>5
  DEF Next, vars, Proceed, IntentBegin, IntentRetrieve, IntentCreate, DeliverOnlyWrite,
      ConfirmBegin, DeliverBegin, AddBegin, AddWrite, AddMark, ReconcileBegin,
      ReconcileWrite, ReconcileMark, BreakOff, Pay, Decline, Cancel, Settle, Forget

\* The intent of a payment changes only when a request saves one.
LEMMA IntentFixed ==
  ASSUME TypeOK, [Next]_vars, NEW q \in Order
  PROVE  \/ payment'[q].intent = payment[q].intent
         \/ \E h \in Handler : IntentSave(h) /\ task[h].order = q
<1>0. payment \in [Order -> Payment]
  BY DEF TypeOK
<1>1. ASSUME NEW h \in Handler, ConfirmWrite(h) \/ DeliverWrite(h)
      PROVE  payment'[q].intent = payment[q].intent
  <2>1. CASE ConfirmWrite(h)
    BY <1>0, <2>1 DEF ConfirmWrite, Payment
  <2>2. CASE DeliverWrite(h)
    BY <1>0, <2>2 DEF DeliverWrite, Payment
  <2> QED
    BY <1>1, <2>1, <2>2
<1>2. ASSUME NEW o \in Order, NEW e \in Intent \X EventType, Webhook(o, e)
      PROVE  payment'[q].intent = payment[q].intent
  BY <1>0, <1>2 DEF Webhook, Payment
<1>3. ASSUME NEW h \in Handler, IntentSave(h), task[h].order # q
      PROVE  payment'[q].intent = payment[q].intent
  BY <1>0, <1>3 DEF IntentSave
<1>4. CASE UNCHANGED payment
  BY <1>4
<1> QED
  BY <1>1, <1>2, <1>3, <1>4
  DEF Next, vars, Proceed, IntentBegin, IntentRetrieve, IntentCreate, DeliverOnlyWrite,
      ConfirmBegin, DeliverBegin, AddBegin, AddWrite, AddMark, ReconcileBegin,
      ReconcileWrite, ReconcileMark, BreakOff, Pay, Decline, Cancel, Settle, Forget

\* An intent stays, and one that is over keeps its status.
Lasting(q) ==
  /\ DOMAIN intents[q] \subseteq DOMAIN intents'[q]
  /\ \A i \in DOMAIN intents[q] :
       intents[q][i] # "open" => intents'[q][i] = intents[q][i]

LEMMA IntentsLast ==
  ASSUME TypeOK, [Next]_vars, NEW q \in Order
  PROVE  Lasting(q)
<1>0. /\ intents \in [Order -> Seq({"open", "succeeded", "canceled"})]
      /\ \A h \in Handler : task[h] \in Task
  BY DEF TypeOK
<1>1. ASSUME NEW h \in Handler, IntentCreate(h)
      PROVE  Lasting(q)
  <2>1. PICK o \in Order : \/ intents' = intents
                           \/ intents' = [intents EXCEPT ![o] = Append(@, "open")]
    BY <1>0, <1>1, TaskShape DEF IntentCreate, Op
  <2>2. intents[o] \in Seq({"open", "succeeded", "canceled"})
    BY <1>0
  <2>3. \A i \in DOMAIN intents[o] : /\ i \in DOMAIN Append(intents[o], "open")
                                    /\ Append(intents[o], "open")[i] = intents[o][i]
    BY <2>2
  <2> QED
    BY <1>0, <2>1, <2>3 DEF Lasting
<1>2. ASSUME NEW o \in Order, NEW i, NEW status, NEW events,
             Settle(o, i, status, events)
      PROVE  Lasting(q)
  BY <1>0, <1>2 DEF Settle, Lasting
<1>3. CASE UNCHANGED intents
  BY <1>3 DEF Lasting
<1> QED
  BY <1>1, <1>2, <1>3
  DEF Next, vars, Proceed, IntentBegin, IntentRetrieve, IntentSave, ConfirmWrite,
      DeliverWrite, DeliverOnlyWrite, ConfirmBegin, DeliverBegin, AddBegin, AddWrite,
      AddMark, ReconcileBegin, ReconcileWrite, ReconcileMark, BreakOff, Pay, Decline,
      Cancel, Forget, Webhook, stripeVars

\* A step that leaves Stripe and the rows' intents alone, and starts or resumes only
\* requests that hold what CardTask says, keeps CardInv.
LEMMA CardQuiet ==
  ASSUME CardInv, UNCHANGED <<intents, keyed, sent, misread>>,
         \A q \in Order : /\ payment'[q].method = payment[q].method
                          /\ payment'[q].intent = payment[q].intent,
         \A g \in Handler : task'[g] = task[g] \/ CardTask(task'[g]),
         TypeOK'
  PROVE  CardInv'
<1>1. \A q \in Order : CardOrder(q)'
  BY DEF CardInv, CardOrder
<1>2. ASSUME NEW g \in Handler
      PROVE  CardTask(task[g])'
  <2>1. CardTask(task'[g])
    BY <1>2 DEF CardInv
  <2>2. task'[g] \in Task
    BY <1>2 DEF TypeOK
  <2> QED
    BY <2>1, <2>2, TaskShape DEF CardTask
<1> QED
  BY <1>1, <1>2 DEF CardInv

\* What a request holds stays so, whatever the others do.
LEMMA CardTaskLasts ==
  ASSUME TypeOK, CardInv, [Next]_vars, misread \subseteq misread',
         NEW r \in Task, CardTask(r)
  PROVE  CardTask(r)'
<1>1. r.op \in {"retrieve", "create", "save", "confirm", "deliver"} => r.order \in Order
  BY TaskShape
<1>2. r.order \in Order =>
        payment'[r.order].method = payment[r.order].method /\ Lasting(r.order)
  BY MethodFixed, IntentsLast
<1>3. /\ r.op \in {"retrieve", "save"} => r.intent \in DOMAIN intents'[r.order]
      /\ r.op = "create" /\ r.intent # NoIntent =>
           /\ r.intent \in DOMAIN intents'[r.order]
           /\ r.order \notin misread' => intents'[r.order][r.intent] # "open"
  BY <1>1, <1>2 DEF CardTask, Lasting
<1> QED
  BY <1>1, <1>2, <1>3 DEF CardTask

\* A new intent.
LEMMA CardCreate ==
  ASSUME TypeOK, CardInv, TypeOK', [Next]_vars, NEW h \in Handler, IntentCreate(h)
  PROVE  CardInv'
<1> USE BoundAssumption DEF NoIntent
<1>0. /\ intents \in [Order -> Seq({"open", "succeeded", "canceled"})]
      /\ keyed \in [Order -> [0..MaxIntents -> 0..MaxIntents]]
      /\ task \in [Handler -> Task]
  BY DEF TypeOK
<1>1. task[h] \in [op : {"create"}, order : Order, intent : Intent \cup {NoIntent}]
  BY <1>0, TaskShape DEF IntentCreate, Op
<1>2. PICK o \in Order, p \in 0..MaxIntents : o = task[h].order /\ p = task[h].intent
  BY <1>1 DEF Intent
<1>3. CardOrder(o) /\ CardTask(task[h])
  BY DEF CardInv
<1>4. PICK i \in Intent :
        /\ i = IF keyed[o][p] = NoIntent THEN Len(intents[o]) + 1 ELSE keyed[o][p]
        /\ intents' = IF i \in DOMAIN intents[o] THEN intents
                      ELSE [intents EXCEPT ![o] = Append(@, "open")]
        /\ keyed' = [keyed EXCEPT ![o][p] = i]
        /\ task' = [task EXCEPT ![h] = [task[h] EXCEPT !.op = "save", !.intent = i]]
        /\ UNCHANGED <<payment, sent, misread>>
  BY <1>2 DEF IntentCreate, Created, Continue
<1>5. p # NoIntent => /\ p \in DOMAIN intents[o]
                      /\ o \notin misread => intents[o][p] # "open"
  BY <1>1, <1>2, <1>3 DEF CardTask
\* Either Stripe knows the key, or it makes the next intent.
<1>6. /\ i \in DOMAIN intents'[o]
      /\ \/ i \in DOMAIN intents[o] /\ intents' = intents
         \/ /\ keyed[o][p] = NoIntent /\ i = Len(intents[o]) + 1
            /\ Len(intents'[o]) = Len(intents[o]) + 1
            /\ intents'[o][i] = "open"
            /\ \A j \in DOMAIN intents[o] : intents'[o][j] = intents[o][j]
            /\ \A q \in Order \ {o} : intents'[q] = intents[q]
  <2>1. intents[o] \in Seq({"open", "succeeded", "canceled"})
    BY <1>0
  <2>2. keyed[o][p] # NoIntent => keyed[o][p] \in DOMAIN intents[o]
    BY <1>3 DEF CardOrder
  <2>3. /\ Len(Append(intents[o], "open")) = Len(intents[o]) + 1
        /\ Append(intents[o], "open")[Len(intents[o]) + 1] = "open"
        /\ \A j \in DOMAIN intents[o] : Append(intents[o], "open")[j] = intents[o][j]
        /\ DOMAIN Append(intents[o], "open") = 1..(Len(intents[o]) + 1)
        /\ DOMAIN intents[o] = 1..Len(intents[o]) /\ Len(intents[o]) \in Nat
    BY <2>1
  <2>4. CASE keyed[o][p] # NoIntent
    BY <1>4, <2>2, <2>4
  <2>5. CASE keyed[o][p] = NoIntent
    <3>1. i = Len(intents[o]) + 1 /\ i \notin DOMAIN intents[o]
      BY <1>4, <2>3, <2>5
    <3>2. intents' = [intents EXCEPT ![o] = Append(intents[o], "open")]
      BY <1>4, <3>1
    <3>3. intents'[o] = Append(intents[o], "open")
      BY <1>0, <3>2
    <3>4. \A q \in Order \ {o} : intents'[q] = intents[q]
      BY <1>0, <3>2
    <3>5. i \in DOMAIN intents'[o]
      BY <2>3, <3>1, <3>3
    <3> QED
      BY <2>3, <2>5, <3>1, <3>3, <3>4, <3>5
  <2> QED
    BY <2>4, <2>5
<1>7. ASSUME NEW q \in Order
      PROVE  CardOrder(q)'
  <2>1. CASE q # o
    <3>1. intents'[q] = intents[q] /\ keyed'[q] = keyed[q]
      BY <1>0, <1>4, <1>6, <2>1
    <3>2. CardOrder(q)
      BY DEF CardInv
    <3> QED
      BY <1>4, <3>1, <3>2 DEF CardOrder
  <2>2. CASE q = o
    <3>0. /\ DOMAIN intents[o] = 1..Len(intents[o]) /\ Len(intents[o]) \in Nat
          /\ DOMAIN intents'[o] = 1..Len(intents'[o])
      BY <1>0, <2>2 DEF TypeOK
    <3>1. /\ \A j \in DOMAIN intents[o] :
               j \in DOMAIN intents'[o] /\ intents'[o][j] = intents[o][j]
      BY <1>6, <3>0
    <3>2. /\ keyed'[o][p] = i
          /\ \A r \in 0..MaxIntents : r # p => keyed'[o][r] = keyed[o][r]
      BY <1>0, <1>4
    <3>3. \A r \in 0..MaxIntents :
            keyed'[o][r] # NoIntent => keyed'[o][r] \in DOMAIN intents'[o]
      BY <1>3, <1>6, <3>1, <3>2 DEF CardOrder
    <3>4. ASSUME o \notin misread
          PROVE  /\ \A r \in 0..MaxIntents : keyed'[o][r] =
                      IF r < Len(intents'[o]) THEN r + 1 ELSE NoIntent
                 /\ \A j \in DOMAIN intents'[o] :
                      j < Len(intents'[o]) => intents'[o][j] # "open"
      <4>0. /\ \A r \in 0..MaxIntents :
                 keyed[o][r] = IF r < Len(intents[o]) THEN r + 1 ELSE NoIntent
            /\ \A j \in DOMAIN intents[o] :
                 j < Len(intents[o]) => intents[o][j] # "open"
        BY <1>3, <3>4 DEF CardOrder
      <4>1. CASE keyed[o][p] # NoIntent
        BY <1>4, <1>6, <3>2, <4>0, <4>1
      <4>2. CASE keyed[o][p] = NoIntent
        <5>1. i = Len(intents[o]) + 1 /\ Len(intents'[o]) = Len(intents[o]) + 1
          BY <1>4, <1>6, <3>0, <4>2
        <5>2. p = Len(intents[o])
          BY <1>5, <3>0, <4>0, <4>2
        <5>3. \A r \in 0..MaxIntents : keyed'[o][r] =
                IF r < Len(intents'[o]) THEN r + 1 ELSE NoIntent
          BY <3>0, <3>2, <4>0, <5>1, <5>2
        <5>4. ASSUME NEW j \in DOMAIN intents'[o], j < Len(intents'[o])
              PROVE  intents'[o][j] # "open"
          <6>1. j \in DOMAIN intents[o] /\ intents'[o][j] = intents[o][j]
            BY <3>0, <3>1, <5>1, <5>4
          <6>2. j < Len(intents[o]) \/ j = p
            BY <3>0, <5>1, <5>2, <5>4
          <6> QED
            BY <1>5, <3>0, <3>4, <4>0, <5>2, <6>1, <6>2
        <5> QED
          BY <5>3, <5>4
      <4> QED
        BY <4>1, <4>2
    <3> QED
      BY <1>3, <1>4, <2>2, <3>1, <3>3, <3>4 DEF CardOrder
  <2> QED
    BY <2>1, <2>2
<1>8. ASSUME NEW g \in Handler
      PROVE  CardTask(task[g])'
  <2>1. CASE g = h
    <3>1. task'[h] = [task[h] EXCEPT !.op = "save", !.intent = i]
      BY <1>0, <1>4
    <3>2. task'[h].op = "save" /\ task'[h].order = o /\ task'[h].intent = i
      BY <1>1, <1>2, <3>1
    <3>3. payment'[o].method = "STRIPE"
      BY <1>1, <1>2, <1>3, <1>4 DEF CardTask
    <3> QED
      BY <1>6, <2>1, <3>2, <3>3 DEF CardTask
  <2>2. CASE g # h
    <3>1. task'[g] = task[g] /\ task[g] \in Task /\ CardTask(task[g])
      BY <1>0, <1>4, <2>2 DEF CardInv
    <3>2. PICK r \in Task : r = task[g] /\ r = task'[g] /\ CardTask(r)
      BY <3>1 DEF CardTask
    <3>3. CardTask(r)'
      BY <1>4, <3>2, CardTaskLasts
    <3> QED
      BY <3>2, <3>3 DEF CardTask
  <2> QED
    BY <2>1, <2>2
<1> QED
  BY <1>7, <1>8 DEF CardInv

\* An intent is shown again, or is to be replaced: it is over, or Stripe erred.
LEMMA CardRetrieve ==
  ASSUME TypeOK, CardInv, TypeOK', [Next]_vars, NEW h \in Handler, IntentRetrieve(h)
  PROVE  CardInv'
<1>0. task \in [Handler -> Task]
  BY DEF TypeOK
<1>1. task[h] \in [op : {"retrieve"}, order : Order, intent : Intent]
  BY <1>0, TaskShape DEF IntentRetrieve, Op
<1>2. PICK o \in Order, i \in Intent : o = task[h].order /\ i = task[h].intent
  BY <1>1
<1>3. payment[o].method = "STRIPE" /\ i \in DOMAIN intents[o]
  BY <1>1, <1>2 DEF CardInv, CardTask
<1>4. PICK r : /\ task' = [task EXCEPT ![h] = r]
               /\ misread' \in {misread, misread \cup {o}}
               /\ \/ r = Idle
                  \/ /\ r = [task[h] EXCEPT !.op = "create"]
                     /\ intents[o][i] = "open" => o \in misread'
  BY <1>2 DEF IntentRetrieve, Continue
<1>5. UNCHANGED <<payment, intents, keyed, sent>>
  BY DEF IntentRetrieve
<1>6. r \in Task
  BY <1>0, <1>1, <1>4 DEF Task
<1>7. CardTask(r)'
  <2>1. CASE r = Idle
    BY <2>1 DEF CardTask, Idle
  <2>2. CASE r = [task[h] EXCEPT !.op = "create"]
    <3>1. r.op = "create" /\ r.order = o /\ r.intent = i
      BY <1>1, <1>2, <2>2
    <3>2. intents[o][i] = "open" => o \in misread'
      BY <1>4, <2>2, <3>1 DEF Idle
    <3> QED
      BY <1>3, <1>5, <3>1, <3>2 DEF CardTask
  <2> QED
    BY <1>4, <2>1, <2>2
<1>8. ASSUME NEW q \in Order
      PROVE  CardOrder(q)'
  <2>1. CardOrder(q) /\ (q \notin misread' => q \notin misread)
    BY <1>4 DEF CardInv
  <2> QED
    BY <1>5, <2>1 DEF CardOrder
<1>9. ASSUME NEW g \in Handler
      PROVE  CardTask(task[g])'
  <2>1. CASE g = h
    BY <1>0, <1>4, <1>7, <2>1 DEF CardTask
  <2>2. CASE g # h
    <3>1. PICK s \in Task : s = task[g] /\ s = task'[g] /\ CardTask(s)
      BY <1>0, <1>4, <2>2 DEF CardInv
    <3>2. CardTask(s)'
      BY <1>4, <3>1, CardTaskLasts
    <3> QED
      BY <3>1, <3>2 DEF CardTask
  <2> QED
    BY <2>1, <2>2
<1> QED
  BY <1>8, <1>9 DEF CardInv

\* The intent of a payment is saved.
LEMMA CardSave ==
  ASSUME TypeOK, CardInv, TypeOK', [Next]_vars, NEW h \in Handler, IntentSave(h)
  PROVE  CardInv'
<1>0. task \in [Handler -> Task] /\ payment \in [Order -> Payment]
  BY DEF TypeOK
<1>1. task[h] \in [op : {"save"}, order : Order, intent : Intent]
  BY <1>0, TaskShape DEF IntentSave, Op
<1>2. PICK o \in Order, i \in Intent : o = task[h].order /\ i = task[h].intent
  BY <1>1
<1>3. payment[o].method = "STRIPE" /\ i \in DOMAIN intents[o]
  BY <1>1, <1>2 DEF CardInv, CardTask
<1>4. /\ payment' = [payment EXCEPT ![o] =
                       [method |-> "STRIPE", status |-> "PENDING", intent |-> i]]
      /\ task' = [task EXCEPT ![h] = Idle]
      /\ UNCHANGED <<intents, keyed, sent, misread>>
  BY <1>2 DEF IntentSave, Continue
<1>5. ASSUME NEW q \in Order
      PROVE  CardOrder(q)'
  <2>1. CardOrder(q)
    BY DEF CardInv
  <2>2. \/ q = o /\ payment'[q].method = "STRIPE" /\ payment'[q].intent = i
        \/ payment'[q] = payment[q]
    BY <1>0, <1>4
  <2> QED
    BY <1>3, <1>4, <2>1, <2>2 DEF CardOrder
<1>6. ASSUME NEW g \in Handler
      PROVE  CardTask(task[g])'
  <2>1. CASE g = h
    BY <1>0, <1>4, <2>1 DEF CardTask, Idle
  <2>2. CASE g # h
    <3>1. PICK s \in Task : s = task[g] /\ s = task'[g] /\ CardTask(s)
      BY <1>0, <1>4, <2>2 DEF CardInv
    <3>2. CardTask(s)'
      BY <1>4, <3>1, CardTaskLasts
    <3> QED
      BY <3>1, <3>2 DEF CardTask
  <2> QED
    BY <2>1, <2>2
<1> QED
  BY <1>5, <1>6 DEF CardInv

\* Stripe: an intent is paid, declined or canceled; keys are forgotten.
LEMMA CardStripe ==
  ASSUME TypeOK, CardInv, TypeOK', [Next]_vars, NEW o \in Order,
         \/ \E i \in Intent : Pay(o, i) \/ Decline(o, i) \/ Cancel(o, i)
         \/ Forget(o)
  PROVE  CardInv'
<1>0. /\ intents \in [Order -> Seq({"open", "succeeded", "canceled"})]
      /\ keyed \in [Order -> [0..MaxIntents -> 0..MaxIntents]]
      /\ sent \in [Order -> SUBSET (Intent \X EventType)]
      /\ task \in [Handler -> Task]
  BY DEF TypeOK
<1>1. UNCHANGED <<payment, task>> /\ misread \subseteq misread'
  BY DEF Pay, Decline, Cancel, Settle, Forget
<1>2. ASSUME NEW q \in Order, NEW i \in Intent,
             Pay(o, i) \/ Decline(o, i) \/ Cancel(o, i)
      PROVE  CardOrder(q)'
  <2>1. PICK status \in {"open", "succeeded", "canceled"},
             events \in SUBSET (Intent \X EventType) :
          /\ Settle(o, i, status, events)
          /\ <<i, "succeeded">> \in events => status = "succeeded"
          /\ \A e \in events : e[1] = i
    BY <1>2 DEF Pay, Decline, Cancel, EventType
  <2>2. CardOrder(q)
    BY DEF CardInv
  <2>3. UNCHANGED <<keyed, misread>>
    BY <2>1 DEF Settle
  <2>4. CASE q # o
    <3>1. intents'[q] = intents[q] /\ sent'[q] = sent[q]
      BY <1>0, <2>1, <2>4 DEF Settle
    <3> QED
      BY <1>1, <2>2, <2>3, <3>1 DEF CardOrder
  <2>5. CASE q = o
    <3>1. /\ intents'[q] = [intents[q] EXCEPT ![i] = status]
          /\ i \in DOMAIN intents[q] /\ intents[q][i] = "open"
          /\ sent'[q] = sent[q] \cup events
      BY <1>0, <2>1, <2>5 DEF Settle
    <3>2. Len(intents'[q]) = Len(intents[q]) /\ DOMAIN intents'[q] = DOMAIN intents[q]
      BY <1>0, <3>1
    <3>3. \A j \in DOMAIN intents[q] : j # i => intents'[q][j] = intents[q][j]
      BY <3>1
    <3>4. intents'[q][i] = status
      BY <3>1
    <3>5. ASSUME NEW j \in Intent, <<j, "succeeded">> \in sent'[q]
          PROVE  j \in DOMAIN intents'[q] /\ intents'[q][j] = "succeeded"
      <4>1. CASE <<j, "succeeded">> \in events
        BY <2>1, <3>1, <3>2, <3>4, <4>1
      <4>2. CASE <<j, "succeeded">> \in sent[q]
        <5>1. j \in DOMAIN intents[q] /\ intents[q][j] = "succeeded"
          BY <2>2, <4>2 DEF CardOrder
        <5> QED
          BY <3>1, <3>2, <3>3, <5>1
      <4> QED
        BY <3>1, <3>5, <4>1, <4>2
    <3>6. q \notin misread =>
            \A j \in DOMAIN intents'[q] : j < Len(intents'[q]) => intents'[q][j] # "open"
      BY <2>2, <3>1, <3>2, <3>3 DEF CardOrder
    <3> QED
      BY <1>1, <2>2, <2>3, <3>2, <3>5, <3>6 DEF CardOrder
  <2> QED
    BY <2>4, <2>5
<1>3. ASSUME NEW q \in Order, Forget(o)
      PROVE  CardOrder(q)'
  <2>1. CardOrder(q)
    BY DEF CardInv
  <2>2. /\ \/ q \in misread' /\ \A p \in 0..MaxIntents : keyed'[q][p] = NoIntent
           \/ keyed'[q] = keyed[q]
        /\ UNCHANGED <<payment, intents, sent>> /\ misread \subseteq misread'
    BY <1>0, <1>3 DEF Forget
  <2> QED
    BY <2>1, <2>2 DEF CardOrder
<1>4. ASSUME NEW g \in Handler
      PROVE  CardTask(task[g])'
  <2>1. PICK s \in Task : s = task[g] /\ s = task'[g] /\ CardTask(s)
    BY <1>0, <1>1 DEF CardInv
  <2>2. CardTask(s)'
    BY <1>1, <2>1, CardTaskLasts
  <2> QED
    BY <2>1, <2>2 DEF CardTask
<1> QED
  BY <1>2, <1>3, <1>4 DEF CardInv

\* A request that begins or goes on, away from Stripe.
LEMMA CardHandler ==
  ASSUME TypeOK, CardInv, TypeOK', [Next]_vars, UNCHANGED stripeVars,
         \A h \in Handler : ~IntentSave(h), NEW h \in Handler, NEW r,
         task' = [task EXCEPT ![h] = r], CardTask(r)
  PROVE  CardInv'
<1>1. \A q \in Order : /\ payment'[q].method = payment[q].method
                       /\ payment'[q].intent = payment[q].intent
  BY MethodFixed, IntentFixed
<1>2. \A g \in Handler : task'[g] = task[g] \/ CardTask(task'[g])
  <2>1. ASSUME NEW g \in Handler
        PROVE  task'[g] = task[g] \/ CardTask(task'[g])
    <3>1. task'[g] = IF g = h THEN r ELSE task[g]
      BY DEF TypeOK
    <3> QED
      BY <3>1 DEF CardTask
  <2> QED
    BY <2>1
<1> QED
  BY <1>1, <1>2, CardQuiet DEF stripeVars

LEMMA CardStep == TypeOK /\ TypeOK' /\ CardInv /\ [Next]_vars => CardInv'
<1> SUFFICES ASSUME TypeOK, TypeOK', CardInv, [Next]_vars PROVE CardInv'
  OBVIOUS
<1>0. task \in [Handler -> Task]
  BY DEF TypeOK
<1>1. ASSUME NEW h \in Handler, IntentRetrieve(h) \/ IntentCreate(h) \/ IntentSave(h)
      PROVE  CardInv'
  BY <1>1, CardRetrieve, CardCreate, CardSave
<1>2. CASE \E o \in Order : \/ \E i \in Intent : Pay(o, i) \/ Decline(o, i) \/ Cancel(o, i)
                            \/ Forget(o)
  BY <1>2, CardStripe
<1>3. ASSUME \A h \in Handler : ~IntentSave(h), UNCHANGED stripeVars,
             UNCHANGED task \/ \E h \in Handler : \E r : /\ task' = [task EXCEPT ![h] = r]
                                                         /\ CardTask(r)
      PROVE  CardInv'
  <2>1. CASE UNCHANGED task
    <3>1. \A q \in Order : /\ payment'[q].method = payment[q].method
                           /\ payment'[q].intent = payment[q].intent
      BY <1>3, MethodFixed, IntentFixed
    <3> QED
      BY <1>3, <2>1, <3>1, CardQuiet DEF stripeVars
  <2> QED
    BY <1>3, <2>1, CardHandler
<1>4. CardTask(Idle)
  BY DEF CardTask, Idle
<1>5. ASSUME NEW h \in Handler, IntentSave(h)
      PROVE  CardInv'
  BY <1>5, <1>1
<1>6. CASE \A h \in Handler : ~IntentSave(h)
  <2>1. ASSUME NEW h \in Handler, NEW o \in Order, IntentBegin(h, o)
        PROVE  CardInv'
    <3>1. PICK p \in Intent \cup {NoIntent}, op \in {"create", "retrieve"} :
            /\ task' = [task EXCEPT ![h] = [op |-> op, order |-> o, intent |-> p]]
            /\ p = IF payment[o].status = "PENDING" THEN payment[o].intent ELSE NoIntent
            /\ op = IF p = NoIntent THEN "create" ELSE "retrieve"
      BY <2>1 DEF IntentBegin, Begin, TypeOK, Payment
    <3>2. payment[o].method = "STRIPE" /\ (p # NoIntent => p \in DOMAIN intents[o])
      BY <2>1, <3>1 DEF IntentBegin, TypeOK, Payment, CardInv, CardOrder
    <3>3. CardTask([op |-> op, order |-> o, intent |-> p])
      BY <3>1, <3>2 DEF CardTask
    <3> QED
      BY <1>3, <1>6, <2>1, <3>1, <3>3 DEF IntentBegin
  <2>2. ASSUME NEW h \in Handler, NEW o \in Order, NEW d \in Driver,
               ConfirmBegin(h, o, d) \/ DeliverBegin(h, o, d)
        PROVE  CardInv'
    <3>1. PICK op \in {"confirm", "deliver", "deliverOnly"} :
            /\ task' = [task EXCEPT ![h] = [op |-> op, order |-> o, driver |-> d]]
            /\ op = "confirm" => Confirmable(o)
            /\ op = "deliver" => Collects(o)
      BY <2>2 DEF ConfirmBegin, DeliverBegin, Begin
    <3>2. CardTask([op |-> op, order |-> o, driver |-> d])
      BY <3>1 DEF CardTask, Confirmable, Collects, TypeOK, Payment
    <3> QED
      BY <1>3, <1>6, <2>2, <3>1, <3>2 DEF ConfirmBegin, DeliverBegin
  <2>3. ASSUME NEW h \in Handler, NEW o \in Order, NEW d \in Driver, NEW a \in Amounts,
               AddBegin(h, o, d, a)
        PROVE  CardInv'
    <3>1. CardTask([op |-> "add", order |-> o, driver |-> d, amount |-> a])
      BY DEF CardTask
    <3> QED
      BY <1>3, <1>6, <2>3, <3>1 DEF AddBegin, Begin
  <2>4. ASSUME NEW h \in Handler, NEW d \in Driver, NEW a \in Amounts,
               NEW o \in Order \cup {NoOrder}, ReconcileBegin(h, d, a, o)
        PROVE  CardInv'
    <3>1. CardTask([op |-> "reconcile", driver |-> d, amount |-> a, order |-> o])
      BY DEF CardTask
    <3> QED
      BY <1>3, <1>6, <2>4, <3>1 DEF ReconcileBegin, Begin
  <2>5. ASSUME NEW h \in Handler,
               \/ ConfirmWrite(h) \/ DeliverWrite(h) \/ DeliverOnlyWrite(h)
               \/ AddMark(h) \/ ReconcileMark(h) \/ BreakOff(h)
        PROVE  CardInv'
    <3>1. task' = [task EXCEPT ![h] = Idle] /\ UNCHANGED stripeVars
      BY <2>5 DEF ConfirmWrite, DeliverWrite, DeliverOnlyWrite, AddMark, ReconcileMark,
                  BreakOff, Continue
    <3> QED
      BY <1>3, <1>4, <1>6, <3>1
  <2>6. ASSUME NEW h \in Handler, AddWrite(h) \/ ReconcileWrite(h)
        PROVE  CardInv'
    <3>1. PICK r : task' = [task EXCEPT ![h] = r] /\ CardTask(r)
      <4>1. PICK o : o = task[h].order
        OBVIOUS
      <4>2. \A op \in {"addMark", "reconcileMark"} : CardTask([op |-> op, order |-> o])
        BY DEF CardTask
      <4> QED
        BY <1>4, <2>6, <4>1, <4>2 DEF AddWrite, ReconcileWrite, Continue
    <3> QED
      BY <1>3, <1>6, <2>6, <3>1 DEF AddWrite, ReconcileWrite
  <2>7. ASSUME NEW o \in Order, NEW e \in Intent \X EventType, Webhook(o, e)
        PROVE  CardInv'
    BY <1>3, <1>6, <2>7 DEF Webhook
  <2>8. CASE UNCHANGED vars
    BY <1>3, <1>6, <2>8 DEF vars, stripeVars
  <2> QED
    BY <1>1, <1>2, <2>1, <2>2, <2>3, <2>4, <2>5, <2>6, <2>7, <2>8 DEF Next, Proceed
<1> QED
  BY <1>5, <1>6

LEMMA CardInit == Init => CardInv
<1> SUFFICES ASSUME Init PROVE CardInv
  OBVIOUS
<1>1. ASSUME NEW o \in Order
      PROVE  CardOrder(o)
  <2>1. payment[o].intent = NoIntent /\ intents[o] = <<>> /\ sent[o] = {}
    BY DEF Init
  <2>2. \A p \in 0..MaxIntents : keyed[o][p] = NoIntent /\ ~(p < 0)
    BY BoundAssumption DEF Init
  <2> QED
    BY <2>1, <2>2 DEF CardOrder
<1>2. \A h \in Handler : CardTask(task[h])
  BY DEF Init, CardTask, Idle
<1> QED
  BY <1>1, <1>2 DEF CardInv

--------------------------------------------------------------------------------
(***************************************************************************)
(* The ledger and the marks on orders.                                     *)
(***************************************************************************)

\* Row n of the ledger is new: one of type for order o.
Added(n, o, type) ==
  /\ n \notin DOMAIN ledger /\ DOMAIN ledger' = DOMAIN ledger \cup {n}
  /\ ledger'[n].order = o /\ ledger'[n].type = type
  /\ \A i \in DOMAIN ledger : ledger'[i] = ledger[i]

LEMMA BookFacts ==
  ASSUME TypeOK, NEW d, NEW o, NEW amount, NEW type, Book(d, o, amount, type)
  PROVE  \E n : Added(n, o, type)
<1> DEFINE row == [driver |-> d, order |-> o, amount |-> amount, type |-> type]
<1>1. row.order = o /\ row.type = type
  OBVIOUS
<1> HIDE DEF row
<1>2. ledger \in Seq(Entry) /\ ledger' = Append(ledger, row)
  BY DEF TypeOK, Book, row
<1>3. /\ Len(ledger) + 1 \notin DOMAIN ledger
      /\ DOMAIN ledger' = DOMAIN ledger \cup {Len(ledger) + 1}
      /\ ledger'[Len(ledger) + 1] = row
      /\ \A i \in DOMAIN ledger : ledger'[i] = ledger[i]
  BY <1>2
<1> QED
  BY <1>1, <1>3 DEF Added

\* The writes that add a row, and of which order.
Collecting(h) == ConfirmWrite(h) \/ DeliverWrite(h) \/ AddWrite(h)

LEMMA CollectFacts ==
  ASSUME TypeOK, NEW h \in Handler, Collecting(h)
  PROVE  \E o \in Order : /\ o = task[h].order
                          /\ \E n : Added(n, o, "COD_COLLECTION")
<1>1. task[h] \in Task
  BY DEF TypeOK
<1>2. PICK o \in Order, d \in Driver : o = task[h].order /\ d = task[h].driver
  BY <1>1, TaskShape DEF Collecting, ConfirmWrite, DeliverWrite, AddWrite, Op
<1>3. \E amount : Book(d, o, amount, "COD_COLLECTION")
  <2>1. CASE ConfirmWrite(h) \/ DeliverWrite(h)
    BY <1>2, <2>1 DEF ConfirmWrite, DeliverWrite
  <2>2. CASE AddWrite(h)
    <3>1. PICK a : a = task[h].amount
      OBVIOUS
    <3> QED
      BY <1>2, <2>2, <3>1 DEF AddWrite
  <2> QED
    BY <2>1, <2>2 DEF Collecting
<1> QED
  BY <1>2, <1>3, BookFacts

LEMMA ReconcileFacts ==
  ASSUME TypeOK, NEW h \in Handler, ReconcileWrite(h)
  PROVE  \E o \in Order \cup {NoOrder} : /\ o = task[h].order
                                         /\ \E n : Added(n, o, "COD_RECONCILIATION")
<1>1. task[h] \in Task
  BY DEF TypeOK
<1>2. PICK o \in Order \cup {NoOrder}, d \in Driver, a \in Amounts :
        o = task[h].order /\ d = task[h].driver /\ a = task[h].amount
  BY <1>1, TaskShape DEF ReconcileWrite, Op
<1>3. Book(d, o, Debit(a), "COD_RECONCILIATION")
  BY <1>2 DEF ReconcileWrite
<1> QED
  BY <1>2, <1>3, BookFacts

LEMMA LedgerStep ==
  ASSUME TypeOK, [Next]_vars
  PROVE  UNCHANGED ledger \/ \E h \in Handler : Collecting(h) \/ ReconcileWrite(h)
BY DEF Next, vars, Proceed, Collecting, IntentBegin, IntentRetrieve, IntentCreate,
       IntentSave, DeliverOnlyWrite, ConfirmBegin, DeliverBegin, AddBegin, AddMark,
       ReconcileBegin, ReconcileMark, BreakOff, Pay, Decline, Cancel, Settle, Forget,
       Webhook, cashVars

\* No row of the ledger is lost.
LEMMA LedgerLasts ==
  ASSUME TypeOK, [Next]_vars, NEW o
  PROVE  (Credited(o) => Credited(o)') /\ (HandedIn(o) => HandedIn(o)')
<1>1. \/ UNCHANGED ledger
      \/ \E n, q, type : Added(n, q, type)
  BY LedgerStep, CollectFacts, ReconcileFacts
<1>2. CASE UNCHANGED ledger
  BY <1>2 DEF Credited, HandedIn
<1>3. ASSUME NEW n, NEW q, NEW type, Added(n, q, type)
      PROVE  (Credited(o) => Credited(o)') /\ (HandedIn(o) => HandedIn(o)')
  BY <1>3 DEF Added, Credited, HandedIn
<1> QED
  BY <1>1, <1>2, <1>3

\* What each write does to the row of order q.
LEMMA OrderStep ==
  ASSUME TypeOK, [Next]_vars, NEW q \in Order
  PROVE  \/ order'[q] = order[q]
         \/ \E h \in Handler : /\ task[h].order = q /\ (ConfirmWrite(h) \/ AddMark(h))
                               /\ order'[q] = [order[q] EXCEPT !.collected = TRUE]
         \/ \E h \in Handler : /\ task[h].order = q /\ DeliverWrite(h)
                               /\ order'[q] = [order[q] EXCEPT !.delivered = TRUE,
                                                               !.collected = TRUE]
         \/ \E h \in Handler : /\ task[h].order = q /\ DeliverOnlyWrite(h)
                               /\ order'[q] = [order[q] EXCEPT !.delivered = TRUE]
         \/ \E h \in Handler : /\ task[h].order = q /\ ReconcileMark(h) /\ Markable(q)
                               /\ order'[q] = [order[q] EXCEPT !.reconciled = TRUE]
<1>0. order \in [Order -> OrderRow] /\ \A h \in Handler : task[h] \in Task
  BY DEF TypeOK
<1>1. ASSUME NEW h \in Handler, ConfirmWrite(h) \/ AddMark(h), order'[q] # order[q]
      PROVE  task[h].order = q /\ order'[q] = [order[q] EXCEPT !.collected = TRUE]
  BY <1>0, <1>1, TaskShape DEF ConfirmWrite, AddMark, Op
<1>2. ASSUME NEW h \in Handler, DeliverWrite(h), order'[q] # order[q]
      PROVE  /\ task[h].order = q
             /\ order'[q] = [order[q] EXCEPT !.delivered = TRUE, !.collected = TRUE]
  BY <1>0, <1>2, TaskShape DEF DeliverWrite, Op
<1>3. ASSUME NEW h \in Handler, DeliverOnlyWrite(h), order'[q] # order[q]
      PROVE  task[h].order = q /\ order'[q] = [order[q] EXCEPT !.delivered = TRUE]
  BY <1>0, <1>3, TaskShape DEF DeliverOnlyWrite, Op
<1>4. ASSUME NEW h \in Handler, ReconcileMark(h), order'[q] # order[q]
      PROVE  /\ task[h].order = q /\ Markable(q)
             /\ order'[q] = [order[q] EXCEPT !.reconciled = TRUE]
  <2>1. PICK o \in Order : o = task[h].order
    BY <1>0, <1>4, TaskShape DEF ReconcileMark, Op
  <2>2. order' = IF Markable(o) THEN [order EXCEPT ![o].reconciled = TRUE] ELSE order
    BY <1>4, <2>1 DEF ReconcileMark
  <2> QED
    BY <1>0, <1>4, <2>1, <2>2
<1>5. CASE UNCHANGED order
  BY <1>5
<1> QED
  BY <1>1, <1>2, <1>3, <1>4, <1>5
  DEF Next, vars, Proceed, IntentBegin, IntentRetrieve, IntentCreate, IntentSave,
      ConfirmBegin, DeliverBegin, AddBegin, AddWrite, ReconcileBegin, ReconcileWrite,
      BreakOff, Pay, Decline, Cancel, Settle, Forget, Webhook, cashVars

\* A mark on an order stays.
LEMMA MarksLast ==
  ASSUME TypeOK, [Next]_vars, NEW q \in Order
  PROVE  order[q].collected => order'[q].collected
<1>1. order[q] \in OrderRow
  BY DEF TypeOK
<1> QED
  BY <1>1, OrderStep DEF OrderRow

--------------------------------------------------------------------------------
(***************************************************************************)
(* Cash.                                                                   *)
(***************************************************************************)

\* What each write does to the payment of order q.
LEMMA PaymentStep ==
  ASSUME TypeOK, [Next]_vars, NEW q \in Order
  PROVE  \/ payment'[q] = payment[q]
         \/ payment'[q].status = "PENDING"
         \/ \E h \in Handler : task[h].order = q /\ (ConfirmWrite(h) \/ DeliverWrite(h))
         \/ \E e \in Intent \X EventType :
              /\ Webhook(q, e)
              /\ payment'[q] = [payment[q] EXCEPT !.status = StatusOf(e[2])]
<1>0. payment \in [Order -> Payment] /\ \A h \in Handler : task[h] \in Task
  BY DEF TypeOK
<1>1. ASSUME NEW h \in Handler, IntentSave(h)
      PROVE  payment'[q] = payment[q] \/ payment'[q].status = "PENDING"
  BY <1>0, <1>1 DEF IntentSave
<1>2. ASSUME NEW h \in Handler, ConfirmWrite(h) \/ DeliverWrite(h)
      PROVE  payment'[q] = payment[q] \/ task[h].order = q
  BY <1>0, <1>2 DEF ConfirmWrite, DeliverWrite
<1>3. ASSUME NEW o \in Order, NEW e \in Intent \X EventType, Webhook(o, e)
      PROVE  \/ payment'[q] = payment[q]
             \/ o = q /\ payment'[q] = [payment[q] EXCEPT !.status = StatusOf(e[2])]
  BY <1>0, <1>3 DEF Webhook
<1>4. CASE UNCHANGED payment
  BY <1>4
<1> QED
  BY <1>1, <1>2, <1>3, <1>4
  DEF Next, vars, Proceed, IntentBegin, IntentRetrieve, IntentCreate, DeliverOnlyWrite,
      ConfirmBegin, DeliverBegin, AddBegin, AddWrite, AddMark, ReconcileBegin,
      ReconcileWrite, ReconcileMark, BreakOff, Pay, Decline, Cancel, Settle, Forget

\* A payment becomes COMPLETED with the mark on its order, or by an event of Stripe.
LEMMA CompletedStep ==
  ASSUME TypeOK, CardInv, TypeOK', CardInv', [Next]_vars, NEW q \in Order, CashOrder(q),
         payment'[q].status = "COMPLETED"
  PROVE  /\ IF payment'[q].method = "COD" THEN order'[q].collected
            ELSE intents'[q][payment'[q].intent] = "succeeded"
         /\ payment'[q].method = "STRIPE" => payment'[q].intent # NoIntent
<1>0. /\ payment[q] \in Payment /\ order[q] \in OrderRow
      /\ \A h \in Handler : task[h] \in Task /\ CardTask(task[h])
      /\ CardOrder(q)
  BY DEF TypeOK, CardInv
<1>1. CASE payment'[q] = payment[q]
  <2>1. CASE payment[q].method = "COD"
    BY <1>0, <1>1, <2>1, MarksLast DEF CashOrder
  <2>2. CASE payment[q].method = "STRIPE"
    <3>1. /\ payment[q].intent \in DOMAIN intents[q]
          /\ intents[q][payment[q].intent] = "succeeded"
      BY <1>0, <1>1, <2>2 DEF CashOrder, CardOrder
    <3>2. Lasting(q)
      BY IntentsLast
    <3> QED
      BY <1>1, <2>2, <3>1, <3>2 DEF Lasting, CashOrder
  <2> QED
    BY <1>0, <2>1, <2>2 DEF Payment
<1>2. ASSUME NEW h \in Handler, task[h].order = q, ConfirmWrite(h) \/ DeliverWrite(h)
      PROVE  payment'[q].method = "COD" /\ order'[q].collected
  <2>1. payment[q].method = "COD"
    BY <1>0, <1>2 DEF CardTask, ConfirmWrite, DeliverWrite, Op
  <2>2. order'[q].collected
    <3>1. order \in [Order -> OrderRow]
      BY DEF TypeOK
    <3>2. CASE ConfirmWrite(h)
      BY <1>2, <3>1, <3>2 DEF ConfirmWrite, OrderRow
    <3>3. CASE DeliverWrite(h)
      BY <1>2, <3>1, <3>3 DEF DeliverWrite, OrderRow
    <3> QED
      BY <1>2, <3>2, <3>3
  <2> QED
    BY <2>1, <2>2, MethodFixed
<1>3. ASSUME NEW e \in Intent \X EventType, Webhook(q, e),
             payment'[q] = [payment[q] EXCEPT !.status = StatusOf(e[2])]
      PROVE  /\ payment'[q].method = "STRIPE" /\ payment'[q].intent # NoIntent
             /\ intents'[q][payment'[q].intent] = "succeeded"
  <2>1. /\ payment'[q].method = payment[q].method
        /\ payment'[q].intent = payment[q].intent
    BY <1>0, <1>3 DEF Payment
  <2>2. StatusOf(e[2]) = "COMPLETED"
    BY <1>0, <1>3 DEF Payment
  <2>3. e = <<e[1], "succeeded">> /\ e[1] \in Intent
    BY <2>2 DEF StatusOf, EventType
  <2>4. <<e[1], "succeeded">> \in sent[q] /\ payment[q].intent = e[1]
    BY <1>3, <2>3 DEF Webhook, Names
  <2>5. e[1] # NoIntent /\ intents[q][e[1]] = "succeeded"
    BY <1>0, <2>3, <2>4 DEF CardOrder, Intent, NoIntent
  <2>6. payment[q].method = "STRIPE"
    BY <1>0, <2>4, <2>5 DEF CardOrder, Payment
  <2> QED
    BY <1>3, <2>1, <2>4, <2>5, <2>6 DEF Webhook, stripeVars
<1> QED
  BY <1>1, <1>2, <1>3, PaymentStep

LEMMA CashOrderStep ==
  ASSUME TypeOK, CardInv, TypeOK', CardInv', CashInv, [Next]_vars, NEW q \in Order
  PROVE  CashOrder(q)'
<1>0. /\ CashOrder(q) /\ order[q] \in OrderRow /\ order'[q] \in OrderRow
      /\ \A h \in Handler : /\ task[h] \in Task
                            /\ CardTask(task[h]) /\ CashTask(task[h])
      /\ payment'[q].method = payment[q].method
  BY MethodFixed DEF TypeOK, CardInv, CashInv
<1>1. /\ Credited(q) => Credited(q)'
      /\ HandedIn(q) => HandedIn(q)'
      /\ order[q].collected => order'[q].collected
  BY LedgerLasts, MarksLast
<1>2. payment'[q].method = "COD" /\ order'[q].delivered => order'[q].collected
  <2>1. ASSUME NEW h \in Handler, task[h].order = q, DeliverOnlyWrite(h),
               payment'[q].method = "COD"
        PROVE  order[q].collected
    BY <1>0, <2>1 DEF DeliverOnlyWrite, Op, CashTask
  <2>2. order'[q].delivered => \/ order[q].delivered
                               \/ order'[q].collected
                               \/ \E h \in Handler : task[h].order = q /\ DeliverOnlyWrite(h)
    BY <1>0, OrderStep DEF OrderRow
  <2> QED
    BY <1>0, <1>1, <2>1, <2>2 DEF CashOrder
<1>3. order'[q].collected => Credited(q)'
  <2>1. ASSUME NEW h \in Handler, task[h].order = q, Collecting(h)
        PROVE  Credited(q)'
    <3>1. PICK n : Added(n, q, "COD_COLLECTION")
      BY <2>1, CollectFacts
    <3> QED
      BY <3>1 DEF Added, Credited
  <2>2. ASSUME NEW h \in Handler, task[h].order = q, AddMark(h)
        PROVE  Credited(q)
    BY <1>0, <2>2 DEF AddMark, Op, CashTask
  <2>3. order'[q].collected =>
          \/ order[q].collected
          \/ \E h \in Handler : task[h].order = q /\ (Collecting(h) \/ AddMark(h))
    BY <1>0, OrderStep DEF OrderRow, Collecting
  <2> QED
    BY <1>0, <1>1, <2>1, <2>2, <2>3 DEF CashOrder
<1>4. order'[q].reconciled => order'[q].collected /\ HandedIn(q)'
  <2>1. ASSUME NEW h \in Handler, task[h].order = q, ReconcileMark(h), Markable(q)
        PROVE  order[q].collected /\ HandedIn(q)
    BY <1>0, <2>1 DEF ReconcileMark, Op, CashTask, Markable
  <2>2. order'[q].reconciled =>
          \/ order[q].reconciled
          \/ \E h \in Handler : task[h].order = q /\ ReconcileMark(h) /\ Markable(q)
    BY <1>0, OrderStep DEF OrderRow
  <2> QED
    BY <1>0, <1>1, <2>1, <2>2 DEF CashOrder
<1> QED
  BY <1>0, <1>2, <1>3, <1>4, CompletedStep DEF CashOrder

\* What a request holds stays so, whatever the others do.
LEMMA CashTaskLasts ==
  ASSUME TypeOK, CardInv, [Next]_vars, NEW r \in Task, CashTask(r)
  PROVE  CashTask(r)'
<1>1. /\ Credited(r.order) => Credited(r.order)'
      /\ HandedIn(r.order) => HandedIn(r.order)'
  BY LedgerLasts
<1>2. r.op = "deliverOnly" /\ payment'[r.order].method = "COD" =>
        order'[r.order].collected
  <2>1. r.op = "deliverOnly" => r.order \in Order
    BY TaskShape
  <2> QED
    BY <2>1, MethodFixed, MarksLast DEF CashTask
<1> QED
  BY <1>1, <1>2 DEF CashTask

\* Where what request r of handler g holds comes from: it begins, or it went on.
Begun(g, r) ==
  \/ \E o \in Order, d \in Driver :
       ConfirmBegin(g, o, d) /\ r = [op |-> "confirm", order |-> o, driver |-> d]
  \/ \E o \in Order, d \in Driver :
       /\ DeliverBegin(g, o, d)
       /\ r = [op |-> IF Collects(o) THEN "deliver" ELSE "deliverOnly",
               order |-> o, driver |-> d]
  \/ \E o \in Order, d \in Driver, a \in Amounts :
       /\ AddBegin(g, o, d, a)
       /\ r = [op |-> "add", order |-> o, driver |-> d, amount |-> a]
  \/ \E d \in Driver, a \in Amounts, o \in Order \cup {NoOrder} :
       /\ ReconcileBegin(g, d, a, o)
       /\ r = [op |-> "reconcile", driver |-> d, amount |-> a, order |-> o]

WentOn(g, r) ==
  \/ r = Idle
  \/ r.op \in {"retrieve", "create", "save"}
  \/ AddWrite(g) /\ r = [op |-> "addMark", order |-> task[g].order]
  \/ ReconcileWrite(g) /\ r = [op |-> "reconcileMark", order |-> task[g].order]

\* Handler h begins a request, goes on with it or breaks it off.
HandlerStep(h) ==
  \/ Proceed(h) \/ BreakOff(h)
  \/ \E o \in Order : IntentBegin(h, o)
  \/ \E o \in Order, d \in Driver : ConfirmBegin(h, o, d) \/ DeliverBegin(h, o, d)
  \/ \E o \in Order, d \in Driver, a \in Amounts : AddBegin(h, o, d, a)
  \/ \E d \in Driver, a \in Amounts, o \in Order \cup {NoOrder} :
       ReconcileBegin(h, d, a, o)

StripeStep(o) ==
  \/ \E i \in Intent : Pay(o, i) \/ Decline(o, i) \/ Cancel(o, i)
  \/ \E e \in Intent \X EventType : Webhook(o, e)
  \/ Forget(o)

LEMMA NextSteps ==
  Next => (\E h \in Handler : HandlerStep(h)) \/ \E o \in Order : StripeStep(o)
BY DEF Next, HandlerStep, StripeStep

LEMMA TaskSource ==
  ASSUME TypeOK, [Next]_vars, NEW g \in Handler
  PROVE  task'[g] = task[g] \/ Begun(g, task'[g]) \/ WentOn(g, task'[g])
<1>0. task \in [Handler -> Task]
  BY DEF TypeOK
<1>1. ASSUME NEW h \in Handler, h # g, NEW r, Begin(h, r) \/ Continue(h, r) \/ BreakOff(h)
      PROVE  task'[g] = task[g]
  BY <1>0, <1>1 DEF Begin, Continue, BreakOff
<1>2. ASSUME NEW o \in Order, IntentBegin(g, o)
      PROVE  task'[g].op \in {"retrieve", "create", "save"}
  BY <1>0, <1>2 DEF IntentBegin, Begin
<1>3. ASSUME IntentRetrieve(g) \/ IntentCreate(g)
      PROVE  task'[g] = Idle \/ task'[g].op \in {"retrieve", "create", "save"}
  <2>1. task[g] \in [op : {"retrieve", "create", "save"}, order : Order,
                     intent : Intent \cup {NoIntent}]
    BY <1>0, <1>3, TaskShape DEF IntentRetrieve, IntentCreate, Op
  <2>2. CASE IntentRetrieve(g)
    BY <1>0, <2>1, <2>2 DEF IntentRetrieve, Continue
  <2>3. CASE IntentCreate(g)
    <3>1. PICK i : task'[g] = [task[g] EXCEPT !.op = "save", !.intent = i]
      BY <1>0, <2>3 DEF IntentCreate, Continue
    <3> QED
      BY <2>1, <3>1
  <2> QED
    BY <1>3, <2>2, <2>3
<1>4. ASSUME \/ IntentSave(g) \/ ConfirmWrite(g) \/ DeliverWrite(g)
             \/ DeliverOnlyWrite(g) \/ AddMark(g) \/ ReconcileMark(g) \/ BreakOff(g)
      PROVE  task'[g] = Idle
  BY <1>0, <1>4 DEF IntentSave, ConfirmWrite, DeliverWrite, DeliverOnlyWrite, AddMark,
                    ReconcileMark, BreakOff, Continue
<1>5. ASSUME NEW h \in Handler, h # g, HandlerStep(h)
      PROVE  task'[g] = task[g]
  <2>1. \E r : Begin(h, r) \/ Continue(h, r) \/ BreakOff(h)
    BY <1>5 DEF HandlerStep, Proceed, IntentBegin, IntentRetrieve, IntentCreate, IntentSave,
                ConfirmBegin, ConfirmWrite, DeliverBegin, DeliverWrite, DeliverOnlyWrite,
                AddBegin, AddWrite, AddMark, ReconcileBegin, ReconcileWrite, ReconcileMark
  <2> QED
    BY <1>1, <1>5, <2>1
<1>6. CASE UNCHANGED task
  BY <1>6
<1>7. ASSUME AddWrite(g)
      PROVE  task'[g] = [op |-> "addMark", order |-> task[g].order]
  BY <1>0, <1>7 DEF AddWrite, Continue
<1>8. ASSUME ReconcileWrite(g)
      PROVE  \/ task'[g] = Idle
             \/ task'[g] = [op |-> "reconcileMark", order |-> task[g].order]
  BY <1>0, <1>8 DEF ReconcileWrite, Continue
<1>9. ASSUME \/ \E o \in Order, d \in Driver : ConfirmBegin(g, o, d) \/ DeliverBegin(g, o, d)
             \/ \E o \in Order, d \in Driver, a \in Amounts : AddBegin(g, o, d, a)
             \/ \E d \in Driver, a \in Amounts, o \in Order \cup {NoOrder} :
                  ReconcileBegin(g, d, a, o)
      PROVE  Begun(g, task'[g])
  <2>1. \A r : Begin(g, r) => task'[g] = r
    BY <1>0 DEF Begin
  <2> QED
    BY <1>9, <2>1 DEF Begun, ConfirmBegin, DeliverBegin, AddBegin, ReconcileBegin
<1>10. ASSUME NEW h \in Handler, Proceed(h) \/ BreakOff(h), h = g
       PROVE  WentOn(g, task'[g])
  BY <1>3, <1>4, <1>7, <1>8, <1>10 DEF Proceed, WentOn
<1>11. ASSUME NEW o \in Order, StripeStep(o)
       PROVE  UNCHANGED task
  BY <1>11 DEF StripeStep, Pay, Decline, Cancel, Settle, Webhook, Forget
<1>12. ASSUME NEW o \in Order, IntentBegin(g, o)
       PROVE  WentOn(g, task'[g])
  BY <1>2, <1>12 DEF WentOn
<1>13. ASSUME HandlerStep(g)
       PROVE  Begun(g, task'[g]) \/ WentOn(g, task'[g])
  BY <1>9, <1>10, <1>12, <1>13 DEF HandlerStep
<1> QED
  BY <1>5, <1>6, <1>11, <1>13, NextSteps DEF vars

LEMMA CashTaskStep ==
  ASSUME TypeOK, CardInv, TypeOK', CashInv, [Next]_vars, NEW g \in Handler
  PROVE  CashTask(task[g])'
<1>1. PICK r : r = task'[g]
  OBVIOUS
<1>2. r \in Task
  BY <1>1 DEF TypeOK
<1>3. CASE task'[g] = task[g]
  <2>1. CashTask(r)
    BY <1>1, <1>3 DEF CashInv, CashTask
  <2> QED
    BY <1>1, <1>2, <2>1, CashTaskLasts DEF CashTask
<1>4. ASSUME NEW o \in Order, NEW d \in Driver, DeliverBegin(g, o, d),
             r = [op |-> IF Collects(o) THEN "deliver" ELSE "deliverOnly",
                  order |-> o, driver |-> d]
      PROVE  CashTask(r)'
  <2>1. ~Collects(o) /\ payment[o].method = "COD" => order[o].collected
    BY DEF Collects, CashInv, CashOrder
  <2>2. payment' = payment /\ order' = order
    BY <1>4 DEF DeliverBegin, cashVars
  <2> QED
    BY <1>4, <2>1, <2>2 DEF CashTask
<1>5. ASSUME AddWrite(g), r = [op |-> "addMark", order |-> task[g].order]
      PROVE  CashTask(r)'
  <2>1. PICK o, n : o \in Order /\ o = task[g].order /\ Added(n, o, "COD_COLLECTION")
    BY <1>5, CollectFacts DEF Collecting
  <2>2. Credited(o)'
    BY <2>1 DEF Added, Credited
  <2> QED
    BY <1>5, <2>1, <2>2 DEF CashTask
<1>6. ASSUME ReconcileWrite(g), r = [op |-> "reconcileMark", order |-> task[g].order]
      PROVE  CashTask(r)'
  <2>1. PICK o, n : /\ o = task[g].order
                    /\ Added(n, o, "COD_RECONCILIATION")
    BY <1>6, ReconcileFacts
  <2>2. HandedIn(o)'
    BY <2>1 DEF Added, HandedIn
  <2> QED
    BY <1>6, <2>1, <2>2 DEF CashTask
<1>7. r.op \notin {"deliverOnly", "addMark", "reconcileMark"} => CashTask(r)'
  BY DEF CashTask
<1>8. ASSUME Begun(g, r) PROVE CashTask(r)'
  BY <1>4, <1>7, <1>8 DEF Begun
<1>9. ASSUME WentOn(g, r) PROVE CashTask(r)'
  BY <1>5, <1>6, <1>7, <1>9 DEF WentOn, Idle
<1>10. CASE CashTask(r)'
  BY <1>1, <1>10 DEF CashTask
<1>11. task'[g] = task[g] \/ Begun(g, r) \/ WentOn(g, r)
  BY <1>1, TaskSource
<1> QED
  BY <1>3, <1>8, <1>9, <1>10, <1>11

LEMMA CashStep ==
  ASSUME TypeOK, CardInv, TypeOK', CardInv', CashInv, [Next]_vars
  PROVE  CashInv'
BY CashOrderStep, CashTaskStep DEF CashInv

LEMMA CashInit == Init => CashInv
BY DEF Init, CashInv, CashOrder, CashTask, Idle

--------------------------------------------------------------------------------
(***************************************************************************)
(* Requests that meet no other.                                            *)
(***************************************************************************)

\* A step is one handler's or Stripe's: the requests of the others stay.
LEMMA OthersStay ==
  ASSUME TypeOK, [Next]_vars
  PROVE  \/ UNCHANGED task
         \/ \E k \in Handler : /\ HandlerStep(k)
                               /\ \A x \in Handler \ {k} : task'[x] = task[x]
<1>0. task \in [Handler -> Task]
  BY DEF TypeOK
<1>1. ASSUME NEW k \in Handler, HandlerStep(k), NEW x \in Handler, x # k
      PROVE  task'[x] = task[x]
  BY <1>0, <1>1 DEF HandlerStep, Proceed, Begin, Continue, IntentBegin, IntentRetrieve,
       IntentCreate, IntentSave, ConfirmBegin, ConfirmWrite, DeliverBegin, DeliverWrite,
       DeliverOnlyWrite, AddBegin, AddWrite, AddMark, ReconcileBegin, ReconcileWrite,
       ReconcileMark, BreakOff
<1>2. ASSUME NEW o \in Order, StripeStep(o)
      PROVE  UNCHANGED task
  BY <1>2 DEF StripeStep, Pay, Decline, Cancel, Settle, Webhook, Forget
<1> QED
  BY <1>1, <1>2, NextSteps DEF vars

\* The handler's request is about no more than before, or begins and is contended
\* with those it overlaps.
Alone(h) ==
  \/ Subject(task'[h]) \subseteq Subject(task[h])
  \/ Subject(task'[h]) \cap UNION {Subject(task[g]) : g \in Handler} \subseteq contended'

LEMMA ContendedGrows == [Next]_vars => contended \subseteq contended'
  BY DEF Next, vars, Proceed, Begin, Continue, IntentBegin, IntentRetrieve, IntentCreate,
         IntentSave, ConfirmBegin, ConfirmWrite, DeliverBegin, DeliverWrite,
         DeliverOnlyWrite, AddBegin, AddWrite, AddMark, ReconcileBegin, ReconcileWrite,
         ReconcileMark, BreakOff, Pay, Decline, Cancel, Settle, Forget, Webhook

LEMMA AloneStep ==
  ASSUME TypeOK, [Next]_vars, NEW h \in Handler
  PROVE  Alone(h)
<1>0. task \in [Handler -> Task]
  BY DEF TypeOK
<1>1. ASSUME NEW r, Begin(h, r)
      PROVE  Alone(h)
  <2>1. task'[h] = r
    BY <1>0, <1>1 DEF Begin
  <2> QED
    BY <1>1, <2>1 DEF Begin, Alone
<1>2. ASSUME Proceed(h) \/ BreakOff(h)
      PROVE  Alone(h)
  <2>1. CASE task'[h] = Idle
    BY <2>1 DEF Alone, Subject, Idle
  <2>2. CASE IntentRetrieve(h) /\ task'[h] # Idle
    <3>1. task[h] \in [op : {"retrieve"}, order : Order, intent : Intent]
      BY <1>0, <2>2, TaskShape DEF IntentRetrieve, Op
    <3>2. task'[h] = [task[h] EXCEPT !.op = "create"]
      BY <1>0, <2>2 DEF IntentRetrieve, Continue
    <3> QED
      BY <3>1, <3>2 DEF Alone, Subject
  <2>3. CASE IntentCreate(h)
    <3>1. task[h] \in [op : {"create"}, order : Order, intent : Intent \cup {NoIntent}]
      BY <1>0, <2>3, TaskShape DEF IntentCreate, Op
    <3>2. PICK i : task'[h] = [task[h] EXCEPT !.op = "save", !.intent = i]
      BY <1>0, <2>3 DEF IntentCreate, Continue
    <3> QED
      BY <3>1, <3>2 DEF Alone, Subject
  <2>4. CASE AddWrite(h)
    <3>1. task[h].op = "add" /\ task'[h] = [op |-> "addMark", order |-> task[h].order]
      BY <1>0, <2>4 DEF AddWrite, Continue, Op
    <3> QED
      BY <3>1 DEF Alone, Subject
  <2>5. CASE ReconcileWrite(h) /\ task'[h] # Idle
    <3>1. task'[h].op = "reconcileMark"
      BY <1>0, <2>5 DEF ReconcileWrite, Continue
    <3> QED
      BY <3>1 DEF Alone, Subject
  <2>6. ASSUME \/ IntentSave(h) \/ ConfirmWrite(h) \/ DeliverWrite(h)
               \/ DeliverOnlyWrite(h) \/ AddMark(h) \/ ReconcileMark(h) \/ BreakOff(h)
        PROVE  task'[h] = Idle
    BY <1>0, <2>6 DEF IntentSave, ConfirmWrite, DeliverWrite, DeliverOnlyWrite, AddMark,
                      ReconcileMark, BreakOff, Continue
  <2> QED
    BY <1>2, <2>1, <2>2, <2>3, <2>4, <2>5, <2>6 DEF Proceed
<1>3. CASE task'[h] = task[h]
  BY <1>3 DEF Alone
<1>4. ASSUME HandlerStep(h)
      PROVE  Alone(h)
  BY <1>1, <1>2, <1>4 DEF HandlerStep, IntentBegin, ConfirmBegin, DeliverBegin, AddBegin,
                          ReconcileBegin
<1>5. task'[h] = task[h] \/ HandlerStep(h)
  BY OthersStay
<1> QED
  BY <1>3, <1>4, <1>5

\* At most one handler's request changes in a step.
LEMMA OneMoves ==
  ASSUME TypeOK, [Next]_vars, NEW g \in Handler, NEW h \in Handler, g # h
  PROVE  task'[g] = task[g] \/ task'[h] = task[h]
BY OthersStay

\* Requests that overlap are contended.
LEMMA OverlapStep ==
  ASSUME TypeOK, OnceInv, [Next]_vars, NEW g \in Handler, NEW h \in Handler, g # h
  PROVE  Subject(task'[g]) \cap Subject(task'[h]) \subseteq contended'
<1>1. Subject(task[g]) \cap Subject(task[h]) \subseteq contended
  BY DEF OnceInv
<1>2. Alone(g) /\ Alone(h) /\ contended \subseteq contended'
  BY AloneStep, ContendedGrows
<1>3. CASE task'[g] = task[g]
  BY <1>1, <1>2, <1>3 DEF Alone
<1>4. CASE task'[h] = task[h]
  BY <1>1, <1>2, <1>4 DEF Alone
<1> QED
  BY <1>3, <1>4, OneMoves

\* What a request for cash or a reconciliation is about.
LEMMA SubjectFacts ==
  ASSUME NEW r
  PROVE  /\ r.op \in {"confirm", "deliver", "add", "addMark"} => r.order \in Subject(r)
         /\ r.op = "reconcile" => r.driver \in Subject(r)
BY DEF Subject

\* A wallet owes less only after a reconciliation.
LEMMA WalletStep ==
  ASSUME TypeOK, [Next]_vars, NEW d \in Driver
  PROVE  \/ wallet'[d] >= wallet[d]
         \/ \E h \in Handler : /\ ReconcileWrite(h) /\ task[h].driver = d
                               /\ wallet'[d] = wallet[d] - task[h].amount
<1>0. /\ wallet \in [Driver -> Int] /\ \A h \in Handler : task[h] \in Task
      /\ Fee \in Nat /\ Amounts \subseteq Nat
  BY AmountAssumption DEF TypeOK
<1>1. ASSUME NEW h \in Handler, ConfirmWrite(h) \/ DeliverWrite(h) \/ AddWrite(h)
      PROVE  wallet'[d] >= wallet[d]
  <2>1. PICK a \in Nat, x \in Driver : wallet' = [wallet EXCEPT ![x] = @ + a]
    BY <1>0, <1>1, TaskShape DEF ConfirmWrite, DeliverWrite, AddWrite, Op
  <2> QED
    BY <1>0, <2>1
<1>2. ASSUME NEW h \in Handler, ReconcileWrite(h), task[h].driver # d
      PROVE  wallet'[d] >= wallet[d]
  BY <1>0, <1>2 DEF ReconcileWrite
<1>3. ASSUME NEW h \in Handler, ReconcileWrite(h), task[h].driver = d
      PROVE  wallet'[d] = wallet[d] - task[h].amount
  BY <1>0, <1>3 DEF ReconcileWrite
<1>4. CASE UNCHANGED wallet
  BY <1>0, <1>4
<1> QED
  BY <1>1, <1>2, <1>3, <1>4
  DEF Next, vars, Proceed, IntentBegin, IntentRetrieve, IntentCreate, IntentSave,
      DeliverOnlyWrite, ConfirmBegin, DeliverBegin, AddBegin, AddMark, ReconcileBegin,
      ReconcileMark, BreakOff, Pay, Decline, Cancel, Settle, Forget, Webhook, cashVars

\* A driver owes what he was to hand in, so his wallet stays positive.
LEMMA OwesStep ==
  ASSUME TypeOK, TypeOK', OnceInv, [Next]_vars
  PROVE  OwesNoLess'
<1> SUFFICES ASSUME NEW d \in Driver, wallet'[d] < 0, d \notin contended'
             PROVE  FALSE
  BY DEF OwesNoLess
<1>1. d \notin contended /\ wallet[d] \in Int /\ wallet'[d] \in Int /\ ~(wallet[d] < 0)
  BY ContendedGrows DEF OnceInv, OwesNoLess, TypeOK
<1>2. PICK h \in Handler : /\ ReconcileWrite(h) /\ task[h].driver = d
                           /\ wallet'[d] = wallet[d] - task[h].amount
  BY <1>1, WalletStep
<1>3. task[h].op = "reconcile" /\ task[h] \in Task
  BY <1>2 DEF ReconcileWrite, Op, TypeOK
<1>4. PICK a \in Nat : a = task[h].amount
  BY <1>3, TaskShape, AmountAssumption
<1>5. wallet[d] >= a
  BY <1>1, <1>2, <1>3, <1>4 DEF OnceInv, OnceTask
<1> QED
  BY <1>1, <1>2, <1>4, <1>5

\* Cash is credited by a write of an order nobody had credited.
LEMMA CreditStep ==
  ASSUME TypeOK, OnceInv, [Next]_vars
  PROVE  CreditedOnce'
<1> SUFFICES ASSUME NEW i \in DOMAIN ledger', NEW j \in DOMAIN ledger', i # j,
                    ledger'[i].type = "COD_COLLECTION",
                    ledger'[j].type = "COD_COLLECTION",
                    ledger'[i].order = ledger'[j].order
             PROVE  ledger'[i].order \in contended'
  BY DEF CreditedOnce
<1>1. contended \subseteq contended'
  BY ContendedGrows
<1>2. CASE UNCHANGED ledger
  BY <1>1, <1>2 DEF OnceInv, CreditedOnce
<1>3. ASSUME NEW h \in Handler, Collecting(h)
      PROVE  ledger'[i].order \in contended'
  <2>1. PICK o, n : o \in Order /\ o = task[h].order /\ Added(n, o, "COD_COLLECTION")
    BY <1>3, CollectFacts
  <2>2. o \in contended \/ ~Credited(o)
    BY <1>3, <2>1 DEF OnceInv, OnceTask, Collecting, ConfirmWrite, DeliverWrite, AddWrite, Op
  <2>3. CASE i # n /\ j # n
    BY <1>1, <2>1, <2>3 DEF Added, OnceInv, CreditedOnce
  <2>4. CASE i = n \/ j = n
    <3>1. ledger'[i].order = o /\ Credited(o)
      BY <2>1, <2>4 DEF Added, Credited
    <3> QED
      BY <1>1, <2>2, <3>1
  <2> QED
    BY <2>3, <2>4
<1>4. ASSUME NEW h \in Handler, ReconcileWrite(h)
      PROVE  ledger'[i].order \in contended'
  <2>1. PICK o, n : o \in Order \cup {NoOrder} /\ Added(n, o, "COD_RECONCILIATION")
    BY <1>4, ReconcileFacts
  <2> QED
    BY <1>1, <2>1 DEF Added, OnceInv, CreditedOnce
<1> QED
  BY <1>2, <1>3, <1>4, LedgerStep

\* An order that is credited is marked, or about to be.
LEMMA MarkStep ==
  ASSUME TypeOK, OnceInv, [Next]_vars, NEW o \in Order, Credited(o)'
  PROVE  \/ o \in contended'
         \/ order'[o].collected
         \/ \E h \in Handler : task'[h].op = "addMark" /\ task'[h].order = o
<1>0. /\ contended \subseteq contended' /\ order \in [Order -> OrderRow]
      /\ order[o].collected => order'[o].collected
      /\ task \in [Handler -> Task]
  BY ContendedGrows, MarksLast DEF TypeOK
<1>1. ASSUME NEW h \in Handler, task[h].op = "addMark", task[h].order = o
      PROVE  \/ o \in contended' \/ order'[o].collected
             \/ task'[h] = task[h]
  <2>1. CASE HandlerStep(h)
    <3>1. AddMark(h) \/ BreakOff(h)
      <4>1. task[h] # Idle
        BY <1>1 DEF Idle
      <4>2. Proceed(h) => AddMark(h)
        BY <1>1 DEF Proceed, IntentRetrieve, IntentCreate, IntentSave, ConfirmWrite,
             DeliverWrite, DeliverOnlyWrite, AddWrite, ReconcileWrite, ReconcileMark, Op
      <4> QED
        BY <2>1, <4>1, <4>2 DEF HandlerStep, IntentBegin, ConfirmBegin, DeliverBegin,
             AddBegin, ReconcileBegin, Begin
    <3>2. CASE AddMark(h)
      BY <1>0, <1>1, <3>2 DEF AddMark, OrderRow
    <3>3. CASE BreakOff(h)
      BY <1>1, <3>3, SubjectFacts DEF BreakOff
    <3> QED
      BY <3>1, <3>2, <3>3
  <2> QED
    BY <2>1, OthersStay
<1>2. CASE Credited(o)
  BY <1>0, <1>1, <1>2 DEF OnceInv
<1>3. CASE ~Credited(o)
  <2>1. PICK h \in Handler : Collecting(h) \/ ReconcileWrite(h)
    BY <1>3, LedgerStep DEF Credited
  <2>2. CASE ReconcileWrite(h)
    BY <1>3, <2>2, ReconcileFacts DEF Added, Credited
  <2>3. CASE Collecting(h)
    <3>1. PICK q, n : q \in Order /\ q = task[h].order /\ Added(n, q, "COD_COLLECTION")
      BY <2>3, CollectFacts
    <3>2. q = o
      BY <1>3, <3>1 DEF Added, Credited
    <3>3. CASE AddWrite(h)
      BY <1>0, <3>1, <3>2, <3>3 DEF AddWrite, Continue
    <3>4. CASE ConfirmWrite(h)
      BY <1>0, <3>1, <3>2, <3>4 DEF ConfirmWrite, OrderRow
    <3>5. CASE DeliverWrite(h)
      BY <1>0, <3>1, <3>2, <3>5 DEF DeliverWrite, OrderRow
    <3> QED
      BY <2>3, <3>3, <3>4, <3>5 DEF Collecting
  <2> QED
    BY <2>1, <2>2, <2>3
<1> QED
  BY <1>2, <1>3

\* What a request relies on stays so while it meets no other.
LEMMA OnceTaskLasts ==
  ASSUME TypeOK, TypeOK', OnceInv, [Next]_vars, NEW g \in Handler, task'[g] = task[g]
  PROVE  OnceTask(task[g])'
<1>1. PICK r \in Task : r = task[g] /\ r = task'[g] /\ OnceTask(r)
  BY DEF TypeOK, OnceInv, OnceTask
<1>2. contended \subseteq contended'
  BY ContendedGrows
<1>3. ASSUME r.op \in {"confirm", "deliver", "add"}, r.order \notin contended'
      PROVE  ~Credited(r.order)'
  <2>1. ~Credited(r.order)
    BY <1>1, <1>2, <1>3 DEF OnceTask
  <2>2. UNCHANGED ledger => ~Credited(r.order)'
    BY <2>1 DEF Credited
  <2>3. ASSUME NEW h \in Handler, Collecting(h)
        PROVE  ~Credited(r.order)'
    <3>1. PICK o, n : o \in Order /\ o = task[h].order /\ Added(n, o, "COD_COLLECTION")
      BY <2>3, CollectFacts
    <3>2. h # g
      <4>1. task'[h] # task[h]
        BY <2>3 DEF Collecting, ConfirmWrite, DeliverWrite, AddWrite, Continue, Op, Idle,
                    TypeOK
      <4> QED
        BY <4>1
    <3>3. o \in Subject(task[h])
      BY <2>3, <3>1, SubjectFacts DEF Collecting, ConfirmWrite, DeliverWrite, AddWrite, Op
    <3>4. r.order \in Subject(task[g])
      BY <1>1, <1>3, SubjectFacts
    <3>5. o # r.order
      BY <1>2, <1>3, <3>2, <3>3, <3>4 DEF OnceInv
    <3> QED
      BY <2>1, <3>1, <3>5 DEF Added, Credited
  <2>4. ASSUME NEW h \in Handler, ReconcileWrite(h)
        PROVE  ~Credited(r.order)'
    BY <2>1, <2>4, ReconcileFacts DEF Added, Credited
  <2> QED
    BY <2>2, <2>3, <2>4, LedgerStep
<1>4. ASSUME r.op = "reconcile", r.driver \notin contended'
      PROVE  wallet'[r.driver] >= r.amount
  <2>1. wallet[r.driver] >= r.amount
    BY <1>1, <1>2, <1>4 DEF OnceTask
  <2>2. r.driver \in Driver /\ r.amount \in Nat
    BY <1>4, TaskShape, AmountAssumption
  <2>3. wallet[r.driver] \in Int /\ wallet'[r.driver] \in Int
    BY <2>2 DEF TypeOK
  <2>4. ASSUME NEW h \in Handler, ReconcileWrite(h), task[h].driver = r.driver
        PROVE  FALSE
    <3>1. h # g
      <4>1. task'[h] # task[h]
        BY <2>4 DEF ReconcileWrite, Continue, Op, Idle, TypeOK
      <4> QED
        BY <4>1
    <3>2. r.driver \in Subject(task[h]) \cap Subject(task[g])
      BY <1>1, <1>4, <2>4, SubjectFacts DEF ReconcileWrite, Op
    <3> QED
      BY <1>2, <1>4, <3>1, <3>2 DEF OnceInv
  <2> QED
    BY <2>1, <2>2, <2>3, <2>4, WalletStep
<1>5. OnceTask(r)'
  BY <1>3, <1>4 DEF OnceTask
<1> QED
  BY <1>1, <1>5 DEF OnceTask

\* A request begins with an order nobody has credited, or overlaps with who has.
LEMMA OnceBegin ==
  ASSUME TypeOK, TypeOK', OnceInv, [Next]_vars, NEW g \in Handler, Begun(g, task'[g])
  PROVE  OnceTask(task[g])'
<1>1. PICK r : r = task'[g] /\ Begun(g, r)
  OBVIOUS
<1>2. contended \subseteq contended'
  BY ContendedGrows
<1>3. ASSUME NEW o \in Order, ~order[o].collected, Begin(g, r), r.order = o,
             r.op \in {"confirm", "deliver", "add"}
      PROVE  o \in contended' \/ ~Credited(o)
  <2>1. ASSUME NEW h \in Handler, task[h].op = "addMark", task[h].order = o
        PROVE  o \in contended'
    <3>1. o \in Subject(r) /\ o \in Subject(task[h])
      BY <1>3, <2>1, SubjectFacts
    <3> QED
      BY <1>3, <3>1 DEF Begin
  <2> QED
    BY <1>2, <1>3, <2>1 DEF OnceInv
<1>4. ASSUME NEW o \in Order, NEW d \in Driver,
             \/ /\ ConfirmBegin(g, o, d)
                /\ r = [op |-> "confirm", order |-> o, driver |-> d]
             \/ /\ DeliverBegin(g, o, d) /\ Collects(o)
                /\ r = [op |-> "deliver", order |-> o, driver |-> d]
             \/ \E a \in Amounts :
                  /\ AddBegin(g, o, d, a)
                  /\ r = [op |-> "add", order |-> o, driver |-> d, amount |-> a]
      PROVE  OnceTask(r)'
  <2>1. ~order[o].collected
    BY <1>4 DEF ConfirmBegin, Confirmable, Collects, AddBegin
  <2>2. Begin(g, r)
    BY <1>4 DEF ConfirmBegin, DeliverBegin, AddBegin
  <2>3. r.order = o /\ r.op \in {"confirm", "deliver", "add"}
    BY <1>4
  <2>4. UNCHANGED ledger
    BY <1>4 DEF ConfirmBegin, DeliverBegin, AddBegin, cashVars
  <2>5. o \in contended' \/ ~Credited(o)'
    BY <1>3, <2>1, <2>2, <2>3, <2>4 DEF Credited
  <2> QED
    BY <2>3, <2>5 DEF OnceTask
<1>5. ASSUME NEW o \in Order, NEW d \in Driver, DeliverBegin(g, o, d), ~Collects(o),
             r = [op |-> "deliverOnly", order |-> o, driver |-> d]
      PROVE  OnceTask(r)'
  BY <1>5 DEF OnceTask
<1>6. ASSUME NEW d \in Driver, NEW a \in Amounts, NEW o \in Order \cup {NoOrder},
             ReconcileBegin(g, d, a, o),
             r = [op |-> "reconcile", driver |-> d, amount |-> a, order |-> o]
      PROVE  OnceTask(r)'
  BY <1>6 DEF ReconcileBegin, Covers, OnceTask, cashVars
<1>7. OnceTask(r)'
  BY <1>1, <1>4, <1>5, <1>6 DEF Begun
<1> QED
  BY <1>1, <1>7 DEF OnceTask

LEMMA OnceStep ==
  ASSUME TypeOK, TypeOK', OnceInv, [Next]_vars
  PROVE  OnceInv'
<1>1. ASSUME NEW g \in Handler
      PROVE  OnceTask(task[g])'
  <2>1. ASSUME WentOn(g, task'[g])
        PROVE  OnceTask(task[g])'
    <3>1. task'[g].op \notin {"confirm", "deliver", "add", "reconcile"}
      BY <2>1 DEF WentOn, Idle
    <3> QED
      BY <3>1 DEF OnceTask
  <2> QED
    BY <2>1, OnceTaskLasts, OnceBegin, TaskSource
<1>2. ASSUME NEW g \in Handler, NEW h \in Handler, g # h
      PROVE  (Subject(task[g]) \cap Subject(task[h]) \subseteq contended)'
  BY <1>2, OverlapStep DEF Subject
<1>3. ASSUME NEW o \in Order, Credited(o)'
      PROVE  \/ o \in contended'
             \/ order'[o].collected
             \/ \E h \in Handler : task'[h].op = "addMark" /\ task'[h].order = o
  BY <1>3, MarkStep
<1> QED
  BY <1>1, <1>2, <1>3, CreditStep, OwesStep DEF OnceInv

LEMMA OnceInit == Init => OnceInv
<1> SUFFICES ASSUME Init PROVE OnceInv
  OBVIOUS
<1>1. ledger = <<>> /\ DOMAIN ledger = {}
  BY DEF Init
<1>2. \A h \in Handler : task[h] = Idle
  BY DEF Init
<1>3. \A d \in Driver : ~(wallet[d] < 0)
  BY DEF Init
<1> QED
  BY <1>1, <1>2, <1>3 DEF OnceInv, OnceTask, Credited, CreditedOnce, OwesNoLess, Subject,
                          Idle

--------------------------------------------------------------------------------
(***************************************************************************)
(* Ledger and wallets: the sum of the rows of a driver.                    *)
(***************************************************************************)

\* The rows of d among those of ledger l, and what they come to.
RowsIn(l, d) == {i \in DOMAIN l : l[i].driver = d}
AmountsIn(l) == [i \in DOMAIN l |-> l[i].amount]
Balance(l, d) == SumOf(AmountsIn(l), RowsIn(l, d))

LEMMA RowsFacts ==
  ASSUME NEW l \in Seq(Entry), NEW d
  PROVE  /\ IsFiniteSet(RowsIn(l, d)) /\ RowsIn(l, d) \subseteq DOMAIN l
         /\ \A i \in RowsIn(l, d) : AmountsIn(l)[i] \in Int
<1>1. DOMAIN l = 1..Len(l) /\ Len(l) \in Nat
  OBVIOUS
<1>2. IsFiniteSet(DOMAIN l)
  BY <1>1, FS_Interval
<1>3. RowsIn(l, d) \subseteq DOMAIN l
  BY DEF RowsIn
<1>4. \A i \in DOMAIN l : l[i] \in Entry
  BY <1>1
<1> QED
  BY <1>2, <1>3, <1>4, FS_Subset DEF AmountsIn, Entry

\* LedgerBalanced, before and after a step, in terms of these sums.
LEMMA AmountIsBalance ==
  ASSUME NEW l, NEW d
  PROVE  AmountOf(RowsIn(l, d), l) = Balance(l, d)
<1>1. AmountOf(RowsIn(l, d), l) = FieldSum(l, "amount", RowsIn(l, d))
  BY DEF AmountOf, FieldSum
<1>2. RowsIn(l, d) \in SUBSET DOMAIN l
  BY DEF RowsIn
<1>3. FieldSum(l, "amount", RowsIn(l, d))
        = SumOf([i \in DOMAIN l |-> l[i]["amount"]], RowsIn(l, d))
  BY <1>2, SumField
<1> QED
  BY <1>1, <1>3 DEF Balance, AmountsIn

LEMMA BalancedFacts ==
  /\ LedgerBalanced <=> \A d \in Driver : wallet[d] = Balance(ledger, d)
  /\ LedgerBalanced' <=> \A d \in Driver : wallet'[d] = Balance(ledger', d)
<1>1. ASSUME NEW d
      PROVE  RowsOf(d) = RowsIn(ledger, d) /\ RowsOf(d)' = RowsIn(ledger', d)
  BY DEF RowsOf, RowsIn
<1> QED
  BY <1>1, AmountIsBalance DEF LedgerBalanced

\* A new row adds its amount to the sum of its driver, and to no other.
LEMMA BalanceAdded ==
  ASSUME NEW l \in Seq(Entry), NEW row \in Entry, NEW d \in Driver
  PROVE  /\ Balance(l, d) \in Int
         /\ Balance(Append(l, row), d)
              = IF row.driver = d THEN Balance(l, d) + row.amount ELSE Balance(l, d)
<1> DEFINE m == Append(l, row)
           n == Len(l) + 1
<1>1. /\ n \notin DOMAIN l /\ DOMAIN m = DOMAIN l \cup {n}
      /\ m[n] = row /\ \A i \in DOMAIN l : m[i] = l[i]
      /\ m \in Seq(Entry) /\ row.amount \in Int
  BY DEF Entry
<1> HIDE DEF m, n
<1>2. /\ IsFiniteSet(RowsIn(l, d)) /\ RowsIn(l, d) \subseteq DOMAIN l
      /\ \A i \in RowsIn(l, d) : AmountsIn(l)[i] \in Int
  BY RowsFacts
<1>3. Balance(l, d) \in Int
  BY <1>2, SumType DEF Balance
<1>4. /\ \A i \in RowsIn(l, d) : AmountsIn(m)[i] = AmountsIn(l)[i]
      /\ AmountsIn(m)[n] = row.amount
  BY <1>1, <1>2 DEF AmountsIn
<1>5. SumOf(AmountsIn(m), RowsIn(l, d)) = Balance(l, d)
  BY <1>2, <1>4, SumSame DEF Balance
<1>6. CASE row.driver # d
  <2>1. RowsIn(m, d) = RowsIn(l, d)
    BY <1>1, <1>6 DEF RowsIn
  <2> QED
    BY <1>3, <1>5, <1>6, <2>1 DEF Balance, m
<1>7. CASE row.driver = d
  <2>1. RowsIn(m, d) = RowsIn(l, d) \cup {n}
    BY <1>1, <1>7 DEF RowsIn
  <2>2. /\ n \notin RowsIn(l, d)
        /\ \A i \in RowsIn(l, d) \cup {n} : AmountsIn(m)[i] \in Int
    BY <1>1, <1>2, <1>4
  <2>3. SumOf(AmountsIn(m), RowsIn(l, d) \cup {n})
          = AmountsIn(m)[n] + SumOf(AmountsIn(m), RowsIn(l, d))
    BY <1>2, <2>2, SumAdd
  <2>4. Balance(m, d) = row.amount + Balance(l, d)
    BY <1>4, <1>5, <2>1, <2>3 DEF Balance
  <2> QED
    BY <1>1, <1>3, <1>7, <2>4 DEF m
<1> QED
  BY <1>6, <1>7

\* A write of cash books a row of the driver whose wallet it changes, by its amount.
LEMMA CashMoves ==
  ASSUME TypeOK, NEW h \in Handler, Collecting(h) \/ ReconcileWrite(h)
  PROVE  \E row \in Entry : /\ ledger' = Append(ledger, row)
                            /\ wallet' = [wallet EXCEPT ![row.driver] = @ + row.amount]
<1>0. /\ task[h] \in Task /\ wallet \in [Driver -> Int]
      /\ Fee \in Int /\ Amounts \subseteq Int
  BY AmountAssumption DEF TypeOK
<1>1. ASSUME NEW d \in Driver, NEW o \in Order \cup {NoOrder}, NEW amount \in Int,
             NEW type \in {"COD_COLLECTION", "COD_RECONCILIATION"},
             Book(d, o, amount, type), wallet' = [wallet EXCEPT ![d] = @ + amount]
      PROVE  \E row \in Entry :
               /\ ledger' = Append(ledger, row)
               /\ wallet' = [wallet EXCEPT ![row.driver] = @ + row.amount]
  <2>1. PICK row \in Entry :
          row = [driver |-> d, order |-> o, amount |-> amount, type |-> type]
    BY DEF Entry
  <2>2. ledger' = Append(ledger, row) /\ row.driver = d /\ row.amount = amount
    BY <1>1, <2>1 DEF Book
  <2> QED
    BY <1>1, <2>2
<1>2. CASE ConfirmWrite(h) \/ DeliverWrite(h)
  <2>1. task[h].driver \in Driver /\ task[h].order \in Order
    BY <1>0, <1>2, TaskShape DEF ConfirmWrite, DeliverWrite, Op
  <2>2. /\ Book(task[h].driver, task[h].order, Fee, "COD_COLLECTION")
        /\ wallet' = [wallet EXCEPT ![task[h].driver] = @ + Fee]
    BY <1>2 DEF ConfirmWrite, DeliverWrite
  <2> QED
    BY <1>0, <1>1, <2>1, <2>2
<1>3. CASE AddWrite(h)
  <2>1. /\ task[h].driver \in Driver /\ task[h].order \in Order
        /\ task[h].amount \in Int
    BY <1>0, <1>3, TaskShape DEF AddWrite, Op
  <2>2. /\ Book(task[h].driver, task[h].order, task[h].amount, "COD_COLLECTION")
        /\ wallet' = [wallet EXCEPT ![task[h].driver] = @ + task[h].amount]
    BY <1>3 DEF AddWrite
  <2> QED
    BY <1>1, <2>1, <2>2
<1>4. CASE ReconcileWrite(h)
  <2>1. PICK d \in Driver, o \in Order \cup {NoOrder}, amount \in Int :
          d = task[h].driver /\ o = task[h].order /\ amount = task[h].amount
    BY <1>0, <1>4, TaskShape DEF ReconcileWrite, Op
  <2>2. /\ Book(d, o, -amount, "COD_RECONCILIATION")
        /\ wallet' = [wallet EXCEPT ![d] = @ - amount]
    BY <1>4, <2>1 DEF ReconcileWrite, Debit
  <2>3. wallet[d] - amount = wallet[d] + (-amount) /\ -amount \in Int
    BY <1>0, <2>1
  <2>4. wallet' = [wallet EXCEPT ![d] = @ + (-amount)]
    BY <1>0, <2>2, <2>3
  <2> QED
    BY <1>1, <2>2, <2>3, <2>4
<1> QED
  BY <1>2, <1>3, <1>4 DEF Collecting

LEMMA LedgerBalancedStep ==
  ASSUME TypeOK, LedgerBalanced, [Next]_vars
  PROVE  LedgerBalanced'
<1>1. CASE UNCHANGED <<wallet, ledger>>
  BY <1>1, BalancedFacts
<1>2. ASSUME NEW h \in Handler, Collecting(h) \/ ReconcileWrite(h)
      PROVE  LedgerBalanced'
  <2>1. PICK row \in Entry : /\ ledger' = Append(ledger, row)
                             /\ wallet' = [wallet EXCEPT ![row.driver] = @ + row.amount]
    BY <1>2, CashMoves
  <2>2. ledger \in Seq(Entry) /\ wallet \in [Driver -> Int] /\ row.driver \in Driver
    BY DEF TypeOK, Entry
  <2>3. ASSUME NEW d \in Driver
        PROVE  wallet'[d] = Balance(ledger', d)
    <3>1. wallet[d] = Balance(ledger, d)
      BY BalancedFacts
    <3>2. Balance(ledger', d) = IF row.driver = d THEN Balance(ledger, d) + row.amount
                                ELSE Balance(ledger, d)
      BY <2>1, <2>2, BalanceAdded
    <3>3. wallet'[d] = IF row.driver = d THEN wallet[d] + row.amount ELSE wallet[d]
      BY <2>1, <2>2
    <3> QED
      BY <3>1, <3>2, <3>3
  <2> QED
    BY <2>3, BalancedFacts
<1>3. \/ UNCHANGED <<wallet, ledger>>
      \/ \E h \in Handler : Collecting(h) \/ ReconcileWrite(h)
  BY DEF Next, vars, Proceed, Collecting, IntentBegin, IntentRetrieve, IntentCreate,
         IntentSave, DeliverOnlyWrite, ConfirmBegin, DeliverBegin, AddBegin, AddMark,
         ReconcileBegin, ReconcileMark, BreakOff, Pay, Decline, Cancel, Settle, Forget,
         Webhook, cashVars
<1> QED
  BY <1>1, <1>2, <1>3

LEMMA LedgerBalancedInit == Init => LedgerBalanced
<1> SUFFICES ASSUME Init, NEW d \in Driver PROVE wallet[d] = Balance(ledger, d)
  BY BalancedFacts
<1>1. RowsIn(ledger, d) = {} /\ wallet[d] = 0
  BY DEF Init, RowsIn
<1> QED
  BY <1>1, SumEmpty DEF Balance

--------------------------------------------------------------------------------
(***************************************************************************)
(* The theorems.                                                           *)
(***************************************************************************)

\* The inductive invariants: card payments, cash, and requests that meet no other.
THEOREM Invariant == Spec => [](TypeOK /\ CardInv /\ CashInv /\ OnceInv)
<1>1. Init => TypeOK /\ CardInv /\ CashInv /\ OnceInv
  BY TypeInit, CardInit, CashInit, OnceInit
<1>2. TypeOK /\ CardInv /\ CashInv /\ OnceInv /\ [Next]_vars =>
        (TypeOK /\ CardInv /\ CashInv /\ OnceInv)'
  BY TypeStep, CardStep, CashStep, OnceStep
<1> QED
  BY <1>1, <1>2, PTL DEF Spec

\* Rows, ledger, intents, keys and requests in flight are well typed in every
\* reachable state, whatever requests, Stripe and crashes do.
THEOREM TypeCorrect == Spec => []TypeOK
BY Invariant, PTL

\* A payment that is COMPLETED was paid, by card or to a driver: no webhook that comes
\* late or twice completes one that was not.
THEOREM CompletedIsPaidSafe == Spec => []CompletedIsPaid
<1>1. TypeOK /\ CashInv => CompletedIsPaid
  BY DEF CashInv, CashOrder, CompletedIsPaid
<1> QED
  BY <1>1, Invariant, PTL

\* createEvent delivers a COD order only when its cash is collected, although it
\* decides from a read of the payment made before its transaction.
THEOREM DeliveredCollectedSafe == Spec => []DeliveredCollected
<1>1. CashInv => DeliveredCollected
  BY DEF CashInv, CashOrder, DeliveredCollected
<1> QED
  BY <1>1, Invariant, PTL

\* isCodCollected and codReconciledAt stand for rows of transactions, in whatever order
\* the separate writes of add-cod and of the reconciliation are made or lost.
THEOREM MarkedIsBookedSafe == Spec => []MarkedIsBooked
<1>1. CashInv => MarkedIsBooked
  BY DEF CashInv, CashOrder, MarkedIsBooked, Credited, HandedIn
<1> QED
  BY <1>1, Invariant, PTL

\* The cash of an order is credited once by confirmCOD, createEvent and add-cod, unless
\* requests for it overlap or break off.
THEOREM CreditedOnceSafe == Spec => []CreditedOnce
<1>1. OnceInv => CreditedOnce
  BY DEF OnceInv
<1> QED
  BY <1>1, Invariant, PTL

\* reconcileCod leaves a wallet negative only when two reconciliations overlap.
THEOREM OwesNoLessSafe == Spec => []OwesNoLess
<1>1. OnceInv => OwesNoLess
  BY DEF OnceInv
<1> QED
  BY <1>1, Invariant, PTL

\* What orders, ledger and wallets say of the cash fits together, whatever overlaps.
THEOREM CashAccountedSafe == Spec => []CashAccounted
<1>1. DeliveredCollected /\ MarkedIsBooked /\ CreditedOnce /\ OwesNoLess => CashAccounted
  BY DEF CashAccounted
<1> QED
  BY <1>1, DeliveredCollectedSafe, MarkedIsBookedSafe, CreditedOnceSafe, OwesNoLessSafe, PTL

\* codCollected of each wallet is the sum of its transactions, whatever requests write
\* both, overlap and break off: every path books what it adds to the wallet.
THEOREM LedgerBalancedSafe == Spec => []LedgerBalanced
<1>1. TypeOK /\ LedgerBalanced /\ [Next]_vars => LedgerBalanced'
  BY LedgerBalancedStep
<1> QED
  BY <1>1, LedgerBalancedInit, TypeCorrect, PTL DEF Spec

\* The idempotency keys leave a customer one intent to pay, however createPaymentIntent
\* is repeated and interleaved, while Stripe answers for the last one and keeps the keys.
THEOREM OneOpenIntentSafe == Spec => []OneOpenIntent
<1>1. TypeOK /\ CardInv => OneOpenIntent
  <2> SUFFICES ASSUME TypeOK, CardInv, NEW o \in Order \ misread,
                      NEW i \in DOMAIN intents[o], NEW j \in DOMAIN intents[o],
                      intents[o][i] = "open", intents[o][j] = "open"
               PROVE  i = j
    BY DEF OneOpenIntent
  <2>1. \A k \in DOMAIN intents[o] : k < Len(intents[o]) => intents[o][k] # "open"
    BY DEF CardInv, CardOrder
  <2>2. DOMAIN intents[o] = 1..Len(intents[o]) /\ Len(intents[o]) \in Nat
    BY DEF TypeOK
  <2> QED
    BY <2>1, <2>2
<1> QED
  BY <1>1, Invariant, PTL
================================================================================
