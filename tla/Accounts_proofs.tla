---------------------------- MODULE Accounts_proofs ----------------------------
(***************************************************************************)
(* The safety of codes, logins and address books, for any people, states   *)
(* and requests in flight; and that the tokens of a device are the chain   *)
(* TokenChain describes.  There is an inductive invariant for each of the  *)
(* parts of an account: codes (CodeInv), states of Google (AuthInv),       *)
(* sessions of Google (SessionInv), devices and tokens (DeviceInv) and the *)
(* address book (BookInv); each says what a request in flight may rely on, *)
(* where it matters as long as no other one of the subject overlapped it.  *)
(***************************************************************************)
EXTENDS Accounts, SetLemmas

\* Requests about one subject have overlapped.
OverlapInv ==
  \A g, h \in Handler : g # h => Subject(task[g]) \cap Subject(task[h]) \subseteq contended

CodeFree(k) == <<"code", k>> \notin contended
StateFree(s) == <<"state", s>> \notin contended
SessionFree(t) == <<"session", t>> \notin contended
BookFree(u) == <<"book", u>> \notin contended

\* A request that is to spend a code is for one purpose, and alone finds the code there
\* that was typed.
CodeTask(r) ==
  /\ r.op = "register" => r.key[2] = "REGISTER"
  /\ r.op = "reset" => r.key[2] = "FORGOT_PASSWORD"
  /\ r.op \in {"register", "reset"} /\ CodeFree(r.key) => code[r.key].number = r.typed

CodeInv == (\A h \in Handler : CodeTask(task[h])) /\ CodesAccounted

\* A callback alone with its state is the first; a state that let one through is gone.
AuthTask(r) == r.op = "callback" /\ StateFree(r.state) => passed[r.state] = 0

AuthInv ==
  /\ \A h \in Handler : AuthTask(task[h])
  /\ \A s \in AuthState : /\ authState[s] # "gone" => passed[s] = 0
                          /\ StateFree(s) => passed[s] <= 1

\* The tokens of a login by Google are stored once, and are handed to nobody before.
SessionTask(r) ==
  /\ r.op \in {"store", "redeem"} => r.token \in DOMAIN token
  /\ r.op = "store" => handed[r.token] = 0 /\ r.token \notin stored
  /\ r.op = "redeem" /\ SessionFree(r.token) => handed[r.token] = 0

SessionInv ==
  /\ \A h \in Handler : SessionTask(task[h])
  /\ \A g, h \in Handler :
       g # h /\ task[g].op = "store" /\ task[h].op \in {"store", "redeem"} =>
         task[g].token # task[h].token
  /\ stored \subseteq DOMAIN token
  /\ \A t \in Token : /\ t \in stored \/ t \notin DOMAIN token => handed[t] = 0
                      /\ SessionFree(t) => handed[t] <= 1

\* A login is to issue the first token of its device; who exchanges or gives up a token
\* knows its device; a logout under way has taken the last one.
DeviceTask(r) ==
  /\ r.op = "token" => /\ r.device \in DOMAIN device /\ device[r.device]
                       /\ \A t \in DOMAIN token : token[t].device # r.device
  /\ r.op \in {"refresh", "logout"} =>
       r.token \in DOMAIN token /\ token[r.token].device = r.device
  /\ r.op = "deactivate" => /\ LiveTokens(r.device) = {}
                            /\ \E t \in DOMAIN token : token[t].device = r.device

DeviceInv ==
  /\ \A h \in Handler : DeviceTask(task[h])
  /\ \A g, h \in Handler :
       g # h /\ task[g].op = "token" /\ task[h].op = "token" => task[g].device # task[h].device
  /\ \A t \in DOMAIN token : token[t].device \in DOMAIN device
  /\ \A t, u \in DOMAIN token :
       token[t].live /\ token[u].live /\ token[t].device = token[u].device => t = u
  /\ DeviceFollowsToken

RowsOf(u) == {a \in DOMAIN book : book[a].user = u}

\* A request changes rows of its user alone. Without another one beside it, it clears
\* every default but the one it makes, and makes one only if it takes one.
BookTask(r) ==
  /\ r.op \in {"update", "updateCommit", "remove", "removeCommit"} =>
       r.address \in RowsOf(r.user)
  /\ r.op \in {"addCommit", "updateCommit"} => r.clear \subseteq RowsOf(r.user)
  /\ r.op = "removeCommit" => r.fallback \subseteq RowsOf(r.user)
  /\ r.op = "addCommit" /\ BookFree(r.user) /\ r.isDefault => Active(r.user) \subseteq r.clear
  /\ r.op = "updateCommit" /\ BookFree(r.user) /\ r.wish = "yes" =>
       Active(r.user) \ {r.address} \subseteq r.clear
  /\ r.op = "remove" /\ BookFree(r.user) /\ r.isDefault =>
       book[r.address].active /\ book[r.address].isDefault
  /\ r.op = "removeCommit" /\ BookFree(r.user) =>
       \/ r.fallback = {}
       \/ /\ book[r.address].active /\ book[r.address].isDefault
          /\ \E m \in Address : r.fallback = {m}

BookInv ==
  /\ \A h \in Handler : BookTask(task[h])
  /\ \A u \in Email : BookFree(u) =>
       \A a, b \in Active(u) : book[a].isDefault /\ book[b].isDefault => a = b

IInv ==
  /\ TypeOK /\ OverlapInv
  /\ CodeInv /\ AuthInv /\ SessionInv /\ DeviceInv /\ BookInv

--------------------------------------------------------------------------------
(***************************************************************************)
(* What requests hold, and what a step changes.                            *)
(***************************************************************************)

\* What a request holds is determined by the step that is next.
LEMMA TaskShape ==
  ASSUME NEW r \in Task
  PROVE  /\ r.op = "send" => r.key \in Key
         /\ r.op \in {"register", "reset"} => r.key \in Key /\ r.typed \in Code
         /\ r.op = "callback" => r.state \in AuthState
         /\ r.op = "createUser" => r.email \in Email
         /\ r.op = "device" => r.google \in BOOLEAN
         /\ r.op = "token" => r.device \in Device /\ r.google \in BOOLEAN
         /\ r.op \in {"store", "redeem"} => r.token \in Token
         /\ r.op \in {"refresh", "logout"} => r.token \in Token /\ r.device \in Device
         /\ r.op = "deactivate" => r.device \in Device
         /\ r.op \in {"add", "addCommit"} => r.user \in Email /\ r.isDefault \in BOOLEAN
         /\ r.op = "addCommit" => r.clear \in SUBSET Address
         /\ r.op \in {"update", "updateCommit"} =>
              r.user \in Email /\ r.address \in Address /\ r.wish \in Wish
         /\ r.op = "updateCommit" => r.clear \in SUBSET Address
         /\ r.op \in {"remove", "removeCommit"} => r.user \in Email /\ r.address \in Address
         /\ r.op = "remove" => r.isDefault \in BOOLEAN
         /\ r.op = "removeCommit" => r.fallback \in SUBSET Address
<1>1. r \in [op : {"send"}, key : Key] => r.op = "send" /\ r.key \in Key
  OBVIOUS
<1>2. r \in [op : {"register", "reset"}, key : Key, typed : Code] =>
        r.op \in {"register", "reset"} /\ r.key \in Key /\ r.typed \in Code
  OBVIOUS
<1>3. r \in [op : {"callback"}, state : AuthState] => r.op = "callback" /\ r.state \in AuthState
  OBVIOUS
<1>4. r \in [op : {"google"}] => r.op = "google"
  OBVIOUS
<1>5. r \in [op : {"createUser"}, email : Email] => r.op = "createUser" /\ r.email \in Email
  OBVIOUS
<1>6. r \in [op : {"device"}, google : BOOLEAN] => r.op = "device" /\ r.google \in BOOLEAN
  OBVIOUS
<1>7. r \in [op : {"token"}, device : Device, google : BOOLEAN] =>
        r.op = "token" /\ r.device \in Device /\ r.google \in BOOLEAN
  OBVIOUS
<1>8. r \in [op : {"store", "redeem"}, token : Token] =>
        r.op \in {"store", "redeem"} /\ r.token \in Token
  OBVIOUS
<1>9. r \in [op : {"refresh", "logout"}, token : Token, device : Device] =>
        r.op \in {"refresh", "logout"} /\ r.token \in Token /\ r.device \in Device
  OBVIOUS
<1>10. r \in [op : {"deactivate"}, device : Device] => r.op = "deactivate" /\ r.device \in Device
  OBVIOUS
<1>11. r \in [op : {"add"}, user : Email, isDefault : BOOLEAN] =>
         r.op = "add" /\ r.user \in Email /\ r.isDefault \in BOOLEAN
  OBVIOUS
<1>12. r \in [op : {"addCommit"}, user : Email, isDefault : BOOLEAN, clear : SUBSET Address] =>
         /\ r.op = "addCommit" /\ r.user \in Email /\ r.isDefault \in BOOLEAN
         /\ r.clear \in SUBSET Address
  OBVIOUS
<1>13. r \in [op : {"update"}, user : Email, address : Address, wish : Wish] =>
         r.op = "update" /\ r.user \in Email /\ r.address \in Address /\ r.wish \in Wish
  OBVIOUS
<1>14. r \in [op : {"updateCommit"}, user : Email, address : Address, wish : Wish,
              clear : SUBSET Address] =>
         /\ r.op = "updateCommit" /\ r.user \in Email /\ r.address \in Address
         /\ r.wish \in Wish /\ r.clear \in SUBSET Address
  OBVIOUS
<1>15. r \in [op : {"remove"}, user : Email, address : Address, isDefault : BOOLEAN] =>
         r.op = "remove" /\ r.user \in Email /\ r.address \in Address /\ r.isDefault \in BOOLEAN
  OBVIOUS
<1>16. r \in [op : {"removeCommit"}, user : Email, address : Address,
              fallback : SUBSET Address] =>
         /\ r.op = "removeCommit" /\ r.user \in Email /\ r.address \in Address
         /\ r.fallback \in SUBSET Address
  OBVIOUS
<1>17. r = Idle => r.op = "idle"
  BY DEF Idle
<1> QED
  BY <1>1, <1>2, <1>3, <1>4, <1>5, <1>6, <1>7, <1>8, <1>9, <1>10, <1>11, <1>12, <1>13,
     <1>14, <1>15, <1>16, <1>17 DEF Task

\* What a request is about.
LEMMA SubjectFacts ==
  ASSUME NEW r
  PROVE  /\ r.op \in {"send", "register", "reset"} => Subject(r) = {<<"code", r.key>>}
         /\ r.op \in {"token", "refresh", "logout", "deactivate"} =>
              Subject(r) = {<<"device", r.device>>}
         /\ r.op = "callback" => Subject(r) = {<<"state", r.state>>}
         /\ r.op = "redeem" => Subject(r) = {<<"session", r.token>>}
         /\ r.op \in {"add", "addCommit", "update", "updateCommit", "remove",
                      "removeCommit"} => Subject(r) = {<<"book", r.user>>}
         /\ r.op \notin {"send", "register", "reset", "token", "refresh", "logout",
                         "deactivate", "callback", "redeem", "add", "addCommit", "update",
                         "updateCommit", "remove", "removeCommit"} => Subject(r) = {}
BY DEF Subject

LEMMA SubjectType ==
  ASSUME NEW r \in Task
  PROVE  Subject(r) \subseteq UNION {{"code"} \X Key, {"device"} \X Device,
                                     {"state"} \X AuthState, {"session"} \X Token,
                                     {"book"} \X Email}
BY SubjectFacts, TaskShape

\* What a step about others leaves: the tables.
TablesStay == UNCHANGED <<account, codeVars, sessionVars, book>>

\* A request arrives with what it read, which holds then.
Arrives(r) ==
  /\ r.op \in {"send", "register", "reset", "device", "callback", "redeem", "refresh",
               "logout", "add", "update", "remove"}
  /\ CodeTask(r) /\ AuthTask(r) /\ SessionTask(r) /\ DeviceTask(r) /\ BookTask(r)
  /\ r.op = "redeem" => r.token \in stored

BeginStep(h) == \E r \in Task : Begin(h, r) /\ TablesStay /\ Arrives(r)

\* What one more row makes of a sequence, and another value of one of its rows.
LEMMA RowAdded ==
  ASSUME NEW S, NEW s \in Seq(S), NEW x \in S
  PROVE  /\ Append(s, x) \in Seq(S) /\ Len(Append(s, x)) = Len(s) + 1
         /\ DOMAIN Append(s, x) = DOMAIN s \cup {Len(s) + 1}
         /\ Append(s, x)[Len(s) + 1] = x
         /\ \A i \in DOMAIN s : Append(s, x)[i] = s[i]
         /\ Len(s) + 1 \notin DOMAIN s /\ Len(s) \in Nat
OBVIOUS

LEMMA RowSet ==
  ASSUME NEW S, NEW s \in Seq(S), NEW i \in DOMAIN s, NEW x \in S
  PROVE  LET u == [s EXCEPT ![i] = x]
         IN  /\ u \in Seq(S) /\ Len(u) = Len(s) /\ DOMAIN u = DOMAIN s
             /\ u[i] = x /\ \A k \in DOMAIN s : k # i => u[k] = s[k]
OBVIOUS

\* The rows of the tables, by number.
LEMMA RowTypes ==
  ASSUME TypeOK
  PROVE  /\ device \in Seq(BOOLEAN) /\ token \in Seq(TokenRow) /\ book \in Seq(AddressRow)
         /\ Len(device) \in Nat /\ Len(token) \in Nat /\ Len(book) \in Nat
         /\ DOMAIN device = 1..Len(device) /\ DOMAIN device \subseteq Device
         /\ DOMAIN token = 1..Len(token) /\ DOMAIN token \subseteq Token
         /\ DOMAIN book = 1..Len(book) /\ DOMAIN book \subseteq Address
         /\ \A d \in DOMAIN device : device[d] \in BOOLEAN
         /\ \A t \in DOMAIN token :
              token[t] \in TokenRow /\ token[t].device \in Device /\ token[t].live \in BOOLEAN
         /\ \A a \in DOMAIN book :
              /\ book[a] \in AddressRow /\ book[a].user \in Email
              /\ book[a].active \in BOOLEAN /\ book[a].isDefault \in BOOLEAN
<1>1. /\ device \in Seq(BOOLEAN) /\ Len(device) <= MaxDevices
      /\ token \in Seq(TokenRow) /\ Len(token) <= MaxTokens
      /\ book \in Seq(AddressRow) /\ Len(book) <= MaxAddresses
  BY DEF TypeOK
<1>2. /\ Len(device) \in Nat /\ DOMAIN device = 1..Len(device)
      /\ Len(token) \in Nat /\ DOMAIN token = 1..Len(token)
      /\ Len(book) \in Nat /\ DOMAIN book = 1..Len(book)
  BY <1>1
<1>3. DOMAIN device \subseteq Device /\ DOMAIN token \subseteq Token /\ DOMAIN book \subseteq Address
  BY <1>1, <1>2, BoundAssumption DEF Device, Token, Address
<1>4. \A d \in DOMAIN device : device[d] \in BOOLEAN
  BY <1>1
<1>5. \A t \in DOMAIN token :
        token[t] \in TokenRow /\ token[t].device \in Device /\ token[t].live \in BOOLEAN
  <2>1. \A t \in DOMAIN token : token[t] \in TokenRow
    BY <1>1
  <2> QED
    BY <2>1 DEF TokenRow
<1>6. \A a \in DOMAIN book :
        /\ book[a] \in AddressRow /\ book[a].user \in Email
        /\ book[a].active \in BOOLEAN /\ book[a].isDefault \in BOOLEAN
  <2>1. \A a \in DOMAIN book : book[a] \in AddressRow
    BY <1>1
  <2> QED
    BY <2>1 DEF AddressRow
<1> QED
  BY <1>1, <1>2, <1>3, <1>4, <1>5, <1>6

\* A request that arrives holds what its guard has read.
LEMMA Beginning ==
  ASSUME TypeOK, AuthInv, SessionInv, DeviceInv, NEW h \in Handler,
         \/ \E k \in Key : SendBegin(h, k)
         \/ \E e \in Email, typed \in Code : RegisterBegin(h, e, typed) \/ ResetBegin(h, e, typed)
         \/ \E e \in Email : LoginBegin(h, e)
         \/ \E s \in AuthState : CallbackBegin(h, s)
         \/ \E t \in Token : RedeemBegin(h, t) \/ RefreshBegin(h, t) \/ LogoutBegin(h, t)
         \/ \E e \in Email, wish \in Wish : AddBegin(h, e, wish)
         \/ \E a \in Address, wish \in Wish : UpdateBegin(h, a, wish)
         \/ \E a \in Address : RemoveBegin(h, a)
  PROVE  BeginStep(h)
<1>1. ASSUME NEW k \in Key, SendBegin(h, k)
      PROVE  BeginStep(h)
  <2>1. PICK r \in Task : r = [op |-> "send", key |-> k]
    BY DEF Task
  <2>2. Arrives(r)
    BY <2>1 DEF Arrives, CodeTask, AuthTask, SessionTask, DeviceTask, BookTask
  <2> QED
    BY <1>1, <2>1, <2>2 DEF SendBegin, BeginStep, TablesStay
<1>2. ASSUME NEW e \in Email, NEW typed \in Code, RegisterBegin(h, e, typed)
      PROVE  BeginStep(h)
  <2>1. PICK k \in Key : k = <<e, "REGISTER">>
    BY DEF Key, Purpose
  <2>2. PICK r \in Task : r = [op |-> "register", key |-> k, typed |-> typed]
    BY DEF Task
  <2>3. code[k].number = typed /\ k[2] = "REGISTER"
    BY <1>2, <2>1 DEF RegisterBegin, Valid
  <2>4. Arrives(r)
    BY <2>2, <2>3 DEF Arrives, CodeTask, AuthTask, SessionTask, DeviceTask, BookTask
  <2> QED
    BY <1>2, <2>1, <2>2, <2>4 DEF RegisterBegin, BeginStep, TablesStay
<1>3. ASSUME NEW e \in Email, NEW typed \in Code, ResetBegin(h, e, typed)
      PROVE  BeginStep(h)
  <2>1. PICK k \in Key : k = <<e, "FORGOT_PASSWORD">>
    BY DEF Key, Purpose
  <2>2. PICK r \in Task : r = [op |-> "reset", key |-> k, typed |-> typed]
    BY DEF Task
  <2>3. code[k].number = typed /\ k[2] = "FORGOT_PASSWORD"
    BY <1>3, <2>1 DEF ResetBegin, Valid
  <2>4. Arrives(r)
    BY <2>2, <2>3 DEF Arrives, CodeTask, AuthTask, SessionTask, DeviceTask, BookTask
  <2> QED
    BY <1>3, <2>1, <2>2, <2>4 DEF ResetBegin, BeginStep, TablesStay
<1>4. ASSUME NEW e \in Email, LoginBegin(h, e)
      PROVE  BeginStep(h)
  <2>1. PICK r \in Task : r = [op |-> "device", google |-> FALSE]
    BY DEF Task
  <2>2. Arrives(r)
    BY <2>1 DEF Arrives, CodeTask, AuthTask, SessionTask, DeviceTask, BookTask
  <2> QED
    BY <1>4, <2>1, <2>2 DEF LoginBegin, BeginStep, TablesStay
<1>5. ASSUME NEW s \in AuthState, CallbackBegin(h, s)
      PROVE  BeginStep(h)
  <2>1. PICK r \in Task : r = [op |-> "callback", state |-> s]
    BY DEF Task
  <2>2. passed[s] = 0
    BY <1>5 DEF CallbackBegin, AuthInv
  <2>3. Arrives(r)
    BY <2>1, <2>2 DEF Arrives, CodeTask, AuthTask, SessionTask, DeviceTask, BookTask
  <2> QED
    BY <1>5, <2>1, <2>3 DEF CallbackBegin, BeginStep, TablesStay
<1>6. ASSUME NEW t \in Token, RedeemBegin(h, t)
      PROVE  BeginStep(h)
  <2>1. PICK r \in Task : r = [op |-> "redeem", token |-> t]
    BY DEF Task
  <2>2. t \in stored /\ t \in DOMAIN token /\ handed[t] = 0
    BY <1>6 DEF RedeemBegin, SessionInv
  <2>3. Arrives(r)
    BY <2>1, <2>2 DEF Arrives, CodeTask, AuthTask, SessionTask, DeviceTask, BookTask
  <2> QED
    BY <1>6, <2>1, <2>3 DEF RedeemBegin, BeginStep, TablesStay
<1>7. ASSUME NEW t \in Token, NEW op \in {"refresh", "logout"}, t \in DOMAIN token, TablesStay,
             Begin(h, [op |-> op, token |-> t, device |-> token[t].device])
      PROVE  BeginStep(h)
  <2>1. PICK d \in Device : d = token[t].device
    BY <1>7, RowTypes
  <2>2. PICK r \in Task : r = [op |-> op, token |-> t, device |-> d]
    BY DEF Task
  <2>3. Arrives(r)
    BY <1>7, <2>1, <2>2 DEF Arrives, CodeTask, AuthTask, SessionTask, DeviceTask, BookTask
  <2> QED
    BY <1>7, <2>1, <2>2, <2>3 DEF BeginStep
<1>8. ASSUME NEW t \in Token, RefreshBegin(h, t) \/ LogoutBegin(h, t)
      PROVE  BeginStep(h)
  BY <1>7, <1>8 DEF RefreshBegin, LogoutBegin, Live, TablesStay
<1>9. ASSUME NEW e \in Email, NEW wish \in Wish, AddBegin(h, e, wish)
      PROVE  BeginStep(h)
  <2>1. PICK i \in BOOLEAN : i = (wish = "yes" \/ (wish = "unset" /\ Active(e) = {}))
    OBVIOUS
  <2>2. PICK r \in Task : r = [op |-> "add", user |-> e, isDefault |-> i]
    BY DEF Task
  <2>3. Arrives(r)
    BY <2>2 DEF Arrives, CodeTask, AuthTask, SessionTask, DeviceTask, BookTask
  <2> QED
    BY <1>9, <2>1, <2>2, <2>3 DEF AddBegin, BeginStep, TablesStay
<1>10. ASSUME NEW a \in Address, NEW wish \in Wish, UpdateBegin(h, a, wish)
       PROVE  BeginStep(h)
  <2>1. a \in DOMAIN book
    BY <1>10 DEF UpdateBegin
  <2>2. PICK u \in Email : u = book[a].user
    BY <2>1, RowTypes
  <2>3. PICK r \in Task : r = [op |-> "update", user |-> u, address |-> a, wish |-> wish]
    BY DEF Task
  <2>4. a \in RowsOf(u)
    BY <2>1, <2>2 DEF RowsOf
  <2>5. Arrives(r)
    BY <2>3, <2>4 DEF Arrives, CodeTask, AuthTask, SessionTask, DeviceTask, BookTask
  <2> QED
    BY <1>10, <2>2, <2>3, <2>5 DEF UpdateBegin, BeginStep, TablesStay
<1>11. ASSUME NEW a \in Address, RemoveBegin(h, a)
       PROVE  BeginStep(h)
  <2>1. a \in DOMAIN book /\ book[a].active
    BY <1>11 DEF RemoveBegin
  <2>2. PICK u \in Email, i \in BOOLEAN : u = book[a].user /\ i = book[a].isDefault
    BY <2>1, RowTypes
  <2>3. PICK r \in Task : r = [op |-> "remove", user |-> u, address |-> a, isDefault |-> i]
    BY DEF Task
  <2>4. a \in RowsOf(u)
    BY <2>1, <2>2 DEF RowsOf
  <2>5. Arrives(r)
    BY <2>1, <2>2, <2>3, <2>4 DEF Arrives, CodeTask, AuthTask, SessionTask, DeviceTask, BookTask
  <2> QED
    BY <1>11, <2>2, <2>3, <2>5 DEF RemoveBegin, BeginStep, TablesStay
<1> QED
  BY <1>1, <1>2, <1>3, <1>4, <1>5, <1>6, <1>8, <1>9, <1>10, <1>11

\* A request goes on, by itself or with what Google answers.
GoesOn(h) == Proceed(h) \/ \E e \in Email : GoogleAnswer(h, e)

LEMMA NextSteps ==
  ASSUME TypeOK, AuthInv, SessionInv, DeviceInv, [Next]_vars
  PROVE  \/ UNCHANGED vars
         \/ \E h \in Handler : BeginStep(h) \/ GoesOn(h)
         \/ \E k \in Key : Expire(k)
         \/ \E s \in AuthState : Authorize(s) \/ ForgetState(s)
         \/ \E t \in Token : ForgetSession(t)
BY Beginning DEF Next, GoesOn

\* What the next thing of a request that goes on is, and which step it took to get there.
Follows(h, r) ==
  /\ r.op \in {"idle", "google", "createUser", "device", "token", "store", "deactivate",
               "addCommit", "updateCommit", "removeCommit"}
  /\ r.op = "token" => DeviceWrite(h)
  /\ r.op = "store" => TokenWrite(h)
  /\ r.op = "deactivate" => LogoutDelete(h)
  /\ r.op = "addCommit" => AddClear(h)
  /\ r.op = "updateCommit" => UpdateClear(h)
  /\ r.op = "removeCommit" => RemoveFallback(h)

\* The step of a request that goes on leaves the others alone.
LEMMA Going ==
  ASSUME TypeOK, NEW h \in Handler, GoesOn(h)
  PROVE  /\ UNCHANGED contended
         /\ \A g \in Handler : g # h => task'[g] = task[g]
         /\ Follows(h, task'[h])
<1>0. task \in [Handler -> Task]
  BY DEF TypeOK
<1>1. ASSUME NEW r, Continue(h, r)
      PROVE  /\ UNCHANGED contended /\ task'[h] = r
             /\ \A g \in Handler : g # h => task'[g] = task[g]
  BY <1>0, <1>1 DEF Continue
<1>2. Follows(h, Idle)
  BY DEF Idle, Follows
<1>3. \E r : Continue(h, r) /\ Follows(h, r)
  <2>1. CASE \/ SendWrite(h) \/ RegisterWrite(h) \/ ResetWrite(h) \/ SessionStore(h)
             \/ RedeemAnswer(h) \/ RefreshWrite(h) \/ LogoutDevice(h) \/ AddCommit(h)
             \/ UpdateCommit(h) \/ RemoveCommit(h) \/ BreakOff(h)
    BY <1>2, <2>1 DEF SendWrite, RegisterWrite, ResetWrite, SessionStore, RedeemAnswer,
       RefreshWrite, LogoutDevice, AddCommit, UpdateCommit, RemoveCommit, BreakOff
  <2>2. CASE DeviceWrite(h)
    <3>1. PICK r : r = [op |-> "token", device |-> Len(device) + 1, google |-> task[h].google]
      OBVIOUS
    <3>2. Continue(h, r) /\ r.op = "token"
      BY <2>2, <3>1 DEF DeviceWrite
    <3> QED
      BY <2>2, <3>2 DEF Follows
  <2>3. CASE TokenWrite(h)
    <3>1. PICK r : r = [op |-> "store", token |-> Len(token) + 1]
      OBVIOUS
    <3>2. Continue(h, r) \/ Continue(h, Idle)
      BY <2>3, <3>1 DEF TokenWrite
    <3>3. r.op = "store"
      BY <3>1
    <3>4. Follows(h, r)
      BY <2>3, <3>3 DEF Follows
    <3> QED
      BY <1>2, <3>2, <3>4
  <2>4. CASE CallbackPass(h)
    BY <2>4 DEF CallbackPass, Follows
  <2>5. CASE GoogleUser(h)
    <3>1. PICK r : r = [op |-> "device", google |-> TRUE]
      OBVIOUS
    <3>2. Follows(h, r)
      BY <3>1 DEF Follows
    <3> QED
      BY <1>2, <2>5, <3>1, <3>2 DEF GoogleUser
  <2>6. CASE LogoutDelete(h)
    <3>1. PICK r : r = [op |-> "deactivate", device |-> task[h].device]
      OBVIOUS
    <3>2. r.op = "deactivate"
      BY <3>1
    <3>3. Follows(h, r)
      BY <2>6, <3>2 DEF Follows
    <3> QED
      BY <1>2, <2>6, <3>1, <3>3 DEF LogoutDelete
  <2>7. CASE AddClear(h)
    <3>1. PICK r : r = [op |-> "addCommit", user |-> task[h].user,
                        isDefault |-> task[h].isDefault,
                        clear |-> ToClear(task[h].user, task[h].isDefault, {})]
      OBVIOUS
    <3>2. Continue(h, r) /\ r.op = "addCommit"
      BY <2>7, <3>1 DEF AddClear
    <3> QED
      BY <2>7, <3>2 DEF Follows
  <2>8. CASE UpdateClear(h)
    <3>1. PICK r : r = [op |-> "updateCommit", user |-> task[h].user,
                        address |-> task[h].address, wish |-> task[h].wish,
                        clear |-> ToClear(task[h].user, task[h].wish = "yes",
                                          {task[h].address})]
      OBVIOUS
    <3>2. Continue(h, r) /\ r.op = "updateCommit"
      BY <2>8, <3>1 DEF UpdateClear
    <3> QED
      BY <2>8, <3>2 DEF Follows
  <2>9. CASE RemoveFallback(h)
    <3>1. PICK r : r = [op |-> "removeCommit", user |-> task[h].user,
                        address |-> task[h].address,
                        fallback |-> Fallback(task[h].user, task[h].address,
                                              task[h].isDefault)]
      OBVIOUS
    <3>2. Continue(h, r) /\ r.op = "removeCommit"
      BY <2>9, <3>1 DEF RemoveFallback
    <3> QED
      BY <2>9, <3>2 DEF Follows
  <2>10. ASSUME NEW e \in Email, GoogleAnswer(h, e)
         PROVE  \E r : Continue(h, r) /\ Follows(h, r)
    <3>1. PICK r : r = IF HasUser(e) THEN [op |-> "device", google |-> TRUE]
                       ELSE [op |-> "createUser", email |-> e]
      OBVIOUS
    <3>2. Continue(h, r) /\ r.op \in {"device", "createUser"}
      BY <2>10, <3>1 DEF GoogleAnswer
    <3> QED
      BY <3>2 DEF Follows
  <2> QED
    BY <2>1, <2>2, <2>3, <2>4, <2>5, <2>6, <2>7, <2>8, <2>9, <2>10 DEF GoesOn, Proceed
<1> QED
  BY <1>1, <1>3

\* Which tables a request that goes on writes in which step.
LEMMA Writing ==
  ASSUME NEW h \in Handler, GoesOn(h)
  PROVE  /\ \/ SendWrite(h) \/ RegisterWrite(h) \/ ResetWrite(h) \/ GoogleUser(h)
            \/ UNCHANGED <<account, code, issued, uses>>
         /\ CallbackPass(h) \/ UNCHANGED <<authState, passed>>
         /\ TokenWrite(h) \/ RefreshWrite(h) \/ LogoutDelete(h) \/ UNCHANGED token
         /\ \/ TokenWrite(h) \/ SessionStore(h) \/ RedeemAnswer(h) \/ RefreshWrite(h)
            \/ UNCHANGED <<stored, handed>>
         /\ DeviceWrite(h) \/ LogoutDevice(h) \/ UNCHANGED device
         /\ BreakOff(h) \/ UNCHANGED broken
         /\ AddCommit(h) \/ UpdateCommit(h) \/ RemoveCommit(h) \/ UNCHANGED book
<1>1. CASE SendWrite(h) \/ RegisterWrite(h) \/ ResetWrite(h) \/ GoogleUser(h)
  BY <1>1 DEF SendWrite, RegisterWrite, ResetWrite, GoogleUser, sessionVars
<1>2. CASE DeviceWrite(h) \/ TokenWrite(h) \/ CallbackPass(h)
  BY <1>2 DEF DeviceWrite, TokenWrite, CallbackPass, codeVars
<1>3. CASE SessionStore(h) \/ RedeemAnswer(h) \/ RefreshWrite(h)
  BY <1>3 DEF SessionStore, RedeemAnswer, RefreshWrite, codeVars
<1>4. CASE LogoutDelete(h) \/ LogoutDevice(h) \/ BreakOff(h)
  BY <1>4 DEF LogoutDelete, LogoutDevice, BreakOff, codeVars
<1>5. CASE AddClear(h) \/ UpdateClear(h) \/ RemoveFallback(h)
  BY <1>5 DEF AddClear, UpdateClear, RemoveFallback, codeVars, sessionVars
<1>6. CASE AddCommit(h) \/ UpdateCommit(h) \/ RemoveCommit(h)
  BY <1>6 DEF AddCommit, UpdateCommit, RemoveCommit, codeVars, sessionVars
<1>7. ASSUME NEW e \in Email, GoogleAnswer(h, e)
      PROVE  UNCHANGED <<account, codeVars, sessionVars, book>>
  BY <1>7 DEF GoogleAnswer
<1> QED
  BY <1>1, <1>2, <1>3, <1>4, <1>5, <1>6, <1>7 DEF GoesOn, Proceed, codeVars, sessionVars

--------------------------------------------------------------------------------
(***************************************************************************)
(* Address books.                                                          *)
(***************************************************************************)

\* Clearing takes the mark of the default from the rows that were found.
LEMMA ClearedRows ==
  ASSUME TypeOK, NEW clear
  PROVE  /\ Cleared(clear) \in Seq(AddressRow) /\ Len(Cleared(clear)) = Len(book)
         /\ DOMAIN Cleared(clear) = DOMAIN book
         /\ \A a \in DOMAIN book :
              /\ Cleared(clear)[a].user = book[a].user
              /\ Cleared(clear)[a].active = book[a].active
              /\ Cleared(clear)[a].isDefault <=> book[a].isDefault /\ a \notin clear
<1>1. ASSUME NEW a \in DOMAIN book
      PROVE  /\ Cleared(clear)[a] \in AddressRow
             /\ Cleared(clear)[a].user = book[a].user
             /\ Cleared(clear)[a].active = book[a].active
             /\ Cleared(clear)[a].isDefault <=> book[a].isDefault /\ a \notin clear
  <2>1. PICK row \in AddressRow : row = book[a]
    BY <1>1, RowTypes
  <2>2. PICK wiped \in AddressRow : wiped = [row EXCEPT !.isDefault = FALSE]
    BY DEF AddressRow
  <2>3. wiped.user = row.user /\ wiped.active = row.active /\ wiped.isDefault = FALSE
    BY <2>2 DEF AddressRow
  <2>4. Cleared(clear)[a] = IF a \in clear THEN wiped ELSE row
    BY <1>1, <2>1, <2>2 DEF Cleared
  <2> QED
    BY <2>1, <2>3, <2>4
<1>2. DOMAIN Cleared(clear) = 1..Len(book) /\ Len(book) \in Nat
  BY RowTypes DEF Cleared
<1>3. PICK c : c = Cleared(clear)
  OBVIOUS
<1>4. c = [a \in 1..Len(book) |-> c[a]]
  BY <1>2, <1>3, RowTypes DEF Cleared
<1>5. \A a \in 1..Len(book) : c[a] \in AddressRow
  BY <1>1, <1>3, RowTypes
<1>6. c \in Seq(AddressRow) /\ Len(c) = Len(book)
  BY <1>2, <1>4, <1>5
<1> QED
  BY <1>1, <1>2, <1>3, <1>6, RowTypes

\* A new row, beside those that were cleared.
LEMMA AddRows ==
  ASSUME TypeOK, NEW h \in Handler, AddCommit(h)
  PROVE  LET n == Len(book) + 1
         IN  /\ task[h].op = "addCommit" /\ task[h].user \in Email /\ task[h].isDefault \in BOOLEAN
             /\ book' \in Seq(AddressRow) /\ Len(book') <= MaxAddresses
             /\ DOMAIN book' = DOMAIN book \cup {n} /\ n \notin DOMAIN book
             /\ book'[n].user = task[h].user /\ book'[n].active
             /\ book'[n].isDefault = task[h].isDefault
             /\ \A a \in DOMAIN book :
                  /\ book'[a].user = book[a].user /\ book'[a].active = book[a].active
                  /\ book'[a].isDefault <=> book[a].isDefault /\ a \notin task[h].clear
<1>1. task[h].op = "addCommit" /\ task[h] \in Task
  BY DEF AddCommit, Op, TypeOK
<1>2. PICK u \in Email, i \in BOOLEAN : u = task[h].user /\ i = task[h].isDefault
  BY <1>1, TaskShape
<1>3. PICK row \in AddressRow : row = [user |-> u, active |-> TRUE, isDefault |-> i]
  BY DEF AddressRow
<1>4. PICK c : c = Cleared(task[h].clear)
  OBVIOUS
<1>5. book' = Append(c, row) /\ Len(book) < MaxAddresses
  BY <1>2, <1>3, <1>4 DEF AddCommit
<1>6. /\ c \in Seq(AddressRow) /\ Len(c) = Len(book) /\ DOMAIN c = DOMAIN book
      /\ \A a \in DOMAIN book :
           /\ c[a].user = book[a].user /\ c[a].active = book[a].active
           /\ c[a].isDefault <=> book[a].isDefault /\ a \notin task[h].clear
  BY <1>4, ClearedRows
<1>7. /\ book' \in Seq(AddressRow) /\ Len(book') = Len(book) + 1
      /\ DOMAIN book' = DOMAIN book \cup {Len(book) + 1} /\ Len(book) + 1 \notin DOMAIN book
      /\ book'[Len(book) + 1] = row /\ \A a \in DOMAIN book : book'[a] = c[a]
  BY <1>5, <1>6, RowAdded
<1>8. Len(book') <= MaxAddresses
  BY <1>5, <1>7, RowTypes, BoundAssumption
<1> QED
  BY <1>1, <1>2, <1>3, <1>6, <1>7, <1>8

\* The row that is named gets what was asked for, the others are cleared or stay.
LEMMA UpdateRows ==
  ASSUME TypeOK, BookInv, NEW h \in Handler, UpdateCommit(h)
  PROVE  /\ task[h].op = "updateCommit" /\ task[h].user \in Email
         /\ book' \in Seq(AddressRow) /\ Len(book') <= MaxAddresses
         /\ DOMAIN book' = DOMAIN book
         /\ \A a \in DOMAIN book :
              /\ book'[a].user = book[a].user /\ book'[a].active = book[a].active
              /\ book'[a].isDefault <=>
                   IF a = task[h].address /\ task[h].wish # "unset" THEN task[h].wish = "yes"
                   ELSE book[a].isDefault /\ a \notin task[h].clear
<1>1. task[h].op = "updateCommit" /\ task[h] \in Task /\ Len(book) <= MaxAddresses
  BY DEF UpdateCommit, Op, TypeOK
<1>2. PICK u \in Email, b \in DOMAIN book, wish \in Wish :
        u = task[h].user /\ b = task[h].address /\ wish = task[h].wish
  <2>1. BookTask(task[h])
    BY DEF BookInv
  <2> QED
    BY <1>1, <2>1, TaskShape DEF BookTask, RowsOf
<1>3. PICK c : c = Cleared(task[h].clear)
  OBVIOUS
<1>4. /\ c \in Seq(AddressRow) /\ Len(c) = Len(book) /\ DOMAIN c = DOMAIN book
      /\ \A a \in DOMAIN book :
           /\ c[a].user = book[a].user /\ c[a].active = book[a].active
           /\ c[a].isDefault <=> book[a].isDefault /\ a \notin task[h].clear
  BY <1>3, ClearedRows
<1>5. PICK old \in AddressRow : old = c[b]
  BY <1>2, <1>4
<1>6. PICK i \in BOOLEAN : i = IF wish = "unset" THEN old.isDefault ELSE wish = "yes"
  BY DEF AddressRow
<1>7. PICK row \in AddressRow : row = [old EXCEPT !.isDefault = i]
  BY DEF AddressRow
<1>8. row.user = old.user /\ row.active = old.active /\ row.isDefault = i
  BY <1>7 DEF AddressRow
<1>9. book' = [c EXCEPT ![b] = row]
  BY <1>2, <1>3, <1>5, <1>6, <1>7 DEF UpdateCommit
<1>10. /\ book' \in Seq(AddressRow) /\ Len(book') = Len(book) /\ DOMAIN book' = DOMAIN book
       /\ book'[b] = row /\ \A a \in DOMAIN book : a # b => book'[a] = c[a]
  BY <1>2, <1>4, <1>9, RowSet
<1>11. ASSUME NEW a \in DOMAIN book
       PROVE  /\ book'[a].user = book[a].user /\ book'[a].active = book[a].active
              /\ book'[a].isDefault <=>
                   IF a = b /\ wish # "unset" THEN wish = "yes"
                   ELSE book[a].isDefault /\ a \notin task[h].clear
  BY <1>4, <1>5, <1>6, <1>8, <1>10
<1> QED
  BY <1>1, <1>2, <1>10, <1>11

\* The row that is named is put away, and those chosen in its place become the default.
LEMMA RemoveRows ==
  ASSUME TypeOK, NEW h \in Handler, RemoveCommit(h)
  PROVE  /\ task[h].op = "removeCommit" /\ task[h].user \in Email
         /\ book' \in Seq(AddressRow) /\ Len(book') <= MaxAddresses
         /\ DOMAIN book' = DOMAIN book
         /\ \A a \in DOMAIN book :
              /\ book'[a].user = book[a].user
              /\ book'[a].active <=> book[a].active /\ a # task[h].address
              /\ book'[a].isDefault <=>
                   a # task[h].address /\ (book[a].isDefault \/ a \in task[h].fallback)
<1>1. task[h].op = "removeCommit" /\ task[h] \in Task /\ Len(book) <= MaxAddresses
  BY DEF RemoveCommit, Op, TypeOK
<1>2. PICK b, F : b = task[h].address /\ F = task[h].fallback
  OBVIOUS
<1>3. book' = [a \in DOMAIN book |->
                 IF a = b THEN [book[a] EXCEPT !.active = FALSE, !.isDefault = FALSE]
                 ELSE IF a \in F THEN [book[a] EXCEPT !.isDefault = TRUE] ELSE book[a]]
  BY <1>2 DEF RemoveCommit
<1>4. ASSUME NEW a \in DOMAIN book
      PROVE  /\ book'[a] \in AddressRow /\ book'[a].user = book[a].user
             /\ book'[a].active <=> book[a].active /\ a # b
             /\ book'[a].isDefault <=> a # b /\ (book[a].isDefault \/ a \in F)
  <2>1. PICK row \in AddressRow : row = book[a]
    BY RowTypes
  <2>2. PICK off \in AddressRow : off = [row EXCEPT !.active = FALSE, !.isDefault = FALSE]
    BY DEF AddressRow
  <2>3. PICK on \in AddressRow : on = [row EXCEPT !.isDefault = TRUE]
    BY DEF AddressRow
  <2>4. /\ off.user = row.user /\ off.active = FALSE /\ off.isDefault = FALSE
        /\ on.user = row.user /\ on.active = row.active /\ on.isDefault = TRUE
    BY <2>2, <2>3 DEF AddressRow
  <2>5. book'[a] = IF a = b THEN off ELSE IF a \in F THEN on ELSE row
    BY <1>3, <2>1, <2>2, <2>3
  <2> QED
    BY <2>1, <2>4, <2>5
<1>5. book' \in Seq(AddressRow) /\ Len(book') = Len(book) /\ DOMAIN book' = DOMAIN book
  <2>1. DOMAIN book' = 1..Len(book) /\ Len(book) \in Nat
    BY <1>3, RowTypes
  <2>2. book' = [a \in 1..Len(book) |-> book'[a]]
    BY <1>3, RowTypes
  <2>3. \A a \in 1..Len(book) : book'[a] \in AddressRow
    BY <1>4, RowTypes
  <2>4. PICK c : c = book'
    OBVIOUS
  <2> QED
    BY <2>1, <2>2, <2>3, <2>4, RowTypes
<1>6. task[h].user \in Email
  BY <1>1, TaskShape
<1> QED
  BY <1>1, <1>2, <1>4, <1>5, <1>6

\* What takes the place of a default: nothing, or one row of the same person.
LEMMA FallbackFacts ==
  ASSUME TypeOK, NEW u, NEW a, NEW wasDefault \in BOOLEAN
  PROVE  /\ Fallback(u, a, wasDefault) \subseteq Active(u) \ {a}
         /\ Fallback(u, a, wasDefault) # {} =>
              wasDefault /\ \E m \in Active(u) : Fallback(u, a, wasDefault) = {m}
<1> DEFINE rest == Active(u) \ {a}
           defaults == {b \in rest : book[b].isDefault}
           pool == IF defaults = {} THEN rest ELSE defaults
<1>1. CASE ~wasDefault \/ rest = {}
  BY <1>1 DEF Fallback
<1>2. CASE wasDefault /\ rest # {}
  <2>1. pool # {} /\ pool \subseteq rest
    BY <1>2
  <2>2. pool \in SUBSET Int /\ IsFiniteSet(pool)
    <3>1. pool \subseteq DOMAIN book /\ DOMAIN book = 1..Len(book) /\ Len(book) \in Nat
      BY <2>1, RowTypes DEF Active
    <3> HIDE DEF pool
    <3>2. IsFiniteSet(1..Len(book))
      BY <3>1, FS_Interval
    <3>3. IsFiniteSet(pool)
      BY <3>1, <3>2, FS_Subset
    <3> QED
      BY <3>1, <3>3
  <2>3. Min(pool) \in pool
    <3> HIDE DEF pool
    <3> QED
      BY <2>1, <2>2, MinFacts
  <2>4. Fallback(u, a, wasDefault) = {Min(pool)}
    BY <1>2 DEF Fallback
  <2> HIDE DEF pool
  <2> QED
    BY <1>2, <2>1, <2>3, <2>4
<1> QED
  BY <1>1, <1>2

\* What a request in flight keeps when rows change: they keep their users, and as long as
\* it is alone with its user, those of that user stay as they are.
LEMMA BookTaskStays ==
  ASSUME NEW r, BookTask(r), contended \subseteq contended', DOMAIN book \subseteq DOMAIN book',
         \A a \in DOMAIN book : book'[a].user = book[a].user,
         r.op \in {"addCommit", "updateCommit", "remove", "removeCommit"} /\ BookFree(r.user) =>
           \A a \in DOMAIN book' : book'[a].user = r.user =>
             /\ a \in DOMAIN book
             /\ book'[a].active <=> book[a].active
             /\ book'[a].isDefault <=> book[a].isDefault
  PROVE  /\ r.op \in {"update", "updateCommit", "remove", "removeCommit"} =>
              r.address \in RowsOf(r.user)'
         /\ r.op \in {"addCommit", "updateCommit"} => r.clear \subseteq RowsOf(r.user)'
         /\ r.op = "removeCommit" => r.fallback \subseteq RowsOf(r.user)'
         /\ r.op = "addCommit" /\ BookFree(r.user)' /\ r.isDefault =>
              Active(r.user)' \subseteq r.clear
         /\ r.op = "updateCommit" /\ BookFree(r.user)' /\ r.wish = "yes" =>
              Active(r.user)' \ {r.address} \subseteq r.clear
         /\ r.op = "remove" /\ BookFree(r.user)' /\ r.isDefault =>
              book'[r.address].active /\ book'[r.address].isDefault
         /\ r.op = "removeCommit" /\ BookFree(r.user)' =>
              \/ r.fallback = {}
              \/ /\ book'[r.address].active /\ book'[r.address].isDefault
                 /\ \E m \in Address : r.fallback = {m}
<1>1. RowsOf(r.user) \subseteq RowsOf(r.user)'
  BY DEF RowsOf
<1>2. BookFree(r.user)' => BookFree(r.user)
  BY DEF BookFree
<1>3. r.op \in {"addCommit", "updateCommit"} /\ BookFree(r.user) =>
        Active(r.user)' \subseteq Active(r.user)
  BY DEF Active
<1>4. r.op \in {"remove", "removeCommit"} /\ BookFree(r.user) =>
        /\ r.address \in RowsOf(r.user)
        /\ book'[r.address].active <=> book[r.address].active
        /\ book'[r.address].isDefault <=> book[r.address].isDefault
  BY DEF BookTask, RowsOf
<1> QED
  BY <1>1, <1>2, <1>3, <1>4 DEF BookTask

\* A step changes the rows of the user whose request goes on.
LEMMA BookChange ==
  ASSUME TypeOK, BookInv, NEW h \in Handler, GoesOn(h)
  PROVE  /\ DOMAIN book \subseteq DOMAIN book'
         /\ \A a \in DOMAIN book : book'[a].user = book[a].user
         /\ \/ UNCHANGED book
            \/ /\ task[h].op \in {"addCommit", "updateCommit", "removeCommit"}
               /\ \A a \in DOMAIN book' : book'[a].user # task[h].user =>
                    /\ a \in DOMAIN book
                    /\ book'[a].active <=> book[a].active
                    /\ book'[a].isDefault <=> book[a].isDefault
<1>0. BookTask(task[h])
  BY DEF BookInv
<1>1. CASE AddCommit(h)
  <2>1. task[h].clear \subseteq RowsOf(task[h].user)
    BY <1>0, <1>1, AddRows DEF BookTask
  <2> QED
    BY <1>1, <2>1, AddRows DEF RowsOf
<1>2. CASE UpdateCommit(h)
  <2>1. task[h].clear \subseteq RowsOf(task[h].user) /\ task[h].address \in RowsOf(task[h].user)
    BY <1>0, <1>2, UpdateRows DEF BookTask
  <2> QED
    BY <1>2, <2>1, UpdateRows DEF RowsOf
<1>3. CASE RemoveCommit(h)
  <2>1. task[h].fallback \subseteq RowsOf(task[h].user) /\ task[h].address \in RowsOf(task[h].user)
    BY <1>0, <1>3, RemoveRows DEF BookTask
  <2> QED
    BY <1>3, <2>1, RemoveRows DEF RowsOf
<1> QED
  BY <1>1, <1>2, <1>3, Writing

\* The default of a user stays the only one.
OneAtMost(u) == \A a, b \in Active(u) : book[a].isDefault /\ book[b].isDefault => a = b

LEMMA OneStays ==
  ASSUME TypeOK, BookInv, NEW h \in Handler, GoesOn(h), NEW u \in Email, BookFree(u)
  PROVE  OneAtMost(u)'
<1>0. OneAtMost(u) /\ BookTask(task[h])
  BY DEF BookInv, OneAtMost
<1>1. CASE ~ UNCHANGED book /\ task[h].user = u
  <2>1. CASE AddCommit(h)
    <3>1. PICK n : n = Len(book) + 1
      OBVIOUS
    <3>2. task[h].isDefault => \A a \in Active(u) : a \in task[h].clear
      BY <1>0, <1>1, <2>1, AddRows DEF BookTask
    <3>3. \A a \in Active(u)' : book'[a].isDefault =>
            \/ a = n /\ task[h].isDefault
            \/ a \in Active(u) /\ book[a].isDefault /\ a \notin task[h].clear
      BY <2>1, <3>1, AddRows DEF Active
    <3> QED
      BY <1>0, <3>2, <3>3 DEF OneAtMost
  <2>2. CASE UpdateCommit(h)
    <3>1. task[h].wish = "yes" => Active(u) \ {task[h].address} \subseteq task[h].clear
      BY <1>0, <1>1, <2>2, UpdateRows DEF BookTask
    <3>2. \A a \in Active(u)' : book'[a].isDefault =>
            \/ a = task[h].address /\ task[h].wish = "yes"
            \/ /\ a \in Active(u) /\ book[a].isDefault /\ a \notin task[h].clear
               /\ a # task[h].address \/ task[h].wish = "unset"
      BY <2>2, UpdateRows DEF Active
    <3> QED
      BY <1>0, <3>1, <3>2 DEF OneAtMost
  <2>3. CASE RemoveCommit(h)
    <3>1. \/ task[h].fallback = {}
          \/ /\ task[h].address \in Active(u) /\ book[task[h].address].isDefault
             /\ \E m \in Address : task[h].fallback = {m}
      BY <1>0, <1>1, <2>3, RemoveRows DEF BookTask, Active, RowsOf
    <3>2. \A a \in Active(u)' : book'[a].isDefault =>
            /\ a # task[h].address
            /\ \/ a \in task[h].fallback
               \/ a \in Active(u) /\ book[a].isDefault
      BY <2>3, RemoveRows DEF Active
    <3>3. CASE task[h].fallback = {}
      BY <1>0, <3>2, <3>3 DEF OneAtMost
    <3>4. ASSUME task[h].address \in Active(u), book[task[h].address].isDefault,
                 NEW m \in Address, task[h].fallback = {m}
          PROVE  OneAtMost(u)'
      <4>1. \A a \in Active(u)' : book'[a].isDefault => a = m
        BY <1>0, <3>2, <3>4 DEF OneAtMost
      <4> QED
        BY <4>1 DEF OneAtMost
    <3> QED
      BY <3>1, <3>3, <3>4
  <2> QED
    BY <1>1, <2>1, <2>2, <2>3, Writing
<1>2. CASE UNCHANGED book
  BY <1>0, <1>2 DEF OneAtMost, Active
<1>3. CASE ~ UNCHANGED book /\ task[h].user # u
  <2>1. \A a \in DOMAIN book' : book'[a].user = u =>
          /\ a \in DOMAIN book /\ book'[a].user = book[a].user
          /\ book'[a].active <=> book[a].active
          /\ book'[a].isDefault <=> book[a].isDefault
    BY <1>3, BookChange
  <2>2. \A a \in Active(u)' : a \in Active(u) /\ (book'[a].isDefault <=> book[a].isDefault)
    BY <2>1 DEF Active
  <2> QED
    BY <1>0, <2>2 DEF OneAtMost
<1> QED
  BY <1>1, <1>2, <1>3

\* Two requests about one subject: it is marked.
LEMMA Meeting ==
  ASSUME OverlapInv, NEW g \in Handler, NEW h \in Handler, g # h,
         NEW x, x \in Subject(task[g]), x \in Subject(task[h])
  PROVE  x \in contended
BY DEF OverlapInv

\* What a request that goes on holds next of the book.
LEMMA BookNext ==
  ASSUME TypeOK, BookInv, NEW h \in Handler, GoesOn(h)
  PROVE  BookTask(task[h])'
<1>0. task \in [Handler -> Task] /\ task[h] \in Task /\ BookTask(task[h])
  BY DEF TypeOK, BookInv
<1>1. Follows(h, task'[h]) /\ UNCHANGED contended
  BY Going
<1>2. CASE AddClear(h)
  <2>1. PICK u, i : u = task[h].user /\ i = task[h].isDefault
    OBVIOUS
  <2>2. PICK C : C = ToClear(u, i, {})
    OBVIOUS
  <2>3. PICK r : r = [op |-> "addCommit", user |-> u, isDefault |-> i, clear |-> C]
    OBVIOUS
  <2>4. task' = [task EXCEPT ![h] = r] /\ UNCHANGED book
    BY <1>2, <2>1, <2>2, <2>3 DEF AddClear, Continue
  <2>5. task'[h] = r /\ book' = book
    BY <1>0, <2>4
  <2>6. C \subseteq Active(u) /\ (i => C = Active(u)) /\ Active(u) \subseteq RowsOf(u)
    BY <2>2 DEF ToClear, Active, RowsOf
  <2>7. RowsOf(u)' = RowsOf(u) /\ Active(u)' = Active(u)
    BY <2>5 DEF RowsOf, Active
  <2> QED
    BY <2>3, <2>5, <2>6, <2>7 DEF BookTask
<1>3. CASE UpdateClear(h)
  <2>1. PICK u, a, w : u = task[h].user /\ a = task[h].address /\ w = task[h].wish
    OBVIOUS
  <2>2. PICK C : C = ToClear(u, w = "yes", {a})
    OBVIOUS
  <2>3. PICK r : r = [op |-> "updateCommit", user |-> u, address |-> a, wish |-> w, clear |-> C]
    OBVIOUS
  <2>4. task' = [task EXCEPT ![h] = r] /\ UNCHANGED book /\ task[h].op = "update"
    BY <1>3, <2>1, <2>2, <2>3 DEF UpdateClear, Continue, Op
  <2>5. task'[h] = r /\ book' = book /\ a \in RowsOf(u)
    BY <1>0, <2>1, <2>4 DEF BookTask
  <2>6. /\ C \subseteq Active(u) /\ (w = "yes" => C = Active(u) \ {a})
        /\ Active(u) \subseteq RowsOf(u)
    BY <2>2 DEF ToClear, Active, RowsOf
  <2>7. RowsOf(u)' = RowsOf(u) /\ Active(u)' = Active(u)
    BY <2>5 DEF RowsOf, Active
  <2> QED
    BY <2>3, <2>5, <2>6, <2>7 DEF BookTask
<1>4. CASE RemoveFallback(h)
  <2>1. task[h].op = "remove"
    BY <1>4 DEF RemoveFallback, Op
  <2>2. PICK u \in Email, a \in Address, i \in BOOLEAN :
          u = task[h].user /\ a = task[h].address /\ i = task[h].isDefault
    BY <1>0, <2>1, TaskShape
  <2>3. PICK F : F = Fallback(u, a, i)
    OBVIOUS
  <2>4. PICK r : r = [op |-> "removeCommit", user |-> u, address |-> a, fallback |-> F]
    OBVIOUS
  <2>5. task' = [task EXCEPT ![h] = r] /\ UNCHANGED book
    BY <1>4, <2>2, <2>3, <2>4 DEF RemoveFallback, Continue
  <2>6. task'[h] = r /\ book' = book /\ a \in RowsOf(u)
    BY <1>0, <2>1, <2>2, <2>5 DEF BookTask
  <2>7. F \subseteq Active(u) /\ (F # {} => i /\ \E m \in Active(u) : F = {m})
    BY <2>3, FallbackFacts
  <2>8. Active(u) \subseteq RowsOf(u) /\ RowsOf(u) \subseteq Address
    BY RowTypes DEF Active, RowsOf
  <2>9. BookFree(u) /\ i => book[a].active /\ book[a].isDefault
    BY <1>0, <2>1, <2>2 DEF BookTask
  <2>10. RowsOf(u)' = RowsOf(u) /\ (BookFree(u)' <=> BookFree(u))
    BY <1>1, <2>6 DEF RowsOf, BookFree
  <2>11. /\ r.op = "removeCommit" /\ r.user = u /\ r.address = a /\ r.fallback = F
         /\ F \subseteq RowsOf(u)
         /\ F # {} => \E m \in Address : F = {m}
    BY <2>4, <2>7, <2>8
  <2> QED
    BY <2>6, <2>7, <2>9, <2>10, <2>11 DEF BookTask
<1> QED
  BY <1>1, <1>2, <1>3, <1>4 DEF Follows, BookTask

LEMMA BookStep ==
  ASSUME TypeOK, OverlapInv, AuthInv, SessionInv, DeviceInv, BookInv, [Next]_vars
  PROVE  BookInv'
<1>1. ASSUME NEW h \in Handler, BeginStep(h)
      PROVE  BookInv'
  <2>1. PICK r \in Task : Begin(h, r) /\ TablesStay /\ BookTask(r)
    BY <1>1 DEF BeginStep, Arrives
  <2>2. /\ task'[h] = r /\ \A g \in Handler : g # h => task'[g] = task[g]
        /\ contended \subseteq contended' /\ UNCHANGED book
    BY <2>1 DEF Begin, TypeOK, TablesStay
  <2>3. \A g \in Handler : BookTask(task'[g])
    BY <2>1, <2>2 DEF BookInv
  <2>4. \A g \in Handler : BookTask(task[g])'
    BY <2>2, <2>3 DEF BookTask, BookFree, RowsOf, Active
  <2> QED
    BY <2>2, <2>4 DEF BookInv, BookFree, Active
<1>2. ASSUME NEW h \in Handler, GoesOn(h)
      PROVE  BookInv'
  <2>1. UNCHANGED contended /\ \A g \in Handler : g # h => task'[g] = task[g]
    BY <1>2, Going
  <2>2. ASSUME NEW g \in Handler, g # h
        PROVE  BookTask(task[g])'
    <3>1. PICK r : r = task[g]
      OBVIOUS
    <3>2. BookTask(r) /\ task'[g] = r
      BY <2>1, <2>2, <3>1 DEF BookInv
    <3>3. ASSUME r.op \in {"addCommit", "updateCommit", "remove", "removeCommit"},
                 BookFree(r.user)
          PROVE  \A a \in DOMAIN book' : book'[a].user = r.user =>
                   /\ a \in DOMAIN book
                   /\ book'[a].active <=> book[a].active
                   /\ book'[a].isDefault <=> book[a].isDefault
      <4>1. <<"book", r.user>> \in Subject(task[g])
        BY <3>1, <3>3, SubjectFacts
      <4>2. task[h].op \in {"addCommit", "updateCommit", "removeCommit"} =>
              <<"book", task[h].user>> \in Subject(task[h])
        BY SubjectFacts
      <4>3. UNCHANGED book \/ task[h].user # r.user
        BY <1>2, <2>2, <3>3, <4>1, <4>2, BookChange, Meeting DEF BookFree
      <4> QED
        BY <1>2, <4>3, BookChange
    <3> QED
      BY <1>2, <2>1, <3>2, <3>3, BookChange, BookTaskStays DEF BookTask
  <2>3. \A u \in Email : BookFree(u)' => OneAtMost(u)'
    BY <1>2, <2>1, OneStays DEF BookFree
  <2>4. \A g \in Handler : BookTask(task[g])'
    BY <1>2, <2>2, BookNext
  <2> QED
    BY <2>3, <2>4 DEF BookInv, OneAtMost
<1>3. CASE UNCHANGED <<book, task, contended>>
  BY <1>3 DEF BookInv, BookTask, BookFree, RowsOf, Active
<1> QED
  BY <1>1, <1>2, <1>3, NextSteps DEF vars, Expire, Authorize, ForgetState, ForgetSession

--------------------------------------------------------------------------------
(***************************************************************************)
(* Codes.                                                                  *)
(***************************************************************************)

Use == [typed : Code, deleted : Code]

LEMMA CodeTypes ==
  ASSUME TypeOK
  PROVE  /\ account \in [Email -> {"none", "seeded", "code", "google"}]
         /\ code \in [Key -> CodeRow] /\ issued \in [Key -> 0..MaxCodes]
         /\ uses \in [Key -> Seq(Use)] /\ MaxCodes \in Nat
         /\ \A k \in Key : /\ code[k].number \in Code \cup {NoCode} /\ issued[k] \in Nat
                           /\ Len(uses[k]) \in Nat
<1>1. /\ account \in [Email -> {"none", "seeded", "code", "google"}]
      /\ code \in [Key -> CodeRow] /\ issued \in [Key -> 0..MaxCodes]
      /\ uses \in [Key -> Seq(Use)] /\ MaxCodes \in Nat
  BY BoundAssumption DEF TypeOK, Use
<1>2. ASSUME NEW k \in Key
      PROVE  /\ code[k].number \in Code \cup {NoCode} /\ issued[k] \in Nat
             /\ Len(uses[k]) \in Nat
  <2>1. code[k] \in CodeRow /\ issued[k] \in 0..MaxCodes /\ uses[k] \in Seq(Use)
    BY <1>1
  <2> QED
    BY <1>1, <2>1 DEF CodeRow
<1> QED
  BY <1>1, <1>2

\* A new row in the place of one, whatever it holds.
LEMMA CodeSet ==
  ASSUME TypeOK, NEW k \in Key, NEW n \in Code \cup {NoCode}, NEW f \in BOOLEAN,
         code' = [code EXCEPT ![k] = [number |-> n, fresh |-> f]]
  PROVE  /\ code' \in [Key -> CodeRow] /\ code'[k].number = n
         /\ \A j \in Key : j # k => code'[j] = code[j]
<1>1. PICK row \in CodeRow : row = [number |-> n, fresh |-> f]
  BY DEF CodeRow
<1>2. code' = [code EXCEPT ![k] = row] /\ row.number = n
  BY <1>1
<1> QED
  BY <1>2, CodeTypes

\* A code that is spent: its row goes, and what was done with it is on record.
LEMMA SpendFacts ==
  ASSUME TypeOK, NEW k \in Key, NEW typed \in Code, Spend(k, typed), Deletable(k)
  PROVE  /\ code' \in [Key -> CodeRow] /\ code'[k].number = NoCode
         /\ \A j \in Key : j # k => code'[j] = code[j]
         /\ uses' \in [Key -> Seq(Use)] /\ Len(uses'[k]) = Len(uses[k]) + 1
         /\ \A j \in Key : j # k => uses'[j] = uses[j]
         /\ \A n \in DOMAIN uses'[k] :
              \/ n \in DOMAIN uses[k] /\ uses'[k][n] = uses[k][n]
              \/ uses'[k][n].typed = typed /\ uses'[k][n].deleted = code[k].number
<1>1. /\ code' \in [Key -> CodeRow] /\ code'[k].number = NoCode
      /\ \A j \in Key : j # k => code'[j] = code[j]
  BY CodeSet DEF Spend
<1>2. PICK c \in Code : c = code[k].number
  BY CodeTypes DEF Deletable
<1>3. PICK use \in Use : use = [typed |-> typed, deleted |-> c]
  BY DEF Use
<1>4. use.typed = typed /\ use.deleted = c
  BY <1>3
<1>5. PICK s \in Seq(Use) : s = uses[k]
  BY CodeTypes
<1>6. uses' = [uses EXCEPT ![k] = Append(s, use)]
  BY <1>2, <1>3, <1>5 DEF Spend
<1>7. /\ Append(s, use) \in Seq(Use) /\ Len(Append(s, use)) = Len(s) + 1
      /\ DOMAIN Append(s, use) = DOMAIN s \cup {Len(s) + 1}
      /\ Append(s, use)[Len(s) + 1] = use
      /\ \A i \in DOMAIN s : Append(s, use)[i] = s[i]
  BY RowAdded
<1>8. uses' \in [Key -> Seq(Use)] /\ uses'[k] = Append(s, use)
      /\ \A j \in Key : j # k => uses'[j] = uses[j]
  BY <1>6, <1>7, CodeTypes
<1> QED
  BY <1>1, <1>2, <1>4, <1>5, <1>7, <1>8

\* A registration that commits opens the account and spends its code; or it changes nothing.
LEMMA RegisterFacts ==
  ASSUME TypeOK, CodeInv, NEW h \in Handler, RegisterWrite(h)
  PROVE  /\ UNCHANGED issued /\ task[h].op = "register"
         /\ \/ UNCHANGED <<account, code, uses>>
            \/ \E k \in Key, e \in Email :
                 /\ k = task[h].key /\ k = <<e, "REGISTER">> /\ account[e] = "none"
                 /\ task[h].typed \in Code /\ Deletable(k) /\ Spend(k, task[h].typed)
                 /\ account' = [account EXCEPT ![e] = "code"]
<1>1. task[h] \in Task /\ task[h].op = "register" /\ CodeTask(task[h])
  BY DEF TypeOK, RegisterWrite, Op, CodeInv
<1>2. PICK k \in Key : k = task[h].key
  BY <1>1, TaskShape
<1>3. PICK e \in Email : k = <<e, "REGISTER">>
  BY <1>1, <1>2 DEF CodeTask, Key
<1>4. k[1] = e
  BY <1>3
<1>5. \/ UNCHANGED <<account, code, uses>>
      \/ /\ account[e] = "none" /\ Deletable(k) /\ Spend(k, task[h].typed)
         /\ account' = [account EXCEPT ![e] = "code"]
  BY <1>2, <1>3, <1>4 DEF RegisterWrite, RegisterCommits, HasUser
<1>6. task[h].typed \in Code /\ UNCHANGED issued
  BY <1>1, TaskShape DEF RegisterWrite
<1> QED
  BY <1>1, <1>2, <1>3, <1>5, <1>6

\* A reset spends its code, or changes nothing.
LEMMA ResetFacts ==
  ASSUME TypeOK, CodeInv, NEW h \in Handler, ResetWrite(h)
  PROVE  /\ UNCHANGED <<account, issued>> /\ task[h].op = "reset"
         /\ \/ UNCHANGED <<code, uses>>
            \/ \E k \in Key :
                 /\ k = task[h].key /\ k[2] = "FORGOT_PASSWORD"
                 /\ task[h].typed \in Code /\ Deletable(k) /\ Spend(k, task[h].typed)
<1>1. task[h] \in Task /\ task[h].op = "reset" /\ CodeTask(task[h])
  BY DEF TypeOK, ResetWrite, Op, CodeInv
<1>2. PICK k \in Key : k = task[h].key
  BY <1>1, TaskShape
<1>3. k[2] = "FORGOT_PASSWORD" /\ task[h].typed \in Code
  BY <1>1, <1>2, TaskShape DEF CodeTask
<1> QED
  BY <1>1, <1>2, <1>3 DEF ResetWrite

\* A new code has the next number.
LEMMA SendFacts ==
  ASSUME TypeOK, NEW h \in Handler, SendWrite(h)
  PROVE  /\ UNCHANGED <<account, uses>> /\ task[h].op = "send"
         /\ \E k \in Key :
              /\ k = task[h].key /\ issued[k] < MaxCodes
              /\ issued' = [issued EXCEPT ![k] = issued[k] + 1]
              /\ code' \in [Key -> CodeRow] /\ code'[k].number = issued[k] + 1
              /\ \A j \in Key : j # k => code'[j] = code[j]
<1>1. task[h] \in Task /\ task[h].op = "send"
  BY DEF TypeOK, SendWrite, Op
<1>2. PICK k \in Key : k = task[h].key
  BY <1>1, TaskShape
<1>3. PICK n : n = issued[k] + 1
  OBVIOUS
<1>4. /\ issued[k] < MaxCodes /\ issued' = [issued EXCEPT ![k] = n]
      /\ code' = [code EXCEPT ![k] = [number |-> n, fresh |-> TRUE]]
  BY <1>2, <1>3 DEF SendWrite
<1>5. n \in Code
  BY <1>3, <1>4, CodeTypes DEF Code
<1>6. /\ code' \in [Key -> CodeRow] /\ code'[k].number = n
      /\ \A j \in Key : j # k => code'[j] = code[j]
  BY <1>4, <1>5, CodeSet
<1> QED
  BY <1>1, <1>2, <1>3, <1>4, <1>6 DEF SendWrite

\* The number of a code changes by a request about it.
LEMMA CodeChange ==
  ASSUME TypeOK, CodeInv, NEW h \in Handler, GoesOn(h)
  PROVE  \/ UNCHANGED code
         \/ \E k \in Key : /\ task[h].op \in {"send", "register", "reset"} /\ k = task[h].key
                           /\ \A j \in Key : j # k => code'[j] = code[j]
<1>1. CASE SendWrite(h)
  BY <1>1, SendFacts
<1>2. CASE RegisterWrite(h)
  <2>1. CASE UNCHANGED code
    BY <2>1
  <2>2. ASSUME NEW k \in Key, k = task[h].key, task[h].typed \in Code, Deletable(k),
               Spend(k, task[h].typed)
        PROVE  /\ task[h].op \in {"send", "register", "reset"}
               /\ \A j \in Key : j # k => code'[j] = code[j]
    BY <1>2, <2>2, RegisterFacts, SpendFacts
  <2> QED
    BY <1>2, <2>1, <2>2, RegisterFacts
<1>3. CASE ResetWrite(h)
  <2>1. CASE UNCHANGED code
    BY <2>1
  <2>2. ASSUME NEW k \in Key, k = task[h].key, task[h].typed \in Code, Deletable(k),
               Spend(k, task[h].typed)
        PROVE  /\ task[h].op \in {"send", "register", "reset"}
               /\ \A j \in Key : j # k => code'[j] = code[j]
    BY <1>3, <2>2, ResetFacts, SpendFacts
  <2> QED
    BY <1>3, <2>1, <2>2, ResetFacts
<1>4. CASE GoogleUser(h)
  BY <1>4 DEF GoogleUser, codeVars
<1> QED
  BY <1>1, <1>2, <1>3, <1>4, Writing

\* What a spent code leaves of the sums, for its key and the others.
LEMMA SpendCounts ==
  ASSUME TypeOK, CodesAccounted, NEW k \in Key, NEW typed \in Code, Spend(k, typed),
         Deletable(k), UNCHANGED issued, contended \subseteq contended',
         CodeFree(k) => code[k].number = typed
  PROVE  \A j \in Key : CodesSpentOnce(j)' /\ DeletesWhatWasTyped(j)'
<1>1. \A j \in Key : CodesSpentOnce(j) /\ DeletesWhatWasTyped(j)
  BY DEF CodesAccounted
<1>2. CodesSpentOnce(k)'
  <2>1. Len(uses[k]) + 1 <= issued[k]
    BY <1>1 DEF CodesSpentOnce, Deletable
  <2>2. /\ Len(uses'[k]) = Len(uses[k]) + 1 /\ code'[k].number = NoCode
        /\ Len(uses[k]) \in Nat /\ issued[k] \in Nat /\ issued' = issued
    BY SpendFacts, CodeTypes
  <2> QED
    BY <2>1, <2>2 DEF CodesSpentOnce
<1>3. DeletesWhatWasTyped(k)'
  BY <1>1, SpendFacts DEF DeletesWhatWasTyped, CodeFree
<1>4. ASSUME NEW j \in Key, j # k
      PROVE  CodesSpentOnce(j)' /\ DeletesWhatWasTyped(j)'
  <2>1. code'[j] = code[j] /\ uses'[j] = uses[j] /\ issued' = issued
    BY <1>4, SpendFacts
  <2> QED
    BY <1>1, <2>1 DEF CodesSpentOnce, DeletesWhatWasTyped
<1> QED
  BY <1>2, <1>3, <1>4

\* Codes, accounts and what was done with codes still add up after a step that goes on.
LEMMA CodesStayAccounted ==
  ASSUME TypeOK, CodeInv, NEW h \in Handler, GoesOn(h)
  PROVE  CodesAccounted'
<1>0. /\ \A j \in Key : CodesSpentOnce(j) /\ DeletesWhatWasTyped(j)
      /\ \A e \in Email : AccountCostsCode(e)
      /\ CodeTask(task[h]) /\ UNCHANGED contended
      /\ \A e \in Email : <<e, "REGISTER">> \in Key
  BY Going DEF CodeInv, CodesAccounted, Key, Purpose
<1>1. CASE UNCHANGED <<code, issued, uses, account>>
  BY <1>0, <1>1 DEF CodesAccounted, CodesSpentOnce, DeletesWhatWasTyped, AccountCostsCode
<1>2. CASE SendWrite(h)
  <2>1. PICK k \in Key : /\ issued' = [issued EXCEPT ![k] = issued[k] + 1]
                         /\ code'[k].number = issued[k] + 1
                         /\ \A j \in Key : j # k => code'[j] = code[j]
    BY <1>2, SendFacts
  <2>2. UNCHANGED <<account, uses>>
    BY <1>2, SendFacts
  <2>3. CodesSpentOnce(k)'
    <3>1. Len(uses[k]) <= issued[k]
      BY <1>0, CodeTypes DEF CodesSpentOnce
    <3>2. issued'[k] = issued[k] + 1
      BY <2>1, CodeTypes
    <3> QED
      BY <2>2, <3>1, <3>2, CodeTypes DEF CodesSpentOnce
  <2>4. \A j \in Key : j # k => CodesSpentOnce(j)'
    BY <1>0, <2>1, <2>2, CodeTypes DEF CodesSpentOnce
  <2> QED
    BY <1>0, <2>2, <2>3, <2>4 DEF CodesAccounted, DeletesWhatWasTyped, AccountCostsCode
<1>3. CASE RegisterWrite(h) /\ ~ UNCHANGED <<account, code, uses>>
  <2>1. PICK k \in Key, e \in Email :
          /\ k = task[h].key /\ k = <<e, "REGISTER">> /\ account[e] = "none"
          /\ task[h].typed \in Code /\ Deletable(k) /\ Spend(k, task[h].typed)
          /\ account' = [account EXCEPT ![e] = "code"]
    BY <1>3, RegisterFacts
  <2>2. \A j \in Key : CodesSpentOnce(j)' /\ DeletesWhatWasTyped(j)'
    <3>1. CodeFree(k) => code[k].number = task[h].typed
      BY <1>0, <1>3, <2>1, RegisterFacts DEF CodeTask
    <3> QED
      BY <1>0, <1>3, <2>1, <3>1, SpendCounts, RegisterFacts DEF CodeInv
  <2>3. AccountCostsCode(e)'
    <3>1. Len(uses[k]) = 0
      BY <1>0, <2>1 DEF AccountCostsCode
    <3>2. Len(uses'[k]) = Len(uses[k]) + 1
      BY <2>1, SpendFacts
    <3>3. account'[e] = "code"
      BY <2>1, CodeTypes
    <3> QED
      BY <2>1, <3>1, <3>2, <3>3 DEF AccountCostsCode
  <2>4. ASSUME NEW f \in Email, f # e
        PROVE  AccountCostsCode(f)'
    <3>1. <<f, "REGISTER">> # k /\ <<f, "REGISTER">> \in Key
      BY <1>0, <2>1, <2>4
    <3>2. uses'[<<f, "REGISTER">>] = uses[<<f, "REGISTER">>] /\ account'[f] = account[f]
      BY <2>1, <2>4, <3>1, SpendFacts, CodeTypes
    <3> QED
      BY <1>0, <3>2 DEF AccountCostsCode
  <2> QED
    BY <2>2, <2>3, <2>4 DEF CodesAccounted
<1>4. CASE ResetWrite(h) /\ ~ UNCHANGED <<code, uses>>
  <2>1. PICK k \in Key :
          /\ k = task[h].key /\ k[2] = "FORGOT_PASSWORD"
          /\ task[h].typed \in Code /\ Deletable(k) /\ Spend(k, task[h].typed)
    BY <1>4, ResetFacts
  <2>2. \A j \in Key : CodesSpentOnce(j)' /\ DeletesWhatWasTyped(j)'
    <3>1. CodeFree(k) => code[k].number = task[h].typed
      BY <1>0, <1>4, <2>1, ResetFacts DEF CodeTask
    <3> QED
      BY <1>0, <1>4, <2>1, <3>1, SpendCounts, ResetFacts DEF CodeInv
  <2>3. ASSUME NEW f \in Email
        PROVE  AccountCostsCode(f)'
    <3>1. <<f, "REGISTER">> # k /\ <<f, "REGISTER">> \in Key
      BY <1>0, <2>1
    <3>2. uses'[<<f, "REGISTER">>] = uses[<<f, "REGISTER">>] /\ account' = account
      BY <1>4, <2>1, <3>1, SpendFacts, ResetFacts
    <3> QED
      BY <1>0, <3>2 DEF AccountCostsCode
  <2> QED
    BY <2>2, <2>3 DEF CodesAccounted
<1>5. CASE GoogleUser(h) /\ ~ UNCHANGED account
  <2>1. PICK f : f = task[h].email
    OBVIOUS
  <2>2. /\ account[f] = "none" /\ account' = [account EXCEPT ![f] = "google"]
        /\ UNCHANGED <<code, issued, uses>>
    BY <1>5, <2>1 DEF GoogleUser, HasUser, codeVars
  <2>3. \A e \in Email : account'[e] = "code" <=> account[e] = "code"
    BY <2>2, CodeTypes
  <2> QED
    BY <1>0, <2>2, <2>3
       DEF CodesAccounted, CodesSpentOnce, DeletesWhatWasTyped, AccountCostsCode
<1>6. \/ UNCHANGED <<code, issued, uses, account>>
      \/ SendWrite(h) \/ RegisterWrite(h) \/ ResetWrite(h) \/ GoogleUser(h)
  BY Writing
<1>7. RegisterWrite(h) => UNCHANGED issued
  BY RegisterFacts
<1>8. ResetWrite(h) => UNCHANGED <<account, issued>>
  BY ResetFacts
<1>9. GoogleUser(h) => UNCHANGED <<code, issued, uses>>
  BY DEF GoogleUser, codeVars
<1> QED
  BY <1>1, <1>2, <1>3, <1>4, <1>5, <1>6, <1>7, <1>8, <1>9

LEMMA CodeStep ==
  ASSUME TypeOK, OverlapInv, AuthInv, SessionInv, DeviceInv, CodeInv, [Next]_vars
  PROVE  CodeInv'
<1>1. ASSUME NEW h \in Handler, BeginStep(h)
      PROVE  CodeInv'
  <2>1. PICK r \in Task : Begin(h, r) /\ TablesStay /\ CodeTask(r)
    BY <1>1 DEF BeginStep, Arrives
  <2>2. /\ task'[h] = r /\ \A g \in Handler : g # h => task'[g] = task[g]
        /\ contended \subseteq contended' /\ UNCHANGED <<account, code, issued, uses>>
    BY <2>1 DEF Begin, TypeOK, TablesStay, codeVars
  <2>3. \A g \in Handler : CodeTask(task'[g])
    BY <2>1, <2>2 DEF CodeInv
  <2>4. \A g \in Handler : CodeTask(task[g])'
    BY <2>2, <2>3 DEF CodeTask, CodeFree
  <2>5. CodesAccounted'
    BY <2>2 DEF CodeInv, CodesAccounted, CodesSpentOnce, DeletesWhatWasTyped, AccountCostsCode
  <2> QED
    BY <2>4, <2>5 DEF CodeInv
<1>2. ASSUME NEW h \in Handler, GoesOn(h)
      PROVE  CodeInv'
  <2>1. /\ UNCHANGED contended /\ \A g \in Handler : g # h => task'[g] = task[g]
        /\ task'[h].op \notin {"register", "reset"}
    BY <1>2, Going DEF Follows
  <2>2. ASSUME NEW g \in Handler, g # h
        PROVE  CodeTask(task[g])'
    <3>1. PICK r : r = task[g]
      OBVIOUS
    <3>2. CodeTask(r) /\ task'[g] = r /\ r \in Task
      BY <2>1, <2>2, <3>1 DEF CodeInv, TypeOK
    <3>3. ASSUME r.op \in {"register", "reset"}, CodeFree(r.key)
          PROVE  code'[r.key].number = code[r.key].number
      <4>1. <<"code", r.key>> \in Subject(task[g]) /\ r.key \in Key
        BY <3>1, <3>2, <3>3, SubjectFacts, TaskShape
      <4>2. task[h].op \in {"send", "register", "reset"} =>
              <<"code", task[h].key>> \in Subject(task[h])
        BY SubjectFacts
      <4>3. task[h].op \in {"send", "register", "reset"} => task[h].key # r.key
        BY <2>2, <3>3, <4>1, <4>2, Meeting DEF CodeFree
      <4> QED
        BY <1>2, <4>1, <4>3, CodeChange
    <3> QED
      BY <2>1, <3>2, <3>3 DEF CodeTask, CodeFree
  <2>3. CodeTask(task[h])'
    BY <2>1 DEF CodeTask
  <2> QED
    BY <1>2, <2>2, <2>3, CodesStayAccounted DEF CodeInv
<1>3. ASSUME NEW k \in Key, Expire(k)
      PROVE  CodeInv'
  <2>1. UNCHANGED <<account, issued, uses, task, contended>>
    BY <1>3 DEF Expire, sessionVars
  <2>2. \A j \in Key : code'[j].number = code[j].number
    BY <1>3, CodeTypes DEF Expire, CodeRow
  <2>3. ASSUME NEW g \in Handler
        PROVE  CodeTask(task[g])'
    <3>1. task[g].op \in {"register", "reset"} => task[g].key \in Key
      BY TaskShape DEF TypeOK
    <3> QED
      BY <2>1, <2>2, <3>1 DEF CodeInv, CodeTask, CodeFree
  <2>4. CodesAccounted'
    BY <2>1, <2>2 DEF CodeInv, CodesAccounted, CodesSpentOnce, DeletesWhatWasTyped,
       AccountCostsCode
  <2> QED
    BY <2>3, <2>4 DEF CodeInv
<1>4. CASE UNCHANGED <<account, code, issued, uses, task, contended>>
  BY <1>4 DEF CodeInv, CodeTask, CodeFree, CodesAccounted, CodesSpentOnce,
     DeletesWhatWasTyped, AccountCostsCode
<1> QED
  BY <1>1, <1>2, <1>3, <1>4, NextSteps DEF vars, codeVars, Authorize, ForgetState, ForgetSession

--------------------------------------------------------------------------------
(***************************************************************************)
(* States of Google.                                                       *)
(***************************************************************************)

LEMMA PassFacts ==
  ASSUME TypeOK, NEW h \in Handler, CallbackPass(h)
  PROVE  /\ task[h].op = "callback"
         /\ \E s \in AuthState :
              /\ s = task[h].state
              /\ authState' = [authState EXCEPT ![s] = "gone"]
              /\ passed' = [passed EXCEPT ![s] = passed[s] + 1]
<1>1. task[h] \in Task /\ task[h].op = "callback"
  BY DEF TypeOK, CallbackPass, Op
<1>2. PICK s \in AuthState : s = task[h].state
  BY <1>1, TaskShape
<1> QED
  BY <1>1, <1>2 DEF CallbackPass, DropState

LEMMA AuthStep ==
  ASSUME TypeOK, OverlapInv, AuthInv, SessionInv, DeviceInv, [Next]_vars
  PROVE  AuthInv'
<1>0. /\ passed \in [AuthState -> Nat]
      /\ authState \in [AuthState -> {"unknown", "stored", "gone"}]
  BY DEF TypeOK
<1>1. ASSUME NEW h \in Handler, BeginStep(h)
      PROVE  AuthInv'
  <2>1. PICK r \in Task : Begin(h, r) /\ TablesStay /\ AuthTask(r)
    BY <1>1 DEF BeginStep, Arrives
  <2>2. /\ task'[h] = r /\ \A g \in Handler : g # h => task'[g] = task[g]
        /\ contended \subseteq contended' /\ UNCHANGED <<authState, passed>>
    BY <2>1 DEF Begin, TypeOK, TablesStay, sessionVars
  <2>3. \A g \in Handler : AuthTask(task[g])'
    BY <2>1, <2>2 DEF AuthInv, AuthTask, StateFree
  <2> QED
    BY <2>2, <2>3 DEF AuthInv, StateFree
<1>2. ASSUME NEW h \in Handler, GoesOn(h)
      PROVE  AuthInv'
  <2>1. /\ UNCHANGED contended /\ \A g \in Handler : g # h => task'[g] = task[g]
        /\ task'[h].op # "callback"
    BY <1>2, Going DEF Follows
  <2>2. CASE UNCHANGED <<authState, passed>>
    BY <2>1, <2>2 DEF AuthInv, AuthTask, StateFree
  <2>3. CASE CallbackPass(h)
    <3>1. PICK s \in AuthState :
            /\ s = task[h].state
            /\ authState' = [authState EXCEPT ![s] = "gone"]
            /\ passed' = [passed EXCEPT ![s] = passed[s] + 1]
      BY <2>3, PassFacts
    <3>2. /\ authState'[s] = "gone" /\ passed'[s] = passed[s] + 1
          /\ \A j \in AuthState : j # s => authState'[j] = authState[j] /\ passed'[j] = passed[j]
      BY <1>0, <3>1
    <3>3. StateFree(s) => passed[s] = 0
      BY <2>3, <3>1, PassFacts DEF AuthInv, AuthTask
    <3>4. ASSUME NEW g \in Handler, g # h, task[g].op = "callback", StateFree(task[g].state)
          PROVE  task[g].state # s /\ task[g].state \in AuthState
      <4>1. <<"state", task[g].state>> \in Subject(task[g]) /\ <<"state", s>> \in Subject(task[h])
        BY <2>3, <3>1, <3>4, SubjectFacts, PassFacts
      <4>2. task[g].state \in AuthState
        BY <3>4, TaskShape DEF TypeOK
      <4> QED
        BY <3>4, <4>1, <4>2, Meeting DEF StateFree
    <3>5. \A g \in Handler : AuthTask(task[g])'
      BY <2>1, <3>2, <3>4 DEF AuthInv, AuthTask, StateFree
    <3>6. \A j \in AuthState : /\ authState'[j] # "gone" => passed'[j] = 0
                               /\ StateFree(j) => passed'[j] <= 1
      BY <3>2, <3>3 DEF AuthInv
    <3> QED
      BY <2>1, <3>5, <3>6 DEF AuthInv, StateFree
  <2> QED
    BY <1>2, <2>2, <2>3, Writing
<1>3. ASSUME NEW s \in AuthState, Authorize(s) \/ ForgetState(s)
      PROVE  AuthInv'
  <2>1. UNCHANGED <<passed, task, contended>>
    BY <1>3 DEF Authorize, ForgetState
  <2>2. \A j \in AuthState : authState'[j] # "gone" => authState[j] # "gone"
    BY <1>0, <1>3 DEF Authorize, ForgetState
  <2> QED
    BY <2>1, <2>2 DEF AuthInv, AuthTask, StateFree
<1>4. CASE UNCHANGED <<authState, passed, task, contended>>
  BY <1>4 DEF AuthInv, AuthTask, StateFree
<1> QED
  BY <1>1, <1>2, <1>3, <1>4, NextSteps DEF vars, sessionVars, Expire, ForgetSession

--------------------------------------------------------------------------------
(***************************************************************************)
(* Tokens, and the sessions of Google they wait in.                        *)
(***************************************************************************)

\* A token is issued with the next number.
LEMMA IssueFacts ==
  ASSUME TypeOK, NEW d \in Device, NEW tokens \in Seq(TokenRow), Len(tokens) = Len(token),
         DOMAIN tokens = DOMAIN token, Len(token) < MaxTokens
  PROVE  LET n == Len(token) + 1
             u == Issue(d, tokens)
         IN  /\ u \in Seq(TokenRow) /\ Len(u) = n /\ n <= MaxTokens /\ n \in Token
             /\ DOMAIN u = DOMAIN token \cup {n} /\ n \notin DOMAIN token
             /\ u[n].device = d /\ u[n].live = TRUE
             /\ \A i \in DOMAIN token : u[i] = tokens[i]
<1>1. PICK row \in TokenRow : row = [device |-> d, live |-> TRUE]
  BY DEF TokenRow
<1>2. row.device = d /\ row.live = TRUE
  BY <1>1
<1>3. Issue(d, tokens) = Append(tokens, row)
  BY <1>1 DEF Issue
<1>4. Len(token) + 1 \in Token /\ Len(token) + 1 <= MaxTokens
  BY RowTypes, BoundAssumption DEF Token
<1>5. /\ Append(tokens, row) \in Seq(TokenRow) /\ Len(Append(tokens, row)) = Len(tokens) + 1
      /\ DOMAIN Append(tokens, row) = DOMAIN tokens \cup {Len(tokens) + 1}
      /\ Append(tokens, row)[Len(tokens) + 1] = row
      /\ \A i \in DOMAIN tokens : Append(tokens, row)[i] = tokens[i]
      /\ Len(tokens) + 1 \notin DOMAIN tokens
  BY RowAdded
<1> QED
  BY <1>2, <1>3, <1>4, <1>5

\* A token whose row is deleted.
LEMMA TakenFacts ==
  ASSUME TypeOK, NEW t \in DOMAIN token
  PROVE  LET u == [token EXCEPT ![t].live = FALSE]
         IN  /\ u \in Seq(TokenRow) /\ Len(u) = Len(token) /\ DOMAIN u = DOMAIN token
             /\ \A i \in DOMAIN token :
                  u[i].device = token[i].device /\ (u[i].live <=> token[i].live /\ i # t)
<1>1. PICK old \in TokenRow : old = token[t]
  BY RowTypes
<1>2. PICK row \in TokenRow : row = [old EXCEPT !.live = FALSE]
  BY DEF TokenRow
<1>3. row.device = old.device /\ row.live = FALSE
  BY <1>2 DEF TokenRow
<1>4. PICK u : u = [token EXCEPT ![t] = row]
  OBVIOUS
<1>5. /\ u \in Seq(TokenRow) /\ Len(u) = Len(token) /\ DOMAIN u = DOMAIN token
      /\ u[t] = row /\ \A k \in DOMAIN token : k # t => u[k] = token[k]
  BY <1>4, RowSet, RowTypes
<1>6. [token EXCEPT ![t].live = FALSE] = u
  BY <1>1, <1>2, <1>4
<1> QED
  BY <1>1, <1>3, <1>5, <1>6

\* The first token of a device, which is answered or kept for a session.
LEMMA TokenFacts ==
  ASSUME TypeOK, NEW h \in Handler, TokenWrite(h)
  PROVE  LET n == Len(token) + 1
         IN  /\ task[h].op = "token" /\ UNCHANGED <<device, broken, stored>>
             /\ token' \in Seq(TokenRow) /\ Len(token') = n /\ n <= MaxTokens /\ n \in Token
             /\ DOMAIN token' = DOMAIN token \cup {n} /\ n \notin DOMAIN token
             /\ token'[n].device = task[h].device /\ token'[n].live = TRUE
             /\ \A i \in DOMAIN token : token'[i] = token[i]
             /\ \/ task'[h].op = "store" /\ task'[h].token = n /\ UNCHANGED handed
                \/ task'[h] = Idle /\ handed' = [handed EXCEPT ![n] = handed[n] + 1]
<1>1. task[h] \in Task /\ task[h].op = "token" /\ task \in [Handler -> Task]
  BY DEF TypeOK, TokenWrite, Op
<1>2. PICK d \in Device : d = task[h].device
  BY <1>1, TaskShape
<1>3. PICK n : n = Len(token) + 1
  OBVIOUS
<1>4. token' = Issue(d, token) /\ Len(token) < MaxTokens
  BY <1>2 DEF TokenWrite
<1>5. /\ token' \in Seq(TokenRow) /\ Len(token') = n /\ n <= MaxTokens /\ n \in Token
      /\ DOMAIN token' = DOMAIN token \cup {n} /\ n \notin DOMAIN token
      /\ token'[n].device = d /\ token'[n].live = TRUE
      /\ \A i \in DOMAIN token : token'[i] = token[i]
  <2>1. token \in Seq(TokenRow)
    BY RowTypes
  <2>2. PICK w : w = Issue(d, token)
    OBVIOUS
  <2>3. /\ w \in Seq(TokenRow) /\ Len(w) = n /\ n <= MaxTokens /\ n \in Token
        /\ DOMAIN w = DOMAIN token \cup {n} /\ n \notin DOMAIN token
        /\ w[n].device = d /\ w[n].live = TRUE
        /\ \A i \in DOMAIN token : w[i] = token[i]
    BY <1>3, <1>4, <2>1, <2>2, IssueFacts
  <2>4. token' = w
    BY <1>4, <2>2
  <2> QED
    BY <2>3, <2>4
<1>6. PICK r : r = [op |-> "store", token |-> n]
  OBVIOUS
<1>7. r.op = "store" /\ r.token = n
  BY <1>6
<1>8. \/ task' = [task EXCEPT ![h] = r] /\ UNCHANGED handed
      \/ task' = [task EXCEPT ![h] = Idle] /\ handed' = [handed EXCEPT ![n] = handed[n] + 1]
  BY <1>3, <1>6 DEF TokenWrite, Continue, Hand
<1>9. \/ task'[h].op = "store" /\ task'[h].token = n /\ UNCHANGED handed
      \/ task'[h] = Idle /\ handed' = [handed EXCEPT ![n] = handed[n] + 1]
  BY <1>1, <1>7, <1>8
<1> QED
  BY <1>1, <1>2, <1>3, <1>5, <1>9 DEF TokenWrite

\* A token is exchanged for the next of its device, or was taken meanwhile.
LEMMA RefreshFacts ==
  ASSUME TypeOK, NEW h \in Handler, RefreshWrite(h)
  PROVE  LET n == Len(token) + 1
             t == task[h].token
         IN  /\ task[h].op = "refresh" /\ task'[h] = Idle /\ UNCHANGED <<device, broken, stored>>
             /\ \/ UNCHANGED <<token, handed>>
                \/ /\ t \in DOMAIN token /\ token[t].live
                   /\ token' \in Seq(TokenRow) /\ Len(token') = n /\ n <= MaxTokens
                   /\ n \in Token
                   /\ DOMAIN token' = DOMAIN token \cup {n} /\ n \notin DOMAIN token
                   /\ token'[n].device = task[h].device /\ token'[n].live = TRUE
                   /\ \A i \in DOMAIN token :
                        /\ token'[i].device = token[i].device
                        /\ token'[i].live <=> token[i].live /\ i # t
                   /\ handed' = [handed EXCEPT ![n] = handed[n] + 1]
<1>1. task[h] \in Task /\ task[h].op = "refresh" /\ task \in [Handler -> Task]
  BY DEF TypeOK, RefreshWrite, Op
<1>2. PICK d \in Device, t \in Token : d = task[h].device /\ t = task[h].token
  BY <1>1, TaskShape
<1>3. PICK n : n = Len(token) + 1
  OBVIOUS
<1>4. task'[h] = Idle /\ UNCHANGED <<device, broken, stored>>
  BY <1>1 DEF RefreshWrite, Continue
<1>5. CASE Exchanges(t)
  <2>1. t \in DOMAIN token /\ token[t].live
    BY <1>5 DEF Exchanges, Live
  <2>2. PICK u : u = [token EXCEPT ![t].live = FALSE]
    OBVIOUS
  <2>3. /\ u \in Seq(TokenRow) /\ Len(u) = Len(token) /\ DOMAIN u = DOMAIN token
        /\ \A i \in DOMAIN token :
             u[i].device = token[i].device /\ (u[i].live <=> token[i].live /\ i # t)
    BY <2>1, <2>2, TakenFacts
  <2>4. /\ token' = Issue(d, u) /\ Len(token) < MaxTokens
        /\ handed' = [handed EXCEPT ![n] = handed[n] + 1]
    BY <1>2, <1>3, <1>5, <2>2 DEF RefreshWrite, Hand
  <2>5. /\ token' \in Seq(TokenRow) /\ Len(token') = n /\ n <= MaxTokens /\ n \in Token
        /\ DOMAIN token' = DOMAIN token \cup {n} /\ n \notin DOMAIN token
        /\ token'[n].device = d /\ token'[n].live = TRUE
        /\ \A i \in DOMAIN token : token'[i] = u[i]
    <3>1. PICK w : w = Issue(d, u)
      OBVIOUS
    <3>2. /\ w \in Seq(TokenRow) /\ Len(w) = n /\ n <= MaxTokens /\ n \in Token
          /\ DOMAIN w = DOMAIN token \cup {n} /\ n \notin DOMAIN token
          /\ w[n].device = d /\ w[n].live = TRUE
          /\ \A i \in DOMAIN token : w[i] = u[i]
      <4>1. u \in Seq(TokenRow) /\ Len(u) = Len(token) /\ DOMAIN u = DOMAIN token
        BY <2>3
      <4>2. Len(token) < MaxTokens
        BY <2>4
      <4> QED
        BY <1>3, <3>1, <4>1, <4>2, IssueFacts
    <3>3. token' = w
      BY <2>4, <3>1
    <3> QED
      BY <3>2, <3>3
  <2> QED
    BY <1>1, <1>2, <1>3, <1>4, <2>1, <2>3, <2>4, <2>5
<1>6. CASE ~Exchanges(t)
  BY <1>1, <1>2, <1>4, <1>6 DEF RefreshWrite
<1> QED
  BY <1>5, <1>6

\* A token is given up, or was taken meanwhile.
LEMMA LogoutFacts ==
  ASSUME TypeOK, NEW h \in Handler, LogoutDelete(h)
  PROVE  LET t == task[h].token
         IN  /\ task[h].op = "logout" /\ UNCHANGED <<device, broken, stored, handed>>
             /\ \/ UNCHANGED token /\ task'[h] = Idle
                \/ /\ t \in DOMAIN token /\ token[t].live
                   /\ token' \in Seq(TokenRow) /\ Len(token') = Len(token)
                   /\ DOMAIN token' = DOMAIN token
                   /\ \A i \in DOMAIN token :
                        /\ token'[i].device = token[i].device
                        /\ token'[i].live <=> token[i].live /\ i # t
                   /\ task'[h].op = "deactivate" /\ task'[h].device = task[h].device
<1>1. task[h] \in Task /\ task[h].op = "logout" /\ task \in [Handler -> Task]
  BY DEF TypeOK, LogoutDelete, Op
<1>2. PICK d \in Device, t \in Token : d = task[h].device /\ t = task[h].token
  BY <1>1, TaskShape
<1>3. CASE ~Missing(t)
  <2>1. t \in DOMAIN token /\ token[t].live
    BY <1>3 DEF Missing, Live
  <2>2. PICK r : r = [op |-> "deactivate", device |-> d]
    OBVIOUS
  <2>3. token' = [token EXCEPT ![t].live = FALSE] /\ task' = [task EXCEPT ![h] = r]
    BY <1>2, <1>3, <2>2 DEF LogoutDelete, Continue
  <2>4. /\ token' \in Seq(TokenRow) /\ Len(token') = Len(token) /\ DOMAIN token' = DOMAIN token
        /\ \A i \in DOMAIN token :
             token'[i].device = token[i].device /\ (token'[i].live <=> token[i].live /\ i # t)
    BY <2>1, <2>3, TakenFacts
  <2>5. task'[h].op = "deactivate" /\ task'[h].device = d
    BY <1>1, <2>2, <2>3
  <2> QED
    BY <1>1, <1>2, <2>1, <2>4, <2>5 DEF LogoutDelete
<1>4. CASE Missing(t)
  BY <1>1, <1>2, <1>4 DEF LogoutDelete, Continue
<1> QED
  BY <1>3, <1>4

\* A new token is handed to nobody yet, and is in no session.
LEMMA SessionIssue ==
  ASSUME TypeOK, SessionInv, NEW h \in Handler, NEW n \in Token, n \notin DOMAIN token,
         DOMAIN token' = DOMAIN token \cup {n}, UNCHANGED <<stored, contended>>,
         \A g \in Handler : g # h => task'[g] = task[g],
         \/ task'[h].op = "store" /\ task'[h].token = n /\ UNCHANGED handed
         \/ /\ task'[h].op \notin {"store", "redeem"}
            /\ handed' = [handed EXCEPT ![n] = handed[n] + 1]
  PROVE  SessionInv'
<1>0. handed \in [Token -> Nat] /\ handed[n] = 0 /\ n \notin stored
  BY DEF SessionInv, TypeOK
<1>1. /\ \A t \in Token : t # n => handed'[t] = handed[t]
      /\ \/ handed'[n] = 0
         \/ handed'[n] = 1 /\ task'[h].op \notin {"store", "redeem"}
  BY <1>0
<1>2. \A g \in Handler : g # h => SessionTask(task[g]) /\ (task[g].op \in {"store", "redeem"} =>
                                    task[g].token \in Token /\ task[g].token # n)
  <2>1. \A g \in Handler : SessionTask(task[g])
    BY DEF SessionInv
  <2>2. \A g \in Handler : task[g].op \in {"store", "redeem"} => task[g].token \in Token
    BY TaskShape DEF TypeOK
  <2> QED
    BY <2>1, <2>2 DEF SessionTask
<1>3. ASSUME NEW g \in Handler, g # h
      PROVE  SessionTask(task[g])'
  BY <1>1, <1>2, <1>3 DEF SessionTask, SessionFree
<1>4. SessionTask(task[h])'
  BY <1>0, <1>1 DEF SessionTask
<1>5. ASSUME NEW f \in Handler, NEW g \in Handler, f # g, task'[f].op = "store",
             task'[g].op \in {"store", "redeem"}
      PROVE  task'[f].token # task'[g].token
  <2>1. CASE f # h /\ g # h
    BY <1>5, <2>1 DEF SessionInv
  <2>2. CASE f = h
    <3>1. task'[f].token = n
      BY <1>5, <2>2
    <3>2. task'[g].token # n
      BY <1>2, <1>5, <2>2
    <3> QED
      BY <3>1, <3>2
  <2>3. CASE g = h
    <3>1. task'[g].token = n
      BY <1>5, <2>3
    <3>2. task'[f].token # n
      BY <1>2, <1>5, <2>3
    <3> QED
      BY <3>1, <3>2
  <2> QED
    BY <2>1, <2>2, <2>3
<1>6. ASSUME NEW t \in Token
      PROVE  /\ t \in stored' \/ t \notin DOMAIN token' => handed'[t] = 0
             /\ SessionFree(t)' => handed'[t] <= 1
  BY <1>0, <1>1 DEF SessionInv, SessionFree
<1>7. stored' \subseteq DOMAIN token'
  BY DEF SessionInv
<1> QED
  BY <1>3, <1>4, <1>5, <1>6, <1>7 DEF SessionInv

\* The tokens are answered for the first time by who holds them alone.
LEMMA SessionRedeem ==
  ASSUME TypeOK, OverlapInv, SessionInv, NEW h \in Handler, RedeemAnswer(h)
  PROVE  SessionInv'
<1>0. /\ task[h] \in Task /\ task[h].op = "redeem" /\ handed \in [Token -> Nat]
      /\ UNCHANGED <<token, contended>> /\ task'[h].op = "idle"
      /\ \A g \in Handler : g # h => task'[g] = task[g]
  <2>1. task \in [Handler -> Task] /\ handed \in [Token -> Nat]
    BY DEF TypeOK
  <2>2. task' = [task EXCEPT ![h] = Idle] /\ Idle.op = "idle"
    BY DEF RedeemAnswer, Continue, Idle
  <2> QED
    BY <2>1, <2>2 DEF RedeemAnswer, Op, Continue
<1>1. PICK t \in Token : t = task[h].token
  BY <1>0, TaskShape
<1>2. stored' = stored \ {t} /\ handed' = [handed EXCEPT ![t] = handed[t] + 1]
  BY <1>1 DEF RedeemAnswer, DropSession, Hand
<1>3. handed'[t] = handed[t] + 1 /\ \A u \in Token : u # t => handed'[u] = handed[u]
  BY <1>0, <1>2
<1>4. t \in DOMAIN token /\ (SessionFree(t) => handed[t] = 0)
  BY <1>0, <1>1 DEF SessionInv, SessionTask
<1>5. ASSUME NEW g \in Handler, g # h
      PROVE  SessionTask(task[g])'
  <2>1. SessionTask(task[g]) /\ task[g] \in Task
    BY DEF SessionInv, TypeOK
  <2>2. CASE task[g].op = "store"
    <3>1. task[g].token # t /\ task[g].token \in Token
      BY <1>0, <1>1, <1>5, <2>1, <2>2, TaskShape DEF SessionInv
    <3> QED
      BY <1>0, <1>2, <1>3, <1>5, <2>1, <2>2, <3>1 DEF SessionTask
  <2>3. CASE task[g].op = "redeem" /\ SessionFree(task[g].token)
    <3>1. <<"session", task[g].token>> \in Subject(task[g]) /\ <<"session", t>> \in Subject(task[h])
      BY <1>0, <1>1, <2>3, SubjectFacts
    <3>2. task[g].token # t /\ task[g].token \in Token
      BY <1>5, <2>1, <2>3, <3>1, Meeting, TaskShape DEF SessionFree
    <3> QED
      BY <1>0, <1>2, <1>3, <1>5, <2>1, <2>3, <3>2 DEF SessionTask, SessionFree
  <2>4. CASE task[g].op = "redeem" /\ ~SessionFree(task[g].token)
    BY <1>0, <1>5, <2>1, <2>4 DEF SessionTask, SessionFree
  <2>5. CASE task[g].op \notin {"store", "redeem"}
    BY <1>0, <1>5, <2>5 DEF SessionTask
  <2> QED
    BY <2>2, <2>3, <2>4, <2>5
<1>6. SessionTask(task[h])'
  BY <1>0 DEF SessionTask
<1>7. \A f, g \in Handler :
        f # g /\ task'[f].op = "store" /\ task'[g].op \in {"store", "redeem"} =>
          task'[f].token # task'[g].token
  BY <1>0 DEF SessionInv
<1>8. ASSUME NEW u \in Token
      PROVE  /\ u \in stored' \/ u \notin DOMAIN token' => handed'[u] = 0
             /\ SessionFree(u)' => handed'[u] <= 1
  <2>1. CASE u = t
    BY <1>0, <1>2, <1>3, <1>4, <2>1 DEF SessionFree
  <2>2. CASE u # t
    BY <1>0, <1>2, <1>3, <2>2 DEF SessionInv, SessionFree
  <2> QED
    BY <2>1, <2>2
<1>9. stored' \subseteq DOMAIN token'
  BY <1>0, <1>2 DEF SessionInv
<1> QED
  BY <1>5, <1>6, <1>7, <1>8, <1>9 DEF SessionInv

\* The cache takes the tokens of a callback.
LEMMA SessionKept ==
  ASSUME TypeOK, SessionInv, NEW h \in Handler, SessionStore(h)
  PROVE  SessionInv'
<1>0. /\ task[h] \in Task /\ task[h].op = "store"
      /\ UNCHANGED <<token, handed, contended>> /\ task'[h].op = "idle"
      /\ \A g \in Handler : g # h => task'[g] = task[g]
  <2>1. task \in [Handler -> Task]
    BY DEF TypeOK
  <2>2. task' = [task EXCEPT ![h] = Idle] /\ Idle.op = "idle"
    BY DEF SessionStore, Continue, Idle
  <2> QED
    BY <2>1, <2>2 DEF SessionStore, Op, Continue
<1>1. PICK t \in Token : t = task[h].token
  BY <1>0, TaskShape
<1>2. stored' = stored \cup {t}
  BY <1>1 DEF SessionStore
<1>3. t \in DOMAIN token /\ handed[t] = 0
  BY <1>0, <1>1 DEF SessionInv, SessionTask
<1>4. ASSUME NEW g \in Handler, g # h
      PROVE  SessionTask(task[g])'
  <2>1. SessionTask(task[g])
    BY DEF SessionInv
  <2>2. task[g].op = "store" => task[g].token # t
    BY <1>0, <1>1, <1>4 DEF SessionInv
  <2> QED
    BY <1>0, <1>2, <1>4, <2>1, <2>2 DEF SessionTask, SessionFree
<1>5. SessionTask(task[h])'
  BY <1>0 DEF SessionTask
<1>6. \A f, g \in Handler :
        f # g /\ task'[f].op = "store" /\ task'[g].op \in {"store", "redeem"} =>
          task'[f].token # task'[g].token
  BY <1>0 DEF SessionInv
<1>7. \A u \in Token : /\ u \in stored' \/ u \notin DOMAIN token' => handed'[u] = 0
                       /\ SessionFree(u)' => handed'[u] <= 1
  BY <1>0, <1>2, <1>3 DEF SessionInv, SessionFree
<1>8. stored' \subseteq DOMAIN token'
  BY <1>0, <1>2, <1>3 DEF SessionInv
<1> QED
  BY <1>4, <1>5, <1>6, <1>7, <1>8 DEF SessionInv

\* Steps that hand no token to anybody and store none.
LEMMA SessionQuiet ==
  ASSUME TypeOK, SessionInv, UNCHANGED handed, DOMAIN token' = DOMAIN token,
         stored' \subseteq stored, contended \subseteq contended',
         \A g \in Handler : task'[g] = task[g] \/ task'[g].op \notin {"store", "redeem"}
  PROVE  SessionInv'
<1>1. ASSUME NEW g \in Handler
      PROVE  SessionTask(task[g])'
  <2>1. SessionTask(task[g])
    BY DEF SessionInv
  <2> QED
    BY <2>1 DEF SessionTask, SessionFree
<1>2. \A f, g \in Handler :
        f # g /\ task'[f].op = "store" /\ task'[g].op \in {"store", "redeem"} =>
          task'[f].token # task'[g].token
  BY DEF SessionInv
<1>3. \A u \in Token : /\ u \in stored' \/ u \notin DOMAIN token' => handed'[u] = 0
                       /\ SessionFree(u)' => handed'[u] <= 1
  BY DEF SessionInv, SessionFree
<1> QED
  BY <1>1, <1>2, <1>3 DEF SessionInv

LEMMA SessionStep ==
  ASSUME TypeOK, OverlapInv, AuthInv, SessionInv, DeviceInv, [Next]_vars
  PROVE  SessionInv'
<1>1. ASSUME NEW h \in Handler, BeginStep(h)
      PROVE  SessionInv'
  <2>1. PICK r \in Task : Begin(h, r) /\ TablesStay /\ Arrives(r)
    BY <1>1 DEF BeginStep
  <2>2. /\ task'[h] = r /\ \A g \in Handler : g # h => task'[g] = task[g]
        /\ contended \subseteq contended' /\ UNCHANGED <<token, stored, handed>>
    BY <2>1 DEF Begin, TypeOK, TablesStay, sessionVars
  <2>3. ASSUME NEW g \in Handler
        PROVE  SessionTask(task[g])'
    BY <2>1, <2>2 DEF SessionInv, SessionTask, SessionFree, Arrives
  <2>4. ASSUME NEW f \in Handler, NEW g \in Handler, f # g, task'[f].op = "store",
               task'[g].op \in {"store", "redeem"}
        PROVE  task'[f].token # task'[g].token
    <3>1. f # h
      BY <2>1, <2>2, <2>4 DEF Arrives
    <3>2. task[f].token \notin stored
      BY <2>2, <2>4, <3>1 DEF SessionInv, SessionTask
    <3>3. CASE g = h
      BY <2>1, <2>2, <2>4, <3>1, <3>2, <3>3 DEF Arrives
    <3>4. CASE g # h
      BY <2>2, <2>4, <3>1, <3>4 DEF SessionInv
    <3> QED
      BY <3>3, <3>4
  <2> QED
    BY <2>2, <2>3, <2>4 DEF SessionInv, SessionFree
<1>2. ASSUME NEW h \in Handler, GoesOn(h)
      PROVE  SessionInv'
  <2>1. /\ UNCHANGED contended /\ \A g \in Handler : g # h => task'[g] = task[g]
        /\ task'[h].op # "redeem" /\ (task'[h].op = "store" => TokenWrite(h))
        /\ Idle.op = "idle"
    BY <1>2, Going DEF Follows, Idle
  <2>2. CASE TokenWrite(h)
    <3>1. PICK n \in Token : n = Len(token) + 1
      BY <2>2, TokenFacts
    <3>2. \/ task'[h].op = "store" /\ task'[h].token = n /\ UNCHANGED handed
          \/ /\ task'[h].op \notin {"store", "redeem"}
             /\ handed' = [handed EXCEPT ![n] = handed[n] + 1]
      BY <2>1, <2>2, <3>1, TokenFacts
    <3>3. /\ n \notin DOMAIN token /\ DOMAIN token' = DOMAIN token \cup {n}
          /\ UNCHANGED stored
      BY <2>2, <3>1, TokenFacts
    <3> QED
      BY <2>1, <3>2, <3>3, SessionIssue
  <2>3. CASE RefreshWrite(h)
    <3>1. task'[h].op = "idle" /\ UNCHANGED stored
      BY <2>1, <2>3, RefreshFacts
    <3>2. CASE UNCHANGED <<token, handed>>
      BY <2>1, <3>1, <3>2, SessionQuiet
    <3>3. CASE ~ UNCHANGED <<token, handed>>
      <4>1. PICK n \in Token :
              /\ n \notin DOMAIN token /\ DOMAIN token' = DOMAIN token \cup {n}
              /\ handed' = [handed EXCEPT ![n] = handed[n] + 1]
        BY <2>3, <3>3, RefreshFacts
      <4> QED
        BY <2>1, <3>1, <4>1, SessionIssue
    <3> QED
      BY <3>2, <3>3
  <2>4. CASE LogoutDelete(h)
    <3>1. /\ DOMAIN token' = DOMAIN token /\ UNCHANGED <<stored, handed>>
          /\ task'[h].op \notin {"store", "redeem"}
      BY <2>1, <2>4, LogoutFacts
    <3> QED
      BY <2>1, <3>1, SessionQuiet
  <2>5. CASE SessionStore(h)
    BY <2>5, SessionKept
  <2>6. CASE RedeemAnswer(h)
    BY <2>6, SessionRedeem
  <2>7. CASE /\ ~TokenWrite(h) /\ ~RefreshWrite(h) /\ ~LogoutDelete(h)
             /\ ~SessionStore(h) /\ ~RedeemAnswer(h)
    <3>1. UNCHANGED <<token, stored, handed>>
      BY <1>2, <2>7, Writing
    <3> QED
      BY <2>1, <2>7, <3>1, SessionQuiet
  <2> QED
    BY <2>2, <2>3, <2>4, <2>5, <2>6, <2>7
<1>3. ASSUME NEW t \in Token, ForgetSession(t)
      PROVE  SessionInv'
  BY <1>3, SessionQuiet DEF ForgetSession
<1>4. CASE UNCHANGED <<token, stored, handed, task, contended>>
  BY <1>4, SessionQuiet
<1> QED
  BY <1>1, <1>2, <1>3, <1>4, NextSteps DEF vars, sessionVars, Expire, Authorize, ForgetState

--------------------------------------------------------------------------------
(***************************************************************************)
(* Devices.                                                                *)
(***************************************************************************)

\* A login or logout under way ends with its last write, or breaks off.
LEMMA EndsWith ==
  ASSUME NEW h \in Handler, GoesOn(h)
  PROVE  /\ task[h].op = "token" => TokenWrite(h) \/ BreakOff(h)
         /\ task[h].op = "deactivate" => LogoutDevice(h) \/ BreakOff(h)
<1>1. CASE TokenWrite(h) \/ LogoutDevice(h) \/ BreakOff(h)
  BY <1>1 DEF TokenWrite, LogoutDevice, Op
<1>2. SendWrite(h) \/ RegisterWrite(h) \/ ResetWrite(h) =>
        task[h].op \in {"send", "register", "reset"}
  BY DEF SendWrite, RegisterWrite, ResetWrite, Op
<1>3. DeviceWrite(h) \/ CallbackPass(h) \/ GoogleUser(h) =>
        task[h].op \in {"device", "callback", "createUser"}
  BY DEF DeviceWrite, CallbackPass, GoogleUser, Op
<1>4. (\E e \in Email : GoogleAnswer(h, e)) => task[h].op = "google"
  BY DEF GoogleAnswer, Op
<1>5. SessionStore(h) \/ RedeemAnswer(h) \/ RefreshWrite(h) \/ LogoutDelete(h) =>
        task[h].op \in {"store", "redeem", "refresh", "logout"}
  BY DEF SessionStore, RedeemAnswer, RefreshWrite, LogoutDelete, Op
<1>6. AddClear(h) \/ UpdateClear(h) \/ RemoveFallback(h) =>
        task[h].op \in {"add", "update", "remove"}
  BY DEF AddClear, UpdateClear, RemoveFallback, Op
<1>7. AddCommit(h) \/ UpdateCommit(h) \/ RemoveCommit(h) =>
        task[h].op \in {"addCommit", "updateCommit", "removeCommit"}
  BY DEF AddCommit, UpdateCommit, RemoveCommit, Op
<1> QED
  BY <1>1, <1>2, <1>3, <1>4, <1>5, <1>6, <1>7 DEF GoesOn, Proceed

\* Steps that leave devices and tokens: no login or logout ends, but for those broken off.
LEMMA DeviceQuiet ==
  ASSUME TypeOK, DeviceInv, UNCHANGED <<device, token>>, broken \subseteq broken',
         \A g \in Handler :
           \/ task'[g] = task[g]
           \/ /\ DeviceTask(task'[g]) /\ task'[g].op \notin {"token", "deactivate"}
              /\ task[g].op \in {"token", "deactivate"} => task[g].device \in broken'
  PROVE  DeviceInv'
<1>0. device' = device /\ token' = token
  OBVIOUS
<1>1. \A d : LiveTokens(d)' = LiveTokens(d)
  BY <1>0 DEF LiveTokens
<1>2. \A g \in Handler : DeviceTask(task'[g])
  BY DEF DeviceInv
<1>3. \A g \in Handler : DeviceTask(task[g])'
  BY <1>0, <1>1, <1>2 DEF DeviceTask
<1>4. DeviceFollowsToken'
  <2> SUFFICES ASSUME NEW d \in DOMAIN device
               PROVE  \/ d \in broken'
                      \/ \E g \in Handler :
                           task'[g].op \in {"token", "deactivate"} /\ task'[g].device = d
                      \/ device'[d] <=> (LiveTokens(d)' # {})
    BY <1>0 DEF DeviceFollowsToken
  <2>1. \/ d \in broken
        \/ \E g \in Handler : task[g].op \in {"token", "deactivate"} /\ task[g].device = d
        \/ device[d] <=> (LiveTokens(d) # {})
    BY DEF DeviceInv, DeviceFollowsToken
  <2>2. CASE \E g \in Handler : task[g].op \in {"token", "deactivate"} /\ task[g].device = d
    BY <2>2
  <2> QED
    BY <1>0, <1>1, <2>1, <2>2
<1>5. \A f, g \in Handler :
        f # g /\ task'[f].op = "token" /\ task'[g].op = "token" =>
          task'[f].device # task'[g].device
  BY DEF DeviceInv
<1> QED
  BY <1>0, <1>3, <1>4, <1>5 DEF DeviceInv

\* A device is made for the login that is to issue its token.
LEMMA DeviceMade ==
  ASSUME TypeOK, DeviceInv, NEW h \in Handler, DeviceWrite(h)
  PROVE  /\ device' \in Seq(BOOLEAN) /\ Len(device') <= MaxDevices
         /\ task'[h] \in Task /\ task'[h].device \notin DOMAIN device
         /\ DeviceInv'
<1>0. task[h] \in Task /\ task[h].op = "device" /\ task \in [Handler -> Task]
  BY DEF TypeOK, DeviceWrite, Op
<1>1. PICK d : d = Len(device) + 1
  OBVIOUS
<1>2. /\ device' = Append(device, TRUE) /\ Len(device) < MaxDevices
      /\ UNCHANGED <<token, broken>>
  BY DEF DeviceWrite
<1>3. /\ device' \in Seq(BOOLEAN) /\ Len(device') = d /\ DOMAIN device' = DOMAIN device \cup {d}
      /\ d \notin DOMAIN device /\ device'[d] = TRUE
      /\ \A e \in DOMAIN device : device'[e] = device[e]
  BY <1>1, <1>2, RowAdded, RowTypes
<1>4. d \in Device /\ d <= MaxDevices
  BY <1>1, <1>2, RowTypes, BoundAssumption DEF Device
<1>5. PICK r \in Task : r = [op |-> "token", device |-> d, google |-> task[h].google]
  BY <1>0, <1>4, TaskShape DEF Task
<1>6. task'[h] = r /\ \A g \in Handler : g # h => task'[g] = task[g]
  BY <1>0, <1>1, <1>5 DEF DeviceWrite, Continue
<1>7. r.op = "token" /\ r.device = d
  BY <1>5
<1>8. token' = token /\ broken' = broken /\ \A e : LiveTokens(e)' = LiveTokens(e)
  BY <1>2 DEF LiveTokens
<1>9. \A t \in DOMAIN token : token[t].device \in DOMAIN device
  BY DEF DeviceInv
<1>10. ASSUME NEW g \in Handler, g # h
       PROVE  DeviceTask(task[g])'
  <2>1. DeviceTask(task[g])
    BY DEF DeviceInv
  <2> QED
    BY <1>3, <1>6, <1>8, <1>10, <2>1 DEF DeviceTask
<1>11. DeviceTask(task[h])'
  BY <1>3, <1>6, <1>7, <1>8, <1>9 DEF DeviceTask
<1>12. ASSUME NEW g \in Handler, g # h, task[g].op = "token"
       PROVE  task[g].device # d
  BY <1>3, <1>12 DEF DeviceInv, DeviceTask
<1>13. \A f, g \in Handler :
         f # g /\ task'[f].op = "token" /\ task'[g].op = "token" =>
           task'[f].device # task'[g].device
  BY <1>6, <1>7, <1>12 DEF DeviceInv
<1>14. DeviceFollowsToken'
  <2> SUFFICES ASSUME NEW e \in DOMAIN device'
               PROVE  \/ e \in broken'
                      \/ \E g \in Handler :
                           task'[g].op \in {"token", "deactivate"} /\ task'[g].device = e
                      \/ device'[e] <=> (LiveTokens(e)' # {})
    BY DEF DeviceFollowsToken
  <2>1. CASE e = d
    BY <1>6, <1>7, <2>1
  <2>2. CASE e # d
    <3>1. e \in DOMAIN device
      BY <1>3, <2>2
    <3>2. \/ e \in broken
          \/ \E g \in Handler : task[g].op \in {"token", "deactivate"} /\ task[g].device = e
          \/ device[e] <=> (LiveTokens(e) # {})
      BY <3>1 DEF DeviceInv, DeviceFollowsToken
    <3>3. \A g \in Handler : task[g].op \in {"token", "deactivate"} => g # h
      BY <1>0
    <3>4. CASE \E g \in Handler : task[g].op \in {"token", "deactivate"} /\ task[g].device = e
      BY <1>6, <3>3, <3>4
    <3> QED
      BY <1>3, <1>8, <3>1, <3>2, <3>4
  <2> QED
    BY <2>1, <2>2
<1>15. DeviceInv'
  BY <1>3, <1>8, <1>9, <1>10, <1>11, <1>13, <1>14 DEF DeviceInv
<1> QED
  BY <1>3, <1>4, <1>6, <1>7, <1>15

\* A token is issued for a device: its first one, or in the place of one that is taken.
LEMMA DeviceIssue ==
  ASSUME TypeOK, DeviceInv, NEW h \in Handler, NEW n \in Token, n \notin DOMAIN token,
         DOMAIN token' = DOMAIN token \cup {n}, UNCHANGED <<device, broken>>,
         task[h].op \in {"token", "refresh"}, task[h].device \in DOMAIN device,
         token'[n].device = task[h].device, token'[n].live,
         \A i \in DOMAIN token :
           /\ token'[i].device = token[i].device
           /\ token'[i].live <=> token[i].live /\ token[i].device # task[h].device,
         task[h].op = "token" =>
           device[task[h].device] /\ \A i \in DOMAIN token : token[i].device # task[h].device,
         task[h].op = "refresh" => LiveTokens(task[h].device) # {},
         \A g \in Handler : g # h => task'[g] = task[g],
         task'[h].op \notin {"token", "refresh", "logout", "deactivate"}
  PROVE  DeviceInv'
<1>0. PICK d \in DOMAIN device : d = task[h].device
  OBVIOUS
<1>1. LiveTokens(d)' = {n} /\ \A e : e # d => LiveTokens(e)' = LiveTokens(e)
  BY <1>0 DEF LiveTokens
<1>2. ASSUME NEW g \in Handler, g # h
      PROVE  DeviceTask(task[g])' /\ (task[g].op = "token" => task[g].device # d)
  <2>0. DeviceTask(task[g]) /\ task'[g] = task[g]
    BY <1>2 DEF DeviceInv
  <2>1. CASE task[g].op = "token"
    <3>1. task[g].device # d
      <4>1. CASE task[h].op = "token"
        BY <1>0, <1>2, <2>1, <4>1 DEF DeviceInv
      <4>2. CASE task[h].op = "refresh"
        <5>1. PICK t \in DOMAIN token : token[t].device = d
          BY <1>0, <4>2 DEF LiveTokens
        <5> QED
          BY <2>0, <2>1, <5>1 DEF DeviceTask
      <4> QED
        BY <4>1, <4>2
    <3>2. \A i \in DOMAIN token' : token'[i].device # task[g].device
      BY <1>0, <2>0, <2>1, <3>1 DEF DeviceTask
    <3> QED
      BY <2>0, <2>1, <3>1, <3>2 DEF DeviceTask
  <2>2. CASE task[g].op \in {"refresh", "logout"}
    BY <2>0, <2>2 DEF DeviceTask
  <2>3. CASE task[g].op = "deactivate"
    <3>1. /\ LiveTokens(task[g].device) = {}
          /\ \E t \in DOMAIN token : token[t].device = task[g].device
      BY <2>0, <2>3 DEF DeviceTask
    <3>2. task[g].device # d
      BY <1>0, <3>1
    <3>3. LiveTokens(task[g].device)' = {}
      BY <1>1, <2>0, <3>1, <3>2
    <3>4. \E t \in DOMAIN token' : token'[t].device = task'[g].device
      BY <2>0, <3>1
    <3> QED
      BY <2>0, <2>3, <3>3, <3>4 DEF DeviceTask
  <2>4. CASE task[g].op \notin {"token", "refresh", "logout", "deactivate"}
    BY <2>0, <2>4 DEF DeviceTask
  <2> QED
    BY <2>1, <2>2, <2>3, <2>4
<1>3. DeviceTask(task[h])'
  BY DEF DeviceTask
<1>4. \A f, g \in Handler :
        f # g /\ task'[f].op = "token" /\ task'[g].op = "token" =>
          task'[f].device # task'[g].device
  BY DEF DeviceInv
<1>5. \A t \in DOMAIN token' : token'[t].device \in DOMAIN device'
  BY <1>0 DEF DeviceInv
<1>6. ASSUME NEW t \in DOMAIN token', NEW u \in DOMAIN token', token'[t].live, token'[u].live,
             token'[t].device = token'[u].device
      PROVE  t = u
  <2>1. CASE token'[t].device = d
    <3>1. \A x \in DOMAIN token' : x = n \/ x \in DOMAIN token
      OBVIOUS
    <3>2. \A x \in DOMAIN token : token'[x].device = d => ~token'[x].live
      BY <1>0
    <3> QED
      BY <1>6, <2>1, <3>1, <3>2
  <2>2. CASE token'[t].device # d
    BY <1>0, <1>6, <2>2 DEF DeviceInv
  <2> QED
    BY <2>1, <2>2
<1>7. DeviceFollowsToken'
  <2> SUFFICES ASSUME NEW e \in DOMAIN device
               PROVE  \/ e \in broken'
                      \/ \E g \in Handler :
                           task'[g].op \in {"token", "deactivate"} /\ task'[g].device = e
                      \/ device'[e] <=> (LiveTokens(e)' # {})
    BY DEF DeviceFollowsToken
  <2>1. \/ e \in broken
        \/ \E g \in Handler : task[g].op \in {"token", "deactivate"} /\ task[g].device = e
        \/ device[e] <=> (LiveTokens(e) # {})
    BY DEF DeviceInv, DeviceFollowsToken
  <2>2. CASE \E g \in Handler \ {h} :
               task[g].op \in {"token", "deactivate"} /\ task[g].device = e
    BY <2>2
  <2>3. CASE e \in broken
    BY <2>3
  <2>4. CASE e # d /\ (device[e] <=> (LiveTokens(e) # {}))
    BY <1>1, <2>4
  <2>5. CASE e = d /\ task[h].op = "token"
    BY <1>0, <1>1, <2>5
  <2>6. CASE e = d /\ task[h].op = "refresh" /\ (device[e] <=> (LiveTokens(e) # {}))
    BY <1>0, <1>1, <2>6
  <2> QED
    BY <1>0, <2>1, <2>2, <2>3, <2>4, <2>5, <2>6
<1> QED
  BY <1>2, <1>3, <1>4, <1>5, <1>6, <1>7 DEF DeviceInv

\* A logout takes the last token of its device.
LEMMA DeviceTaken ==
  ASSUME TypeOK, DeviceInv, NEW h \in Handler, LogoutDelete(h)
  PROVE  DeviceInv'
<1>0. /\ task[h].op = "logout" /\ UNCHANGED <<device, broken>> /\ Idle.op = "idle"
      /\ \A g \in Handler : g # h => task'[g] = task[g]
  <2>1. GoesOn(h)
    BY DEF GoesOn, Proceed
  <2> QED
    BY <2>1, LogoutFacts, Going DEF Idle
<1>1. CASE UNCHANGED token /\ task'[h] = Idle
  <2>1. DeviceTask(task'[h])
    BY <1>0, <1>1 DEF DeviceTask
  <2> QED
    BY <1>0, <1>1, <2>1, DeviceQuiet
<1>2. CASE ~(UNCHANGED token /\ task'[h] = Idle)
  <2>1. PICK t, d :
          /\ t \in DOMAIN token /\ t = task[h].token /\ d = task[h].device /\ token[t].live
          /\ DOMAIN token' = DOMAIN token
          /\ \A i \in DOMAIN token :
               token'[i].device = token[i].device /\ (token'[i].live <=> token[i].live /\ i # t)
          /\ task'[h].op = "deactivate" /\ task'[h].device = d
    BY <1>2, LogoutFacts
  <2>2. token[t].device = d /\ d \in DOMAIN device
    BY <1>0, <2>1 DEF DeviceInv, DeviceTask
  <2>3. LiveTokens(d)' = {}
    BY <2>1, <2>2 DEF LiveTokens, DeviceInv
  <2>4. \A e : e # d => LiveTokens(e)' = LiveTokens(e)
    BY <2>1, <2>2 DEF LiveTokens
  <2>5. ASSUME NEW g \in Handler, g # h
        PROVE  DeviceTask(task[g])'
    <3>0. DeviceTask(task[g]) /\ task'[g] = task[g]
      BY <1>0, <2>5 DEF DeviceInv
    <3>1. PICK e : e = task[g].device
      OBVIOUS
    <3>2. LiveTokens(e) = {} => LiveTokens(e)' = {}
      BY <2>3, <2>4
    <3>3. LiveTokens(task[g].device)' = LiveTokens(e)'
      BY <3>0, <3>1
    <3> QED
      BY <1>0, <2>1, <3>0, <3>1, <3>2, <3>3 DEF DeviceTask
  <2>6. DeviceTask(task[h])'
    BY <2>1, <2>2, <2>3 DEF DeviceTask
  <2>7. \A f, g \in Handler :
          f # g /\ task'[f].op = "token" /\ task'[g].op = "token" =>
            task'[f].device # task'[g].device
    BY <1>0, <2>1 DEF DeviceInv
  <2>8. /\ \A i \in DOMAIN token' : token'[i].device \in DOMAIN device'
        /\ \A i, u \in DOMAIN token' :
             token'[i].live /\ token'[u].live /\ token'[i].device = token'[u].device => i = u
    BY <1>0, <2>1 DEF DeviceInv
  <2>9. DeviceFollowsToken'
    <3> SUFFICES ASSUME NEW e \in DOMAIN device
                 PROVE  \/ e \in broken'
                        \/ \E g \in Handler :
                             task'[g].op \in {"token", "deactivate"} /\ task'[g].device = e
                        \/ device'[e] <=> (LiveTokens(e)' # {})
      BY <1>0 DEF DeviceFollowsToken
    <3>1. \/ e \in broken
          \/ \E g \in Handler : task[g].op \in {"token", "deactivate"} /\ task[g].device = e
          \/ device[e] <=> (LiveTokens(e) # {})
      BY DEF DeviceInv, DeviceFollowsToken
    <3>2. CASE \E g \in Handler : task[g].op \in {"token", "deactivate"} /\ task[g].device = e
      BY <1>0, <3>2
    <3>3. CASE e = d
      BY <2>1, <3>3
    <3>4. CASE e # d /\ (device[e] <=> (LiveTokens(e) # {}))
      BY <1>0, <2>4, <3>4
    <3> QED
      BY <1>0, <3>1, <3>2, <3>3, <3>4
  <2> QED
    BY <2>5, <2>6, <2>7, <2>8, <2>9 DEF DeviceInv
<1> QED
  BY <1>1, <1>2

\* And marks the device when it has none.
LEMMA DeviceMarked ==
  ASSUME TypeOK, DeviceInv, NEW h \in Handler, LogoutDevice(h)
  PROVE  DeviceInv' /\ device' \in Seq(BOOLEAN) /\ Len(device') = Len(device)
<1>0. /\ task[h].op = "deactivate" /\ UNCHANGED <<token, broken>> /\ Idle.op = "idle"
      /\ task'[h] = Idle /\ \A g \in Handler : g # h => task'[g] = task[g]
  BY DEF LogoutDevice, Op, Continue, Idle, TypeOK
<1>1. PICK d : d = task[h].device /\ LiveTokens(d) = {}
  BY <1>0 DEF DeviceInv, DeviceTask
<1>2. (\E t \in DOMAIN token : token[t].device = d) /\ d \in DOMAIN device
  BY <1>0, <1>1 DEF DeviceInv, DeviceTask
<1>3. device' = [device EXCEPT ![d] = FALSE]
  BY <1>1 DEF LogoutDevice
<1>4. /\ device' \in Seq(BOOLEAN) /\ Len(device') = Len(device) /\ DOMAIN device' = DOMAIN device
      /\ device'[d] = FALSE /\ \A e \in DOMAIN device : e # d => device'[e] = device[e]
  BY <1>2, <1>3, RowSet, RowTypes
<1>5. token' = token /\ \A e : LiveTokens(e)' = LiveTokens(e)
  BY <1>0 DEF LiveTokens
<1>6. ASSUME NEW g \in Handler, g # h
      PROVE  DeviceTask(task[g])'
  <2>1. DeviceTask(task[g]) /\ task'[g] = task[g]
    BY <1>0, <1>6 DEF DeviceInv
  <2>2. task[g].op = "token" => task[g].device # d
    BY <1>2, <2>1 DEF DeviceTask
  <2> QED
    BY <1>4, <1>5, <2>1, <2>2 DEF DeviceTask
<1>7. DeviceTask(task[h])'
  BY <1>0 DEF DeviceTask
<1>8. DeviceFollowsToken'
  <2> SUFFICES ASSUME NEW e \in DOMAIN device
               PROVE  \/ e \in broken'
                      \/ \E g \in Handler :
                           task'[g].op \in {"token", "deactivate"} /\ task'[g].device = e
                      \/ device'[e] <=> (LiveTokens(e)' # {})
    BY <1>4 DEF DeviceFollowsToken
  <2>1. CASE e = d
    BY <1>1, <1>4, <1>5, <2>1
  <2>2. CASE e # d
    <3>1. \/ e \in broken
          \/ \E g \in Handler : task[g].op \in {"token", "deactivate"} /\ task[g].device = e
          \/ device[e] <=> (LiveTokens(e) # {})
      BY DEF DeviceInv, DeviceFollowsToken
    <3>2. CASE \E g \in Handler : task[g].op \in {"token", "deactivate"} /\ task[g].device = e
      BY <1>0, <1>1, <2>2, <3>2
    <3> QED
      BY <1>0, <1>4, <1>5, <2>2, <3>1, <3>2
  <2> QED
    BY <2>1, <2>2
<1>9. \A f, g \in Handler :
        f # g /\ task'[f].op = "token" /\ task'[g].op = "token" =>
          task'[f].device # task'[g].device
  BY <1>0 DEF DeviceInv
<1> QED
  BY <1>4, <1>5, <1>6, <1>7, <1>8, <1>9 DEF DeviceInv

LEMMA DeviceStep ==
  ASSUME TypeOK, AuthInv, SessionInv, DeviceInv, [Next]_vars
  PROVE  DeviceInv'
<1>1. ASSUME NEW h \in Handler, BeginStep(h)
      PROVE  DeviceInv'
  <2>1. PICK r \in Task : Begin(h, r) /\ TablesStay /\ Arrives(r)
    BY <1>1 DEF BeginStep
  <2>2. /\ task'[h] = r /\ \A g \in Handler : g # h => task'[g] = task[g]
        /\ task[h].op = "idle" /\ UNCHANGED <<device, token, broken>>
    BY <2>1 DEF Begin, TypeOK, TablesStay, sessionVars, Idle
  <2>3. DeviceTask(r) /\ r.op \notin {"token", "deactivate"}
    BY <2>1 DEF Arrives
  <2> QED
    BY <2>2, <2>3, DeviceQuiet
<1>2. ASSUME NEW h \in Handler, GoesOn(h)
      PROVE  DeviceInv'
  <2>1. /\ \A g \in Handler : g # h => task'[g] = task[g]
        /\ Follows(h, task'[h]) /\ Idle.op = "idle" /\ DeviceTask(task[h])
    BY <1>2, Going DEF Idle, DeviceInv
  <2>2. CASE DeviceWrite(h)
    BY <2>2, DeviceMade
  <2>3. CASE TokenWrite(h)
    <3>1. PICK n \in Token : n = Len(token) + 1
      BY <2>3, TokenFacts
    <3>2. /\ n \notin DOMAIN token /\ DOMAIN token' = DOMAIN token \cup {n}
          /\ UNCHANGED <<device, broken>> /\ task[h].op = "token"
          /\ token'[n].device = task[h].device /\ token'[n].live = TRUE
          /\ \A i \in DOMAIN token : token'[i] = token[i]
          /\ task'[h].op \notin {"token", "refresh", "logout", "deactivate"}
      BY <2>1, <2>3, <3>1, TokenFacts
    <3>3. /\ task[h].device \in DOMAIN device /\ device[task[h].device]
          /\ \A i \in DOMAIN token : token[i].device # task[h].device
      BY <2>1, <3>2 DEF DeviceTask
    <3> QED
      BY <2>1, <3>2, <3>3, DeviceIssue
  <2>4. CASE RefreshWrite(h)
    <3>1. task[h].op = "refresh" /\ task'[h] = Idle /\ UNCHANGED <<device, broken>>
      BY <2>4, RefreshFacts
    <3>2. CASE UNCHANGED token
      <4>1. DeviceTask(task'[h])
        BY <2>1, <3>1 DEF DeviceTask
      <4> QED
        BY <2>1, <3>1, <3>2, <4>1, DeviceQuiet
    <3>3. CASE ~ UNCHANGED token
      <4>1. PICK n \in Token, t \in DOMAIN token :
              /\ t = task[h].token /\ token[t].live
              /\ DOMAIN token' = DOMAIN token \cup {n} /\ n \notin DOMAIN token
              /\ token'[n].device = task[h].device /\ token'[n].live = TRUE
              /\ \A i \in DOMAIN token :
                   /\ token'[i].device = token[i].device
                   /\ token'[i].live <=> token[i].live /\ i # t
        BY <2>4, <3>3, RefreshFacts
      <4>2. token[t].device = task[h].device /\ task[h].device \in DOMAIN device
        BY <2>1, <3>1, <4>1 DEF DeviceTask, DeviceInv
      <4>3. ASSUME NEW i \in DOMAIN token
            PROVE  token'[i].live <=> token[i].live /\ token[i].device # task[h].device
        <5>1. token[i].live /\ token[i].device = task[h].device => i = t
          BY <4>1, <4>2 DEF DeviceInv
        <5> QED
          BY <4>1, <4>2, <5>1
      <4>4. LiveTokens(task[h].device) # {}
        BY <4>1, <4>2 DEF LiveTokens
      <4>5. task'[h].op \notin {"token", "refresh", "logout", "deactivate"}
        BY <2>1, <3>1
      <4>6. \A i \in DOMAIN token :
              /\ token'[i].device = token[i].device
              /\ token'[i].live <=> token[i].live /\ token[i].device # task[h].device
        BY <4>1, <4>3
      <4> QED
        BY <2>1, <3>1, <4>1, <4>2, <4>4, <4>5, <4>6, DeviceIssue
    <3> QED
      BY <3>2, <3>3
  <2>5. CASE LogoutDelete(h)
    BY <2>5, DeviceTaken
  <2>6. CASE LogoutDevice(h)
    BY <2>6, DeviceMarked
  <2>7. CASE BreakOff(h)
    <3>1. /\ task'[h] = Idle /\ UNCHANGED <<device, token>> /\ broken \subseteq broken'
          /\ task[h].op \in {"token", "deactivate"} => task[h].device \in broken'
      BY <2>7 DEF BreakOff, Continue, TypeOK
    <3>2. DeviceTask(task'[h])
      BY <2>1, <3>1 DEF DeviceTask
    <3> QED
      BY <2>1, <3>1, <3>2, DeviceQuiet
  <2>8. CASE /\ ~DeviceWrite(h) /\ ~TokenWrite(h) /\ ~RefreshWrite(h) /\ ~LogoutDelete(h)
             /\ ~LogoutDevice(h) /\ ~BreakOff(h)
    <3>1. UNCHANGED <<device, token, broken>>
      BY <1>2, <2>8, Writing
    <3>2. task[h].op \notin {"token", "deactivate"}
      BY <1>2, <2>8, EndsWith
    <3>3. task'[h].op \notin {"token", "refresh", "logout", "deactivate"}
      BY <2>1, <2>8 DEF Follows
    <3>4. DeviceTask(task'[h])
      BY <3>3 DEF DeviceTask
    <3> QED
      BY <2>1, <3>1, <3>2, <3>3, <3>4, DeviceQuiet
  <2> QED
    BY <2>2, <2>3, <2>4, <2>5, <2>6, <2>7, <2>8
<1>3. CASE UNCHANGED <<device, token, broken, task>>
  BY <1>3, DeviceQuiet
<1> QED
  BY <1>1, <1>2, <1>3, NextSteps
     DEF vars, sessionVars, Expire, Authorize, ForgetState, ForgetSession

--------------------------------------------------------------------------------
(***************************************************************************)
(* Overlaps and types.                                                     *)
(***************************************************************************)

\* A request that goes on stays with its subject, leaves it, or is about a new device.
LEMMA SubjectNext ==
  ASSUME TypeOK, DeviceInv, NEW h \in Handler, GoesOn(h)
  PROVE  \/ Subject(task'[h]) = {}
         \/ Subject(task'[h]) = Subject(task[h])
         \/ \E d : Subject(task'[h]) = {<<"device", d>>} /\ d \notin DOMAIN device
<1>0. Follows(h, task'[h]) /\ task \in [Handler -> Task]
  BY Going DEF TypeOK
<1>1. CASE DeviceWrite(h) /\ task'[h].op = "token"
  BY <1>1, DeviceMade, SubjectFacts
<1>2. CASE LogoutDelete(h) /\ task'[h].op = "deactivate"
  <2>1. task[h].op = "logout" /\ task'[h].device = task[h].device
    BY <1>2, LogoutFacts DEF Idle
  <2> QED
    BY <1>2, <2>1, SubjectFacts
<1>3. CASE AddClear(h) /\ task'[h].op = "addCommit"
  <2>1. task[h].op = "add" /\ task'[h].user = task[h].user
    BY <1>0, <1>3 DEF AddClear, Continue, Op
  <2>2. Subject(task[h]) = {<<"book", task[h].user>>}
    BY <2>1, SubjectFacts
  <2>3. Subject(task'[h]) = {<<"book", task'[h].user>>}
    BY <1>3, SubjectFacts
  <2> QED
    BY <2>1, <2>2, <2>3
<1>4. CASE UpdateClear(h) /\ task'[h].op = "updateCommit"
  <2>1. task[h].op = "update" /\ task'[h].user = task[h].user
    BY <1>0, <1>4 DEF UpdateClear, Continue, Op
  <2>2. Subject(task[h]) = {<<"book", task[h].user>>}
    BY <2>1, SubjectFacts
  <2>3. Subject(task'[h]) = {<<"book", task'[h].user>>}
    BY <1>4, SubjectFacts
  <2> QED
    BY <2>1, <2>2, <2>3
<1>5. CASE RemoveFallback(h) /\ task'[h].op = "removeCommit"
  <2>1. task[h].op = "remove" /\ task'[h].user = task[h].user
    BY <1>0, <1>5 DEF RemoveFallback, Continue, Op
  <2>2. Subject(task[h]) = {<<"book", task[h].user>>}
    BY <2>1, SubjectFacts
  <2>3. Subject(task'[h]) = {<<"book", task'[h].user>>}
    BY <1>5, SubjectFacts
  <2> QED
    BY <2>1, <2>2, <2>3
<1>6. CASE task'[h].op \in {"idle", "google", "createUser", "device", "store"}
  BY <1>6, SubjectFacts
<1> QED
  BY <1>0, <1>1, <1>2, <1>3, <1>4, <1>5, <1>6 DEF Follows

\* A device that requests are about is one that was made.
LEMMA SubjectDevice ==
  ASSUME DeviceInv, NEW g \in Handler, NEW d, <<"device", d>> \in Subject(task[g])
  PROVE  d \in DOMAIN device
<1>1. DeviceTask(task[g])
  BY DEF DeviceInv
<1>2. task[g].op \in {"token", "refresh", "logout", "deactivate"} /\ task[g].device = d
  BY SubjectFacts
<1> QED
  BY <1>1, <1>2 DEF DeviceTask, DeviceInv

LEMMA OverlapStep ==
  ASSUME TypeOK, OverlapInv, AuthInv, SessionInv, DeviceInv, [Next]_vars
  PROVE  OverlapInv'
<1>0. ASSUME NEW h \in Handler, \A g \in Handler : g # h => task'[g] = task[g],
             \A g \in Handler : g # h =>
               Subject(task'[h]) \cap Subject(task[g]) \subseteq contended',
             contended \subseteq contended'
      PROVE  OverlapInv'
  <2> SUFFICES ASSUME NEW f \in Handler, NEW g \in Handler, f # g
               PROVE  Subject(task'[f]) \cap Subject(task'[g]) \subseteq contended'
    BY DEF OverlapInv
  <2>1. CASE f # h /\ g # h
    BY <1>0, <2>1 DEF OverlapInv
  <2>2. CASE f = h \/ g = h
    BY <1>0, <2>2
  <2> QED
    BY <2>1, <2>2
<1>1. ASSUME NEW h \in Handler, BeginStep(h)
      PROVE  OverlapInv'
  <2>1. PICK r \in Task : Begin(h, r)
    BY <1>1 DEF BeginStep
  <2>2. task'[h] = r /\ \A g \in Handler : g # h => task'[g] = task[g]
    BY <2>1 DEF Begin, TypeOK
  <2>3. \A g \in Handler : Subject(task'[h]) \cap Subject(task[g]) \subseteq contended'
    BY <2>1, <2>2 DEF Begin
  <2>4. contended \subseteq contended'
    BY <2>1 DEF Begin
  <2> QED
    BY <1>0, <2>2, <2>3, <2>4
<1>2. ASSUME NEW h \in Handler, GoesOn(h)
      PROVE  OverlapInv'
  <2>1. UNCHANGED contended /\ \A g \in Handler : g # h => task'[g] = task[g]
    BY <1>2, Going
  <2>2. ASSUME NEW g \in Handler, g # h
        PROVE  Subject(task'[h]) \cap Subject(task[g]) \subseteq contended
    <3>1. \A d : d \notin DOMAIN device => <<"device", d>> \notin Subject(task[g])
      BY SubjectDevice
    <3>2. Subject(task[h]) \cap Subject(task[g]) \subseteq contended
      BY <2>2 DEF OverlapInv
    <3> QED
      BY <1>2, <3>1, <3>2, SubjectNext
  <2> QED
    BY <1>0, <2>1, <2>2
<1>3. CASE UNCHANGED <<task, contended>>
  BY <1>3 DEF OverlapInv
<1> QED
  BY <1>1, <1>2, <1>3, NextSteps
     DEF vars, Expire, Authorize, ForgetState, ForgetSession

\* What a request holds next has its type.
LEMMA TaskNext ==
  ASSUME TypeOK, DeviceInv, BookInv, NEW h \in Handler, GoesOn(h)
  PROVE  task' \in [Handler -> Task]
<1>0. task \in [Handler -> Task] /\ task[h] \in Task /\ Idle \in Task
  BY DEF TypeOK, Task
<1>1. ASSUME NEW r \in Task, Continue(h, r)
      PROVE  task' \in [Handler -> Task]
  BY <1>0, <1>1 DEF Continue
<1>2. CASE \/ SendWrite(h) \/ RegisterWrite(h) \/ ResetWrite(h) \/ SessionStore(h)
           \/ RedeemAnswer(h) \/ RefreshWrite(h) \/ LogoutDevice(h) \/ AddCommit(h)
           \/ UpdateCommit(h) \/ RemoveCommit(h) \/ BreakOff(h)
  <2>1. Continue(h, Idle)
    BY <1>2 DEF SendWrite, RegisterWrite, ResetWrite, SessionStore, RedeemAnswer,
       RefreshWrite, LogoutDevice, AddCommit, UpdateCommit, RemoveCommit, BreakOff
  <2> QED
    BY <1>0, <1>1, <2>1
<1>3. CASE DeviceWrite(h)
  <2>1. task'[h] \in Task
    BY <1>3, DeviceMade
  <2>2. task' = [task EXCEPT ![h] = task'[h]]
    BY <1>0, <1>3 DEF DeviceWrite, Continue
  <2> QED
    BY <1>0, <2>1, <2>2
<1>4. CASE TokenWrite(h)
  <2>1. PICK n \in Token : n = Len(token) + 1
    BY <1>4, TokenFacts
  <2>2. PICK r \in Task : r = [op |-> "store", token |-> n]
    BY DEF Task
  <2>3. Continue(h, r) \/ Continue(h, Idle)
    BY <1>4, <2>1, <2>2 DEF TokenWrite
  <2> QED
    BY <1>0, <1>1, <2>3
<1>5. CASE CallbackPass(h)
  <2>1. PICK r \in Task : r = [op |-> "google"]
    BY DEF Task
  <2>2. Continue(h, r)
    BY <1>5, <2>1 DEF CallbackPass
  <2> QED
    BY <1>1, <2>2
<1>6. PICK q \in Task : q = [op |-> "device", google |-> TRUE]
  BY DEF Task
<1>7. CASE GoogleUser(h)
  <2>1. Continue(h, q) \/ Continue(h, Idle)
    BY <1>6, <1>7 DEF GoogleUser
  <2> QED
    BY <1>0, <1>1, <2>1
<1>8. ASSUME NEW e \in Email, GoogleAnswer(h, e)
      PROVE  task' \in [Handler -> Task]
  <2>1. PICK p \in Task : p = [op |-> "createUser", email |-> e]
    BY DEF Task
  <2>2. Continue(h, IF HasUser(e) THEN q ELSE p)
    BY <1>6, <1>8, <2>1 DEF GoogleAnswer
  <2> QED
    BY <1>1, <2>2
<1>9. CASE LogoutDelete(h)
  <2>1. PICK d \in Device : d = task[h].device
    BY <1>0, <1>9, TaskShape DEF LogoutDelete, Op
  <2>2. PICK r \in Task : r = [op |-> "deactivate", device |-> d]
    BY DEF Task
  <2>3. Continue(h, r) \/ Continue(h, Idle)
    BY <1>9, <2>1, <2>2 DEF LogoutDelete
  <2> QED
    BY <1>0, <1>1, <2>3
<1>10. \A u : Active(u) \subseteq Address
  BY RowTypes DEF Active
<1>11. CASE AddClear(h)
  <2>1. PICK u \in Email, i \in BOOLEAN : u = task[h].user /\ i = task[h].isDefault
    BY <1>0, <1>11, TaskShape DEF AddClear, Op
  <2>2. PICK C \in SUBSET Address : C = ToClear(u, i, {})
    BY <1>10 DEF ToClear
  <2>3. PICK r \in Task :
          r = [op |-> "addCommit", user |-> u, isDefault |-> i, clear |-> C]
    BY DEF Task
  <2>4. Continue(h, r)
    BY <1>11, <2>1, <2>2, <2>3 DEF AddClear
  <2> QED
    BY <1>1, <2>4
<1>12. CASE UpdateClear(h)
  <2>1. PICK u \in Email, a \in Address, w \in Wish :
          u = task[h].user /\ a = task[h].address /\ w = task[h].wish
    BY <1>0, <1>12, TaskShape DEF UpdateClear, Op
  <2>2. PICK C \in SUBSET Address : C = ToClear(u, w = "yes", {a})
    BY <1>10 DEF ToClear
  <2>3. PICK r \in Task :
          r = [op |-> "updateCommit", user |-> u, address |-> a, wish |-> w, clear |-> C]
    BY DEF Task
  <2>4. Continue(h, r)
    BY <1>12, <2>1, <2>2, <2>3 DEF UpdateClear
  <2> QED
    BY <1>1, <2>4
<1>13. CASE RemoveFallback(h)
  <2>1. PICK u \in Email, a \in Address, i \in BOOLEAN :
          u = task[h].user /\ a = task[h].address /\ i = task[h].isDefault
    BY <1>0, <1>13, TaskShape DEF RemoveFallback, Op
  <2>2. PICK F \in SUBSET Address : F = Fallback(u, a, i)
    <3>1. Fallback(u, a, i) \subseteq Active(u)
      BY FallbackFacts
    <3> QED
      BY <1>10, <3>1
  <2>3. PICK r \in Task :
          r = [op |-> "removeCommit", user |-> u, address |-> a, fallback |-> F]
    BY DEF Task
  <2>4. Continue(h, r)
    BY <1>13, <2>1, <2>2, <2>3 DEF RemoveFallback
  <2> QED
    BY <1>1, <2>4
<1> QED
  BY <1>2, <1>3, <1>4, <1>5, <1>7, <1>8, <1>9, <1>11, <1>12, <1>13 DEF GoesOn, Proceed

\* The tables keep their types when a request goes on.
LEMMA CodeTypesStay ==
  ASSUME TypeOK, CodeInv, NEW h \in Handler, GoesOn(h)
  PROVE  /\ account' \in [Email -> {"none", "seeded", "code", "google"}]
         /\ code' \in [Key -> CodeRow] /\ issued' \in [Key -> 0..MaxCodes]
         /\ uses' \in [Key -> Seq(Use)]
<1>1. CASE SendWrite(h)
  <2>1. PICK k \in Key : /\ issued[k] < MaxCodes
                         /\ issued' = [issued EXCEPT ![k] = issued[k] + 1]
                         /\ code' \in [Key -> CodeRow]
    BY <1>1, SendFacts
  <2>2. issued[k] + 1 \in 0..MaxCodes
    BY <2>1, CodeTypes
  <2>3. issued' \in [Key -> 0..MaxCodes]
    BY <2>1, <2>2, CodeTypes
  <2> QED
    BY <1>1, <2>1, <2>3, SendFacts, CodeTypes
<1>2. CASE RegisterWrite(h)
  <2>1. ASSUME NEW k \in Key, NEW e \in Email, task[h].typed \in Code, Deletable(k),
               Spend(k, task[h].typed), account' = [account EXCEPT ![e] = "code"]
        PROVE  /\ account' \in [Email -> {"none", "seeded", "code", "google"}]
               /\ code' \in [Key -> CodeRow] /\ uses' \in [Key -> Seq(Use)]
    BY <2>1, SpendFacts, CodeTypes
  <2>2. CASE UNCHANGED <<account, code, uses>>
    BY <1>2, <2>2, RegisterFacts, CodeTypes
  <2> QED
    BY <1>2, <2>1, <2>2, RegisterFacts, CodeTypes
<1>3. CASE ResetWrite(h)
  <2>1. ASSUME NEW k \in Key, task[h].typed \in Code, Deletable(k), Spend(k, task[h].typed)
        PROVE  code' \in [Key -> CodeRow] /\ uses' \in [Key -> Seq(Use)]
    BY <2>1, SpendFacts
  <2>2. CASE UNCHANGED <<code, uses>>
    BY <1>3, <2>2, ResetFacts, CodeTypes
  <2> QED
    BY <1>3, <2>1, <2>2, ResetFacts, CodeTypes
<1>4. CASE GoogleUser(h)
  <2>1. PICK f : f = task[h].email
    OBVIOUS
  <2>2. account' = [account EXCEPT ![f] = "google"] \/ UNCHANGED account
    BY <1>4, <2>1 DEF GoogleUser
  <2>3. account' \in [Email -> {"none", "seeded", "code", "google"}]
    BY <2>2, CodeTypes
  <2> QED
    BY <1>4, <2>3, CodeTypes DEF GoogleUser, codeVars
<1>5. CASE UNCHANGED <<account, code, issued, uses>>
  BY <1>5, CodeTypes
<1> QED
  BY <1>1, <1>2, <1>3, <1>4, <1>5, Writing

LEMMA SessionTypesStay ==
  ASSUME TypeOK, DeviceInv, NEW h \in Handler, GoesOn(h)
  PROVE  /\ device' \in Seq(BOOLEAN) /\ Len(device') <= MaxDevices
         /\ token' \in Seq(TokenRow) /\ Len(token') <= MaxTokens
         /\ stored' \subseteq Token /\ handed' \in [Token -> Nat]
         /\ authState' \in [AuthState -> {"unknown", "stored", "gone"}]
         /\ passed' \in [AuthState -> Nat]
         /\ broken' \subseteq Device
<1>0. /\ device \in Seq(BOOLEAN) /\ Len(device) <= MaxDevices
      /\ token \in Seq(TokenRow) /\ Len(token) <= MaxTokens
      /\ stored \subseteq Token /\ handed \in [Token -> Nat]
      /\ authState \in [AuthState -> {"unknown", "stored", "gone"}]
      /\ passed \in [AuthState -> Nat]
      /\ broken \subseteq Device /\ task[h] \in Task
  BY DEF TypeOK
<1>1. device' \in Seq(BOOLEAN) /\ Len(device') <= MaxDevices
  <2>1. CASE DeviceWrite(h)
    BY <2>1, DeviceMade
  <2>2. CASE LogoutDevice(h)
    BY <1>0, <2>2, DeviceMarked
  <2> QED
    BY <1>0, <2>1, <2>2, Writing
<1>2. token' \in Seq(TokenRow) /\ Len(token') <= MaxTokens
  <2>1. CASE TokenWrite(h)
    BY <2>1, TokenFacts
  <2>2. CASE RefreshWrite(h)
    BY <1>0, <2>2, RefreshFacts
  <2>3. CASE LogoutDelete(h)
    BY <1>0, <2>3, LogoutFacts
  <2> QED
    BY <1>0, <2>1, <2>2, <2>3, Writing
<1>3. stored' \subseteq Token /\ handed' \in [Token -> Nat]
  <2>0. ASSUME NEW n \in Token, handed' = [handed EXCEPT ![n] = handed[n] + 1]
        PROVE  handed' \in [Token -> Nat]
    BY <1>0, <2>0
  <2>1. CASE TokenWrite(h)
    <3>1. PICK n \in Token : n = Len(token) + 1
      BY <2>1, TokenFacts
    <3>2. UNCHANGED stored /\ (UNCHANGED handed \/ handed' = [handed EXCEPT ![n] = handed[n] + 1])
      BY <2>1, <3>1, TokenFacts
    <3> QED
      BY <1>0, <2>0, <3>2
  <2>2. CASE RefreshWrite(h)
    <3>1. UNCHANGED stored
      BY <2>2, RefreshFacts
    <3>2. \/ UNCHANGED handed
          \/ \E n \in Token : handed' = [handed EXCEPT ![n] = handed[n] + 1]
      BY <2>2, RefreshFacts
    <3> QED
      BY <1>0, <2>0, <3>1, <3>2
  <2>3. CASE SessionStore(h)
    BY <1>0, <2>3, TaskShape DEF SessionStore, Op
  <2>4. CASE RedeemAnswer(h)
    <3>1. PICK n \in Token : n = task[h].token
      BY <1>0, <2>4, TaskShape DEF RedeemAnswer, Op
    <3>2. stored' = stored \ {n} /\ handed' = [handed EXCEPT ![n] = handed[n] + 1]
      BY <2>4, <3>1 DEF RedeemAnswer, DropSession, Hand
    <3> QED
      BY <1>0, <2>0, <3>2
  <2> QED
    BY <1>0, <2>1, <2>2, <2>3, <2>4, Writing
<1>4. /\ authState' \in [AuthState -> {"unknown", "stored", "gone"}]
      /\ passed' \in [AuthState -> Nat]
  <2>1. CASE CallbackPass(h)
    <3>1. PICK s \in AuthState : /\ authState' = [authState EXCEPT ![s] = "gone"]
                                 /\ passed' = [passed EXCEPT ![s] = passed[s] + 1]
      BY <2>1, PassFacts
    <3> QED
      BY <1>0, <3>1
  <2> QED
    BY <1>0, <2>1, Writing
<1>5. broken' \subseteq Device
  <2>1. CASE BreakOff(h)
    <3>1. task[h].op \in {"token", "deactivate"} => task[h].device \in Device
      BY <1>0, TaskShape
    <3> QED
      BY <1>0, <2>1, <3>1 DEF BreakOff
  <2> QED
    BY <1>0, <2>1, Writing
<1> QED
  BY <1>1, <1>2, <1>3, <1>4, <1>5

LEMMA TypeStep ==
  ASSUME TypeOK, CodeInv, AuthInv, SessionInv, DeviceInv, BookInv, [Next]_vars
  PROVE  TypeOK'
<1>1. ASSUME NEW h \in Handler, BeginStep(h)
      PROVE  TypeOK'
  <2>1. PICK r \in Task : Begin(h, r) /\ TablesStay
    BY <1>1 DEF BeginStep
  <2>2. task' \in [Handler -> Task]
    BY <2>1 DEF Begin, TypeOK
  <2>3. contended' \subseteq contended \cup Subject(r)
    BY <2>1 DEF Begin
  <2>4. contended' \subseteq UNION {{"code"} \X Key, {"device"} \X Device,
                                    {"state"} \X AuthState, {"session"} \X Token,
                                    {"book"} \X Email}
    BY <2>3, SubjectType DEF TypeOK
  <2> QED
    BY <2>1, <2>2, <2>4 DEF TypeOK, TablesStay, codeVars, sessionVars
<1>2. ASSUME NEW h \in Handler, GoesOn(h)
      PROVE  TypeOK'
  <2>1. book' \in Seq(AddressRow) /\ Len(book') <= MaxAddresses
    <3>1. AddCommit(h) => book' \in Seq(AddressRow) /\ Len(book') <= MaxAddresses
      BY AddRows
    <3>2. UpdateCommit(h) => book' \in Seq(AddressRow) /\ Len(book') <= MaxAddresses
      BY UpdateRows
    <3>3. RemoveCommit(h) => book' \in Seq(AddressRow) /\ Len(book') <= MaxAddresses
      BY RemoveRows
    <3>4. UNCHANGED book => book' \in Seq(AddressRow) /\ Len(book') <= MaxAddresses
      BY DEF TypeOK
    <3> QED
      BY <1>2, <3>1, <3>2, <3>3, <3>4, Writing
  <2>2. contended' \subseteq UNION {{"code"} \X Key, {"device"} \X Device,
                                    {"state"} \X AuthState, {"session"} \X Token,
                                    {"book"} \X Email}
    BY <1>2, Going DEF TypeOK
  <2> QED
    BY <1>2, <2>1, <2>2, TaskNext, CodeTypesStay, SessionTypesStay DEF TypeOK, Use
<1>3. ASSUME NEW k \in Key, Expire(k)
      PROVE  TypeOK'
  <2>1. PICK old \in CodeRow : old = code[k]
    BY CodeTypes
  <2>2. PICK row \in CodeRow : row = [old EXCEPT !.fresh = FALSE]
    BY DEF CodeRow
  <2>3. code' = [code EXCEPT ![k] = row]
    BY <1>3, <2>1, <2>2 DEF Expire
  <2>4. code' \in [Key -> CodeRow]
    BY <2>3, CodeTypes
  <2> QED
    BY <1>3, <2>4 DEF Expire, TypeOK, sessionVars
<1>4. ASSUME NEW s \in AuthState, Authorize(s) \/ ForgetState(s)
      PROVE  TypeOK'
  <2>1. authState' \in [AuthState -> {"unknown", "stored", "gone"}]
    BY <1>4 DEF Authorize, ForgetState, TypeOK
  <2> QED
    BY <1>4, <2>1 DEF Authorize, ForgetState, TypeOK, codeVars
<1>5. ASSUME NEW t \in Token, ForgetSession(t)
      PROVE  TypeOK'
  BY <1>5 DEF ForgetSession, TypeOK, codeVars
<1>6. CASE UNCHANGED vars
  BY <1>6 DEF TypeOK, vars, codeVars, sessionVars
<1> QED
  BY <1>1, <1>2, <1>3, <1>4, <1>5, <1>6, NextSteps

--------------------------------------------------------------------------------
(***************************************************************************)
(* Theorems.                                                               *)
(***************************************************************************)

LEMMA TypeInit == Init => TypeOK
<1> SUFFICES ASSUME Init PROVE TypeOK
  OBVIOUS
<1>1. Idle \in Task
  BY DEF Task
<1>2. task \in [Handler -> Task]
  BY <1>1 DEF Init
<1>3. account \in [Email -> {"none", "seeded", "code", "google"}]
  BY DEF Init
<1>4. code \in [Key -> CodeRow]
  <2>1. PICK row \in CodeRow : row = [number |-> NoCode, fresh |-> FALSE]
    BY DEF CodeRow
  <2> QED
    BY <2>1 DEF Init
<1>5. issued \in [Key -> 0..MaxCodes] /\ uses \in [Key -> Seq([typed : Code, deleted : Code])]
  BY BoundAssumption DEF Init
<1>6. /\ device \in Seq(BOOLEAN) /\ Len(device) <= MaxDevices
      /\ token \in Seq(TokenRow) /\ Len(token) <= MaxTokens
      /\ book \in Seq(AddressRow) /\ Len(book) <= MaxAddresses
  BY BoundAssumption DEF Init
<1>7. /\ stored \subseteq Token /\ handed \in [Token -> Nat]
      /\ authState \in [AuthState -> {"unknown", "stored", "gone"}]
      /\ passed \in [AuthState -> Nat] /\ broken \subseteq Device /\ contended = {}
  BY DEF Init
<1> QED
  BY <1>2, <1>3, <1>4, <1>5, <1>6, <1>7 DEF TypeOK

LEMMA IndInit == Init => IInv
<1> SUFFICES ASSUME Init PROVE IInv
  OBVIOUS
<1>1. \A h \in Handler : task[h] = Idle /\ task[h].op = "idle"
  BY DEF Init, Idle
<1>2. OverlapInv
  BY <1>1, SubjectFacts DEF OverlapInv
<1>3. CodeInv
  <2>1. \A k \in Key : uses[k] = <<>> /\ code[k].number = NoCode /\ issued[k] = 0
    BY DEF Init
  <2>2. \A e \in Email : account[e] # "code" /\ <<e, "REGISTER">> \in Key
    BY DEF Init, Key, Purpose
  <2>3. \A k \in Key : Len(uses[k]) = 0 /\ DOMAIN uses[k] = {}
    BY <2>1
  <2>4. \A k \in Key : CodesSpentOnce(k)
    <3> SUFFICES ASSUME NEW k \in Key PROVE CodesSpentOnce(k)
      OBVIOUS
    <3>1. Len(uses[k]) = 0 /\ issued[k] = 0
      BY <2>1, <2>3
    <3>2. (IF code[k].number = NoCode THEN 0 ELSE 1) = 0
      BY <2>1
    <3>3. Len(uses[k]) + (IF code[k].number = NoCode THEN 0 ELSE 1) <= issued[k]
      BY <3>1, <3>2
    <3> QED
      BY <3>3 DEF CodesSpentOnce
  <2>5. \A k \in Key : DeletesWhatWasTyped(k)
    BY <2>3 DEF DeletesWhatWasTyped
  <2>6. \A e \in Email : AccountCostsCode(e)
    BY <2>2, <2>3 DEF AccountCostsCode
  <2>7. CodesAccounted
    BY <2>4, <2>5, <2>6 DEF CodesAccounted
  <2> QED
    BY <1>1, <2>7 DEF CodeInv, CodeTask
<1>4. AuthInv
  BY <1>1 DEF Init, AuthInv, AuthTask
<1>5. SessionInv
  BY <1>1 DEF Init, SessionInv, SessionTask
<1>6. DeviceInv
  <2>1. device = <<>> /\ token = <<>>
    BY DEF Init
  <2> QED
    BY <1>1, <2>1 DEF DeviceInv, DeviceTask, DeviceFollowsToken
<1>7. BookInv
  <2>1. book = <<>>
    BY DEF Init
  <2>2. \A u : Active(u) = {}
    BY <2>1 DEF Active
  <2> QED
    BY <1>1, <2>2 DEF BookInv, BookTask
<1> QED
  BY <1>2, <1>3, <1>4, <1>5, <1>6, <1>7, TypeInit DEF IInv

\* Types, overlaps and what requests hold of codes, states, sessions, devices and address
\* books, in every state.
THEOREM Invariant == Spec => []IInv
<1>1. IInv /\ [Next]_vars => IInv'
  BY TypeStep, OverlapStep, CodeStep, AuthStep, SessionStep, DeviceStep, BookStep DEF IInv
<1> QED
  BY <1>1, IndInit, PTL DEF Spec

\* Every variable keeps its type, for any people, states and requests in flight.
THEOREM TypeCorrect == Spec => []TypeOK
<1>1. IInv => TypeOK
  BY DEF IInv
<1> QED
  BY <1>1, Invariant, PTL

\* Codes, accounts and what was done with codes add up, however many registrations, resets
\* and logins interleave.
THEOREM CodesAccountedSafe == Spec => []CodesAccounted
<1>1. IInv => CodesAccounted
  BY DEF IInv, CodeInv
<1> QED
  BY <1>1, Invariant, PTL

\* What was answered and which devices are active follow from the tokens that were issued.
THEOREM LoginsAccountedSafe == Spec => []LoginsAccounted
<1>1. IInv => LoginsAccounted
  BY DEF IInv, AuthInv, SessionInv, DeviceInv, LoginsAccounted, AnsweredOnce, StateFree,
     SessionFree
<1> QED
  BY <1>1, Invariant, PTL

\* A person has at most one default address, unless two requests on the book overlapped.
THEOREM OneDefaultSafe == Spec => []OneDefault
<1>1. IInv => OneDefault
  <2> SUFFICES ASSUME IInv, NEW u \in Email, BookFree(u)
               PROVE  Cardinality({a \in Active(u) : book[a].isDefault}) <= 1
    BY DEF OneDefault, BookFree
  <2>1. \A a, b \in Active(u) : book[a].isDefault /\ book[b].isDefault => a = b
    BY DEF IInv, BookInv
  <2> DEFINE D == {a \in Active(u) : book[a].isDefault}
  <2>2. CASE D = {}
    BY <2>2, FS_EmptySet
  <2>3. ASSUME NEW a \in D
        PROVE  Cardinality(D) <= 1
    <3>1. D = {a}
      BY <2>1, <2>3
    <3>2. Cardinality({a}) = 1
      BY FS_Singleton
    <3> HIDE DEF D
    <3> QED
      BY <3>1, <3>2
  <2> QED
    BY <2>2, <2>3
<1> QED
  BY <1>1, Invariant, PTL

\* A token that is issued for a device is, to the chain, its first or an exchange.
LEMMA ChainIssue ==
  ASSUME TypeOK, NEW d \in Device, NEW n, n = Len(token) + 1, n <= MaxTokens,
         Len(token') = n, DOMAIN token' = DOMAIN token \cup {n}, n \notin DOMAIN token,
         token'[n].device = d, token'[n].live,
         \A i \in DOMAIN token :
           /\ token'[i].device = token[i].device
           /\ token'[i].live <=> token[i].live /\ token[i].device # d,
         LiveTokens(d) # {} \/ \A i \in DOMAIN token : token[i].device # d
  PROVE  Chain!Next
<1> DEFINE standing == [e \in Device |-> LiveTokens(e)]
<1>1. LiveTokens(d)' = {n} /\ \A e \in Device : e # d => LiveTokens(e)' = LiveTokens(e)
  BY DEF LiveTokens
<1>2. standing' = [standing EXCEPT ![d] = {n}]
  BY <1>1
<1>3. EndedDevices' = EndedDevices
  <2>1. d \notin EndedDevices /\ d \notin EndedDevices'
    BY <1>1 DEF EndedDevices
  <2>2. \A e \in Device : e # d => (e \in EndedDevices' <=> e \in EndedDevices)
    <3> SUFFICES ASSUME NEW e \in Device, e # d
                 PROVE  e \in EndedDevices' <=> e \in EndedDevices
      OBVIOUS
    <3>1. (\E t \in DOMAIN token' : token'[t].device = e)
            <=> \E t \in DOMAIN token : token[t].device = e
      OBVIOUS
    <3> QED
      BY <1>1, <3>1 DEF EndedDevices
  <2>3. EndedDevices \subseteq Device /\ EndedDevices' \subseteq Device
    BY DEF EndedDevices
  <2>4. PICK A, B : A = EndedDevices /\ B = EndedDevices'
    OBVIOUS
  <2>5. A = B
    BY <2>1, <2>2, <2>3, <2>4
  <2> QED
    BY <2>4, <2>5
<1>4. Len(token) < MaxTokens /\ Len(token') = Len(token) + 1
  BY RowTypes, BoundAssumption
<1>5. Chain!Issue(d)
  BY <1>2, <1>3, <1>4 DEF Chain!Issue
<1>6. d \notin EndedDevices \/ LiveTokens(d) # {}
  BY DEF EndedDevices
<1>7. CASE LiveTokens(d) # {}
  <2>1. Chain!Exchange(d)
    BY <1>5, <1>7 DEF Chain!Exchange
  <2> QED
    BY <2>1 DEF Chain!Next
<1>8. CASE LiveTokens(d) = {}
  <2>1. d \notin EndedDevices
    BY <1>8 DEF EndedDevices
  <2>2. Chain!Open(d)
    BY <1>5, <1>8, <2>1 DEF Chain!Open
  <2> QED
    BY <2>2 DEF Chain!Next
<1> QED
  BY <1>7, <1>8

\* ChainSpec: at most one token stands for a device, an exchange takes it for a new one, and
\* a device that gave up its token gets no other, whatever requests overlap.
THEOREM Refinement == Spec => ChainSpec
<1> DEFINE standing == [d \in Device |-> LiveTokens(d)]
<1>1. Init => Chain!Init
  <2> SUFFICES ASSUME Init PROVE Chain!Init
    OBVIOUS
  <2>1. token = <<>> /\ Len(token) = 0 /\ DOMAIN token = {}
    BY DEF Init
  <2>2. \A d : LiveTokens(d) = {}
    BY <2>1 DEF LiveTokens
  <2>3. EndedDevices = {}
    BY <2>1 DEF EndedDevices
  <2> QED
    BY <2>1, <2>2, <2>3 DEF Chain!Init
<1>2. ASSUME UNCHANGED token
      PROVE  UNCHANGED Chain!vars
  <2>1. token' = token
    BY <1>2
  <2>2. Len(token') = Len(token) /\ \A d : LiveTokens(d)' = LiveTokens(d)
    BY <2>1 DEF LiveTokens
  <2>3. EndedDevices' = EndedDevices
    BY <2>1, <2>2 DEF EndedDevices
  <2>4. standing' = standing
    BY <2>2
  <2> QED
    BY <2>2, <2>3, <2>4 DEF Chain!vars
<1>3. ASSUME IInv, NEW h \in Handler, TokenWrite(h)
      PROVE  Chain!Next
  <2>1. PICK n : n = Len(token) + 1
    OBVIOUS
  <2>2. /\ TypeOK /\ task[h].op = "token" /\ task[h] \in Task
        /\ n <= MaxTokens /\ Len(token') = n
        /\ DOMAIN token' = DOMAIN token \cup {n} /\ n \notin DOMAIN token
        /\ token'[n].device = task[h].device /\ token'[n].live = TRUE
        /\ \A i \in DOMAIN token : token'[i] = token[i]
    BY <1>3, <2>1, TokenFacts DEF IInv, TypeOK
  <2>3. PICK d \in Device : d = task[h].device
    BY <2>2, TaskShape
  <2>4. \A i \in DOMAIN token : token[i].device # d
    BY <1>3, <2>2, <2>3 DEF IInv, DeviceInv, DeviceTask
  <2>5. \A i \in DOMAIN token :
          /\ token'[i].device = token[i].device
          /\ token'[i].live <=> token[i].live /\ token[i].device # d
    BY <2>2, <2>4
  <2> QED
    BY <2>1, <2>2, <2>3, <2>4, <2>5, ChainIssue
<1>4. ASSUME IInv, NEW h \in Handler, RefreshWrite(h), ~ UNCHANGED token
      PROVE  Chain!Next
  <2>1. PICK n, t : n = Len(token) + 1 /\ t = task[h].token
    OBVIOUS
  <2>2. /\ TypeOK /\ task[h].op = "refresh" /\ task[h] \in Task
        /\ n <= MaxTokens /\ Len(token') = n
        /\ DOMAIN token' = DOMAIN token \cup {n} /\ n \notin DOMAIN token
        /\ token'[n].device = task[h].device /\ token'[n].live = TRUE
        /\ t \in DOMAIN token /\ token[t].live
        /\ \A i \in DOMAIN token :
             token'[i].device = token[i].device /\ (token'[i].live <=> token[i].live /\ i # t)
    BY <1>4, <2>1, RefreshFacts DEF IInv, TypeOK
  <2>3. PICK d \in Device : d = task[h].device
    BY <2>2, TaskShape
  <2>4. token[t].device = d /\ LiveTokens(d) # {}
    BY <1>4, <2>1, <2>2, <2>3 DEF IInv, DeviceInv, DeviceTask, LiveTokens
  <2>5. ASSUME NEW i \in DOMAIN token
        PROVE  /\ token'[i].device = token[i].device
               /\ token'[i].live <=> token[i].live /\ token[i].device # d
    <3>1. token[i].live /\ token[i].device = d => i = t
      BY <1>4, <2>2, <2>4 DEF IInv, DeviceInv
    <3> QED
      BY <2>2, <2>4, <3>1
  <2> QED
    BY <2>1, <2>2, <2>3, <2>4, <2>5, ChainIssue
<1>5. ASSUME IInv, NEW h \in Handler, LogoutDelete(h), ~ UNCHANGED token
      PROVE  Chain!Next
  <2>1. PICK t : t = task[h].token
    OBVIOUS
  <2>2. /\ TypeOK /\ task[h].op = "logout" /\ task[h] \in Task
        /\ t \in DOMAIN token /\ token[t].live
        /\ Len(token') = Len(token) /\ DOMAIN token' = DOMAIN token
        /\ \A i \in DOMAIN token :
             token'[i].device = token[i].device /\ (token'[i].live <=> token[i].live /\ i # t)
    BY <1>5, <2>1, LogoutFacts DEF IInv, TypeOK
  <2>3. PICK d \in Device : d = task[h].device
    BY <2>2, TaskShape
  <2>4. token[t].device = d /\ LiveTokens(d) # {}
    BY <1>5, <2>1, <2>2, <2>3 DEF IInv, DeviceInv, DeviceTask, LiveTokens
  <2>5. LiveTokens(d)' = {}
    <3>1. \A i \in DOMAIN token : token[i].live /\ token[i].device = d => i = t
      BY <1>5, <2>2, <2>4 DEF IInv, DeviceInv
    <3> QED
      BY <2>2, <3>1 DEF LiveTokens
  <2>6. \A e \in Device : e # d => LiveTokens(e)' = LiveTokens(e)
    BY <2>2, <2>4 DEF LiveTokens
  <2>7. standing' = [standing EXCEPT ![d] = {}]
    BY <2>5, <2>6
  <2>8. EndedDevices' = EndedDevices \cup {d}
    <3>1. d \in EndedDevices'
      BY <2>2, <2>4, <2>5 DEF EndedDevices
    <3>2. \A e \in Device : e # d => (e \in EndedDevices' <=> e \in EndedDevices)
      BY <2>2, <2>6 DEF EndedDevices
    <3>3. EndedDevices \subseteq Device /\ EndedDevices' \subseteq Device
      BY DEF EndedDevices
    <3> QED
      BY <3>1, <3>2, <3>3
  <2>9. Chain!End(d)
    BY <2>2, <2>4, <2>7, <2>8 DEF Chain!End
  <2> QED
    BY <2>9 DEF Chain!Next
<1>6. ASSUME IInv, [Next]_vars
      PROVE  [Chain!Next]_Chain!vars
  <2>1. ASSUME NEW h \in Handler, GoesOn(h)
        PROVE  [Chain!Next]_Chain!vars
    BY <1>2, <1>3, <1>4, <1>5, <1>6, <2>1, Writing
  <2>2. ASSUME NEW h \in Handler, BeginStep(h)
        PROVE  UNCHANGED token
    BY <2>2 DEF BeginStep, TablesStay, sessionVars
  <2>3. \/ UNCHANGED token
        \/ \E h \in Handler : BeginStep(h) \/ GoesOn(h)
    BY <1>6, NextSteps
       DEF IInv, vars, sessionVars, Expire, Authorize, ForgetState, ForgetSession
  <2> QED
    BY <1>2, <2>1, <2>2, <2>3
<1> QED
  BY <1>1, <1>6, Invariant, PTL DEF Spec, ChainSpec, Chain!Spec
================================================================================
