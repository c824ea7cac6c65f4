------------------------------- MODULE Accounts -------------------------------
(***************************************************************************)
(* What a person keeps with the platform: the account, which a code sent   *)
(* to the email address opens and recovers; the logins of devices, by      *)
(* password or through Google, each a chain of refresh tokens; and the     *)
(* address book with its default entry.                                    *)
(*                                                                         *)
(* A person is known by the email address.  Passwords, names and access    *)
(* tokens are left out: a password that does not match is a request that   *)
(* ends where it began.  Nothing in the source sets a totpSecret, so no    *)
(* login asks for a code.  Google is external: it says whose the code of a *)
(* callback is, or refuses it.  The cache drops its entries when their     *)
(* time is over, at any moment here.                                       *)
(*                                                                         *)
(* A transaction that decides from its own reads is two steps: what it     *)
(* reads, and what it commits.                                             *)
(***************************************************************************)
EXTENDS Integers, Sequences, FiniteSets, FiniteSetsExt

CONSTANTS
  Handler,     \* requests in flight at a time
  Email,
  AuthState,   \* the state tokens of authorization URLs
  MaxCodes,    \* bound on the codes sent to an address for one purpose
  MaxDevices, MaxTokens,  \* bounds on the logins and on the refresh tokens
  MaxAddresses \* bound on the rows of address_books

ASSUME BoundAssumption ==
  MaxCodes \in Nat /\ MaxDevices \in Nat /\ MaxTokens \in Nat /\ MaxAddresses \in Nat

VARIABLES
  account,   \* per email: how its user came to be, "none" if there is none
  code,      \* per email and purpose: its row of VerificationCode
  issued,    \* per email and purpose: how many codes were made
  uses,      \* history, per email and purpose: the code typed and the code deleted
  device,    \* the rows of Device: isActive
  token,     \* the refresh tokens ever issued; its row is there while it is live
  stored,    \* tokens kept in the cache under a Google session token
  handed,    \* per token: how many answers carried it
  authState, \* per state token: its entry in the cache
  passed,    \* per state token: how many callbacks it let through
  book,      \* the rows of address_books
  task,      \* per handler: what its request holds between two awaits
  contended, \* history: subjects whose requests overlapped
  broken     \* history: devices whose login or logout broke off

codeVars == <<code, issued, uses>>
sessionVars == <<device, token, stored, handed, authState, passed, broken>>
vars == <<account, codeVars, sessionVars, book, task, contended>>

Purpose == {"REGISTER", "FORGOT_PASSWORD"}
Key == Email \X Purpose
Code == 1..MaxCodes
NoCode == 0
Device == 1..MaxDevices
Token == 1..MaxTokens
Address == 1..MaxAddresses
Wish == {"unset", "yes", "no"}  \* the isDefault of a request body

CodeRow == [number : Code \cup {NoCode}, fresh : BOOLEAN]
TokenRow == [device : Device, live : BOOLEAN]
AddressRow == [user : Email, active : BOOLEAN, isDefault : BOOLEAN]

Idle == [op |-> "idle"]
Task ==
  {Idle}
    \cup [op : {"send"}, key : Key]
    \cup [op : {"register", "reset"}, key : Key, typed : Code]
    \cup [op : {"callback"}, state : AuthState]
    \cup [op : {"google"}]
    \cup [op : {"createUser"}, email : Email]
    \cup [op : {"device"}, google : BOOLEAN]
    \cup [op : {"token"}, device : Device, google : BOOLEAN]
    \cup [op : {"store", "redeem"}, token : Token]
    \cup [op : {"refresh", "logout"}, token : Token, device : Device]
    \cup [op : {"deactivate"}, device : Device]
    \cup [op : {"add"}, user : Email, isDefault : BOOLEAN]
    \cup [op : {"addCommit"}, user : Email, isDefault : BOOLEAN, clear : SUBSET Address]
    \cup [op : {"update"}, user : Email, address : Address, wish : Wish]
    \cup [op : {"updateCommit"}, user : Email, address : Address, wish : Wish,
          clear : SUBSET Address]
    \cup [op : {"remove"}, user : Email, address : Address, isDefault : BOOLEAN]
    \cup [op : {"removeCommit"}, user : Email, address : Address,
          fallback : SUBSET Address]

TypeOK ==
  /\ account \in [Email -> {"none", "seeded", "code", "google"}]
  /\ code \in [Key -> CodeRow]
  /\ issued \in [Key -> 0..MaxCodes]
  /\ uses \in [Key -> Seq([typed : Code, deleted : Code])]
  /\ device \in Seq(BOOLEAN) /\ Len(device) <= MaxDevices
  /\ token \in Seq(TokenRow) /\ Len(token) <= MaxTokens
  /\ stored \subseteq Token
  /\ handed \in [Token -> Nat]
  /\ authState \in [AuthState -> {"unknown", "stored", "gone"}]
  /\ passed \in [AuthState -> Nat]
  /\ book \in Seq(AddressRow)
  /\ Len(book) <= MaxAddresses
  /\ task \in [Handler -> Task]
  /\ contended \subseteq UNION {{"code"} \X Key, {"device"} \X Device,
                                {"state"} \X AuthState, {"session"} \X Token,
                                {"book"} \X Email}
  /\ broken \subseteq Device

Init ==
  /\ account \in [Email -> {"none", "seeded"}]
  /\ code = [k \in Key |-> [number |-> NoCode, fresh |-> FALSE]]
  /\ issued = [k \in Key |-> 0]
  /\ uses = [k \in Key |-> <<>>]
  /\ device = <<>>
  /\ token = <<>>
  /\ stored = {}
  /\ handed = [t \in Token |-> 0]
  /\ authState = [s \in AuthState |-> "unknown"]
  /\ passed = [s \in AuthState |-> 0]
  /\ book = <<>>
  /\ task = [h \in Handler |-> Idle]
  /\ contended = {}
  /\ broken = {}

\* What the requests in flight are about.
Subject(r) ==
  CASE r.op \in {"send", "register", "reset"} -> {<<"code", r.key>>}
    [] r.op \in {"token", "refresh", "logout", "deactivate"} -> {<<"device", r.device>>}
    [] r.op = "callback" -> {<<"state", r.state>>}
    [] r.op = "redeem" -> {<<"session", r.token>>}
    [] r.op \in {"add", "addCommit", "update", "updateCommit", "remove",
                 "removeCommit"} -> {<<"book", r.user>>}
    [] OTHER -> {}

\* A request arrives and has read what it decides on; it holds r until it goes on.
Begin(h, r) ==
  /\ task[h] = Idle
  /\ task' = [task EXCEPT ![h] = r]
  /\ contended' = contended \cup (Subject(r) \cap UNION {Subject(task[g]) : g \in Handler})

Continue(h, r) == task' = [task EXCEPT ![h] = r] /\ UNCHANGED contended
Op(h, op) == task[h].op = op

\* The user of an address; nothing in the source deletes one.
HasUser(e) == account[e] # "none"

--------------------------------------------------------------------------------
(***************************************************************************)
(* Codes.                                                                  *)
(***************************************************************************)

\* sendOTP up to its decision: a known address cannot register, and an unknown one
\* is told that a code was sent.
SendBegin(h, k) ==
  /\ (k[2] = "REGISTER") <=> ~HasUser(k[1])
  /\ Begin(h, [op |-> "send", key |-> k])
  /\ UNCHANGED <<account, codeVars, sessionVars, book>>

\* createVerificationCode: one row for an address and a purpose, written over.
SendWrite(h) ==
  /\ Op(h, "send")
  /\ LET k == task[h].key
     IN /\ issued[k] < MaxCodes
        /\ issued' = [issued EXCEPT ![k] = @ + 1]
        /\ code' = [code EXCEPT ![k] = [number |-> issued[k] + 1, fresh |-> TRUE]]
  /\ Continue(h, Idle)
  /\ UNCHANGED <<account, uses, sessionVars, book>>

\* The clock passes expiresAt.
Expire(k) ==
  /\ code[k].fresh
  /\ code' = [code EXCEPT ![k].fresh = FALSE]
  /\ UNCHANGED <<account, issued, uses, sessionVars, book, task, contended>>

\* validateVerificationCode: the row of the address and the purpose, if it has the
\* code that was typed.
ValidAny(k, typed) == code[k].fresh  \* mutant
Valid(k, typed) == code[k].number = typed /\ code[k].fresh

\* verificationCode.delete by address and purpose, which fails when there is no row.
DeletableAny(k) == TRUE  \* mutant
Deletable(k) == code[k].number # NoCode

KeepCode(k, typed) ==  \* mutant
  /\ uses' = [uses EXCEPT ![k] = Append(@, [typed |-> typed, deleted |-> code[k].number])]
  /\ UNCHANGED code

Spend(k, typed) ==
  /\ uses' = [uses EXCEPT ![k] = Append(@, [typed |-> typed, deleted |-> code[k].number])]
  /\ code' = [code EXCEPT ![k] = [number |-> NoCode, fresh |-> FALSE]]

\* register: the role and the hash of the password take their time in between.
RegisterBegin(h, e, typed) ==
  /\ Valid(<<e, "REGISTER">>, typed)
  /\ Begin(h, [op |-> "register", key |-> <<e, "REGISTER">>, typed |-> typed])
  /\ UNCHANGED <<account, codeVars, sessionVars, book>>

\* The transaction of register: one user for an address, and the code is deleted with it.
CommitsAlone(e) == Deletable(<<e, "REGISTER">>)  \* mutant
RegisterCommits(e) == ~HasUser(e) /\ Deletable(<<e, "REGISTER">>)

RegisterWrite(h) ==
  /\ Op(h, "register")
  /\ LET k == task[h].key
     IN \/ /\ RegisterCommits(k[1])
           /\ account' = [account EXCEPT ![k[1]] = "code"]
           /\ Spend(k, task[h].typed)
        \/ /\ ~RegisterCommits(k[1])
           /\ UNCHANGED <<account, code, uses>>
  /\ Continue(h, Idle)
  /\ UNCHANGED <<issued, sessionVars, book>>

\* forgotPassword, up to the hash of the new password.
ResetBegin(h, e, typed) ==
  /\ HasUser(e)
  /\ Valid(<<e, "FORGOT_PASSWORD">>, typed)
  /\ Begin(h, [op |-> "reset", key |-> <<e, "FORGOT_PASSWORD">>, typed |-> typed])
  /\ UNCHANGED <<account, codeVars, sessionVars, book>>

\* Its transaction: the password is written and the row of the code deleted, or neither.
ResetWrite(h) ==
  /\ Op(h, "reset")
  /\ LET k == task[h].key
     IN \/ /\ Deletable(k)
           /\ Spend(k, task[h].typed)
        \/ /\ ~Deletable(k)
           /\ UNCHANGED <<code, uses>>
  /\ Continue(h, Idle)
  /\ UNCHANGED <<account, issued, sessionVars, book>>

--------------------------------------------------------------------------------
(***************************************************************************)
(* Logins.                                                                 *)
(***************************************************************************)

\* login, once the password matches: a device is made, then its refresh token.
LoginBegin(h, e) ==
  /\ HasUser(e)
  /\ Begin(h, [op |-> "device", google |-> FALSE])
  /\ UNCHANGED <<account, codeVars, sessionVars, book>>

\* createDevice.
DeviceWrite(h) ==
  /\ Op(h, "device")
  /\ Len(device) < MaxDevices
  /\ device' = Append(device, TRUE)
  /\ Continue(h, [op |-> "token", device |-> Len(device) + 1,
                  google |-> task[h].google])
  /\ UNCHANGED <<account, codeVars, token, stored, handed, authState, passed, broken,
                 book>>

\* A row of RefreshToken, whose number is its place.
Issue(d, tokens) == Append(tokens, [device |-> d, live |-> TRUE])
Hand(t) == handed' = [handed EXCEPT ![t] = @ + 1]

\* generateTokens: what login answers, and what a callback keeps for its session.
TokenWrite(h) ==
  /\ Op(h, "token")
  /\ Len(token) < MaxTokens
  /\ LET t == Len(token) + 1
     IN /\ token' = Issue(task[h].device, token)
        /\ \/ /\ task[h].google
              /\ Continue(h, [op |-> "store", token |-> t])
              /\ UNCHANGED handed
           \/ /\ ~task[h].google
              /\ Continue(h, Idle)
              /\ Hand(t)
  /\ UNCHANGED <<account, codeVars, device, stored, authState, passed, broken, book>>

\* getAuthorizationUrl.
Authorize(s) ==
  /\ authState[s] = "unknown"
  /\ authState' = [authState EXCEPT ![s] = "stored"]
  /\ UNCHANGED <<account, codeVars, device, token, stored, handed, passed, broken, book,
                 task, contended>>

\* googleCallback: the state is read, and deleted in a call of its own.
CallbackBegin(h, s) ==
  /\ authState[s] = "stored"
  /\ Begin(h, [op |-> "callback", state |-> s])
  /\ UNCHANGED <<account, codeVars, sessionVars, book>>

DropState(s) == authState' = [authState EXCEPT ![s] = "gone"]

CallbackPass(h) ==
  /\ Op(h, "callback")
  /\ DropState(task[h].state)
  /\ passed' = [passed EXCEPT ![task[h].state] = @ + 1]
  /\ Continue(h, [op |-> "google"])
  /\ UNCHANGED <<account, codeVars, device, token, stored, handed, broken, book>>

\* Google names the person, who may have no account yet.
GoogleAnswer(h, e) ==
  /\ Op(h, "google")
  /\ Continue(h, IF HasUser(e) THEN [op |-> "device", google |-> TRUE]
                 ELSE [op |-> "createUser", email |-> e])
  /\ UNCHANGED <<account, codeVars, sessionVars, book>>

\* createUserIncludeRole: refused when the address got its user in between.
GoogleUser(h) ==
  /\ Op(h, "createUser")
  /\ LET e == task[h].email
     IN \/ /\ ~HasUser(e)
           /\ account' = [account EXCEPT ![e] = "google"]
           /\ Continue(h, [op |-> "device", google |-> TRUE])
        \/ /\ HasUser(e)
           /\ Continue(h, Idle)
           /\ UNCHANGED account
  /\ UNCHANGED <<codeVars, sessionVars, book>>

\* The answer of the callback names a session under which the tokens wait in the cache.
SessionStore(h) ==
  /\ Op(h, "store")
  /\ stored' = stored \cup {task[h].token}
  /\ Continue(h, Idle)
  /\ UNCHANGED <<account, codeVars, device, token, handed, authState, passed, broken,
                 book>>

\* redeemGoogleSession: the tokens are read, and their entry deleted in a call of its own.
RedeemBegin(h, t) ==
  /\ t \in stored
  /\ Begin(h, [op |-> "redeem", token |-> t])
  /\ UNCHANGED <<account, codeVars, sessionVars, book>>

KeepSession(t) == UNCHANGED stored  \* mutant
DropSession(t) == stored' = stored \ {t}

RedeemAnswer(h) ==
  /\ Op(h, "redeem")
  /\ DropSession(task[h].token)
  /\ Hand(task[h].token)
  /\ Continue(h, Idle)
  /\ UNCHANGED <<account, codeVars, device, token, authState, passed, broken, book>>

\* The cache drops an entry whose time is over.
ForgetState(s) ==
  /\ authState[s] = "stored"
  /\ authState' = [authState EXCEPT ![s] = "gone"]
  /\ UNCHANGED <<account, codeVars, device, token, stored, handed, passed, broken, book,
                 task, contended>>

ForgetSession(t) ==
  /\ t \in stored
  /\ stored' = stored \ {t}
  /\ UNCHANGED <<account, codeVars, device, token, handed, authState, passed, broken, book,
                 task, contended>>

\* refreshToken: the row of a token somebody was given is found.
Live(t) == t \in DOMAIN token /\ token[t].live
RefreshBegin(h, t) ==
  /\ Live(t) /\ handed[t] > 0
  /\ Begin(h, [op |-> "refresh", token |-> t, device |-> token[t].device])
  /\ UNCHANGED <<account, codeVars, sessionVars, book>>

\* Its transaction: the delete fails when another request has taken the row.
ExchangesFound(t) == TRUE  \* mutant
Exchanges(t) == Live(t)

RefreshWrite(h) ==
  /\ Op(h, "refresh")
  /\ Len(token) < MaxTokens
  /\ LET t == task[h].token
     IN \/ /\ Exchanges(t)
           /\ token' = Issue(task[h].device, [token EXCEPT ![t].live = FALSE])
           /\ Hand(Len(token) + 1)
        \/ /\ ~Exchanges(t)
           /\ UNCHANGED <<token, handed>>
  /\ Continue(h, Idle)
  /\ UNCHANGED <<account, codeVars, device, stored, authState, passed, broken, book>>

\* logout: find the row, delete it, and only then mark its device.
LogoutBegin(h, t) ==
  /\ Live(t) /\ handed[t] > 0
  /\ Begin(h, [op |-> "logout", token |-> t, device |-> token[t].device])
  /\ UNCHANGED <<account, codeVars, sessionVars, book>>

Ignored(t) == FALSE  \* mutant
Missing(t) == ~Live(t)

LogoutDelete(h) ==
  /\ Op(h, "logout")
  /\ LET t == task[h].token
     IN \/ /\ Missing(t)
           /\ Continue(h, Idle)
           /\ UNCHANGED token
        \/ /\ ~Missing(t)
           /\ token' = [token EXCEPT ![t].live = FALSE]
           /\ Continue(h, [op |-> "deactivate", device |-> task[h].device])
  /\ UNCHANGED <<account, codeVars, device, stored, handed, authState, passed, broken,
                 book>>

LogoutDevice(h) ==
  /\ Op(h, "deactivate")
  /\ device' = [device EXCEPT ![task[h].device] = FALSE]
  /\ Continue(h, Idle)
  /\ UNCHANGED <<account, codeVars, token, stored, handed, authState, passed, broken, book>>

--------------------------------------------------------------------------------
(***************************************************************************)
(* Address books.                                                          *)
(***************************************************************************)

Active(u) == {a \in DOMAIN book : book[a].user = u /\ book[a].active}

\* clearDefaultAddressBooks writes the rows it found, whatever came since.
Cleared(clear) ==
  [a \in DOMAIN book |-> IF a \in clear THEN [book[a] EXCEPT !.isDefault = FALSE]
                         ELSE book[a]]

\* createAddressBook: the first entry is the default unless the body says otherwise.
AddBegin(h, u, wish) ==
  /\ HasUser(u)
  /\ Begin(h, [op |-> "add", user |-> u,
               isDefault |-> wish = "yes" \/ (wish = "unset" /\ Active(u) = {})])
  /\ UNCHANGED <<account, codeVars, sessionVars, book>>

ClearNone(u, isDefault, kept) == {}  \* mutant
ToClear(u, isDefault, kept) == IF isDefault THEN Active(u) \ kept ELSE {}

AddClear(h) ==
  /\ Op(h, "add")
  /\ LET u == task[h].user
         isDefault == task[h].isDefault
     IN Continue(h, [op |-> "addCommit", user |-> u, isDefault |-> isDefault,
                     clear |-> ToClear(u, isDefault, {})])
  /\ UNCHANGED <<account, codeVars, sessionVars, book>>

AddCommit(h) ==
  /\ Op(h, "addCommit")
  /\ Len(book) < MaxAddresses
  /\ book' = Append(Cleared(task[h].clear),
                    [user |-> task[h].user, active |-> TRUE,
                     isDefault |-> task[h].isDefault])
  /\ Continue(h, Idle)
  /\ UNCHANGED <<account, codeVars, sessionVars>>

\* updateAddressBook.
UpdateBegin(h, a, wish) ==
  /\ a \in DOMAIN book /\ book[a].active
  /\ Begin(h, [op |-> "update", user |-> book[a].user, address |-> a, wish |-> wish])
  /\ UNCHANGED <<account, codeVars, sessionVars, book>>

UpdateClear(h) ==
  /\ Op(h, "update")
  /\ LET r == task[h]
     IN Continue(h, [op |-> "updateCommit", user |-> r.user, address |-> r.address,
                     wish |-> r.wish,
                     clear |-> ToClear(r.user, r.wish = "yes", {r.address})])
  /\ UNCHANGED <<account, codeVars, sessionVars, book>>

UpdateCommit(h) ==
  /\ Op(h, "updateCommit")
  /\ LET r == task[h]
     IN book' = [Cleared(r.clear) EXCEPT ![r.address].isDefault =
                   IF r.wish = "unset" THEN @ ELSE r.wish = "yes"]
  /\ Continue(h, Idle)
  /\ UNCHANGED <<account, codeVars, sessionVars>>

\* deleteAddressBook: when the entry was the default as it was read, the first of
\* those that are left, a default one before the others, takes its place.
RemoveBegin(h, a) ==
  /\ a \in DOMAIN book /\ book[a].active
  /\ Begin(h, [op |-> "remove", user |-> book[a].user, address |-> a,
               isDefault |-> book[a].isDefault])
  /\ UNCHANGED <<account, codeVars, sessionVars, book>>

FallbackAlways(u, a, wasDefault) ==  \* mutant
  LET left == Active(u) \ {a} IN IF left = {} THEN {} ELSE {Min(left)}
Fallback(u, a, wasDefault) ==
  LET left == Active(u) \ {a}
      defaults == {b \in left : book[b].isDefault}
  IN IF ~wasDefault \/ left = {} THEN {}
     ELSE {Min(IF defaults = {} THEN left ELSE defaults)}

RemoveFallback(h) ==
  /\ Op(h, "remove")
  /\ LET r == task[h]
     IN Continue(h, [op |-> "removeCommit", user |-> r.user, address |-> r.address,
                     fallback |-> Fallback(r.user, r.address, r.isDefault)])
  /\ UNCHANGED <<account, codeVars, sessionVars, book>>

RemoveCommit(h) ==
  /\ Op(h, "removeCommit")
  /\ LET r == task[h]
     IN book' = [a \in DOMAIN book |->
                   IF a = r.address
                   THEN [book[a] EXCEPT !.active = FALSE, !.isDefault = FALSE]
                   ELSE IF a \in r.fallback THEN [book[a] EXCEPT !.isDefault = TRUE]
                   ELSE book[a]]
  /\ Continue(h, Idle)
  /\ UNCHANGED <<account, codeVars, sessionVars>>

--------------------------------------------------------------------------------
\* The process dies, what a request awaits throws, or its transaction is rolled back.
BreakOff(h) ==
  /\ task[h] # Idle
  /\ broken' = IF task[h].op \in {"token", "deactivate"}
               THEN broken \cup {task[h].device} ELSE broken
  /\ Continue(h, Idle)
  /\ UNCHANGED <<account, codeVars, device, token, stored, handed, authState, passed, book>>

Proceed(h) ==
  \/ SendWrite(h) \/ RegisterWrite(h) \/ ResetWrite(h)
  \/ DeviceWrite(h) \/ TokenWrite(h) \/ CallbackPass(h) \/ GoogleUser(h)
  \/ SessionStore(h) \/ RedeemAnswer(h) \/ RefreshWrite(h)
  \/ LogoutDelete(h) \/ LogoutDevice(h)
  \/ AddClear(h) \/ AddCommit(h) \/ UpdateClear(h) \/ UpdateCommit(h)
  \/ RemoveFallback(h) \/ RemoveCommit(h) \/ BreakOff(h)

Next ==
  \/ \E h \in Handler : Proceed(h)
  \/ \E h \in Handler, k \in Key : SendBegin(h, k)
  \/ \E k \in Key : Expire(k)
  \/ \E h \in Handler, e \in Email, typed \in Code :
       RegisterBegin(h, e, typed) \/ ResetBegin(h, e, typed)
  \/ \E h \in Handler, e \in Email : LoginBegin(h, e) \/ GoogleAnswer(h, e)
  \/ \E s \in AuthState : Authorize(s) \/ ForgetState(s)
  \/ \E h \in Handler, s \in AuthState : CallbackBegin(h, s)
  \/ \E t \in Token : ForgetSession(t)
  \/ \E h \in Handler, t \in Token :
       RedeemBegin(h, t) \/ RefreshBegin(h, t) \/ LogoutBegin(h, t)
  \/ \E h \in Handler, e \in Email, wish \in Wish : AddBegin(h, e, wish)
  \/ \E h \in Handler, a \in Address, wish \in Wish : UpdateBegin(h, a, wish)
  \/ \E h \in Handler, a \in Address : RemoveBegin(h, a)

Spec == Init /\ [][Next]_vars

--------------------------------------------------------------------------------
(***************************************************************************)
(* Properties.                                                             *)
(***************************************************************************)

\* What was done with codes never outnumbers the codes that were made, the row that is
\* left counted in: a request that finds no row to delete undoes what it wrote.
CodesSpentOnce(k) ==
  Len(uses[k]) + (IF code[k].number = NoCode THEN 0 ELSE 1) <= issued[k]

\* The code a request deletes is the one that was typed, unless another request of the
\* same address and purpose overlapped it: the row is found by code and deleted without.
DeletesWhatWasTyped(k) ==
  <<"code", k>> \notin contended =>
    \A n \in DOMAIN uses[k] : uses[k][n].deleted = uses[k][n].typed

\* A registration code is spent exactly when register opened the account: no code is
\* lost to a registration that another one, or Google, came before.
AccountCostsCode(e) ==
  Len(uses[<<e, "REGISTER">>]) = IF account[e] = "code" THEN 1 ELSE 0

\* However registrations, resets, Google logins and new codes of an address interleave,
\* codes, accounts and what was done with the codes add up.
CodesAccounted ==
  /\ \A k \in Key : CodesSpentOnce(k) /\ DeletesWhatWasTyped(k)
  /\ \A e \in Email : AccountCostsCode(e)

\* A state lets one callback through, and the tokens of a login are answered once,
\* unless two requests hold the same state or session: it is read before it is deleted.
AnsweredOnce ==
  /\ \A s \in AuthState : <<"state", s>> \notin contended => passed[s] <= 1
  /\ \A t \in Token : <<"session", t>> \notin contended => handed[t] <= 1

\* However logins, refreshes and logouts interleave, the tokens of a device are the
\* chain TokenChain describes.
LiveTokens(d) == {t \in DOMAIN token : token[t].device = d /\ token[t].live}
EndedDevices ==
  {d \in Device : LiveTokens(d) = {} /\ \E t \in DOMAIN token : token[t].device = d}

Chain == INSTANCE TokenChain WITH
  issued <- Len(token),
  standing <- [d \in Device |-> LiveTokens(d)],
  ended <- EndedDevices

ChainSpec == Chain!Spec

\* A device is marked active exactly while a refresh token stands for it, but for a
\* login or logout on its way and for one that broke off between its two writes.
DeviceFollowsToken ==
  \A d \in DOMAIN device :
    \/ d \in broken
    \/ \E h \in Handler :
         task[h].op \in {"token", "deactivate"} /\ task[h].device = d
    \/ device[d] <=> (LiveTokens(d) # {})

\* However Google callbacks, logins, refreshes and logouts interleave, what was answered and
\* which devices are active follow from the tokens that were issued.
LoginsAccounted == AnsweredOnce /\ DeviceFollowsToken

\* A person has at most one default address, unless two requests on the book overlapped:
\* a transaction clears the defaults it finds, not those another is about to write.
OneDefault ==
  \A u \in Email :
    <<"book", u>> \notin contended =>
      Cardinality({a \in Active(u) : book[a].isDefault}) <= 1
================================================================================
