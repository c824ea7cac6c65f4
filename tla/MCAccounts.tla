------------------------------ MODULE MCAccounts ------------------------------
EXTENDS Accounts, TLC

CONSTANTS e1, s1, h1, h2, h3

\* No handler of codes, logins or addresses writes what another kind of handler reads,
\* but for the account: an account is opened first, and then one of the three is used.
InUse(subjects) == \E h \in Handler : task[h].op \in subjects
UsesBook ==
  Len(book) > 0 \/ InUse({"add", "addCommit"})
UsesLogin ==
  \/ Len(device) > 0
  \/ \E s \in AuthState : authState[s] # "unknown"
  \/ InUse({"device"})
UsesReset == \E e \in Email : issued[<<e, "FORGOT_PASSWORD">>] > 0
UsesRegister == \E e \in Email : issued[<<e, "REGISTER">>] > 0

OnePart ==
  /\ ~(UsesBook /\ UsesLogin)
  /\ ~(UsesBook /\ UsesReset)
  /\ ~(UsesLogin /\ UsesReset)
  /\ ~(UsesBook /\ UsesRegister)
  /\ UsesLogin /\ UsesRegister => Len(token) = 0

\* Three requests at a time only where the third changes what the two others share.
ThreeForCodes ==
  (UsesBook \/ UsesLogin) => \E h \in Handler : task[h] = Idle

\* Long chains of tokens on one device; two devices with one exchange and no Google.
TwoDevices ==
  Len(device) = 2 =>
    /\ Len(token) <= 2
    /\ \A e \in Email : issued[<<e, "REGISTER">>] = 0
    /\ \A s \in AuthState : authState[s] = "unknown"

Bounded == OnePart /\ ThreeForCodes /\ TwoDevices

Sym == Permutations({h1, h2, h3})
================================================================================
