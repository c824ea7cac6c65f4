------------------------------- MODULE MCPayments -------------------------------
EXTENDS Payments, TLC

CONSTANTS o1, d1, d2, h1, h2

\* No handler of a card payment reads the cash, and of the handlers of cash only
\* confirmCOD and the delivery read the payment, to refuse a card payment: the long
\* ledgers are explored with cash payments only.
Bounded ==
  (\E o \in Order : payment[o].method = "STRIPE") => Len(ledger) <= 1

Sym == Permutations({h1, h2})
================================================================================
