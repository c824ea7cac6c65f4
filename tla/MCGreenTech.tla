------------------------------ MODULE MCGreenTech ------------------------------
EXTENDS GreenTech, TLC

CONSTANTS d1, t1, t2, o1, o2, o3, h1, h2, w1, w2

SameDriver == [t \in {t1, t2} |-> d1]
Loads == [o \in {o1, o2, o3} |-> IF o = o3 THEN t2 ELSE t1]
\* The first trip saves 50 kg, exactly a rank; a point is lost in rounding on the second.
Distances == [t \in {t1, t2} |-> IF t = t1 THEN 200 ELSE 0]
Rates == [t \in {t1, t2} |-> IF t = t1 THEN 0 ELSE 125]

Sym == Permutations({h1, h2}) \cup Permutations({w1, w2}) \cup Permutations({o1, o2})
================================================================================
