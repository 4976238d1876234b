---------------------------- MODULE RunningStats ----------------------------
(***************************************************************************)
(* The running averages of aggregation.py.  Prices and means lie on a grid *)
(* of whole numbers, which stands for the precision of a float: every      *)
(* division of the running mean is rounded, up or down.                    *)
(***************************************************************************)
EXTENDS Integers

\* The statistics of one scope, and as history the exact sum.  Of an empty scope
\* minimum and maximum (infinite in the program) are not looked at.
Fresh == [count |-> 0, mean |-> 0, minimum |-> 0, maximum |-> 0, exact |-> 0]

Least(a, b) == IF a < b THEN a ELSE b
Greatest(a, b) == IF a < b THEN b ELSE a

\* d / n, rounded either way.
Quotients(d, n) ==
    {q \in -Greatest(d, -d) .. Greatest(d, -d) : d - n < n * q /\ n * q < d + n}

\* A plausible slip: divided by the count before this observation.
FoldedEarly(s, value) ==
    [count : {s.count + 1},
     mean : {s.mean + q : q \in Quotients(value - s.mean, Greatest(s.count, 1))},
     minimum : {IF s.count = 0 THEN value ELSE Least(s.minimum, value)},
     maximum : {IF s.count = 0 THEN value ELSE Greatest(s.maximum, value)},
     exact : {s.exact + value}]

\* RunningStats.update: one more observation.
Folded(s, value) ==
    [count : {s.count + 1},
     mean : {s.mean + q : q \in Quotients(value - s.mean, s.count + 1)},
     minimum : {IF s.count = 0 THEN value ELSE Least(s.minimum, value)},
     maximum : {IF s.count = 0 THEN value ELSE Greatest(s.maximum, value)},
     exact : {s.exact + value}]

\* A plausible slip: the product starts afresh with every order.
AddedAfresh(overall, product, price) ==
    {<<o, p>> : o \in Folded(overall, price), p \in Folded(Fresh, price)}

\* OrderAggregator.add: the overall statistics and those of the order's product.
Added(overall, product, price) ==
    {<<o, p>> : o \in Folded(overall, price), p \in Folded(product, price)}

\* RunningStats.as_dict, without what derives from the rest (sumPrice is the
\* mean times the count).
Record(scope, s) == [scope |-> scope, count |-> s.count, mean |-> s.mean,
                     minimum |-> s.minimum, maximum |-> s.maximum]
=============================================================================
