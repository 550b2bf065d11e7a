---------------------------- MODULE MCGraphEdit ----------------------------
EXTENDS GraphDiff

MCNames == {"a", "b", "c"}
\* Every acyclic graph over the first one or two of the three tasks, and over all
\* three those with two dependencies, from which the others are one edit away.
Ordered(S) == SetToSortSeq(S, LAMBDA x, y : <<x, y>> \in {<<"a", "b">>, <<"a", "c">>, <<"b", "c">>})
MCInitGraphs ==
    UNION {LET ids == SubSeq(<<"a", "b", "c">>, 1, n)
               graph(f) == [i \in 1 .. n |-> blankTask(ids[i], Ordered(f[i]), TRUE)]
           IN  {ts \in {graph(f) : f \in [1 .. n -> SUBSET ToSet(ids)]} :
                   Acyclic(ts) /\ (n = 3 => Len(ts[1].deps) + Len(ts[2].deps) + Len(ts[3].deps) = 2)} : n \in 1 .. 3}
=============================================================================
