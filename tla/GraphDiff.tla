----------------------------- MODULE GraphDiff -----------------------------
(***************************************************************************)
(* diffLines, which the panel with the pending changes of the graph puts   *)
(* between the stored definition and the edited one.                       *)
(***************************************************************************)
EXTENDS GraphEdit

\* dp: the length of the longest common subsequence of the last k lines of A
\* and the last l lines of B, row by row.
dp(A, B) ==
    LET row[k \in 0 .. Len(A)] ==
            LET cell[l \in 0 .. Len(B)] ==
                    IF k = 0 \/ l = 0 THEN 0
                    ELSE IF A[Len(A) - k + 1] = B[Len(B) - l + 1] THEN row[k - 1][l - 1] + 1
                    ELSE IF row[k - 1][l] >= cell[l - 1] THEN row[k - 1][l] ELSE cell[l - 1]
            IN  cell
    IN  row

\* diffLines: a row is kept (" "), removed ("-") or added ("+").
DiffRow == [k : {" ", "-", "+"}, s : Task]
Walk(A, B) == [i : 0 .. Len(A), j : 0 .. Len(B), out : Seq(DiffRow)]
KeepRow(A, w) == [i |-> w.i + 1, j |-> w.j + 1, out |-> Append(w.out, [k |-> " ", s |-> A[w.i + 1]])]
RemoveRow(A, w) == [i |-> w.i + 1, j |-> w.j, out |-> Append(w.out, [k |-> "-", s |-> A[w.i + 1]])]
AddRow(B, w) == [i |-> w.i, j |-> w.j + 1, out |-> Append(w.out, [k |-> "+", s |-> B[w.j + 1]])]
\* Mutant: lines are matched as they come, without the table.
diffStepGreedy(A, B, w) ==
    IF w.i < Len(A) /\ w.j < Len(B)
    THEN IF A[w.i + 1] = B[w.j + 1] THEN KeepRow(A, w) ELSE RemoveRow(A, w)
    ELSE IF w.i < Len(A) THEN RemoveRow(A, w) ELSE IF w.j < Len(B) THEN AddRow(B, w) ELSE w
diffStep(A, B, w) ==
    IF w.i < Len(A) /\ w.j < Len(B)
    THEN LET a == Len(A) - w.i
             b == Len(B) - w.j
         IN  IF A[w.i + 1] = B[w.j + 1] THEN KeepRow(A, w)
             ELSE IF dp(A, B)[a - 1][b] >= dp(A, B)[a][b - 1] THEN RemoveRow(A, w) ELSE AddRow(B, w)
    ELSE IF w.i < Len(A) THEN RemoveRow(A, w) ELSE IF w.j < Len(B) THEN AddRow(B, w) ELSE w
\* Every round takes a line of A, of B or of both.
diffLines(A, B) ==
    Thread([w \in Walk(A, B) |-> [t \in Task |-> diffStep(A, B, w)]],
           [i |-> 0, j |-> 0, out |-> <<>>], A \o B).out

-----------------------------------------------------------------------------
\* What the panel is for: the stored definition against the pending one, a
\* task's part of the YAML counted as one line.  How the panel gets there (two
\* requests, the note on an invalid definition, the cached html) is left out.
PendingDiff == diffLines(stored, specTasks(tasks))

\* The lines of a diff without those marked k, and the number of those kept.
Side(rows, k) ==
    Thread([f \in Seq(Task) |-> [r \in DiffRow |-> IF r.k = k THEN f ELSE Append(f, r.s)]], <<>>, rows)
Same(rows) == Cardinality({x \in DOMAIN rows : rows[x].k = " "})
\* The ways to match lines of A with equal lines of B in order.
Matchings(A, B) ==
    {M \in SUBSET {p \in (DOMAIN A) \X (DOMAIN B) : A[p[1]] = B[p[2]]} :
        \A p, q \in M : p # q => (p[1] < q[1] /\ p[2] < q[2]) \/ (q[1] < p[1] /\ q[2] < p[2])}

\* diffLines tells the truth of the pending changes: without its added rows it
\* is the stored definition, without its removed rows the pending one, and no
\* way to match the two keeps more lines.
DiffFaithful ==
    LET rows == PendingDiff
        new == specTasks(tasks)
    IN  /\ Side(rows, "+") = stored /\ Side(rows, "-") = new
        /\ \A M \in Matchings(stored, new) : Cardinality(M) <= Same(rows)
=============================================================================
