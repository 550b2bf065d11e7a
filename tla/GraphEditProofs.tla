--------------------------- MODULE GraphEditProofs -------------------------
(***************************************************************************)
(* Editing the task graph, for every set of names, every saved graph and   *)
(* every number of edits.                                                  *)
(*                                                                         *)
(* The search of hasCycle finds exactly the cycles: a call of visit leaves *)
(* the tasks on the stack as they were, blackens the one it was called     *)
(* for, and keeps the black tasks free of cycles unless it reports one; it *)
(* reports one only when the tasks on the stack wait for one another.  The *)
(* levels of the drawing are found by a search of the same shape, and      *)
(* every pass of topoOrder adds a task until a cycle keeps the rest out.   *)
(* The rows of diffLines keep as many lines as the table promises, and the *)
(* table bounds every way to match the lines of the two definitions.       *)
(* What each edit does to a list of tasks is a lemma of its own; from      *)
(* these follow the invariants of the editor.                              *)
(***************************************************************************)
EXTENDS GraphDiff, FiniteSetTheorems, WellFoundedInduction, TLAPS

-----------------------------------------------------------------------------
(* Induction, and recursion over a list.                                   *)

\* A set with 0 and with the successor of each of its numbers has them all.
LEMMA Induction ==
    ASSUME NEW S, 0 \in S, \A n \in Nat : n \in S => n + 1 \in S
    PROVE  Nat \subseteq S
<1> SUFFICES ASSUME Nat \ S # {} PROVE FALSE
  OBVIOUS
<1>1. \E x \in Nat \ S : \A y \in Nat \ S : ~(<<y, x>> \in OpToRel(<, Nat))
  BY WFMin, NatLessThanWellFounded
<1>2. \A x, y \in Nat : y < x => <<y, x>> \in OpToRel(<, Nat)
  BY DEF OpToRel
<1>3. PICK x \in Nat \ S : \A y \in Nat \ S : ~(y < x)
  BY <1>1, <1>2
<1>4. x - 1 \in Nat /\ x - 1 < x
  BY <1>3
<1> QED BY <1>3, <1>4

\* A set of numbers has a least element, which Min finds.
LEMMA MinLeast ==
    ASSUME NEW S, S \subseteq Nat, S # {}
    PROVE  Min(S) \in S /\ \A y \in S : Min(S) <= y
<1>1. \E x \in S : \A y \in S : ~(<<y, x>> \in OpToRel(<, Nat))
  BY WFMin, NatLessThanWellFounded
<1>2. \A x, y \in Nat : y < x => <<y, x>> \in OpToRel(<, Nat)
  BY DEF OpToRel
<1>3. \E x \in S : \A y \in S : ~(y < x)
  BY <1>1, <1>2
<1>4. \E x \in S : \A y \in S : x <= y
  BY <1>3
<1> QED BY <1>4 DEF Min

\* A recursion over 1 .. n whose step G stays in X has a solution.
Solution(f, X, n, x0, G) ==
    f \in [0 .. n -> X] /\ f[0] = x0 /\ \A i \in 1 .. n : f[i] = G[<<f[i - 1], i>>]
LEMMA Recursion ==
    ASSUME NEW X, NEW n \in Nat, NEW x0 \in X, NEW G \in [X \X (1 .. n) -> X]
    PROVE  \E f : Solution(f, X, n, x0, G)
<1> DEFINE Solves(m) == \E f \in [0 .. m -> X] : f[0] = x0 /\ \A i \in 1 .. m : f[i] = G[<<f[i - 1], i>>]
           S == {m \in Nat : m <= n => Solves(m)}
<1>1. 0 \in S
  <2>1. [i \in 0 .. 0 |-> x0] \in [0 .. 0 -> X]
    OBVIOUS
  <2>2. [i \in 0 .. 0 |-> x0][0] = x0 /\ 1 .. 0 = {}
    OBVIOUS
  <2>3. Solves(0)
    BY <2>1, <2>2
  <2> QED BY <2>3
<1>2. ASSUME NEW m \in Nat, m \in S PROVE m + 1 \in S
  <2> SUFFICES ASSUME m + 1 <= n PROVE Solves(m + 1)
    OBVIOUS
  <2>1. PICK f \in [0 .. m -> X] : f[0] = x0 /\ \A i \in 1 .. m : f[i] = G[<<f[i - 1], i>>]
    BY <1>2
  <2> DEFINE g == [i \in 0 .. (m + 1) |-> IF i = m + 1 THEN G[<<f[m], i>>] ELSE f[i]]
  <2>2. m + 1 \in 1 .. n /\ m \in 0 .. m
    OBVIOUS
  <2>3. <<f[m], m + 1>> \in X \X (1 .. n)
    BY <2>2
  <2>4. G[<<f[m], m + 1>>] \in X
    BY <2>3
  <2>5. g \in [0 .. (m + 1) -> X]
    BY <2>4
  <2>6. g[0] = x0
    BY <2>1
  <2>7. ASSUME NEW i \in 1 .. (m + 1) PROVE g[i] = G[<<g[i - 1], i>>]
    BY <2>1
  <2> QED BY <2>5, <2>6, <2>7
<1>3. n \in S
  <2> HIDE DEF S
  <2> QED BY <1>1, <1>2, Induction
<1> QED BY <1>3 DEF Solution

\* A list handled from its head: what holds before and is kept by every step,
\* at its place in the list, holds in the end.
Kept(P, g, s) == \A i \in 1 .. Len(s) : \A y \in P[i - 1] : g[y][s[i]] \in P[i]
LEMMA ThreadInduction ==
    ASSUME NEW X, NEW E, NEW g \in [X -> [E -> X]], NEW x, NEW s \in Seq(E),
           NEW P \in [0 .. Len(s) -> SUBSET X], x \in P[0], Kept(P, g, s)
    PROVE  Thread(g, x, s) \in P[Len(s)]
<1> DEFINE n == Len(s)
           G == [p \in X \X (1 .. n) |-> g[p[1]][s[p[2]]]]
<1>0. n \in Nat /\ \A i \in 1 .. n : s[i] \in E
  OBVIOUS
<1>00. x \in X
  BY <1>0
<1>1. \A y \in X, i \in 1 .. n : g[y][s[i]] \in X
  BY <1>0
<1>2. G \in [X \X (1 .. n) -> X]
  BY <1>1
<1>3. \A y \in X, i \in 1 .. n : G[<<y, i>>] = g[y][s[i]]
  OBVIOUS
<1> HIDE DEF G
<1>4. PICK f : Solution(f, X, n, x, G)
  <2> HIDE DEF n
  <2> QED BY <1>0, <1>00, <1>2, Recursion
<1>5. /\ f \in [0 .. n -> X] /\ f[0] = x
      /\ \A i \in 1 .. n : f[i - 1] \in X /\ f[i] = g[f[i - 1]][s[i]]
  <2>0. f \in [0 .. n -> X] /\ \A i \in 1 .. n : i - 1 \in 0 .. n
    BY <1>0, <1>4 DEF Solution
  <2>1. \A i \in 1 .. n : f[i - 1] \in X
    BY <2>0
  <2> QED BY <1>3, <1>4, <2>1 DEF Solution
<1>6. f = [i \in 0 .. n |-> IF i = 0 THEN x ELSE g[f[i - 1]][s[i]]]
  <2> DEFINE Step(y, i) == g[y][s[i]]
  <2>1. f \in [0 .. n -> X] /\ f[0] = x /\ \A i \in 1 .. n : f[i] = Step(f[i - 1], i)
    BY <1>5
  <2>2. \A i \in 0 .. n : i = 0 \/ i \in 1 .. n
    BY <1>0
  <2> HIDE DEF Step, n
  <2>3. f = [i \in 0 .. n |-> IF i = 0 THEN x ELSE Step(f[i - 1], i)]
    BY <2>1, <2>2
  <2> QED BY <2>3 DEF Step
<1> DEFINE a == CHOOSE a : a = [i \in 0 .. n |-> IF i = 0 THEN x ELSE g[a[i - 1]][s[i]]]
<1>7. a = [i \in 0 .. n |-> IF i = 0 THEN x ELSE g[a[i - 1]][s[i]]]
  BY <1>6, Zenon
<1>8. Thread(g, x, s) = a[n]
  BY Zenon DEF Thread
<1> HIDE DEF a
<1>9. a[0] = x /\ \A i \in 1 .. n : a[i] = g[a[i - 1]][s[i]]
  <2>1. \A i \in 0 .. n : a[i] = IF i = 0 THEN x ELSE g[a[i - 1]][s[i]]
    BY <1>7
  <2>2. 0 \in 0 .. n /\ \A i \in 1 .. n : i \in 0 .. n /\ i # 0
    BY <1>0
  <2> HIDE DEF n
  <2> QED BY <2>1, <2>2
<1> DEFINE S == {i \in Nat : i <= n => a[i] \in P[i]}
<1>10. 0 \in S
  BY <1>9
<1>11. ASSUME NEW i \in Nat, i \in S PROVE i + 1 \in S
  <2> SUFFICES ASSUME i + 1 <= n PROVE a[i + 1] \in P[i + 1]
    OBVIOUS
  <2>1. a[i] \in P[i]
    BY <1>0, <1>11
  <2>2. i + 1 \in 1 .. n /\ (i + 1) - 1 = i
    BY <1>0
  <2>3. a[i + 1] = g[a[i]][s[i + 1]]
    BY <1>9, <2>2
  <2> QED BY <2>1, <2>2, <2>3 DEF Kept
<1>12. n \in S
  <2> HIDE DEF S
  <2> QED BY <1>0, <1>10, <1>11, Induction
<1> QED BY <1>0, <1>8, <1>12

-----------------------------------------------------------------------------
(* Lists.                                                                  *)

LEMMA SeqOfItself ==
    ASSUME NEW E, NEW s \in Seq(E)
    PROVE  /\ s \in Seq(ToSet(s)) /\ ToSet(s) \subseteq E /\ DOMAIN s = 1 .. Len(s) /\ Len(s) \in Nat
           /\ ToSet(s) = {s[i] : i \in 1 .. Len(s)}
           /\ \A i \in 1 .. Len(s) : s[i] \in ToSet(s) /\ s[i] \in E
BY DEF ToSet

\* Where an element of a list is appended.
LEMMA AppendFacts ==
    ASSUME NEW E, NEW s \in Seq(E), NEW e \in E
    PROVE  LET r == Append(s, e) IN
           /\ r \in Seq(E) /\ Len(r) = Len(s) + 1 /\ r[Len(s) + 1] = e
           /\ \A i \in 1 .. Len(s) : r[i] = s[i]
           /\ \A i \in 1 .. Len(r) : i \in 1 .. Len(s) \/ i = Len(s) + 1
           /\ Len(s) + 1 \in 1 .. Len(r) /\ \A i \in 1 .. Len(s) : i \in 1 .. Len(r)
OBVIOUS
LEMMA AppendSet ==
    ASSUME NEW E, NEW s \in Seq(E), NEW e \in E
    PROVE  /\ ToSet(Append(s, e)) = ToSet(s) \cup {e}
           /\ IsInjective(s) /\ e \notin ToSet(s) => IsInjective(Append(s, e))
<1> DEFINE r == Append(s, e)
<1>1. /\ r \in Seq(E) /\ Len(r) = Len(s) + 1 /\ r[Len(s) + 1] = e
      /\ \A i \in 1 .. Len(s) : r[i] = s[i]
      /\ \A i \in 1 .. Len(r) : i \in 1 .. Len(s) \/ i = Len(s) + 1
      /\ Len(s) + 1 \in 1 .. Len(r) /\ \A i \in 1 .. Len(s) : i \in 1 .. Len(r)
  BY AppendFacts
<1>2. DOMAIN s = 1 .. Len(s) /\ DOMAIN r = 1 .. Len(r)
  BY <1>1
<1> HIDE DEF r
<1>3. ToSet(r) = ToSet(s) \cup {e}
  BY <1>1, <1>2 DEF ToSet
<1>4. ASSUME IsInjective(s), e \notin ToSet(s) PROVE IsInjective(r)
  BY <1>1, <1>2, <1>4 DEF ToSet, IsInjective
<1> QED BY <1>3, <1>4 DEF r

\* What a filter leaves.
LEMMA FilterFacts ==
    ASSUME NEW E, NEW s \in Seq(E), NEW T
    PROVE  /\ Filter(s, T) \in Seq(ToSet(s)) /\ Filter(s, T) \in Seq(E)
           /\ ToSet(Filter(s, T)) = ToSet(s) \cap T
           /\ IsInjective(s) => IsInjective(Filter(s, T))
<1> DEFINE D == ToSet(s)
           St(f, e) == IF e \in T THEN Append(f, e) ELSE f
           g == [f \in Seq(D) |-> [e \in D |-> St(f, e)]]
           Upto(i) == {s[k] : k \in 1 .. i}
           Q(f, i) == ToSet(f) = Upto(i) \cap T /\ (IsInjective(s) => IsInjective(f))
           P == [i \in 0 .. Len(s) |-> {f \in Seq(D) : Q(f, i)}]
<1>1. s \in Seq(D) /\ D \subseteq E /\ Len(s) \in Nat /\ DOMAIN s = 1 .. Len(s) /\ D = Upto(Len(s))
  BY SeqOfItself
<1> HIDE DEF D
<1>2. g \in [Seq(D) -> [D -> Seq(D)]] /\ \A f \in Seq(D), e \in D : g[f][e] = St(f, e)
  <2>1. \A f \in Seq(D), e \in D : St(f, e) \in Seq(D)
    OBVIOUS
  <2> HIDE DEF St
  <2> QED BY <2>1
<1>3. <<>> \in P[0]
  <2>1. <<>> \in Seq(D) /\ ToSet(<<>>) = {} /\ Upto(0) = {} /\ IsInjective(<<>>)
    BY DEF ToSet, IsInjective
  <2> QED BY <1>1, <2>1
<1>4. P \in [0 .. Len(s) -> SUBSET Seq(D)]
  <2> HIDE DEF Q
  <2> QED OBVIOUS
<1>5. ASSUME NEW i \in 1 .. Len(s), NEW f \in P[i - 1] PROVE g[f][s[i]] \in P[i]
  <2> DEFINE e == s[i]
             r == g[f][e]
  <2>1. i - 1 \in 0 .. Len(s) /\ i \in 0 .. Len(s) /\ e \in D
    BY <1>1
  <2>2. f \in Seq(D) /\ Q(f, i - 1)
    <3> HIDE DEF Q
    <3> QED BY <1>5, <2>1
  <2>3. r = IF e \in T THEN Append(f, e) ELSE f
    BY <1>2, <2>1, <2>2
  <2>4. Upto(i) = Upto(i - 1) \cup {e}
    BY <2>1
  <2>5. IsInjective(s) => e \notin Upto(i - 1)
    <3> SUFFICES ASSUME IsInjective(s), NEW k \in 1 .. (i - 1), s[k] = s[i] PROVE FALSE
      OBVIOUS
    <3>1. k \in DOMAIN s /\ i \in DOMAIN s /\ k # i
      BY <1>1
    <3> QED BY <3>1 DEF IsInjective
  <2> HIDE DEF g, Upto
  <2>6. CASE e \in T
    <3>1. /\ Append(f, e) \in Seq(D) /\ ToSet(Append(f, e)) = ToSet(f) \cup {e}
          /\ IsInjective(f) /\ e \notin ToSet(f) => IsInjective(Append(f, e))
      BY <2>1, <2>2, AppendSet, AppendFacts
    <3>2. r = Append(f, e)
      BY <2>3, <2>6
    <3> HIDE DEF r, e
    <3>3. r \in Seq(D) /\ Q(r, i)
      BY <2>2, <2>4, <2>5, <2>6, <3>1, <3>2
    <3> HIDE DEF Q
    <3> QED BY <2>1, <3>3 DEF r, e
  <2>7. CASE e \notin T
    <3>1. r = f
      BY <2>3, <2>7
    <3> HIDE DEF r, e
    <3>2. Q(r, i)
      BY <2>2, <2>4, <2>7, <3>1
    <3> HIDE DEF Q
    <3> QED BY <2>1, <2>2, <3>1, <3>2 DEF r, e
  <2> QED BY <2>6, <2>7
<1>6. Kept(P, g, s)
  <2> HIDE DEF P, g
  <2> QED BY <1>5 DEF Kept
<1>7. Filter(s, T) = Thread(g, <<>>, s)
  BY DEF Filter, D
<1>8. Thread(g, <<>>, s) \in P[Len(s)]
  <2> HIDE DEF P, g
  <2> QED BY <1>1, <1>2, <1>3, <1>4, <1>6, ThreadInduction
<1>9. Filter(s, T) \in Seq(D) /\ Q(Filter(s, T), Len(s))
  <2> HIDE DEF Q, g
  <2> QED BY <1>1, <1>7, <1>8
<1> HIDE DEF Upto
<1> QED BY <1>1, <1>9 DEF D

-----------------------------------------------------------------------------
(* The search for a cycle.                                                 *)

Waits(ts, n) == ToSet(Deps(ts, n))
Coloured(ts, st, c) == {n \in Ids(ts) : st.color[n] = c}
White(ts, st) == Coloured(ts, st, 0)
Grey(ts, st) == Coloured(ts, st, 1)
Black(ts, st) == Coloured(ts, st, 2)

\* No tasks of B wait for one another, and what B waits for is in B.
Free(ts, B) == \A S \in SUBSET B : S # {} => \E n \in S : Waits(ts, n) \cap S = {}
Done(ts, B) == Free(ts, B) /\ \A n \in B : Waits(ts, n) \cap Ids(ts) \subseteq B

\* Every task of the stack G waits for one of them, or for the one called.
Chain(ts, G, id) == \A g \in G : Waits(ts, g) \cap (G \cup {id}) # {}

\* What the search has found so far is true.
Right(ts, st) ==
    /\ st \in Marks(ts)
    /\ st.cyc => ~Acyclic(ts)
    /\ ~st.cyc => Done(ts, Black(ts, st))

\* What a call of visit does.
Visited(ts, id, st, t) ==
    /\ Right(ts, t) /\ Grey(ts, t) = Grey(ts, st) /\ Black(ts, st) \subseteq Black(ts, t)
    /\ st.cyc => t.cyc
    /\ IF id \in Grey(ts, st) THEN t.cyc ELSE id \in Black(ts, t)
Visitor(ts) == [Ids(ts) -> [Marks(ts) -> Marks(ts)]]
Works(ts, F, k) ==
    /\ F \in Visitor(ts)
    /\ \A id \in Ids(ts), st \in Marks(ts) :
          /\ Right(ts, st) /\ Chain(ts, Grey(ts, st), id)
          /\ Cardinality(White(ts, st)) < k
          => Visited(ts, id, st, F[id][st])

LEMMA AtFacts ==
    ASSUME NEW ts \in Seq(Task), NEW id \in Ids(ts)
    PROVE  /\ At(ts, id) \in 1 .. Len(ts) /\ At(ts, id) \in DOMAIN ts /\ ts[At(ts, id)].id = id
           /\ Deps(ts, id) = ts[At(ts, id)].deps
           /\ Deps(ts, id) \in Seq(Names) /\ id \in Names /\ ts[At(ts, id)] \in Task
<1>1. DOMAIN ts = 1 .. Len(ts) /\ \A i \in 1 .. Len(ts) : ts[i] \in Task
  OBVIOUS
<1>2. \E i \in DOMAIN ts : ts[i].id = id
  BY DEF Ids
<1>3. At(ts, id) \in DOMAIN ts /\ ts[At(ts, id)].id = id
  BY <1>2 DEF At
<1>4. ts[At(ts, id)] \in Task
  BY <1>1, <1>3
<1> HIDE DEF Task
<1>5. \A t \in Task : t.id \in Names /\ t.deps \in Seq(Names)
  BY DEF Task
<1> QED BY <1>1, <1>3, <1>4, <1>5 DEF Deps

LEMMA IdsFinite ==
    ASSUME NEW ts \in Seq(Task)
    PROVE  IsFiniteSet(Ids(ts)) /\ Cardinality(Ids(ts)) \in Nat
<1> DEFINE f == [i \in 1 .. Len(ts) |-> ts[i].id]
<1>1. Len(ts) \in Nat /\ DOMAIN ts = 1 .. Len(ts)
  OBVIOUS
<1>2. f \in Surjection(1 .. Len(ts), Ids(ts))
  BY <1>1 DEF Surjection, Ids
<1>3. IsFiniteSet(1 .. Len(ts))
  BY <1>1, FS_Interval
<1>4. IsFiniteSet(Ids(ts))
  BY <1>2, <1>3, FS_Surjection
<1> QED BY <1>4, FS_CardinalityType

\* A task that only waits for finished ones is finished.
LEMMA DoneAdd ==
    ASSUME NEW ts, NEW B \in SUBSET Ids(ts), Done(ts, B), NEW id \in Ids(ts), id \notin B,
           Waits(ts, id) \cap Ids(ts) \subseteq B
    PROVE  Done(ts, B \cup {id})
<1>1. ASSUME NEW S \in SUBSET (B \cup {id}), S # {} PROVE \E n \in S : Waits(ts, n) \cap S = {}
  <2>1. CASE S \ {id} = {}
    BY <1>1, <2>1
  <2>2. CASE S \ {id} # {}
    <3>1. PICK n \in S \ {id} : Waits(ts, n) \cap (S \ {id}) = {}
      BY <1>1, <2>2 DEF Done, Free
    <3>2. id \notin Waits(ts, n)
      BY <1>1, <3>1 DEF Done
    <3> QED BY <3>1, <3>2
  <2> QED BY <2>1, <2>2
<1>2. \A n \in B \cup {id} : Waits(ts, n) \cap Ids(ts) \subseteq B \cup {id}
  BY DEF Done
<1> QED BY <1>1, <1>2 DEF Done, Free

\* The colours partition the tasks.
LEMMA Colours ==
    ASSUME NEW ts, NEW st \in Marks(ts)
    PROVE  /\ White(ts, st) = Ids(ts) \ (Grey(ts, st) \cup Black(ts, st))
           /\ Grey(ts, st) \cap Black(ts, st) = {}
           /\ Grey(ts, st) \subseteq Ids(ts) /\ Black(ts, st) \subseteq Ids(ts)
           /\ st.color \in [Ids(ts) -> 0 .. 2] /\ st.cyc \in BOOLEAN
BY DEF White, Grey, Black, Coloured, Marks

\* Colouring one task.
Painted(st, id, c) == [st EXCEPT !.color[id] = c]
LEMMA Paint ==
    ASSUME NEW ts, NEW st \in Marks(ts), NEW id \in Ids(ts), NEW c \in 0 .. 2
    PROVE  LET t == Painted(st, id, c) IN
           /\ t \in Marks(ts) /\ t.cyc = st.cyc
           /\ \A b \in 0 .. 2 : Coloured(ts, t, b) = (Coloured(ts, st, b) \ {id})
                                                      \cup (IF b = c THEN {id} ELSE {})
<1> DEFINE f == [st.color EXCEPT ![id] = c]
           t == Painted(st, id, c)
<1>1. st.color \in [Ids(ts) -> 0 .. 2]
  BY DEF Marks
<1>2. f \in [Ids(ts) -> 0 .. 2] /\ \A n \in Ids(ts) : f[n] = IF n = id THEN c ELSE st.color[n]
  BY <1>1
<1>3. t = [st EXCEPT !.color = f]
  BY DEF Painted
<1> HIDE DEF f, t
<1>4. t \in Marks(ts) /\ t.cyc = st.cyc /\ t.color = f
  BY <1>2, <1>3 DEF Marks
<1>5. \A b \in 0 .. 2 : Coloured(ts, t, b) = (Coloured(ts, st, b) \ {id}) \cup (IF b = c THEN {id} ELSE {})
  BY <1>2, <1>4 DEF Coloured
<1> QED BY <1>4, <1>5 DEF t

\* A task that is on the stack when it is called closes a cycle.
LEMMA Closes ==
    ASSUME NEW ts, NEW G \in SUBSET Ids(ts), NEW id \in G, Chain(ts, G, id)
    PROVE  ~Acyclic(ts)
<1>1. G \cup {id} = G /\ G \in (SUBSET Ids(ts)) \ {{}}
  OBVIOUS
<1>2. \A n \in G : ToSet(Deps(ts, n)) \cap G # {}
  BY <1>1 DEF Chain, Waits
<1> QED BY <1>1, <1>2 DEF Acyclic
LEMMA FreeAcyclic ==
    ASSUME NEW ts, Free(ts, Ids(ts)) PROVE Acyclic(ts)
BY DEF Free, Acyclic, Waits

\* The step of the search over the dependencies of a task.
Descend(ts, F, id) ==
    [s \in Marks(ts) |-> [d \in ToSet(Deps(ts, id)) |-> IF d \in Ids(ts) THEN F[d][s] ELSE s]]
LEMMA DescendTyped ==
    ASSUME NEW ts, NEW F \in Visitor(ts), NEW id
    PROVE  /\ Descend(ts, F, id) \in [Marks(ts) -> [Waits(ts, id) -> Marks(ts)]]
           /\ \A s \in Marks(ts), d \in Waits(ts, id) :
                 Descend(ts, F, id)[s][d] = IF d \in Ids(ts) THEN F[d][s] ELSE s
<1> DEFINE St(s, d) == IF d \in Ids(ts) THEN F[d][s] ELSE s
<1>1. \A s \in Marks(ts), d \in Waits(ts, id) : St(s, d) \in Marks(ts)
  BY DEF Visitor
<1>2. Descend(ts, F, id) = [s \in Marks(ts) |-> [d \in Waits(ts, id) |-> St(s, d)]]
  BY DEF Descend, Waits
<1> HIDE DEF St
<1>3. /\ Descend(ts, F, id) \in [Marks(ts) -> [Waits(ts, id) -> Marks(ts)]]
      /\ \A s \in Marks(ts), d \in Waits(ts, id) : Descend(ts, F, id)[s][d] = St(s, d)
  BY <1>1, <1>2
<1> QED BY <1>3 DEF St

\* visit stays among the marks, whatever it calls.
LEMMA VisitTyped ==
    ASSUME NEW ts \in Seq(Task), NEW F \in Visitor(ts), NEW id \in Ids(ts), NEW st \in Marks(ts)
    PROVE  visit(ts, F, id, st) \in Marks(ts)
<1> DEFINE deps == Deps(ts, id)
           x == Painted(st, id, 1)
           down == Thread(Descend(ts, F, id), x, deps)
           P == [i \in 0 .. Len(deps) |-> Marks(ts)]
<1>1. deps \in Seq(Waits(ts, id)) /\ Len(deps) \in Nat
  BY AtFacts, SeqOfItself DEF Waits
<1>2. x \in Marks(ts)
  BY Paint
<1>3. Descend(ts, F, id) \in [Marks(ts) -> [Waits(ts, id) -> Marks(ts)]]
  BY DescendTyped
<1> HIDE DEF deps, x
<1>4. P \in [0 .. Len(deps) -> SUBSET Marks(ts)] /\ x \in P[0]
  BY <1>1, <1>2
<1>5. Kept(P, Descend(ts, F, id), deps)
  <2> SUFFICES ASSUME NEW i \in 1 .. Len(deps), NEW y \in P[i - 1]
               PROVE  Descend(ts, F, id)[y][deps[i]] \in P[i]
    BY DEF Kept
  <2>1. i - 1 \in 0 .. Len(deps) /\ i \in 0 .. Len(deps) /\ deps[i] \in Waits(ts, id)
    BY <1>1
  <2> QED BY <1>3, <2>1
<1>6. down \in P[Len(deps)]
  <2> HIDE DEF P
  <2> QED BY <1>1, <1>3, <1>4, <1>5, ThreadInduction
<1>7. down \in Marks(ts)
  BY <1>1, <1>6
<1>8. Painted(down, id, 2) \in Marks(ts)
  BY <1>7, Paint
<1>9. [st EXCEPT !.cyc = TRUE] \in Marks(ts)
  BY DEF Marks
<1>10. visit(ts, F, id, st) \in {[st EXCEPT !.cyc = TRUE], st, Painted(down, id, 2)}
  BY DEF visit, down, x, deps, Descend, Painted
<1> QED BY <1>8, <1>9, <1>10

\* One more level of calls that work.
LEMMA VisitWorks ==
    ASSUME NEW ts \in Seq(Task), NEW k \in Nat, NEW F, Works(ts, F, k),
           NEW id \in Ids(ts), NEW st \in Marks(ts),
           Right(ts, st), Chain(ts, Grey(ts, st), id), Cardinality(White(ts, st)) < k + 1
    PROVE  Visited(ts, id, st, visit(ts, F, id, st))
<1>0. /\ White(ts, st) = Ids(ts) \ (Grey(ts, st) \cup Black(ts, st))
      /\ Grey(ts, st) \cap Black(ts, st) = {}
      /\ Grey(ts, st) \subseteq Ids(ts) /\ Black(ts, st) \subseteq Ids(ts)
      /\ st.color \in [Ids(ts) -> 0 .. 2] /\ st.cyc \in BOOLEAN
  BY Colours
<1>1. CASE st.color[id] = 1
  <2> DEFINE t == [st EXCEPT !.cyc = TRUE]
  <2>1. visit(ts, F, id, st) = t
    BY <1>1 DEF visit
  <2>2. t \in Marks(ts) /\ t.color = st.color
    BY DEF Marks
  <2>3. t.cyc
    <3>1. "cyc" \in DOMAIN st
      BY DEF Marks
    <3> QED BY <3>1, Zenon
  <2> HIDE DEF t
  <2>4. id \in Grey(ts, st)
    BY <1>1 DEF Grey, Coloured
  <2>5. ~Acyclic(ts)
    BY <1>0, <2>4, Closes
  <2>6. Grey(ts, t) = Grey(ts, st) /\ Black(ts, t) = Black(ts, st)
    BY <2>2 DEF Grey, Black, Coloured
  <2> QED BY <2>1, <2>2, <2>3, <2>4, <2>5, <2>6 DEF Visited, Right
<1>2. CASE st.color[id] = 2
  <2>1. visit(ts, F, id, st) = st
    BY <1>2 DEF visit
  <2>2. id \in Black(ts, st) /\ id \notin Grey(ts, st)
    BY <1>2 DEF Grey, Black, Coloured
  <2> QED BY <2>1, <2>2 DEF Visited
<1>3. CASE st.color[id] = 0
  <2> DEFINE deps == Deps(ts, id)
             x == Painted(st, id, 1)
             g == Descend(ts, F, id)
             down == Thread(g, x, deps)
             t == Painted(down, id, 2)
             Q(s, i) == /\ Right(ts, s) /\ Grey(ts, s) = Grey(ts, st) \cup {id}
                        /\ Black(ts, st) \subseteq Black(ts, s)
                        /\ st.cyc => s.cyc
                        /\ ~s.cyc => \A j \in 1 .. i : deps[j] \in Ids(ts) => deps[j] \in Black(ts, s)
             P == [i \in 0 .. Len(deps) |-> {s \in Marks(ts) : Q(s, i)}]
  <2>1. id \in White(ts, st) /\ id \notin Grey(ts, st) /\ id \notin Black(ts, st)
    BY <1>3 DEF White, Grey, Black, Coloured
  <2>2. deps \in Seq(Waits(ts, id)) /\ Len(deps) \in Nat /\ Waits(ts, id) = {deps[j] : j \in 1 .. Len(deps)}
    BY AtFacts, SeqOfItself DEF Waits
  <2>3. F \in Visitor(ts)
    BY DEF Works
  <2>4. /\ g \in [Marks(ts) -> [Waits(ts, id) -> Marks(ts)]]
        /\ \A s \in Marks(ts), d \in Waits(ts, id) : g[s][d] = IF d \in Ids(ts) THEN F[d][s] ELSE s
    BY <2>3, DescendTyped
  <2>5. /\ x \in Marks(ts) /\ x.cyc = st.cyc
        /\ Grey(ts, x) = Grey(ts, st) \cup {id} /\ Black(ts, x) = Black(ts, st)
    <3>1. /\ x \in Marks(ts) /\ x.cyc = st.cyc
          /\ \A b \in 0 .. 2 : Coloured(ts, x, b) = (Coloured(ts, st, b) \ {id})
                                                     \cup (IF b = 1 THEN {id} ELSE {})
      BY Paint
    <3> HIDE DEF x
    <3>2. Coloured(ts, x, 1) = (Coloured(ts, st, 1) \ {id}) \cup {id}
          /\ Coloured(ts, x, 2) = Coloured(ts, st, 2) \ {id}
      BY <3>1
    <3> QED BY <2>1, <3>1, <3>2 DEF Grey, Black
  <2>6. visit(ts, F, id, st) = t
    BY <1>3 DEF visit, Descend, Painted
  <2> HIDE DEF deps, g, x
  <2>7. x \in P[0]
    <3>1. Right(ts, x)
      BY <2>5 DEF Right
    <3>2. Q(x, 0)
      BY <2>5, <3>1
    <3> HIDE DEF Q
    <3> QED BY <2>2, <2>5, <3>2
  <2>8. P \in [0 .. Len(deps) -> SUBSET Marks(ts)]
    <3> HIDE DEF Q
    <3> QED OBVIOUS
  <2>9. IsFiniteSet(White(ts, st)) /\ Cardinality(White(ts, st)) \in Nat
    BY <1>0, IdsFinite, FS_Subset, FS_CardinalityType
  <2>10. ASSUME NEW i \in 1 .. Len(deps), NEW s \in P[i - 1] PROVE g[s][deps[i]] \in P[i]
    <3> DEFINE d == deps[i]
               r == g[s][d]
    <3>1. i - 1 \in 0 .. Len(deps) /\ i \in 0 .. Len(deps) /\ d \in Waits(ts, id)
      BY <2>2
    <3>2. s \in Marks(ts) /\ Q(s, i - 1)
      <4> HIDE DEF Q
      <4> QED BY <2>10, <3>1
    <3>3. \A j \in 1 .. i : j \in 1 .. (i - 1) \/ j = i
      BY <2>2
    <3>4. CASE d \notin Ids(ts)
      <4>1. r = s
        BY <2>4, <3>1, <3>2, <3>4
      <4> HIDE DEF r
      <4>2. Q(r, i)
        BY <3>2, <3>3, <3>4, <4>1
      <4> HIDE DEF Q
      <4> QED BY <3>1, <3>2, <4>1, <4>2 DEF r
    <3>5. CASE d \in Ids(ts)
      <4>1. r = F[d][s]
        BY <2>4, <3>1, <3>2, <3>5
      <4>2. Chain(ts, Grey(ts, s), d)
        BY <3>1, <3>2 DEF Chain
      <4>3. White(ts, s) \subseteq White(ts, st) \ {id}
        BY <1>0, <3>2, Colours
      <4>4. Cardinality(White(ts, st) \ {id}) = Cardinality(White(ts, st)) - 1
            /\ IsFiniteSet(White(ts, st) \ {id})
        BY <2>1, <2>9, FS_RemoveElement
      <4>5. Cardinality(White(ts, s)) <= Cardinality(White(ts, st) \ {id})
            /\ Cardinality(White(ts, s)) \in Nat
        BY <4>3, <4>4, FS_Subset, FS_CardinalityType
      <4>6. Cardinality(White(ts, s)) < k
        BY <2>9, <4>4, <4>5
      <4>7. Visited(ts, d, s, r)
        BY <3>2, <3>5, <4>1, <4>2, <4>6 DEF Works
      <4>8. r \in Marks(ts)
        BY <4>7 DEF Visited, Right
      <4> HIDE DEF r, d
      <4>9. ~r.cyc => d \in Black(ts, r)
        BY <4>7 DEF Visited
      <4>10. ~r.cyc => \A j \in 1 .. i : deps[j] \in Ids(ts) => deps[j] \in Black(ts, r)
        <5> SUFFICES ASSUME ~r.cyc, NEW j \in 1 .. i, deps[j] \in Ids(ts) PROVE deps[j] \in Black(ts, r)
          OBVIOUS
        <5>1. ~s.cyc /\ Black(ts, s) \subseteq Black(ts, r)
          BY <4>7 DEF Visited
        <5> QED BY <3>2, <3>3, <4>9, <5>1 DEF d
      <4>11. Q(r, i)
        BY <3>2, <4>7, <4>10 DEF Visited
      <4> HIDE DEF Q
      <4> QED BY <3>1, <4>8, <4>11 DEF r, d
    <3> QED BY <3>4, <3>5
  <2>11. Kept(P, g, deps)
    <3> HIDE DEF P
    <3> QED BY <2>10 DEF Kept
  <2>12. down \in P[Len(deps)]
    <3> HIDE DEF P
    <3> QED BY <2>2, <2>4, <2>7, <2>8, <2>11, ThreadInduction
  <2>13. down \in Marks(ts) /\ Q(down, Len(deps))
    <3> HIDE DEF Q, down
    <3> QED BY <2>2, <2>12
  <2> HIDE DEF down
  <2>14. /\ t \in Marks(ts) /\ t.cyc = down.cyc
         /\ Grey(ts, t) = Grey(ts, down) \ {id} /\ Black(ts, t) = Black(ts, down) \cup {id}
    BY <2>13, Paint DEF Grey, Black
  <2> HIDE DEF t
  <2>15. Right(ts, t)
    <3>1. CASE down.cyc
      BY <2>13, <2>14, <3>1 DEF Right
    <3>2. CASE ~down.cyc
      <4>1. Waits(ts, id) \cap Ids(ts) \subseteq Black(ts, down)
        BY <2>2, <2>13, <3>2
      <4>2. id \notin Black(ts, down) /\ Black(ts, down) \in SUBSET Ids(ts)
        BY <2>13, Colours
      <4>3. Done(ts, Black(ts, down))
        BY <2>13, <3>2 DEF Right
      <4>4. Done(ts, Black(ts, t))
        BY <2>14, <4>1, <4>2, <4>3, DoneAdd
      <4> QED BY <2>14, <3>2, <4>4 DEF Right
    <3> QED BY <3>1, <3>2
  <2> QED BY <2>1, <2>6, <2>13, <2>14, <2>15 DEF Visited
<1> QED BY <1>0, <1>1, <1>2, <1>3

\* The calls of visit by their depth: those deep enough work.
LEMMA VisitsWork ==
    ASSUME NEW ts \in Seq(Task)
    PROVE  Works(ts, visits(ts), Depth(ts))
<1> DEFINE n == Depth(ts)
           V == Visitor(ts)
           I == Ids(ts)
           M == Marks(ts)
           Next1(F) == [id \in I |-> [st \in M |-> visit(ts, F, id, st)]]
           Zero == [id \in I |-> [st \in M |-> st]]
           Lev(v, k) == [id \in I |-> [st \in M |-> IF k = 0 THEN st ELSE visit(ts, v[k - 1], id, st)]]
           G == [p \in V \X (1 .. n) |-> Next1(p[1])]
<1>0. n \in Nat
  BY IdsFinite DEF Depth
<1>1. Zero \in V
  BY DEF Visitor
<1>2. \A F \in V : Next1(F) \in V
  <2>1. \A F \in V, id \in I, st \in M : visit(ts, F, id, st) \in M
    BY VisitTyped
  <2> QED BY <2>1 DEF Visitor
<1>3. G \in [V \X (1 .. n) -> V] /\ \A F \in V, k \in 1 .. n : G[<<F, k>>] = Next1(F)
  <2> HIDE DEF V, Next1
  <2> QED BY <1>2
<1> HIDE DEF G, Next1, Zero
<1>4. PICK f : Solution(f, V, n, Zero, G)
  <2> HIDE DEF V, n
  <2> QED BY <1>0, <1>1, <1>3, Recursion
<1>5. f \in [0 .. n -> V] /\ f[0] = Zero /\ \A k \in 1 .. n : f[k] = Next1(f[k - 1])
  <2> HIDE DEF V, n
  <2>1. f \in [0 .. n -> V] /\ \A k \in 1 .. n : k - 1 \in 0 .. n
    BY <1>0, <1>4 DEF Solution
  <2>2. \A k \in 1 .. n : f[k - 1] \in V
    BY <2>1
  <2> QED BY <1>3, <1>4, <2>2 DEF Solution
<1>6. /\ \A v, k : k = 0 => Lev(v, k) = Zero
      /\ \A v, k : k # 0 => Lev(v, k) = Next1(v[k - 1])
  BY DEF Zero, Next1
<1> HIDE DEF Lev
<1>7. f = [k \in 0 .. n |-> Lev(f, k)]
  <2> HIDE DEF V, n
  <2>1. \A k \in 0 .. n : k = 0 \/ (k \in 1 .. n /\ k # 0)
    BY <1>0
  <2>2. \A k \in 0 .. n : f[k] = Lev(f, k)
    BY <1>5, <1>6, <2>1
  <2> QED BY <1>5, <2>2
<1> DEFINE v == CHOOSE v : v = [k \in 0 .. n |-> Lev(v, k)]
<1>8. v = [k \in 0 .. n |-> Lev(v, k)]
  BY <1>7, Zenon
<1>9. visits(ts) = v[n]
  BY Zenon DEF visits, Lev
<1> HIDE DEF v
<1>10. v[0] = Zero /\ \A k \in 1 .. n : v[k] = Next1(v[k - 1])
  <2> HIDE DEF n
  <2>1. 0 \in 0 .. n /\ \A k \in 1 .. n : k \in 0 .. n /\ k # 0
    BY <1>0
  <2>2. \A k \in 0 .. n : v[k] = Lev(v, k)
    BY <1>8
  <2> QED BY <1>6, <2>1, <2>2
<1> DEFINE S == {k \in Nat : k <= n => Works(ts, v[k], k)}
<1>11. 0 \in S
  <2>1. \A st \in M : Cardinality(White(ts, st)) \in Nat
    <3> SUFFICES ASSUME NEW st \in M PROVE Cardinality(White(ts, st)) \in Nat
      OBVIOUS
    <3>1. White(ts, st) \subseteq Ids(ts)
      BY DEF White, Coloured
    <3> QED BY <3>1, IdsFinite, FS_Subset, FS_CardinalityType
  <2>2. Works(ts, v[0], 0)
    BY <1>1, <1>10, <2>1 DEF Works
  <2> QED BY <2>2
<1>12. ASSUME NEW k \in Nat, k \in S PROVE k + 1 \in S
  <2> SUFFICES ASSUME k + 1 <= n PROVE Works(ts, v[k + 1], k + 1)
    OBVIOUS
  <2>1. Works(ts, v[k], k)
    BY <1>0, <1>12
  <2>2. v[k + 1] = Next1(v[k])
    <3>1. k + 1 \in 1 .. n /\ (k + 1) - 1 = k
      BY <1>0
    <3> HIDE DEF n
    <3> QED BY <1>10, <3>1
  <2>3. v[k] \in V
    BY <2>1 DEF Works
  <2>4. v[k + 1] \in Visitor(ts)
    BY <1>2, <2>2, <2>3
  <2>5. \A id \in I, st \in M : v[k + 1][id][st] = visit(ts, v[k], id, st)
    BY <2>2 DEF Next1
  <2>6. ASSUME NEW id \in I, NEW st \in M, Right(ts, st), Chain(ts, Grey(ts, st), id),
               Cardinality(White(ts, st)) < k + 1
        PROVE  Visited(ts, id, st, v[k + 1][id][st])
    BY <2>1, <2>5, <2>6, VisitWorks
  <2> QED BY <2>4, <2>6 DEF Works
<1>13. n \in S
  <2> HIDE DEF S
  <2> QED BY <1>0, <1>11, <1>12, Induction
<1> QED BY <1>0, <1>9, <1>13

\* hasCycle answers what it is asked: yes when there is a cycle, no when not.
LEMMA hasCycleExact ==
    ASSUME NEW ts \in Seq(Task)
    PROVE  hasCycle(ts) <=> ~Acyclic(ts)
<1> DEFINE F == visits(ts)
           M == Marks(ts)
           St(s, t) == IF s.color[t.id] = 0 THEN F[t.id][s] ELSE s
           g == [s \in M |-> [t \in ToSet(ts) |-> St(s, t)]]
           x == [color |-> [n \in Ids(ts) |-> 0], cyc |-> FALSE]
           Q(s, i) == Right(ts, s) /\ Grey(ts, s) = {} /\ \A j \in 1 .. i : ts[j].id \in Black(ts, s)
           P == [i \in 0 .. Len(ts) |-> {s \in M : Q(s, i)}]
           end == Thread(g, x, ts)
<1>1. hasCycle(ts) = end.cyc
  BY DEF hasCycle
<1>2. /\ ts \in Seq(ToSet(ts)) /\ DOMAIN ts = 1 .. Len(ts) /\ Len(ts) \in Nat
      /\ ToSet(ts) = {ts[i] : i \in 1 .. Len(ts)} /\ \A i \in 1 .. Len(ts) : ts[i] \in ToSet(ts)
  BY SeqOfItself
<1>3. Works(ts, F, Depth(ts))
  BY VisitsWork
<1>4. Ids(ts) = {ts[i].id : i \in 1 .. Len(ts)} /\ \A t \in ToSet(ts) : t.id \in Ids(ts)
  BY <1>2 DEF Ids
<1>5. F \in Visitor(ts)
  BY <1>3 DEF Works
<1> HIDE DEF F
<1>6. \A s \in M, t \in ToSet(ts) : St(s, t) \in M
  BY <1>4, <1>5 DEF Visitor
<1>7. g \in [M -> [ToSet(ts) -> M]] /\ \A s \in M, t \in ToSet(ts) : g[s][t] = St(s, t)
  <2> HIDE DEF St, M
  <2> QED BY <1>6
<1>8. x \in P[0]
  <2>1. x \in M
    BY DEF Marks
  <2>2. x.color = [n \in Ids(ts) |-> 0] /\ ~x.cyc
    OBVIOUS
  <2> HIDE DEF x
  <2>3. Grey(ts, x) = {} /\ Black(ts, x) = {}
    BY <2>2 DEF Grey, Black, Coloured
  <2>4. Done(ts, {})
    BY DEF Done, Free
  <2>5. Q(x, 0)
    BY <2>1, <2>2, <2>3, <2>4 DEF Right
  <2> HIDE DEF Q, M
  <2> QED BY <1>2, <2>1, <2>5
<1>9. P \in [0 .. Len(ts) -> SUBSET M]
  <2> HIDE DEF Q, M
  <2> QED OBVIOUS
<1>00. \A i \in 1 .. Len(ts) : i - 1 \in 0 .. Len(ts) /\ i \in 0 .. Len(ts)
  <2> HIDE DEF P
  <2> QED BY <1>2
<1>10. ASSUME NEW i \in 1 .. Len(ts), NEW s \in P[i - 1] PROVE g[s][ts[i]] \in P[i]
  <2> DEFINE id == ts[i].id
             r == g[s][ts[i]]
  <2>0. i - 1 \in 0 .. Len(ts) /\ i \in 0 .. Len(ts)
    <3> HIDE DEF P
    <3> QED BY <1>00
  <2>1. i - 1 \in 0 .. Len(ts) /\ i \in 0 .. Len(ts) /\ ts[i] \in ToSet(ts) /\ id \in Ids(ts)
    <3> HIDE DEF P
    <3> QED BY <1>2, <1>4, <2>0
  <2>2. s \in M /\ Q(s, i - 1)
    <3> HIDE DEF Q, M
    <3> QED BY <1>10, <2>1
  <2>3. \A j \in 1 .. i : j \in 1 .. (i - 1) \/ j = i
    BY <1>2
  <2>4. r = IF s.color[id] = 0 THEN F[id][s] ELSE s
    BY <1>7, <2>1, <2>2
  <2>5. /\ White(ts, s) = Ids(ts) \ (Grey(ts, s) \cup Black(ts, s))
        /\ Black(ts, s) \subseteq Ids(ts)
    BY <2>2, Colours
  <2>6. CASE s.color[id] = 0
    <3>1. Cardinality(White(ts, s)) < Depth(ts)
      <4>1. Cardinality(White(ts, s)) <= Cardinality(Ids(ts)) /\ Cardinality(White(ts, s)) \in Nat
        BY <2>5, IdsFinite, FS_Subset, FS_CardinalityType
      <4> QED BY <4>1, IdsFinite DEF Depth
    <3>2. Chain(ts, Grey(ts, s), id)
      BY <2>2 DEF Chain
    <3>3. Visited(ts, id, s, F[id][s])
      BY <1>3, <2>1, <2>2, <3>1, <3>2 DEF Works
    <3>4. r = F[id][s]
      BY <2>4, <2>6
    <3> HIDE DEF r
    <3>5. r \in M /\ Right(ts, r) /\ Grey(ts, r) = {} /\ id \in Black(ts, r) /\ Black(ts, s) \subseteq Black(ts, r)
      BY <2>2, <3>3, <3>4 DEF Visited, Right
    <3>6. Q(r, i)
      BY <2>2, <2>3, <3>5
    <3> HIDE DEF Q, M
    <3> QED BY <2>1, <3>5, <3>6 DEF r
  <2>7. CASE s.color[id] # 0
    <3>1. r = s
      BY <2>4, <2>7
    <3> HIDE DEF r
    <3>2. id \in Black(ts, s)
      BY <2>1, <2>2, <2>5, <2>7 DEF White, Coloured
    <3>3. Q(r, i)
      BY <2>2, <2>3, <3>1, <3>2
    <3> HIDE DEF Q, M
    <3> QED BY <2>1, <2>2, <3>1, <3>3 DEF r
  <2> QED BY <2>6, <2>7
<1>11. Kept(P, g, ts)
  <2> HIDE DEF P, g
  <2> QED BY <1>10 DEF Kept
<1>12. end \in P[Len(ts)]
  <2> HIDE DEF P, g, M, x
  <2> QED BY <1>2, <1>7, <1>8, <1>9, <1>11, ThreadInduction
<1>13. end \in M /\ Q(end, Len(ts))
  <2> HIDE DEF Q, end, M
  <2> QED BY <1>2, <1>12
<1> HIDE DEF end
<1>14. Black(ts, end) = Ids(ts)
  BY <1>4, <1>13, Colours
<1>15. CASE end.cyc
  BY <1>1, <1>13, <1>15 DEF Right
<1>16. CASE ~end.cyc
  <2>1. Free(ts, Ids(ts))
    BY <1>13, <1>14, <1>16 DEF Right, Done
  <2> QED BY <1>1, <1>16, <2>1, FreeAcyclic
<1> QED BY <1>15, <1>16

-----------------------------------------------------------------------------
(* Lists of tasks and what edits do to them.                               *)

Good(ts) == ts \in Seq(Task) /\ Unique(ts)

\* Where ids are unique, the task of an id is where it stands.
LEMMA GoodAt ==
    ASSUME NEW ts, Good(ts)
    PROVE  /\ DOMAIN ts = 1 .. Len(ts) /\ Len(ts) \in Nat /\ ts \in Seq(Task)
           /\ Ids(ts) = {ts[i].id : i \in 1 .. Len(ts)} /\ Ids(ts) \subseteq Names
           /\ \A i \in 1 .. Len(ts) : /\ ts[i] \in Task /\ ts[i].id \in Ids(ts)
                                      /\ At(ts, ts[i].id) = i /\ Deps(ts, ts[i].id) = ts[i].deps
<1>1. ts \in Seq(Task) /\ Unique(ts)
  BY DEF Good
<1>2. DOMAIN ts = 1 .. Len(ts) /\ Len(ts) \in Nat /\ \A i \in 1 .. Len(ts) : ts[i] \in Task
  BY <1>1
<1>3. Ids(ts) = {ts[i].id : i \in 1 .. Len(ts)}
  BY <1>2 DEF Ids
<1>4. Ids(ts) \subseteq Names
  BY <1>2, <1>3 DEF Task
<1>5. ASSUME NEW i \in 1 .. Len(ts)
      PROVE  /\ ts[i] \in Task /\ ts[i].id \in Ids(ts)
             /\ At(ts, ts[i].id) = i /\ Deps(ts, ts[i].id) = ts[i].deps
  <2>1. ts[i].id \in Ids(ts)
    BY <1>3
  <2>2. At(ts, ts[i].id) \in DOMAIN ts /\ ts[At(ts, ts[i].id)].id = ts[i].id
    BY <1>1, <2>1, AtFacts
  <2>3. At(ts, ts[i].id) = i
    BY <1>1, <1>2, <2>2 DEF Unique
  <2> QED BY <1>2, <2>1, <2>3 DEF Deps
<1> QED BY <1>1, <1>2, <1>3, <1>4, <1>5

\* What a list of tasks is sound by, place by place.
LEMMA SoundDeps ==
    ASSUME NEW ts, Good(ts)
    PROVE  /\ Closed(ts) <=> \A n \in Ids(ts) : Waits(ts, n) \subseteq Ids(ts)
           /\ Distinct(ts) <=> \A n \in Ids(ts) : IsInjective(Deps(ts, n))
<1>1. /\ DOMAIN ts = 1 .. Len(ts) /\ Ids(ts) = {ts[i].id : i \in 1 .. Len(ts)}
      /\ \A i \in 1 .. Len(ts) : Deps(ts, ts[i].id) = ts[i].deps
  BY GoodAt
<1>2. Closed(ts) <=> \A n \in Ids(ts) : Waits(ts, n) \subseteq Ids(ts)
  BY <1>1 DEF Closed, Waits
<1>3. Distinct(ts) <=> \A n \in Ids(ts) : IsInjective(Deps(ts, n))
  BY <1>1 DEF Distinct
<1> QED BY <1>2, <1>3

\* Fewer tasks and fewer dependencies make no cycle.
LEMMA FewerAcyclic ==
    ASSUME NEW ts, NEW us, Acyclic(ts), Ids(us) \subseteq Ids(ts),
           \A n \in Ids(us) : Waits(us, n) \subseteq Waits(ts, n)
    PROVE  Acyclic(us)
<1> SUFFICES ASSUME NEW S \in (SUBSET Ids(us)) \ {{}}, \A n \in S : Waits(us, n) \cap S # {}
             PROVE  FALSE
  BY DEF Acyclic, Waits
<1>1. S \in (SUBSET Ids(ts)) \ {{}} /\ \A n \in S : Waits(ts, n) \cap S # {}
  OBVIOUS
<1> QED BY <1>1 DEF Acyclic, Waits

\* A list that keeps the ids in their places.
LEMMA SameIds ==
    ASSUME NEW ts, Good(ts), NEW us \in Seq(Task), Len(us) = Len(ts),
           \A i \in 1 .. Len(ts) : us[i].id = ts[i].id
    PROVE  /\ Good(us) /\ Ids(us) = Ids(ts)
           /\ \A i \in 1 .. Len(ts) : Deps(us, ts[i].id) = us[i].deps
<1>1. /\ DOMAIN ts = 1 .. Len(ts) /\ Ids(ts) = {ts[i].id : i \in 1 .. Len(ts)}
      /\ DOMAIN us = 1 .. Len(ts)
  BY GoodAt
<1>2. Good(us)
  BY <1>1 DEF Good, Unique
<1>3. Ids(us) = Ids(ts)
  BY <1>1 DEF Ids
<1>4. \A i \in 1 .. Len(us) : Deps(us, us[i].id) = us[i].deps
  BY <1>2, GoodAt
<1> QED BY <1>2, <1>3, <1>4

\* Task records.
LEMMA TaskFields ==
    ASSUME NEW t \in Task
    PROVE  /\ t.id \in Names /\ t.deps \in Seq(Names) /\ t.ok \in BOOLEAN
           /\ \A ds \in Seq(Names) : LET u == [t EXCEPT !.deps = ds] IN
                 u \in Task /\ u.id = t.id /\ u.deps = ds
           /\ \A b \in BOOLEAN : LET u == [t EXCEPT !.ok = b] IN
                 u \in Task /\ u.id = t.id /\ u.deps = t.deps
           /\ \A n \in Names : LET u == [t EXCEPT !.id = n] IN
                 u \in Task /\ u.id = n /\ u.deps = t.deps
<1>1. t.id \in Names /\ t.deps \in Seq(Names) /\ t.ok \in BOOLEAN
  BY DEF Task
<1>2. ASSUME NEW ds \in Seq(Names)
      PROVE  LET u == [t EXCEPT !.deps = ds] IN u \in Task /\ u.id = t.id /\ u.deps = ds
  BY DEF Task
<1>3. ASSUME NEW b \in BOOLEAN
      PROVE  LET u == [t EXCEPT !.ok = b] IN u \in Task /\ u.id = t.id /\ u.deps = t.deps
  BY DEF Task
<1>4. ASSUME NEW n \in Names
      PROVE  LET u == [t EXCEPT !.id = n] IN u \in Task /\ u.id = n /\ u.deps = t.deps
  BY DEF Task
<1> QED BY <1>1, <1>2, <1>3, <1>4
LEMMA blankTyped ==
    ASSUME NEW id \in Names, NEW deps \in Seq(Names), NEW ok \in BOOLEAN
    PROVE  LET t == blankTask(id, deps, ok) IN t \in Task /\ t.id = id /\ t.deps = deps
BY DEF blankTask, Task

\* Other dependencies for one task.
LEMMA WithDepsFacts ==
    ASSUME NEW ts, Good(ts), NEW id \in Ids(ts), NEW deps \in Seq(Names)
    PROVE  LET us == WithDeps(ts, id, deps) IN
           /\ Good(us) /\ Ids(us) = Ids(ts) /\ Deps(us, id) = deps
           /\ \A n \in Ids(ts) : n # id => Deps(us, n) = Deps(ts, n)
<1> DEFINE us == WithDeps(ts, id, deps)
           a == At(ts, id)
<1>1. /\ DOMAIN ts = 1 .. Len(ts) /\ Len(ts) \in Nat /\ ts \in Seq(Task)
      /\ Ids(ts) = {ts[i].id : i \in 1 .. Len(ts)}
      /\ \A i \in 1 .. Len(ts) : ts[i] \in Task /\ At(ts, ts[i].id) = i /\ Deps(ts, ts[i].id) = ts[i].deps
  BY GoodAt
<1>2. a \in 1 .. Len(ts) /\ ts[a].id = id
  BY <1>1, AtFacts
<1> DEFINE t == [ts[a] EXCEPT !.deps = deps]
<1>3. t \in Task /\ t.id = id /\ t.deps = deps
  BY <1>1, <1>2, TaskFields
<1>4. us = [ts EXCEPT ![a] = t]
  BY <1>2 DEF WithDeps
<1> HIDE DEF us, t, a
<1>5. us \in Seq(Task) /\ Len(us) = Len(ts) /\ us[a] = t /\ \A i \in 1 .. Len(ts) : i # a => us[i] = ts[i]
  BY <1>1, <1>2, <1>3, <1>4
<1>6. \A i \in 1 .. Len(ts) : us[i].id = ts[i].id
  BY <1>2, <1>3, <1>5
<1>7. Good(us) /\ Ids(us) = Ids(ts) /\ \A i \in 1 .. Len(ts) : Deps(us, ts[i].id) = us[i].deps
  BY <1>5, <1>6, SameIds
<1>8. Deps(us, id) = deps
  BY <1>2, <1>3, <1>5, <1>7
<1>9. ASSUME NEW n \in Ids(ts), n # id PROVE Deps(us, n) = Deps(ts, n)
  <2>1. PICK i \in 1 .. Len(ts) : ts[i].id = n
    BY <1>1
  <2> QED BY <1>1, <1>2, <1>5, <1>7, <1>9, <2>1
<1> QED BY <1>7, <1>8, <1>9 DEF us

LEMMA WithFewerDeps ==
    ASSUME NEW ts, Good(ts), NEW id \in Ids(ts), NEW deps \in Seq(Names),
           ToSet(deps) \subseteq Waits(ts, id), IsInjective(Deps(ts, id)) => IsInjective(deps)
    PROVE  LET us == WithDeps(ts, id, deps) IN Sound(ts) => Sound(us)
<1> DEFINE us == WithDeps(ts, id, deps)
<1>1. /\ Good(us) /\ Ids(us) = Ids(ts) /\ Deps(us, id) = deps
      /\ \A n \in Ids(ts) : n # id => Deps(us, n) = Deps(ts, n)
  BY WithDepsFacts
<1> HIDE DEF us
<1>2. \A n \in Ids(us) : Waits(us, n) \subseteq Waits(ts, n)
  BY <1>1 DEF Waits
<1>3. Acyclic(ts) => Acyclic(us)
  BY <1>1, <1>2, FewerAcyclic
<1>4. Closed(ts) => Closed(us)
  BY <1>1, <1>2, SoundDeps
<1>5. Distinct(ts) => Distinct(us)
  BY <1>1, SoundDeps
<1> QED BY <1>3, <1>4, <1>5 DEF Sound, us

LEMMA WithOneMore ==
    ASSUME NEW ts, Good(ts), NEW id \in Ids(ts), NEW up \in Names, up \notin Waits(ts, id)
    PROVE  LET us == WithDeps(ts, id, Append(Deps(ts, id), up)) IN
           /\ Good(us) /\ Ids(us) = Ids(ts) /\ Deps(us, id) = Append(Deps(ts, id), up)
           /\ Sound(ts) /\ up \in Ids(ts) /\ Acyclic(us) => Sound(us)
<1> DEFINE deps == Append(Deps(ts, id), up)
           us == WithDeps(ts, id, deps)
<1>1. Deps(ts, id) \in Seq(Names)
  BY AtFacts DEF Good
<1>2. /\ deps \in Seq(Names) /\ ToSet(deps) = Waits(ts, id) \cup {up}
      /\ IsInjective(Deps(ts, id)) => IsInjective(deps)
  BY <1>1, AppendFacts, AppendSet DEF Waits
<1> HIDE DEF deps
<1>3. /\ Good(us) /\ Ids(us) = Ids(ts) /\ Deps(us, id) = deps
      /\ \A n \in Ids(ts) : n # id => Deps(us, n) = Deps(ts, n)
  BY <1>2, WithDepsFacts
<1> HIDE DEF us
<1>4. Distinct(ts) => Distinct(us)
  BY <1>2, <1>3, SoundDeps
<1>5. Closed(ts) /\ up \in Ids(ts) => Closed(us)
  <2> SUFFICES ASSUME Closed(ts), up \in Ids(ts), NEW n \in Ids(us) PROVE Waits(us, n) \subseteq Ids(us)
    BY <1>3, SoundDeps
  <2>1. Waits(ts, n) \subseteq Ids(ts) /\ Waits(ts, id) \subseteq Ids(ts)
    BY <1>3, SoundDeps
  <2> QED BY <1>2, <1>3, <2>1 DEF Waits
<1> QED BY <1>3, <1>4, <1>5 DEF Sound, us, deps

\* The same tasks with the same dependencies.
LEMMA SameDeps ==
    ASSUME NEW ts, Good(ts), NEW us, Good(us), Ids(us) = Ids(ts),
           \A n \in Ids(ts) : Deps(us, n) = Deps(ts, n), Sound(ts)
    PROVE  Sound(us)
<1>1. \A n \in Ids(us) : Waits(us, n) = Waits(ts, n)
  BY DEF Waits
<1>2. Closed(ts) /\ Acyclic(ts) /\ Distinct(ts)
  BY DEF Sound
<1>3. Acyclic(us)
  BY <1>1, <1>2, FewerAcyclic
<1>4. Closed(us) /\ Distinct(us)
  BY <1>1, <1>2, SoundDeps
<1> QED BY <1>3, <1>4 DEF Sound

LEMMA WithCommand ==
    ASSUME NEW ts, Good(ts), NEW id \in Ids(ts), NEW ok \in BOOLEAN
    PROVE  LET us == [ts EXCEPT ![At(ts, id)].ok = ok] IN
           Good(us) /\ Ids(us) = Ids(ts) /\ (Sound(ts) => Sound(us))
<1> DEFINE a == At(ts, id)
           us == [ts EXCEPT ![a].ok = ok]
           t == [ts[a] EXCEPT !.ok = ok]
<1>1. /\ DOMAIN ts = 1 .. Len(ts) /\ Len(ts) \in Nat /\ ts \in Seq(Task)
      /\ Ids(ts) = {ts[i].id : i \in 1 .. Len(ts)}
      /\ \A i \in 1 .. Len(ts) : ts[i] \in Task /\ At(ts, ts[i].id) = i /\ Deps(ts, ts[i].id) = ts[i].deps
  BY GoodAt
<1>2. a \in 1 .. Len(ts) /\ ts[a].id = id
  BY <1>1, AtFacts
<1>3. t \in Task /\ t.id = id /\ t.deps = ts[a].deps
  BY <1>1, <1>2, TaskFields
<1>4. us = [ts EXCEPT ![a] = t]
  BY <1>2
<1> HIDE DEF us, t, a
<1>5. us \in Seq(Task) /\ Len(us) = Len(ts) /\ us[a] = t /\ \A i \in 1 .. Len(ts) : i # a => us[i] = ts[i]
  BY <1>1, <1>2, <1>3, <1>4
<1>6. \A i \in 1 .. Len(ts) : us[i].id = ts[i].id /\ us[i].deps = ts[i].deps
  BY <1>2, <1>3, <1>5
<1>7. Good(us) /\ Ids(us) = Ids(ts) /\ \A i \in 1 .. Len(ts) : Deps(us, ts[i].id) = us[i].deps
  BY <1>5, <1>6, SameIds
<1>8. \A n \in Ids(ts) : Deps(us, n) = Deps(ts, n)
  BY <1>1, <1>6, <1>7
<1> QED BY <1>7, <1>8, SameDeps DEF us, a

\* One more task.
LEMMA WithTask ==
    ASSUME NEW ts, Good(ts), NEW t \in Task, t.id \notin Ids(ts)
    PROVE  LET us == Append(ts, t) IN
           /\ Good(us) /\ Ids(us) = Ids(ts) \cup {t.id}
           /\ Sound(ts) /\ ToSet(t.deps) \subseteq Ids(ts) /\ IsInjective(t.deps) => Sound(us)
<1> DEFINE us == Append(ts, t)
<1>1. /\ DOMAIN ts = 1 .. Len(ts) /\ Len(ts) \in Nat /\ ts \in Seq(Task)
      /\ Ids(ts) = {ts[i].id : i \in 1 .. Len(ts)}
      /\ \A i \in 1 .. Len(ts) : Deps(ts, ts[i].id) = ts[i].deps /\ ts[i].id \in Ids(ts)
  BY GoodAt
<1>2. /\ us \in Seq(Task) /\ Len(us) = Len(ts) + 1 /\ us[Len(ts) + 1] = t
      /\ \A i \in 1 .. Len(ts) : us[i] = ts[i]
      /\ \A i \in 1 .. Len(us) : i \in 1 .. Len(ts) \/ i = Len(ts) + 1
      /\ Len(ts) + 1 \in 1 .. Len(us) /\ \A i \in 1 .. Len(ts) : i \in 1 .. Len(us)
  BY <1>1, AppendFacts
<1> HIDE DEF us
<1>3. DOMAIN us = 1 .. Len(us)
  BY <1>2
<1>4. \A i, j \in 1 .. Len(ts) : ts[i].id = ts[j].id => i = j
  BY <1>1 DEF Good, Unique
<1>5. Unique(us)
  BY <1>1, <1>2, <1>3, <1>4 DEF Unique
<1>6. Ids(us) = Ids(ts) \cup {t.id}
  BY <1>1, <1>2, <1>3 DEF Ids
<1>7. Good(us)
  BY <1>2, <1>5 DEF Good
<1>8. \A i \in 1 .. Len(us) : Deps(us, us[i].id) = us[i].deps
  BY <1>7, GoodAt
<1>9. Deps(us, t.id) = t.deps /\ \A n \in Ids(ts) : Deps(us, n) = Deps(ts, n)
  BY <1>1, <1>2, <1>8
<1>10. ASSUME Sound(ts), ToSet(t.deps) \subseteq Ids(ts), IsInjective(t.deps) PROVE Sound(us)
  <2>1. Closed(ts) /\ Acyclic(ts) /\ Distinct(ts)
    BY <1>10 DEF Sound
  <2>2. \A n \in Ids(ts) : Waits(ts, n) \subseteq Ids(ts) /\ IsInjective(Deps(ts, n))
    BY <2>1, SoundDeps
  <2>3. \A n \in Ids(us) : Waits(us, n) \subseteq Ids(ts) /\ IsInjective(Deps(us, n))
    BY <1>6, <1>9, <1>10, <2>2 DEF Waits
  <2>4. Closed(us) /\ Distinct(us)
    BY <1>6, <1>7, <2>3, SoundDeps
  <2>5. ASSUME NEW S \in (SUBSET Ids(us)) \ {{}}, \A n \in S : Waits(us, n) \cap S # {} PROVE FALSE
    <3> DEFINE R == S \cap Ids(ts)
    <3>1. \A n \in S : Waits(us, n) \cap R # {}
      BY <2>3, <2>5
    <3>2. \A n \in R : Waits(ts, n) \cap R # {}
      BY <1>9, <3>1 DEF Waits
    <3>3. R \in (SUBSET Ids(ts)) \ {{}}
      BY <2>5, <3>1
    <3> QED BY <2>1, <3>2, <3>3 DEF Acyclic, Waits
  <2>6. Acyclic(us)
    BY <2>5 DEF Acyclic, Waits
  <2> QED BY <2>4, <2>6 DEF Sound
<1> QED BY <1>6, <1>7, <1>10 DEF us

\* Only the dependencies in T, for every task.
Thin(ts, T) == [i \in DOMAIN ts |-> [ts[i] EXCEPT !.deps = Filter(ts[i].deps, T)]]
LEMMA Thinned ==
    ASSUME NEW ts, Good(ts), NEW T
    PROVE  LET us == Thin(ts, T) IN
           /\ Good(us) /\ Ids(us) = Ids(ts)
           /\ \A n \in Ids(ts) : Waits(us, n) = Waits(ts, n) \cap T
           /\ \A n \in Ids(ts) : IsInjective(Deps(ts, n)) => IsInjective(Deps(us, n))
           /\ Acyclic(ts) => Acyclic(us)
<1> DEFINE u(i) == [ts[i] EXCEPT !.deps = Filter(ts[i].deps, T)]
           us == [i \in DOMAIN ts |-> u(i)]
<1>1. /\ DOMAIN ts = 1 .. Len(ts) /\ Len(ts) \in Nat /\ ts \in Seq(Task)
      /\ Ids(ts) = {ts[i].id : i \in 1 .. Len(ts)}
      /\ \A i \in 1 .. Len(ts) : ts[i] \in Task /\ Deps(ts, ts[i].id) = ts[i].deps
  BY GoodAt
<1>2. ASSUME NEW i \in 1 .. Len(ts)
      PROVE  /\ u(i) \in Task /\ u(i).id = ts[i].id /\ ToSet(u(i).deps) = ToSet(ts[i].deps) \cap T
             /\ IsInjective(ts[i].deps) => IsInjective(u(i).deps)
  <2>1. ts[i] \in Task /\ ts[i].deps \in Seq(Names)
    BY <1>1, TaskFields
  <2>2. /\ Filter(ts[i].deps, T) \in Seq(Names) /\ ToSet(Filter(ts[i].deps, T)) = ToSet(ts[i].deps) \cap T
        /\ IsInjective(ts[i].deps) => IsInjective(Filter(ts[i].deps, T))
    BY <2>1, FilterFacts
  <2>3. u(i) \in Task /\ u(i).id = ts[i].id /\ u(i).deps = Filter(ts[i].deps, T)
    BY <2>1, <2>2, TaskFields
  <2> HIDE DEF u
  <2> QED BY <2>2, <2>3
<1> HIDE DEF u
<1>3. us \in Seq(Task) /\ Len(us) = Len(ts) /\ \A i \in 1 .. Len(ts) : us[i] = u(i)
  BY <1>1, <1>2
<1> HIDE DEF us
<1>4. Good(us) /\ Ids(us) = Ids(ts) /\ \A i \in 1 .. Len(ts) : Deps(us, ts[i].id) = us[i].deps
  BY <1>2, <1>3, SameIds
<1>5. ASSUME NEW n \in Ids(ts)
      PROVE  /\ Waits(us, n) = Waits(ts, n) \cap T
             /\ IsInjective(Deps(ts, n)) => IsInjective(Deps(us, n))
  <2>1. PICK i \in 1 .. Len(ts) : ts[i].id = n
    BY <1>1
  <2> QED BY <1>1, <1>2, <1>3, <1>4, <2>1 DEF Waits
<1>6. Acyclic(ts) => Acyclic(us)
  BY <1>4, <1>5, FewerAcyclic
<1> QED BY <1>4, <1>5, <1>6 DEF us, u, Thin

LEMMA specTasksFacts ==
    ASSUME NEW ts, Good(ts)
    PROVE  Good(specTasks(ts)) /\ Closed(specTasks(ts)) /\ (Acyclic(ts) => Acyclic(specTasks(ts)))
<1> DEFINE us == specTasks(ts)
<1>1. us = Thin(ts, Ids(ts))
  BY DEF specTasks, Known, Thin
<1> HIDE DEF us
<1>2. /\ Good(us) /\ Ids(us) = Ids(ts) /\ (Acyclic(ts) => Acyclic(us))
      /\ \A n \in Ids(ts) : Waits(us, n) = Waits(ts, n) \cap Ids(ts)
  BY <1>1, Thinned
<1>3. Closed(us)
  BY <1>2, SoundDeps
<1> QED BY <1>2, <1>3 DEF us

\* A task is gone, and with it the dependencies on it.
LEMMA WithoutTask ==
    ASSUME NEW ts, Good(ts), NEW id
    PROVE  LET left == Without(ts, id)
               us == [i \in DOMAIN left |-> [left[i] EXCEPT !.deps = Filter(@, Names \ {id})]]
           IN  Good(us) /\ Ids(us) = Ids(ts) \ {id} /\ (Sound(ts) => Sound(us))
<1> DEFINE left == Without(ts, id)
           us == [i \in DOMAIN left |-> [left[i] EXCEPT !.deps = Filter(@, Names \ {id})]]
           T == {t \in ToSet(ts) : t.id # id}
<1>1. /\ DOMAIN ts = 1 .. Len(ts) /\ Len(ts) \in Nat /\ ts \in Seq(Task) /\ Ids(ts) \subseteq Names
      /\ Ids(ts) = {ts[i].id : i \in 1 .. Len(ts)}
      /\ \A i \in 1 .. Len(ts) : ts[i] \in Task /\ Deps(ts, ts[i].id) = ts[i].deps
  BY GoodAt
<1>2. ToSet(ts) = {ts[i] : i \in 1 .. Len(ts)}
  BY <1>1, SeqOfItself
<1>3. \A i, j \in 1 .. Len(ts) : ts[i].id = ts[j].id => i = j
  BY <1>1 DEF Good, Unique
<1>4. IsInjective(ts)
  BY <1>1, <1>3 DEF IsInjective
<1>5. left \in Seq(Task) /\ ToSet(left) = T /\ IsInjective(left)
  <2>1. left = Filter(ts, T)
    BY DEF Without
  <2>2. Filter(ts, T) \in Seq(Task) /\ ToSet(Filter(ts, T)) = ToSet(ts) \cap T /\ IsInjective(Filter(ts, T))
    BY <1>1, <1>4, FilterFacts
  <2> QED BY <2>1, <2>2
<1> HIDE DEF left, us
<1>6. DOMAIN left = 1 .. Len(left) /\ \A i \in 1 .. Len(left) : left[i] \in T
  BY <1>5, SeqOfItself
<1>7. \A s, t \in ToSet(ts) : s.id = t.id => s = t
  BY <1>2, <1>3
<1>8. Unique(left)
  BY <1>5, <1>6, <1>7 DEF Unique, IsInjective
<1>9. Good(left)
  BY <1>5, <1>8 DEF Good
<1>10. Ids(left) = Ids(ts) \ {id}
  <2>1. Ids(left) = {t.id : t \in ToSet(left)}
    BY DEF Ids, ToSet
  <2>2. Ids(ts) = {t.id : t \in ToSet(ts)}
    BY DEF Ids, ToSet
  <2> QED BY <1>5, <2>1, <2>2
<1>11. \A n \in Ids(left) : Deps(left, n) = Deps(ts, n)
  <2> SUFFICES ASSUME NEW n \in Ids(left) PROVE Deps(left, n) = Deps(ts, n)
    OBVIOUS
  <2>1. PICK i \in 1 .. Len(left) : left[i].id = n /\ Deps(left, n) = left[i].deps
    BY <1>9, GoodAt
  <2>2. PICK j \in 1 .. Len(ts) : ts[j] = left[i]
    BY <1>2, <1>6
  <2> QED BY <1>1, <2>1, <2>2
<1>12. us = Thin(left, Names \ {id})
  BY DEF us, Thin
<1>13. /\ Good(us) /\ Ids(us) = Ids(left) /\ (Acyclic(left) => Acyclic(us))
       /\ \A n \in Ids(left) : /\ Waits(us, n) = Waits(left, n) \cap (Names \ {id})
                               /\ IsInjective(Deps(left, n)) => IsInjective(Deps(us, n))
  BY <1>9, <1>12, Thinned
<1>14. ASSUME Sound(ts) PROVE Sound(us)
  <2>1. Closed(ts) /\ Acyclic(ts) /\ Distinct(ts)
    BY <1>14 DEF Sound
  <2>2. \A n \in Ids(ts) : Waits(ts, n) \subseteq Ids(ts) /\ IsInjective(Deps(ts, n))
    BY <2>1, SoundDeps
  <2>3. Acyclic(left)
    BY <1>10, <1>11, <2>1, FewerAcyclic DEF Waits
  <2>4. \A n \in Ids(us) : Waits(us, n) \subseteq Ids(us) /\ IsInjective(Deps(us, n))
    BY <1>10, <1>11, <1>13, <2>2 DEF Waits
  <2>5. Closed(us) /\ Distinct(us)
    BY <1>13, <2>4, SoundDeps
  <2> QED BY <1>13, <2>3, <2>5 DEF Sound
<1> QED BY <1>10, <1>13, <1>14 DEF us, left
\* A list without the first e.
LEMMA RemoveFirstFacts ==
    ASSUME NEW X, NEW s \in Seq(X), NEW e
    PROVE  LET r == RemoveFirst(s, e) IN
           /\ r \in Seq(X)
           /\ \/ r = s /\ \A i \in 1 .. Len(s) : s[i] # e
              \/ \E k \in 1 .. Len(s) :
                    /\ s[k] = e /\ Len(r) = Len(s) - 1
                    /\ \A i \in 1 .. Len(r) : r[i] = IF i < k THEN s[i] ELSE s[i + 1]
<1>1. CASE \A i \in 1 .. Len(s) : s[i] # e
  BY <1>1 DEF RemoveFirst
<1>2. CASE \E i \in 1 .. Len(s) : s[i] = e
  <2> DEFINE I == {i \in 1 .. Len(s) : s[i] = e}
             k == Min(I)
  <2>0. I \subseteq Nat /\ I # {}
    BY <1>2
  <2>1. k \in I
    BY <2>0, MinLeast
  <2>2. RemoveFirst(s, e) = SubSeq(s, 1, k - 1) \o SubSeq(s, k + 1, Len(s))
    BY <1>2 DEF RemoveFirst, RemoveAt, SelectInSeq
  <2> HIDE DEF k
  <2>3. k \in 1 .. Len(s) /\ s[k] = e
    BY <2>1
  <2>4. SubSeq(s, 1, k - 1) \in Seq(X) /\ SubSeq(s, k + 1, Len(s)) \in Seq(X)
    BY <2>3
  <2>5. Len(SubSeq(s, 1, k - 1)) = k - 1 /\ Len(SubSeq(s, k + 1, Len(s))) = Len(s) - k
    BY <2>3
  <2>6. /\ \A i \in 1 .. (k - 1) : SubSeq(s, 1, k - 1)[i] = s[i]
        /\ \A i \in 1 .. (Len(s) - k) : SubSeq(s, k + 1, Len(s))[i] = s[k + i]
    BY <2>3
  <2> DEFINE a == SubSeq(s, 1, k - 1)
             b == SubSeq(s, k + 1, Len(s))
  <2>7. a \in Seq(X) /\ b \in Seq(X) /\ Len(a) = k - 1 /\ Len(b) = Len(s) - k
    BY <2>4, <2>5
  <2>8. (\A i \in 1 .. (k - 1) : a[i] = s[i]) /\ \A i \in 1 .. (Len(s) - k) : b[i] = s[k + i]
    BY <2>6
  <2> HIDE DEF a, b
  <2>9. a \o b \in Seq(X) /\ Len(a \o b) = Len(s) - 1
    BY <2>3, <2>7
  <2>10. \A i \in 1 .. (Len(s) - 1) : (a \o b)[i] = IF i < k THEN s[i] ELSE s[i + 1]
    BY <2>3, <2>7, <2>8
  <2>11. RemoveFirst(s, e) = a \o b
    BY <2>2 DEF a, b
  <2> QED BY <2>3, <2>9, <2>10, <2>11
<1> QED BY <1>1, <1>2

LEMMA RemoveFirstSet ==
    ASSUME NEW X, NEW s \in Seq(X), NEW e
    PROVE  LET r == RemoveFirst(s, e) IN
           /\ r \in Seq(X) /\ ToSet(r) \subseteq ToSet(s)
           /\ IsInjective(s) => IsInjective(r)
           /\ Contains(s, e) => r # s
<1> DEFINE r == RemoveFirst(s, e)
<1>1. /\ r \in Seq(X)
      /\ \/ r = s /\ \A i \in 1 .. Len(s) : s[i] # e
         \/ \E k \in 1 .. Len(s) :
               /\ s[k] = e /\ Len(r) = Len(s) - 1
               /\ \A i \in 1 .. Len(r) : r[i] = IF i < k THEN s[i] ELSE s[i + 1]
  BY RemoveFirstFacts
<1> HIDE DEF r
<1>2. DOMAIN s = 1 .. Len(s) /\ DOMAIN r = 1 .. Len(r) /\ Len(s) \in Nat /\ Len(r) \in Nat
  BY <1>1
<1>3. CASE r = s /\ \A i \in 1 .. Len(s) : s[i] # e
  BY <1>1, <1>3 DEF Contains, r
<1>4. ASSUME NEW k \in 1 .. Len(s), s[k] = e, Len(r) = Len(s) - 1,
             \A i \in 1 .. Len(r) : r[i] = IF i < k THEN s[i] ELSE s[i + 1]
      PROVE  /\ r \in Seq(X) /\ ToSet(r) \subseteq ToSet(s)
             /\ IsInjective(s) => IsInjective(r)
             /\ Contains(s, e) => r # s
  <2> DEFINE w(i) == IF i < k THEN i ELSE i + 1
  <2>1. \A i \in 1 .. Len(r) : w(i) \in 1 .. Len(s) /\ r[i] = s[w(i)]
    BY <1>2, <1>4
  <2>2. \A i, j \in 1 .. Len(r) : w(i) = w(j) => i = j
    BY <1>2, <1>4
  <2> HIDE DEF w
  <2>3. ToSet(r) \subseteq ToSet(s)
    BY <1>2, <2>1 DEF ToSet
  <2>4. IsInjective(s) => IsInjective(r)
    BY <1>2, <2>1, <2>2 DEF IsInjective
  <2>5. r # s
    BY <1>2, <1>4
  <2> QED BY <1>1, <2>3, <2>4, <2>5
<1> QED BY <1>1, <1>3, <1>4 DEF r

\* A dependency list in which the first old is now new.
Follow(ds, old, new) == ReplaceAt(ds, SelectInSeq(ds, LAMBDA d : d = old), new)
LEMMA FollowFacts ==
    ASSUME NEW ds \in Seq(Names), NEW old, NEW new \in Names, Contains(ds, old)
    PROVE  /\ Follow(ds, old, new) \in Seq(Names)
           /\ IsInjective(ds) /\ new \notin ToSet(ds)
              => /\ ToSet(Follow(ds, old, new)) = (ToSet(ds) \ {old}) \cup {new}
                 /\ IsInjective(Follow(ds, old, new))
<1> DEFINE I == {i \in 1 .. Len(ds) : ds[i] = old}
           k == Min(I)
           r == [ds EXCEPT ![k] = new]
<1>1. I \subseteq Nat /\ I # {}
  BY DEF Contains
<1>2. k \in I
  BY <1>1, MinLeast
<1>3. Follow(ds, old, new) = r
  BY <1>1 DEF Follow, ReplaceAt, SelectInSeq
<1> HIDE DEF k
<1>4. k \in 1 .. Len(ds) /\ ds[k] = old /\ DOMAIN ds = 1 .. Len(ds)
  BY <1>2
<1>5. r \in Seq(Names) /\ DOMAIN r = 1 .. Len(ds) /\ r[k] = new /\ \A i \in 1 .. Len(ds) : i # k => r[i] = ds[i]
  BY <1>4
<1> HIDE DEF r
<1>6. ASSUME IsInjective(ds), new \notin ToSet(ds)
      PROVE  ToSet(r) = (ToSet(ds) \ {old}) \cup {new} /\ IsInjective(r)
  <2>1. \A i \in 1 .. Len(ds) : ds[i] = old => i = k
    BY <1>4, <1>6 DEF IsInjective
  <2>2. \A i \in 1 .. Len(ds) : ds[i] # new
    BY <1>4, <1>6 DEF ToSet
  <2>3. ToSet(r) = (ToSet(ds) \ {old}) \cup {new}
    BY <1>4, <1>5, <2>1 DEF ToSet
  <2>4. IsInjective(r)
    BY <1>4, <1>5, <1>6, <2>2 DEF IsInjective
  <2> QED BY <2>3, <2>4
<1> QED BY <1>3, <1>5, <1>6

\* A task has a new id, which the dependencies follow.
LEMMA RenamedFacts ==
    ASSUME NEW ts, Good(ts), NEW old \in Ids(ts), NEW new \in Names \ Ids(ts)
    PROVE  LET us == Renamed(ts, old, new) IN
           Good(us) /\ Ids(us) = (Ids(ts) \ {old}) \cup {new} /\ (Sound(ts) => Sound(us))
<1> DEFINE us == Renamed(ts, old, new)
           u(i) == IF ts[i].id = old THEN [ts[i] EXCEPT !.id = new]
                   ELSE IF Contains(ts[i].deps, old)
                        THEN [ts[i] EXCEPT !.deps = Follow(ts[i].deps, old, new)]
                        ELSE ts[i]
           phi(n) == IF n = old THEN new ELSE n
<1>1. /\ DOMAIN ts = 1 .. Len(ts) /\ Len(ts) \in Nat /\ ts \in Seq(Task)
      /\ Ids(ts) = {ts[i].id : i \in 1 .. Len(ts)}
      /\ \A i \in 1 .. Len(ts) : ts[i] \in Task /\ ts[i].id \in Ids(ts) /\ Deps(ts, ts[i].id) = ts[i].deps
  BY GoodAt
<1>2. us = [i \in DOMAIN ts |-> u(i)]
  BY DEF Renamed, Follow
<1>3. ASSUME NEW i \in 1 .. Len(ts)
      PROVE  /\ u(i) \in Task /\ u(i).id = phi(ts[i].id)
             /\ ts[i].id = old => u(i).deps = ts[i].deps
             /\ ts[i].id # old /\ Contains(ts[i].deps, old) => u(i).deps = Follow(ts[i].deps, old, new)
             /\ ts[i].id # old /\ ~Contains(ts[i].deps, old) => u(i).deps = ts[i].deps
  <2> DEFINE t == ts[i]
  <2>0. t \in Task /\ t.deps \in Seq(Names)
    BY <1>1, TaskFields
  <2>1. CASE t.id = old
    <3>1. u(i) = [t EXCEPT !.id = new]
      BY <2>1
    <3> HIDE DEF u, t
    <3>2. u(i) \in Task /\ u(i).id = new /\ u(i).deps = t.deps
      BY <2>0, <3>1, TaskFields
    <3> QED BY <2>1, <3>2 DEF t
  <2>2. CASE t.id # old /\ Contains(t.deps, old)
    <3>1. u(i) = [t EXCEPT !.deps = Follow(t.deps, old, new)]
      BY <2>2
    <3>2. Follow(t.deps, old, new) \in Seq(Names)
      BY <2>0, <2>2, FollowFacts
    <3> HIDE DEF u, t
    <3>3. u(i) \in Task /\ u(i).id = t.id /\ u(i).deps = Follow(t.deps, old, new)
      BY <2>0, <3>1, <3>2, TaskFields
    <3> QED BY <2>2, <3>3 DEF t
  <2>3. CASE t.id # old /\ ~Contains(t.deps, old)
    <3>1. u(i) = t
      BY <2>3
    <3> HIDE DEF u
    <3> QED BY <2>0, <2>3, <3>1
  <2> QED BY <2>1, <2>2, <2>3
<1> HIDE DEF u, us
<1>4. us \in Seq(Task) /\ Len(us) = Len(ts) /\ DOMAIN us = 1 .. Len(ts) /\ \A i \in 1 .. Len(ts) : us[i] = u(i)
  <2>1. \A i \in 1 .. Len(ts) : u(i) \in Task
    BY <1>3
  <2>2. us = [i \in 1 .. Len(ts) |-> u(i)] /\ Len(ts) \in Nat
    BY <1>1, <1>2
  <2>3. us \in [1 .. Len(ts) -> Task] /\ \A i \in 1 .. Len(ts) : us[i] = u(i)
    BY <2>1, <2>2
  <2> QED BY <2>2, <2>3
<1>5. \A m, n \in Ids(ts) : phi(m) = phi(n) => m = n
  OBVIOUS
<1>6. Ids(us) = {phi(n) : n \in Ids(ts)}
  <2> HIDE DEF phi
  <2> QED BY <1>1, <1>3, <1>4 DEF Ids
<1>7. Unique(us)
  <2> HIDE DEF phi
  <2>1. \A i, j \in 1 .. Len(ts) : ts[i].id = ts[j].id => i = j
    BY <1>1 DEF Good, Unique
  <2> QED BY <1>1, <1>3, <1>4, <1>5, <2>1 DEF Unique
<1>8. Good(us)
  BY <1>4, <1>7 DEF Good
<1>9. Ids(us) = (Ids(ts) \ {old}) \cup {new}
  BY <1>6
<1>10. \A i \in 1 .. Len(ts) : Deps(us, us[i].id) = u(i).deps
  BY <1>4, <1>8, GoodAt
<1>11. ASSUME Sound(ts) PROVE Sound(us)
  <2>1. Closed(ts) /\ Acyclic(ts) /\ Distinct(ts)
    BY <1>11 DEF Sound
  <2>2. \A n \in Ids(ts) : Waits(ts, n) \subseteq Ids(ts) /\ IsInjective(Deps(ts, n))
    BY <2>1, SoundDeps
  <2>3. old \notin Waits(ts, old)
    <3>1. {old} \in (SUBSET Ids(ts)) \ {{}}
      OBVIOUS
    <3> QED BY <2>1, <3>1 DEF Acyclic, Waits
  <2>4. ASSUME NEW n \in Ids(ts)
        PROVE  Waits(us, phi(n)) = {phi(d) : d \in Waits(ts, n)} /\ IsInjective(Deps(us, phi(n)))
    <3>1. PICK i \in 1 .. Len(ts) : ts[i].id = n
      BY <1>1
    <3> DEFINE ds == ts[i].deps
    <3>2. ds \in Seq(Names) /\ Deps(ts, n) = ds
      BY <1>1, <3>1, TaskFields
    <3>3. Waits(ts, n) = ToSet(ds) /\ ToSet(ds) \subseteq Ids(ts) /\ IsInjective(ds)
      BY <2>2, <3>2 DEF Waits
    <3>4. Deps(us, phi(n)) = u(i).deps
      BY <1>3, <1>4, <1>10, <3>1
    <3>5. Contains(ds, old) <=> old \in ToSet(ds)
      BY <3>2 DEF Contains, ToSet
    <3>6. CASE n # old /\ Contains(ds, old)
      <4>1. u(i).deps = Follow(ds, old, new)
        BY <1>3, <3>1, <3>6
      <4>2. ToSet(Follow(ds, old, new)) = (ToSet(ds) \ {old}) \cup {new} /\ IsInjective(Follow(ds, old, new))
        BY <3>2, <3>3, <3>6, FollowFacts
      <4>3. {phi(d) : d \in ToSet(ds)} = (ToSet(ds) \ {old}) \cup {new}
        BY <3>5, <3>6
      <4> HIDE DEF phi
      <4> QED BY <3>3, <3>4, <4>1, <4>2, <4>3 DEF Waits
    <3>7. CASE n = old \/ ~Contains(ds, old)
      <4>1. u(i).deps = ds
        BY <1>3, <3>1, <3>7
      <4>2. old \notin ToSet(ds)
        BY <2>3, <3>3, <3>5, <3>7
      <4>3. {phi(d) : d \in ToSet(ds)} = ToSet(ds)
        BY <4>2
      <4> HIDE DEF phi
      <4> QED BY <3>3, <3>4, <4>1, <4>3 DEF Waits
    <3> QED BY <3>6, <3>7
  <2>5. Closed(us) /\ Distinct(us)
    <3> HIDE DEF phi
    <3>1. \A m \in Ids(us) : Waits(us, m) \subseteq Ids(us) /\ IsInjective(Deps(us, m))
      BY <1>6, <2>2, <2>4
    <3> QED BY <1>8, <3>1, SoundDeps
  <2>6. ASSUME NEW S \in (SUBSET Ids(us)) \ {{}}, \A m \in S : Waits(us, m) \cap S # {} PROVE FALSE
    <3> HIDE DEF phi
    <3> DEFINE R == {n \in Ids(ts) : phi(n) \in S}
    <3>1. R \in (SUBSET Ids(ts)) \ {{}}
      BY <1>6, <2>6
    <3>2. ASSUME NEW n \in R PROVE Waits(ts, n) \cap R # {}
      <4>1. PICK m \in Waits(us, phi(n)) : m \in S
        BY <2>6
      <4>2. PICK d \in Waits(ts, n) : m = phi(d)
        BY <2>4, <4>1
      <4> QED BY <2>2, <4>1, <4>2
    <3> QED BY <2>1, <3>1, <3>2 DEF Acyclic, Waits
  <2>7. Acyclic(us)
    BY <2>6 DEF Acyclic, Waits
  <2> QED BY <2>1, <2>5, <2>7 DEF Sound
<1> QED BY <1>8, <1>9, <1>11 DEF us

-----------------------------------------------------------------------------
(* The order of the tasks.                                                 *)

\* A list of tasks, each listed once and after what it waits for.
Ordered(ts, o) ==
    \A i \in 1 .. Len(o) : \A d \in ToSet(o[i].deps) \cap Ids(ts) : \E j \in 1 .. (i - 1) : o[j].id = d
Listing(ts, o) == o \in Seq(ToSet(ts)) /\ IsInjective(o) /\ Ordered(ts, o)

LEMMA InjectiveSize ==
    ASSUME NEW E, NEW s \in Seq(E), IsInjective(s)
    PROVE  IsFiniteSet(ToSet(s)) /\ Cardinality(ToSet(s)) = Len(s)
<1>1. DOMAIN s = 1 .. Len(s) /\ Len(s) \in Nat
  OBVIOUS
<1>2. s \in Bijection(1 .. Len(s), ToSet(s))
  BY <1>1 DEF Bijection, Injection, Surjection, ToSet, IsInjective
<1>3. IsFiniteSet(1 .. Len(s)) /\ Cardinality(1 .. Len(s)) = Len(s)
  BY <1>1, FS_Interval
<1>4. ExistsBijection(1 .. Len(s), ToSet(s))
  BY <1>2 DEF ExistsBijection
<1> QED BY <1>3, <1>4, FS_Bijection

\* A pass keeps a listing, and adds every task that is ready.
LEMMA PassFacts ==
    ASSUME NEW ts \in Seq(Task), NEW out, Listing(ts, out)
    PROVE  LET r == Pass(ts, out) IN
           /\ Listing(ts, r) /\ ToSet(out) \subseteq ToSet(r)
           /\ r = out \/ Len(r) > Len(out)
           /\ \A t \in ToSet(ts) : Ready(ts, out, t) => t \in ToSet(r)
<1> DEFINE D == ToSet(ts)
           St(o, t) == IF Ready(ts, o, t) THEN Append(o, t) ELSE o
           g == [o \in Seq(D) |-> [t \in D |-> St(o, t)]]
           Q(o, i) == /\ Listing(ts, o) /\ ToSet(out) \subseteq ToSet(o)
                      /\ o = out \/ Len(o) > Len(out)
                      /\ \A j \in 1 .. i : Ready(ts, out, ts[j]) => ts[j] \in ToSet(o)
           P == [i \in 0 .. Len(ts) |-> {o \in Seq(D) : Q(o, i)}]
<1>1. /\ ts \in Seq(D) /\ D \subseteq Task /\ Len(ts) \in Nat /\ DOMAIN ts = 1 .. Len(ts)
      /\ D = {ts[i] : i \in 1 .. Len(ts)} /\ \A i \in 1 .. Len(ts) : ts[i] \in D
  BY SeqOfItself
<1>0. out \in Seq(D)
  BY DEF Listing
<1> HIDE DEF D
<1>2. g \in [Seq(D) -> [D -> Seq(D)]] /\ \A o \in Seq(D), t \in D : g[o][t] = St(o, t)
  <2>1. \A o \in Seq(D), t \in D : St(o, t) \in Seq(D)
    OBVIOUS
  <2> HIDE DEF St
  <2> QED BY <2>1
<1>3. out \in P[0]
  <2>1. Q(out, 0)
    OBVIOUS
  <2> HIDE DEF Q
  <2> QED BY <1>0, <1>1, <2>1
<1>4. P \in [0 .. Len(ts) -> SUBSET Seq(D)]
  <2> HIDE DEF Q
  <2> QED OBVIOUS
<1>5. ASSUME NEW i \in 1 .. Len(ts), NEW o \in P[i - 1] PROVE g[o][ts[i]] \in P[i]
  <2> DEFINE e == ts[i]
             r == St(o, e)
  <2>1. i - 1 \in 0 .. Len(ts) /\ i \in 0 .. Len(ts) /\ e \in D
    BY <1>1
  <2>2. o \in Seq(D) /\ Q(o, i - 1)
    <3> HIDE DEF Q
    <3> QED BY <1>5, <2>1
  <2>3. g[o][e] = r
    BY <1>2, <2>1, <2>2
  <2>4. \A j \in 1 .. i : j \in 1 .. (i - 1) \/ j = i
    BY <2>1
  <2>5. DOMAIN o = 1 .. Len(o) /\ Len(o) \in Nat /\ DOMAIN out = 1 .. Len(out) /\ Len(out) \in Nat
    BY <1>0, <2>2
  <2> HIDE DEF g
  <2>6. CASE Ready(ts, o, e)
    <3>1. /\ Append(o, e) \in Seq(D) /\ ToSet(Append(o, e)) = ToSet(o) \cup {e}
          /\ IsInjective(o) /\ e \notin ToSet(o) => IsInjective(Append(o, e))
      BY <2>1, <2>2, AppendSet, AppendFacts
    <3>2. /\ Len(Append(o, e)) = Len(o) + 1 /\ Append(o, e)[Len(o) + 1] = e
          /\ \A k \in 1 .. Len(o) : Append(o, e)[k] = o[k]
          /\ \A k \in 1 .. Len(Append(o, e)) : k \in 1 .. Len(o) \/ k = Len(o) + 1
      BY <2>1, <2>2, AppendFacts
    <3>3. r = Append(o, e)
      BY <2>6
    <3> HIDE DEF r, e
    <3>4. e \notin ToSet(o) /\ \A d \in ToSet(e.deps) \cap Ids(ts) : \E k \in 1 .. Len(o) : o[k].id = d
      BY <2>5, <2>6 DEF Ready, Contains, ToSet, Ids
    <3>5. Listing(ts, o) /\ Ordered(ts, o)
      BY <2>2 DEF Listing
    <3>6. Ordered(ts, r)
      <4> SUFFICES ASSUME NEW k \in 1 .. Len(r), NEW d \in ToSet(r[k].deps) \cap Ids(ts)
                   PROVE  \E j \in 1 .. (k - 1) : r[j].id = d
        BY DEF Ordered
      <4>1. CASE k \in 1 .. Len(o)
        <5>1. PICK j \in 1 .. (k - 1) : o[j].id = d
          BY <3>2, <3>3, <3>5, <4>1 DEF Ordered
        <5>2. j \in 1 .. Len(o)
          BY <2>5, <4>1
        <5> QED BY <3>2, <3>3, <5>1, <5>2
      <4>2. CASE k = Len(o) + 1
        <5>1. PICK j \in 1 .. Len(o) : o[j].id = d
          BY <3>2, <3>3, <3>4, <4>2
        <5>2. k - 1 = Len(o)
          BY <2>5, <4>2
        <5> QED BY <3>2, <3>3, <5>1, <5>2
      <4> QED BY <3>2, <3>3, <4>1, <4>2
    <3>7. Listing(ts, r)
      BY <3>1, <3>3, <3>4, <3>5, <3>6 DEF Listing, D
    <3>8. Len(r) > Len(out)
      BY <2>2, <2>5, <3>2, <3>3
    <3>9. ToSet(out) \subseteq ToSet(r) /\ \A j \in 1 .. i : Ready(ts, out, ts[j]) => ts[j] \in ToSet(r)
      BY <2>2, <2>4, <3>1, <3>3 DEF e
    <3>10. r \in Seq(D) /\ Q(r, i)
      BY <3>1, <3>3, <3>7, <3>8, <3>9
    <3> HIDE DEF Q
    <3> QED BY <2>1, <2>3, <3>10 DEF e
  <2>7. CASE ~Ready(ts, o, e)
    <3>1. r = o
      BY <2>7
    <3> HIDE DEF r
    <3>2. Ready(ts, out, e) => e \in ToSet(o)
      <4>1. ToSet(out) \subseteq ToSet(o)
        BY <2>2
      <4>2. Ids(out) \subseteq Ids(o)
        BY <4>1 DEF Ids, ToSet
      <4>3. Contains(o, e) <=> e \in ToSet(o)
        BY <2>5 DEF Contains, ToSet
      <4>4. Contains(out, e) <=> e \in ToSet(out)
        BY <2>5 DEF Contains, ToSet
      <4> HIDE DEF e
      <4> QED BY <2>7, <4>1, <4>2, <4>3, <4>4 DEF Ready
    <3>3. \A j \in 1 .. i : Ready(ts, out, ts[j]) => ts[j] \in ToSet(o)
      BY <2>2, <2>4, <3>2
    <3>4. Q(r, i)
      BY <2>2, <3>1, <3>3
    <3> HIDE DEF Q
    <3> QED BY <2>1, <2>2, <2>3, <3>1, <3>4
  <2> QED BY <2>6, <2>7
<1>6. Kept(P, g, ts)
  <2> HIDE DEF P, g
  <2> QED BY <1>5 DEF Kept
<1>7. Pass(ts, out) = Thread(g, out, ts)
  BY DEF Pass, D
<1>8. Thread(g, out, ts) \in P[Len(ts)]
  <2> HIDE DEF P, g
  <2> QED BY <1>1, <1>2, <1>3, <1>4, <1>6, ThreadInduction
<1>9. Q(Pass(ts, out), Len(ts))
  <2> HIDE DEF Q, g
  <2> QED BY <1>1, <1>7, <1>8
<1> QED BY <1>1, <1>9 DEF D

LEMMA PassTyped ==
    ASSUME NEW ts \in Seq(Task), NEW out \in Seq(ToSet(ts))
    PROVE  Pass(ts, out) \in Seq(ToSet(ts))
<1> DEFINE D == ToSet(ts)
           St(o, t) == IF Ready(ts, o, t) THEN Append(o, t) ELSE o
           g == [o \in Seq(D) |-> [t \in D |-> St(o, t)]]
           P == [i \in 0 .. Len(ts) |-> Seq(D)]
<1>1. ts \in Seq(D) /\ Len(ts) \in Nat /\ \A i \in 1 .. Len(ts) : ts[i] \in D
  BY SeqOfItself
<1> HIDE DEF D
<1>2. g \in [Seq(D) -> [D -> Seq(D)]]
  <2>1. \A o \in Seq(D), t \in D : St(o, t) \in Seq(D)
    OBVIOUS
  <2> HIDE DEF St
  <2> QED BY <2>1
<1>3. P \in [0 .. Len(ts) -> SUBSET Seq(D)] /\ out \in P[0] /\ P[Len(ts)] = Seq(D)
  BY <1>1 DEF D
<1>4. Kept(P, g, ts)
  <2> SUFFICES ASSUME NEW i \in 1 .. Len(ts), NEW y \in P[i - 1] PROVE g[y][ts[i]] \in P[i]
    BY DEF Kept
  <2>1. i - 1 \in 0 .. Len(ts) /\ i \in 0 .. Len(ts)
    BY <1>1
  <2> HIDE DEF g
  <2> QED BY <1>1, <1>2, <2>1
<1>5. Pass(ts, out) = Thread(g, out, ts)
  BY DEF Pass, D
<1>6. Thread(g, out, ts) \in P[Len(ts)]
  <2> HIDE DEF P, g
  <2> QED BY <1>1, <1>2, <1>3, <1>4, ThreadInduction
<1> QED BY <1>3, <1>5, <1>6 DEF D

\* While tasks are missing from a listing of a graph without cycles, one is
\* ready.
LEMMA SomeReady ==
    ASSUME NEW ts, Good(ts), Acyclic(ts), NEW out, Listing(ts, out), ToSet(out) # ToSet(ts)
    PROVE  \E t \in ToSet(ts) : Ready(ts, out, t) /\ t \notin ToSet(out)
<1> DEFINE S == {t.id : t \in ToSet(ts) \ ToSet(out)}
<1>1. /\ DOMAIN ts = 1 .. Len(ts) /\ ts \in Seq(Task) /\ Ids(ts) = {ts[i].id : i \in 1 .. Len(ts)}
      /\ \A i \in 1 .. Len(ts) : Deps(ts, ts[i].id) = ts[i].deps
  BY GoodAt
<1>2. ToSet(ts) = {ts[i] : i \in 1 .. Len(ts)}
  BY <1>1, SeqOfItself
<1>3. out \in Seq(ToSet(ts)) /\ ToSet(out) \subseteq ToSet(ts) /\ DOMAIN out = 1 .. Len(out)
  BY SeqOfItself DEF Listing
<1>4. Ids(ts) = {t.id : t \in ToSet(ts)} /\ Ids(out) = {t.id : t \in ToSet(out)}
  BY DEF Ids, ToSet
<1>5. S \in (SUBSET Ids(ts)) \ {{}}
  <2>1. PICK t \in ToSet(ts) : t \notin ToSet(out)
    BY <1>3
  <2>2. t.id \in S
    BY <2>1
  <2>3. S \subseteq Ids(ts)
    BY <1>4
  <2> QED BY <2>2, <2>3
<1>6. PICK n \in S : Waits(ts, n) \cap S = {}
  BY <1>5 DEF Acyclic, Waits
<1>7. PICK t \in ToSet(ts) \ ToSet(out) : t.id = n
  BY <1>6
<1>8. Waits(ts, n) = ToSet(t.deps)
  BY <1>1, <1>2, <1>7 DEF Waits
<1>9. \A d \in ToSet(t.deps) : d \in Ids(out) \/ d \notin Ids(ts)
  BY <1>4, <1>6, <1>8
<1>10. ~Contains(out, t)
  BY <1>3, <1>7 DEF Contains, ToSet
<1> QED BY <1>7, <1>9, <1>10 DEF Ready

\* The passes together: without a cycle every one of them adds a task until
\* all are listed.
Passes(ts) == Thread([o \in Seq(ToSet(ts)) |-> [t \in ToSet(ts) |-> Pass(ts, o)]], <<>>, ts)
LEMMA PassesFacts ==
    ASSUME NEW ts, Good(ts)
    PROVE  Listing(ts, Passes(ts)) /\ (Acyclic(ts) => ToSet(Passes(ts)) = ToSet(ts))
<1> DEFINE D == ToSet(ts)
           g == [o \in Seq(D) |-> [t \in D |-> Pass(ts, o)]]
           Q(o, i) == Listing(ts, o) /\ (Acyclic(ts) => Len(o) >= i \/ ToSet(o) = D)
           P == [i \in 0 .. Len(ts) |-> {o \in Seq(D) : Q(o, i)}]
<1>0. ts \in Seq(Task) /\ IsInjective(ts)
  BY DEF Good, Unique, IsInjective
<1>1. ts \in Seq(D) /\ Len(ts) \in Nat /\ \A i \in 1 .. Len(ts) : ts[i] \in D
  BY <1>0, SeqOfItself
<1>2. \A o \in Seq(D) : Pass(ts, o) \in Seq(D)
  BY <1>0, PassTyped
<1> HIDE DEF D
<1>3. g \in [Seq(D) -> [D -> Seq(D)]] /\ \A o \in Seq(D), t \in D : g[o][t] = Pass(ts, o)
  BY <1>2
<1>4. <<>> \in P[0]
  <2>1. <<>> \in Seq(D) /\ Listing(ts, <<>>) /\ Len(<<>>) >= 0
    BY DEF Listing, Ordered, IsInjective, D
  <2> QED BY <1>1, <2>1
<1>5. P \in [0 .. Len(ts) -> SUBSET Seq(D)]
  <2> HIDE DEF Q
  <2> QED OBVIOUS
<1>6. ASSUME NEW i \in 1 .. Len(ts), NEW o \in P[i - 1] PROVE g[o][ts[i]] \in P[i]
  <2> DEFINE r == Pass(ts, o)
  <2>1. i - 1 \in 0 .. Len(ts) /\ i \in 0 .. Len(ts) /\ ts[i] \in D
    BY <1>1
  <2>2. o \in Seq(D) /\ Q(o, i - 1)
    <3> HIDE DEF Q
    <3> QED BY <1>6, <2>1
  <2>3. g[o][ts[i]] = r /\ r \in Seq(D)
    BY <1>2, <1>3, <2>1, <2>2
  <2> HIDE DEF g
  <2>4. /\ Listing(ts, r) /\ ToSet(o) \subseteq ToSet(r)
        /\ r = o \/ Len(r) > Len(o)
        /\ \A t \in D : Ready(ts, o, t) => t \in ToSet(r)
    BY <1>0, <2>2, PassFacts DEF D
  <2>5. Len(o) \in Nat /\ Len(r) \in Nat /\ ToSet(r) \subseteq D
    BY <2>2, <2>3, SeqOfItself
  <2> HIDE DEF r
  <2>6. ASSUME Acyclic(ts), ToSet(r) # D PROVE Len(r) >= i
    <3>1. ToSet(o) # D
      BY <2>4, <2>5, <2>6
    <3>2. PICK t \in D : Ready(ts, o, t) /\ t \notin ToSet(o)
      BY <2>2, <2>6, <3>1, SomeReady DEF D
    <3>3. Len(r) > Len(o)
      BY <2>4, <3>2
    <3>4. Len(o) >= i - 1
      BY <2>2, <2>6, <3>1
    <3> QED BY <2>1, <2>5, <3>3, <3>4
  <2>7. Q(r, i)
    BY <2>4, <2>6
  <2> HIDE DEF Q
  <2> QED BY <2>1, <2>3, <2>7
<1>7. Kept(P, g, ts)
  <2> HIDE DEF P, g
  <2> QED BY <1>6 DEF Kept
<1>8. Passes(ts) = Thread(g, <<>>, ts)
  BY DEF Passes, D
<1>9. Thread(g, <<>>, ts) \in P[Len(ts)]
  <2> HIDE DEF P, g
  <2> QED BY <1>1, <1>3, <1>4, <1>5, <1>7, ThreadInduction
<1>10. Q(Passes(ts), Len(ts)) /\ Passes(ts) \in Seq(D)
  <2> HIDE DEF Q, g
  <2> QED BY <1>1, <1>8, <1>9
<1>11. Len(Passes(ts)) >= Len(ts) => ToSet(Passes(ts)) = D
  <2>1. IsFiniteSet(D) /\ Cardinality(D) = Len(ts)
    BY <1>0, InjectiveSize DEF D
  <2>2. Cardinality(ToSet(Passes(ts))) = Len(Passes(ts)) /\ ToSet(Passes(ts)) \in SUBSET D
    BY <1>10, InjectiveSize, SeqOfItself DEF Listing
  <2>3. /\ Cardinality(ToSet(Passes(ts))) <= Cardinality(D)
        /\ Cardinality(D) = Cardinality(ToSet(Passes(ts))) => D = ToSet(Passes(ts))
    BY <2>1, <2>2, FS_Subset
  <2>4. Len(Passes(ts)) \in Nat
    BY <1>10
  <2> QED BY <1>1, <2>1, <2>2, <2>3, <2>4
<1> QED BY <1>10, <1>11 DEF D

\* What topoOrder promises.
LEMMA topoOrderFacts ==
    ASSUME NEW ts, Good(ts)
    PROVE  LET order == topoOrder(ts) IN
           /\ order \in Seq(Task) /\ ToSet(order) = ToSet(ts) /\ Len(order) = Len(ts) /\ IsInjective(order)
           /\ Acyclic(ts) => Ordered(ts, order)
<1> DEFINE out == Passes(ts)
           rest == Filter(ts, ToSet(ts) \ ToSet(out))
           order == topoOrder(ts)
<1>1. order = out \o rest
  BY DEF topoOrder, Rest, Passes
<1>2. ts \in Seq(Task) /\ IsInjective(ts)
  BY DEF Good, Unique, IsInjective
<1>3. Listing(ts, out) /\ (Acyclic(ts) => ToSet(out) = ToSet(ts))
  BY PassesFacts
<1>4. ToSet(ts) \subseteq Task
  BY <1>2, SeqOfItself
<1>5. out \in Seq(ToSet(ts)) /\ IsInjective(out) /\ ToSet(out) \subseteq ToSet(ts)
  BY <1>3, SeqOfItself DEF Listing
<1>6. rest \in Seq(ToSet(ts)) /\ ToSet(rest) = ToSet(ts) \ ToSet(out) /\ IsInjective(rest)
  BY <1>2, FilterFacts
<1> HIDE DEF out, rest, order
<1>7. /\ order \in Seq(ToSet(ts)) /\ Len(order) = Len(out) + Len(rest)
      /\ \A i \in 1 .. Len(out) : order[i] = out[i]
      /\ \A i \in 1 .. Len(rest) : order[Len(out) + i] = rest[i]
  BY <1>1, <1>5, <1>6
<1>8. /\ Len(out) \in Nat /\ Len(rest) \in Nat /\ DOMAIN out = 1 .. Len(out) /\ DOMAIN rest = 1 .. Len(rest)
      /\ DOMAIN order = 1 .. Len(order) /\ Len(order) \in Nat
  BY <1>5, <1>6, <1>7
<1>9. \A i \in 1 .. Len(order) : \/ i \in 1 .. Len(out) /\ order[i] = out[i]
                                 \/ /\ i - Len(out) \in 1 .. Len(rest)
                                    /\ order[i] = rest[i - Len(out)]
  BY <1>7, <1>8
<1>10. \A i \in 1 .. Len(out) : i \in 1 .. Len(order)
  BY <1>7, <1>8
<1>11. \A i \in 1 .. Len(rest) : Len(out) + i \in 1 .. Len(order)
  BY <1>7, <1>8
<1>12. ToSet(order) = ToSet(out) \cup ToSet(rest)
  <2>1. ToSet(order) \subseteq ToSet(out) \cup ToSet(rest)
    BY <1>8, <1>9 DEF ToSet
  <2>2. ToSet(out) \subseteq ToSet(order)
    BY <1>7, <1>8, <1>10 DEF ToSet
  <2>3. ToSet(rest) \subseteq ToSet(order)
    BY <1>7, <1>8, <1>11 DEF ToSet
  <2> QED BY <2>1, <2>2, <2>3
<1>13. ToSet(order) = ToSet(ts)
  BY <1>5, <1>6, <1>12
<1>14. IsInjective(order)
  <2> SUFFICES ASSUME NEW i \in 1 .. Len(order), NEW j \in 1 .. Len(order), order[i] = order[j] PROVE i = j
    BY <1>8 DEF IsInjective
  <2>1. \A k \in 1 .. Len(out) : out[k] \in ToSet(out)
    BY <1>8 DEF ToSet
  <2>2. \A k \in 1 .. Len(rest) : rest[k] \notin ToSet(out)
    BY <1>6, <1>8 DEF ToSet
  <2>3. \A k, l \in 1 .. Len(out) : out[k] = out[l] => k = l
    BY <1>5, <1>8 DEF IsInjective
  <2>4. \A k, l \in 1 .. Len(rest) : rest[k] = rest[l] => k = l
    BY <1>6, <1>8 DEF IsInjective
  <2>5. CASE i \in 1 .. Len(out) /\ order[i] = out[i]
    BY <1>9, <2>1, <2>2, <2>3, <2>5
  <2>6. CASE i - Len(out) \in 1 .. Len(rest) /\ order[i] = rest[i - Len(out)]
    <3>1. j - Len(out) \in 1 .. Len(rest) /\ order[j] = rest[j - Len(out)]
      BY <1>9, <2>1, <2>2, <2>6
    <3>2. i - Len(out) = j - Len(out)
      BY <2>4, <2>6, <3>1
    <3> QED BY <1>8, <3>2
  <2> QED BY <1>9, <2>5, <2>6
<1>15. Len(order) = Len(ts)
  BY <1>2, <1>7, <1>13, <1>14, InjectiveSize
<1>16. ASSUME Acyclic(ts) PROVE Ordered(ts, order)
  <2>1. Len(rest) = 0
    <3>1. ToSet(rest) = {}
      BY <1>3, <1>6, <1>16
    <3>2. Len(rest) # 0 => rest[1] \in ToSet(rest)
      BY <1>8 DEF ToSet
    <3> QED BY <3>1, <3>2
  <2>2. order = out
    BY <1>5, <1>7, <1>8, <2>1
  <2> QED BY <1>3, <2>2 DEF Listing
<1> QED BY <1>4, <1>7, <1>13, <1>14, <1>15, <1>16 DEF order

\* The last of the order is a task of the list.
LEMMA LastOfOrder ==
    ASSUME NEW ts, Good(ts), ts # <<>>
    PROVE  Last(topoOrder(ts)).id \in Ids(ts)
<1> DEFINE order == topoOrder(ts)
<1>1. ts \in Seq(Task) /\ Len(ts) \in Nat /\ Len(ts) # 0
  BY DEF Good
<1>2. order \in Seq(Task) /\ ToSet(order) = ToSet(ts) /\ Len(order) = Len(ts)
  BY topoOrderFacts
<1> HIDE DEF order
<1>3. Last(order) \in ToSet(ts)
  BY <1>1, <1>2 DEF Last, ToSet
<1>4. Last(order).id \in Ids(ts)
  BY <1>3 DEF ToSet, Ids
<1> QED BY <1>4 DEF order

-----------------------------------------------------------------------------
(* The layers of the drawing.                                              *)

\* The tasks no call has met, and those on the stack of calls.
Fresh(ts, m) == {n \in Ids(ts) : m.level[n] = Unset /\ n \notin m.seen}
OnStack(ts, m) == {n \in Ids(ts) : m.level[n] = Unset /\ n \in m.seen}

\* The levels so far: without a cycle, above those of the dependencies.
Layered(ts, m) ==
    /\ m \in Levels(ts)
    /\ Acyclic(ts) => \A n \in Ids(ts) : m.level[n] # Unset =>
          \A d \in Waits(ts, n) \cap Ids(ts) : m.level[d] # Unset /\ m.level[d] < m.level[n]
KeepsLevels(ts, m, r) == \A n \in Ids(ts) : m.level[n] # Unset => r.level[n] = m.level[n]

\* What a call of lvl does.
Placed(ts, id, m, r) ==
    /\ Layered(ts, r) /\ OnStack(ts, r) = OnStack(ts, m) /\ KeepsLevels(ts, m, r)
    /\ id \notin OnStack(ts, m) => r.level[id] # Unset /\ r.v = r.level[id]
Placer(ts) == [Ids(ts) -> [Levels(ts) -> Levels(ts)]]
Places(ts, F, k) ==
    /\ F \in Placer(ts)
    /\ \A id \in Ids(ts), m \in Levels(ts) :
          /\ Layered(ts, m) /\ Chain(ts, OnStack(ts, m), id)
          /\ Cardinality(Fresh(ts, m)) < k
          => Placed(ts, id, m, F[id][m])

LEMMA LevelFields ==
    ASSUME NEW ts, NEW m \in Levels(ts)
    PROVE  /\ m.v \in Nat /\ m.level \in [Ids(ts) -> Nat \cup {Unset}]
           /\ m.seen \in SUBSET Ids(ts) /\ m.top \in Nat
           /\ \A n \in Ids(ts) : m.level[n] \in Nat \cup {Unset}
<1>1. /\ m.v \in Nat /\ m.level \in [Ids(ts) -> Nat \cup {Unset}]
      /\ m.seen \in SUBSET Ids(ts) /\ m.top \in Nat
  BY DEF Levels
<1> QED BY <1>1

\* The step of lvl over the dependencies of a task.
Deeper(ts, F) ==
    [s \in Levels(ts) |-> [d \in Ids(ts) |->
        LET r == F[d][s] IN [r EXCEPT !.top = IF r.v > s.top THEN r.v ELSE s.top]]]
LEMMA DeeperFacts ==
    ASSUME NEW ts, NEW F \in Placer(ts)
    PROVE  /\ Deeper(ts, F) \in [Levels(ts) -> [Ids(ts) -> Levels(ts)]]
           /\ \A s \in Levels(ts), d \in Ids(ts) :
                 LET r == F[d][s]
                     u == Deeper(ts, F)[s][d]
                 IN  r \in Levels(ts) /\ u.level = r.level /\ u.seen = r.seen /\ u.top >= r.v /\ u.top >= s.top
<1> DEFINE u(s, d) == [F[d][s] EXCEPT !.top = IF F[d][s].v > s.top THEN F[d][s].v ELSE s.top]
<1>1. ASSUME NEW s \in Levels(ts), NEW d \in Ids(ts)
      PROVE  /\ F[d][s] \in Levels(ts) /\ u(s, d) \in Levels(ts)
             /\ u(s, d).level = F[d][s].level /\ u(s, d).seen = F[d][s].seen
             /\ u(s, d).top >= F[d][s].v /\ u(s, d).top >= s.top
  <2> DEFINE r == F[d][s]
             top == IF r.v > s.top THEN r.v ELSE s.top
  <2>1. r \in Levels(ts)
    BY DEF Placer
  <2>2. r.v \in Nat /\ s.top \in Nat
    BY <2>1, LevelFields
  <2>3. top \in Nat /\ top >= r.v /\ top >= s.top
    BY <2>2
  <2>4. u(s, d) = [r EXCEPT !.top = top]
    OBVIOUS
  <2> HIDE DEF top, u, r
  <2>5. u(s, d) \in Levels(ts) /\ u(s, d).level = r.level /\ u(s, d).seen = r.seen /\ u(s, d).top = top
    BY <2>1, <2>3, <2>4 DEF Levels
  <2> QED BY <2>1, <2>3, <2>5 DEF r
<1>2. Deeper(ts, F) = [s \in Levels(ts) |-> [d \in Ids(ts) |-> u(s, d)]]
  BY DEF Deeper
<1> HIDE DEF u
<1>3. /\ Deeper(ts, F) \in [Levels(ts) -> [Ids(ts) -> Levels(ts)]]
      /\ \A s \in Levels(ts), d \in Ids(ts) : Deeper(ts, F)[s][d] = u(s, d)
  <2>1. \A s \in Levels(ts), d \in Ids(ts) : u(s, d) \in Levels(ts)
    BY <1>1
  <2> QED BY <1>2, <2>1
<1> QED BY <1>1, <1>3

\* The dependencies lvl goes down to.
LEMMA KnownFacts ==
    ASSUME NEW ts \in Seq(Task), NEW id \in Ids(ts)
    PROVE  LET deps == Known(ts, Deps(ts, id)) IN
           /\ deps \in Seq(Ids(ts)) /\ Len(deps) \in Nat /\ ToSet(deps) = Waits(ts, id) \cap Ids(ts)
           /\ {deps[j] : j \in 1 .. Len(deps)} = Waits(ts, id) \cap Ids(ts)
<1> DEFINE deps == Known(ts, Deps(ts, id))
<1>1. Deps(ts, id) \in Seq(Names)
  BY AtFacts
<1>2. deps \in Seq(Names) /\ ToSet(deps) = Waits(ts, id) \cap Ids(ts)
  BY <1>1, FilterFacts DEF Known, Waits
<1> HIDE DEF deps
<1>3. deps \in Seq(ToSet(deps)) /\ Len(deps) \in Nat /\ ToSet(deps) = {deps[i] : i \in 1 .. Len(deps)}
  BY <1>2, SeqOfItself
<1>4. deps \in Seq(Ids(ts))
  BY <1>2, <1>3
<1> QED BY <1>2, <1>3, <1>4 DEF deps

\* The states lvl goes through when it gives a task its level.
Entered(m, id) == [m EXCEPT !.seen = @ \cup {id}, !.top = 0]
Below(ts, F, id, m) == Thread(Deeper(ts, F), Entered(m, id), Known(ts, Deps(ts, id)))
Value(ts, F, id, m) == IF Known(ts, Deps(ts, id)) = <<>> THEN 0 ELSE 1 + Below(ts, F, id, m).top
Left(m, down, id, v) == [v |-> v, level |-> [down.level EXCEPT ![id] = v], seen |-> down.seen, top |-> m.top]
LEMMA lvlCases ==
    ASSUME NEW ts, NEW F, NEW id, NEW m
    PROVE  lvl(ts, F, id, m) =
             IF m.level[id] # Unset THEN [m EXCEPT !.v = m.level[id]]
             ELSE IF id \in m.seen THEN [m EXCEPT !.v = 0]
             ELSE Left(m, Below(ts, F, id, m), id, Value(ts, F, id, m))
BY DEF lvl, Left, Below, Value, Entered, Deeper

LEMMA EnteredFacts ==
    ASSUME NEW ts, NEW m \in Levels(ts), NEW id \in Ids(ts)
    PROVE  LET x == Entered(m, id) IN
           x \in Levels(ts) /\ x.level = m.level /\ x.seen = m.seen \cup {id} /\ x.top = 0
BY DEF Entered, Levels
LEMMA LeftFacts ==
    ASSUME NEW ts, NEW m \in Levels(ts), NEW down \in Levels(ts), NEW id \in Ids(ts), NEW v \in Nat
    PROVE  LET r == Left(m, down, id, v) IN
           /\ r \in Levels(ts) /\ r.v = v /\ r.seen = down.seen
           /\ r.level[id] = v /\ \A n \in Ids(ts) : n # id => r.level[n] = down.level[n]
<1> DEFINE f == [down.level EXCEPT ![id] = v]
           r == Left(m, down, id, v)
<1>1. down.level \in [Ids(ts) -> Nat \cup {Unset}] /\ down.seen \in SUBSET Ids(ts) /\ m.top \in Nat
  BY LevelFields
<1>2. f \in [Ids(ts) -> Nat \cup {Unset}] /\ f[id] = v /\ \A n \in Ids(ts) : n # id => f[n] = down.level[n]
  BY <1>1
<1>3. r = [v |-> v, level |-> f, seen |-> down.seen, top |-> m.top]
  BY DEF Left
<1> HIDE DEF f, r
<1>4. r \in Levels(ts) /\ r.v = v /\ r.seen = down.seen /\ r.level = f
  BY <1>1, <1>2, <1>3 DEF Levels
<1> QED BY <1>2, <1>4 DEF r
LEMMA ValueFacts ==
    ASSUME NEW ts, NEW m \in Levels(ts), NEW x \in Nat
    PROVE  LET r == [m EXCEPT !.v = x] IN
           r \in Levels(ts) /\ r.v = x /\ r.level = m.level /\ r.seen = m.seen
BY DEF Levels

\* lvl stays among the levels, whatever it calls.
LEMMA lvlTyped ==
    ASSUME NEW ts \in Seq(Task), NEW F \in Placer(ts), NEW id \in Ids(ts), NEW m \in Levels(ts)
    PROVE  /\ lvl(ts, F, id, m) \in Levels(ts)
           /\ Below(ts, F, id, m) \in Levels(ts) /\ Value(ts, F, id, m) \in Nat
<1> DEFINE deps == Known(ts, Deps(ts, id))
           x == Entered(m, id)
           down == Below(ts, F, id, m)
           P == [i \in 0 .. Len(deps) |-> Levels(ts)]
<1>1. deps \in Seq(Ids(ts)) /\ Len(deps) \in Nat
  BY KnownFacts
<1>2. x \in Levels(ts)
  BY EnteredFacts
<1>3. Deeper(ts, F) \in [Levels(ts) -> [Ids(ts) -> Levels(ts)]]
  BY DeeperFacts
<1>0. down = Thread(Deeper(ts, F), x, deps)
  BY DEF Below
<1> HIDE DEF deps, x, down
<1>4. P \in [0 .. Len(deps) -> SUBSET Levels(ts)] /\ x \in P[0]
  BY <1>1, <1>2
<1>5. Kept(P, Deeper(ts, F), deps)
  <2> SUFFICES ASSUME NEW i \in 1 .. Len(deps), NEW y \in P[i - 1]
               PROVE  Deeper(ts, F)[y][deps[i]] \in P[i]
    BY DEF Kept
  <2>1. i - 1 \in 0 .. Len(deps) /\ i \in 0 .. Len(deps) /\ deps[i] \in Ids(ts)
    BY <1>1
  <2> QED BY <1>3, <2>1
<1>6. down \in P[Len(deps)]
  <2> HIDE DEF P
  <2> QED BY <1>0, <1>1, <1>3, <1>4, <1>5, ThreadInduction
<1>7. down \in Levels(ts)
  BY <1>1, <1>6
<1>8. Value(ts, F, id, m) \in Nat
  BY <1>7, LevelFields DEF Value, down
<1>9. Left(m, down, id, Value(ts, F, id, m)) \in Levels(ts)
  BY <1>7, <1>8, LeftFacts
<1>10. m.level[id] # Unset => [m EXCEPT !.v = m.level[id]] \in Levels(ts)
  BY LevelFields, ValueFacts
<1>11. [m EXCEPT !.v = 0] \in Levels(ts)
  BY ValueFacts
<1> QED BY <1>7, <1>8, <1>9, <1>10, <1>11, lvlCases DEF down

\* One more level of calls of lvl that place their tasks.
LEMMA lvlPlaces ==
    ASSUME NEW ts \in Seq(Task), NEW k \in Nat, NEW F, Places(ts, F, k),
           NEW id \in Ids(ts), NEW m \in Levels(ts),
           Layered(ts, m), Chain(ts, OnStack(ts, m), id), Cardinality(Fresh(ts, m)) < k + 1
    PROVE  Placed(ts, id, m, lvl(ts, F, id, m))
<1> DEFINE r == lvl(ts, F, id, m)
<1>0. F \in Placer(ts)
  BY DEF Places
<1>1. CASE m.level[id] # Unset
  <2>1. r = [m EXCEPT !.v = m.level[id]] /\ m.level[id] \in Nat
    BY <1>1, lvlCases, LevelFields
  <2>2. r \in Levels(ts) /\ r.v = m.level[id] /\ r.level = m.level /\ r.seen = m.seen
    BY <2>1, ValueFacts
  <2> HIDE DEF r
  <2> QED BY <1>1, <2>2 DEF Placed, Layered, OnStack, KeepsLevels, r
<1>2. CASE m.level[id] = Unset /\ id \in m.seen
  <2>1. r = [m EXCEPT !.v = 0]
    BY <1>2, lvlCases
  <2>2. r \in Levels(ts) /\ r.level = m.level /\ r.seen = m.seen
    BY <2>1, ValueFacts
  <2> HIDE DEF r
  <2> QED BY <1>2, <2>2 DEF Placed, Layered, OnStack, KeepsLevels, r
<1>3. CASE m.level[id] = Unset /\ id \notin m.seen
  <2> DEFINE deps == Known(ts, Deps(ts, id))
             x == Entered(m, id)
             g == Deeper(ts, F)
             down == Below(ts, F, id, m)
             v == Value(ts, F, id, m)
             G == OnStack(ts, m) \cup {id}
             Reached(s, d) == Acyclic(ts) => s.level[d] # Unset /\ s.level[d] <= s.top
             Q(s, i) == /\ Layered(ts, s) /\ OnStack(ts, s) = G /\ KeepsLevels(ts, m, s)
                        /\ \A j \in 1 .. i : Reached(s, deps[j])
             P == [i \in 0 .. Len(deps) |-> {s \in Levels(ts) : Q(s, i)}]
  <2>1. r = Left(m, down, id, v) /\ down = Thread(g, x, deps) /\ v = IF deps = <<>> THEN 0 ELSE 1 + down.top
    BY <1>3, lvlCases DEF Below, Value
  <2>2. down \in Levels(ts) /\ v \in Nat
    BY <1>0, lvlTyped
  <2>3. /\ deps \in Seq(Ids(ts)) /\ Len(deps) \in Nat
        /\ {deps[j] : j \in 1 .. Len(deps)} = Waits(ts, id) \cap Ids(ts)
    BY KnownFacts
  <2>4. x \in Levels(ts) /\ x.level = m.level /\ x.seen = m.seen \cup {id} /\ x.top = 0
    BY EnteredFacts
  <2>5. /\ g \in [Levels(ts) -> [Ids(ts) -> Levels(ts)]]
        /\ \A s \in Levels(ts), d \in Ids(ts) :
              /\ F[d][s] \in Levels(ts) /\ g[s][d].level = F[d][s].level /\ g[s][d].seen = F[d][s].seen
              /\ g[s][d].top >= F[d][s].v /\ g[s][d].top >= s.top
    BY <1>0, DeeperFacts
  <2> HIDE DEF deps, g, x, down, v, r
  <2>6. id \in Fresh(ts, m) /\ id \notin OnStack(ts, m) /\ G \subseteq Ids(ts)
    BY <1>3 DEF Fresh, OnStack
  <2>7. x \in P[0]
    <3>1. Layered(ts, x) /\ KeepsLevels(ts, m, x)
      BY <2>4 DEF Layered, KeepsLevels
    <3>2. OnStack(ts, x) = G
      BY <1>3, <2>4 DEF OnStack
    <3>3. Q(x, 0)
      BY <3>1, <3>2
    <3> HIDE DEF Q
    <3> QED BY <2>3, <2>4, <3>3
  <2>8. P \in [0 .. Len(deps) -> SUBSET Levels(ts)]
    <3> HIDE DEF Q
    <3> QED OBVIOUS
  <2>9. IsFiniteSet(Fresh(ts, m)) /\ Cardinality(Fresh(ts, m)) \in Nat
    <3>1. Fresh(ts, m) \subseteq Ids(ts)
      BY DEF Fresh
    <3> QED BY <3>1, IdsFinite, FS_Subset, FS_CardinalityType
  <2>10. ASSUME NEW i \in 1 .. Len(deps), NEW s \in P[i - 1] PROVE g[s][deps[i]] \in P[i]
    <3> DEFINE d == deps[i]
               c == F[d][s]
               u == g[s][d]
    <3>1. i - 1 \in 0 .. Len(deps) /\ i \in 0 .. Len(deps) /\ d \in Ids(ts) /\ d \in Waits(ts, id)
      BY <2>3
    <3>2. s \in Levels(ts) /\ Q(s, i - 1)
      <4> HIDE DEF Q
      <4> QED BY <2>10, <3>1
    <3>3. \A j \in 1 .. i : j \in 1 .. (i - 1) \/ j = i
      BY <2>3
    <3>4. /\ c \in Levels(ts) /\ u \in Levels(ts) /\ u.level = c.level /\ u.seen = c.seen
          /\ u.top >= c.v /\ u.top >= s.top
      BY <2>5, <3>1, <3>2
    <3>5. Chain(ts, OnStack(ts, s), d)
      BY <3>1, <3>2 DEF Chain
    <3>6. Fresh(ts, s) \subseteq Fresh(ts, m) \ {id}
      <4> SUFFICES ASSUME NEW n \in Fresh(ts, s) PROVE n \in Fresh(ts, m) \ {id}
        OBVIOUS
      <4>1. n \in Ids(ts) /\ s.level[n] = Unset /\ n \notin s.seen
        BY DEF Fresh
      <4>2. n \notin G
        BY <3>2, <4>1 DEF OnStack
      <4>3. m.level[n] = Unset
        BY <3>2, <4>1 DEF KeepsLevels
      <4> QED BY <4>1, <4>2, <4>3 DEF Fresh, OnStack
    <3>7. Cardinality(Fresh(ts, m) \ {id}) = Cardinality(Fresh(ts, m)) - 1
          /\ IsFiniteSet(Fresh(ts, m) \ {id})
      BY <2>6, <2>9, FS_RemoveElement
    <3>8. Cardinality(Fresh(ts, s)) <= Cardinality(Fresh(ts, m) \ {id})
          /\ Cardinality(Fresh(ts, s)) \in Nat
      BY <3>6, <3>7, FS_Subset, FS_CardinalityType
    <3>9. Cardinality(Fresh(ts, s)) < k
      BY <2>9, <3>7, <3>8
    <3>10. Placed(ts, d, s, c)
      BY <3>1, <3>2, <3>5, <3>9 DEF Places
    <3>11. /\ c.level \in [Ids(ts) -> Nat \cup {Unset}] /\ c.v \in Nat /\ u.top \in Nat /\ s.top \in Nat
           /\ \A n \in Ids(ts) : s.level[n] \in Nat \cup {Unset}
      BY <3>2, <3>4, LevelFields
    <3> HIDE DEF u, c, d
    <3>12. Layered(ts, u) /\ OnStack(ts, u) = G
      BY <3>2, <3>4, <3>10 DEF Placed, Layered, OnStack
    <3>13. KeepsLevels(ts, m, u)
      BY <3>2, <3>4, <3>10 DEF Placed, KeepsLevels
    <3>14. ASSUME Acyclic(ts) PROVE u.level[d] # Unset /\ u.level[d] <= u.top
      <4>1. d \notin OnStack(ts, s)
        BY <2>6, <3>2, <3>5, <3>14, Closes
      <4>2. c.level[d] # Unset /\ c.v = c.level[d]
        BY <3>10, <4>1 DEF Placed
      <4> QED BY <3>4, <3>11, <4>2
    <3>15. ASSUME NEW j \in 1 .. i PROVE Reached(u, deps[j])
      <4> SUFFICES ASSUME Acyclic(ts) PROVE u.level[deps[j]] # Unset /\ u.level[deps[j]] <= u.top
        OBVIOUS
      <4>1. CASE j = i
        BY <3>14, <4>1 DEF d
      <4>2. CASE j \in 1 .. (i - 1)
        <5>1. deps[j] \in Ids(ts)
          BY <2>3
        <5>2. s.level[deps[j]] # Unset /\ s.level[deps[j]] <= s.top
          BY <3>2, <4>2
        <5>3. u.level[deps[j]] = s.level[deps[j]]
          BY <3>4, <3>10, <5>1, <5>2 DEF Placed, KeepsLevels
        <5>4. s.level[deps[j]] \in Nat
          BY <3>11, <5>1, <5>2
        <5> QED BY <3>4, <3>11, <5>2, <5>3, <5>4
      <4> QED BY <3>3, <4>1, <4>2
    <3>16. Q(u, i)
      BY <3>12, <3>13, <3>15
    <3> HIDE DEF Q
    <3> QED BY <3>1, <3>4, <3>16 DEF u, d
  <2>11. Kept(P, g, deps)
    <3> HIDE DEF P
    <3> QED BY <2>10 DEF Kept
  <2>12. down \in P[Len(deps)]
    <3> HIDE DEF P
    <3> QED BY <2>1, <2>3, <2>5, <2>7, <2>8, <2>11, ThreadInduction
  <2>13. Q(down, Len(deps))
    <3> HIDE DEF Q
    <3> QED BY <2>3, <2>12
  <2>14. /\ r \in Levels(ts) /\ r.v = v /\ r.seen = down.seen
         /\ r.level[id] = v /\ \A n \in Ids(ts) : n # id => r.level[n] = down.level[n]
    <3> DEFINE l == Left(m, down, id, v)
    <3>1. l \in Levels(ts)
      BY <2>2, LeftFacts
    <3>2. l.v = v
      BY <2>2, LeftFacts
    <3>3. l.seen = down.seen
      BY <2>2, LeftFacts
    <3>4. l.level[id] = v
      BY <2>2, LeftFacts
    <3>5. \A n \in Ids(ts) : n # id => l.level[n] = down.level[n]
      BY <2>2, LeftFacts
    <3> QED BY <2>1, <3>1, <3>2, <3>3, <3>4, <3>5
  <2>15. v # Unset /\ Unset \notin Nat
    BY <2>2 DEF Unset
  <2>16. down.level[id] = Unset
    BY <2>13 DEF OnStack
  <2>17. OnStack(ts, r) = OnStack(ts, m)
    <3>1. OnStack(ts, r) = OnStack(ts, down) \ {id}
      BY <2>14, <2>15 DEF OnStack
    <3> QED BY <2>6, <2>13, <3>1
  <2>18. KeepsLevels(ts, m, r)
    BY <1>3, <2>13, <2>14 DEF KeepsLevels
  <2>19. Layered(ts, r)
    <3> SUFFICES ASSUME Acyclic(ts), NEW n \in Ids(ts), r.level[n] # Unset,
                        NEW d \in Waits(ts, n) \cap Ids(ts)
                 PROVE  r.level[d] # Unset /\ r.level[d] < r.level[n]
      BY <2>14 DEF Layered
    <3>1. CASE n = id
      <4>1. PICK j \in 1 .. Len(deps) : d = deps[j]
        BY <2>3, <3>1
      <4>2. down.level[d] # Unset /\ down.level[d] <= down.top
        BY <2>13, <4>1
      <4>3. d # id
        BY <2>16, <4>2
      <4>4. deps # <<>>
        BY <2>3, <4>1
      <4>5. v = 1 + down.top
        BY <2>1, <4>4
      <4>6. down.level[d] \in Nat /\ down.top \in Nat
        BY <2>2, <4>2, LevelFields
      <4> QED BY <2>14, <3>1, <4>2, <4>3, <4>5, <4>6
    <3>2. CASE n # id
      <4>1. down.level[n] # Unset
        BY <2>14, <3>2
      <4>2. down.level[d] # Unset /\ down.level[d] < down.level[n]
        BY <2>13, <4>1 DEF Layered
      <4> QED BY <2>14, <2>16, <3>2, <4>2
    <3> QED BY <3>1, <3>2
  <2>20. r.level[id] = r.v /\ r.level[id] # Unset
    BY <2>14, <2>15
  <2> QED BY <2>17, <2>18, <2>19, <2>20 DEF Placed, r
<1> QED BY <1>1, <1>2, <1>3

\* The calls of lvl by their depth: those deep enough place their tasks.
LEMMA lvlsPlace ==
    ASSUME NEW ts \in Seq(Task)
    PROVE  Places(ts, lvls(ts), Depth(ts))
<1> DEFINE n == Depth(ts)
           V == Placer(ts)
           I == Ids(ts)
           M == Levels(ts)
           Next1(F) == [id \in I |-> [m \in M |-> lvl(ts, F, id, m)]]
           Zero == [id \in I |-> [m \in M |-> m]]
           Lev(v, k) == [id \in I |-> [m \in M |-> IF k = 0 THEN m ELSE lvl(ts, v[k - 1], id, m)]]
           G == [p \in V \X (1 .. n) |-> Next1(p[1])]
<1>0. n \in Nat
  BY IdsFinite DEF Depth
<1>1. Zero \in V
  BY DEF Placer
<1>2. \A F \in V : Next1(F) \in V
  <2>1. \A F \in V, id \in I, m \in M : lvl(ts, F, id, m) \in M
    BY lvlTyped
  <2> QED BY <2>1 DEF Placer
<1>3. G \in [V \X (1 .. n) -> V] /\ \A F \in V, k \in 1 .. n : G[<<F, k>>] = Next1(F)
  <2> HIDE DEF V, Next1
  <2> QED BY <1>2
<1> HIDE DEF G, Next1, Zero
<1>4. PICK f : Solution(f, V, n, Zero, G)
  <2> HIDE DEF V, n
  <2> QED BY <1>0, <1>1, <1>3, Recursion
<1>5. f \in [0 .. n -> V] /\ f[0] = Zero /\ \A k \in 1 .. n : f[k] = Next1(f[k - 1])
  <2> HIDE DEF V, n
  <2>1. f \in [0 .. n -> V] /\ \A k \in 1 .. n : k - 1 \in 0 .. n
    BY <1>0, <1>4 DEF Solution
  <2>2. \A k \in 1 .. n : f[k - 1] \in V
    BY <2>1
  <2> QED BY <1>3, <1>4, <2>2 DEF Solution
<1>6. /\ \A v, k : k = 0 => Lev(v, k) = Zero
      /\ \A v, k : k # 0 => Lev(v, k) = Next1(v[k - 1])
  BY DEF Zero, Next1
<1> HIDE DEF Lev
<1>7. f = [k \in 0 .. n |-> Lev(f, k)]
  <2> HIDE DEF V, n
  <2>1. \A k \in 0 .. n : k = 0 \/ (k \in 1 .. n /\ k # 0)
    BY <1>0
  <2>2. \A k \in 0 .. n : f[k] = Lev(f, k)
    BY <1>5, <1>6, <2>1
  <2> QED BY <1>5, <2>2
<1> DEFINE v == CHOOSE v : v = [k \in 0 .. n |-> Lev(v, k)]
<1>8. v = [k \in 0 .. n |-> Lev(v, k)]
  BY <1>7, Zenon
<1>9. lvls(ts) = v[n]
  BY Zenon DEF lvls, Lev
<1> HIDE DEF v
<1>10. v[0] = Zero /\ \A k \in 1 .. n : v[k] = Next1(v[k - 1])
  <2> HIDE DEF n
  <2>1. 0 \in 0 .. n /\ \A k \in 1 .. n : k \in 0 .. n /\ k # 0
    BY <1>0
  <2>2. \A k \in 0 .. n : v[k] = Lev(v, k)
    BY <1>8
  <2> QED BY <1>6, <2>1, <2>2
<1> DEFINE S == {k \in Nat : k <= n => Places(ts, v[k], k)}
<1>11. 0 \in S
  <2>1. \A m \in M : Cardinality(Fresh(ts, m)) \in Nat
    <3> SUFFICES ASSUME NEW m \in M PROVE Cardinality(Fresh(ts, m)) \in Nat
      OBVIOUS
    <3>1. Fresh(ts, m) \subseteq Ids(ts)
      BY DEF Fresh
    <3> QED BY <3>1, IdsFinite, FS_Subset, FS_CardinalityType
  <2>2. Places(ts, v[0], 0)
    BY <1>1, <1>10, <2>1 DEF Places
  <2> QED BY <2>2
<1>12. ASSUME NEW k \in Nat, k \in S PROVE k + 1 \in S
  <2> SUFFICES ASSUME k + 1 <= n PROVE Places(ts, v[k + 1], k + 1)
    OBVIOUS
  <2>1. Places(ts, v[k], k)
    BY <1>0, <1>12
  <2>2. v[k + 1] = Next1(v[k])
    <3>1. k + 1 \in 1 .. n /\ (k + 1) - 1 = k
      BY <1>0
    <3> HIDE DEF n
    <3> QED BY <1>10, <3>1
  <2>3. v[k] \in V
    BY <2>1 DEF Places
  <2>4. v[k + 1] \in Placer(ts)
    BY <1>2, <2>2, <2>3
  <2>5. \A id \in I, m \in M : v[k + 1][id][m] = lvl(ts, v[k], id, m)
    BY <2>2 DEF Next1
  <2>6. ASSUME NEW id \in I, NEW m \in M, Layered(ts, m), Chain(ts, OnStack(ts, m), id),
               Cardinality(Fresh(ts, m)) < k + 1
        PROVE  Placed(ts, id, m, v[k + 1][id][m])
    BY <2>1, <2>5, <2>6, lvlPlaces
  <2> QED BY <2>4, <2>6 DEF Places
<1>13. n \in S
  <2> HIDE DEF S
  <2> QED BY <1>0, <1>11, <1>12, Induction
<1> QED BY <1>0, <1>9, <1>13

\* Every task gets a level; without a cycle it is above those of the tasks it
\* waits for.
LEMMA graphLevelsFacts ==
    ASSUME NEW ts \in Seq(Task)
    PROVE  \A n \in Ids(ts) :
              /\ graphLevels(ts)[n] # Unset
              /\ Acyclic(ts) => \A d \in Waits(ts, n) \cap Ids(ts) : graphLevels(ts)[d] < graphLevels(ts)[n]
<1> DEFINE F == lvls(ts)
           M == Levels(ts)
           Anew(m) == [m EXCEPT !.seen = {}]
           g == [m \in M |-> [t \in ToSet(ts) |-> F[t.id][Anew(m)]]]
           x == [v |-> 0, level |-> [n \in Ids(ts) |-> Unset], seen |-> {}, top |-> 0]
           Q(m, i) == /\ Layered(ts, m) /\ OnStack(ts, m) = {}
                      /\ \A j \in 1 .. i : m.level[ts[j].id] # Unset
           P == [i \in 0 .. Len(ts) |-> {m \in M : Q(m, i)}]
           end == Thread(g, x, ts)
<1>1. graphLevels(ts) = end.level
  BY DEF graphLevels
<1>2. /\ ts \in Seq(ToSet(ts)) /\ DOMAIN ts = 1 .. Len(ts) /\ Len(ts) \in Nat
      /\ ToSet(ts) = {ts[i] : i \in 1 .. Len(ts)} /\ \A i \in 1 .. Len(ts) : ts[i] \in ToSet(ts)
  BY SeqOfItself
<1>3. Places(ts, F, Depth(ts))
  BY lvlsPlace
<1>4. Ids(ts) = {ts[i].id : i \in 1 .. Len(ts)} /\ \A t \in ToSet(ts) : t.id \in Ids(ts)
  BY <1>2 DEF Ids
<1>5. F \in Placer(ts)
  BY <1>3 DEF Places
<1> HIDE DEF F
<1>6. \A m \in M : Anew(m) \in M /\ Anew(m).level = m.level /\ Anew(m).seen = {}
  BY DEF Levels
<1> HIDE DEF Anew
<1>7. g \in [M -> [ToSet(ts) -> M]] /\ \A m \in M, t \in ToSet(ts) : g[m][t] = F[t.id][Anew(m)]
  <2>1. \A m \in M, t \in ToSet(ts) : F[t.id][Anew(m)] \in M
    BY <1>4, <1>5, <1>6 DEF Placer
  <2> HIDE DEF M
  <2> QED BY <2>1
<1>8. x \in P[0]
  <2>1. x \in M /\ x.level = [n \in Ids(ts) |-> Unset] /\ x.seen = {}
    BY DEF Levels
  <2> HIDE DEF x
  <2>2. Layered(ts, x) /\ OnStack(ts, x) = {}
    BY <2>1 DEF Layered, OnStack
  <2>3. Q(x, 0)
    BY <2>2
  <2> HIDE DEF Q, M
  <2> QED BY <1>2, <2>1, <2>3
<1>9. P \in [0 .. Len(ts) -> SUBSET M]
  <2> HIDE DEF Q, M
  <2> QED OBVIOUS
<1>10. ASSUME NEW i \in 1 .. Len(ts), NEW m \in P[i - 1] PROVE g[m][ts[i]] \in P[i]
  <2> DEFINE id == ts[i].id
             a == Anew(m)
             r == F[id][a]
  <2>0. i - 1 \in 0 .. Len(ts) /\ i \in 0 .. Len(ts)
    BY <1>2
  <2>1. ts[i] \in ToSet(ts) /\ id \in Ids(ts)
    <3> HIDE DEF P
    <3> QED BY <1>2, <1>4
  <2>2. m \in M /\ Q(m, i - 1)
    <3> HIDE DEF Q, M
    <3> QED BY <1>10, <2>0
  <2>3. \A j \in 1 .. i : j \in 1 .. (i - 1) \/ j = i
    BY <1>2
  <2>4. g[m][ts[i]] = r
    BY <1>7, <2>1, <2>2
  <2>5. a \in M /\ a.level = m.level /\ a.seen = {}
    BY <1>6, <2>2
  <2> HIDE DEF g, a
  <2>6. Layered(ts, a) /\ OnStack(ts, a) = {}
    BY <2>2, <2>5 DEF Layered, OnStack
  <2>7. Cardinality(Fresh(ts, a)) < Depth(ts)
    <3>1. Fresh(ts, a) \subseteq Ids(ts)
      BY DEF Fresh
    <3>2. Cardinality(Fresh(ts, a)) <= Cardinality(Ids(ts)) /\ Cardinality(Fresh(ts, a)) \in Nat
      BY <3>1, IdsFinite, FS_Subset, FS_CardinalityType
    <3> QED BY <3>2, IdsFinite DEF Depth
  <2>8. Chain(ts, OnStack(ts, a), id)
    BY <2>6 DEF Chain
  <2>9. Placed(ts, id, a, r)
    BY <1>3, <2>1, <2>5, <2>6, <2>7, <2>8 DEF Places
  <2> HIDE DEF r
  <2>10. Layered(ts, r) /\ OnStack(ts, r) = {} /\ r.level[id] # Unset /\ KeepsLevels(ts, a, r)
    BY <2>6, <2>9 DEF Placed
  <2>11. \A j \in 1 .. i : r.level[ts[j].id] # Unset
    <3> SUFFICES ASSUME NEW j \in 1 .. (i - 1) PROVE r.level[ts[j].id] # Unset
      BY <2>3, <2>10
    <3>1. j \in 1 .. Len(ts)
      BY <1>2
    <3>2. ts[j].id \in Ids(ts) /\ a.level[ts[j].id] # Unset
      BY <1>4, <2>2, <2>5, <3>1
    <3> QED BY <2>10, <3>2 DEF KeepsLevels
  <2>12. r \in M /\ Q(r, i)
    BY <2>10, <2>11 DEF Layered
  <2> HIDE DEF Q, M
  <2> QED BY <2>0, <2>4, <2>12
<1>11. Kept(P, g, ts)
  <2> HIDE DEF P, g
  <2> QED BY <1>10 DEF Kept
<1>12. end \in P[Len(ts)]
  <2> HIDE DEF P, g, M, x
  <2> QED BY <1>2, <1>7, <1>8, <1>9, <1>11, ThreadInduction
<1>13. end \in M /\ Q(end, Len(ts))
  <2> HIDE DEF Q, end, M
  <2> QED BY <1>2, <1>12
<1> HIDE DEF end
<1>14. \A n \in Ids(ts) : end.level[n] # Unset
  BY <1>4, <1>13
<1> QED BY <1>1, <1>13, <1>14 DEF Layered

\* What the drawing promises, for every list of tasks.
LEMMA LayoutOf ==
    ASSUME NEW ts, Good(ts)
    PROVE  LET order == topoOrder(ts)
               level == graphLevels(ts)
               place == [n \in Ids(ts) |-> SelectInSeq(order, LAMBDA t : t.id = n)]
           IN  /\ ToSet(order) = ToSet(ts) /\ Len(order) = Len(ts)
               /\ \A n \in Ids(ts) : level[n] # Unset
               /\ Acyclic(ts) => \A n \in Ids(ts) : \A d \in ToSet(Known(ts, Deps(ts, n))) :
                                    place[d] < place[n] /\ level[d] < level[n]
<1> DEFINE order == topoOrder(ts)
           level == graphLevels(ts)
           At1(n) == SelectInSeq(order, LAMBDA t : t.id = n)
           place == [n \in Ids(ts) |-> At1(n)]
<1>1. /\ order \in Seq(Task) /\ ToSet(order) = ToSet(ts) /\ Len(order) = Len(ts) /\ IsInjective(order)
      /\ Acyclic(ts) => Ordered(ts, order)
  BY topoOrderFacts
<1>2. \A n \in Ids(ts) : /\ level[n] # Unset
                         /\ Acyclic(ts) => \A d \in Waits(ts, n) \cap Ids(ts) : level[d] < level[n]
  BY graphLevelsFacts DEF Good
<1>3. /\ DOMAIN ts = 1 .. Len(ts) /\ Len(ts) \in Nat /\ ts \in Seq(Task)
      /\ Ids(ts) = {ts[i].id : i \in 1 .. Len(ts)}
      /\ \A i \in 1 .. Len(ts) : Deps(ts, ts[i].id) = ts[i].deps
  BY GoodAt
<1>4. ToSet(ts) = {ts[i] : i \in 1 .. Len(ts)}
  BY <1>3, SeqOfItself
<1>5. \A s, t \in ToSet(ts) : s.id = t.id => s = t
  BY <1>3, <1>4 DEF Good, Unique
<1> HIDE DEF order, level
<1>6. DOMAIN order = 1 .. Len(order) /\ ToSet(order) = {order[i] : i \in 1 .. Len(order)}
  BY <1>1, SeqOfItself
<1>7. \A i, j \in 1 .. Len(order) : order[i].id = order[j].id => i = j
  BY <1>1, <1>5, <1>6 DEF IsInjective
<1>8. ASSUME NEW n \in Ids(ts) PROVE At1(n) \in 1 .. Len(order) /\ order[At1(n)].id = n
  <2> DEFINE I == {i \in 1 .. Len(order) : order[i].id = n}
  <2>1. PICK t \in ToSet(ts) : t.id = n
    BY <1>3, <1>4
  <2>2. I # {} /\ I \subseteq Nat
    BY <1>1, <1>6, <2>1
  <2>3. At1(n) = Min(I)
    BY <2>2 DEF SelectInSeq
  <2> QED BY <2>2, <2>3, MinLeast
<1> HIDE DEF At1
<1>9. ASSUME Acyclic(ts), NEW n \in Ids(ts), NEW d \in ToSet(Known(ts, Deps(ts, n)))
      PROVE  place[d] < place[n] /\ level[d] < level[n]
  <2>1. d \in Waits(ts, n) \cap Ids(ts)
    BY <1>3, KnownFacts
  <2> DEFINE i == At1(n)
  <2>2. i \in 1 .. Len(order) /\ order[i].id = n
    BY <1>8
  <2>3. order[i] \in ToSet(ts)
    BY <1>1, <1>6, <2>2
  <2>4. Waits(ts, n) = ToSet(order[i].deps)
    BY <1>3, <1>4, <2>2, <2>3 DEF Waits
  <2>5. PICK j \in 1 .. (i - 1) : order[j].id = d
    BY <1>1, <1>9, <2>1, <2>2, <2>4 DEF Ordered
  <2>6. j \in 1 .. Len(order) /\ j < i
    BY <1>1, <2>2
  <2>7. At1(d) = j
    BY <1>7, <1>8, <2>1, <2>5, <2>6
  <2>8. level[d] < level[n]
    BY <1>2, <1>9, <2>1
  <2> QED BY <2>1, <2>6, <2>7, <2>8
<1> QED BY <1>1, <1>2, <1>9 DEF order, level, At1

-----------------------------------------------------------------------------
(* The editor.                                                             *)

\* What a step may do to the session: nothing, save the list, or count one
\* more pending change.
Held == UNCHANGED <<base, dirty, stored>>
Saved == base' = {} /\ dirty' = 0 /\ stored' = specTasks(tasks') /\ Acyclic(tasks')
Mutated == /\ base' = (IF base = {} THEN {tasks} ELSE base)
           /\ dirty' = dirty + 1 /\ UNCHANGED stored /\ tasks' # tasks
\* What it may do to the list.
Stale == pending \notin Ids(tasks) /\ \E id \in Ids(tasks) : PicksSecond(id)
Step ==
    /\ Good(tasks') /\ page' \in Ids(tasks') \cup {"structure"}
    /\ pending' \in Names \cup {null} /\ connect' \in BOOLEAN
    /\ Held \/ Saved \/ Mutated
    /\ Sound(tasks) => Sound(tasks') \/ Stale

\* What an edit starts from.
Before ==
    /\ Good(tasks) /\ page \in Ids(tasks) \cup {"structure"}
    /\ pending \in Names \cup {null} /\ connect \in BOOLEAN

LEMMA saveDagStep ==
    ASSUME NEW ts, Good(ts), saveDag(ts) PROVE tasks' = ts /\ (Held \/ Saved)
<1>1. tasks' = ts
  BY DEF saveDag
<1>2. CASE validateDag(ts) /\ base' = {} /\ dirty' = 0 /\ stored' = specTasks(ts)
  <2>1. Acyclic(ts)
    BY <1>2, hasCycleExact DEF validateDag, Good
  <2> QED BY <1>1, <1>2, <2>1 DEF Saved
<1>3. CASE ~validateDag(ts) /\ UNCHANGED <<session, stored>>
  BY <1>1, <1>3 DEF Held, session
<1> QED BY <1>2, <1>3 DEF saveDag

LEMMA graphMutateStep ==
    ASSUME NEW ts, ts # tasks, graphMutate(ts) PROVE tasks' = ts /\ Mutated
BY DEF graphMutate, Mutated

\* graphToggleDep changes the dependencies of one task, and makes no cycle.
LEMMA toggleStep ==
    ASSUME Good(tasks), NEW up \in Names, NEW down \in Ids(tasks), NEW allow,
           graphToggleDep(up, down, allow)
    PROVE  /\ Good(tasks') /\ Ids(tasks') = Ids(tasks) /\ (Held \/ Mutated)
           /\ Sound(tasks) /\ up \in Ids(tasks) => Sound(tasks')
<1> DEFINE deps == Deps(tasks, down)
           less == WithDeps(tasks, down, RemoveFirst(deps, up))
           more == Added(up, down)
<1>1. deps \in Seq(Names)
  BY AtFacts DEF Good
<1>2. Contains(deps, up) <=> up \in Waits(tasks, down)
  BY <1>1 DEF Contains, Waits, ToSet
<1>3. CASE Contains(deps, up) /\ graphMutate(less)
  <2> DEFINE rest == RemoveFirst(deps, up)
  <2>1. rest \in Seq(Names) /\ ToSet(rest) \subseteq ToSet(deps) /\ (IsInjective(deps) => IsInjective(rest)) /\ rest # deps
    BY <1>1, <1>3, RemoveFirstSet
  <2> HIDE DEF rest
  <2>2. /\ Good(less) /\ Ids(less) = Ids(tasks) /\ Deps(less, down) = rest
        /\ Sound(tasks) => Sound(less)
    BY <2>1, WithDepsFacts, WithFewerDeps DEF Waits, rest
  <2> HIDE DEF less
  <2>3. less # tasks
    BY <2>1, <2>2
  <2> QED BY <1>3, <2>2, <2>3, graphMutateStep
<1>4. CASE ~Contains(deps, up) /\ ~hasCycle(more) /\ graphMutate(more)
  <2>1. more = WithDeps(tasks, down, Append(deps, up))
    BY DEF Added
  <2>2. /\ Good(more) /\ Ids(more) = Ids(tasks) /\ Deps(more, down) = Append(deps, up)
        /\ Sound(tasks) /\ up \in Ids(tasks) /\ Acyclic(more) => Sound(more)
    BY <1>2, <1>4, <2>1, WithOneMore
  <2> HIDE DEF more
  <2>3. Append(deps, up) # deps
    BY <1>1
  <2>4. more # tasks
    BY <2>2, <2>3
  <2>5. Acyclic(more)
    BY <1>4, <2>2, hasCycleExact DEF Good
  <2> QED BY <1>4, <2>2, <2>4, <2>5, graphMutateStep
<1>5. CASE Unedited
  BY <1>5 DEF Unedited, Held, session
<1> QED BY <1>3, <1>4, <1>5 DEF graphToggleDep

\* The steps that leave the list alone.
LEMMA UneditedStep ==
    ASSUME Before, Unedited, page' \in Ids(tasks) \cup {"structure"},
           pending' \in Names \cup {null}, connect' \in BOOLEAN
    PROVE  Step
BY DEF Before, Unedited, Step, Held, session

\* The steps that save a list.
LEMMA SavingStep ==
    ASSUME Before, NEW ts, Good(ts), saveDag(ts), Sound(tasks) => Sound(ts),
           page' \in Ids(ts) \cup {"structure"}, UNCHANGED <<pending, connect>>
    PROVE  Step
<1>1. tasks' = ts /\ (Held \/ Saved)
  BY saveDagStep
<1> QED BY <1>1 DEF Before, Step

LEMMA activateStep ==
    ASSUME Before, NEW id \in Ids(tasks), NEW shift, onGraphNodeActivate(id, shift)
    PROVE  Step
<1>0. id \in Names /\ page = "structure" /\ UNCHANGED connect
  BY AtFacts DEF Before, Good, onGraphNodeActivate
<1>1. CASE OpensTask(id, shift)
  BY <1>0, <1>1, UneditedStep DEF OpensTask, Before
<1>2. CASE PicksFirst(id, shift)
  BY <1>0, <1>2, UneditedStep DEF PicksFirst, Before
<1>3. CASE PicksAgain(id)
  BY <1>0, <1>3, UneditedStep DEF PicksAgain, Before
<1>4. CASE PicksSecond(id)
  <2>1. pending \in Names /\ pending # null /\ pending' = null /\ UNCHANGED page
    BY <1>4 DEF PicksSecond, Before
  <2>2. graphToggleDep(pending, id, TRUE)
    BY <1>4 DEF PicksSecond
  <2>3. /\ Good(tasks') /\ Ids(tasks') = Ids(tasks) /\ (Held \/ Mutated)
        /\ Sound(tasks) /\ pending \in Ids(tasks) => Sound(tasks')
    BY <2>1, <2>2, toggleStep DEF Before
  <2>4. Sound(tasks) => Sound(tasks') \/ Stale
    BY <1>4, <2>3 DEF Stale
  <2> QED BY <1>0, <2>1, <2>3, <2>4 DEF Before, Step
<1> QED BY <1>1, <1>2, <1>3, <1>4 DEF onGraphNodeActivate

LEMMA edgeStep ==
    ASSUME Before, NEW up \in Ids(tasks), NEW down \in Ids(tasks),
           startEdgeDrag(up, down) \/ showEdgeMenu(up, down)
    PROVE  Step
<1>1. up \in Names
  BY AtFacts DEF Before, Good
<1>2. PICK allow \in BOOLEAN : graphToggleDep(up, down, allow)
  BY DEF startEdgeDrag, showEdgeMenu
<1>3. UNCHANGED <<pending, connect, page>>
  BY DEF startEdgeDrag, showEdgeMenu
<1>4. /\ Good(tasks') /\ Ids(tasks') = Ids(tasks) /\ (Held \/ Mutated)
      /\ Sound(tasks) => Sound(tasks')
  BY <1>1, <1>2, toggleStep DEF Before
<1> QED BY <1>3, <1>4 DEF Before, Step

LEMMA EmptyDeps ==
    <<>> \in Seq(Names) /\ ToSet(<<>>) = {} /\ IsInjective(<<>>)
BY DEF ToSet, IsInjective
LEMMA OneDep ==
    ASSUME NEW d \in Names PROVE <<d>> \in Seq(Names) /\ ToSet(<<d>>) = {d} /\ IsInjective(<<d>>)
<1>1. <<d>> \in Seq(Names) /\ DOMAIN <<d>> = {1} /\ <<d>>[1] = d
  OBVIOUS
<1> QED BY <1>1 DEF ToSet, IsInjective

\* The steps that add a task.
LEMMA addTaskFromGraphStep ==
    ASSUME Before, NEW id \in Names, addTaskFromGraph(id) PROVE Step
<1> DEFINE t == blankTask(id, <<>>, TRUE)
           us == Append(tasks, t)
<1>1. id \notin Ids(tasks) /\ graphMutate(us) /\ UNCHANGED <<pending, connect>> /\ page' = "structure"
  BY DEF addTaskFromGraph, Unused
<1>2. t \in Task /\ t.id = id /\ t.deps = <<>>
  BY EmptyDeps, blankTyped
<1> HIDE DEF t
<1>3. Good(us) /\ (Sound(tasks) => Sound(us))
  BY <1>1, <1>2, EmptyDeps, WithTask DEF Before
<1>4. us # tasks
  <2>1. tasks \in Seq(Task)
    BY DEF Before, Good
  <2> QED BY <1>2, <2>1
<1> HIDE DEF us
<1>5. tasks' = us /\ Mutated
  BY <1>1, <1>4, graphMutateStep
<1> QED BY <1>1, <1>3, <1>5 DEF Before, Step

LEMMA addTaskStep ==
    ASSUME Before, NEW id \in Names, addTask(id) PROVE Step
<1> DEFINE t == blankTask(id, <<>>, FALSE)
           us == Append(tasks, t)
<1>1. id \notin Ids(tasks) /\ saveDag(us) /\ UNCHANGED <<pending, connect>> /\ page' = id
  BY DEF addTask, Unused
<1>2. t \in Task /\ t.id = id /\ t.deps = <<>>
  BY EmptyDeps, blankTyped
<1> HIDE DEF t
<1>3. Good(us) /\ id \in Ids(us) /\ (Sound(tasks) => Sound(us))
  BY <1>1, <1>2, EmptyDeps, WithTask DEF Before
<1> HIDE DEF us
<1> QED BY <1>1, <1>3, SavingStep

LEMMA duplicateTaskStep ==
    ASSUME Before, NEW src \in Ids(tasks), NEW id \in Names, duplicateTask(src, id) PROVE Step
<1> DEFINE s == tasks[At(tasks, src)]
           t == [s EXCEPT !.id = id]
           us == Append(tasks, t)
<1>1. id \notin Ids(tasks) /\ saveDag(us) /\ UNCHANGED <<pending, connect, page>> /\ page = "structure"
  BY DEF duplicateTask, Unused
<1>2. s \in Task /\ s.deps = Deps(tasks, src)
  BY AtFacts DEF Before, Good
<1>3. t \in Task /\ t.id = id /\ t.deps = s.deps
  BY <1>2, TaskFields
<1> HIDE DEF t, s
<1>4. Sound(tasks) => ToSet(t.deps) \subseteq Ids(tasks) /\ IsInjective(t.deps)
  BY <1>2, <1>3, SoundDeps DEF Before, Sound, Waits
<1>5. Good(us) /\ (Sound(tasks) => Sound(us))
  BY <1>1, <1>3, <1>4, WithTask DEF Before
<1> HIDE DEF us
<1> QED BY <1>1, <1>5, SavingStep

LEMMA nvAddStepStep ==
    ASSUME Before, NEW id \in Names, nvAddStep(id) PROVE Step
<1> DEFINE deps == IF tasks = <<>> THEN <<>> ELSE <<Last(topoOrder(tasks)).id>>
           t == blankTask(id, deps, TRUE)
           us == Append(tasks, t)
<1>1. id \notin Ids(tasks) /\ saveDag(us) /\ UNCHANGED <<pending, connect, page>> /\ page = "structure"
  BY DEF nvAddStep, Unused
<1>2. deps \in Seq(Names) /\ ToSet(deps) \subseteq Ids(tasks) /\ IsInjective(deps)
  <2>1. CASE tasks = <<>>
    BY <2>1, EmptyDeps
  <2>2. CASE tasks # <<>>
    <3>1. Last(topoOrder(tasks)).id \in Ids(tasks) /\ Ids(tasks) \subseteq Names
      BY <2>2, LastOfOrder, GoodAt DEF Before
    <3>2. deps = <<Last(topoOrder(tasks)).id>>
      BY <2>2
    <3> HIDE DEF deps
    <3> QED BY <3>1, <3>2, OneDep
  <2> QED BY <2>1, <2>2
<1> HIDE DEF deps
<1>3. t \in Task /\ t.id = id /\ t.deps = deps
  BY <1>2, blankTyped
<1> HIDE DEF t
<1>4. Good(us) /\ (Sound(tasks) => Sound(us))
  BY <1>1, <1>2, <1>3, WithTask DEF Before
<1> HIDE DEF us
<1> QED BY <1>1, <1>4, SavingStep

\* The steps that change or remove one.
LEMMA deleteTaskStep ==
    ASSUME Before, NEW id \in Names, deleteTask(id) PROVE Step
<1> DEFINE left == Without(tasks, id)
           us == [i \in DOMAIN left |-> [left[i] EXCEPT !.deps = Filter(@, Names \ {id})]]
<1>1. saveDag(us) /\ UNCHANGED <<pending, connect>> /\ page' = "structure"
  BY DEF deleteTask
<1>2. Good(us) /\ (Sound(tasks) => Sound(us))
  BY WithoutTask DEF Before
<1> HIDE DEF us
<1> QED BY <1>1, <1>2, SavingStep

LEMMA editCommandStep ==
    ASSUME Before, NEW ok \in BOOLEAN, editCommand(ok) PROVE Step
<1> DEFINE us == [tasks EXCEPT ![At(tasks, page)].ok = ok]
<1>1. saveDag(us) /\ UNCHANGED <<pending, connect, page>> /\ page \in Ids(tasks)
  BY DEF editCommand, Before
<1>2. Good(us) /\ Ids(us) = Ids(tasks) /\ (Sound(tasks) => Sound(us))
  BY <1>1, WithCommand DEF Before
<1> HIDE DEF us
<1> QED BY <1>1, <1>2, SavingStep

LEMMA depChipStep ==
    ASSUME Before, NEW dep \in Ids(tasks), depChip(dep) PROVE Step
<1> DEFINE deps == Deps(tasks, page)
           rest == RemoveFirst(deps, dep)
           again == WithDeps(tasks, page, Append(rest, dep))
           ds == IF Contains(deps, dep) THEN rest ELSE Append(deps, dep)
           ts == WithDeps(tasks, page, ds)
<1>1. UNCHANGED <<pending, connect, page>> /\ page \in Ids(tasks)
  BY DEF depChip, Before
<1>2. \/ ~hasCycle(ts) /\ saveDag(ts)
      \/ hasCycle(ts) /\ ~Contains(deps, dep) /\ Unedited
      \/ hasCycle(ts) /\ Contains(deps, dep) /\ tasks' = again /\ Held
  BY DEF depChip, Held, session
<1>3. deps \in Seq(Names) /\ dep \in Names
  BY <1>1, AtFacts DEF Before, Good
<1>4. Contains(deps, dep) <=> dep \in Waits(tasks, page)
  BY <1>3 DEF Contains, Waits, ToSet
<1>0. /\ rest \in Seq(Names) /\ Append(rest, dep) \in Seq(Names)
      /\ ToSet(rest) \subseteq ToSet(deps) /\ (IsInjective(deps) => IsInjective(rest))
  <2>1. rest \in Seq(Names) /\ ToSet(rest) \subseteq ToSet(deps) /\ (IsInjective(deps) => IsInjective(rest))
    BY <1>3, RemoveFirstSet
  <2> HIDE DEF rest
  <2> QED BY <1>3, <2>1
<1> HIDE DEF rest
\* A list that gets the dependency back had a cycle without it.
<1>9. Good(again) /\ Ids(again) = Ids(tasks)
  BY <1>0, <1>1, WithDepsFacts DEF Before
<1> HIDE DEF again
<1>10. ASSUME Contains(deps, dep) PROVE Sound(tasks) => Sound(ts)
  <2>1. ds = rest
    BY <1>10
  <2> HIDE DEF ds
  <2> QED BY <1>0, <1>1, <2>1, WithFewerDeps DEF Before, Waits
<1>5. Good(ts) /\ Ids(ts) = Ids(tasks) /\ (Sound(tasks) /\ Acyclic(ts) => Sound(ts))
  <2>1. CASE Contains(deps, dep)
    <3>1. ds = rest
      BY <2>1
    <3> HIDE DEF ds
    <3>2. ds \in Seq(Names) /\ ToSet(ds) \subseteq ToSet(deps) /\ (IsInjective(deps) => IsInjective(ds))
      BY <1>0, <3>1
    <3> QED BY <1>1, <3>2, WithDepsFacts, WithFewerDeps DEF Before, Waits
  <2>2. CASE ~Contains(deps, dep)
    <3>1. ts = WithDeps(tasks, page, Append(deps, dep))
      BY <2>2
    <3> HIDE DEF ts
    <3> QED BY <1>1, <1>3, <1>4, <2>2, <3>1, WithOneMore DEF Before
  <2> QED BY <2>1, <2>2
<1> HIDE DEF ts
<1>6. hasCycle(ts) <=> ~Acyclic(ts)
  BY <1>5, hasCycleExact DEF Good
<1>7. CASE Unedited
  BY <1>1, <1>7, UneditedStep DEF Before
<1>8. CASE ~hasCycle(ts) /\ saveDag(ts)
  BY <1>1, <1>5, <1>6, <1>8, SavingStep
<1>11. CASE hasCycle(ts) /\ Contains(deps, dep) /\ tasks' = again /\ Held
  <2>1. ~Sound(tasks)
    BY <1>6, <1>10, <1>11 DEF Sound
  <2> QED BY <1>1, <1>9, <1>11, <2>1 DEF Before, Step
<1> QED BY <1>2, <1>7, <1>8, <1>11

LEMMA renameStep ==
    ASSUME Before, NEW new \in Names, renameActiveTask(new) PROVE Step
<1> DEFINE us == Renamed(tasks, page, new)
<1>1. saveDag(us) /\ UNCHANGED <<pending, connect>> /\ page' = new /\ page \in Ids(tasks) /\ new \in Names \ Ids(tasks)
  BY DEF renameActiveTask, Unused, Before
<1>2. Good(us) /\ new \in Ids(us) /\ (Sound(tasks) => Sound(us))
  BY <1>1, RenamedFacts DEF Before
<1> HIDE DEF us
<1> QED BY <1>1, <1>2, SavingStep

LEMMA EditsStep ==
    ASSUME Before, Edits \/ Looks PROVE Step
<1>1. ASSUME NEW id \in Ids(tasks), NEW up \in Ids(tasks), startEdgeDrag(up, id) \/ showEdgeMenu(up, id)
      PROVE  Step
  BY <1>1, edgeStep
<1>2. ASSUME NEW id \in Names,
             addTaskFromGraph(id) \/ addTask(id) \/ nvAddStep(id) \/ renameActiveTask(id) \/ deleteTask(id)
      PROVE  Step
  BY <1>2, addTaskFromGraphStep, addTaskStep, nvAddStepStep, renameStep, deleteTaskStep
<1>3. ASSUME NEW id \in Ids(tasks), NEW new \in Names, duplicateTask(id, new) PROVE Step
  BY <1>3, duplicateTaskStep
<1>4. ASSUME NEW id \in Ids(tasks), depChip(id) PROVE Step
  BY <1>4, depChipStep
<1>5. ASSUME NEW ok \in BOOLEAN, editCommand(ok) PROVE Step
  BY <1>5, editCommandStep
<1>6. ASSUME NEW id \in Ids(tasks), NEW shift \in BOOLEAN, onGraphNodeActivate(id, shift) PROVE Step
  BY <1>6, activateStep
<1>7. CASE toggleConnect
  BY <1>7, UneditedStep DEF toggleConnect, Before
<1>8. CASE gotoDagPage
  BY <1>8, UneditedStep DEF gotoDagPage, Before
<1>9. ASSUME NEW id \in Ids(tasks), showTask(id) PROVE Step
  BY <1>9, UneditedStep DEF showTask, Before
<1> QED BY <1>1, <1>2, <1>3, <1>4, <1>5, <1>6, <1>7, <1>8, <1>9 DEF Edits, Looks

\* Saving a session is a step like those; discarding one puts the snapshot
\* back.
Discarded ==
    /\ page = "structure" /\ tasks' \in base /\ base' = {} /\ dirty' = 0 /\ pending' = null
    /\ UNCHANGED <<stored, connect, page>>
LEMMA EndsStep ==
    ASSUME Before, Ends PROVE (Step /\ ~Mutated) \/ Discarded
<1>1. CASE graphSaveSession
  <2>1. page = "structure" /\ UNCHANGED <<connect, page>>
    BY <1>1 DEF graphSaveSession
  <2>2. CASE Unedited /\ UNCHANGED pending
    <3>1. Step
      BY <2>1, <2>2, UneditedStep DEF Before
    <3> QED BY <2>2, <3>1 DEF Unedited, Mutated
  <2>3. CASE saveDag(tasks) /\ pending' = null
    <3>1. tasks' = tasks /\ (Held \/ Saved)
      BY <2>3, saveDagStep DEF Before
    <3> QED BY <2>1, <2>3, <3>1 DEF Before, Step, Mutated
  <2> QED BY <1>1, <2>2, <2>3 DEF graphSaveSession
<1>2. CASE graphDiscardSession
  BY <1>2 DEF graphDiscardSession, Discarded
<1> QED BY <1>1, <1>2 DEF Ends

-----------------------------------------------------------------------------
(* The inductive invariant: every list the editor holds names a task once, *)
(* a snapshot is kept exactly while changes are pending, and every pending *)
(* change was counted.                                                     *)

Lists == \A ts \in {tasks, stored} \cup base : Good(ts)
SessionInv == /\ base = {} \/ \E b : base = {b}
              /\ base = {} <=> dirty = 0
              /\ dirty \in Nat /\ ops \in Nat /\ dirty <= ops /\ ops <= MaxOps
Inv == Before /\ Lists /\ SessionInv /\ StoredSound

LEMMA InvInit == Init => Inv
<1> SUFFICES ASSUME Init PROVE Inv
  OBVIOUS
<1>1. Good(stored) /\ Closed(stored) /\ Acyclic(stored)
  BY GraphConstants DEF Init, Good, Sound
<1>2. MaxOps \in Nat
  BY GraphConstants
<1>3. Before
  BY <1>1 DEF Init, Before
<1>4. Lists
  BY <1>1 DEF Init, Lists
<1>5. SessionInv
  BY <1>2 DEF Init, SessionInv
<1> QED BY <1>1, <1>3, <1>4, <1>5 DEF Inv, StoredSound

\* The lists after a step.
LEMMA ListsStep ==
    ASSUME Inv, Step \/ Discarded
    PROVE  Before' /\ Lists' /\ StoredSound' /\ (base' \subseteq base \cup {tasks})
<1>1. Good(tasks) /\ Good(stored) /\ (\A ts \in base : Good(ts)) /\ Closed(stored) /\ Acyclic(stored)
  BY DEF Inv, Lists, StoredSound
<1>2. CASE Step
  <2>1. Before'
    BY <1>2 DEF Step, Before
  <2>2. Good(tasks')
    BY <1>2 DEF Step
  <2>3. base' \subseteq base \cup {tasks}
    BY <1>2 DEF Step, Held, Saved, Mutated
  <2>4. Good(stored') /\ Closed(stored') /\ Acyclic(stored')
    <3>1. CASE UNCHANGED stored
      BY <1>1, <3>1
    <3>2. CASE Saved
      <4>1. stored' = specTasks(tasks') /\ Acyclic(tasks')
        BY <3>2 DEF Saved
      <4> QED BY <2>2, <4>1, specTasksFacts
    <3> QED BY <1>2, <3>1, <3>2 DEF Step, Held, Mutated
  <2>5. Lists'
    BY <1>1, <2>2, <2>3, <2>4 DEF Lists
  <2> QED BY <2>1, <2>3, <2>4, <2>5 DEF StoredSound
<1>3. CASE Discarded
  <2>1. Good(tasks') /\ base' = {} /\ stored' = stored
    BY <1>1, <1>3 DEF Discarded
  <2>2. Before'
    BY <1>3, <2>1 DEF Discarded, Before, Inv
  <2>3. Lists'
    BY <1>1, <2>1 DEF Lists
  <2> QED BY <1>1, <2>1, <2>2, <2>3 DEF StoredSound
<1> QED BY <1>2, <1>3

LEMMA SessionStep ==
    ASSUME SessionInv, Held \/ Saved \/ (Mutated /\ ops' = ops + 1) \/ Discarded,
           ops' = ops \/ ops' = ops + 1, ops' <= MaxOps
    PROVE  SessionInv'
<1>1. MaxOps \in Nat
  BY GraphConstants
<1>2. CASE Held
  BY <1>1, <1>2 DEF SessionInv, Held
<1>3. CASE Saved \/ Discarded
  BY <1>1, <1>3 DEF SessionInv, Saved, Discarded
<1>4. CASE Mutated /\ ops' = ops + 1
  <2>1. /\ base' # {} /\ \E b : base' = {b}
        /\ dirty' = dirty + 1
    BY <1>4 DEF SessionInv, Mutated
  <2> QED BY <1>1, <1>4, <2>1 DEF SessionInv
<1> QED BY <1>2, <1>3, <1>4

LEMMA NextStep ==
    ASSUME Inv, Next
    PROVE  /\ Step \/ Discarded
           /\ Held \/ Saved \/ (Mutated /\ ops' = ops + 1) \/ Discarded
           /\ ops' = ops \/ ops' = ops + 1
           /\ ops' <= MaxOps
<1>0. Before /\ ops \in Nat /\ ops <= MaxOps /\ MaxOps \in Nat
  BY GraphConstants DEF Inv, SessionInv
<1>1. CASE (Edits \/ Looks) /\ ops' = (IF tasks' = tasks THEN ops ELSE ops + 1) /\ ops' <= MaxOps
  <2>1. Step
    BY <1>0, <1>1, EditsStep
  <2>2. ops' = ops \/ ops' = ops + 1
    BY <1>1
  <2>3. ops' <= MaxOps
    BY <1>1
  <2>4. Mutated => ops' = ops + 1
    BY <1>1 DEF Mutated
  <2> QED BY <2>1, <2>2, <2>3, <2>4 DEF Step
<1>2. CASE Ends /\ UNCHANGED ops
  <2>1. (Step /\ ~Mutated) \/ Discarded
    BY <1>0, <1>2, EndsStep
  <2> QED BY <1>0, <1>2, <2>1 DEF Step
<1> QED BY <1>1, <1>2 DEF Next

LEMMA InvNext == Inv /\ [Next]_vars => Inv'
<1> SUFFICES ASSUME Inv, [Next]_vars PROVE Inv'
  OBVIOUS
<1>1. CASE Next
  <2>1. /\ Step \/ Discarded
        /\ Held \/ Saved \/ (Mutated /\ ops' = ops + 1) \/ Discarded
        /\ ops' = ops \/ ops' = ops + 1
        /\ ops' <= MaxOps
    BY <1>1, NextStep
  <2>2. Before' /\ Lists' /\ StoredSound'
    BY <2>1, ListsStep
  <2>3. SessionInv'
    BY <2>1, SessionStep DEF Inv
  <2> QED BY <2>2, <2>3 DEF Inv
<1>2. CASE UNCHANGED vars
  BY <1>2 DEF vars, Inv, Before, Lists, SessionInv, StoredSound
<1> QED BY <1>1, <1>2

LEMMA InvTypes == Inv => GraphInv
<1> SUFFICES ASSUME Inv PROVE GraphInv
  OBVIOUS
<1>1. {tasks, stored} \cup base \subseteq Seq(Task) /\ UniqueIds
  BY DEF Inv, Lists, Good, UniqueIds
<1>2. IsFiniteSet(base) /\ Cardinality(base) <= 1
  <2>1. CASE base = {}
    BY <2>1, FS_EmptySet
  <2>2. CASE \E b : base = {b}
    BY <2>2, FS_Singleton
  <2> QED BY <2>1, <2>2 DEF Inv, SessionInv
<1>3. (base = {} <=> dirty = 0) /\ dirty \in 0 .. MaxOps /\ ops \in 0 .. MaxOps
  BY GraphConstants DEF Inv, SessionInv
<1> QED BY <1>1, <1>2, <1>3 DEF Inv, Before, TypeOK, GraphInv

LEMMA InvAlways == Spec => []Inv
BY InvInit, InvNext, PTL DEF Spec

\* Whatever is edited, added, renamed, deleted, discarded or saved, an id
\* names one task in the list, in the snapshot and in what was stored, which
\* is a graph of known tasks without a cycle.
THEOREM EditorKeepsGraphs == Spec => []GraphInv
BY InvAlways, InvTypes, PTL

\* hasCycle finds exactly the cycles, for any number of tasks, so the drag
\* over a node allows exactly the drops that make none.
THEOREM CycleCheckExact == Spec => []CycleExact
<1>1. Inv => CycleExact
  <2> SUFFICES ASSUME Inv PROVE CycleExact
    OBVIOUS
  <2>0. Good(tasks)
    BY DEF Inv, Before
  <2>1. hasCycle(tasks) <=> ~Acyclic(tasks)
    BY <2>0, hasCycleExact DEF Good
  <2>2. ASSUME NEW up \in Ids(tasks), NEW down \in Ids(tasks),
               up # down, ~Contains(Deps(tasks, down), up)
        PROVE  graphDropAllowed(up, down) <=> Acyclic(Added(up, down))
    <3>1. Deps(tasks, down) \in Seq(Names) /\ up \in Names
      BY <2>0, AtFacts DEF Good
    <3>2. Append(Deps(tasks, down), up) \in Seq(Names)
      BY <3>1
    <3>3. Good(Added(up, down))
      BY <2>0, <3>2, WithDepsFacts DEF Added
    <3>4. hasCycle(Added(up, down)) <=> ~Acyclic(Added(up, down))
      BY <3>3, hasCycleExact DEF Good
    <3> QED BY <2>2, <3>4 DEF graphDropAllowed
  <2> QED BY <2>1, <2>2 DEF CycleExact
<1> QED BY <1>1, InvAlways, PTL

\* The drawing and the order of the steps are right for every list the editor
\* can hold.
THEOREM LayoutRight == Spec => []LayoutSound
<1>1. Inv => LayoutSound
  BY LayoutOf DEF LayoutSound, Inv, Before
<1> QED BY <1>1, InvAlways, PTL

\* No edit makes a sound graph unsound, but for the second click of a
\* connection whose first node is gone.
THEOREM EditsStaySound == Spec => StaysSound
<1>1. Inv /\ [Next]_vars
      => [(\A ts \in {tasks} \cup base : Sound(ts))
            => \/ \A ts \in {tasks'} \cup base' : Sound(ts)
               \/ pending \notin Ids(tasks) /\ \E id \in Ids(tasks) : PicksSecond(id)]_vars
  <2> SUFFICES ASSUME Inv, Next, \A ts \in {tasks} \cup base : Sound(ts), ~Stale
               PROVE  \A ts \in {tasks'} \cup base' : Sound(ts)
    BY DEF Stale
  <2>1. Step \/ Discarded
    BY NextStep
  <2>2. base' \subseteq base \cup {tasks}
    BY <2>1, ListsStep
  <2>3. Sound(tasks')
    BY <2>1 DEF Step, Discarded
  <2> QED BY <2>2, <2>3
<1> QED BY <1>1, InvAlways, PTL DEF Spec, StaysSound

-----------------------------------------------------------------------------
(* The diff: its table.                                                    *)

\* One row of the table, from the row p above it.
CellOf(A, B, p, k, c) ==
    [l \in 0 .. Len(B) |->
        IF k = 0 \/ l = 0 THEN 0
        ELSE IF A[Len(A) - k + 1] = B[Len(B) - l + 1] THEN p[l - 1] + 1
        ELSE IF p[l] >= c[l - 1] THEN p[l] ELSE c[l - 1]]
RowOf(A, B, p, k) == CHOOSE c : c = CellOf(A, B, p, k, c)
Row(B) == [0 .. Len(B) -> Nat]

LEMMA RowZero ==
    ASSUME NEW A \in Seq(Task), NEW B \in Seq(Task), NEW p
    PROVE  RowOf(A, B, p, 0) = [l \in 0 .. Len(B) |-> 0]
<1> DEFINE z == [l \in 0 .. Len(B) |-> 0]
<1>1. \A c : CellOf(A, B, p, 0, c) = z
  BY DEF CellOf
<1> HIDE DEF z
<1>2. z = CellOf(A, B, p, 0, z)
  BY <1>1
<1>3. RowOf(A, B, p, 0) = CellOf(A, B, p, 0, RowOf(A, B, p, 0))
  BY <1>2, Zenon DEF RowOf
<1> QED BY <1>1, <1>3 DEF z

LEMMA RowNext ==
    ASSUME NEW A \in Seq(Task), NEW B \in Seq(Task), NEW p \in Row(B), NEW k \in 1 .. Len(A)
    PROVE  LET r == RowOf(A, B, p, k) IN r \in Row(B) /\ r = CellOf(A, B, p, k, r)
<1> DEFINE m == Len(B)
           Eq(l) == A[Len(A) - k + 1] = B[Len(B) - l + 1]
           St(y, l) == IF Eq(l) THEN p[l - 1] + 1 ELSE IF p[l] >= y THEN p[l] ELSE y
           G == [q \in Nat \X (1 .. m) |-> St(q[1], q[2])]
           r == RowOf(A, B, p, k)
<1>0. m \in Nat /\ k # 0
  OBVIOUS
<1>1. \A c : CellOf(A, B, p, k, c) = [l \in 0 .. m |-> IF l = 0 THEN 0 ELSE St(c[l - 1], l)]
  BY <1>0 DEF CellOf
<1> HIDE DEF Eq, m
<1>2. \A y \in Nat, l \in 1 .. m : St(y, l) \in Nat
  <2>1. \A l \in 1 .. m : p[l - 1] \in Nat /\ p[l] \in Nat
    BY <1>0 DEF Row, m
  <2> QED BY <2>1
<1> HIDE DEF St
<1>3. G \in [Nat \X (1 .. m) -> Nat] /\ \A y \in Nat, l \in 1 .. m : G[<<y, l>>] = St(y, l)
  BY <1>2
<1> HIDE DEF G
<1>4. PICK f : Solution(f, Nat, m, 0, G)
  BY <1>0, <1>3, Recursion
<1>5. f \in [0 .. m -> Nat] /\ f[0] = 0 /\ \A l \in 1 .. m : f[l] = St(f[l - 1], l)
  <2>1. f \in [0 .. m -> Nat] /\ \A l \in 1 .. m : l - 1 \in 0 .. m
    BY <1>0, <1>4 DEF Solution
  <2>2. \A l \in 1 .. m : f[l - 1] \in Nat
    BY <2>1
  <2> QED BY <1>3, <1>4, <2>2 DEF Solution
<1>6. f = [l \in 0 .. m |-> IF l = 0 THEN 0 ELSE St(f[l - 1], l)]
  <2>1. \A l \in 0 .. m : l = 0 \/ l \in 1 .. m
    BY <1>0
  <2> QED BY <1>5, <2>1
<1>7. f = CellOf(A, B, p, k, f)
  BY <1>1, <1>6, Zenon
<1>8. r = CellOf(A, B, p, k, r)
  BY <1>7, Zenon DEF RowOf
<1> HIDE DEF r
<1>9. r = [l \in 0 .. m |-> IF l = 0 THEN 0 ELSE St(r[l - 1], l)]
  BY <1>1, <1>8, Zenon
<1>10. r[0] = 0 /\ \A l \in 1 .. m : r[l] = St(r[l - 1], l)
  <2>1. 0 \in 0 .. m /\ \A l \in 1 .. m : l \in 0 .. m /\ l # 0
    BY <1>0
  <2>2. \A l \in 0 .. m : r[l] = IF l = 0 THEN 0 ELSE St(r[l - 1], l)
    BY <1>9
  <2> QED BY <2>1, <2>2
<1> DEFINE S == {l \in Nat : l <= m => r[l] \in Nat}
<1>11. 0 \in S
  BY <1>10
<1>12. ASSUME NEW l \in Nat, l \in S PROVE l + 1 \in S
  <2> SUFFICES ASSUME l + 1 <= m PROVE r[l + 1] \in Nat
    OBVIOUS
  <2>1. r[l] \in Nat
    BY <1>0, <1>12
  <2>2. l + 1 \in 1 .. m /\ (l + 1) - 1 = l
    BY <1>0
  <2> QED BY <1>2, <1>10, <2>1, <2>2
<1>13. Nat \subseteq S
  <2> HIDE DEF S
  <2> QED BY <1>11, <1>12, Induction
<1>14. \A l \in 0 .. m : r[l] \in Nat
  BY <1>0, <1>13
<1>15. r \in Row(B)
  BY <1>9, <1>14 DEF Row, m
<1> QED BY <1>8, <1>15 DEF r

\* The table is filled in row by row.
LEMMA dpRows ==
    ASSUME NEW A \in Seq(Task), NEW B \in Seq(Task)
    PROVE  /\ dp(A, B)[0] = [l \in 0 .. Len(B) |-> 0]
           /\ \A k \in 0 .. Len(A) : dp(A, B)[k] \in Row(B)
           /\ \A k \in 1 .. Len(A) : dp(A, B)[k] = CellOf(A, B, dp(A, B)[k - 1], k, dp(A, B)[k])
<1> DEFINE n == Len(A)
           X == Row(B)
           z == [l \in 0 .. Len(B) |-> 0]
           G == [q \in X \X (1 .. n) |-> RowOf(A, B, q[1], q[2])]
           v == dp(A, B)
<1>0. n \in Nat
  OBVIOUS
<1>1. z \in X /\ \A p : RowOf(A, B, p, 0) = z
  BY RowZero DEF Row
<1>2. \A p \in X, k \in 1 .. n : RowOf(A, B, p, k) \in X
  BY RowNext
<1> HIDE DEF X, n, z
<1>3. G \in [X \X (1 .. n) -> X] /\ \A p \in X, k \in 1 .. n : G[<<p, k>>] = RowOf(A, B, p, k)
  BY <1>2
<1> HIDE DEF G
<1>4. PICK f : Solution(f, X, n, z, G)
  BY <1>0, <1>1, <1>3, Recursion
<1>5. f \in [0 .. n -> X] /\ f[0] = z /\ \A k \in 1 .. n : f[k] = RowOf(A, B, f[k - 1], k)
  <2>1. f \in [0 .. n -> X] /\ \A k \in 1 .. n : k - 1 \in 0 .. n
    BY <1>0, <1>4 DEF Solution
  <2>2. \A k \in 1 .. n : f[k - 1] \in X
    BY <2>1
  <2> QED BY <1>3, <1>4, <2>2 DEF Solution
<1>6. f = [k \in 0 .. n |-> RowOf(A, B, f[k - 1], k)]
  <2>1. \A k \in 0 .. n : k = 0 \/ k \in 1 .. n
    BY <1>0
  <2>2. \A k \in 0 .. n : f[k] = RowOf(A, B, f[k - 1], k)
    BY <1>1, <1>5, <2>1
  <2> QED BY <1>5, <2>2
<1>7. v = CHOOSE r : r = [k \in 0 .. n |-> RowOf(A, B, r[k - 1], k)]
  BY Zenon DEF dp, RowOf, CellOf, n
<1> HIDE DEF v
<1>8. v = [k \in 0 .. n |-> RowOf(A, B, v[k - 1], k)]
  BY <1>6, <1>7, Zenon
<1>9. \A k \in 0 .. n : v[k] = RowOf(A, B, v[k - 1], k)
  BY <1>8
<1>10. v[0] = z
  BY <1>0, <1>1, <1>9
<1> DEFINE S == {k \in Nat : k <= n => v[k] \in X}
<1>11. 0 \in S
  BY <1>1, <1>10
<1>12. ASSUME NEW k \in Nat, k \in S PROVE k + 1 \in S
  <2> SUFFICES ASSUME k + 1 <= n PROVE v[k + 1] \in X
    OBVIOUS
  <2>1. v[k] \in X
    BY <1>0, <1>12
  <2>2. k + 1 \in 1 .. n /\ k + 1 \in 0 .. n /\ (k + 1) - 1 = k
    BY <1>0
  <2>3. v[k + 1] = RowOf(A, B, v[k], k + 1)
    BY <1>9, <2>2
  <2> QED BY <1>2, <2>1, <2>2, <2>3
<1>13. Nat \subseteq S
  <2> HIDE DEF S
  <2> QED BY <1>11, <1>12, Induction
<1>14. \A k \in 0 .. n : v[k] \in X
  BY <1>0, <1>13
<1>15. ASSUME NEW k \in 1 .. n PROVE v[k] = CellOf(A, B, v[k - 1], k, v[k])
  <2>1. k - 1 \in 0 .. n /\ k \in 0 .. n
    BY <1>0
  <2>2. v[k - 1] \in X /\ v[k] = RowOf(A, B, v[k - 1], k)
    BY <1>9, <1>14, <2>1
  <2> QED BY <2>2, RowNext DEF X, n
<1> QED BY <1>10, <1>14, <1>15 DEF v, X, n, z

\* The entries of the table.
Eq(A, B, k, l) == A[Len(A) - k + 1] = B[Len(B) - l + 1]
Table(A, B, d) ==
    /\ \A k \in 0 .. Len(A), l \in 0 .. Len(B) : d[k][l] \in Nat
    /\ \A k \in 0 .. Len(A), l \in 0 .. Len(B) : k = 0 \/ l = 0 => d[k][l] = 0
    /\ \A k \in 1 .. Len(A), l \in 1 .. Len(B) :
          /\ Eq(A, B, k, l) => d[k][l] = d[k - 1][l - 1] + 1
          /\ ~Eq(A, B, k, l) /\ d[k - 1][l] >= d[k][l - 1] => d[k][l] = d[k - 1][l]
          /\ ~Eq(A, B, k, l) /\ ~(d[k - 1][l] >= d[k][l - 1]) => d[k][l] = d[k][l - 1]
LEMMA dpTable ==
    ASSUME NEW A \in Seq(Task), NEW B \in Seq(Task) PROVE Table(A, B, dp(A, B))
<1> DEFINE d == dp(A, B)
<1>0. Len(A) \in Nat /\ Len(B) \in Nat
  OBVIOUS
<1>1. /\ d[0] = [l \in 0 .. Len(B) |-> 0]
      /\ \A k \in 0 .. Len(A) : d[k] \in Row(B)
      /\ \A k \in 1 .. Len(A) : d[k] = CellOf(A, B, d[k - 1], k, d[k])
  BY dpRows
<1> HIDE DEF d
<1>2. ASSUME NEW k \in 0 .. Len(A), NEW l \in 0 .. Len(B) PROVE d[k][l] \in Nat
  BY <1>1 DEF Row
<1>3. ASSUME NEW k \in 1 .. Len(A), NEW l \in 0 .. Len(B)
      PROVE  d[k][l] = IF k = 0 \/ l = 0 THEN 0
                       ELSE IF Eq(A, B, k, l) THEN d[k - 1][l - 1] + 1
                       ELSE IF d[k - 1][l] >= d[k][l - 1] THEN d[k - 1][l] ELSE d[k][l - 1]
  <2> DEFINE c == d[k]
             p == d[k - 1]
  <2>1. c = CellOf(A, B, p, k, c)
    BY <1>1
  <2> HIDE DEF c, p
  <2>2. CellOf(A, B, p, k, c)[l] = IF k = 0 \/ l = 0 THEN 0
                       ELSE IF Eq(A, B, k, l) THEN p[l - 1] + 1
                       ELSE IF p[l] >= c[l - 1] THEN p[l] ELSE c[l - 1]
    BY DEF CellOf, Eq
  <2>3. c[l] = IF k = 0 \/ l = 0 THEN 0
                       ELSE IF Eq(A, B, k, l) THEN p[l - 1] + 1
                       ELSE IF p[l] >= c[l - 1] THEN p[l] ELSE c[l - 1]
    BY <2>1, <2>2
  <2> QED BY <2>3 DEF c, p
<1> HIDE DEF Eq
<1>4. ASSUME NEW k \in 0 .. Len(A), NEW l \in 0 .. Len(B), k = 0 \/ l = 0 PROVE d[k][l] = 0
  <2>1. CASE k = 0
    BY <1>1, <2>1
  <2>2. CASE k # 0
    <3>1. k \in 1 .. Len(A)
      BY <1>0, <2>2
    <3> QED BY <1>3, <1>4, <2>2, <3>1
  <2> QED BY <2>1, <2>2
<1>5. ASSUME NEW k \in 1 .. Len(A), NEW l \in 1 .. Len(B)
      PROVE  /\ Eq(A, B, k, l) => d[k][l] = d[k - 1][l - 1] + 1
             /\ ~Eq(A, B, k, l) /\ d[k - 1][l] >= d[k][l - 1] => d[k][l] = d[k - 1][l]
             /\ ~Eq(A, B, k, l) /\ ~(d[k - 1][l] >= d[k][l - 1]) => d[k][l] = d[k][l - 1]
  <2>1. l \in 0 .. Len(B) /\ ~(k = 0 \/ l = 0)
    BY <1>0
  <2> QED BY <1>3, <2>1
<1> QED BY <1>2, <1>4, <1>5 DEF Table, d

-----------------------------------------------------------------------------
(* The diff: its rows.                                                     *)

LEMMA ThreadEmpty ==
    ASSUME NEW X, NEW E, NEW g \in [X -> [E -> X]], NEW x \in X
    PROVE  Thread(g, x, <<>>) = x
<1> DEFINE s == <<>>
           P == [i \in 0 .. Len(s) |-> {x}]
<1>1. s \in Seq(E) /\ Len(s) = 0
  OBVIOUS
<1>2. P \in [0 .. Len(s) -> SUBSET X] /\ x \in P[0] /\ P[Len(s)] = {x}
  BY <1>1
<1>3. Kept(P, g, s)
  BY <1>1 DEF Kept
<1> HIDE DEF s, P
<1>4. Thread(g, x, s) \in P[Len(s)]
  BY <1>1, <1>2, <1>3, ThreadInduction
<1> QED BY <1>2, <1>4 DEF s

\* The last element of a list is handled last.
Extends(r, s, e, E) ==
    /\ {s, r} \subseteq Seq(E) /\ e \in E
    /\ Len(r) = Len(s) + 1 /\ r[Len(s) + 1] = e /\ \A i \in 1 .. Len(s) : r[i] = s[i]
Threaded(g, x, r, s, e, X) == Thread(g, x, s) \in X /\ Thread(g, x, r) = g[Thread(g, x, s)][e]
LEMMA ThreadLast ==
    ASSUME NEW X, NEW E, NEW g, g \in [X -> [E -> X]], NEW x \in X, NEW s, NEW e, NEW r, Extends(r, s, e, E)
    PROVE  Threaded(g, x, r, s, e, X)
<1> USE DEF Extends
<1> DEFINE n == Len(s)
           G == [p \in X \X (1 .. (n + 1)) |-> g[p[1]][r[p[2]]]]
<1>0. n \in Nat
  OBVIOUS
<1>1. /\ r \in Seq(E) /\ Len(r) = n + 1 /\ r[n + 1] = e
      /\ \A i \in 1 .. n : r[i] = s[i]
  OBVIOUS
<1>2. \A i \in 1 .. (n + 1) : r[i] \in E
  BY <1>0, <1>1
<1> HIDE DEF n
<1>3. G \in [X \X (1 .. (n + 1)) -> X] /\ \A y \in X, i \in 1 .. (n + 1) : G[<<y, i>>] = g[y][r[i]]
  BY <1>2
<1> HIDE DEF G
<1>4. PICK f : Solution(f, X, n + 1, x, G)
  <2> DEFINE N == n + 1
  <2>1. N \in Nat
    BY <1>0
  <2>2. G \in [X \X (1 .. N) -> X]
    BY <1>3
  <2> HIDE DEF N
  <2>3. \E f : Solution(f, X, N, x, G)
    BY <2>1, <2>2, Recursion
  <2> QED BY <2>3 DEF N
<1>5. /\ \A i \in 1 .. (n + 1) : i - 1 \in 0 .. (n + 1)
      /\ n + 1 \in 1 .. (n + 1) /\ (n + 1) - 1 = n /\ n \in 0 .. (n + 1)
  BY <1>0
<1>6. /\ f \in [0 .. (n + 1) -> X] /\ f[0] = x
      /\ \A i \in 1 .. (n + 1) : f[i] = g[f[i - 1]][r[i]]
  <2>1. f \in [0 .. (n + 1) -> X]
    BY <1>4 DEF Solution
  <2>2. \A i \in 1 .. (n + 1) : f[i - 1] \in X
    BY <1>5, <2>1
  <2> QED BY <1>3, <1>4, <2>1, <2>2 DEF Solution
<1> HIDE DEF Extends
<1>7. Thread(g, x, r) = f[n + 1]
  <2> DEFINE P == [i \in 0 .. Len(r) |-> {f[i]}]
  <2>1. P \in [0 .. Len(r) -> SUBSET X] /\ x \in P[0] /\ P[Len(r)] = {f[n + 1]}
    BY <1>0, <1>1, <1>6
  <2>2. Kept(P, g, r)
    <3> SUFFICES ASSUME NEW i \in 1 .. Len(r), NEW y \in P[i - 1] PROVE g[y][r[i]] \in P[i]
      BY DEF Kept
    <3>1. i \in 1 .. (n + 1) /\ i - 1 \in 0 .. Len(r) /\ i \in 0 .. Len(r)
      BY <1>0, <1>1
    <3>2. y = f[i - 1] /\ P[i] = {f[i]}
      BY <3>1
    <3> QED BY <1>6, <3>1, <3>2
  <2> HIDE DEF P
  <2>3. Thread(g, x, r) \in P[Len(r)]
    BY <1>1, <2>1, <2>2, ThreadInduction
  <2> QED BY <2>1, <2>3
<1>8. Thread(g, x, s) = f[n]
  <2> DEFINE P == [i \in 0 .. n |-> {f[i]}]
  <2>1. P \in [0 .. n -> SUBSET X] /\ x \in P[0] /\ P[n] = {f[n]}
    BY <1>0, <1>6
  <2>2. \A i \in 1 .. n : \A y \in P[i - 1] : g[y][s[i]] \in P[i]
    <3> SUFFICES ASSUME NEW i \in 1 .. n, NEW y \in P[i - 1] PROVE g[y][s[i]] \in P[i]
      OBVIOUS
    <3>1. i \in 1 .. (n + 1) /\ i - 1 \in 0 .. n /\ i \in 0 .. n /\ r[i] = s[i]
      BY <1>0, <1>1
    <3>2. y = f[i - 1] /\ P[i] = {f[i]}
      BY <3>1
    <3>3. f[i] = g[f[i - 1]][s[i]]
      BY <1>6, <3>1
    <3> QED BY <3>2, <3>3
  <2> HIDE DEF P
  <2>3. Kept(P, g, s)
    BY <2>2 DEF Kept, n
  <2>4. Thread(g, x, s) \in P[n]
    BY <2>1, <2>3, ThreadInduction DEF n, Extends
  <2> QED BY <2>1, <2>4
<1>9. f[n] \in X /\ f[n + 1] = g[f[n]][e]
  BY <1>1, <1>5, <1>6
<1> QED BY <1>7, <1>8, <1>9 DEF Threaded

\* One more row of a diff, on each of its sides.
LEMMA SideEmpty ==
    ASSUME NEW k PROVE Side(<<>>, k) = <<>>
<1> DEFINE St(f, r) == IF r.k = k THEN f ELSE Append(f, r.s)
           g == [f \in Seq(Task) |-> [r \in DiffRow |-> St(f, r)]]
<1>1. \A f \in Seq(Task), r \in DiffRow : St(f, r) \in Seq(Task)
  <2>1. \A r \in DiffRow : r.s \in Task
    BY DEF DiffRow
  <2> QED BY <2>1
<1>2. Side(<<>>, k) = Thread(g, <<>>, <<>>)
  BY DEF Side
<1> HIDE DEF St
<1>3. g \in [Seq(Task) -> [DiffRow -> Seq(Task)]]
  BY <1>1
<1> HIDE DEF g
<1>4. <<>> \in Seq(Task)
  OBVIOUS
<1> QED BY <1>2, <1>3, <1>4, ThreadEmpty

LEMMA SideAppend ==
    ASSUME NEW k, NEW rows \in Seq(DiffRow), NEW r \in DiffRow
    PROVE  /\ Side(rows, k) \in Seq(Task)
           /\ r.k = k => Side(Append(rows, r), k) = Side(rows, k)
           /\ r.k # k => Side(Append(rows, r), k) = Append(Side(rows, k), r.s)
<1> DEFINE St(f, q) == IF q.k = k THEN f ELSE Append(f, q.s)
           g == [f \in Seq(Task) |-> [q \in DiffRow |-> St(f, q)]]
<1>1. \A f \in Seq(Task), q \in DiffRow : St(f, q) \in Seq(Task)
  <2>1. \A q \in DiffRow : q.s \in Task
    BY DEF DiffRow
  <2> QED BY <2>1
<1>2. Side(rows, k) = Thread(g, <<>>, rows) /\ Side(Append(rows, r), k) = Thread(g, <<>>, Append(rows, r))
  BY DEF Side
<1>3. \A f : (r.k = k => St(f, r) = f) /\ (r.k # k => St(f, r) = Append(f, r.s))
  OBVIOUS
<1> HIDE DEF St
<1>4. /\ g \in [Seq(Task) -> [DiffRow -> Seq(Task)]]
      /\ \A f \in Seq(Task), q \in DiffRow : g[f][q] = St(f, q)
  BY <1>1
<1> HIDE DEF g
<1>5. <<>> \in Seq(Task)
  OBVIOUS
<1>6. Side(rows, k) \in Seq(Task) /\ Side(Append(rows, r), k) = g[Side(rows, k)][r]
  <2> DEFINE X == Seq(Task)
             x == <<>>
  <2>1. g \in [X -> [DiffRow -> X]] /\ x \in X
    BY <1>4, <1>5
  <2> HIDE DEF X, x
  <2>2. Thread(g, x, rows) \in X /\ Thread(g, x, Append(rows, r)) = g[Thread(g, x, rows)][r]
    <3> DEFINE q == Append(rows, r)
    <3>1. Extends(q, rows, r, DiffRow)
      BY AppendFacts DEF Extends
    <3> HIDE DEF q
    <3>2. Threaded(g, x, q, rows, r, X)
      BY <2>1, <3>1, ThreadLast
    <3> QED BY <3>2 DEF q, Threaded
  <2> QED BY <1>2, <2>2 DEF X, x
<1> QED BY <1>3, <1>4, <1>6

LEMMA SameEmpty == Same(<<>>) = 0
<1>1. {x \in DOMAIN <<>> : <<>>[x].k = " "} = {}
  OBVIOUS
<1> QED BY <1>1, FS_EmptySet DEF Same

LEMMA SameNat ==
    ASSUME NEW rows \in Seq(DiffRow) PROVE Same(rows) \in Nat
<1> DEFINE K == {x \in DOMAIN rows : rows[x].k = " "}
<1>1. K \subseteq 1 .. Len(rows) /\ IsFiniteSet(1 .. Len(rows))
  <2>1. DOMAIN rows = 1 .. Len(rows) /\ Len(rows) \in Nat
    OBVIOUS
  <2>2. K \subseteq DOMAIN rows
    BY Zenon
  <2> HIDE DEF K
  <2> QED BY <2>1, <2>2, FS_Interval
<1> HIDE DEF K
<1>2. Cardinality(K) \in Nat
  BY <1>1, FS_Subset, FS_CardinalityType
<1> QED BY <1>2 DEF Same, K

LEMMA SameAppend ==
    ASSUME NEW rows \in Seq(DiffRow), NEW r \in DiffRow
    PROVE  /\ Same(rows) \in Nat
           /\ r.k = " " => Same(Append(rows, r)) = Same(rows) + 1
           /\ r.k # " " => Same(Append(rows, r)) = Same(rows)
<1> DEFINE n == Len(rows)
           q == Append(rows, r)
           K == {x \in DOMAIN rows : rows[x].k = " "}
           L == {x \in DOMAIN q : q[x].k = " "}
<1>0. n \in Nat /\ DOMAIN rows = 1 .. n
  OBVIOUS
<1>1. /\ DOMAIN q = 1 .. (n + 1) /\ q[n + 1] = r
      /\ \A i \in 1 .. n : q[i] = rows[i]
  <2>1. q \in Seq(DiffRow) /\ Len(q) = n + 1 /\ q[n + 1] = r /\ \A i \in 1 .. n : q[i] = rows[i]
    BY AppendFacts
  <2> QED BY <2>1
<1> HIDE DEF q, n
<1>2. IsFiniteSet(K) /\ n + 1 \notin K
  <2>1. IsFiniteSet(1 .. n)
    BY <1>0, FS_Interval
  <2>2. K \subseteq 1 .. n
    BY <1>0
  <2>3. n + 1 \notin 1 .. n
    BY <1>0
  <2> HIDE DEF K
  <2> QED BY <2>1, <2>2, <2>3, FS_Subset
<1>3. \A x \in 1 .. (n + 1) : x \in 1 .. n \/ x = n + 1
  BY <1>0
<1>4. \A x \in 1 .. n : x \in 1 .. (n + 1)
  BY <1>0
<1>5. n + 1 \in 1 .. (n + 1)
  BY <1>0
<1>6. (r.k = " " => L = K \cup {n + 1}) /\ (r.k # " " => L = K)
  BY <1>0, <1>1, <1>3, <1>4, <1>5
<1>7. Cardinality(K) \in Nat /\ Cardinality(K \cup {n + 1}) = Cardinality(K) + 1
  BY <1>2, FS_CardinalityType, FS_AddElement
<1> QED BY <1>6, <1>7 DEF Same, q

-----------------------------------------------------------------------------
(* The diff: walking down the table.                                       *)

LEMMA WalkFacts ==
    ASSUME NEW A \in Seq(Task), NEW B \in Seq(Task), NEW w \in Walk(A, B)
    PROVE  w.i \in 0 .. Len(A) /\ w.j \in 0 .. Len(B) /\ w.out \in Seq(DiffRow)
BY DEF Walk
LEMMA WalkMade ==
    ASSUME NEW A, NEW B, NEW i \in 0 .. Len(A), NEW j \in 0 .. Len(B), NEW out \in Seq(DiffRow)
    PROVE  LET t == [i |-> i, j |-> j, out |-> out] IN
           t \in Walk(A, B) /\ t.i = i /\ t.j = j /\ t.out = out
BY DEF Walk

\* A round takes the next line of A, of B or of both, unless both are done.
Unread(A, B, w) == w.i # Len(A) \/ w.j # Len(B)
Taken(A, B, w, r, i, j) ==
    /\ r \in DiffRow /\ i \in 0 .. Len(A) /\ j \in 0 .. Len(B)
    /\ \/ r.k = "+" /\ i = w.i
       \/ r.k # "+" /\ i = w.i + 1 /\ r.s = A[i]
    /\ \/ r.k = "-" /\ j = w.j
       \/ r.k # "-" /\ j = w.j + 1 /\ r.s = B[j]
Moved(w, r, i, j) == [i |-> i, j |-> j, out |-> Append(w.out, r)]
Fits(A, B, d, w, r, i, j) ==
    /\ r.k = " " => d[Len(A) - w.i][Len(B) - w.j] = d[Len(A) - i][Len(B) - j] + 1
    /\ r.k # " " => d[Len(A) - w.i][Len(B) - w.j] = d[Len(A) - i][Len(B) - j]
Rounds(A, B, d, w, t) ==
    \/ ~Unread(A, B, w) /\ t = w
    \/ Unread(A, B, w) /\ \E r, i, j : t = Moved(w, r, i, j) /\ Taken(A, B, w, r, i, j) /\ Fits(A, B, d, w, r, i, j)

LEMMA diffStepRounds ==
    ASSUME NEW A \in Seq(Task), NEW B \in Seq(Task), NEW w \in Walk(A, B)
    PROVE  Rounds(A, B, dp(A, B), w, diffStep(A, B, w))
<1> DEFINE d == dp(A, B)
           n == Len(A)
           m == Len(B)
           a == n - w.i
           b == m - w.j
           t == diffStep(A, B, w)
           Done3(r, i, j) == t = Moved(w, r, i, j) /\ Taken(A, B, w, r, i, j) /\ Fits(A, B, d, w, r, i, j)
<1>0. n \in Nat /\ m \in Nat /\ w.i \in 0 .. n /\ w.j \in 0 .. m
  BY WalkFacts
<1>1. Table(A, B, d)
  BY dpTable
<1>2. (\A x \in 1 .. n : A[x] \in Task) /\ (\A x \in 1 .. m : B[x] \in Task)
  OBVIOUS
<1>3. a \in 0 .. n /\ b \in 0 .. m /\ n - a + 1 = w.i + 1 /\ m - b + 1 = w.j + 1
      /\ n - (w.i + 1) = a - 1 /\ m - (w.j + 1) = b - 1
  BY <1>0
<1>4. \A k \in {" ", "-", "+"}, s \in Task : LET r == [k |-> k, s |-> s] IN r \in DiffRow /\ r.k = k /\ r.s = s
  BY DEF DiffRow
<1>5. Unread(A, B, w) <=> (w.i < n \/ w.j < m)
  BY <1>0 DEF Unread
<1> HIDE DEF d
<1>6. ASSUME w.i < n, w.j < m PROVE \E r, i, j : Done3(r, i, j)
  <2>0. a \in 1 .. n /\ b \in 1 .. m /\ w.i + 1 \in 0 .. n /\ w.i + 1 \in 1 .. n
        /\ w.j + 1 \in 0 .. m /\ w.j + 1 \in 1 .. m
    BY <1>0, <1>6
  <2>1. Eq(A, B, a, b) <=> A[w.i + 1] = B[w.j + 1]
    BY <1>3 DEF Eq
  <2>2. CASE A[w.i + 1] = B[w.j + 1]
    <3> DEFINE r == [k |-> " ", s |-> A[w.i + 1]]
    <3>1. r \in DiffRow /\ r.k = " " /\ r.s = A[w.i + 1]
      BY <1>2, <1>4, <2>0
    <3>2. t = Moved(w, r, w.i + 1, w.j + 1)
      BY <1>6, <2>2 DEF diffStep, KeepRow, Moved
    <3> HIDE DEF r
    <3>3. Taken(A, B, w, r, w.i + 1, w.j + 1)
      BY <2>0, <2>2, <3>1 DEF Taken
    <3>4. d[a][b] = d[a - 1][b - 1] + 1
      BY <1>1, <2>0, <2>1, <2>2 DEF Table
    <3>5. Fits(A, B, d, w, r, w.i + 1, w.j + 1)
      BY <1>3, <3>1, <3>4 DEF Fits
    <3> QED BY <3>2, <3>3, <3>5
  <2>3. CASE A[w.i + 1] # B[w.j + 1] /\ d[a - 1][b] >= d[a][b - 1]
    <3> DEFINE r == [k |-> "-", s |-> A[w.i + 1]]
    <3>1. r \in DiffRow /\ r.k = "-" /\ r.s = A[w.i + 1]
      BY <1>2, <1>4, <2>0
    <3>2. t = Moved(w, r, w.i + 1, w.j)
      BY <1>6, <2>3 DEF diffStep, RemoveRow, Moved, d
    <3> HIDE DEF r
    <3>3. Taken(A, B, w, r, w.i + 1, w.j)
      BY <1>0, <2>0, <3>1 DEF Taken
    <3>4. d[a][b] = d[a - 1][b]
      BY <1>1, <2>0, <2>1, <2>3 DEF Table
    <3>5. Fits(A, B, d, w, r, w.i + 1, w.j)
      BY <1>3, <3>1, <3>4 DEF Fits
    <3> QED BY <3>2, <3>3, <3>5
  <2>4. CASE A[w.i + 1] # B[w.j + 1] /\ ~(d[a - 1][b] >= d[a][b - 1])
    <3> DEFINE r == [k |-> "+", s |-> B[w.j + 1]]
    <3>1. r \in DiffRow /\ r.k = "+" /\ r.s = B[w.j + 1]
      BY <1>2, <1>4, <2>0
    <3>2. t = Moved(w, r, w.i, w.j + 1)
      BY <1>6, <2>4 DEF diffStep, AddRow, Moved, d
    <3> HIDE DEF r
    <3>3. Taken(A, B, w, r, w.i, w.j + 1)
      BY <1>0, <2>0, <3>1 DEF Taken
    <3>4. d[a][b] = d[a][b - 1]
      BY <1>1, <2>0, <2>1, <2>4 DEF Table
    <3>5. Fits(A, B, d, w, r, w.i, w.j + 1)
      BY <1>3, <3>1, <3>4 DEF Fits
    <3> QED BY <3>2, <3>3, <3>5
  <2> QED BY <2>2, <2>3, <2>4
<1>7. ASSUME w.i < n, ~(w.j < m) PROVE \E r, i, j : Done3(r, i, j)
  <2> DEFINE r == [k |-> "-", s |-> A[w.i + 1]]
  <2>0. w.i + 1 \in 0 .. n /\ w.i + 1 \in 1 .. n /\ b = 0 /\ a - 1 \in 0 .. n
    BY <1>0, <1>7
  <2>1. r \in DiffRow /\ r.k = "-" /\ r.s = A[w.i + 1]
    BY <1>2, <1>4, <2>0
  <2>2. t = Moved(w, r, w.i + 1, w.j)
    BY <1>7 DEF diffStep, RemoveRow, Moved
  <2> HIDE DEF r
  <2>3. Taken(A, B, w, r, w.i + 1, w.j)
    BY <1>0, <2>0, <2>1 DEF Taken
  <2>4. d[a][b] = 0 /\ d[a - 1][b] = 0
    BY <1>1, <1>3, <2>0 DEF Table
  <2>5. Fits(A, B, d, w, r, w.i + 1, w.j)
    BY <1>3, <2>1, <2>4 DEF Fits
  <2> QED BY <2>2, <2>3, <2>5
<1>8. ASSUME ~(w.i < n), w.j < m PROVE \E r, i, j : Done3(r, i, j)
  <2> DEFINE r == [k |-> "+", s |-> B[w.j + 1]]
  <2>0. w.j + 1 \in 0 .. m /\ w.j + 1 \in 1 .. m /\ a = 0 /\ b - 1 \in 0 .. m
    BY <1>0, <1>8
  <2>1. r \in DiffRow /\ r.k = "+" /\ r.s = B[w.j + 1]
    BY <1>2, <1>4, <2>0
  <2>2. t = Moved(w, r, w.i, w.j + 1)
    BY <1>8 DEF diffStep, AddRow, Moved
  <2> HIDE DEF r
  <2>3. Taken(A, B, w, r, w.i, w.j + 1)
    BY <1>0, <2>0, <2>1 DEF Taken
  <2>4. d[a][b] = 0 /\ d[a][b - 1] = 0
    BY <1>1, <1>3, <2>0 DEF Table
  <2>5. Fits(A, B, d, w, r, w.i, w.j + 1)
    BY <1>3, <2>1, <2>4 DEF Fits
  <2> QED BY <2>2, <2>3, <2>5
<1>9. ASSUME ~(w.i < n), ~(w.j < m) PROVE t = w
  BY <1>9 DEF diffStep
<1> HIDE DEF t, a, b
<1> QED BY <1>5, <1>6, <1>7, <1>8, <1>9 DEF Rounds, d, t

\* What has been told so far: the first lines of each side, and as many common
\* lines as the table promised.
Begins(s, A, i) == s \in Seq(Task) /\ Len(s) = i /\ \A x \in 1 .. i : s[x] = A[x]
Promised(A, B, d, w) == Same(w.out) + d[Len(A) - w.i][Len(B) - w.j] = d[Len(A)][Len(B)]
Told(A, B, d, w) ==
    /\ w \in Walk(A, B) /\ Promised(A, B, d, w)
    /\ Begins(Side(w.out, "+"), A, w.i) /\ Begins(Side(w.out, "-"), B, w.j)

LEMMA BeginsMore ==
    ASSUME NEW A \in Seq(Task), NEW i \in 0 .. Len(A), NEW s, Begins(s, A, i),
           i + 1 \in 0 .. Len(A), NEW e \in Task, e = A[i + 1]
    PROVE  Begins(Append(s, e), A, i + 1)
<1> DEFINE r == Append(s, e)
<1>0. s \in Seq(Task) /\ Len(s) = i /\ \A x \in 1 .. i : s[x] = A[x]
  BY DEF Begins
<1>1. r \in Seq(Task) /\ Len(r) = i + 1 /\ r[i + 1] = e /\ \A x \in 1 .. i : r[x] = s[x]
  BY <1>0, AppendFacts
<1>2. \A x \in 1 .. (i + 1) : x \in 1 .. i \/ x = i + 1
  OBVIOUS
<1> HIDE DEF r
<1>3. \A x \in 1 .. (i + 1) : r[x] = A[x]
  BY <1>0, <1>1, <1>2
<1> QED BY <1>1, <1>3 DEF Begins, r

LEMMA MovedTold ==
    ASSUME NEW A \in Seq(Task), NEW B \in Seq(Task), NEW d, Table(A, B, d), NEW w, Told(A, B, d, w),
           NEW r, NEW i, NEW j, Taken(A, B, w, r, i, j), Fits(A, B, d, w, r, i, j)
    PROVE  LET t == Moved(w, r, i, j) IN Told(A, B, d, t) /\ t.i + t.j >= w.i + w.j + 1
<1> DEFINE t == Moved(w, r, i, j)
           n == Len(A)
           m == Len(B)
<1>0. n \in Nat /\ m \in Nat /\ w.i \in 0 .. n /\ w.j \in 0 .. m /\ w.out \in Seq(DiffRow)
  BY WalkFacts DEF Told
<1>1. r \in DiffRow /\ i \in 0 .. n /\ j \in 0 .. m
  BY DEF Taken
<1>2. r.s \in Task /\ r.k \in {" ", "-", "+"}
  BY <1>1 DEF DiffRow
<1>3. Append(w.out, r) \in Seq(DiffRow)
  BY <1>0, <1>1, AppendFacts
<1>4. t \in Walk(A, B) /\ t.i = i /\ t.j = j /\ t.out = Append(w.out, r)
  BY <1>1, <1>3, WalkMade DEF Moved
<1> HIDE DEF t
<1>5. Begins(Side(t.out, "+"), A, i)
  <2>1. CASE r.k = "+" /\ i = w.i
    BY <1>0, <1>1, <1>4, <2>1, SideAppend DEF Told
  <2>2. CASE r.k # "+" /\ i = w.i + 1 /\ r.s = A[i]
    <3>1. Side(t.out, "+") = Append(Side(w.out, "+"), r.s)
      BY <1>0, <1>1, <1>4, <2>2, SideAppend
    <3>2. Begins(Side(w.out, "+"), A, w.i)
      BY DEF Told
    <3> QED BY <1>0, <1>1, <1>2, <2>2, <3>1, <3>2, BeginsMore
  <2> QED BY <2>1, <2>2 DEF Taken
<1>6. Begins(Side(t.out, "-"), B, j)
  <2>1. CASE r.k = "-" /\ j = w.j
    BY <1>0, <1>1, <1>4, <2>1, SideAppend DEF Told
  <2>2. CASE r.k # "-" /\ j = w.j + 1 /\ r.s = B[j]
    <3>1. Side(t.out, "-") = Append(Side(w.out, "-"), r.s)
      BY <1>0, <1>1, <1>4, <2>2, SideAppend
    <3>2. Begins(Side(w.out, "-"), B, w.j)
      BY DEF Told
    <3> QED BY <1>0, <1>1, <1>2, <2>2, <3>1, <3>2, BeginsMore
  <2> QED BY <2>1, <2>2 DEF Taken
<1>7. Promised(A, B, d, t)
  <2> DEFINE now == d[n - w.i][m - w.j]
             then == d[n - i][m - j]
             all == d[n][m]
  <2>0. n - w.i \in 0 .. n /\ m - w.j \in 0 .. m /\ n - i \in 0 .. n /\ m - j \in 0 .. m
        /\ n \in 0 .. n /\ m \in 0 .. m
    BY <1>0, <1>1
  <2>1. now \in Nat /\ then \in Nat /\ all \in Nat
    BY <2>0 DEF Table
  <2>2. Same(w.out) + now = all
    BY DEF Told, Promised
  <2>3. (r.k = " " => now = then + 1) /\ (r.k # " " => now = then)
    BY DEF Fits
  <2>4. /\ Same(w.out) \in Nat
        /\ r.k = " " => Same(t.out) = Same(w.out) + 1
        /\ r.k # " " => Same(t.out) = Same(w.out)
    BY <1>0, <1>1, <1>4, SameAppend
  <2> DEFINE u == Same(w.out)
             v == Same(t.out)
  <2>5. v + then = all
    <3> HIDE DEF now, then, all, u, v
    <3>1. CASE r.k = " "
      <4>1. now = then + 1 /\ v = u + 1 /\ u \in Nat /\ u + now = all
        BY <2>2, <2>3, <2>4, <3>1 DEF u, v
      <4> QED BY <2>1, <4>1
    <3>2. CASE r.k # " "
      <4>1. now = then /\ v = u /\ u \in Nat /\ u + now = all
        BY <2>2, <2>3, <2>4, <3>2 DEF u, v
      <4> QED BY <2>1, <4>1
    <3> QED BY <3>1, <3>2
  <2> QED BY <1>4, <2>5 DEF Promised, then, all
<1>8. i + j >= w.i + w.j + 1
  <2>1. (i = w.i /\ r.k = "+") \/ i = w.i + 1
    BY DEF Taken
  <2>2. (j = w.j /\ r.k = "-") \/ j = w.j + 1
    BY DEF Taken
  <2> QED BY <1>0, <2>1, <2>2
<1> QED BY <1>4, <1>5, <1>6, <1>7, <1>8 DEF Told, t

LEMMA RoundsTyped ==
    ASSUME NEW A \in Seq(Task), NEW B \in Seq(Task), NEW w \in Walk(A, B)
    PROVE  diffStep(A, B, w) \in Walk(A, B)
<1> DEFINE t == diffStep(A, B, w)
<1>1. Rounds(A, B, dp(A, B), w, t)
  BY diffStepRounds
<1> HIDE DEF t
<1>2. ASSUME NEW r, NEW i, NEW j, t = Moved(w, r, i, j), Taken(A, B, w, r, i, j) PROVE t \in Walk(A, B)
  <2>1. r \in DiffRow /\ i \in 0 .. Len(A) /\ j \in 0 .. Len(B) /\ w.out \in Seq(DiffRow)
    BY <1>2, WalkFacts DEF Taken
  <2>2. Append(w.out, r) \in Seq(DiffRow)
    BY <2>1, AppendFacts
  <2> QED BY <1>2, <2>1, <2>2, WalkMade DEF Moved
<1>3. t \in Walk(A, B)
  BY <1>1, <1>2 DEF Rounds
<1> QED BY <1>3 DEF t

\* The rows in the end.
LEMMA BeginsAll ==
    ASSUME NEW A \in Seq(Task), NEW s, Begins(s, A, Len(A)) PROVE s = A
BY DEF Begins

LEMMA diffLinesFacts ==
    ASSUME NEW A \in Seq(Task), NEW B \in Seq(Task)
    PROVE  LET rows == diffLines(A, B) IN
           Side(rows, "+") = A /\ Side(rows, "-") = B /\ Same(rows) = dp(A, B)[Len(A)][Len(B)]
<1> DEFINE d == dp(A, B)
           n == Len(A)
           m == Len(B)
           s == A \o B
           X == Walk(A, B)
           St(w) == diffStep(A, B, w)
           g == [w \in X |-> [t \in Task |-> St(w)]]
           x == [i |-> 0, j |-> 0, out |-> <<>>]
           Q(w, k) == Told(A, B, d, w) /\ (Unread(A, B, w) => w.i + w.j >= k)
           P == [k \in 0 .. Len(s) |-> {w \in X : Q(w, k)}]
           z == Thread(g, x, s)
<1>0. n \in Nat /\ m \in Nat /\ s \in Seq(Task) /\ Len(s) = n + m
  OBVIOUS
<1>1. Table(A, B, d)
  BY dpTable
<1>2. \A w \in X : St(w) \in X /\ Rounds(A, B, d, w, St(w))
  BY RoundsTyped, diffStepRounds
<1> HIDE DEF X, St, d, s
<1>3. g \in [X -> [Task -> X]] /\ \A w \in X, t \in Task : g[w][t] = St(w)
  BY <1>2
<1>4. diffLines(A, B) = z.out
  BY DEF diffLines, X, St, s
<1> HIDE DEF g
<1>5. x \in X /\ x.i = 0 /\ x.j = 0 /\ x.out = <<>>
  <2>1. <<>> \in Seq(DiffRow) /\ 0 \in 0 .. n /\ 0 \in 0 .. m
    BY <1>0
  <2> HIDE DEF x
  <2> QED BY <2>1, WalkMade DEF x, X
<1> HIDE DEF x
<1>6. Q(x, 0)
  <2>1. Begins(<<>>, A, 0) /\ Begins(<<>>, B, 0)
    BY DEF Begins
  <2>2. d[n][m] \in Nat /\ n - 0 = n /\ m - 0 = m
    BY <1>0, <1>1 DEF Table
  <2>3. Same(<<>>) = 0 /\ Side(<<>>, "+") = <<>> /\ Side(<<>>, "-") = <<>>
    BY SameEmpty, SideEmpty
  <2>4. Promised(A, B, d, x)
    BY <1>5, <2>2, <2>3 DEF Promised
  <2> QED BY <1>5, <2>1, <2>3, <2>4 DEF Told, X
<1>7. P \in [0 .. Len(s) -> SUBSET X] /\ x \in P[0]
  <2> HIDE DEF Q
  <2> QED BY <1>0, <1>5, <1>6
<1>8. ASSUME NEW k \in 1 .. Len(s), NEW w \in P[k - 1] PROVE g[w][s[k]] \in P[k]
  <2> DEFINE t == St(w)
  <2>1. k - 1 \in 0 .. Len(s) /\ k \in 0 .. Len(s) /\ s[k] \in Task
    BY <1>0
  <2>2. w \in X /\ Q(w, k - 1)
    <3> HIDE DEF Q
    <3> QED BY <1>8, <2>1
  <2>3. g[w][s[k]] = t /\ t \in X /\ Rounds(A, B, d, w, t)
    BY <1>2, <1>3, <2>1, <2>2
  <2> HIDE DEF t
  <2>4. ASSUME Unread(A, B, w), NEW r, NEW i, NEW j, t = Moved(w, r, i, j),
               Taken(A, B, w, r, i, j), Fits(A, B, d, w, r, i, j)
        PROVE  Q(t, k)
    <3>1. Told(A, B, d, t) /\ t.i + t.j >= w.i + w.j + 1
      BY <1>1, <2>2, <2>4, MovedTold
    <3>2. w.i \in 0 .. n /\ w.j \in 0 .. m /\ t.i \in 0 .. n /\ t.j \in 0 .. m
      BY <2>2, <2>3, WalkFacts DEF X
    <3>3. w.i + w.j >= k - 1
      BY <2>2, <2>4
    <3>4. t.i + t.j >= k
      BY <1>0, <2>1, <3>1, <3>2, <3>3
    <3> QED BY <3>1, <3>4
  <2>5. Q(t, k)
    <3>1. CASE ~Unread(A, B, w) /\ t = w
      BY <2>2, <3>1
    <3> HIDE DEF Q
    <3> QED BY <2>3, <2>4, <3>1 DEF Rounds
  <2> HIDE DEF Q
  <2> QED BY <2>1, <2>3, <2>5
<1>9. Kept(P, g, s)
  <2> HIDE DEF P
  <2> QED BY <1>8 DEF Kept
<1>10. z \in P[Len(s)]
  <2> HIDE DEF P, z
  <2> QED BY <1>0, <1>3, <1>7, <1>9, ThreadInduction DEF z
<1>11. z \in X /\ Q(z, n + m)
  <2> HIDE DEF Q, z
  <2> QED BY <1>0, <1>10
<1> HIDE DEF z
<1>12. z.i \in 0 .. n /\ z.j \in 0 .. m /\ z.out \in Seq(DiffRow)
  BY <1>11, WalkFacts DEF X
<1>13. z.i = n /\ z.j = m
  BY <1>0, <1>11, <1>12 DEF Unread
<1>14. Side(z.out, "+") = A /\ Side(z.out, "-") = B
  BY <1>11, <1>13, BeginsAll DEF Told
<1>15. Same(z.out) = d[n][m]
  <2>1. n - n = 0 /\ m - m = 0 /\ d[0][0] = 0
    BY <1>0, <1>1 DEF Table
  <2>2. Same(z.out) + 0 = d[n][m]
    BY <1>11, <1>13, <2>1 DEF Told, Promised
  <2>3. Same(z.out) \in Nat
    BY <1>12, SameNat
  <2> QED BY <2>2, <2>3
<1> QED BY <1>4, <1>14, <1>15 DEF d

-----------------------------------------------------------------------------
(* The diff: no way to match the lines keeps more of them.                 *)

\* A matching within the last k lines of A and the last l lines of B.
Within(A, B, M, k, l) == \A p \in M : p[1] > Len(A) - k /\ p[2] > Len(B) - l

LEMMA MatchingFacts ==
    ASSUME NEW A \in Seq(Task), NEW B \in Seq(Task), NEW M \in Matchings(A, B)
    PROVE  /\ \A p \in M : p[1] \in 1 .. Len(A) /\ p[2] \in 1 .. Len(B) /\ A[p[1]] = B[p[2]] /\ p = <<p[1], p[2]>>
           /\ \A p, q \in M : p # q => (p[1] < q[1] /\ p[2] < q[2]) \/ (q[1] < p[1] /\ q[2] < p[2])
           /\ IsFiniteSet(M) /\ Cardinality(M) \in Nat
           /\ \A N \in SUBSET M : N \in Matchings(A, B)
<1> DEFINE I == 1 .. Len(A)
           J == 1 .. Len(B)
<1>0. DOMAIN A = I /\ DOMAIN B = J /\ Len(A) \in Nat /\ Len(B) \in Nat
  OBVIOUS
<1>1. /\ M \subseteq {p \in I \X J : A[p[1]] = B[p[2]]}
      /\ \A p, q \in M : p # q => (p[1] < q[1] /\ p[2] < q[2]) \/ (q[1] < p[1] /\ q[2] < p[2])
  BY <1>0 DEF Matchings
<1>2. \A N \in SUBSET M : N \in Matchings(A, B)
  BY <1>0, <1>1 DEF Matchings
<1>3. IsFiniteSet(I) /\ IsFiniteSet(J)
  BY <1>0, FS_Interval
<1> HIDE DEF I, J
<1>4. IsFiniteSet(I \X J)
  BY <1>3, FS_Product
<1>5. M \subseteq I \X J
  BY <1>1
<1>6. IsFiniteSet(M) /\ Cardinality(M) \in Nat
  BY <1>4, <1>5, FS_Subset, FS_CardinalityType
<1>7. \A p \in M : p[1] \in I /\ p[2] \in J /\ A[p[1]] = B[p[2]] /\ p = <<p[1], p[2]>>
  BY <1>1
<1> QED BY <1>1, <1>2, <1>6, <1>7 DEF I, J

Bounded(A, B, d, k, l) ==
    \A M \in Matchings(A, B) : Within(A, B, M, k, l) => Cardinality(M) <= d[k][l]

\* Nothing can be matched without lines.
LEMMA BoundedEmpty ==
    ASSUME NEW A \in Seq(Task), NEW B \in Seq(Task), NEW d, Table(A, B, d),
           NEW k \in 0 .. Len(A), NEW l \in 0 .. Len(B), k = 0 \/ l = 0
    PROVE  Bounded(A, B, d, k, l)
<1> SUFFICES ASSUME NEW M \in Matchings(A, B), Within(A, B, M, k, l) PROVE Cardinality(M) <= d[k][l]
  BY DEF Bounded
<1>1. \A p \in M : p[1] \in 1 .. Len(A) /\ p[2] \in 1 .. Len(B)
  BY MatchingFacts
<1>2. \A p \in M : p[1] > Len(A) - k /\ p[2] > Len(B) - l
  BY DEF Within
<1>3. Len(A) \in Nat /\ Len(B) \in Nat
  OBVIOUS
<1>4. M = {}
  BY <1>1, <1>2, <1>3
<1>5. Cardinality(M) = 0
  BY <1>4, FS_EmptySet
<1>6. d[k][l] = 0
  BY DEF Table
<1> QED BY <1>5, <1>6

\* Equal first lines: all but one of the matches are further down on both sides.
LEMMA BoundedEqual ==
    ASSUME NEW A \in Seq(Task), NEW B \in Seq(Task), NEW d, Table(A, B, d),
           NEW k \in 1 .. Len(A), NEW l \in 1 .. Len(B), Eq(A, B, k, l), Bounded(A, B, d, k - 1, l - 1)
    PROVE  Bounded(A, B, d, k, l)
<1> SUFFICES ASSUME NEW M \in Matchings(A, B), Within(A, B, M, k, l) PROVE Cardinality(M) <= d[k][l]
  BY DEF Bounded
<1> DEFINE a == Len(A) - k + 1
           b == Len(B) - l + 1
           N == {p \in M : p[1] > a /\ p[2] > b}
<1>0. Len(A) \in Nat /\ Len(B) \in Nat /\ k - 1 \in 0 .. Len(A) /\ l - 1 \in 0 .. Len(B)
      /\ a = Len(A) - (k - 1) /\ b = Len(B) - (l - 1) /\ a \in Nat /\ b \in Nat
  OBVIOUS
<1>1. /\ \A p \in M : p[1] \in 1 .. Len(A) /\ p[2] \in 1 .. Len(B)
      /\ \A p, q \in M : p # q => (p[1] < q[1] /\ p[2] < q[2]) \/ (q[1] < p[1] /\ q[2] < p[2])
      /\ IsFiniteSet(M) /\ Cardinality(M) \in Nat
      /\ N \in Matchings(A, B)
  BY MatchingFacts
<1>2. \A p \in M : p[1] >= a /\ p[2] >= b
  BY <1>0, <1>1 DEF Within
<1>3. Within(A, B, N, k - 1, l - 1)
  BY <1>0 DEF Within
<1>4. Cardinality(N) <= d[k - 1][l - 1] /\ d[k - 1][l - 1] \in Nat /\ d[k][l] = d[k - 1][l - 1] + 1
  BY <1>0, <1>1, <1>3 DEF Bounded, Table
<1>5. \A p, q \in M \ N : p = q
  <2> SUFFICES ASSUME NEW p \in M \ N, NEW q \in M \ N, p # q PROVE FALSE
    OBVIOUS
  <2>1. /\ p[1] \in Nat /\ p[2] \in Nat /\ q[1] \in Nat /\ q[2] \in Nat
        /\ p[1] >= a /\ p[2] >= b /\ q[1] >= a /\ q[2] >= b
        /\ ~(p[1] > a /\ p[2] > b) /\ ~(q[1] > a /\ q[2] > b)
    BY <1>1, <1>2
  <2>2. (p[1] < q[1] /\ p[2] < q[2]) \/ (q[1] < p[1] /\ q[2] < p[2])
    BY <1>1
  <2> HIDE DEF a, b
  <2> QED BY <1>0, <2>1, <2>2
<1>6. N \subseteq M
  OBVIOUS
<1> HIDE DEF N
<1>7. IsFiniteSet(N) /\ Cardinality(N) \in Nat
  BY <1>1, <1>6, FS_Subset, FS_CardinalityType
<1>8. Cardinality(M) <= Cardinality(N) + 1
  <2>1. CASE M = N
    BY <1>7, <2>1
  <2>2. CASE M # N
    <3>1. PICK p \in M \ N : TRUE
      BY <1>6, <2>2
    <3>2. M = N \cup {p} /\ p \notin N
      BY <1>5, <1>6, <3>1
    <3>3. Cardinality(N \cup {p}) = Cardinality(N) + 1
      BY <1>7, <3>2, FS_AddElement
    <3> QED BY <1>7, <3>2, <3>3
  <2> QED BY <2>1, <2>2
<1> HIDE DEF a, b
<1> QED BY <1>1, <1>4, <1>7, <1>8

\* Different first lines: no match uses the one, or none uses the other.
LEMMA BoundedOther ==
    ASSUME NEW A \in Seq(Task), NEW B \in Seq(Task), NEW d, Table(A, B, d),
           NEW k \in 1 .. Len(A), NEW l \in 1 .. Len(B), ~Eq(A, B, k, l),
           Bounded(A, B, d, k - 1, l), Bounded(A, B, d, k, l - 1)
    PROVE  Bounded(A, B, d, k, l)
<1> SUFFICES ASSUME NEW M \in Matchings(A, B), Within(A, B, M, k, l) PROVE Cardinality(M) <= d[k][l]
  BY DEF Bounded
<1> DEFINE a == Len(A) - k + 1
           b == Len(B) - l + 1
<1>0. Len(A) \in Nat /\ Len(B) \in Nat /\ k - 1 \in 0 .. Len(A) /\ l - 1 \in 0 .. Len(B)
      /\ k \in 0 .. Len(A) /\ l \in 0 .. Len(B)
      /\ a = Len(A) - (k - 1) /\ b = Len(B) - (l - 1) /\ a \in Nat /\ b \in Nat
  OBVIOUS
<1>1. /\ \A p \in M : p[1] \in 1 .. Len(A) /\ p[2] \in 1 .. Len(B) /\ A[p[1]] = B[p[2]]
      /\ \A p, q \in M : p # q => (p[1] < q[1] /\ p[2] < q[2]) \/ (q[1] < p[1] /\ q[2] < p[2])
      /\ Cardinality(M) \in Nat
  BY MatchingFacts
<1>2. \A p \in M : p[1] >= a /\ p[2] >= b
  BY <1>0, <1>1 DEF Within
<1>3. A[a] # B[b]
  BY DEF Eq
<1>4. /\ d[k][l] \in Nat /\ d[k - 1][l] \in Nat /\ d[k][l - 1] \in Nat
      /\ d[k - 1][l] >= d[k][l - 1] => d[k][l] = d[k - 1][l]
      /\ ~(d[k - 1][l] >= d[k][l - 1]) => d[k][l] = d[k][l - 1]
  BY <1>0 DEF Table
<1>5. d[k][l] >= d[k - 1][l] /\ d[k][l] >= d[k][l - 1]
  BY <1>4
<1>6. ASSUME NEW p \in M, NEW q \in M, p[1] = a, q[2] = b PROVE FALSE
  <2>1. /\ p[1] \in Nat /\ p[2] \in Nat /\ q[1] \in Nat /\ q[2] \in Nat
        /\ p[2] >= b /\ q[1] >= a
    BY <1>1, <1>2
  <2>2. p # q
    BY <1>1, <1>3, <1>6
  <2>3. (p[1] < q[1] /\ p[2] < q[2]) \/ (q[1] < p[1] /\ q[2] < p[2])
    BY <1>1, <2>2
  <2> HIDE DEF a, b
  <2> QED BY <1>0, <1>6, <2>1, <2>3
<1>7. CASE \A p \in M : p[1] # a
  <2>1. Within(A, B, M, k - 1, l)
    BY <1>0, <1>1, <1>2, <1>7 DEF Within
  <2>2. Cardinality(M) <= d[k - 1][l]
    BY <2>1 DEF Bounded
  <2> HIDE DEF a, b
  <2> QED BY <1>1, <1>4, <1>5, <2>2
<1>8. CASE \A p \in M : p[2] # b
  <2>1. Within(A, B, M, k, l - 1)
    BY <1>0, <1>1, <1>2, <1>8 DEF Within
  <2>2. Cardinality(M) <= d[k][l - 1]
    BY <2>1 DEF Bounded
  <2> HIDE DEF a, b
  <2> QED BY <1>1, <1>4, <1>5, <2>2
<1> QED BY <1>6, <1>7, <1>8

LEMMA dpBounds ==
    ASSUME NEW A \in Seq(Task), NEW B \in Seq(Task), NEW M \in Matchings(A, B)
    PROVE  Cardinality(M) <= dp(A, B)[Len(A)][Len(B)]
<1> DEFINE d == dp(A, B)
           n == Len(A)
           m == Len(B)
           Upto(s) == \A k \in 0 .. n, l \in 0 .. m : k + l <= s => Bounded(A, B, d, k, l)
           S == {s \in Nat : Upto(s)}
<1>0. n \in Nat /\ m \in Nat
  OBVIOUS
<1>1. Table(A, B, d)
  BY dpTable
<1> HIDE DEF d
<1>2. 0 \in S
  <2> SUFFICES ASSUME NEW k \in 0 .. n, NEW l \in 0 .. m, k + l <= 0 PROVE Bounded(A, B, d, k, l)
    OBVIOUS
  <2>1. k = 0
    BY <1>0
  <2> QED BY <1>1, <2>1, BoundedEmpty
<1>3. ASSUME NEW s \in Nat, s \in S PROVE s + 1 \in S
  <2> SUFFICES ASSUME NEW k \in 0 .. n, NEW l \in 0 .. m, k + l <= s + 1 PROVE Bounded(A, B, d, k, l)
    OBVIOUS
  <2>1. \A x \in 0 .. n, y \in 0 .. m : x + y <= s => Bounded(A, B, d, x, y)
    BY <1>3
  <2>2. CASE k = 0 \/ l = 0
    BY <1>1, <2>2, BoundedEmpty
  <2>3. CASE ~(k = 0 \/ l = 0)
    <3>1. /\ k \in 1 .. n /\ l \in 1 .. m /\ k - 1 \in 0 .. n /\ l - 1 \in 0 .. m
          /\ (k - 1) + (l - 1) <= s /\ (k - 1) + l <= s /\ k + (l - 1) <= s
      BY <1>0, <2>3
    <3>2. Bounded(A, B, d, k - 1, l - 1) /\ Bounded(A, B, d, k - 1, l) /\ Bounded(A, B, d, k, l - 1)
      BY <2>1, <3>1
    <3>3. CASE Eq(A, B, k, l)
      BY <1>1, <3>1, <3>2, <3>3, BoundedEqual
    <3>4. CASE ~Eq(A, B, k, l)
      BY <1>1, <3>1, <3>2, <3>4, BoundedOther
    <3> QED BY <3>3, <3>4
  <2> QED BY <2>2, <2>3
<1>4. n + m \in S
  <2> HIDE DEF S
  <2>1. n + m \in Nat
    BY <1>0
  <2> QED BY <1>2, <1>3, <2>1, Induction
<1>5. Bounded(A, B, d, n, m)
  BY <1>0, <1>4
<1>6. Within(A, B, M, n, m)
  <2>1. \A p \in M : p[1] \in 1 .. n /\ p[2] \in 1 .. m
    BY MatchingFacts
  <2> QED BY <1>0, <2>1 DEF Within
<1> QED BY <1>5, <1>6 DEF Bounded, d

\* The panel of the pending changes tells the truth about every list the
\* editor can hold, however long: its two sides are the stored definition and
\* the pending one, and it keeps as many lines as any matching can.
THEOREM DiffTellsTruth == Spec => []DiffFaithful
<1>1. Inv => DiffFaithful
  <2> SUFFICES ASSUME Inv PROVE DiffFaithful
    OBVIOUS
  <2> DEFINE new == specTasks(tasks)
             rows == diffLines(stored, new)
  <2>1. Good(stored) /\ Good(tasks)
    BY DEF Inv, Lists
  <2>2. stored \in Seq(Task) /\ new \in Seq(Task)
    BY <2>1, specTasksFacts DEF Good
  <2> HIDE DEF new
  <2>3. Side(rows, "+") = stored /\ Side(rows, "-") = new /\ Same(rows) = dp(stored, new)[Len(stored)][Len(new)]
    BY <2>2, diffLinesFacts
  <2>4. \A M \in Matchings(stored, new) : Cardinality(M) <= Same(rows)
    BY <2>2, <2>3, dpBounds
  <2>5. PendingDiff = rows
    BY DEF PendingDiff, new
  <2> HIDE DEF rows
  <2> QED BY <2>3, <2>4, <2>5 DEF DiffFaithful, new
<1> QED BY <1>1, InvAlways, PTL
=============================================================================
