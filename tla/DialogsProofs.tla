--------------------------- MODULE DialogsProofs ---------------------------
(***************************************************************************)
(* The console's dialogs and lists, for every set of rows and filters and  *)
(* every number of actions and requests: the dialog on the screen can be   *)
(* closed by Escape, a dialog the user closed hears no key again, Enter    *)
(* creates one DAG, a confirmation starts one bulk operation, and the      *)
(* newest answer to the run history is one for the chip the user sees.     *)
(*                                                                         *)
(* A key press is a recursion over the listeners.  What it keeps is shown  *)
(* by induction on the number of listeners that have heard it.             *)
(***************************************************************************)
EXTENDS Dialogs, FiniteSetTheorems, WellFoundedInduction, TLAPS

USE DialogConstants

-----------------------------------------------------------------------------
(* Induction, and recursion over a list.                                   *)

\* A set with 0 and with the successor of each of its numbers has them all.
LEMMA Induction ==
    ASSUME NEW S, 0 \in S, \A n \in Nat : n \in S => n + 1 \in S
    PROVE  Nat \subseteq S
<1> SUFFICES ASSUME Nat \ S # {} PROVE FALSE
  OBVIOUS
<1>1. \E x \in Nat \ S : \A y \in Nat \ S : ~(<<y, x>> \in OpToRel(<, Nat))
  BY WFMin, NatLessThanWellFounded
<1>2. \A x, y \in Nat : y < x => <<y, x>> \in OpToRel(<, Nat)
  BY DEF OpToRel
<1>3. PICK x \in Nat \ S : \A y \in Nat \ S : ~(y < x)
  BY <1>1, <1>2
<1>4. x - 1 \in Nat /\ x - 1 < x
  BY <1>3
<1> QED BY <1>3, <1>4

\* A set of numbers has a least element, which Min finds.
LEMMA MinLeast ==
    ASSUME NEW S, S \subseteq Nat, S # {}
    PROVE  Min(S) \in S /\ \A y \in S : Min(S) <= y
<1>1. \E x \in S : \A y \in S : ~(<<y, x>> \in OpToRel(<, Nat))
  BY WFMin, NatLessThanWellFounded
<1>2. \A x, y \in Nat : y < x => <<y, x>> \in OpToRel(<, Nat)
  BY DEF OpToRel
<1>3. \E x \in S : \A y \in S : ~(y < x)
  BY <1>1, <1>2
<1>4. \E x \in S : \A y \in S : x <= y
  BY <1>3
<1> QED BY <1>4 DEF Min

\* A recursion over 1 .. n whose step G stays in X has a solution.
Solution(f, X, n, x0, G) ==
    f \in [0 .. n -> X] /\ f[0] = x0 /\ \A i \in 1 .. n : f[i] = G[<<f[i - 1], i>>]
LEMMA Recursion ==
    ASSUME NEW X, NEW n \in Nat, NEW x0 \in X, NEW G \in [X \X (1 .. n) -> X]
    PROVE  \E f : Solution(f, X, n, x0, G)
<1> DEFINE Solves(m) == \E f \in [0 .. m -> X] : f[0] = x0 /\ \A i \in 1 .. m : f[i] = G[<<f[i - 1], i>>]
           S == {m \in Nat : m <= n => Solves(m)}
<1>1. 0 \in S
  <2>1. [i \in 0 .. 0 |-> x0] \in [0 .. 0 -> X]
    OBVIOUS
  <2>2. [i \in 0 .. 0 |-> x0][0] = x0 /\ 1 .. 0 = {}
    OBVIOUS
  <2>3. Solves(0)
    BY <2>1, <2>2
  <2> QED BY <2>3
<1>2. ASSUME NEW m \in Nat, m \in S PROVE m + 1 \in S
  <2> SUFFICES ASSUME m + 1 <= n PROVE Solves(m + 1)
    OBVIOUS
  <2>1. PICK f \in [0 .. m -> X] : f[0] = x0 /\ \A i \in 1 .. m : f[i] = G[<<f[i - 1], i>>]
    BY <1>2
  <2> DEFINE g == [i \in 0 .. (m + 1) |-> IF i = m + 1 THEN G[<<f[m], i>>] ELSE f[i]]
  <2>2. m + 1 \in 1 .. n /\ m \in 0 .. m
    OBVIOUS
  <2>3. <<f[m], m + 1>> \in X \X (1 .. n)
    BY <2>2
  <2>4. G[<<f[m], m + 1>>] \in X
    BY <2>3
  <2>5. g \in [0 .. (m + 1) -> X]
    BY <2>4
  <2>6. g[0] = x0
    BY <2>1
  <2>7. ASSUME NEW i \in 1 .. (m + 1) PROVE g[i] = G[<<g[i - 1], i>>]
    BY <2>1
  <2> QED BY <2>5, <2>6, <2>7
<1>3. n \in S
  <2> HIDE DEF S
  <2> QED BY <1>1, <1>2, Induction
<1> QED BY <1>3 DEF Solution

\* What removing the first e from a list leaves.
LEMMA RemoveFirstFacts ==
    ASSUME NEW X, NEW s \in Seq(X), NEW e
    PROVE  LET r == RemoveFirst(s, e) IN
           /\ r \in Seq(X)
           /\ \/ r = s /\ \A i \in 1 .. Len(s) : s[i] # e
              \/ \E k \in 1 .. Len(s) :
                    /\ s[k] = e /\ Len(r) = Len(s) - 1
                    /\ \A i \in 1 .. Len(r) : r[i] = IF i < k THEN s[i] ELSE s[i + 1]
<1>1. CASE \A i \in 1 .. Len(s) : s[i] # e
  BY <1>1 DEF RemoveFirst
<1>2. CASE \E i \in 1 .. Len(s) : s[i] = e
  <2> DEFINE I == {i \in 1 .. Len(s) : s[i] = e}
             k == Min(I)
  <2>0. I \subseteq Nat /\ I # {}
    BY <1>2
  <2>1. k \in I
    BY <2>0, MinLeast
  <2>2. RemoveFirst(s, e) = SubSeq(s, 1, k - 1) \o SubSeq(s, k + 1, Len(s))
    BY <1>2 DEF RemoveFirst, RemoveAt, SelectInSeq
  <2> HIDE DEF k
  <2>3. k \in 1 .. Len(s) /\ s[k] = e
    BY <2>1
  <2>4. SubSeq(s, 1, k - 1) \in Seq(X) /\ SubSeq(s, k + 1, Len(s)) \in Seq(X)
    BY <2>3
  <2>5. Len(SubSeq(s, 1, k - 1)) = k - 1 /\ Len(SubSeq(s, k + 1, Len(s))) = Len(s) - k
    BY <2>3
  <2>6. /\ \A i \in 1 .. (k - 1) : SubSeq(s, 1, k - 1)[i] = s[i]
        /\ \A i \in 1 .. (Len(s) - k) : SubSeq(s, k + 1, Len(s))[i] = s[k + i]
    BY <2>3
  <2> DEFINE a == SubSeq(s, 1, k - 1)
             b == SubSeq(s, k + 1, Len(s))
  <2>7. a \in Seq(X) /\ b \in Seq(X) /\ Len(a) = k - 1 /\ Len(b) = Len(s) - k
    BY <2>4, <2>5
  <2>8. (\A i \in 1 .. (k - 1) : a[i] = s[i]) /\ \A i \in 1 .. (Len(s) - k) : b[i] = s[k + i]
    BY <2>6
  <2> HIDE DEF a, b
  <2>9. a \o b \in Seq(X) /\ Len(a \o b) = Len(s) - 1
    BY <2>3, <2>7
  <2>10. \A i \in 1 .. (Len(s) - 1) : (a \o b)[i] = IF i < k THEN s[i] ELSE s[i + 1]
    BY <2>3, <2>7, <2>8
  <2>11. RemoveFirst(s, e) = a \o b
    BY <2>2 DEF a, b
  <2> QED BY <2>3, <2>9, <2>10, <2>11
<1> QED BY <1>1, <1>2

-----------------------------------------------------------------------------
(* The screen: the root, the listeners, the new DAG modal.                 *)

Dlg == [kind : Kinds, ids : SUBSET Rows, n : Nat]
Shown == Dlg \cup {NoDialog}
Fields == [adv : BOOLEAN, pop : BOOLEAN, valid : BOOLEAN, disabled : BOOLEAN, drawn : 0 .. MaxActs]
ScreenType == [root : Shown, keys : Seq(Dlg), nd : Fields, yes : SUBSET Dlg, sent : Nat]

\* Only the new DAG modal listens more than once.
Alone(ks) == \A i, j \in 1 .. Len(ks) : ks[i] = ks[j] /\ ks[i].kind # "newdag" => i = j
\* d listens in ks; the listeners of ks are among those of ls.
Listens(d, ks) == \E i \in 1 .. Len(ks) : ks[i] = d
Among(ks, ls) == \A i \in 1 .. Len(ks) : Listens(ks[i], ls)
\* The dialog on the screen listens.
Reached(s) == s.root # NoDialog => Listens(s.root, s.keys)

\* Taking one listener away.
LEMMA RemoveKeeps ==
    ASSUME NEW ks \in Seq(Dlg), Alone(ks), NEW d
    PROVE  LET r == RemoveFirst(ks, d) IN
           /\ r \in Seq(Dlg) /\ Alone(r) /\ Among(r, ks)
           /\ d \in Dlg /\ d.kind # "newdag" => ~Listens(d, r)
           /\ \A x : x # d /\ Listens(x, ks) => Listens(x, r)
<1> DEFINE r == RemoveFirst(ks, d)
<1>1. /\ r \in Seq(Dlg)
      /\ \/ r = ks /\ \A i \in 1 .. Len(ks) : ks[i] # d
         \/ \E k \in 1 .. Len(ks) :
               /\ ks[k] = d /\ Len(r) = Len(ks) - 1
               /\ \A i \in 1 .. Len(r) : r[i] = IF i < k THEN ks[i] ELSE ks[i + 1]
  BY RemoveFirstFacts
<1> HIDE DEF r
<1>2. CASE r = ks /\ \A i \in 1 .. Len(ks) : ks[i] # d
  BY <1>1, <1>2 DEF Among, Listens, r
<1>3. ASSUME NEW k \in 1 .. Len(ks), ks[k] = d, Len(r) = Len(ks) - 1,
             \A i \in 1 .. Len(r) : r[i] = IF i < k THEN ks[i] ELSE ks[i + 1]
      PROVE  /\ Alone(r) /\ Among(r, ks) /\ (d \in Dlg /\ d.kind # "newdag" => ~Listens(d, r))
             /\ \A x : x # d /\ Listens(x, ks) => Listens(x, r)
  <2> DEFINE h(i) == IF i < k THEN i ELSE i + 1
  <2>1. Len(ks) \in Nat /\ Len(r) \in Nat
    BY <1>1
  <2>2. \A i \in 1 .. Len(r) : h(i) \in 1 .. Len(ks) /\ h(i) # k /\ r[i] = ks[h(i)]
    BY <1>3, <2>1
  <2>3. \A i, j \in 1 .. Len(r) : h(i) = h(j) => i = j
    BY <1>3, <2>1
  <2> HIDE DEF h
  <2>4. Alone(r)
    BY <2>2, <2>3 DEF Alone
  <2>5. Among(r, ks)
    BY <2>2 DEF Among, Listens
  <2>6. d.kind # "newdag" => ~Listens(d, r)
    BY <1>3, <2>2 DEF Alone, Listens
  <2>7. ASSUME NEW x, x # d, Listens(x, ks) PROVE Listens(x, r)
    <3>1. PICK j \in 1 .. Len(ks) : ks[j] = x
      BY <2>7 DEF Listens
    <3> DEFINE g == IF j < k THEN j ELSE j - 1
    <3>2. j # k
      BY <1>3, <2>7, <3>1
    <3>3. g \in 1 .. Len(r) /\ h(g) = j
      BY <1>3, <2>1, <3>1, <3>2 DEF h
    <3> HIDE DEF g
    <3> QED BY <2>2, <3>1, <3>3 DEF Listens
  <2> QED BY <2>4, <2>5, <2>6, <2>7
<1> QED BY <1>1, <1>2, <1>3 DEF r

\* The listeners left over are left over from the ones before.
LEMMA AmongChain ==
    ASSUME NEW ks, NEW ls, NEW ms, Among(ks, ls), Among(ls, ms)
    PROVE  Among(ks, ms) /\ \A d : Listens(d, ks) => Listens(d, ls)
BY DEF Among, Listens
LEMMA AmongSelf == \A ks : Among(ks, ks)
BY DEF Among, Listens

\* What closing a dialog does to the screen.
LEMMA CloseFacts ==
    ASSUME NEW s \in ScreenType, Alone(s.keys), NEW d \in Shown
    PROVE  LET t == close(s, d) IN
           /\ t \in ScreenType /\ t.root = NoDialog /\ t.nd = s.nd /\ t.yes = s.yes /\ t.sent = s.sent
           /\ t.keys = RemoveFirst(s.keys, d)
           /\ Alone(t.keys) /\ Among(t.keys, s.keys)
           /\ d \in Dlg /\ d.kind # "newdag" => ~Listens(d, t.keys)
<1>1. s.keys \in Seq(Dlg)
  BY DEF ScreenType
<1>2. RemoveFirst(s.keys, d) \in Seq(Dlg)
  BY <1>1, RemoveKeeps
<1>3. /\ close(s, d) \in ScreenType
      /\ close(s, d).root = NoDialog /\ close(s, d).keys = RemoveFirst(s.keys, d)
      /\ close(s, d).nd = s.nd /\ close(s, d).yes = s.yes /\ close(s, d).sent = s.sent
  BY <1>2 DEF close, ScreenType, Shown
<1> QED BY <1>1, <1>3, RemoveKeeps

\* A listener that goes without closing anything.
LEMMA UnlistenFacts ==
    ASSUME NEW s \in ScreenType, Alone(s.keys), NEW d
    PROVE  LET t == [s EXCEPT !.keys = RemoveFirst(@, d)] IN
           /\ t \in ScreenType /\ t.root = s.root /\ t.nd = s.nd /\ t.yes = s.yes /\ t.sent = s.sent
           /\ Alone(t.keys) /\ Among(t.keys, s.keys)
           /\ s.root # d /\ Reached(s) => Reached(t)
<1>1. s.keys \in Seq(Dlg)
  BY DEF ScreenType
<1>2. RemoveFirst(s.keys, d) \in Seq(Dlg)
  BY <1>1, RemoveKeeps
<1> DEFINE t == [s EXCEPT !.keys = RemoveFirst(@, d)]
<1>3. /\ t \in ScreenType /\ t.keys = RemoveFirst(s.keys, d)
      /\ t.root = s.root /\ t.nd = s.nd /\ t.yes = s.yes /\ t.sent = s.sent
  BY <1>2 DEF ScreenType
<1>4. s.root # d /\ Reached(s) => Reached(t)
  <2>1. \A x : x # d /\ Listens(x, s.keys) => Listens(x, RemoveFirst(s.keys, d))
    BY <1>1, RemoveKeeps
  <2> HIDE DEF t
  <2> QED BY <1>3, <2>1 DEF Reached
<1> QED BY <1>1, <1>3, <1>4, RemoveKeeps

\* One listener hears Escape.
LEMMA EscapeStep ==
    ASSUME NEW s \in ScreenType, Alone(s.keys), NEW d \in Dlg
    PROVE  LET t == onEscape(s, d) IN
           /\ t \in ScreenType /\ t.yes = s.yes /\ t.sent = s.sent /\ t.root \in {s.root, NoDialog}
           /\ Alone(t.keys) /\ Among(t.keys, s.keys)
           /\ d.kind # "newdag" => ~Listens(d, t.keys)
           /\ Reached(s) => Reached(t)
<1>1. CASE d.kind # "newdag"
  BY <1>1, CloseFacts DEF onEscape, Shown, Reached
<1>2. CASE d.kind = "newdag" /\ s.root.kind # "newdag"
  BY <1>2, UnlistenFacts DEF onEscape
<1>3. CASE d.kind = "newdag" /\ s.root.kind = "newdag" /\ s.nd.pop
  <2> DEFINE t == [s EXCEPT !.nd.pop = FALSE]
  <2>1. t \in ScreenType /\ t.keys = s.keys /\ t.yes = s.yes /\ t.sent = s.sent /\ t.root = s.root
    BY DEF ScreenType, Fields
  <2>2. onEscape(s, d) = t
    BY <1>3 DEF onEscape
  <2> HIDE DEF t
  <2> QED BY <1>3, <2>1, <2>2, AmongSelf DEF Reached
<1>4. CASE d.kind = "newdag" /\ s.root.kind = "newdag" /\ ~s.nd.pop
  BY <1>4, CloseFacts DEF onEscape, Shown, Reached
<1> QED BY <1>1, <1>2, <1>3, <1>4

\* One listener hears Enter.
LEMMA EnterStep ==
    ASSUME NEW s \in ScreenType, Alone(s.keys), NEW d \in Dlg
    PROVE  LET t == onEnter(s, d) IN
           /\ t \in ScreenType
           /\ Alone(t.keys) /\ Among(t.keys, s.keys)
           /\ \/ t.yes = s.yes
              \/ d.kind = "confirm" /\ t.yes = s.yes \cup {d} /\ t.root = NoDialog /\ ~Listens(d, t.keys)
           /\ t.root = s.root \/ (d.kind # "newdag" /\ t.root = NoDialog /\ ~Listens(d, t.keys))
           /\ \/ t.sent = s.sent /\ t.nd = s.nd
              \/ t.sent = s.sent + 1 /\ ~s.nd.disabled /\ t.nd.disabled
           /\ Reached(s) => Reached(t)
<1>1. CASE d.kind = "confirm"
  <2> DEFINE c == close(s, d)
             t == [c EXCEPT !.yes = @ \cup {d}]
  <2>1. /\ c \in ScreenType /\ c.root = NoDialog /\ c.nd = s.nd /\ c.yes = s.yes /\ c.sent = s.sent
        /\ Alone(c.keys) /\ Among(c.keys, s.keys) /\ ~Listens(d, c.keys)
    BY <1>1, CloseFacts DEF Shown
  <2> HIDE DEF c
  <2>2. /\ t \in ScreenType /\ t.keys = c.keys /\ t.root = c.root /\ t.nd = c.nd
        /\ t.yes = c.yes \cup {d} /\ t.sent = c.sent
    BY <2>1 DEF ScreenType
  <2>3. onEnter(s, d) = t
    BY <1>1 DEF onEnter, c
  <2> HIDE DEF t
  <2> QED BY <1>1, <2>1, <2>2, <2>3 DEF Reached
<1>2. CASE d.kind \in {"prompt", "step"} /\ s.root.kind = d.kind
  BY <1>2, CloseFacts DEF onEnter, Shown, Reached
<1>3. CASE d.kind = "newdag" /\ s.root.kind # "newdag"
  BY <1>3, UnlistenFacts DEF onEnter
<1>4. CASE d.kind = "newdag" /\ s.root.kind = "newdag" /\ ~s.nd.disabled
  <2> DEFINE t == submitNewDag(s)
             fs == [s.nd EXCEPT !.disabled = TRUE]
  <2>0. fs \in Fields
    BY DEF ScreenType, Fields
  <2>1. t \in ScreenType /\ t.keys = s.keys /\ t.root = s.root /\ t.yes = s.yes /\ t.sent = s.sent + 1
    <3>1. t = [s EXCEPT !.nd = fs, !.sent = s.sent + 1] /\ s.sent + 1 \in Nat
      BY DEF submitNewDag, ScreenType
    <3> HIDE DEF fs, t
    <3>2. [s EXCEPT !.nd = fs] \in ScreenType
      BY <2>0 DEF ScreenType
    <3>3. t \in ScreenType
      BY <3>1, <3>2 DEF ScreenType
    <3> QED BY <3>1, <3>3 DEF ScreenType
  <2>2. t.nd.disabled
    <3>1. t.nd = [s.nd EXCEPT !.disabled = TRUE] /\ s.nd \in Fields
      BY DEF ScreenType, submitNewDag
    <3>2. \A x \in Fields : "disabled" \in DOMAIN x
      BY DEF Fields
    <3>3. \A x \in Fields : [x EXCEPT !.disabled = TRUE].disabled
      BY <3>2, Zenon
    <3> QED BY <3>1, <3>3
  <2>3. onEnter(s, d) = t
    BY <1>4 DEF onEnter
  <2> HIDE DEF t
  <2> QED BY <1>4, <2>1, <2>2, <2>3, AmongSelf DEF Reached
<1>5. CASE /\ d.kind # "confirm" /\ ~(d.kind \in {"prompt", "step"} /\ s.root.kind = d.kind)
           /\ d.kind = "newdag" => s.root.kind = "newdag" /\ s.nd.disabled
  <2>1. onEnter(s, d) = s
    BY <1>5 DEF onEnter
  <2> QED BY <2>1, AmongSelf
<1> QED BY <1>1, <1>2, <1>3, <1>4, <1>5

-----------------------------------------------------------------------------
(* A key press.                                                            *)

\* The listeners and the root as the program keeps them.
KeysInv ==
    /\ root \in Shown /\ nd \in Fields /\ keys \in Seq(Dlg) /\ Alone(keys)
    /\ root # NoDialog => Listens(root, keys)
    /\ acts \in 0 .. MaxActs

LEMMA ScreenTyped == ASSUME KeysInv PROVE Screen \in ScreenType
BY DEF KeysInv, Screen, ScreenType

\* The recursion of Press, for either key.
Heard(s, onKey(_, _)) ==
    /\ DOMAIN s = 0 .. Len(keys) /\ s[0] = Screen
    /\ \A i \in 1 .. Len(keys) : s[i] = onKey(s[i - 1], keys[i])

LEMMA EscapeHeard ==
    ASSUME KeysInv
    PROVE  \E s : Heard(s, onEscape) /\ Press(onEscape) = s[Len(keys)]
<1> DEFINE X == {x \in ScreenType : Alone(x.keys)}
           n == Len(keys)
           G == [p \in X \X (1 .. n) |-> onEscape(p[1], keys[p[2]])]
<1>0. n \in Nat /\ \A i \in 1 .. n : keys[i] \in Dlg
  BY DEF KeysInv
<1>1. Screen \in X
  BY ScreenTyped DEF KeysInv, Screen
<1>2. \A x \in X, i \in 1 .. n : onEscape(x, keys[i]) \in X
  BY <1>0, EscapeStep
<1>3. G \in [X \X (1 .. n) -> X]
  <2> HIDE DEF X
  <2> QED BY <1>2
<1>4. \A x \in X, i \in 1 .. n : G[<<x, i>>] = onEscape(x, keys[i])
  <2> HIDE DEF X
  <2> QED OBVIOUS
<1> HIDE DEF G
<1>5. PICK f : Solution(f, X, n, Screen, G)
  <2> HIDE DEF X, n
  <2> QED BY <1>0, <1>1, <1>3, Recursion
<1>6. \A i \in 1 .. n : f[i] = onEscape(f[i - 1], keys[i])
  <2> HIDE DEF X
  <2>1. \A i \in 1 .. n : f[i - 1] \in X
    BY <1>0, <1>5 DEF Solution
  <2> QED BY <1>4, <1>5, <2>1 DEF Solution
<1>7. f = [i \in 0 .. n |-> IF i = 0 THEN Screen ELSE onEscape(f[i - 1], keys[i])]
  <2> HIDE DEF X
  <2> QED BY <1>0, <1>5, <1>6 DEF Solution
<1> DEFINE g == CHOOSE g : g = [i \in 0 .. n |-> IF i = 0 THEN Screen ELSE onEscape(g[i - 1], keys[i])]
<1>8. g = [i \in 0 .. n |-> IF i = 0 THEN Screen ELSE onEscape(g[i - 1], keys[i])]
  BY <1>7, Zenon
<1>9. Press(onEscape) = g[n]
  BY Zenon DEF Press
<1> HIDE DEF g
<1>10. Heard(g, onEscape)
  <2>1. DOMAIN g = 0 .. n
    BY <1>8
  <2>2. \A i \in 0 .. n : g[i] = IF i = 0 THEN Screen ELSE onEscape(g[i - 1], keys[i])
    BY <1>8
  <2>3. g[0] = Screen /\ \A i \in 1 .. n : g[i] = onEscape(g[i - 1], keys[i])
    BY <1>0, <2>2
  <2> QED BY <2>1, <2>3 DEF Heard
<1> QED BY <1>9, <1>10

LEMMA EnterHeard ==
    ASSUME KeysInv
    PROVE  \E s : Heard(s, onEnter) /\ Press(onEnter) = s[Len(keys)]
<1> DEFINE X == {x \in ScreenType : Alone(x.keys)}
           n == Len(keys)
           G == [p \in X \X (1 .. n) |-> onEnter(p[1], keys[p[2]])]
<1>0. n \in Nat /\ \A i \in 1 .. n : keys[i] \in Dlg
  BY DEF KeysInv
<1>1. Screen \in X
  BY ScreenTyped DEF KeysInv, Screen
<1>2. \A x \in X, i \in 1 .. n : onEnter(x, keys[i]) \in X
  BY <1>0, EnterStep
<1>3. G \in [X \X (1 .. n) -> X]
  <2> HIDE DEF X
  <2> QED BY <1>2
<1>4. \A x \in X, i \in 1 .. n : G[<<x, i>>] = onEnter(x, keys[i])
  <2> HIDE DEF X
  <2> QED OBVIOUS
<1> HIDE DEF G
<1>5. PICK f : Solution(f, X, n, Screen, G)
  <2> HIDE DEF X, n
  <2> QED BY <1>0, <1>1, <1>3, Recursion
<1>6. \A i \in 1 .. n : f[i] = onEnter(f[i - 1], keys[i])
  <2> HIDE DEF X
  <2>1. \A i \in 1 .. n : f[i - 1] \in X
    BY <1>0, <1>5 DEF Solution
  <2> QED BY <1>4, <1>5, <2>1 DEF Solution
<1>7. f = [i \in 0 .. n |-> IF i = 0 THEN Screen ELSE onEnter(f[i - 1], keys[i])]
  <2> HIDE DEF X
  <2> QED BY <1>0, <1>5, <1>6 DEF Solution
<1> DEFINE g == CHOOSE g : g = [i \in 0 .. n |-> IF i = 0 THEN Screen ELSE onEnter(g[i - 1], keys[i])]
<1>8. g = [i \in 0 .. n |-> IF i = 0 THEN Screen ELSE onEnter(g[i - 1], keys[i])]
  BY <1>7, Zenon
<1>9. Press(onEnter) = g[n]
  BY Zenon DEF Press
<1> HIDE DEF g
<1>10. Heard(g, onEnter)
  <2>1. DOMAIN g = 0 .. n
    BY <1>8
  <2>2. \A i \in 0 .. n : g[i] = IF i = 0 THEN Screen ELSE onEnter(g[i - 1], keys[i])
    BY <1>8
  <2>3. g[0] = Screen /\ \A i \in 1 .. n : g[i] = onEnter(g[i - 1], keys[i])
    BY <1>0, <2>2
  <2> QED BY <2>1, <2>3 DEF Heard
<1> QED BY <1>9, <1>10

\* After Escape only new DAG modals listen.
LEMMA EscapeFacts ==
    ASSUME KeysInv
    PROVE  LET t == Press(onEscape) IN
           /\ t \in ScreenType /\ t.yes = {} /\ t.sent = 0 /\ t.root \in {root, NoDialog}
           /\ Alone(t.keys) /\ Among(t.keys, keys)
           /\ \A i \in 1 .. Len(t.keys) : t.keys[i].kind = "newdag"
           /\ Reached(t)
<1> DEFINE n == Len(keys)
<1>0. n \in Nat /\ \A i \in 1 .. n : keys[i] \in Dlg
  BY DEF KeysInv
<1>1. PICK s : Heard(s, onEscape) /\ Press(onEscape) = s[n]
  BY EscapeHeard
<1> DEFINE P(i) == /\ s[i] \in ScreenType /\ s[i].yes = {} /\ s[i].sent = 0
                   /\ s[i].root \in {root, NoDialog}
                   /\ Alone(s[i].keys) /\ Among(s[i].keys, keys)
                   /\ \A j \in 1 .. i : keys[j].kind # "newdag" => ~Listens(keys[j], s[i].keys)
                   /\ Reached(s[i])
           S == {i \in Nat : i <= n => P(i)}
<1>2. 0 \in S
  <2>1. s[0] = Screen
    BY <1>1 DEF Heard
  <2>2. Screen.yes = {} /\ Screen.sent = 0 /\ Screen.keys = keys /\ Screen.root = root
    BY DEF Screen
  <2>3. P(0)
    BY <2>1, <2>2, ScreenTyped, AmongSelf DEF KeysInv, Reached
  <2> QED BY <2>3
<1>3. ASSUME NEW i \in Nat, i \in S PROVE i + 1 \in S
  <2> SUFFICES ASSUME i + 1 <= n PROVE P(i + 1)
    OBVIOUS
  <2>1. P(i)
    BY <1>0, <1>3
  <2>2. i + 1 \in 1 .. n /\ (i + 1) - 1 = i
    BY <1>0
  <2>3. s[i + 1] = onEscape(s[i], keys[i + 1]) /\ keys[i + 1] \in Dlg
    <3>1. s[i + 1] = onEscape(s[(i + 1) - 1], keys[i + 1])
      BY <1>1, <2>2 DEF Heard
    <3> QED BY <1>0, <2>2, <3>1
  <2> DEFINE t == s[i + 1]
  <2>4. /\ t \in ScreenType /\ t.yes = s[i].yes /\ t.sent = s[i].sent /\ t.root \in {s[i].root, NoDialog}
        /\ Alone(t.keys) /\ Among(t.keys, s[i].keys)
        /\ keys[i + 1].kind # "newdag" => ~Listens(keys[i + 1], t.keys)
        /\ Reached(t)
    BY <2>1, <2>3, EscapeStep
  <2>5. Among(t.keys, keys) /\ \A d : Listens(d, t.keys) => Listens(d, s[i].keys)
    BY <2>1, <2>4, AmongChain
  <2>6. \A j \in 1 .. (i + 1) : j \in 1 .. i \/ j = i + 1
    OBVIOUS
  <2>7. \A j \in 1 .. (i + 1) : keys[j].kind # "newdag" => ~Listens(keys[j], t.keys)
    BY <2>1, <2>4, <2>5, <2>6
  <2> QED BY <2>1, <2>4, <2>5, <2>7
<1>4. P(n)
  <2> HIDE DEF P
  <2>1. n \in S
    <3> HIDE DEF S
    <3> QED BY <1>0, <1>2, <1>3, Induction
  <2> QED BY <2>1, <1>0
<1> DEFINE t == Press(onEscape)
<1>5. ASSUME NEW i \in 1 .. Len(t.keys) PROVE t.keys[i].kind = "newdag"
  <2>1. Listens(t.keys[i], keys) /\ Listens(t.keys[i], t.keys)
    BY <1>1, <1>4 DEF Among, Listens
  <2>2. PICK j \in 1 .. n : keys[j] = t.keys[i]
    BY <2>1 DEF Listens
  <2> QED BY <1>1, <1>4, <2>1, <2>2
<1> QED BY <1>1, <1>4, <1>5

\* The confirmations yes were asked for in dialogs that listened and no longer do.
Given(yes, t) ==
    /\ yes # {} => t.root = NoDialog
    /\ \A d \in yes : d.kind = "confirm" /\ Listens(d, keys) /\ ~Listens(d, t.keys)

\* Enter creates one DAG at most, and takes the root away only where a stray
\* listener does it or the dialog in it no longer listens.
LEMMA EnterFacts ==
    ASSUME KeysInv, StrayKeys
    PROVE  LET t == Press(onEnter) IN
           /\ t \in ScreenType /\ t.sent \in {0, 1} /\ t.root \in {root, NoDialog}
           /\ Alone(t.keys) /\ Among(t.keys, keys)
           /\ t.root = root \/ Strays # {} \/ ~Listens(root, t.keys)
           /\ Reached(t) /\ Given(t.yes, t)
<1> DEFINE n == Len(keys)
<1>0. n \in Nat /\ \A i \in 1 .. n : keys[i] \in Dlg
  BY DEF KeysInv
<1>1. PICK s : Heard(s, onEnter) /\ Press(onEnter) = s[n]
  BY EnterHeard
<1> DEFINE P(i) == /\ s[i] \in ScreenType /\ s[i].root \in {root, NoDialog}
                   /\ s[i].sent = 0 \/ (s[i].sent = 1 /\ s[i].nd.disabled)
                   /\ Alone(s[i].keys) /\ Among(s[i].keys, keys)
                   /\ s[i].root = root \/ Strays # {} \/ ~Listens(root, s[i].keys)
                   /\ Reached(s[i]) /\ Given(s[i].yes, s[i])
           S == {i \in Nat : i <= n => P(i)}
<1>2. 0 \in S
  <2>1. s[0] = Screen
    BY <1>1 DEF Heard
  <2>2. Screen.sent = 0 /\ Screen.keys = keys /\ Screen.root = root /\ Screen.yes = {}
    BY DEF Screen
  <2>3. P(0)
    BY <2>1, <2>2, ScreenTyped, AmongSelf DEF KeysInv, Reached, Given
  <2> QED BY <2>3
<1>3. ASSUME NEW i \in Nat, i \in S PROVE i + 1 \in S
  <2> SUFFICES ASSUME i + 1 <= n PROVE P(i + 1)
    OBVIOUS
  <2>1. P(i)
    BY <1>0, <1>3
  <2>2. i + 1 \in 1 .. n /\ (i + 1) - 1 = i
    BY <1>0
  <2>3. s[i + 1] = onEnter(s[i], keys[i + 1]) /\ keys[i + 1] \in Dlg
    <3>1. s[i + 1] = onEnter(s[(i + 1) - 1], keys[i + 1])
      BY <1>1, <2>2 DEF Heard
    <3> QED BY <1>0, <2>2, <3>1
  <2> DEFINE t == s[i + 1]
             d == keys[i + 1]
  <2>4. /\ t \in ScreenType
        /\ Alone(t.keys) /\ Among(t.keys, s[i].keys)
        /\ t.root = s[i].root \/ (d.kind # "newdag" /\ t.root = NoDialog /\ ~Listens(d, t.keys))
        /\ \/ t.sent = s[i].sent /\ t.nd = s[i].nd
           \/ t.sent = s[i].sent + 1 /\ ~s[i].nd.disabled /\ t.nd.disabled
        /\ \/ t.yes = s[i].yes
           \/ d.kind = "confirm" /\ t.yes = s[i].yes \cup {d} /\ t.root = NoDialog /\ ~Listens(d, t.keys)
        /\ Reached(t)
    BY <2>1, <2>3, EnterStep
  <2>5. Among(t.keys, keys) /\ \A x : Listens(x, t.keys) => Listens(x, s[i].keys)
    BY <2>1, <2>4, AmongChain
  <2>6. t.sent = 0 \/ (t.sent = 1 /\ t.nd.disabled)
    <3>1. CASE t.sent = s[i].sent /\ t.nd = s[i].nd
      BY <2>1, <3>1
    <3>2. CASE t.sent = s[i].sent + 1 /\ ~s[i].nd.disabled /\ t.nd.disabled
      <4>1. s[i].sent = 0
        BY <2>1, <3>2
      <4> QED BY <3>2, <4>1
    <3> QED BY <2>4, <3>1, <3>2
  <2>7. t.root = root \/ Strays # {} \/ ~Listens(root, t.keys)
    <3>1. CASE t.root = s[i].root
      BY <2>1, <2>5, <3>1
    <3>2. CASE d.kind # "newdag" /\ ~Listens(d, t.keys)
      <4>1. d = root \/ d \in wiped
        BY <2>2, <3>2 DEF StrayKeys, KeysInv
      <4>2. d \in wiped => Strays # {}
        BY <2>2 DEF Strays, ToSet, KeysInv
      <4> QED BY <3>2, <4>1, <4>2
    <3> QED BY <2>4, <3>1, <3>2
  <2>8. Given(t.yes, t)
    <3>1. Listens(d, keys)
      BY <2>2 DEF Listens
    <3>2. s[i].root = NoDialog => t.root = NoDialog
      BY <2>4
    <3>3. \A x \in s[i].yes : x.kind = "confirm" /\ Listens(x, keys) /\ ~Listens(x, t.keys)
      BY <2>1, <2>5 DEF Given
    <3>4. s[i].yes # {} => t.root = NoDialog
      BY <2>1, <3>2 DEF Given
    <3> HIDE DEF t, d
    <3> QED BY <2>4, <3>1, <3>3, <3>4 DEF Given
  <2> QED BY <2>1, <2>4, <2>5, <2>6, <2>7, <2>8
<1>4. P(n)
  <2> HIDE DEF P
  <2>1. n \in S
    <3> HIDE DEF S
    <3> QED BY <1>0, <1>2, <1>3, Induction
  <2> QED BY <2>1, <1>0
<1> QED BY <1>1, <1>4

-----------------------------------------------------------------------------
(* The dialogs: every dialog and every request is older than the present,  *)
(* and a token that is still to be shown is not on the screen yet.         *)

Req == [what : {"form", "mint", "reveal", "list", "create"}, dlg : Shown, n : Nat, c : Nat]
Reveal == {"reveal", "mint"}
ReqInv ==
    /\ reqs \subseteq Req
    /\ \A r \in reqs : r.n < acts /\ (r.what \in {"form"} \cup Reveal => r.dlg.kind # "newdag")
    /\ \A r, q \in reqs : {r.what, q.what} \subseteq Reveal /\ r.n = q.n => r = q
    /\ \A i \in 1 .. Len(keys) :
          /\ keys[i].n < acts
          /\ keys[i].kind = "reveal" => \A r \in reqs : r.what \in Reveal => r.n # keys[i].n
RootOld == root \in Dlg => root.n < acts
ModalInv == KeysInv /\ StrayKeys /\ ReqInv /\ RootOld

\* Time goes on.
Later == acts' \in {acts, acts + 1} /\ acts' \in 0 .. MaxActs
Acted == acts' = acts + 1 /\ acts' \in 0 .. MaxActs

\* Records of the model.
LEMMA DialogTyped ==
    ASSUME NEW kind \in Kinds, NEW ids \in SUBSET Rows, acts \in Nat
    PROVE  LET d == Dialog(kind, ids) IN d \in Dlg /\ d.n = acts /\ d.kind = kind
BY DEF Dialog, Dlg
LEMMA NoDialogKind == NoDialog.kind = "none" /\ "none" \notin Kinds /\ NoDialog \notin Dlg
BY DEF NoDialog, Kinds, Dlg

\* The dialog on the screen stays, or goes.
LEMMA RootKeeps ==
    ASSUME ModalInv, Later, root' \in {root, NoDialog}
    PROVE  RootOld'
<1>1. acts \in Nat /\ \A d \in Dlg : d.n \in Nat
  BY DEF ModalInv, KeysInv, Dlg
<1> QED BY <1>1, NoDialogKind DEF ModalInv, RootOld, Later

\* The keys of a smaller set of listeners.
LEMMA AmongKeeps ==
    ASSUME ModalInv, Later, Among(keys', keys), reqs' = reqs \/ \E r \in reqs : reqs' = reqs \ {r}
    PROVE  ReqInv'
<1>1. acts \in Nat
  BY DEF ModalInv, KeysInv
<1>2. reqs' \subseteq reqs
  OBVIOUS
<1>3. ASSUME NEW i \in 1 .. Len(keys') PROVE \E j \in 1 .. Len(keys) : keys[j] = keys'[i]
  BY DEF Among, Listens
<1>4. reqs' \subseteq Req
  BY <1>2 DEF ModalInv, ReqInv
<1>5. \A r \in reqs' : r.n < acts' /\ (r.what \in {"form"} \cup Reveal => r.dlg.kind # "newdag")
  BY <1>1, <1>2 DEF ModalInv, ReqInv, Later, Req
<1>6. \A r, q \in reqs' : {r.what, q.what} \subseteq Reveal /\ r.n = q.n => r = q
  BY <1>2 DEF ModalInv, ReqInv
<1>7. \A i \in 1 .. Len(keys') :
         /\ keys'[i].n < acts'
         /\ keys'[i].kind = "reveal" => \A r \in reqs' : r.what \in Reveal => r.n # keys'[i].n
  <2> SUFFICES ASSUME NEW i \in 1 .. Len(keys')
               PROVE  /\ keys'[i].n < acts'
                      /\ keys'[i].kind = "reveal" => \A r \in reqs' : r.what \in Reveal => r.n # keys'[i].n
    OBVIOUS
  <2>1. PICK j \in 1 .. Len(keys) : keys[j] = keys'[i]
    BY <1>3
  <2>2. keys[j].n \in Nat /\ keys[j].n < acts
    <3>1. keys[j] \in Dlg
      BY DEF ModalInv, KeysInv
    <3> QED BY <3>1 DEF ModalInv, ReqInv, Dlg
  <2>3. keys[j].kind = "reveal" => \A r \in reqs' : r.what \in Reveal => r.n # keys[j].n
    BY <1>2 DEF ModalInv, ReqInv
  <2> QED BY <1>1, <2>1, <2>2, <2>3 DEF Later
<1> QED BY <1>4, <1>5, <1>6, <1>7 DEF ReqInv

\* A dialog drawn from the page, over whatever is there.
LEMMA OpenKeeps ==
    ASSUME ModalInv, Acted, NEW d \in Dlg, d.n = acts, d.kind # "reveal",
           root' = d, keys' = Append(keys, d), wiped' = Covered, UNCHANGED <<nd, reqs>>
    PROVE  ModalInv'
<1>1. acts \in Nat /\ keys \in Seq(Dlg) /\ Len(keys) \in Nat
  BY DEF ModalInv, KeysInv
<1>2. /\ keys' \in Seq(Dlg) /\ Len(keys') = Len(keys) + 1 /\ keys'[Len(keys) + 1] = d
      /\ \A i \in 1 .. Len(keys) : keys'[i] = keys[i]
  BY <1>1
<1>3. \A i \in 1 .. Len(keys') : i \in 1 .. Len(keys) \/ i = Len(keys) + 1
  BY <1>1, <1>2
<1>4. \A i \in 1 .. Len(keys) : keys[i] # d /\ keys[i] \in Dlg /\ keys[i].n < acts
  BY <1>1 DEF ModalInv, ReqInv
<1>5. Alone(keys')
  BY <1>2, <1>3, <1>4 DEF ModalInv, KeysInv, Alone
<1>6. StrayKeys'
  <2>1. \A i \in 1 .. Len(keys) : keys[i].kind # "newdag" => keys[i] \in wiped'
    BY <1>1, <1>4, NoDialogKind DEF ModalInv, StrayKeys, Covered
  <2>2. DOMAIN keys' = 1 .. Len(keys')
    BY <1>2
  <2> QED BY <1>2, <1>3, <2>1, <2>2 DEF StrayKeys
<1>7. ReqInv'
  <2>1. \A r \in reqs : r.n < acts'
    BY <1>1 DEF ModalInv, ReqInv, Req, Acted
  <2>2. \A i \in 1 .. Len(keys') : keys'[i].n < acts'
    <3>1. \A i \in 1 .. Len(keys) : keys[i].n < acts'
      BY <1>1, <1>4 DEF Acted, Dlg
    <3>2. d.n < acts'
      BY <1>1 DEF Acted
    <3> QED BY <1>2, <1>3, <3>1, <3>2
  <2>3. \A i \in 1 .. Len(keys') : keys'[i].kind = "reveal" => \A r \in reqs : r.what \in Reveal => r.n # keys'[i].n
    BY <1>2, <1>3 DEF ModalInv, ReqInv
  <2> QED BY <2>1, <2>2, <2>3 DEF ModalInv, ReqInv
<1>8. RootOld'
  BY <1>1 DEF RootOld, Acted
<1>9. Listens(d, keys')
  BY <1>1, <1>2 DEF Listens
<1> QED BY <1>2, <1>5, <1>6, <1>7, <1>8, <1>9 DEF ModalInv, KeysInv, Shown, Acted

\* A step that leaves the screen as it is.
LEMMA ModalFrame == ASSUME ModalInv, Later, UNCHANGED modal PROVE ModalInv'
<1>1. Among(keys', keys)
  BY AmongSelf DEF modal
<1>2. ReqInv'
  BY <1>1, AmongKeeps DEF modal
<1>3. RootOld'
  BY RootKeeps DEF modal
<1> QED BY <1>2, <1>3 DEF ModalInv, KeysInv, StrayKeys, Alone, Listens, Later, modal

\* A press or a button: fewer listeners, and the requests that create DAGs.
LEMMA ShowsKeeps ==
    ASSUME ModalInv, Acted, NEW t \in ScreenType, Alone(t.keys), Among(t.keys, keys), Shows(t),
           t.root \in {root, NoDialog}, Reached(t),
           \A i \in 1 .. Len(t.keys) : t.keys[i].kind # "newdag" => t.keys[i] = t.root \/ t.keys[i] \in wiped'
    PROVE  ModalInv'
<1>1. root' \in Shown /\ nd' \in Fields /\ keys' = t.keys /\ keys' \in Seq(Dlg) /\ root' = t.root
  BY DEF Shows, ScreenType
<1>2. KeysInv'
  BY <1>1 DEF KeysInv, Reached, Acted
<1>3. DOMAIN keys' = 1 .. Len(keys')
  BY <1>1
<1>4. StrayKeys'
  BY <1>1, <1>3 DEF StrayKeys
<1> DEFINE new == {[what |-> "create", dlg |-> root, n |-> acts, c |-> i] : i \in 1 .. t.sent}
<1>5. reqs' = reqs \cup new /\ acts \in Nat
  BY DEF Shows, ModalInv, KeysInv
<1>6. \A r \in new : r \in Req /\ r.what = "create" /\ r.n = acts
  BY <1>5 DEF ModalInv, KeysInv, Req, ScreenType
<1> HIDE DEF new
<1>7. "create" \notin {"form"} \cup Reveal
  BY DEF Reveal
<1>8. ReqInv'
  <2>1. reqs' \subseteq Req
    BY <1>5, <1>6 DEF ModalInv, ReqInv
  <2>2. \A r \in reqs' : r.n < acts' /\ (r.what \in {"form"} \cup Reveal => r.dlg.kind # "newdag")
    <3>1. \A r \in reqs : r.n < acts'
      BY <1>5 DEF ModalInv, ReqInv, Req, Acted
    <3>2. \A r \in new : r.n < acts'
      BY <1>5, <1>6 DEF Acted
    <3> QED BY <1>5, <1>6, <1>7, <3>1, <3>2 DEF ModalInv, ReqInv
  <2>3. \A r \in reqs' : r.what \in Reveal => r \in reqs
    BY <1>5, <1>6, <1>7
  <2>4. \A r, q \in reqs' : {r.what, q.what} \subseteq Reveal /\ r.n = q.n => r = q
    BY <2>3 DEF ModalInv, ReqInv
  <2>5. ASSUME NEW i \in 1 .. Len(keys')
        PROVE  /\ keys'[i].n < acts'
               /\ keys'[i].kind = "reveal" => \A r \in reqs' : r.what \in Reveal => r.n # keys'[i].n
    <3>1. PICK j \in 1 .. Len(keys) : keys[j] = keys'[i]
      BY <1>1 DEF Among, Listens
    <3>2. keys[j] \in Dlg /\ keys[j].n < acts
      BY DEF ModalInv, KeysInv, ReqInv
    <3>3. keys[j].n < acts'
      BY <1>5, <3>2 DEF Dlg, Acted
    <3>4. keys[j].kind = "reveal" => \A r \in reqs' : r.what \in Reveal => r.n # keys[j].n
      BY <2>3 DEF ModalInv, ReqInv
    <3> QED BY <3>1, <3>3, <3>4
  <2> QED BY <2>1, <2>2, <2>4, <2>5 DEF ReqInv
<1>9. RootOld'
  BY <1>1, RootKeeps DEF Acted, Later
<1> QED BY <1>2, <1>4, <1>8, <1>9 DEF ModalInv

LEMMA EscapeKeeps == ASSUME ModalInv, Acted, KeyEscape PROVE ModalInv'
<1> DEFINE t == Press(onEscape)
<1>1. /\ t \in ScreenType /\ Alone(t.keys) /\ Among(t.keys, keys) /\ t.root \in {root, NoDialog}
      /\ Reached(t) /\ \A i \in 1 .. Len(t.keys) : t.keys[i].kind = "newdag"
  BY EscapeFacts DEF ModalInv
<1>2. Shows(t)
  BY DEF KeyEscape
<1> HIDE DEF t
<1> QED BY <1>1, <1>2, ShowsKeeps

LEMMA EnterKeeps == ASSUME ModalInv, Acted, KeyEnter PROVE ModalInv'
<1> DEFINE t == Press(onEnter)
<1>1. /\ t \in ScreenType /\ Alone(t.keys) /\ Among(t.keys, keys) /\ t.root \in {root, NoDialog}
      /\ t.root = root \/ Strays # {} \/ ~Listens(root, t.keys)
      /\ Reached(t)
  BY EnterFacts DEF ModalInv
<1>2. Shows(t) /\ wiped' = IF Strays = {} THEN wiped ELSE Covered
  BY DEF KeyEnter
<1> HIDE DEF t
<1>3. ASSUME NEW i \in 1 .. Len(t.keys), t.keys[i].kind # "newdag"
      PROVE  t.keys[i] = t.root \/ t.keys[i] \in wiped'
  <2>1. PICK j \in 1 .. Len(keys) : keys[j] = t.keys[i]
    BY <1>1 DEF Among, Listens
  <2>2. keys[j] \in Dlg /\ (keys[j] = root \/ keys[j] \in wiped)
    BY <1>3, <2>1 DEF ModalInv, KeysInv, StrayKeys
  <2>3. wiped \subseteq wiped'
    BY <1>2 DEF Covered
  <2>4. CASE keys[j] = root
    <3>1. Listens(root, t.keys)
      BY <2>1, <2>4 DEF Listens
    <3>2. root # NoDialog
      BY <2>2, <2>4, NoDialogKind
    <3>3. Strays # {} => root \in wiped'
      BY <1>2, <3>2 DEF Covered
    <3> QED BY <1>1, <2>1, <2>4, <3>1, <3>3
  <2> QED BY <2>1, <2>2, <2>3, <2>4
<1> QED BY <1>1, <1>2, <1>3, ShowsKeeps

\* The buttons close the dialog they are on.
LEMMA ClickKeeps == ASSUME ModalInv, Acted, ClickCancel \/ ClickOk PROVE ModalInv'
<1> DEFINE c == close(Screen, root)
<1>0. Screen \in ScreenType /\ Screen.keys = keys /\ Alone(keys) /\ root \in Shown
  BY ScreenTyped DEF ModalInv, KeysInv, Screen
<1>1. /\ c \in ScreenType /\ c.root = NoDialog /\ Alone(c.keys) /\ Among(c.keys, keys)
      /\ root \in Dlg /\ root.kind # "newdag" => ~Listens(root, c.keys)
  BY <1>0, CloseFacts
<1>2. root \in Dlg
  <2>1. root # NoDialog
    BY NoDialogKind DEF ClickCancel, ClickOk
  <2> QED BY <1>0, <2>1 DEF Shown
<1>3. PICK yes \in SUBSET Dlg : Shows([c EXCEPT !.yes = yes]) /\ wiped' = wiped
  <2>1. CASE ClickCancel
    <3>1. c = [c EXCEPT !.yes = c.yes] /\ c.yes \in SUBSET Dlg
      BY <1>1 DEF ScreenType
    <3> QED BY <2>1, <3>1 DEF ClickCancel
  <2>2. CASE ClickOk
    BY <1>2, <2>2 DEF ClickOk
  <2> QED BY <2>1, <2>2
<1> DEFINE t == [c EXCEPT !.yes = yes]
<1>4. t \in ScreenType /\ t.keys = c.keys /\ t.root = c.root
  BY <1>1 DEF ScreenType
<1>5. ASSUME NEW i \in 1 .. Len(t.keys), t.keys[i].kind # "newdag"
      PROVE  t.keys[i] = t.root \/ t.keys[i] \in wiped'
  <2> HIDE DEF c, t
  <2>1. PICK j \in 1 .. Len(keys) : keys[j] = t.keys[i]
    BY <1>1, <1>4 DEF Among, Listens
  <2>2. keys[j] = root \/ keys[j] \in wiped
    BY <1>5, <2>1 DEF ModalInv, KeysInv, StrayKeys
  <2>3. keys[j] # root
    BY <1>1, <1>2, <1>4, <1>5, <2>1 DEF Listens
  <2> QED BY <1>3, <2>1, <2>2, <2>3
<1> HIDE DEF c, t
<1>6. Reached(t)
  BY <1>1, <1>4 DEF Reached
<1> QED BY <1>1, <1>3, <1>4, <1>5, <1>6, ShowsKeeps DEF t

LEMMA CreateKeeps == ASSUME ModalInv, Acted, ClickCreate PROVE ModalInv'
<1> DEFINE t == submitNewDag(Screen)
           fs == [nd EXCEPT !.disabled = TRUE]
<1>1. fs \in Fields
  BY DEF ModalInv, KeysInv, Fields
<1>2. t = [Screen EXCEPT !.nd = fs, !.sent = 1]
  BY DEF submitNewDag, Screen
<1> HIDE DEF t, fs
<1>3. t \in ScreenType /\ t.keys = keys /\ t.root = root
  <2>1. t = [root |-> root, keys |-> keys, nd |-> fs, yes |-> {}, sent |-> 1]
    BY <1>2 DEF Screen
  <2> QED BY <1>1, <2>1 DEF ModalInv, KeysInv, ScreenType
<1>4. Shows(t) /\ wiped' = wiped
  BY DEF ClickCreate, t
<1>5. Alone(keys) /\ Among(keys, keys) /\ DOMAIN keys = 1 .. Len(keys)
  BY AmongSelf DEF ModalInv, KeysInv
<1>6. \A i \in 1 .. Len(keys) : keys[i].kind # "newdag" => keys[i] = root \/ keys[i] \in wiped
  BY <1>5 DEF ModalInv, StrayKeys
<1>7. Reached(t)
  BY <1>3 DEF Reached, ModalInv, KeysInv
<1> QED BY <1>3, <1>4, <1>5, <1>6, <1>7, ShowsKeeps

\* A request: of a dialog on the screen, or of the page behind it.
LEMMA RequestKeeps ==
    ASSUME ModalInv, Acted, NEW what \in {"form", "mint", "reveal", "list"}, NEW d \in Shown,
           d.kind # "newdag", Request(what, d), UNCHANGED <<root, keys, nd, wiped>>
    PROVE  ModalInv'
<1> DEFINE new == [what |-> what, dlg |-> d, n |-> acts, c |-> 1]
<1>0. acts \in Nat /\ reqs' = reqs \cup {new}
  BY DEF ModalInv, KeysInv, Request
<1>1. new \in Req /\ new.n = acts /\ new.what = what /\ new.dlg = d
  BY <1>0 DEF Req
<1> HIDE DEF new
<1>2. reqs' \subseteq Req
  BY <1>0, <1>1 DEF ModalInv, ReqInv
<1>3. \A r \in reqs : r.n \in Nat /\ r.n < acts
  BY DEF ModalInv, ReqInv, Req
<1>4. \A r \in reqs' : r.n < acts' /\ (r.what \in {"form"} \cup Reveal => r.dlg.kind # "newdag")
  <2>1. \A r \in reqs' : r.n < acts'
    BY <1>0, <1>1, <1>3 DEF Acted
  <2> QED BY <1>0, <1>1, <2>1 DEF ModalInv, ReqInv
<1>5. \A r, q \in reqs' : {r.what, q.what} \subseteq Reveal /\ r.n = q.n => r = q
  <2>1. \A r \in reqs : r.n # new.n
    BY <1>0, <1>1, <1>3
  <2> QED BY <1>0, <2>1 DEF ModalInv, ReqInv
<1>6. ASSUME NEW i \in 1 .. Len(keys')
      PROVE  /\ keys'[i].n < acts'
             /\ keys'[i].kind = "reveal" => \A r \in reqs' : r.what \in Reveal => r.n # keys'[i].n
  <2>1. keys[i] \in Dlg /\ keys[i].n < acts
    BY DEF ModalInv, KeysInv, ReqInv
  <2>2. keys[i].n < acts' /\ keys[i].n # acts
    BY <1>0, <2>1 DEF Dlg, Acted
  <2> QED BY <1>0, <1>1, <2>2 DEF ModalInv, ReqInv
<1>7. RootOld'
  BY RootKeeps DEF Acted, Later
<1> QED BY <1>2, <1>4, <1>5, <1>6, <1>7 DEF ModalInv, KeysInv, StrayKeys, ReqInv, Alone, Listens, Acted

\* A dialog drawn over whatever is there, by an answer or anew: one more
\* listener, which is new unless it is the new DAG modal's.
LEMMA DrawKeeps ==
    ASSUME ModalInv, Later, NEW ks \in Seq(Dlg), Alone(ks), Among(ks, keys),
           NEW d \in Dlg, d.n < acts, Draws(d, ks), nd' \in Fields,
           reqs' = reqs \/ \E r \in reqs : reqs' = reqs \ {r},
           d.kind # "newdag" => ~Listens(d, ks),
           d.kind = "reveal" => \A r \in reqs' : r.what \in Reveal => r.n # d.n,
           \A i \in 1 .. Len(ks) : ks[i].kind # "newdag" => ks[i] = d \/ ks[i] \in wiped'
    PROVE  ModalInv'
<1>1. acts \in Nat /\ Len(ks) \in Nat /\ root' = d /\ keys' = Append(ks, d)
  BY DEF ModalInv, KeysInv, Draws
<1>2. /\ keys' \in Seq(Dlg) /\ Len(keys') = Len(ks) + 1 /\ keys'[Len(ks) + 1] = d
      /\ \A i \in 1 .. Len(ks) : keys'[i] = ks[i]
  BY <1>1
<1>3. \A i \in 1 .. Len(keys') : i \in 1 .. Len(ks) \/ i = Len(ks) + 1
  BY <1>1, <1>2
<1>4. Alone(keys')
  BY <1>2, <1>3 DEF Alone, Listens
<1>5. StrayKeys'
  <2>1. DOMAIN keys' = 1 .. Len(keys')
    BY <1>2
  <2> QED BY <1>1, <1>2, <1>3, <2>1 DEF StrayKeys
<1>6. reqs' \subseteq reqs
  OBVIOUS
<1>7. ReqInv'
  <2>1. reqs' \subseteq Req
    BY <1>6 DEF ModalInv, ReqInv
  <2>2. \A r \in reqs' : r.n < acts' /\ (r.what \in {"form"} \cup Reveal => r.dlg.kind # "newdag")
    BY <1>1, <1>6 DEF ModalInv, ReqInv, Later, Req
  <2>3. \A r, q \in reqs' : {r.what, q.what} \subseteq Reveal /\ r.n = q.n => r = q
    BY <1>6 DEF ModalInv, ReqInv
  <2>4. ASSUME NEW i \in 1 .. Len(ks)
        PROVE  /\ ks[i].n < acts'
               /\ ks[i].kind = "reveal" => \A r \in reqs' : r.what \in Reveal => r.n # ks[i].n
    <3>1. PICK j \in 1 .. Len(keys) : keys[j] = ks[i]
      BY DEF Among, Listens
    <3>2. keys[j] \in Dlg /\ keys[j].n < acts
      BY DEF ModalInv, KeysInv, ReqInv
    <3>3. keys[j].n < acts'
      BY <1>1, <3>2 DEF Dlg, Later
    <3> QED BY <1>6, <3>1, <3>3 DEF ModalInv, ReqInv
  <2>5. d.n < acts'
    BY <1>1 DEF Dlg, Later
  <2>6. \A i \in 1 .. Len(keys') :
           /\ keys'[i].n < acts'
           /\ keys'[i].kind = "reveal" => \A r \in reqs' : r.what \in Reveal => r.n # keys'[i].n
    BY <1>2, <1>3, <2>4, <2>5
  <2> QED BY <2>1, <2>2, <2>3, <2>6 DEF ReqInv
<1>8. RootOld'
  BY <1>1 DEF RootOld, Later, Dlg
<1>9. Listens(d, keys')
  BY <1>1, <1>2 DEF Listens
<1> QED BY <1>1, <1>2, <1>4, <1>5, <1>7, <1>8, <1>9 DEF ModalInv, KeysInv, Shown, Later

LEMMA RedrawKeeps ==
    ASSUME ModalInv, Acted, NEW adv \in BOOLEAN, renderNewDag(adv)
    PROVE  ModalInv'
<1>1. root \in Dlg /\ root.kind = "newdag"
  BY NoDialogKind DEF ModalInv, KeysInv, renderNewDag, Shown
<1>2. root.n < acts /\ keys \in Seq(Dlg) /\ Alone(keys) /\ Among(keys, keys)
  BY <1>1, AmongSelf DEF ModalInv, KeysInv, RootOld
<1>3. nd' \in Fields
  <2>1. nd \in Fields /\ (~nd.valid) \in BOOLEAN /\ FALSE \in BOOLEAN /\ acts \in 0 .. MaxActs
    BY DEF ModalInv, KeysInv
  <2> QED BY <2>1 DEF renderNewDag, Fields
<1>4. Draws(root, keys) /\ UNCHANGED <<reqs, wiped>>
  BY DEF renderNewDag
<1>5. \A i \in 1 .. Len(keys) : keys[i].kind # "newdag" => keys[i] = root \/ keys[i] \in wiped'
  BY <1>2, <1>4 DEF ModalInv, StrayKeys
<1> QED BY <1>1, <1>2, <1>3, <1>4, <1>5, DrawKeeps DEF Acted, Later

\* The root is emptied by an answer, and the dialog in it covered.
LEMMA EmptyKeeps ==
    ASSUME ModalInv, Later, NEW ks \in Seq(Dlg), Alone(ks), Among(ks, keys),
           root' = NoDialog, keys' = ks, nd' = nd,
           reqs' = reqs \/ \E r \in reqs : reqs' = reqs \ {r},
           \A i \in 1 .. Len(ks) : ks[i].kind # "newdag" => ks[i] \in wiped'
    PROVE  ModalInv'
<1>1. ReqInv' /\ RootOld'
  BY AmongKeeps, RootKeeps
<1>2. DOMAIN keys' = 1 .. Len(keys')
  OBVIOUS
<1>3. StrayKeys'
  BY <1>2 DEF StrayKeys
<1> QED BY <1>1, <1>3 DEF ModalInv, KeysInv, Shown, Later

\* The fields of the new DAG modal.
LEMMA FieldsKeeps ==
    ASSUME ModalInv, Later, nd' \in Fields, UNCHANGED <<root, keys, wiped>>,
           reqs' = reqs \/ \E r \in reqs : reqs' = reqs \ {r}
    PROVE  ModalInv'
<1>1. ReqInv' /\ RootOld'
  BY AmongSelf, AmongKeeps, RootKeeps
<1> QED BY <1>1 DEF ModalInv, KeysInv, StrayKeys, Alone, Listens, Later

\* A dialog that hands over no longer listens; the others are covered.
LEMMA HandOver ==
    ASSUME ModalInv, NEW r \in reqs, r.what \in {"form"} \cup Reveal, wiped' = Covered \ {r.dlg}
    PROVE  LET ks == RemoveFirst(keys, r.dlg) IN
           /\ ks \in Seq(Dlg) /\ Alone(ks) /\ Among(ks, keys)
           /\ \A i \in 1 .. Len(ks) : ks[i].kind # "newdag" => ks[i] \in wiped'
<1> DEFINE ks == RemoveFirst(keys, r.dlg)
<1>1. keys \in Seq(Dlg) /\ Alone(keys) /\ r.dlg \in Shown /\ r.dlg.kind # "newdag"
  BY DEF ModalInv, KeysInv, ReqInv, Req
<1>2. /\ ks \in Seq(Dlg) /\ Alone(ks) /\ Among(ks, keys)
      /\ r.dlg \in Dlg => ~Listens(r.dlg, ks)
  BY <1>1, RemoveKeeps
<1> HIDE DEF ks
<1>3. ASSUME NEW i \in 1 .. Len(ks), ks[i].kind # "newdag" PROVE ks[i] \in wiped'
  <2>1. PICK j \in 1 .. Len(keys) : keys[j] = ks[i]
    BY <1>2 DEF Among, Listens
  <2>2. keys[j] \in Dlg /\ (keys[j] = root \/ keys[j] \in wiped)
    BY <1>1, <1>3, <2>1 DEF ModalInv, StrayKeys
  <2>3. keys[j] \in Covered
    BY <2>2, NoDialogKind DEF Covered
  <2>4. keys[j] # r.dlg
    BY <1>1, <1>2, <2>1, <2>2, NoDialogKind DEF Listens, Shown
  <2> QED BY <2>1, <2>3, <2>4
<1> QED BY <1>2, <1>3 DEF ks

\* Everything that listens is covered when the root is taken.
LEMMA AllCovered ==
    ASSUME ModalInv, wiped' = Covered
    PROVE  /\ keys \in Seq(Dlg) /\ Alone(keys) /\ Among(keys, keys)
           /\ \A i \in 1 .. Len(keys) : keys[i].kind # "newdag" => keys[i] \in wiped'
<1>1. keys \in Seq(Dlg) /\ Alone(keys) /\ Among(keys, keys)
  BY AmongSelf DEF ModalInv, KeysInv
<1>2. ASSUME NEW i \in 1 .. Len(keys), keys[i].kind # "newdag" PROVE keys[i] \in wiped'
  <2>1. keys[i] \in Dlg /\ (keys[i] = root \/ keys[i] \in wiped)
    BY <1>1, <1>2 DEF ModalInv, StrayKeys
  <2> QED BY <2>1, NoDialogKind DEF Covered
<1> QED BY <1>1, <1>2

\* The answers.
LEMMA RevealsKeeps ==
    ASSUME ModalInv, Later, NEW r \in reqs, r.what \in Reveal, Reveals(r), reqs' = reqs \ {r}
    PROVE  ModalInv'
<1> DEFINE ks == RemoveFirst(keys, r.dlg)
           d == [kind |-> "reveal", ids |-> {}, n |-> r.n]
<1>1. /\ ks \in Seq(Dlg) /\ Alone(ks) /\ Among(ks, keys)
      /\ \A i \in 1 .. Len(ks) : ks[i].kind # "newdag" => ks[i] \in wiped'
  BY HandOver DEF Reveals
<1>2. Draws(d, ks) /\ nd' \in Fields
  BY DEF Reveals, ModalInv, KeysInv
<1> HIDE DEF ks
<1>3. d \in Dlg /\ d.n = r.n /\ d.kind = "reveal" /\ r.n < acts
  BY DEF Dlg, Kinds, ModalInv, ReqInv, Req
<1> HIDE DEF d
<1>4. \A q \in reqs' : q.what \in Reveal => q.n # d.n
  BY <1>3 DEF ModalInv, ReqInv
<1>5. ~Listens(d, ks)
  <2> SUFFICES ASSUME NEW i \in 1 .. Len(ks), ks[i] = d PROVE FALSE
    BY DEF Listens
  <2>1. PICK j \in 1 .. Len(keys) : keys[j] = d
    BY <1>1 DEF Among, Listens
  <2> QED BY <1>3, <2>1 DEF ModalInv, ReqInv
<1> QED BY <1>1, <1>2, <1>3, <1>4, <1>5, DrawKeeps

LEMMA AnswerKeeps == ASSUME ModalInv, Later, NEW r \in reqs, Answer(r) PROVE ModalInv'
<1>0. reqs' = reqs \ {r}
  BY DEF Answer
<1>1. CASE FormAnswer(r)
  <2> DEFINE ks == RemoveFirst(keys, r.dlg)
  <2>1. r.what \in {"form"} \cup Reveal /\ wiped' = Covered \ {r.dlg}
    BY <1>1 DEF FormAnswer
  <2>2. /\ ks \in Seq(Dlg) /\ Alone(ks) /\ Among(ks, keys)
        /\ \A i \in 1 .. Len(ks) : ks[i].kind # "newdag" => ks[i] \in wiped'
    BY <2>1, HandOver
  <2>3. root' = NoDialog /\ keys' = ks /\ nd' = nd
    BY <1>1 DEF FormAnswer
  <2> HIDE DEF ks
  <2> QED BY <1>0, <2>2, <2>3, EmptyKeeps
<1>2. CASE revealToken(r) \/ revealWorkerToken(r)
  <2>1. r.what \in Reveal /\ Reveals(r)
    BY <1>2 DEF revealToken, revealWorkerToken, Reveal
  <2> QED BY <1>0, <2>1, RevealsKeeps
<1>3. CASE ListAnswer(r)
  <2> DEFINE d == [kind |-> "newdag", ids |-> {}, n |-> r.n]
  <2>1. d \in Dlg /\ d.n < acts /\ d.kind = "newdag"
    BY DEF Dlg, Kinds, ModalInv, ReqInv, Req
  <2>2. Draws(d, keys) /\ wiped' = Covered /\ nd' \in Fields
    BY <1>3 DEF ListAnswer, NoND, Fields, ModalInv, KeysInv
  <2> HIDE DEF d
  <2>3. /\ keys \in Seq(Dlg) /\ Alone(keys) /\ Among(keys, keys)
        /\ \A i \in 1 .. Len(keys) : keys[i].kind # "newdag" => keys[i] \in wiped'
    BY <2>2, AllCovered
  <2> QED BY <1>0, <2>1, <2>2, <2>3, DrawKeeps
<1>4. CASE CreateAnswer(r)
  <2>1. root' = NoDialog /\ wiped' = Covered /\ keys' = keys /\ nd' = nd
    BY <1>4 DEF CreateAnswer
  <2> QED BY <1>0, <2>1, AllCovered, EmptyKeeps
<1> QED BY <1>1, <1>2, <1>3, <1>4 DEF Answer

LEMMA FailsKeeps == ASSUME ModalInv, Later, NEW r \in reqs, AnswerFails(r) PROVE ModalInv'
<1>1. nd' \in Fields
  BY DEF AnswerFails, ModalInv, KeysInv, Fields
<1> QED BY <1>1, FieldsKeeps DEF AnswerFails

\* What the user does to the dialogs.
LEMMA OpensKeeps ==
    ASSUME ModalInv, Acted,
           \/ confirmDialog \/ promptDialog \/ nvEditStepModal \/ pickDialog
           \/ triggerParamsDialog \/ backfillDialog \/ connDialog \/ groupDialog
           \/ workerTokenDialog
    PROVE  ModalInv'
<1>1. PICK kind \in Kinds \ {"reveal"} : Opens(kind)
  BY DEF confirmDialog, promptDialog, nvEditStepModal, pickDialog, triggerParamsDialog,
         backfillDialog, connDialog, groupDialog, workerTokenDialog, Kinds
<1> DEFINE d == Dialog(kind, {})
<1>2. d \in Dlg /\ d.n = acts /\ d.kind = kind
  BY DialogTyped DEF ModalInv, KeysInv
<1>3. root' = d /\ keys' = Append(keys, d) /\ wiped' = Covered /\ UNCHANGED <<nd, reqs>>
  BY <1>1 DEF Opens, Draws
<1> HIDE DEF d
<1> QED BY <1>2, <1>3, OpenKeeps

LEMMA AsksKeeps ==
    ASSUME ModalInv, Acted, FormSend \/ createToken \/ openYamlDrawer \/ newDagModal
    PROVE  ModalInv'
<1>1. CASE FormSend
  <2>1. root \in Shown /\ root.kind \in {"form", "mint"} /\ root.kind # "newdag"
    BY <1>1 DEF FormSend, ModalInv, KeysInv
  <2>2. Request(root.kind, root) /\ UNCHANGED <<root, keys, nd, wiped>>
    BY <1>1 DEF FormSend
  <2> QED BY <2>1, <2>2, RequestKeeps
<1>2. CASE createToken \/ openYamlDrawer \/ newDagModal
  <2>1. PICK what \in {"reveal", "list"} : Asks(what)
    BY <1>2 DEF createToken, openYamlDrawer, newDagModal
  <2>2. Request(what, NoDialog) /\ UNCHANGED <<root, keys, nd, wiped>>
    BY <2>1 DEF Asks
  <2>3. NoDialog \in Shown /\ NoDialog.kind # "newdag"
    BY NoDialogKind DEF Shown
  <2> QED BY <2>2, <2>3, RequestKeeps
<1> QED BY <1>1, <1>2

LEMMA FormKeeps ==
    ASSUME ModalInv, Acted, ToggleCronHelp \/ \E ok \in BOOLEAN : updateNewDagValidity(ok)
    PROVE  ModalInv'
<1>1. nd' \in Fields
  <2>1. nd \in Fields /\ (~nd.pop) \in BOOLEAN /\ \A ok \in BOOLEAN : (~ok) \in BOOLEAN
    BY DEF ModalInv, KeysInv
  <2> QED BY <2>1 DEF updateNewDagValidity, ToggleCronHelp, Fields
<1> QED BY <1>1, FieldsKeeps DEF updateNewDagValidity, ToggleCronHelp, Acted, Later


-----------------------------------------------------------------------------
(* Bulk operations and the run history.                                    *)

\* A bulk operation is a record over the rows, started before now.
BulkShape ==
    \A b \in bulk : /\ DOMAIN b = {"todo", "n"} /\ b.todo \subseteq Rows
                    /\ b.n \in Nat /\ b.n < acts
\* No confirmation that still listens was given, and each was asked for once.
Fresh == \A b \in bulk, i \in 1 .. Len(keys) : keys[i].kind = "confirm" => keys[i].n # b.n
Single == \A b, c \in bulk : b.n = c.n => b = c
Distinct(ks) ==
    \A i, j \in 1 .. Len(ks) :
        ks[i].kind = "confirm" /\ ks[j].kind = "confirm" /\ ks[i].n = ks[j].n => ks[i] = ks[j]
BulkInv == BulkShape /\ Fresh /\ Single /\ Distinct(keys)
Ticks == sel \subseteq Rows

\* A fetch of the run history has a number of its own, and the newest one
\* asked for the filter that the page shows.
HistoryInv ==
    /\ asked \in Nat /\ {filter, runs} \subseteq Filters /\ polling \in BOOLEAN
    /\ \A a \in asks : /\ a.f \in Filters /\ a.n \in 1 .. asked
                       /\ a.n = asked => a.f = filter

Inv == ModalInv /\ BulkInv /\ Ticks /\ HistoryInv

\* The initial state has no dialog, no bulk operation and no fetch.
LEMMA InitInv == ASSUME Init PROVE Inv
<1>1. root \in Shown /\ nd \in Fields /\ keys \in Seq(Dlg) /\ Len(keys) = 0 /\ DOMAIN keys = {}
  BY DEF Init, Shown, Fields, NoND
<1>2. KeysInv /\ StrayKeys /\ ReqInv /\ RootOld
  BY <1>1, NoDialogKind DEF Init, KeysInv, Alone, StrayKeys, ReqInv, RootOld
<1>3. BulkInv /\ Ticks /\ HistoryInv
  BY <1>1 DEF Init, BulkInv, Fresh, Single, Distinct, BulkShape, Ticks, HistoryInv
<1> QED BY <1>2, <1>3 DEF Inv, ModalInv

\* A bulk operation starts with everything that was ticked still to do.
LEMMA runBulkFacts ==
    ASSUME NEW d \in Dlg \cup {Dialog("none", sel)}, sel \subseteq Rows, acts \in Nat
    PROVE  LET b == runBulk(d) IN
           DOMAIN b = {"todo", "n"} /\ b.todo \subseteq Rows /\ b.n = d.n /\ b.n \in Nat
BY DEF runBulk, Dialog, Dlg

\* The listeners left over, and one new: a confirmation asked for now, or
\* another dialog.
NewKeys(d) ==
    /\ d.kind = "confirm" => d.n = acts
    /\ \A i \in 1 .. Len(keys') : Listens(keys'[i], keys) \/ keys'[i] = d

\* The confirmations stay distinct and fresh.
LEMMA KeysDistinct ==
    ASSUME ModalInv, BulkInv, NEW d, NewKeys(d)
    PROVE  /\ Distinct(keys')
           /\ \A b \in bulk, i \in 1 .. Len(keys') : keys'[i].kind = "confirm" => keys'[i].n # b.n
<1>1. acts \in Nat /\ \A i \in 1 .. Len(keys) : keys[i].n < acts /\ keys[i].n \in Nat
  <2>1. \A i \in 1 .. Len(keys) : keys[i] \in Dlg
    BY DEF ModalInv, KeysInv
  <2> QED BY <2>1 DEF ModalInv, KeysInv, ReqInv, Dlg
<1>2. ASSUME NEW i \in 1 .. Len(keys'), keys'[i].kind = "confirm"
      PROVE  \/ \E k \in 1 .. Len(keys) : keys'[i] = keys[k] /\ keys[k].n < acts /\ keys[k].n \in Nat
             \/ keys'[i] = d /\ d.n = acts
  BY <1>1, <1>2 DEF NewKeys, Listens
<1>3. Distinct(keys')
  <2> SUFFICES ASSUME NEW i \in 1 .. Len(keys'), NEW j \in 1 .. Len(keys'),
                      keys'[i].kind = "confirm", keys'[j].kind = "confirm", keys'[i].n = keys'[j].n
               PROVE  keys'[i] = keys'[j]
    BY DEF Distinct
  <2>1. CASE keys'[i] = d /\ d.n = acts
    BY <1>1, <1>2, <2>1
  <2>2. CASE keys'[j] = d /\ d.n = acts
    BY <1>1, <1>2, <2>2
  <2>3. ASSUME NEW k \in 1 .. Len(keys), keys'[i] = keys[k],
               NEW l \in 1 .. Len(keys), keys'[j] = keys[l]
        PROVE  keys'[i] = keys'[j]
    BY <2>3 DEF BulkInv, Distinct
  <2> QED BY <1>2, <2>1, <2>2, <2>3
<1>4. ASSUME NEW b \in bulk, NEW i \in 1 .. Len(keys'), keys'[i].kind = "confirm"
      PROVE  keys'[i].n # b.n
  <2>1. b.n \in Nat /\ b.n < acts
    BY DEF BulkInv, BulkShape
  <2>2. CASE keys'[i] = d /\ d.n = acts
    BY <1>1, <2>1, <2>2
  <2>3. ASSUME NEW k \in 1 .. Len(keys), keys'[i] = keys[k] PROVE keys'[i].n # b.n
    BY <1>4, <2>3 DEF BulkInv, Fresh
  <2> QED BY <1>2, <1>4, <2>2, <2>3
<1> QED BY <1>3, <1>4

\* Time goes on, for the operations.
LEMMA BulkOlder == ASSUME ModalInv, BulkShape, Later, UNCHANGED bulk PROVE BulkShape'
<1>1. acts \in Nat
  BY DEF ModalInv, KeysInv
<1> QED BY <1>1 DEF BulkShape, Later

\* A dialog drawn, redrawn or gone starts no operation.
LEMMA BulkDraws ==
    ASSUME ModalInv, BulkInv, Later, NEW d, NewKeys(d), UNCHANGED bulk
    PROVE  BulkInv'
<1>1. BulkShape'
  BY BulkOlder DEF BulkInv
<1>2. Distinct(keys')
  BY KeysDistinct
<1>3. \A b \in bulk, i \in 1 .. Len(keys') : keys'[i].kind = "confirm" => keys'[i].n # b.n
  BY KeysDistinct
<1> QED BY <1>1, <1>2, <1>3 DEF BulkInv, Fresh, Single, Distinct

\* A step that leaves the listeners and the bulk operations, the ticks or the
\* history alone.
LEMMA SameKeys ==
    ASSUME ModalInv, Among(keys', keys)
    PROVE  NewKeys(NoDialog)
BY NoDialogKind DEF NewKeys, Among
LEMMA BulkFrame == ASSUME ModalInv, BulkInv, Later, UNCHANGED <<bulk, keys>> PROVE BulkInv'
<1>1. Among(keys', keys)
  BY AmongSelf
<1> QED BY <1>1, SameKeys, BulkDraws
LEMMA TicksFrame == ASSUME Ticks, UNCHANGED sel PROVE Ticks'
BY DEF Ticks
LEMMA HistoryFrame == ASSUME HistoryInv, UNCHANGED history PROVE HistoryInv'
BY DEF HistoryInv, history

\* The confirmations yes are given: each was of a dialog that listened until
\* now, and so starts an operation of its own.
LEMMA ConfirmedInv ==
    ASSUME ModalInv, BulkInv, Ticks, Acted, NEW yes \in SUBSET Dlg, Confirmed(yes),
           Among(keys', keys),
           \A d \in yes : d.kind = "confirm" /\ Listens(d, keys) /\ ~Listens(d, keys')
    PROVE  BulkInv'
<1>0. acts \in Nat /\ \A d \in yes : d \in Dlg
  BY DEF ModalInv, KeysInv
<1>1. NewKeys(NoDialog)
  BY SameKeys
<1>2. /\ Distinct(keys')
      /\ \A b \in bulk, i \in 1 .. Len(keys') : keys'[i].kind = "confirm" => keys'[i].n # b.n
  BY <1>1, KeysDistinct
<1>3. ASSUME NEW d \in yes
      PROVE  /\ d.n \in Nat /\ d.n < acts /\ \A b \in bulk : b.n # d.n
             /\ \A i \in 1 .. Len(keys) : keys[i].kind = "confirm" /\ keys[i].n = d.n => keys[i] = d
  <2>1. PICK k \in 1 .. Len(keys) : keys[k] = d
    BY <1>3 DEF Listens
  <2>2. d.n \in Nat /\ d.n < acts /\ d.kind = "confirm"
    BY <1>0, <2>1 DEF ModalInv, ReqInv, Dlg
  <2>3. \A b \in bulk : b.n # d.n
    BY <2>1, <2>2 DEF BulkInv, Fresh
  <2> QED BY <2>1, <2>2, <2>3 DEF BulkInv, Distinct
<1>4. \A d \in yes : LET b == runBulk(d) IN
         DOMAIN b = {"todo", "n"} /\ b.todo \subseteq Rows /\ b.n = d.n /\ b.n \in Nat
  BY <1>0, runBulkFacts DEF Ticks
<1>5. \A b \in bulk' : b \in bulk \/ \E d \in yes : b = runBulk(d)
  BY DEF Confirmed
<1>6. BulkShape'
  <2>1. \A b \in bulk : b.n < acts'
    BY <1>0 DEF BulkInv, BulkShape, Acted
  <2>2. \A d \in yes : runBulk(d).n < acts'
    BY <1>0, <1>3, <1>4 DEF Acted
  <2> QED BY <1>4, <1>5, <2>1, <2>2 DEF BulkInv, BulkShape
<1>7. ASSUME NEW d \in yes, NEW i \in 1 .. Len(keys'), keys'[i].kind = "confirm"
      PROVE  keys'[i].n # d.n
  <2>1. PICK k \in 1 .. Len(keys) : keys[k] = keys'[i]
    BY DEF Among, Listens
  <2>2. keys'[i] # d
    BY DEF Listens
  <2> QED BY <1>3, <1>7, <2>1, <2>2
<1>8. Fresh'
  BY <1>2, <1>4, <1>5, <1>7 DEF Fresh
<1>9. Single'
  <2>1. ASSUME NEW d \in yes, NEW e \in yes, d.n = e.n PROVE d = e
    <3>1. PICK k \in 1 .. Len(keys) : keys[k] = e
      BY <2>1 DEF Listens
    <3> QED BY <1>3, <2>1, <3>1
  <2> QED BY <1>3, <1>4, <1>5, <2>1 DEF BulkInv, Single
<1> QED BY <1>2, <1>6, <1>8, <1>9 DEF BulkInv, Distinct

\* Keys and buttons: whatever the listeners do to the screen, operations
\* only start through a confirmation.
LEMMA KeysConfirm ==
    ASSUME Inv, Acted, KeyEscape \/ KeyEnter \/ ClickCancel \/ ClickOk \/ ClickCreate
    PROVE  Inv'
<1>0. ModalInv /\ KeysInv /\ StrayKeys /\ BulkInv /\ Ticks
  BY DEF Inv, ModalInv
<1>1. \E yes \in SUBSET Dlg :
         /\ Confirmed(yes) /\ Among(keys', keys)
         /\ \A d \in yes : d.kind = "confirm" /\ Listens(d, keys) /\ ~Listens(d, keys')
  <2>1. CASE KeyEscape
    <3>1. Press(onEscape).yes = {} /\ Among(Press(onEscape).keys, keys)
      BY <1>0, EscapeFacts
    <3>2. Confirmed(Press(onEscape).yes) /\ keys' = Press(onEscape).keys
      BY <2>1 DEF KeyEscape, Shows
    <3> QED BY <3>1, <3>2
  <2>2. CASE KeyEnter
    <3> DEFINE t == Press(onEnter)
    <3>1. t \in ScreenType /\ Given(t.yes, t) /\ Among(t.keys, keys)
      BY <1>0, EnterFacts
    <3>2. Confirmed(t.yes) /\ keys' = t.keys
      BY <2>2 DEF KeyEnter, Shows
    <3> HIDE DEF t
    <3>3. t.yes \in SUBSET Dlg
      BY <3>1 DEF ScreenType
    <3> QED BY <3>1, <3>2, <3>3 DEF Given
  <2> DEFINE c == close(Screen, root)
  <2>3. /\ Among(c.keys, keys) /\ c.yes = {}
        /\ root \in Dlg /\ root.kind # "newdag" => ~Listens(root, c.keys)
    <3>1. Screen \in ScreenType /\ Screen.keys = keys /\ Screen.yes = {} /\ Alone(keys) /\ root \in Shown
      BY <1>0, ScreenTyped DEF KeysInv, Screen
    <3> QED BY <3>1, CloseFacts
  <2>4. CASE ClickCancel
    <3>1. Confirmed(c.yes) /\ keys' = c.keys
      BY <2>4 DEF ClickCancel, Shows
    <3> HIDE DEF c
    <3> QED BY <2>3, <3>1
  <2>5. CASE ClickOk
    <3> DEFINE y == IF root.kind = "confirm" THEN {root} ELSE {}
               t == [c EXCEPT !.yes = y]
    <3>1. root \in Dlg /\ Listens(root, keys) /\ root.kind # "newdag"
      BY <1>0, <2>5, NoDialogKind DEF ClickOk, KeysInv, Shown
    <3>2. Confirmed(t.yes) /\ keys' = t.keys
      BY <2>5 DEF ClickOk, Shows
    <3>3. t.yes = y /\ t.keys = c.keys
      BY DEF close, Screen
    <3> HIDE DEF c, t
    <3>4. y \in SUBSET Dlg /\ \A d \in y : d = root /\ d.kind = "confirm"
      BY <3>1
    <3> HIDE DEF y
    <3> QED BY <2>3, <3>1, <3>2, <3>3, <3>4
  <2>6. CASE ClickCreate
    <3>1. submitNewDag(Screen).yes = {} /\ submitNewDag(Screen).keys = keys
      BY DEF submitNewDag, Screen
    <3>2. Confirmed(submitNewDag(Screen).yes) /\ keys' = submitNewDag(Screen).keys
      BY <2>6 DEF ClickCreate, Shows
    <3> QED BY <3>1, <3>2, AmongSelf
  <2> HIDE DEF c
  <2> QED BY <2>1, <2>2, <2>4, <2>5, <2>6
<1>2. BulkInv'
  BY <1>0, <1>1, ConfirmedInv
<1>3. HistoryInv' /\ Ticks'
  BY HistoryFrame, TicksFrame DEF Inv, KeyEscape, KeyEnter, ClickCancel, ClickOk, ClickCreate
<1>4. ModalInv'
  BY <1>0, EscapeKeeps, EnterKeeps, ClickKeeps, CreateKeeps
<1> QED BY <1>2, <1>3, <1>4 DEF Inv

\* The dialogs, their requests and the answers start no bulk operation and
\* no fetch.
LEMMA DialogsFrame ==
    ASSUME Inv, Later, ModalInv', NEW d, NewKeys(d), UNCHANGED <<sel, bulk, history>>
    PROVE  Inv'
BY BulkDraws, TicksFrame, HistoryFrame DEF Inv
LEMMA AppendKeys ==
    ASSUME ModalInv, NEW ks \in Seq(Dlg), Among(ks, keys), NEW d \in Dlg, Draws(d, ks),
           d.kind = "confirm" => d.n = acts
    PROVE  NewKeys(d)
<1>1. /\ Len(ks) \in Nat /\ Len(keys') = Len(ks) + 1 /\ keys'[Len(ks) + 1] = d
      /\ \A i \in 1 .. Len(ks) : keys'[i] = ks[i]
  BY DEF Draws
<1>2. \A i \in 1 .. Len(keys') : i \in 1 .. Len(ks) \/ i = Len(ks) + 1
  BY <1>1
<1> QED BY <1>1, <1>2 DEF NewKeys, Among
LEMMA UserDialogs ==
    ASSUME Inv, Acted,
           \/ confirmDialog \/ promptDialog \/ nvEditStepModal \/ pickDialog
           \/ triggerParamsDialog \/ backfillDialog \/ connDialog \/ groupDialog
           \/ workerTokenDialog \/ FormSend \/ createToken \/ openYamlDrawer \/ newDagModal
           \/ ToggleCronHelp \/ \E on \in BOOLEAN : renderNewDag(on) \/ updateNewDagValidity(on)
    PROVE  Inv'
<1>0. ModalInv /\ keys \in Seq(Dlg) /\ Among(keys, keys) /\ acts \in Nat
  BY AmongSelf DEF Inv, ModalInv, KeysInv
<1>1. UNCHANGED <<sel, bulk, history>>
  BY DEF Opens, Asks, confirmDialog, promptDialog, nvEditStepModal, pickDialog,
         triggerParamsDialog, backfillDialog, connDialog, groupDialog, workerTokenDialog,
         FormSend, createToken, openYamlDrawer, newDagModal, updateNewDagValidity,
         ToggleCronHelp, renderNewDag
<1>2. ModalInv'
  BY OpensKeeps, AsksKeeps, FormKeeps, RedrawKeeps DEF Inv
<1>3. \E d : NewKeys(d)
  <2>1. CASE \/ confirmDialog \/ promptDialog \/ nvEditStepModal \/ pickDialog
             \/ triggerParamsDialog \/ backfillDialog \/ connDialog \/ groupDialog
             \/ workerTokenDialog
    <3>1. PICK kind \in Kinds : Opens(kind)
      BY <2>1 DEF confirmDialog, promptDialog, nvEditStepModal, pickDialog, triggerParamsDialog,
                  backfillDialog, connDialog, groupDialog, workerTokenDialog, Kinds
    <3> DEFINE d == Dialog(kind, {})
    <3>2. d \in Dlg /\ d.n = acts
      BY <1>0, DialogTyped
    <3>3. Draws(d, keys)
      BY <3>1 DEF Opens
    <3> HIDE DEF d
    <3> QED BY <1>0, <3>2, <3>3, AppendKeys
  <2>2. CASE \E on \in BOOLEAN : renderNewDag(on)
    <3>1. Draws(root, keys) /\ root.kind = "newdag" /\ root \in Dlg
      BY <1>0, <2>2, NoDialogKind DEF renderNewDag, ModalInv, KeysInv, Shown
    <3> QED BY <1>0, <3>1, AppendKeys
  <2>3. CASE keys' = keys
    BY <1>0, <2>3, SameKeys
  <2> QED BY <2>1, <2>2, <2>3 DEF FormSend, Asks, createToken, openYamlDrawer, newDagModal,
             updateNewDagValidity, ToggleCronHelp
<1>4. Later
  BY DEF Acted, Later
<1> QED BY <1>1, <1>2, <1>3, <1>4, DialogsFrame
LEMMA Answers ==
    ASSUME Inv, Later, NEW r \in reqs, Answer(r) \/ AnswerFails(r)
    PROVE  Inv'
<1>0. ModalInv /\ keys \in Seq(Dlg) /\ Alone(keys) /\ Among(keys, keys)
  BY AmongSelf DEF Inv, ModalInv, KeysInv
<1>1. UNCHANGED <<sel, bulk, history>>
  BY DEF Answer, AnswerFails
<1>2. ModalInv'
  BY AnswerKeeps, FailsKeeps DEF Inv
<1> DEFINE ks == RemoveFirst(keys, r.dlg)
<1>3. ks \in Seq(Dlg) /\ Among(ks, keys)
  BY <1>0, RemoveKeeps
<1>4. r.n \in Nat
  BY <1>0 DEF ModalInv, ReqInv, Req
<1>5. \E d : NewKeys(d)
  <2>1. CASE FormAnswer(r)
    <3>1. keys' = ks
      BY <2>1 DEF FormAnswer
    <3> HIDE DEF ks
    <3> QED BY <1>0, <1>3, <3>1, SameKeys
  <2>2. CASE revealToken(r) \/ revealWorkerToken(r)
    <3> DEFINE d == [kind |-> "reveal", ids |-> {}, n |-> r.n]
    <3>1. Draws(d, ks) /\ d \in Dlg /\ d.kind = "reveal"
      BY <1>4, <2>2 DEF revealToken, revealWorkerToken, Reveals, Dlg, Kinds
    <3> HIDE DEF d, ks
    <3> QED BY <1>0, <1>3, <3>1, AppendKeys
  <2>3. CASE ListAnswer(r)
    <3> DEFINE d == [kind |-> "newdag", ids |-> {}, n |-> r.n]
    <3>1. Draws(d, keys) /\ d \in Dlg /\ d.kind = "newdag"
      BY <1>4, <2>3 DEF ListAnswer, Dlg, Kinds
    <3> HIDE DEF d
    <3> QED BY <1>0, <3>1, AppendKeys
  <2>4. CASE keys' = keys
    BY <1>0, <2>4, SameKeys
  <2> QED BY <2>1, <2>2, <2>3, <2>4 DEF Answer, AnswerFails, CreateAnswer
<1> QED BY <1>1, <1>2, <1>5, DialogsFrame

\* The ticks stay among the rows.
LEMMA TicksInv ==
    ASSUME Inv, Later, (\E id \in Rows : TickRow(id)) \/ \E l \in SUBSET Rows : wireBulk(l)
    PROVE  Inv'
<1>1. Ticks'
  BY DEF Inv, Ticks, TickRow, wireBulk
<1>2. UNCHANGED <<modal, bulk, history>> /\ keys' = keys
  BY DEF TickRow, wireBulk, modal
<1> QED BY <1>1, <1>2, ModalFrame, BulkFrame, HistoryFrame DEF Inv

\* The bulk operations: a click asks for a confirmation, or starts at once.
LEMMA BulkClickInv == ASSUME Inv, Acted, BulkClick PROVE Inv'
<1>0. ModalInv /\ BulkInv /\ Ticks /\ keys \in Seq(Dlg) /\ Among(keys, keys) /\ acts \in Nat /\ Later
  BY AmongSelf DEF Inv, ModalInv, KeysInv, Acted, Later
<1>1. HistoryInv' /\ Ticks'
  BY HistoryFrame, TicksFrame DEF Inv, BulkClick
<1>2. CASE Draws(Dialog("confirm", sel), keys) /\ wiped' = Covered /\ UNCHANGED bulk
  <2> DEFINE d == Dialog("confirm", sel)
  <2>1. d \in Dlg /\ d.n = acts /\ d.kind = "confirm"
    BY <1>0, DialogTyped DEF Ticks, Kinds
  <2>2. root' = d /\ keys' = Append(keys, d) /\ wiped' = Covered /\ UNCHANGED <<nd, reqs>>
    BY <1>2 DEF BulkClick, Draws
  <2>3. Draws(d, keys)
    BY <1>2
  <2> HIDE DEF d
  <2>4. ModalInv'
    BY <1>0, <2>1, <2>2, OpenKeeps
  <2>5. BulkInv'
    BY <1>0, <1>2, <2>1, <2>3, AppendKeys, BulkDraws
  <2> QED BY <1>1, <2>4, <2>5 DEF Inv
<1>3. CASE bulk' = bulk \cup {runBulk(Dialog("none", sel))} /\ UNCHANGED <<root, keys, wiped>>
  <2>1. ModalInv'
    BY <1>0, <1>3, ModalFrame DEF BulkClick, modal
  <2> DEFINE x == runBulk(Dialog("none", sel))
  <2>2. DOMAIN x = {"todo", "n"} /\ x.todo \subseteq Rows /\ x.n = acts
    <3>1. Dialog("none", sel).n = acts
      BY DEF Dialog
    <3> QED BY <1>0, <3>1, runBulkFacts DEF Ticks
  <2>3. bulk' = bulk \cup {x}
    BY <1>3
  <2> HIDE DEF x
  <2>4. \A i \in 1 .. Len(keys) : keys[i].n < acts /\ keys[i].n \in Nat
    <3>1. \A i \in 1 .. Len(keys) : keys[i] \in Dlg
      BY <1>0
    <3> QED BY <1>0, <3>1 DEF ModalInv, ReqInv, Dlg
  <2>5. \A b \in bulk : b.n \in Nat /\ b.n < acts
    BY <1>0 DEF BulkInv, BulkShape
  <2>6. BulkShape'
    <3>1. \A b \in bulk' : b.n \in Nat /\ b.n < acts'
      BY <1>0, <2>2, <2>3, <2>5 DEF Acted
    <3> QED BY <1>0, <2>2, <2>3, <3>1 DEF BulkInv, BulkShape
  <2>7. Fresh'
    BY <1>0, <1>3, <2>2, <2>3, <2>4 DEF BulkInv, Fresh
  <2>8. Single'
    BY <1>0, <2>2, <2>3, <2>5 DEF BulkInv, Single
  <2> QED BY <1>0, <1>1, <1>3, <2>1, <2>6, <2>7, <2>8 DEF Inv, BulkInv, Distinct
<1> QED BY <1>2, <1>3 DEF BulkClick
LEMMA BulkOperationsInv ==
    ASSUME Inv, Later, NEW b \in bulk, BulkCall(b) \/ BulkEnd(b)
    PROVE  Inv'
<1>0. keys' = keys /\ acts \in Nat
  BY DEF Inv, ModalInv, KeysInv, BulkCall, BulkEnd, modal
<1>1. HistoryInv' /\ ModalInv' /\ Ticks'
  BY HistoryFrame, ModalFrame DEF Inv, Ticks, BulkCall, BulkEnd
<1>2. \A c \in bulk : c.n \in Nat /\ c.n < acts'
  BY <1>0 DEF Inv, BulkInv, BulkShape, Later
<1>3. CASE BulkCall(b)
  <2>1. PICK id \in b.todo : bulk' = (bulk \ {b}) \cup {[b EXCEPT !.todo = @ \ {id}]}
    BY <1>3 DEF BulkCall
  <2> DEFINE x == [b EXCEPT !.todo = @ \ {id}]
  <2>2. DOMAIN b = {"todo", "n"} /\ b.todo \subseteq Rows
    BY DEF Inv, BulkInv, BulkShape
  <2>3. DOMAIN x = {"todo", "n"} /\ x.todo \subseteq Rows /\ x.n = b.n
    BY <2>2
  <2>4. bulk' = (bulk \ {b}) \cup {x}
    BY <2>1
  <2> HIDE DEF x
  <2>5. BulkShape'
    BY <1>2, <2>3, <2>4 DEF Inv, BulkInv, BulkShape
  <2>6. Fresh' /\ Single'
    BY <1>0, <2>3, <2>4 DEF Inv, BulkInv, Fresh, Single
  <2> QED BY <1>0, <1>1, <2>5, <2>6 DEF Inv, BulkInv, Distinct
<1>4. CASE BulkEnd(b)
  <2>1. bulk' \subseteq bulk
    BY <1>4 DEF BulkEnd
  <2>2. BulkShape'
    BY <1>2, <2>1 DEF Inv, BulkInv, BulkShape
  <2> QED BY <1>0, <1>1, <2>1, <2>2 DEF Inv, BulkInv, Fresh, Single, Distinct
<1> QED BY <1>3, <1>4

\* The run history: a fetch takes a new number and asks for the filter of
\* the moment, and a new chip fetches at once.
LEMMA FetchInv ==
    ASSUME HistoryInv, NEW by, Fetch(by, filter'), filter' \in Filters,
           UNCHANGED <<runs, polling>>
    PROVE  HistoryInv'
BY DEF HistoryInv, Fetch
LEMMA RunHistoryInv ==
    ASSUME Inv, Later,
           \/ refreshDagRuns \/ PollTick \/ \E f \in Filters : FilterChip(f)
           \/ \E a \in asks : RunsAnswer(a) \/ RunsFail(a)
    PROVE  Inv'
<1>0. UNCHANGED <<modal, sel, bulk>> /\ keys' = keys
  BY DEF refreshDagRuns, PollTick, FilterChip, RunsAnswer, RunsFail, modal
<1>1. BulkInv' /\ Ticks' /\ ModalInv'
  BY <1>0, BulkFrame, TicksFrame, ModalFrame DEF Inv
<1>2. CASE refreshDagRuns \/ PollTick
  BY <1>1, <1>2, FetchInv DEF Inv, HistoryInv, refreshDagRuns, PollTick
<1>3. ASSUME NEW f \in Filters, FilterChip(f) PROVE HistoryInv'
  BY <1>3, FetchInv DEF Inv, FilterChip
<1>4. ASSUME NEW a \in asks, RunsAnswer(a) \/ RunsFail(a) PROVE HistoryInv'
  <2>1. polling' \in BOOLEAN
    BY <1>4 DEF Inv, HistoryInv, RunsAnswer, RunsFail
  <2>2. asked' = asked /\ filter' = filter /\ runs' \in {runs, a.f} /\ asks' \subseteq asks
    BY <1>4 DEF RunsAnswer, RunsFail
  <2> QED BY <2>1, <2>2 DEF Inv, HistoryInv
<1> QED BY <1>1, <1>2, <1>3, <1>4 DEF Inv

\* Every step keeps all of it.
LEMMA NextInv ==
    ASSUME Inv, [Next]_vars
    PROVE  Inv'
<1>0. acts \in 0 .. MaxActs
  BY DEF Inv, ModalInv, KeysInv
<1>1. CASE UNCHANGED vars
  <2>1. Later /\ UNCHANGED <<modal, sel, bulk, history>> /\ keys' = keys
    BY <1>0, <1>1 DEF vars, modal, Later
  <2> QED BY <2>1, ModalFrame, BulkFrame, TicksFrame, HistoryFrame DEF Inv
<1>2. CASE (User \/ PollTick) /\ acts < MaxActs /\ acts' = acts + 1
  <2>1. Acted /\ Later
    BY <1>0, <1>2 DEF Acted, Later
  <2> QED BY <1>2, <2>1, UserDialogs, KeysConfirm, TicksInv, BulkClickInv, RunHistoryInv DEF User
<1>3. CASE Machine /\ UNCHANGED acts
  <2>1. Later
    BY <1>0, <1>3 DEF Later
  <2> QED BY <1>3, <2>1, Answers, BulkOperationsInv, RunHistoryInv DEF Machine
<1> QED BY <1>1, <1>2, <1>3 DEF Next

\* What the inductive invariant says of the types.
LEMMA InvTypes == ASSUME Inv PROVE TypeOK
<1>1. root = NoDialog \/ root.kind \in Kinds
  BY DEF Inv, ModalInv, KeysInv, Shown, Dlg
<1>2. \A i \in DOMAIN keys : keys[i].kind \in Kinds /\ keys[i].ids \subseteq Rows
  <2>1. \A i \in DOMAIN keys : keys[i] \in Dlg
    BY DEF Inv, ModalInv, KeysInv
  <2> QED BY <2>1 DEF Dlg
<1>3. nd \in [adv : BOOLEAN, pop : BOOLEAN, valid : BOOLEAN, disabled : BOOLEAN, drawn : 0 .. MaxActs]
  BY DEF Inv, ModalInv, KeysInv, Fields
<1>4. \A r \in reqs : r.what \in {"form", "mint", "reveal", "list", "create"}
  BY DEF Inv, ModalInv, ReqInv, Req
<1>5. /\ sel \subseteq Rows /\ \A b \in bulk : b.todo \subseteq Rows
      /\ {filter, runs} \subseteq Filters /\ polling \in BOOLEAN
      /\ \A a \in asks : a.f \in Filters /\ a.n \in 1 .. asked
      /\ acts \in 0 .. MaxActs
  BY DEF Inv, ModalInv, KeysInv, BulkInv, BulkShape, Ticks, HistoryInv
<1> QED BY <1>1, <1>2, <1>3, <1>4, <1>5 DEF TypeOK
-----------------------------------------------------------------------------
\* What the inductive invariant says of the dialogs.
LEMMA InvDialogs == ASSUME Inv PROVE Answerable /\ StrayKeys /\ ConfirmedOnce
<1>1. KeysInv /\ BulkInv /\ StrayKeys /\ DOMAIN keys = 1 .. Len(keys)
  BY DEF Inv, ModalInv, KeysInv
<1>2. Answerable
  BY <1>1 DEF Answerable, KeysInv, Listens, ToSet
<1>3. ASSUME NEW b \in bulk, root.kind = "confirm" PROVE root.n # b.n
  <2>1. PICK i \in 1 .. Len(keys) : keys[i] = root
    BY <1>1, <1>3, NoDialogKind DEF KeysInv, Listens
  <2> QED BY <1>1, <1>3, <2>1 DEF BulkInv, Fresh
<1>4. ConfirmedOnce
  BY <1>1, <1>3 DEF ConfirmedOnce, BulkInv, Fresh, Single
<1> QED BY <1>1, <1>2, <1>4

\* Whatever dialogs are drawn over one another, answered and pressed in
\* whatever order, the one on the screen can be closed by Escape, one the user
\* closed hears no key again, and a confirmation starts one bulk operation
\* (close, onKey, runBulk).
THEOREM DialogsKeepTheirKeys == Spec => []DialogInv
<1>1. Init => Inv
  BY InitInv
<1>2. Inv /\ [Next]_vars => Inv'
  BY NextInv
<1>3. Inv => DialogInv
  BY InvTypes, InvDialogs DEF DialogInv
<1> QED BY <1>1, <1>2, <1>3, PTL DEF Spec

\* Enter creates one DAG at most, however many listeners of the new DAG modal
\* hear it: the first that submits disables the button for all (submitNewDag).
THEOREM EnterCreatesOne == Spec => OneSubmit
<1>1. Init => Inv
  BY InitInv
<1>2. Inv /\ [Next]_vars => Inv'
  BY NextInv
<1>3. ASSUME Inv, KeyEnter
      PROVE  Cardinality({r \in reqs' \ reqs : r.what = "create"}) <= 1
  <2> DEFINE t == Press(onEnter)
             C == {r \in reqs' \ reqs : r.what = "create"}
             one == [what |-> "create", dlg |-> root, n |-> acts, c |-> 1]
  <2>1. t.sent \in {0, 1}
    BY <1>3, EnterFacts DEF Inv, ModalInv
  <2>2. reqs' = reqs \cup {[what |-> "create", dlg |-> root, n |-> acts, c |-> i] : i \in 1 .. t.sent}
    BY <1>3 DEF KeyEnter, Shows
  <2> HIDE DEF t
  <2>3. \A i \in 1 .. t.sent : i = 1
    BY <2>1
  <2>4. C \subseteq {one}
    BY <2>2, <2>3
  <2> HIDE DEF one, C
  <2>5. IsFiniteSet({one}) /\ Cardinality({one}) = 1
    BY FS_Singleton
  <2>6. IsFiniteSet(C) /\ Cardinality(C) <= Cardinality({one})
    BY <2>4, <2>5, FS_Subset
  <2> QED BY <2>5, <2>6 DEF C
<1>4. Inv => (KeyEnter => Cardinality({r \in reqs' \ reqs : r.what = "create"}) <= 1)
  BY <1>3
<1> QED BY <1>1, <1>2, <1>4, PTL DEF Spec, OneSubmit

\* The newest list asked for, by a chip, a refresh or the poll, is one of
\* the chip on the screen: the poll carries the filter, and an older answer
\* is the only one that can be of another (refreshDagRuns, startDagRunsPoll).
THEOREM NewestCarriesFilter == Spec => NewestFiltered
<1>1. Init => Inv
  BY InitInv
<1>2. Inv /\ [Next]_vars => Inv'
  BY NextInv
<1>3. Inv => \A a \in asks : RunsAnswer(a) /\ a.n = asked => runs' = filter
  BY DEF Inv, HistoryInv, RunsAnswer
<1> QED BY <1>1, <1>2, <1>3, PTL DEF Spec, NewestFiltered
=============================================================================
