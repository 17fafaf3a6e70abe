----------------------------- MODULE TextProofs -----------------------------
(***************************************************************************)
(* Proofs about the functions of StringUtils and what PullPlan makes of    *)
(* them, for texts of any length: trim, split and join, the edit distance  *)
(* and the hint.  They begin with what all proofs about sequences rest on: *)
(* induction over a set, and the equations of a fold.                      *)
(***************************************************************************)
EXTENDS MCInputs, TLAPS, WellFoundedInduction, SequenceTheorems, FiniteSetTheorems

-----------------------------------------------------------------------------
(* Induction and folds                                                     *)

\* A set of numbers has a least element, and if it is bounded a greatest one.
LEMMA MinOfNat ==
    ASSUME NEW P, P \subseteq Nat, P # {}
    PROVE  Min(P) \in P /\ \A n \in P : Min(P) <= n
<1> DEFINE Less == {p \in Nat \X Nat : p[1] < p[2]}
<1>1. IsWellFoundedOn(Less, Nat)
      BY NatLessThanWellFounded, Zenon DEF OpToRel
<1>2. PICK m \in P : \A n \in P : <<n, m>> \notin Less
  <2> HIDE DEF Less
  <2> QED BY <1>1, WFMin
<1>3. ASSUME NEW n \in P PROVE m <= n
  <2>1. n \in Nat /\ m \in Nat
        OBVIOUS
  <2>2. n < m => <<n, m>> \in Less
        BY <2>1
  <2> QED BY <1>2, <2>1, <2>2
<1> QED BY <1>3 DEF Min

\* A bounded set of numbers has a greatest element.
LEMMA MaxOfNat ==
    ASSUME NEW P, NEW b \in Nat, P \subseteq 0 .. b, P # {}
    PROVE  Max(P) \in P /\ \A n \in P : Max(P) >= n
<1> DEFINE Q == {b - n : n \in P}
<1>1. PICK m \in P : \A n \in P : b - m <= b - n
  <2>1. Q \subseteq Nat /\ Q # {}
    <3>1. \A n \in P : b - n \in Nat
          OBVIOUS
    <3> QED BY <3>1
  <2>2. Min(Q) \in Q /\ \A n \in Q : Min(Q) <= n
    <3> HIDE DEF Q
    <3> QED BY <2>1, MinOfNat
  <2> QED BY <2>2
<1>2. \A n \in P : m >= n
      BY <1>1
<1> QED BY <1>2 DEF Max

\* Induction up to n, over a set instead of a predicate.
LEMMA InductionTo ==
    ASSUME NEW n \in Nat, NEW T, 0 \in T, \A k \in 1 .. n : k - 1 \in T => k \in T
    PROVE  \A k \in 0 .. n : k \in T
<1> DEFINE P == (0 .. n) \ T
<1>1. SUFFICES ASSUME P # {} PROVE FALSE
      OBVIOUS
<1>2. Min(P) \in P /\ \A k \in P : Min(P) <= k
  <2>1. P \subseteq Nat
        OBVIOUS
  <2> HIDE DEF P
  <2> QED BY <1>1, <2>1, MinOfNat
<1> DEFINE m == Min(P)
<1> HIDE DEF m
<1>3. m \in 0 .. n /\ m \notin T /\ \A k \in 0 .. n : k \notin T => m <= k
      BY <1>2 DEF m
<1>4. m - 1 \in 0 .. n /\ m - 1 \notin T
      BY <1>3
<1> QED BY <1>3, <1>4

\* g is the function over sets of positions that a fold from the left over
\* the first n elements of s is defined with.
IsFold(g, D, b, step, s, n) ==
    /\ g \in [SUBSET (1 .. n) -> D]
    /\ \A t \in SUBSET (1 .. n) :
          g[t] = IF t = {} THEN b ELSE step[g[t \ {Max(t)}]][s[Max(t)]]

\* The step from m - 1 to m in the construction of the next lemma.
LEMMA FoldExtends ==
    ASSUME NEW D, NEW E, NEW b \in D, NEW step \in [D -> [E -> D]],
           NEW s, NEW m \in Nat, NEW l \in Nat, m = l + 1, s[m] \in E,
           NEW h, IsFold(h, D, b, step, s, l), NEW g,
           g = [t \in SUBSET (1 .. m) |-> IF m \in t THEN step[h[t \ {m}]][s[m]] ELSE h[t]]
    PROVE  IsFold(g, D, b, step, s, m)
<1>0. ASSUME NEW i \in 1 .. m, i # m PROVE i \in 1 .. l
  <2>1. i \in Int /\ 1 <= i /\ i <= l
        BY <1>0
  <2> QED BY <2>1
<1>1. \A t \in SUBSET (1 .. m) : t \ {m} \in SUBSET (1 .. l)
      BY <1>0
<1>2. \A t \in SUBSET (1 .. m) : m \notin t => t \in SUBSET (1 .. l)
      BY <1>0
<1>3. g \in [SUBSET (1 .. m) -> D]
      BY <1>1, <1>2 DEF IsFold
<1>4. ASSUME NEW t \in SUBSET (1 .. m)
      PROVE  g[t] = IF t = {} THEN b ELSE step[g[t \ {Max(t)}]][s[Max(t)]]
  <2>1. CASE t = {}
        BY <1>2, <2>1 DEF IsFold
  <2>2. CASE t # {}
    <3>1. Max(t) \in t /\ \A i \in t : Max(t) >= i
      <4>1. t \subseteq 0 .. m
            OBVIOUS
      <4> QED BY <2>2, <4>1, MaxOfNat
    <3> DEFINE x == Max(t)
    <3> HIDE DEF x
    <3>2. x \in t /\ x \in 1 .. m /\ \A i \in t : x >= i
          BY <3>1 DEF x
    <3>3. CASE m \in t
      <4>1. x = m
        <5>1. x >= m
              BY <3>2, <3>3
        <5>2. x \in Nat /\ x <= m
              BY <3>2
        <5> QED BY <5>1, <5>2
      <4>2. g[t \ {m}] = h[t \ {m}]
            BY <1>1
      <4> QED BY <3>3, <4>1, <4>2 DEF x
    <3>4. CASE m \notin t
      <4>1. t \in SUBSET (1 .. l) /\ g[t] = h[t]
            BY <1>2, <3>4
      <4>2. g[t \ {x}] = h[t \ {x}]
            BY <3>4
      <4> QED BY <2>2, <4>1, <4>2 DEF x, IsFold
    <3> QED BY <3>3, <3>4
  <2> QED BY <2>1, <2>2
<1> QED BY <1>3, <1>4 DEF IsFold

\* The function over sets of positions that FoldLeft is defined with exists,
\* for a step that stays inside of a set D.
LEMMA FoldExists ==
    ASSUME NEW D, NEW E, NEW b \in D, NEW step \in [D -> [E -> D]],
           NEW n \in Nat, NEW s \in [1 .. n -> E]
    PROVE  \E g : IsFold(g, D, b, step, s, n)
<1> DEFINE Has(m) == \E g : IsFold(g, D, b, step, s, m)
           T == {m \in 0 .. n : Has(m)}
<1>1. Has(0)
  <2> DEFINE g == [t \in SUBSET (1 .. 0) |-> b]
  <2>1. g \in [SUBSET (1 .. 0) -> D]
        OBVIOUS
  <2>2. IsFold(g, D, b, step, s, 0)
        BY <2>1 DEF IsFold
  <2> HIDE DEF g
  <2> QED BY <2>2
<1>2. ASSUME NEW m \in 1 .. n, Has(m - 1) PROVE Has(m)
  <2> DEFINE l == m - 1
  <2>1. PICK h : IsFold(h, D, b, step, s, l)
        BY <1>2
  <2>2. m \in Nat /\ l \in Nat /\ m = l + 1 /\ s[m] \in E
        OBVIOUS
  <2> HIDE DEF l
  <2> DEFINE g == [t \in SUBSET (1 .. m) |-> IF m \in t THEN step[h[t \ {m}]][s[m]] ELSE h[t]]
  <2>3. IsFold(g, D, b, step, s, m)
        BY <2>1, <2>2, FoldExtends
  <2> QED BY <2>3
<1>3. Has(n)
  <2> HIDE DEF Has
  <2>1. 0 \in T
        BY <1>1
  <2>2. ASSUME NEW k \in 1 .. n, k - 1 \in T PROVE k \in T
        BY <1>2, <2>2
  <2> HIDE DEF T
  <2>3. \A k \in 0 .. n : k \in T
        BY <2>1, <2>2, InductionTo
  <2> QED BY <2>3 DEF T
<1> QED BY <1>3

\* The greatest of some positions is a position.
LEMMA MaxInside ==
    ASSUME NEW n \in Nat, NEW t \in SUBSET (1 .. n), t # {}
    PROVE  Max(t) \in 1 .. n
<1>1. t \subseteq 0 .. n
      OBVIOUS
<1> QED BY <1>1, MaxOfNat

\* The set 1 .. k as its argument.
LEMMA UpToMax ==
    ASSUME NEW k \in Nat, k > 0
    PROVE  1 .. k # {} /\ Max(1 .. k) = k /\ (1 .. k) \ {k} = 1 .. k - 1
<1>1. 1 .. k \subseteq 0 .. k /\ 1 .. k # {}
      OBVIOUS
<1>2. Max(1 .. k) \in 1 .. k /\ \A n \in 1 .. k : Max(1 .. k) >= n
      BY <1>1, MaxOfNat
<1> QED BY <1>1, <1>2

\* c is such a function, at least as long as it has values in D.
Follows(c, D, E, b, step, s, n) ==
    \A t \in SUBSET (1 .. n) :
        /\ t = {} => c[t] = b
        /\ t # {} /\ c[t \ {Max(t)}] \in D /\ s[Max(t)] \in E =>
              c[t] = step[c[t \ {Max(t)}]][s[Max(t)]]

\* F has the values after 0, 1, ... n elements.
IsRun(F, D, b, step, s, n) ==
    /\ F \in [0 .. n -> D]
    /\ F[0] = b
    /\ \A k \in 1 .. n : F[k] = step[F[k - 1]][s[k]]

\* A fold as a run: its values after 0, 1, ... elements, from the function c
\* over sets of positions.
LEMMA FoldRuns ==
    ASSUME NEW D, NEW E, NEW b \in D, NEW step \in [D -> [E -> D]],
           NEW n \in Nat, NEW s \in [1 .. n -> E], NEW c, Follows(c, D, E, b, step, s, n),
           NEW F, F = [k \in 0 .. n |-> c[1 .. k]]
    PROVE  IsRun(F, D, b, step, s, n)
<1> DEFINE In(k) == F[k] \in D
           Goes(k) == F[k] = step[F[k - 1]][s[k]]
           T == {k \in 0 .. n : In(k)}
<1>1. F[0] = b /\ F[n] = c[1 .. n]
  <2>1. 1 .. 0 = {} /\ 0 \in 0 .. n /\ n \in 0 .. n
        OBVIOUS
  <2>2. c[{}] = b
        BY DEF Follows
  <2> QED BY <2>1, <2>2
<1>2. ASSUME NEW k \in 1 .. n, In(k - 1)
      PROVE  Goes(k) /\ In(k)
  <2>1. k \in Nat /\ k > 0 /\ 1 .. k \in SUBSET (1 .. n)
        OBVIOUS
  <2>2. 1 .. k # {} /\ Max(1 .. k) = k /\ (1 .. k) \ {k} = 1 .. k - 1
        BY <2>1, UpToMax
  <2>3. F[k] = c[1 .. k] /\ F[k - 1] = c[1 .. k - 1]
        OBVIOUS
  <2>4. F[k] = step[F[k - 1]][s[k]]
        BY <1>2, <2>1, <2>2, <2>3 DEF Follows
  <2> QED BY <1>2, <2>4
<1>3. In(0)
      BY <1>1
<1> HIDE DEF In, Goes
<1>4. \A k \in 0 .. n : In(k)
  <2>1. 0 \in T
        BY <1>3
  <2>2. ASSUME NEW k \in 1 .. n, k - 1 \in T PROVE k \in T
        BY <1>2, <2>2
  <2> HIDE DEF T
  <2>3. \A k \in 0 .. n : k \in T
        BY <2>1, <2>2, InductionTo
  <2> QED BY <2>3 DEF T
<1>5. \A k \in 1 .. n : Goes(k)
      BY <1>2, <1>4
<1>6. F \in [0 .. n -> D]
      BY <1>4 DEF In
<1> QED BY <1>1, <1>5, <1>6 DEF IsRun, Goes

\* s and u have the same first n elements.
Alike(s, u, n) == \A i \in 1 .. n : s[i] = u[i]

\* Two runs over sequences that begin alike have the same values.
LEMMA RunsAgree ==
    ASSUME NEW D, NEW b, NEW step, NEW n \in Nat, NEW m \in Nat, n <= m,
           NEW s, NEW u, Alike(s, u, n),
           NEW F, IsRun(F, D, b, step, s, n), NEW G, IsRun(G, D, b, step, u, m)
    PROVE  F[n] = G[n]
<1> DEFINE T == {k \in 0 .. n : F[k] = G[k]}
<1>1. 0 \in T
      BY DEF IsRun
<1>2. ASSUME NEW k \in 1 .. n, k - 1 \in T PROVE k \in T
  <2>1. k \in 1 .. m /\ k \in 0 .. n
        OBVIOUS
  <2>2. F[k] = step[F[k - 1]][s[k]] /\ G[k] = step[G[k - 1]][u[k]]
        BY <2>1 DEF IsRun
  <2> QED BY <1>2, <2>1, <2>2 DEF Alike
<1> HIDE DEF T
<1>3. \A k \in 0 .. n : k \in T
      BY <1>1, <1>2, InductionTo
<1> QED BY <1>3 DEF T

\* u is s, which has n elements, with x as element m behind it.
Longer(u, m, s, n, x) == u = Append(s, x) /\ n = Len(s) /\ m = n + 1

\* One more element: what a fold over Append(s, x) has to do with one over s.
LEMMA FoldStep ==
    ASSUME NEW D, NEW E, NEW b \in D, NEW step \in [D -> [E -> D]],
           NEW s \in Seq(E), NEW x \in E, NEW u, NEW n, NEW m, Longer(u, m, s, n, x),
           NEW c, Follows(c, D, E, b, step, s, n),
           NEW d, Follows(d, D, E, b, step, u, m)
    PROVE  c[1 .. n] \in D /\ d[1 .. m] = step[c[1 .. n]][x]
<1> DEFINE F == [k \in 0 .. n |-> c[1 .. k]]
           G == [k \in 0 .. m |-> d[1 .. k]]
<1>0. u = Append(s, x) /\ n = Len(s) /\ m = n + 1
      BY DEF Longer
<1>1. n \in Nat /\ m \in Nat /\ n <= m /\ m > 0
      BY <1>0
<1>2. s \in [1 .. n -> E] /\ u \in [1 .. m -> E] /\ u[m] = x
  <2>1. u \in Seq(E) /\ Len(u) = m /\ u[m] = x
        BY <1>0
  <2>2. s \in [1 .. Len(s) -> E] /\ u \in [1 .. Len(u) -> E]
        BY <2>1
  <2> QED BY <1>0, <2>1, <2>2
<1>3. Alike(s, u, n)
      BY <1>0 DEF Alike
<1>4. F[n] = c[1 .. n] /\ G[m] = d[1 .. m]
      BY <1>1
<1>5. IsRun(F, D, b, step, s, n) /\ IsRun(G, D, b, step, u, m)
      BY <1>1, <1>2, FoldRuns
<1>6. SUFFICES F[n] \in D /\ G[m] = step[F[n]][x]
      BY <1>4
<1> HIDE DEF F, G
<1>7. F[n] = G[n]
      BY <1>1, <1>3, <1>5, RunsAgree
<1>8. G[m] = step[G[n]][u[m]]
  <2>1. m \in 1 .. m /\ m - 1 = n
        BY <1>0, <1>1
  <2> QED BY <1>5, <2>1 DEF IsRun
<1>9. F[n] \in D
      BY <1>1, <1>5 DEF IsRun
<1> QED BY <1>2, <1>7, <1>8, <1>9

\* The fold of no element.
LEMMA FoldNone ==
    ASSUME NEW D, NEW E, NEW b, NEW step, NEW s, NEW c, Follows(c, D, E, b, step, s, 0)
    PROVE  c[1 .. 0] = b
<1>1. 1 .. 0 = {}
      OBVIOUS
<1> QED BY <1>1 DEF Follows

\* Induction over the elements of a sequence, over a set instead of a predicate.
LEMMA SeqInduction ==
    ASSUME NEW E, NEW T, <<>> \in T,
           \A s \in Seq(E), x \in E : s \in T => Append(s, x) \in T
    PROVE  \A s \in Seq(E) : s \in T
<1> DEFINE Upto(n) == \A s \in Seq(E) : Len(s) = n => s \in T
<1>1. Upto(0)
      OBVIOUS
<1>2. ASSUME NEW n \in Nat, Upto(n) PROVE Upto(n + 1)
  <2> SUFFICES ASSUME NEW s \in Seq(E), Len(s) = n + 1 PROVE s \in T
      OBVIOUS
  <2> DEFINE f == SubSeq(s, 1, n)
  <2>1. f \in Seq(E) /\ Len(f) = n /\ s[n + 1] \in E
        OBVIOUS
  <2>2. s = Append(f, s[n + 1])
        OBVIOUS
  <2> HIDE DEF f
  <2> QED BY <1>2, <2>1, <2>2
<1>3. ASSUME NEW n \in Nat PROVE Upto(n)
  <2> HIDE DEF Upto
  <2> DEFINE U == {k \in 0 .. n : Upto(k)}
  <2>1. 0 \in U
        BY <1>1
  <2>2. ASSUME NEW k \in 1 .. n, k - 1 \in U PROVE k \in U
    <3>1. Upto(k - 1 + 1)
          BY <1>2, <2>2
    <3> QED BY <3>1
  <2> HIDE DEF U
  <2>3. \A k \in 0 .. n : k \in U
        BY <2>1, <2>2, InductionTo
  <2> QED BY <2>3 DEF U
<1> QED BY <1>3

\* The elements of a sequence with one more, and of the empty one.
LEMMA ToSetAppend ==
    ASSUME NEW S, NEW s \in Seq(S), NEW x
    PROVE  ToSet(Append(s, x)) = ToSet(s) \cup {x}
<1>1. /\ DOMAIN Append(s, x) = 1 .. Len(s) + 1 /\ DOMAIN s = 1 .. Len(s) /\ Len(s) \in Nat
      /\ \A i \in 1 .. Len(s) : Append(s, x)[i] = s[i]
      /\ Append(s, x)[Len(s) + 1] = x
      OBVIOUS
<1>2. 1 .. Len(s) + 1 = (1 .. Len(s)) \cup {Len(s) + 1}
      BY <1>1
<1> HIDE <1>1
<1> DEFINE u == Append(s, x)
           n == Len(s)
<1> HIDE DEF u, n
<1>3. {u[i] : i \in (1 .. n) \cup {n + 1}} = {s[i] : i \in 1 .. n} \cup {x}
      BY <1>1 DEF u, n
<1> QED BY <1>1, <1>2, <1>3 DEF ToSet, u, n

\* The empty sequence has no elements.
LEMMA ToSetEmpty == ToSet(<<>>) = {}
BY DEF ToSet

\* An element of a sequence.
LEMMA ElementOf ==
    ASSUME NEW S, NEW s \in Seq(S), NEW n \in DOMAIN s
    PROVE  s[n] \in S
<1>1. s \in [1 .. Len(s) -> S]
      OBVIOUS
<1> QED BY <1>1

\* A function without arguments.
LEMMA NoAttributes == ASSUME NEW V PROVE <<>> \in [{} -> V]
<1>1. <<>> \in [1 .. 0 -> V] /\ 1 .. 0 = {}
      OBVIOUS
<1> QED BY <1>1

\* The names of columns, members or sections.
NamesOf(E) == {l.name : l \in E}

-----------------------------------------------------------------------------
(* trim                                                                    *)

\* find_first_not_of and find_last_not_of.
LEMMA FirstIsFirst ==
    ASSUME NEW s, NEW S, s \in Seq(S), NEW C
    PROVE  LET f == FirstNotOf(s, C)
           IN  \/ f = 0 /\ \A i \in DOMAIN s : s[i] \in C
               \/ f \in 1 .. Len(s) /\ s[f] \notin C /\ \A i \in 1 .. f - 1 : s[i] \in C
<1> DEFINE P == {n \in DOMAIN s : s[n] \notin C}
<1>1. P \subseteq 1 .. Len(s)
      OBVIOUS
<1> DEFINE r == FirstNotOf(s, C)
<1>2. r = IF P = {} THEN 0 ELSE Min(P)
      BY DEF FirstNotOf, npos
<1> HIDE DEF r
<1>3. CASE P = {}
  <2>1. r = 0 /\ \A i \in DOMAIN s : s[i] \in C
        BY <1>3, <1>2
  <2> QED BY <2>1 DEF r
<1>4. CASE P # {}
  <2>1. Min(P) \in P /\ \A n \in P : Min(P) <= n
    <3>1. P \subseteq Nat
          BY <1>1
    <3> HIDE DEF P
    <3> QED BY <1>4, <3>1, MinOfNat
  <2>2. r = Min(P)
        BY <1>4, <1>2
  <2>3. r \in 1 .. Len(s) /\ s[r] \notin C
        BY <1>1, <2>1, <2>2
  <2>4. \A i \in 1 .. Len(s) : s[i] \notin C => r <= i
        BY <2>1, <2>2
  <2> QED BY <2>3, <2>4 DEF r
<1> QED BY <1>3, <1>4

\* find_last_not_of.
LEMMA LastIsLast ==
    ASSUME NEW s, NEW S, s \in Seq(S), NEW C
    PROVE  LET l == LastNotOf(s, C)
           IN  \/ l = 0 /\ \A i \in DOMAIN s : s[i] \in C
               \/ l \in 1 .. Len(s) /\ s[l] \notin C /\ \A i \in l + 1 .. Len(s) : s[i] \in C
<1> DEFINE P == {n \in DOMAIN s : s[n] \notin C}
<1>1. P \subseteq 0 .. Len(s)
      OBVIOUS
<1> DEFINE r == LastNotOf(s, C)
<1>2. r = IF P = {} THEN 0 ELSE Max(P)
      BY DEF LastNotOf, npos
<1> HIDE DEF r
<1>3. CASE P = {}
  <2>1. r = 0 /\ \A i \in DOMAIN s : s[i] \in C
        BY <1>3, <1>2
  <2> QED BY <2>1 DEF r
<1>4. CASE P # {}
  <2>1. Max(P) \in P /\ \A n \in P : Max(P) >= n
    <3>1. Len(s) \in Nat
          OBVIOUS
    <3> HIDE DEF P
    <3> QED BY <1>1, <1>4, <3>1, MaxOfNat
  <2>2. r = Max(P)
        BY <1>4, <1>2
  <2>3. r \in 1 .. Len(s) /\ s[r] \notin C
        BY <1>1, <2>1, <2>2
  <2>4. \A i \in 1 .. Len(s) : s[i] \notin C => r >= i
        BY <2>1, <2>2
  <2> QED BY <2>3, <2>4 DEF r
<1> QED BY <1>3, <1>4

\* Of a text that has nothing but characters to strip, trim strips none: it
\* does not remove all of the given characters, as stringutils.h says of it.
THEOREM TrimLeavesBlanks ==
    ASSUME NEW s, NEW S, s \in Seq(S), NEW C, ~ HasContent(s, C)
    PROVE  trim(s, C) = s
<1>1. FirstNotOf(s, C) = 0 /\ LastNotOf(s, C) = 0
      BY FirstIsFirst, LastIsLast DEF HasContent, ToSet
<1> QED BY <1>1 DEF trim, npos

\* Whatever the text and the characters to strip: if the text has another
\* character, then trim returns what is between the first and the last of those.
THEOREM TrimStrips ==
    ASSUME NEW s, NEW S, s \in Seq(S), NEW C, HasContent(s, C)
    PROVE  Stripped(trim(s, C), s, C)
<1> DEFINE f == FirstNotOf(s, C)
           l == LastNotOf(s, C)
           t == SubSeq(s, f, l)
<1>1. PICK k \in DOMAIN s : s[k] \notin C
      BY DEF HasContent, ToSet
<1>2. f \in 1 .. Len(s) /\ s[f] \notin C /\ \A i \in 1 .. f - 1 : s[i] \in C
      BY <1>1, FirstIsFirst
<1>3. l \in 1 .. Len(s) /\ s[l] \notin C /\ \A i \in l + 1 .. Len(s) : s[i] \in C
      BY <1>1, LastIsLast
<1>4. trim(s, C) = t
      BY <1>2, <1>3 DEF trim, npos
<1> HIDE DEF f, l
<1>5. f <= l
      BY <1>2, <1>3
<1>6. t \in Seq(S) /\ Len(t) = l - f + 1 /\ t[1] = s[f] /\ t[l - f + 1] = s[l]
      BY <1>2, <1>3, <1>5
<1>7. t # <<>> /\ Head(t) = s[f] /\ Last(t) = s[l]
      BY <1>2, <1>3, <1>5, <1>6 DEF Last
<1>8. SubSeq(s, (f - 1) + 1, (f - 1) + Len(t)) = t
  <2>1. (f - 1) + 1 = f /\ (f - 1) + Len(t) = l
        BY <1>2, <1>3, <1>6
  <2> QED BY <2>1
<1>9. ToSet(SubSeq(s, 1, f - 1) \o SubSeq(s, (f - 1) + Len(t) + 1, Len(s))) \subseteq C
  <2> DEFINE a == SubSeq(s, 1, f - 1)
             b == SubSeq(s, l + 1, Len(s))
  <2>1. a \in Seq(S) /\ Len(a) = f - 1 /\ \A i \in 1 .. f - 1 : a[i] \in C
        BY <1>2
  <2>2. b \in Seq(S) /\ Len(b) = Len(s) - l /\ \A i \in 1 .. Len(s) - l : b[i] \in C
        BY <1>3
  <2>3. (f - 1) + Len(t) + 1 = l + 1
        BY <1>2, <1>3, <1>6
  <2> HIDE DEF a, b
  <2>4. \A i \in DOMAIN (a \o b) : (a \o b)[i] \in C
        BY <2>1, <2>2, <1>2, <1>3
  <2>5. ToSet(a \o b) \subseteq C
        BY <2>4 DEF ToSet
  <2> QED BY <2>3, <2>5 DEF a, b
<1>10. f - 1 \in 0 .. Len(s) - Len(t)
      BY <1>2, <1>3, <1>5, <1>6
<1>11. {Head(t), Last(t)} \cap C = {}
      BY <1>2, <1>3, <1>7
<1>12. \E n \in 0 .. Len(s) - Len(t) :
          /\ SubSeq(s, n + 1, n + Len(t)) = t
          /\ ToSet(SubSeq(s, 1, n) \o SubSeq(s, n + Len(t) + 1, Len(s))) \subseteq C
      BY <1>8, <1>9, <1>10
<1> QED BY <1>4, <1>7, <1>11, <1>12 DEF Stripped

\* A sequence, of whatever.
IsSeq(s) == \E S : s \in Seq(S)

\* A text of blanks only stays as it is.
LEMMA TrimKeepsSome ==
    ASSUME NEW t, IsSeq(t), NEW C
    PROVE  trim(t, C) = <<>> <=> t = <<>>
<1>1. PICK S : t \in Seq(S)
      BY DEF IsSeq
<1>2. CASE HasContent(t, C)
  <2>1. Stripped(trim(t, C), t, C)
        BY <1>1, <1>2, TrimStrips
  <2> QED BY <1>2, <2>1, ToSetEmpty DEF Stripped, HasContent
<1>3. CASE ~ HasContent(t, C)
      BY <1>1, <1>3, TrimLeavesBlanks
<1> QED BY <1>2, <1>3

-----------------------------------------------------------------------------
(* split and join                                                          *)

\* What split has read of a text.
SplitRead(s, separator) ==
    FoldLeft(LAMBDA r, c : IF c = separator
                           THEN [elements |-> Append(r.elements, r.beg), beg |-> <<>>]
                           ELSE [r EXCEPT !.beg = Append(@, c)],
             [elements |-> <<>>, beg |-> <<>>], s)
SplitStep(r, c, separator) ==
    IF c = separator THEN [elements |-> Append(r.elements, r.beg), beg |-> <<>>]
    ELSE [r EXCEPT !.beg = Append(@, c)]

\* split is what it has read, and the rest behind it.
LEMMA SplitReads ==
    ASSUME NEW s, NEW separator
    PROVE  split(s, separator) =
             Append(SplitRead(s, separator).elements, SplitRead(s, separator).beg)
BY Zenon DEF split, SplitRead

\* split reads the characters one by one.
LEMMA SplitFold ==
    ASSUME NEW separator, NEW E
    PROVE  /\ SplitRead(<<>>, separator) = [elements |-> <<>>, beg |-> <<>>]
           /\ \A s \in Seq(E), x \in E :
                 /\ SplitRead(s, separator) \in [elements : Seq(Seq(E)), beg : Seq(E)]
                 /\ SplitRead(Append(s, x), separator) =
                       SplitStep(SplitRead(s, separator), x, separator)
<1> DEFINE D == [elements : Seq(Seq(E)), beg : Seq(E)]
           b == [elements |-> <<>>, beg |-> <<>>]
           step == [p \in D |-> [l \in E |-> SplitStep(p, l, separator)]]
           Eq(g, s) == g = [t \in SUBSET (DOMAIN s) |->
                              IF t = {} THEN b
                              ELSE SplitStep(g[t \ {Max(t)}], s[Max(t)], separator)]
           c(s) == CHOOSE g : Eq(g, s)
<1>1. b \in D /\ step \in [D -> [E -> D]]
  <2>1. <<>> \in Seq(Seq(E)) /\ <<>> \in Seq(E)
        OBVIOUS
  <2>2. ASSUME NEW p \in D, NEW l \in E PROVE SplitStep(p, l, separator) \in D
    <3>1. Append(p.elements, p.beg) \in Seq(Seq(E)) /\ Append(p.beg, l) \in Seq(E)
          OBVIOUS
    <3> QED BY <2>1, <3>1 DEF SplitStep
  <2> QED BY <2>1, <2>2
<1>2. ASSUME NEW s PROVE SplitRead(s, separator) = c(s)[DOMAIN s]
      BY Zenon DEF SplitRead, SplitStep, FoldLeft, MapThenFoldSet
<1>3. ASSUME NEW s \in Seq(E) PROVE Follows(c(s), D, E, b, step, s, Len(s))
  <2> DEFINE n == Len(s)
  <2>1. n \in Nat /\ s \in [1 .. n -> E] /\ DOMAIN s = 1 .. n
        OBVIOUS
  <2> HIDE DEF b, n, step, D
  <2>2. PICK g : IsFold(g, D, b, step, s, n)
        BY <1>1, <2>1, FoldExists
  <2>3. ASSUME NEW t \in SUBSET (1 .. n), t # {}
        PROVE  s[Max(t)] \in E /\ g[t \ {Max(t)}] \in D
    <3>1. Max(t) \in 1 .. n
          BY <2>1, <2>3, MaxInside
    <3> QED BY <2>1, <2>2, <3>1 DEF IsFold
  <2>4. Eq(g, s)
        BY <2>1, <2>2, <2>3 DEF IsFold, step
  <2>5. Eq(c(s), s)
        BY <2>4
  <2> HIDE DEF c
  <2> QED BY <2>1, <2>5 DEF Follows, step, n
<1> HIDE DEF b, c, step, D
<1>4. SplitRead(<<>>, separator) = b
  <2>1. <<>> \in Seq(E) /\ Len(<<>>) = 0 /\ DOMAIN <<>> = 1 .. 0
        OBVIOUS
  <2> QED BY <1>2, <1>3, <2>1, FoldNone
<1>5. ASSUME NEW s \in Seq(E), NEW x \in E
      PROVE  /\ SplitRead(s, separator) \in D
             /\ SplitRead(Append(s, x), separator) =
                   SplitStep(SplitRead(s, separator), x, separator)
  <2> DEFINE u == Append(s, x)
             n == Len(s)
             m == n + 1
  <2>1. DOMAIN s = 1 .. n /\ DOMAIN u = 1 .. m /\ u \in Seq(E) /\ Len(u) = m
        OBVIOUS
  <2>2. Longer(u, m, s, n, x) /\ u = Append(s, x)
        BY DEF Longer
  <2> HIDE DEF u, n, m
  <2> DEFINE f == c(s)
             h == c(u)
  <2>3. Follows(f, D, E, b, step, s, n) /\ Follows(h, D, E, b, step, u, m)
        BY <1>3, <2>1, <2>2 DEF Longer
  <2> HIDE DEF f, h
  <2>4. f[1 .. n] \in D /\ h[1 .. m] = step[f[1 .. n]][x]
        BY <1>1, <2>2, <2>3, FoldStep
  <2>5. SplitRead(s, separator) \in D /\ SplitRead(u, separator) = step[SplitRead(s, separator)][x]
        BY <1>2, <2>1, <2>4 DEF f, h
  <2> QED BY <2>2, <2>5 DEF step
<1> QED BY <1>4, <1>5 DEF b, D

\* join from its first element on.
JoinFrom(first, elements, separator) ==
    FoldLeft(LAMBDA os, e : os \o separator \o e, first, elements)

Glued(s, separator, t) == s \o separator \o t

\* join begins with the first element.
LEMMA JoinReads ==
    ASSUME NEW es, NEW separator, es # <<>>
    PROVE  join(es, separator) = JoinFrom(Head(es), Tail(es), separator)
BY DEF join, JoinFrom

\* join adds the elements one by one.
LEMMA JoinFold ==
    ASSUME NEW C, NEW separator \in Seq(C), NEW first \in Seq(C), NEW E, E \subseteq Seq(C)
    PROVE  /\ JoinFrom(first, <<>>, separator) = first
           /\ \A s \in Seq(E), x \in E :
                 /\ JoinFrom(first, s, separator) \in Seq(C)
                 /\ JoinFrom(first, Append(s, x), separator) =
                       Glued(JoinFrom(first, s, separator), separator, x)
<1> DEFINE D == Seq(C)
           b == first
           step == [p \in D |-> [l \in E |-> Glued(p, separator, l)]]
           Eq(g, s) == g = [t \in SUBSET (DOMAIN s) |->
                              IF t = {} THEN b
                              ELSE Glued(g[t \ {Max(t)}], separator, s[Max(t)])]
           c(s) == CHOOSE g : Eq(g, s)
<1>1. b \in D /\ step \in [D -> [E -> D]]
      BY DEF Glued
<1>2. ASSUME NEW s PROVE JoinFrom(first, s, separator) = c(s)[DOMAIN s]
      BY Zenon DEF JoinFrom, Glued, FoldLeft, MapThenFoldSet
<1>3. ASSUME NEW s \in Seq(E) PROVE Follows(c(s), D, E, b, step, s, Len(s))
  <2> DEFINE n == Len(s)
  <2>1. n \in Nat /\ s \in [1 .. n -> E] /\ DOMAIN s = 1 .. n
        OBVIOUS
  <2> HIDE DEF b, n, step, D
  <2>2. PICK g : IsFold(g, D, b, step, s, n)
        BY <1>1, <2>1, FoldExists
  <2>3. ASSUME NEW t \in SUBSET (1 .. n), t # {}
        PROVE  s[Max(t)] \in E /\ g[t \ {Max(t)}] \in D
    <3>1. Max(t) \in 1 .. n
          BY <2>1, <2>3, MaxInside
    <3> QED BY <2>1, <2>2, <3>1 DEF IsFold
  <2>4. Eq(g, s)
        BY <2>1, <2>2, <2>3 DEF IsFold, step
  <2>5. Eq(c(s), s)
        BY <2>4
  <2> HIDE DEF c
  <2> QED BY <2>1, <2>5 DEF Follows, step, n
<1> HIDE DEF b, c, step, D
<1>4. JoinFrom(first, <<>>, separator) = b
  <2>1. <<>> \in Seq(E) /\ Len(<<>>) = 0 /\ DOMAIN <<>> = 1 .. 0
        OBVIOUS
  <2> QED BY <1>2, <1>3, <2>1, FoldNone
<1>5. ASSUME NEW s \in Seq(E), NEW x \in E
      PROVE  /\ JoinFrom(first, s, separator) \in D
             /\ JoinFrom(first, Append(s, x), separator) =
                   Glued(JoinFrom(first, s, separator), separator, x)
  <2> DEFINE u == Append(s, x)
             n == Len(s)
             m == n + 1
  <2>1. DOMAIN s = 1 .. n /\ DOMAIN u = 1 .. m /\ u \in Seq(E) /\ Len(u) = m
        OBVIOUS
  <2>2. Longer(u, m, s, n, x) /\ u = Append(s, x)
        BY DEF Longer
  <2> HIDE DEF u, n, m
  <2> DEFINE f == c(s)
             h == c(u)
  <2>3. Follows(f, D, E, b, step, s, n) /\ Follows(h, D, E, b, step, u, m)
        BY <1>3, <2>1, <2>2 DEF Longer
  <2> HIDE DEF f, h
  <2>4. f[1 .. n] \in D /\ h[1 .. m] = step[f[1 .. n]][x]
        BY <1>1, <2>2, <2>3, FoldStep
  <2>5. /\ JoinFrom(first, s, separator) \in D
        /\ JoinFrom(first, u, separator) = step[JoinFrom(first, s, separator)][x]
        BY <1>2, <2>1, <2>4 DEF f, h
  <2> QED BY <2>2, <2>5 DEF step
<1> QED BY <1>4, <1>5 DEF b, D

\* An element more for join.
LEMMA JoinAppend ==
    ASSUME NEW C, NEW separator \in Seq(C), NEW es \in Seq(Seq(C)), NEW e \in Seq(C)
    PROVE  /\ es = <<>> => join(Append(es, e), separator) = e
           /\ es # <<>> =>
                /\ join(es, separator) \in Seq(C)
                /\ join(Append(es, e), separator) = Glued(join(es, separator), separator, e)
<1> DEFINE us == Append(es, e)
<1>1. us # <<>> /\ us \in Seq(Seq(C))
      OBVIOUS
<1>2. CASE es = <<>>
  <2>1. Head(us) = e /\ Tail(us) = <<>>
        BY <1>2
  <2> HIDE DEF us
  <2>2. join(us, separator) = JoinFrom(e, <<>>, separator)
        BY <1>1, <2>1, JoinReads
  <2>3. JoinFrom(e, <<>>, separator) = e
        BY JoinFold
  <2> QED BY <1>2, <2>2, <2>3 DEF us
<1>3. CASE es # <<>>
  <2> DEFINE f == Head(es)
             r == Tail(es)
             E == Seq(C)
  <2>1. Head(us) = f /\ Tail(us) = Append(r, e) /\ f \in Seq(C) /\ r \in Seq(Seq(C))
        BY <1>3
  <2>2. join(es, separator) = JoinFrom(f, r, separator)
        BY <1>3, JoinReads
  <2> HIDE DEF us, f, r
  <2>3. join(us, separator) = JoinFrom(f, Append(r, e), separator)
        BY <1>1, <2>1, JoinReads
  <2>4. E \subseteq Seq(C) /\ r \in Seq(E) /\ e \in E
        BY <2>1
  <2> HIDE DEF E
  <2>5. /\ JoinFrom(f, r, separator) \in Seq(C)
        /\ JoinFrom(f, Append(r, e), separator) = Glued(JoinFrom(f, r, separator), separator, e)
        BY <2>1, <2>4, JoinFold
  <2> QED BY <1>3, <2>2, <2>3, <2>5 DEF us
<1> QED BY <1>2, <1>3

\* The elements of r have no separator.
Parted(r, separator) ==
    /\ \A n \in DOMAIN r.elements : separator \notin ToSet(r.elements[n])
    /\ separator \notin ToSet(r.beg)

\* They and the begin of the next one are what split has read.
SplitInv(r, separator, s) ==
    /\ join(Append(r.elements, r.beg), <<separator>>) = s
    /\ Parted(r, separator)

\* One more character, the separator: the element ends.
LEMMA SplitSeparates ==
    ASSUME NEW C, NEW separator \in C, NEW s \in Seq(C),
           NEW r \in [elements : Seq(Seq(C)), beg : Seq(C)], SplitInv(r, separator, s), NEW q,
           q = [elements |-> Append(r.elements, r.beg), beg |-> <<>>]
    PROVE  SplitInv(q, separator, Append(s, separator))
<1> DEFINE es == Append(r.elements, r.beg)
           e == <<>>
           sep == <<separator>>
           n == Len(r.elements)
<1>1. q.elements = es /\ q.beg = e
      OBVIOUS
<1>2. es \in Seq(Seq(C)) /\ es # <<>> /\ e \in Seq(C) /\ sep \in Seq(C)
  <2>1. Len(es) # 0 /\ Len(<<>>) = 0
        OBVIOUS
  <2>2. es \in Seq(Seq(C)) /\ e \in Seq(C) /\ sep \in Seq(C)
        OBVIOUS
  <2> QED BY <2>1, <2>2
<1>3. join(es, sep) = s
      BY DEF SplitInv
<1>4. s \o sep \o e = Append(s, separator)
      OBVIOUS
<1>5. ToSet(e) = {}
      BY ToSetEmpty
<1>6. \A i \in DOMAIN es : separator \notin ToSet(es[i])
  <2>1. /\ DOMAIN es = 1 .. n + 1 /\ DOMAIN r.elements = 1 .. n /\ n \in Nat
        /\ \A i \in 1 .. n : es[i] = r.elements[i]
        /\ es[n + 1] = r.beg
        OBVIOUS
  <2> HIDE DEF es, n
  <2>2. \A i \in 1 .. n + 1 : i \in 1 .. n \/ i = n + 1
        BY <2>1
  <2> QED BY <2>1, <2>2 DEF SplitInv, Parted
<1> HIDE DEF es, e, sep
<1>7. join(Append(es, e), sep) = Glued(s, sep, e)
      BY <1>2, <1>3, JoinAppend
<1>8. join(Append(q.elements, q.beg), sep) = Append(s, separator)
      BY <1>1, <1>4, <1>7 DEF Glued
<1>9. Parted(q, separator)
      BY <1>1, <1>5, <1>6 DEF Parted
<1> QED BY <1>8, <1>9 DEF SplitInv, sep

\* One more character that is none: the element goes on.
LEMMA SplitReadsOn ==
    ASSUME NEW C, NEW separator \in C, NEW s \in Seq(C), NEW x \in C, x # separator,
           NEW r \in [elements : Seq(Seq(C)), beg : Seq(C)], SplitInv(r, separator, s), NEW q,
           q = [r EXCEPT !.beg = Append(@, x)]
    PROVE  SplitInv(q, separator, Append(s, x))
<1> DEFINE es == r.elements
           e == r.beg
           f == Append(e, x)
           sep == <<separator>>
<1>1. q.elements = es /\ q.beg = f
      OBVIOUS
<1>2. es \in Seq(Seq(C)) /\ e \in Seq(C) /\ f \in Seq(C) /\ sep \in Seq(C)
      OBVIOUS
<1>3. join(Append(es, e), sep) = s
      BY DEF SplitInv
<1>4. ToSet(f) = ToSet(e) \cup {x}
      BY <1>2, ToSetAppend
<1>5. f = Append(e, x)
      OBVIOUS
<1> HIDE DEF es, e, f, sep
<1>6. join(Append(es, f), sep) = Append(s, x)
  <2>1. CASE es = <<>>
    <3>1. join(Append(es, e), sep) = e
          BY <1>2, <2>1, JoinAppend
    <3>2. join(Append(es, f), sep) = f
          BY <1>2, <2>1, JoinAppend
    <3> QED BY <1>3, <1>5, <3>1, <3>2
  <2>2. CASE es # <<>>
    <3> DEFINE j == join(es, sep)
    <3>1. j \in Seq(C) /\ s = Glued(j, sep, e) /\ join(Append(es, f), sep) = Glued(j, sep, f)
          BY <1>2, <1>3, <2>2, JoinAppend
    <3> HIDE DEF j
    <3>2. j \o sep \o Append(e, x) = Append(j \o sep \o e, x)
          BY <1>2, <3>1
    <3> QED BY <1>5, <3>1, <3>2 DEF Glued
  <2> QED BY <2>1, <2>2
<1>7. Parted(q, separator)
      BY <1>1, <1>4 DEF SplitInv, Parted, es, e
<1> QED BY <1>1, <1>6, <1>7 DEF SplitInv, sep

\* split loses nothing: join gives the text back, and no element has a
\* separator.
THEOREM SplitIsUndone ==
    ASSUME NEW C, NEW separator \in C, NEW s \in Seq(C)
    PROVE  /\ split(s, separator) \in Seq(Seq(C)) /\ split(s, separator) # <<>>
           /\ join(split(s, separator), <<separator>>) = s
           /\ \A n \in DOMAIN split(s, separator) : separator \notin ToSet(split(s, separator)[n])
<1> DEFINE D == [elements : Seq(Seq(C)), beg : Seq(C)]
           R(t) == SplitRead(t, separator)
           T == {t \in Seq(C) : SplitInv(R(t), separator, t)}
<1>1. /\ R(<<>>) = [elements |-> <<>>, beg |-> <<>>]
      /\ \A t \in Seq(C), x \in C :
            R(t) \in D /\ R(Append(t, x)) = SplitStep(R(t), x, separator)
      BY SplitFold
<1>2. <<>> \in T
  <2> DEFINE e == <<>>
             sep == <<separator>>
             r == R(<<>>)
  <2>1. r.elements = e /\ r.beg = e /\ e \in Seq(Seq(C)) /\ e \in Seq(C) /\ sep \in Seq(C)
        BY <1>1
  <2>2. DOMAIN e = {} /\ ToSet(e) = {}
        BY ToSetEmpty
  <2>3. e = <<>>
        OBVIOUS
  <2> HIDE DEF e, sep, r
  <2>4. join(Append(e, e), sep) = e
    <3> DEFINE es == e
    <3>1. es \in Seq(Seq(C)) /\ es = <<>>
          BY <2>1, <2>3
    <3> HIDE DEF es
    <3>2. join(Append(es, e), sep) = e
          BY <2>1, <3>1, JoinAppend
    <3> QED BY <3>2 DEF es
  <2>5. SplitInv(r, separator, e)
        BY <2>1, <2>2, <2>4 DEF SplitInv, Parted, sep
  <2> QED BY <2>5 DEF r, e
<1>3. ASSUME NEW t \in Seq(C), NEW x \in C, t \in T PROVE Append(t, x) \in T
  <2> DEFINE r == R(t)
             q == R(Append(t, x))
  <2>1. r \in D /\ q = SplitStep(r, x, separator) /\ SplitInv(r, separator, t)
        BY <1>1, <1>3
  <2>2. Append(t, x) \in Seq(C)
        OBVIOUS
  <2> HIDE DEF r, q
  <2>3. CASE x = separator
    <3>1. q = [elements |-> Append(r.elements, r.beg), beg |-> <<>>]
          BY <2>1, <2>3 DEF SplitStep
    <3>2. SplitInv(q, separator, Append(t, separator))
          BY <2>1, <3>1, SplitSeparates
    <3> QED BY <2>2, <2>3, <3>2 DEF q
  <2>4. CASE x # separator
    <3>1. q = [r EXCEPT !.beg = Append(@, x)]
          BY <2>1, <2>4 DEF SplitStep
    <3>2. SplitInv(q, separator, Append(t, x))
          BY <2>1, <2>4, <3>1, SplitReadsOn
    <3> QED BY <2>2, <3>2 DEF q
  <2> QED BY <2>3, <2>4
<1> HIDE DEF T
<1>4. \A t \in Seq(C) : t \in T
      BY <1>2, <1>3, SeqInduction
<1> DEFINE r == R(s)
           es == r.elements
           n == Len(es)
           us == Append(es, r.beg)
<1>5. r \in D /\ SplitInv(r, separator, s)
      BY <1>1, <1>4 DEF T
<1>6. split(s, separator) = us
      BY SplitReads
<1> HIDE DEF r
<1>7. us \in Seq(Seq(C)) /\ us # <<>>
  <2>1. us \in Seq(Seq(C)) /\ Len(us) # 0 /\ Len(<<>>) = 0
        BY <1>5
  <2> QED BY <2>1
<1>8. /\ DOMAIN us = 1 .. n + 1 /\ DOMAIN es = 1 .. n /\ n \in Nat
      /\ \A i \in 1 .. n : us[i] = es[i]
      /\ us[n + 1] = r.beg
      BY <1>5
<1>9. join(us, <<separator>>) = s /\ Parted(r, separator)
      BY <1>5 DEF SplitInv
<1> HIDE DEF us, n
<1>10. \A i \in 1 .. n + 1 : i \in 1 .. n \/ i = n + 1
      BY <1>8
<1>11. \A i \in DOMAIN us : separator \notin ToSet(us[i])
      BY <1>8, <1>9, <1>10 DEF Parted
<1> QED BY <1>6, <1>7, <1>9, <1>11

-----------------------------------------------------------------------------
(* The key columns of a layer                                              *)

\* The columns that the entries of primary_key_columns name.
ColumnsOf(entries) ==
    FoldLeft(LAMBDA cs, e : IF trim(e, trimChars) = <<>> THEN cs
                            ELSE Append(cs, trim(e, trimChars)), <<>>, entries)

\* The key columns are those of the elements that split finds.
LEMMA ColumnsReads ==
    ASSUME NEW text
    PROVE  PrimaryKeyColumns(text) = ColumnsOf(split(text, ","))
BY DEF PrimaryKeyColumns, ColumnsOf

\* They are added one by one as well.
LEMMA ColumnsFold ==
    ASSUME NEW E
    PROVE  /\ ColumnsOf(<<>>) = <<>>
           /\ \A s \in Seq(E), x \in E :
                 /\ ColumnsOf(s) \in Seq({trim(e, trimChars) : e \in E})
                 /\ ColumnsOf(Append(s, x)) =
                       (IF trim(x, trimChars) = <<>> THEN ColumnsOf(s)
                        ELSE Append(ColumnsOf(s), trim(x, trimChars)))
<1> DEFINE D == Seq({trim(e, trimChars) : e \in E})
           b == <<>>
           step == [p \in D |-> [l \in E |-> (IF trim(l, trimChars) = <<>> THEN p
                                              ELSE Append(p, trim(l, trimChars)))]]
           Eq(g, s) == g = [t \in SUBSET (DOMAIN s) |->
                              IF t = {} THEN b
                              ELSE (IF trim(s[Max(t)], trimChars) = <<>> THEN g[t \ {Max(t)}]
                                    ELSE Append(g[t \ {Max(t)}], trim(s[Max(t)], trimChars)))]
           c(s) == CHOOSE g : Eq(g, s)
<1>1. b \in D /\ step \in [D -> [E -> D]]
      OBVIOUS
<1>2. ASSUME NEW s PROVE ColumnsOf(s) = c(s)[DOMAIN s]
      BY Zenon DEF ColumnsOf, FoldLeft, MapThenFoldSet
<1>3. ASSUME NEW s \in Seq(E) PROVE Follows(c(s), D, E, b, step, s, Len(s))
  <2> DEFINE n == Len(s)
  <2>1. n \in Nat /\ s \in [1 .. n -> E] /\ DOMAIN s = 1 .. n
        OBVIOUS
  <2> HIDE DEF b, n, step, D
  <2>2. PICK g : IsFold(g, D, b, step, s, n)
        BY <1>1, <2>1, FoldExists
  <2>3. ASSUME NEW t \in SUBSET (1 .. n), t # {}
        PROVE  s[Max(t)] \in E /\ g[t \ {Max(t)}] \in D
    <3>1. Max(t) \in 1 .. n
          BY <2>1, <2>3, MaxInside
    <3> QED BY <2>1, <2>2, <3>1 DEF IsFold
  <2>4. Eq(g, s)
        BY <2>1, <2>2, <2>3 DEF IsFold, step
  <2>5. Eq(c(s), s)
        BY <2>4
  <2> HIDE DEF c
  <2> QED BY <2>1, <2>5 DEF Follows, step, n
<1> HIDE DEF b, c, step, D
<1>4. ColumnsOf(<<>>) = b
  <2>1. <<>> \in Seq(E) /\ Len(<<>>) = 0 /\ DOMAIN <<>> = 1 .. 0
        OBVIOUS
  <2> QED BY <1>2, <1>3, <2>1, FoldNone
<1>5. ASSUME NEW s \in Seq(E), NEW x \in E
      PROVE  /\ ColumnsOf(s) \in D
             /\ ColumnsOf(Append(s, x)) =
                   (IF trim(x, trimChars) = <<>> THEN ColumnsOf(s)
                    ELSE Append(ColumnsOf(s), trim(x, trimChars)))
  <2> DEFINE u == Append(s, x)
             n == Len(s)
             m == n + 1
  <2>1. DOMAIN s = 1 .. n /\ DOMAIN u = 1 .. m /\ u \in Seq(E) /\ Len(u) = m
        OBVIOUS
  <2>2. Longer(u, m, s, n, x) /\ u = Append(s, x)
        BY DEF Longer
  <2> HIDE DEF u, n, m
  <2> DEFINE f == c(s)
             h == c(u)
  <2>3. Follows(f, D, E, b, step, s, n) /\ Follows(h, D, E, b, step, u, m)
        BY <1>3, <2>1, <2>2 DEF Longer
  <2> HIDE DEF f, h
  <2>4. f[1 .. n] \in D /\ h[1 .. m] = step[f[1 .. n]][x]
        BY <1>1, <2>2, <2>3, FoldStep
  <2>5. ColumnsOf(s) \in D /\ ColumnsOf(u) = step[ColumnsOf(s)][x]
        BY <1>2, <2>1, <2>4 DEF f, h
  <2> QED BY <2>2, <2>5 DEF step
<1> QED BY <1>4, <1>5 DEF b, D

\* The entries that name a column, and those up to one of them.
Named(es) == {n \in DOMAIN es : es[n] # <<>>}
NamedTo(es, n) == {i \in Named(es) : i <= n}

\* Each of them has its column, in their order, and each column its element.
InOrder(cs, es) ==
    /\ Len(cs) = Cardinality(Named(es))
    /\ \A n \in Named(es) : cs[Cardinality(NamedTo(es, n))] = trim(es[n], trimChars)
    /\ \A c \in 1 .. Len(cs) : \E n \in Named(es) : Cardinality(NamedTo(es, n)) = c

\* The elements that are not empty can be counted.
LEMMA NamedCounts ==
    ASSUME NEW E, NEW es \in Seq(E)
    PROVE  /\ IsFiniteSet(Named(es))
           /\ \A n \in Named(es) :
                 Cardinality(NamedTo(es, n)) \in 1 .. Cardinality(Named(es))
<1>1. IsFiniteSet(Named(es))
  <2>1. IsFiniteSet(1 .. Len(es))
        BY FS_Interval
  <2>2. Named(es) \subseteq 1 .. Len(es)
        BY DEF Named
  <2> QED BY <2>1, <2>2, FS_Subset
<1>2. ASSUME NEW n \in Named(es)
      PROVE  Cardinality(NamedTo(es, n)) \in 1 .. Cardinality(Named(es))
  <2> DEFINE S == NamedTo(es, n)
             R == Named(es)
  <2>1. S \subseteq R
        BY DEF NamedTo
  <2>2. n \in S
        BY DEF NamedTo, Named
  <2> HIDE DEF S, R
  <2>3. IsFiniteSet(S) /\ Cardinality(S) <= Cardinality(R)
        BY <1>1, <2>1, FS_Subset DEF R
  <2>4. Cardinality(S) \in Nat /\ Cardinality(R) \in Nat
        BY <1>1, <2>3, FS_CardinalityType DEF R
  <2>5. Cardinality(S) # 0
        BY <2>2, <2>3, FS_EmptySet
  <2> QED BY <2>3, <2>4, <2>5 DEF S, R
<1> QED BY <1>1, <1>2

\* One more element keeps the order.
LEMMA InOrderAppend ==
    ASSUME NEW E, NEW es \in Seq(E), NEW x \in E, NEW S, NEW cs \in Seq(S), InOrder(cs, es),
           NEW c \in S, c = trim(x, trimChars)
    PROVE  InOrder(IF x = <<>> THEN cs ELSE Append(cs, c), Append(es, x))
<1> DEFINE us == Append(es, x)
           n == Len(es)
           m == n + 1
           k == Len(cs)
           ds == Append(cs, c)
<1>1. /\ DOMAIN us = 1 .. m /\ DOMAIN es = 1 .. n /\ n \in Nat
      /\ \A i \in 1 .. n : us[i] = es[i]
      /\ us[m] = x
      OBVIOUS
<1>2. k \in Nat /\ Len(ds) = k + 1 /\ ds[k + 1] = c /\ \A i \in 1 .. k : ds[i] = cs[i]
      OBVIOUS
<1>3. k = Cardinality(Named(es))
      BY DEF InOrder
<1>4. IsFiniteSet(Named(es)) /\ \A i \in Named(es) : Cardinality(NamedTo(es, i)) \in 1 .. k
      BY <1>3, NamedCounts
<1> HIDE DEF us, k, ds
<1>5. (\A i \in 1 .. m : i \in 1 .. n \/ i = m) /\ m \notin 1 .. n
      BY <1>1
<1>6. Named(es) \subseteq 1 .. n
      BY <1>1 DEF Named
<1>7. CASE x = <<>>
  <2>1. Named(us) = Named(es)
        BY <1>1, <1>5, <1>7 DEF Named
  <2>2. \A i \in Named(es) : NamedTo(us, i) = NamedTo(es, i)
        BY <2>1 DEF NamedTo
  <2>3. InOrder(cs, us)
        BY <1>1, <1>6, <2>1, <2>2 DEF InOrder
  <2> QED BY <1>7, <2>3 DEF us
<1>8. CASE x # <<>>
  <2>1. Named(us) = Named(es) \cup {m}
        BY <1>1, <1>5, <1>8 DEF Named
  <2>2. m \notin Named(es)
        BY <1>5, <1>6
  <2>3. ASSUME NEW i \in Named(es) PROVE NamedTo(us, i) = NamedTo(es, i)
    <3>1. i \in 1 .. n /\ ~ (m <= i)
          BY <1>1, <1>6
    <3> HIDE DEF m
    <3> QED BY <2>1, <3>1 DEF NamedTo
  <2>4. NamedTo(us, m) = Named(us)
    <3>1. \A i \in 1 .. n : i <= m
          BY <1>1
    <3>2. m <= m
          BY <1>1
    <3> HIDE DEF m
    <3> QED BY <1>6, <2>1, <3>1, <3>2 DEF NamedTo
  <2>5. Cardinality(Named(us)) = k + 1
        BY <1>3, <1>4, <2>1, <2>2, FS_AddElement
  <2>6. ASSUME NEW i \in Named(us)
        PROVE  ds[Cardinality(NamedTo(us, i))] = trim(us[i], trimChars)
    <3>1. CASE i = m
          BY <1>1, <1>2, <2>4, <2>5, <3>1
    <3>2. CASE i \in Named(es)
      <4> DEFINE j == Cardinality(NamedTo(es, i))
      <4>1. cs[j] = trim(es[i], trimChars)
            BY <3>2 DEF InOrder
      <4>2. j \in 1 .. k
            BY <1>4, <3>2
      <4>3. us[i] = es[i]
            BY <1>1, <1>6, <3>2
      <4> HIDE DEF j
      <4>4. Cardinality(NamedTo(us, i)) = j
            BY <2>3, <3>2 DEF j
      <4> QED BY <1>2, <4>1, <4>2, <4>3, <4>4
    <3> QED BY <2>1, <3>1, <3>2
  <2>7. ASSUME NEW i \in 1 .. Len(ds)
        PROVE  \E j \in Named(us) : Cardinality(NamedTo(us, j)) = i
    <3>1. CASE i = k + 1
          BY <2>1, <2>4, <2>5, <3>1
    <3>2. CASE i \in 1 .. k
      <4>1. PICK j \in Named(es) : Cardinality(NamedTo(es, j)) = i
            BY <3>2 DEF InOrder, k
      <4> QED BY <2>1, <2>3, <4>1
    <3> QED BY <1>2, <3>1, <3>2
  <2>8. InOrder(ds, us)
        BY <1>2, <2>5, <2>6, <2>7 DEF InOrder
  <2> QED BY <1>8, <2>8 DEF us, ds
<1> QED BY <1>7, <1>8

\* The columns are in the order of the elements.
LEMMA ColumnsInOrder ==
    ASSUME NEW C
    PROVE  \A es \in Seq(Seq(C)) : InOrder(ColumnsOf(es), es)
<1> DEFINE E == Seq(C)
           S == {trim(e, trimChars) : e \in E}
           T == {es \in Seq(E) : InOrder(ColumnsOf(es), es)}
<1>1. /\ ColumnsOf(<<>>) = <<>>
      /\ \A s \in Seq(E), x \in E :
            /\ ColumnsOf(s) \in Seq(S)
            /\ ColumnsOf(Append(s, x)) =
                  (IF trim(x, trimChars) = <<>> THEN ColumnsOf(s)
                   ELSE Append(ColumnsOf(s), trim(x, trimChars)))
      BY ColumnsFold
<1>2. <<>> \in T
  <2>1. Named(<<>>) = {} /\ Len(<<>>) = 0
        BY DEF Named
  <2>2. InOrder(<<>>, <<>>)
        BY <2>1, FS_EmptySet DEF InOrder
  <2> QED BY <1>1, <2>2
<1>3. ASSUME NEW es \in Seq(E), NEW x \in E, es \in T PROVE Append(es, x) \in T
  <2> DEFINE cs == ColumnsOf(es)
             c == trim(x, trimChars)
             us == Append(es, x)
  <2>1. cs \in Seq(S) /\ ColumnsOf(us) = (IF c = <<>> THEN cs ELSE Append(cs, c))
        BY <1>1
  <2>2. InOrder(cs, es) /\ us \in Seq(E)
        BY <1>3
  <2>3. c \in S
        OBVIOUS
  <2>4. c = <<>> <=> x = <<>>
        BY TrimKeepsSome DEF IsSeq
  <2>5. c = trim(x, trimChars) /\ us = Append(es, x)
        OBVIOUS
  <2> HIDE DEF cs, c, us, E, S
  <2>6. InOrder(IF x = <<>> THEN cs ELSE Append(cs, c), Append(es, x))
        BY <2>1, <2>2, <2>3, <2>5, InOrderAppend
  <2>7. InOrder(ColumnsOf(us), us)
        BY <2>1, <2>4, <2>5, <2>6
  <2> QED BY <2>2, <2>7 DEF us
<1> HIDE DEF T, E
<1>4. \A es \in Seq(E) : es \in T
      BY <1>2, <1>3, SeqInduction
<1> QED BY <1>4 DEF T, E

\* Facts about sequences for the provers that do not know them.
LEMMA SeqFacts ==
    /\ \A S : <<>> \in Seq(S)
    /\ \A S : \A s \in Seq(S) : DOMAIN s = 1 .. Len(s)
OBVIOUS

\* A later element is counted after an earlier one.
LEMMA NamedInOrder ==
    ASSUME NEW E, NEW es \in Seq(E), NEW m \in Named(es), NEW n \in Named(es), m < n
    PROVE  Cardinality(NamedTo(es, m)) < Cardinality(NamedTo(es, n))
<1> DEFINE S == NamedTo(es, m)
           R == NamedTo(es, n)
<1>1. Named(es) \subseteq Nat
      BY DEF Named
<1>2. S \cup {n} \subseteq R /\ n \notin S /\ R \subseteq Named(es) /\ S \subseteq Named(es)
      BY <1>1 DEF NamedTo
<1>3. IsFiniteSet(Named(es))
      BY NamedCounts
<1> HIDE DEF S, R
<1>4. IsFiniteSet(S) /\ IsFiniteSet(R)
      BY <1>2, <1>3, FS_Subset
<1>5. Cardinality(S \cup {n}) = Cardinality(S) + 1
      BY <1>2, <1>4, FS_AddElement
<1>6. Cardinality(S \cup {n}) <= Cardinality(R)
      BY <1>2, <1>4, FS_Subset
<1>7. Cardinality(S) \in Nat /\ Cardinality(R) \in Nat
      BY <1>4, FS_CardinalityType
<1>8. Cardinality(S) < Cardinality(R)
      BY <1>5, <1>6, <1>7
<1> QED BY <1>8 DEF S, R

\* Whatever the text of primary_key_columns: the columns are those it names.
THEOREM ColumnsAreNames ==
    ASSUME NEW C, "," \in C, NEW text \in Seq(C)
    PROVE  ReadsColumns(text)
<1> DEFINE sep == ","
           es == split(text, sep)
           named == {n \in DOMAIN es : HasContent(es[n], trimChars)}
           cs == PrimaryKeyColumns(text)
           place == [n \in named |-> Cardinality(NamedTo(es, n))]
           D == DOMAIN cs
<1>1. /\ es \in Seq(Seq(C))
      /\ join(es, <<sep>>) = text
      /\ \A n \in DOMAIN es : sep \notin ToSet(es[n])
  <2> HIDE DEF sep
  <2>1. sep \in C
        BY DEF sep
  <2> QED BY <2>1, SplitIsUndone
<1>2. InOrder(cs, es) /\ D = 1 .. Len(cs)
  <2>1. cs = ColumnsOf(es)
        BY <1>1, ColumnsReads
  <2>2. ColumnsOf(es) \in Seq({trim(e, trimChars) : e \in Seq(C)})
    <3> HIDE DEF es
    <3> DEFINE E == Seq(C)
    <3>1. es \in Seq(E)
          BY <1>1, Zenon
    <3>2. <<>> \in E
          BY SeqFacts, Zenon
    <3> HIDE DEF E
    <3>3. ColumnsOf(es) \in Seq({trim(e, trimChars) : e \in E})
          BY <3>1, <3>2, ColumnsFold
    <3> QED BY <3>3 DEF E
  <2> HIDE DEF cs, es
  <2>3. InOrder(ColumnsOf(es), es)
        BY <1>1, ColumnsInOrder, Zenon
  <2>4. DOMAIN cs = 1 .. Len(cs)
        BY <2>1, <2>2, SeqFacts, Zenon
  <2> QED BY <2>1, <2>3, <2>4
<1>3. named \subseteq Named(es)
      BY ToSetEmpty DEF Named, HasContent
<1> HIDE DEF es, cs, D
<1> DEFINE E == Seq(C)
<1>4. \A n \in Named(es) : Cardinality(NamedTo(es, n)) \in D
      BY <1>1, <1>2, NamedCounts DEF InOrder
<1>5. \A n \in Named(es) : es[n] \in E
  <2> HIDE DEF E
  <2> QED BY <1>1, ElementOf DEF Named, E
<1>6. place \in [named -> D]
      BY <1>3, <1>4
<1>7. \A m, n \in named : m < n => place[m] < place[n]
      BY <1>1, <1>3, NamedInOrder
<1>8. ASSUME NEW n \in named PROVE Stripped(cs[place[n]], es[n], trimChars)
  <2>1. cs[place[n]] = trim(es[n], trimChars)
        BY <1>2, <1>3 DEF InOrder
  <2>2. es[n] \in Seq(C) /\ HasContent(es[n], trimChars)
        BY <1>3, <1>5
  <2>3. Stripped(trim(es[n], trimChars), es[n], trimChars)
        BY <2>2, TrimStrips
  <2> QED BY <2>1, <2>3
<1>9. ASSUME NEW c \in D, HasContent(cs[c], trimChars)
      PROVE  \E n \in named : place[n] = c
  <2>1. PICK n \in Named(es) : Cardinality(NamedTo(es, n)) = c
        BY <1>2, <1>9 DEF InOrder
  <2>2. cs[c] = trim(es[n], trimChars) /\ es[n] \in Seq(C)
        BY <1>2, <1>5, <2>1 DEF InOrder
  <2>3. HasContent(es[n], trimChars)
        BY <1>9, <2>2, TrimLeavesBlanks
  <2>4. n \in named
        BY <2>3 DEF Named
  <2> QED BY <2>1, <2>4
<1> HIDE DEF place, named
<1>10. \E f \in [named -> D] :
          /\ \A m, n \in named : m < n => f[m] < f[n]
          /\ \A n \in named : Stripped(cs[f[n]], es[n], trimChars)
          /\ \A c \in D : HasContent(cs[c], trimChars) => \E n \in named : f[n] = c
      BY <1>6, <1>7, <1>8, <1>9
<1> QED BY <1>1, <1>10, Zenon DEF ReadsColumns, es, cs, named, sep, D

\* The texts of the runs.
TextInv == kind = "text" => input \in Seq(Characters)

\* Every step keeps the texts of the runs such.
LEMMA TextStep == TextInv /\ [Next]_vars => TextInv'
<1> SUFFICES ASSUME TextInv, [Next]_vars, kind' = "text" PROVE input' \in Seq(Characters)
    BY DEF TextInv
<1>1. CASE GrowText
  <2>1. PICK c \in Characters : kind = "text" /\ input' = Append(input, c)
        BY <1>1 DEF GrowText, Grow
  <2> QED BY <2>1 DEF TextInv
<1>2. CASE UNCHANGED vars
      BY <1>2 DEF TextInv, vars
<1>3. ~ (AddMember \/ GrowUri \/ AddLine \/ DropLine \/ ChooseField \/ ChooseGeometry \/ AddColumn)
      BY DEF AddMember, GrowUri, AddLine, DropLine, ChooseField, ChooseGeometry, AddColumn, Grow
<1> QED BY <1>1, <1>2, <1>3 DEF Next

\* The key columns of a layer are those that primary_key_columns names, for
\* all the texts that the runs build, of any length.
THEOREM KeyColumnsAreRead == Spec => []KeyColumnsAreNames
<1>1. Init => TextInv
      BY DEF Init, TextInv
<1>2. TextInv => KeyColumnsAreNames
  <2>1. "," \in Characters
        BY DEF Characters
  <2> QED BY <2>1, ColumnsAreNames DEF TextInv, KeyColumnsAreNames
<1> QED BY <1>1, <1>2, TextStep, PTL DEF Spec

-----------------------------------------------------------------------------
(* The edit distance                                                       *)

\* The least of three numbers.
LeastOf(x, y, z) == Min({x, y, z})

\* It is one of them, and none is less.
LEMMA LeastIsLeast ==
    ASSUME NEW x \in Nat, NEW y \in Nat, NEW z \in Nat
    PROVE  /\ LeastOf(x, y, z) \in Nat
           /\ LeastOf(x, y, z) = x \/ LeastOf(x, y, z) = y \/ LeastOf(x, y, z) = z
           /\ LeastOf(x, y, z) <= x /\ LeastOf(x, y, z) <= y /\ LeastOf(x, y, z) <= z
<1> DEFINE P == {x, y, z}
<1>1. P \subseteq Nat /\ P # {}
      OBVIOUS
<1>2. Min(P) \in P /\ \A n \in P : Min(P) <= n
  <2> HIDE DEF P
  <2> QED BY <1>1, MinOfNat
<1> QED BY <1>2 DEF LeastOf

\* NextCosts over the columns s only.
Rows(n) == [costs : [0 .. n -> Nat], corner : Nat]
RowStart(old, i) == [costs |-> [old EXCEPT ![0] = i], corner |-> i - 1]
RowStep(r, c, t, j) ==
    [costs |-> [r.costs EXCEPT ![j] =
                  IF c = t[j] THEN r.corner
                  ELSE LeastOf(r.costs[j], r.corner, r.costs[j - 1]) + 1],
     corner |-> r.costs[j]]
RowRead(old, i, c, t, s) ==
    FoldLeft(LAMBDA r, j : RowStep(r, c, t, j), RowStart(old, i), s)

\* NextCosts is this fold over all columns.
LEMMA RowReads ==
    ASSUME NEW old, NEW i, NEW c, NEW t
    PROVE  NextCosts(old, i, c, t) = RowRead(old, i, c, t, UpTo(Len(t))).costs
BY Zenon DEF NextCosts, RowRead, RowStep, RowStart, LeastOf

\* The columns of a row, and the rows of a table, that the folds are over.
RowIn(old, i, E, w) == w \in Nat /\ E = 1 .. w /\ old \in [0 .. w -> Nat] /\ i \in Nat /\ i > 0
RowsIn(E, s2, w) == E \subseteq Nat \ {0} /\ w \in Nat /\ w = Len(s2)

\* A step gives a row again.
LEMMA RowStepIn ==
    ASSUME NEW w, NEW r \in Rows(w), NEW c, NEW t, NEW j,
           r.costs[j] \in Nat, LeastOf(r.costs[j], r.corner, r.costs[j - 1]) \in Nat
    PROVE  RowStep(r, c, t, j) \in Rows(w)
<1> DEFINE x == IF c = t[j] THEN r.corner ELSE LeastOf(r.costs[j], r.corner, r.costs[j - 1]) + 1
<1>1. x \in Nat /\ r.costs \in [0 .. w -> Nat]
      BY DEF Rows
<1>2. RowStep(r, c, t, j) = [costs |-> [r.costs EXCEPT ![j] = x], corner |-> r.costs[j]]
      BY DEF RowStep
<1> HIDE DEF x
<1>3. [r.costs EXCEPT ![j] = x] \in [0 .. w -> Nat]
      BY <1>1
<1> QED BY <1>2, <1>3 DEF Rows

\* A row is computed column by column.
LEMMA RowFold ==
    ASSUME NEW old, NEW i, NEW ch, NEW s2, NEW E, NEW w, RowIn(old, i, E, w)
    PROVE  /\ RowRead(old, i, ch, s2, <<>>) = RowStart(old, i)
           /\ \A s \in Seq(E), x \in E :
                 /\ RowRead(old, i, ch, s2, s) \in Rows(w)
                 /\ RowRead(old, i, ch, s2, Append(s, x)) =
                       RowStep(RowRead(old, i, ch, s2, s), ch, s2, x)
<1> DEFINE D == Rows(w)
           b == RowStart(old, i)
           step == [p \in D |-> [l \in E |-> RowStep(p, ch, s2, l)]]
           Eq(g, s) == g = [t \in SUBSET (DOMAIN s) |->
                              IF t = {} THEN b
                              ELSE RowStep(g[t \ {Max(t)}], ch, s2, s[Max(t)])]
           c(s) == CHOOSE g : Eq(g, s)
<1>1. b \in D /\ step \in [D -> [E -> D]]
  <2>1. b \in D
        BY DEF Rows, RowStart, RowIn
  <2>2. ASSUME NEW p \in D, NEW l \in E PROVE RowStep(p, ch, s2, l) \in D
    <3>1. /\ p.costs \in [0 .. w -> Nat] /\ p.corner \in Nat
          /\ p.costs[l] \in Nat /\ p.costs[l - 1] \in Nat
          BY DEF Rows, RowIn
    <3>2. LeastOf(p.costs[l], p.corner, p.costs[l - 1]) \in Nat
          BY <3>1, LeastIsLeast
    <3> QED BY <3>1, <3>2, RowStepIn
  <2> QED BY <2>1, <2>2
<1>2. ASSUME NEW s PROVE RowRead(old, i, ch, s2, s) = c(s)[DOMAIN s]
      BY Zenon DEF RowRead, RowStep, RowStart, FoldLeft, MapThenFoldSet
<1>3. ASSUME NEW s \in Seq(E) PROVE Follows(c(s), D, E, b, step, s, Len(s))
  <2> DEFINE n == Len(s)
  <2>1. n \in Nat /\ s \in [1 .. n -> E] /\ DOMAIN s = 1 .. n
        OBVIOUS
  <2> HIDE DEF b, n, step, D
  <2>2. PICK g : IsFold(g, D, b, step, s, n)
        BY <1>1, <2>1, FoldExists
  <2>3. ASSUME NEW t \in SUBSET (1 .. n), t # {}
        PROVE  s[Max(t)] \in E /\ g[t \ {Max(t)}] \in D
    <3>1. Max(t) \in 1 .. n
          BY <2>1, <2>3, MaxInside
    <3> QED BY <2>1, <2>2, <3>1 DEF IsFold
  <2>4. Eq(g, s)
        BY <2>1, <2>2, <2>3 DEF IsFold, step
  <2>5. Eq(c(s), s)
        BY <2>4
  <2> HIDE DEF c
  <2> QED BY <2>1, <2>5 DEF Follows, step, n
<1> HIDE DEF b, c, step, D
<1>4. RowRead(old, i, ch, s2, <<>>) = b
  <2>1. <<>> \in Seq(E) /\ Len(<<>>) = 0 /\ DOMAIN <<>> = 1 .. 0
        OBVIOUS
  <2> QED BY <1>2, <1>3, <2>1, FoldNone
<1>5. ASSUME NEW s \in Seq(E), NEW x \in E
      PROVE  /\ RowRead(old, i, ch, s2, s) \in D
             /\ RowRead(old, i, ch, s2, Append(s, x)) =
                   RowStep(RowRead(old, i, ch, s2, s), ch, s2, x)
  <2> DEFINE u == Append(s, x)
             n == Len(s)
             m == n + 1
  <2>1. DOMAIN s = 1 .. n /\ DOMAIN u = 1 .. m /\ u \in Seq(E) /\ Len(u) = m
        OBVIOUS
  <2>2. Longer(u, m, s, n, x) /\ u = Append(s, x)
        BY DEF Longer
  <2> HIDE DEF u, n, m
  <2> DEFINE f == c(s)
             h == c(u)
  <2>3. Follows(f, D, E, b, step, s, n) /\ Follows(h, D, E, b, step, u, m)
        BY <1>3, <2>1, <2>2 DEF Longer
  <2> HIDE DEF f, h
  <2>4. f[1 .. n] \in D /\ h[1 .. m] = step[f[1 .. n]][x]
        BY <1>1, <2>2, <2>3, FoldStep
  <2>5. /\ RowRead(old, i, ch, s2, s) \in D
        /\ RowRead(old, i, ch, s2, u) = step[RowRead(old, i, ch, s2, s)][x]
        BY <1>2, <2>1, <2>4 DEF f, h
  <2> QED BY <2>2, <2>5 DEF step
<1> QED BY <1>4, <1>5 DEF b, D

\* The numbers up to n as a sequence.
LEMMA UpToGrows ==
    ASSUME NEW n \in Nat
    PROVE  /\ UpTo(0) = <<>>
           /\ \A k \in 0 .. n : UpTo(k) \in Seq(1 .. n)
           /\ \A k \in 1 .. n : UpTo(k) = Append(UpTo(k - 1), k)
<1>1. UpTo(0) = <<>>
      BY DEF UpTo
<1>2. ASSUME NEW k \in 0 .. n PROVE UpTo(k) \in Seq(1 .. n)
  <2>1. \A j \in 1 .. k : j \in 1 .. n
        OBVIOUS
  <2> QED BY <2>1 DEF UpTo
<1>3. ASSUME NEW k \in 1 .. n PROVE UpTo(k) = Append(UpTo(k - 1), k)
  <2> DEFINE l == k - 1
  <2>1. l \in Nat /\ k = l + 1 /\ k \in Nat
        OBVIOUS
  <2>2. UpTo(l) \in Seq(Nat) /\ Len(UpTo(l)) = l
        BY <2>1 DEF UpTo
  <2>3. Append(UpTo(l), k) \in Seq(Nat) /\ Len(Append(UpTo(l), k)) = k
        BY <2>1, <2>2
  <2>4. UpTo(k) \in Seq(Nat) /\ Len(UpTo(k)) = k
        BY <2>1 DEF UpTo
  <2>5. ASSUME NEW j \in 1 .. k PROVE UpTo(k)[j] = Append(UpTo(l), k)[j]
    <3>1. CASE j = k
          BY <2>1, <2>2, <3>1 DEF UpTo
    <3>2. CASE j # k
      <4>1. j \in 1 .. l
            BY <2>1, <3>2
      <4> QED BY <2>1, <2>2, <4>1 DEF UpTo
    <3> QED BY <3>1, <3>2
  <2> HIDE DEF l
  <2>6. UpTo(k) = Append(UpTo(l), k)
    <3> DEFINE a == UpTo(k)
               b == Append(UpTo(l), k)
    <3> HIDE DEF a, b
    <3>1. a \in Seq(Nat) /\ b \in Seq(Nat) /\ Len(a) = Len(b) /\ \A j \in 1 .. Len(a) : a[j] = b[j]
          BY <2>3, <2>4, <2>5 DEF a, b
    <3>2. a = b
          BY <3>1
    <3> QED BY <3>2 DEF a, b
  <2> QED BY <2>6 DEF l
<1> QED BY <1>1, <1>2, <1>3

\* row is the row behind old, by the recurrence that the code uses.
CellIs(row, old, c, t, j) ==
    row[j] = IF c = t[j] THEN old[j - 1] ELSE LeastOf(old[j], old[j - 1], row[j - 1]) + 1
IsNextRow(row, old, i, c, t) ==
    /\ row \in [0 .. Len(t) -> Nat]
    /\ row[0] = i
    /\ \A j \in 1 .. Len(t) : CellIs(row, old, c, t, j)

\* The row in place: new up to k, old behind it, and the old cost of k in corner.
InPlace(r, old, i, c, t, k) ==
    /\ r.corner = old[k]
    /\ r.costs[0] = i
    /\ \A j \in 1 .. k : CellIs(r.costs, old, c, t, j)
    /\ \A j \in k + 1 .. Len(t) : r.costs[j] = old[j]

\* One more column.
LEMMA InPlaceStep ==
    ASSUME NEW n \in Nat, NEW t, Len(t) = n, NEW old \in [0 .. n -> Nat], NEW i, NEW c,
           NEW r \in Rows(n), NEW k \in 1 .. n, NEW l \in Nat, l = k - 1,
           InPlace(r, old, i, c, t, l), NEW q, q = RowStep(r, c, t, k)
    PROVE  InPlace(q, old, i, c, t, k)
<1>1. r.costs \in [0 .. n -> Nat] /\ r.corner \in Nat
      BY DEF Rows
<1>2. /\ q.corner = r.costs[k]
      /\ q.costs = [r.costs EXCEPT ![k] =
                      IF c = t[k] THEN r.corner
                      ELSE LeastOf(r.costs[k], r.corner, r.costs[l]) + 1]
      BY DEF RowStep
<1>3. r.corner = old[l] /\ r.costs[k] = old[k] /\ r.costs[0] = i
      BY DEF InPlace
<1>4. /\ \A j \in 0 .. n : j # k => q.costs[j] = r.costs[j]
      /\ q.costs[k] = IF c = t[k] THEN old[l] ELSE LeastOf(old[k], old[l], r.costs[l]) + 1
  <2> DEFINE x == IF c = t[k] THEN r.corner ELSE LeastOf(r.costs[k], r.corner, r.costs[l]) + 1
             h == r.costs
             g == q.costs
  <2>1. g = [h EXCEPT ![k] = x] /\ h \in [0 .. n -> Nat] /\ k \in 0 .. n
        BY <1>1, <1>2
  <2>2. x = IF c = t[k] THEN old[l] ELSE LeastOf(old[k], old[l], r.costs[l]) + 1
        BY <1>3
  <2> HIDE DEF x, h, g
  <2>3. g[k] = x /\ \A j \in 0 .. n : j # k => g[j] = h[j]
        BY <2>1
  <2> QED BY <2>2, <2>3 DEF g, h
<1>5. q.corner = old[k]
      BY <1>2, <1>3
<1>6. q.costs[0] = i
      BY <1>3, <1>4
<1>7. ASSUME NEW j \in 1 .. k PROVE CellIs(q.costs, old, c, t, j)
  <2>1. CASE j = k
    <3>1. l \in 0 .. n /\ l # k
          OBVIOUS
    <3>2. q.costs[l] = r.costs[l]
          BY <1>4, <3>1
    <3> QED BY <1>4, <2>1, <3>2 DEF CellIs
  <2>2. CASE j # k
    <3>1. j \in 1 .. l /\ j \in 0 .. n /\ j - 1 \in 0 .. n /\ j - 1 # k
          BY <2>2
    <3>2. q.costs[j] = r.costs[j] /\ q.costs[j - 1] = r.costs[j - 1]
          BY <1>4, <2>2, <3>1
    <3>3. CellIs(r.costs, old, c, t, j)
          BY <3>1 DEF InPlace
    <3> QED BY <3>2, <3>3 DEF CellIs
  <2> QED BY <2>1, <2>2
<1>8. ASSUME NEW j \in k + 1 .. n PROVE q.costs[j] = old[j]
  <2>1. j \in l + 1 .. n /\ j \in 0 .. n /\ j # k
        OBVIOUS
  <2> QED BY <1>4, <2>1 DEF InPlace
<1> QED BY <1>5, <1>6, <1>7, <1>8 DEF InPlace

\* NextCosts gives the next row, although it overwrites the last one.
LEMMA RowIsNext ==
    ASSUME NEW t, NEW n \in Nat, n = Len(t), NEW old \in [0 .. n -> Nat], NEW i \in Nat, i > 0,
           NEW c
    PROVE  /\ NextCosts(old, i, c, t) \in [0 .. n -> Nat]
           /\ old[0] = i - 1 => IsNextRow(NextCosts(old, i, c, t), old, i, c, t)
<1> DEFINE R(s) == RowRead(old, i, c, t, s)
           E == 1 .. n
           G(k) == R(UpTo(k))
           T == {k \in 0 .. n : InPlace(G(k), old, i, c, t, k)}
<1>1. /\ R(<<>>) = RowStart(old, i)
      /\ \A s \in Seq(E), x \in E : R(s) \in Rows(n) /\ R(Append(s, x)) = RowStep(R(s), c, t, x)
  <2>1. RowIn(old, i, E, n)
        BY DEF RowIn
  <2> HIDE DEF E
  <2> QED BY <2>1, RowFold
<1> HIDE DEF R
<1>2. /\ UpTo(0) = <<>>
      /\ \A k \in 0 .. n : UpTo(k) \in Seq(E)
      /\ \A k \in 1 .. n : UpTo(k) = Append(UpTo(k - 1), k)
      BY UpToGrows
<1>3. G(0) = RowStart(old, i) /\ G(0) \in Rows(n)
  <2>1. RowStart(old, i) \in Rows(n)
        BY DEF RowStart, Rows
  <2> QED BY <1>1, <1>2, <2>1
<1>4. ASSUME NEW k \in 1 .. n
      PROVE  G(k - 1) \in Rows(n) /\ G(k) = RowStep(G(k - 1), c, t, k)
  <2>1. k - 1 \in 0 .. n
        OBVIOUS
  <2>2. UpTo(k - 1) \in Seq(E) /\ UpTo(k) = Append(UpTo(k - 1), k) /\ k \in E
        BY <1>2, <2>1
  <2> QED BY <1>1, <2>2
<1>5. ASSUME NEW k \in 1 .. n PROVE G(k) \in Rows(n)
  <2>1. /\ G(k - 1).costs \in [0 .. n -> Nat] /\ G(k - 1).corner \in Nat
        /\ G(k - 1).costs[k] \in Nat /\ G(k - 1).costs[k - 1] \in Nat
    <3>1. G(k - 1) \in Rows(n) /\ k \in 0 .. n /\ k - 1 \in 0 .. n
          BY <1>4
    <3> HIDE DEF G
    <3> QED BY <3>1 DEF Rows
  <2>2. LeastOf(G(k - 1).costs[k], G(k - 1).corner, G(k - 1).costs[k - 1]) \in Nat
        BY <2>1, LeastIsLeast
  <2> HIDE DEF G
  <2>3. RowStep(G(k - 1), c, t, k) \in Rows(n)
        BY <1>4, <2>1, <2>2, RowStepIn
  <2> QED BY <1>4, <2>3
<1> HIDE DEF G
<1>6. G(n) \in Rows(n)
      BY <1>3, <1>5
<1>7. NextCosts(old, i, c, t) = G(n).costs
      BY RowReads DEF G, R
<1>8. ASSUME old[0] = i - 1 PROVE InPlace(G(n), old, i, c, t, n)
  <2>1. 0 \in T
    <3> DEFINE g == G(0).costs
    <3>0. RowStart(old, i).corner = i - 1 /\ RowStart(old, i).costs = [old EXCEPT ![0] = i]
          BY DEF RowStart
    <3>1. G(0).corner = i - 1 /\ g = [old EXCEPT ![0] = i]
          BY <1>3, <3>0, Zenon
    <3>2. g[0] = i /\ \A j \in 1 .. n : g[j] = old[j]
      <4> HIDE DEF g
      <4> QED BY <3>1
    <3> QED BY <1>8, <3>1, <3>2 DEF InPlace
  <2>2. ASSUME NEW k \in 1 .. n, k - 1 \in T PROVE k \in T
    <3> DEFINE l == k - 1
    <3>1. l \in Nat /\ InPlace(G(l), old, i, c, t, l)
          BY <2>2
    <3>2. G(l) \in Rows(n) /\ G(k) = RowStep(G(l), c, t, k)
          BY <1>4
    <3>0. l = k - 1
          OBVIOUS
    <3> HIDE DEF l
    <3>3. InPlace(G(k), old, i, c, t, k)
          BY <3>0, <3>1, <3>2, InPlaceStep
    <3> QED BY <3>3
  <2> HIDE DEF T
  <2>3. \A k \in 0 .. n : k \in T
        BY <2>1, <2>2, InductionTo
  <2> QED BY <2>3 DEF T
<1>9. G(n).costs \in [0 .. n -> Nat]
      BY <1>6 DEF Rows
<1> QED BY <1>7, <1>8, <1>9 DEF IsNextRow, InPlace

\* levenshteinDistance over the first characters of s1 only.
FirstRow(s2) == [k \in 0 .. Len(s2) |-> k]
NextRow(costs, i, s1, s2) == NextCosts(costs, i, s1[i], s2)
RowsRead(s1, s2, s) == FoldLeft(LAMBDA costs, i : NextRow(costs, i, s1, s2), FirstRow(s2), s)

\* levenshteinDistance is this fold over all characters, unless a string is empty.
LEMMA RowsReads ==
    ASSUME NEW s1, NEW s2
    PROVE  levenshteinDistance(s1, s2) =
              IF s1 = <<>> THEN Len(s2) ELSE IF s2 = <<>> THEN Len(s1)
              ELSE RowsRead(s1, s2, UpTo(Len(s1)))[Len(s2)]
BY Zenon DEF levenshteinDistance, RowsRead, NextRow, FirstRow

\* The rows are computed one by one.
LEMMA RowsFold ==
    ASSUME NEW s1, NEW s2, NEW E, NEW w, RowsIn(E, s2, w)
    PROVE  /\ RowsRead(s1, s2, <<>>) = FirstRow(s2)
           /\ \A s \in Seq(E), x \in E :
                 /\ RowsRead(s1, s2, s) \in [0 .. w -> Nat]
                 /\ RowsRead(s1, s2, Append(s, x)) = NextRow(RowsRead(s1, s2, s), x, s1, s2)
<1> DEFINE D == [0 .. w -> Nat]
           b == FirstRow(s2)
           step == [p \in D |-> [l \in E |-> NextRow(p, l, s1, s2)]]
           Eq(g, s) == g = [t \in SUBSET (DOMAIN s) |->
                              IF t = {} THEN b
                              ELSE NextRow(g[t \ {Max(t)}], s[Max(t)], s1, s2)]
           c(s) == CHOOSE g : Eq(g, s)
<1>1. b \in D /\ step \in [D -> [E -> D]]
  <2>1. b \in D
        BY DEF FirstRow, RowsIn
  <2>2. ASSUME NEW p \in D, NEW l \in E PROVE NextRow(p, l, s1, s2) \in D
    <3>1. l \in Nat /\ l > 0 /\ w \in Nat /\ w = Len(s2)
          BY DEF RowsIn
    <3> QED BY <3>1, RowIsNext DEF NextRow, IsNextRow
  <2> QED BY <2>1, <2>2
<1>2. ASSUME NEW s PROVE RowsRead(s1, s2, s) = c(s)[DOMAIN s]
      BY Zenon DEF RowsRead, NextRow, FirstRow, FoldLeft, MapThenFoldSet
<1>3. ASSUME NEW s \in Seq(E) PROVE Follows(c(s), D, E, b, step, s, Len(s))
  <2> DEFINE n == Len(s)
  <2>1. n \in Nat /\ s \in [1 .. n -> E] /\ DOMAIN s = 1 .. n
        OBVIOUS
  <2> HIDE DEF b, n, step, D
  <2>2. PICK g : IsFold(g, D, b, step, s, n)
        BY <1>1, <2>1, FoldExists
  <2>3. ASSUME NEW t \in SUBSET (1 .. n), t # {}
        PROVE  s[Max(t)] \in E /\ g[t \ {Max(t)}] \in D
    <3>1. Max(t) \in 1 .. n
          BY <2>1, <2>3, MaxInside
    <3> QED BY <2>1, <2>2, <3>1 DEF IsFold
  <2>4. Eq(g, s)
        BY <2>1, <2>2, <2>3 DEF IsFold, step
  <2>5. Eq(c(s), s)
        BY <2>4
  <2> HIDE DEF c
  <2> QED BY <2>1, <2>5 DEF Follows, step, n
<1> HIDE DEF b, c, step, D
<1>4. RowsRead(s1, s2, <<>>) = b
  <2>1. <<>> \in Seq(E) /\ Len(<<>>) = 0 /\ DOMAIN <<>> = 1 .. 0
        OBVIOUS
  <2> QED BY <1>2, <1>3, <2>1, FoldNone
<1>5. ASSUME NEW s \in Seq(E), NEW x \in E
      PROVE  /\ RowsRead(s1, s2, s) \in D
             /\ RowsRead(s1, s2, Append(s, x)) = NextRow(RowsRead(s1, s2, s), x, s1, s2)
  <2> DEFINE u == Append(s, x)
             n == Len(s)
             m == n + 1
  <2>1. DOMAIN s = 1 .. n /\ DOMAIN u = 1 .. m /\ u \in Seq(E) /\ Len(u) = m
        OBVIOUS
  <2>2. Longer(u, m, s, n, x) /\ u = Append(s, x)
        BY DEF Longer
  <2> HIDE DEF u, n, m
  <2> DEFINE f == c(s)
             h == c(u)
  <2>3. Follows(f, D, E, b, step, s, n) /\ Follows(h, D, E, b, step, u, m)
        BY <1>3, <2>1, <2>2 DEF Longer
  <2> HIDE DEF f, h
  <2>4. f[1 .. n] \in D /\ h[1 .. m] = step[f[1 .. n]][x]
        BY <1>1, <2>2, <2>3, FoldStep
  <2>5. RowsRead(s1, s2, s) \in D /\ RowsRead(s1, s2, u) = step[RowsRead(s1, s2, s)][x]
        BY <1>2, <2>1, <2>4 DEF f, h
  <2> QED BY <2>2, <2>5 DEF step
<1> QED BY <1>4, <1>5 DEF b, D

\* Numbers that differ by at most 1, and rows of such numbers.
Near(x, y) == x <= y + 1 /\ y <= x + 1
Smooth(row, n) == \A j \in 1 .. n : Near(row[j - 1], row[j])

\* A cell by the recurrence of the code, and by the definition of the distance,
\* from the cells above, left of it and in the corner.
CodeCell(same, u, x, l) == IF same THEN x ELSE LeastOf(u, x, l) + 1
TrueCell(same, u, x, l) == LeastOf(u + 1, l + 1, x + (IF same THEN 0 ELSE 1))

\* Both are the same where neighbours differ by at most 1, and then the new
\* cell and its neighbours do, too.
LEMMA CellsAgree ==
    ASSUME NEW u \in Nat, NEW x \in Nat, NEW l \in Nat, NEW same \in BOOLEAN,
           Near(x, u), Near(x, l)
    PROVE  /\ CodeCell(same, u, x, l) \in Nat
           /\ CodeCell(same, u, x, l) = TrueCell(same, u, x, l)
           /\ Near(u, CodeCell(same, u, x, l))
           /\ Near(l, CodeCell(same, u, x, l))
<1> DEFINE a == LeastOf(u, x, l)
           y == x + (IF same THEN 0 ELSE 1)
           b == LeastOf(u + 1, l + 1, y)
<1>1. a \in Nat /\ (a = u \/ a = x \/ a = l) /\ a <= u /\ a <= x /\ a <= l
      BY LeastIsLeast
<1>2. u + 1 \in Nat /\ l + 1 \in Nat /\ y \in Nat
      OBVIOUS
<1>3. b \in Nat /\ (b = u + 1 \/ b = l + 1 \/ b = y) /\ b <= u + 1 /\ b <= l + 1 /\ b <= y
  <2> HIDE DEF y
  <2> QED BY <1>2, LeastIsLeast
<1>4. CASE same
  <2>1. y = x
        BY <1>4
  <2>2. CodeCell(same, u, x, l) = x /\ TrueCell(same, u, x, l) = b
        BY <1>4 DEF CodeCell, TrueCell
  <2> HIDE DEF a, b, y
  <2>3. b = x
        BY <1>3, <2>1 DEF Near
  <2> QED BY <2>2, <2>3 DEF Near
<1>5. CASE ~ same
  <2>1. y = x + 1
        BY <1>5
  <2>2. CodeCell(same, u, x, l) = a + 1 /\ TrueCell(same, u, x, l) = b
        BY <1>5 DEF CodeCell, TrueCell
  <2> HIDE DEF a, b, y
  <2>3. b = a + 1
        BY <1>1, <1>3, <2>1
  <2>4. a + 1 \in Nat /\ Near(u, a + 1) /\ Near(l, a + 1)
        BY <1>1 DEF Near
  <2> QED BY <2>2, <2>3, <2>4
<1> QED BY <1>4, <1>5

\* row is the row behind old, by the definition of the distance.
IsTrueRow(row, old, c, t, n) ==
    \A j \in 1 .. n : row[j] = TrueCell(c = t[j], old[j], old[j - 1], row[j - 1])

\* The next row is as smooth as the last one, and next to it.
LEMMA NextIsSmooth ==
    ASSUME NEW t, NEW n \in Nat, n = Len(t), NEW old \in [0 .. n -> Nat], Smooth(old, n),
           NEW row, NEW i \in Nat, NEW c, IsNextRow(row, old, i, c, t), old[0] = i - 1
    PROVE  /\ Smooth(row, n)
           /\ IsTrueRow(row, old, c, t, n)
<1> DEFINE Good(j) == Near(old[j], row[j])
           T == {j \in 0 .. n : Good(j)}
<1>1. row \in [0 .. n -> Nat] /\ row[0] = i
      BY DEF IsNextRow
<1>2. 0 \in T
  <2>1. Near(i - 1, i)
        BY DEF Near
  <2> QED BY <1>1, <2>1
<1>3. ASSUME NEW j \in 1 .. n, Good(j - 1)
      PROVE  /\ Good(j) /\ Near(row[j - 1], row[j])
             /\ row[j] = TrueCell(c = t[j], old[j], old[j - 1], row[j - 1])
  <2> DEFINE u == old[j]
             x == old[j - 1]
             l == row[j - 1]
             same == c = t[j]
  <2>1. u \in Nat /\ x \in Nat /\ l \in Nat /\ same \in BOOLEAN
        BY <1>1
  <2>2. Near(x, u) /\ Near(x, l)
        BY <1>3 DEF Smooth
  <2>3. row[j] = CodeCell(same, u, x, l)
        BY DEF IsNextRow, CellIs, CodeCell
  <2> HIDE DEF u, x, l, same
  <2>4. /\ CodeCell(same, u, x, l) = TrueCell(same, u, x, l)
        /\ Near(u, CodeCell(same, u, x, l)) /\ Near(l, CodeCell(same, u, x, l))
        BY <2>1, <2>2, CellsAgree
  <2>5. Near(u, row[j]) /\ Near(l, row[j]) /\ row[j] = TrueCell(same, u, x, l)
        BY <2>3, <2>4
  <2> QED BY <2>5 DEF u, x, l, same
<1> HIDE DEF Good
<1>4. \A j \in 0 .. n : Good(j)
  <2>1. ASSUME NEW j \in 1 .. n, j - 1 \in T PROVE j \in T
        BY <1>3, <2>1
  <2> HIDE DEF T
  <2>2. \A j \in 0 .. n : j \in T
        BY <1>2, <2>1, InductionTo
  <2> QED BY <2>2 DEF T
<1>5. \A j \in 1 .. n : Good(j - 1)
      BY <1>4
<1> QED BY <1>3, <1>5 DEF Smooth, IsTrueRow

\* W has the rows of the table of distances of s and t.
IsTableOf(W, s, t) ==
    /\ \A i \in 0 .. Len(s) : W[i] \in [0 .. Len(t) -> Nat] /\ W[i][0] = i
    /\ \A j \in 0 .. Len(t) : W[0][j] = j
    /\ \A i \in 1 .. Len(s), j \in 1 .. Len(t) :
          W[i][j] = TrueCell(s[i] = t[j], W[i - 1][j], W[i - 1][j - 1], W[i][j - 1])

\* The fold of levenshteinDistance makes this table, one row after the other.
LEMMA RowsAreTable ==
    ASSUME NEW C, NEW s \in Seq(C), NEW t \in Seq(C)
    PROVE  IsTableOf([i \in 0 .. Len(s) |-> RowsRead(s, t, UpTo(i))], s, t)
<1> DEFINE m == Len(s)
           n == Len(t)
           R(q) == RowsRead(s, t, q)
           E == 1 .. m
           G(k) == R(UpTo(k))
           Good(k) == G(k) \in [0 .. n -> Nat] /\ G(k)[0] = k /\ Smooth(G(k), n)
           T == {k \in 0 .. m : Good(k)}
<1>0. m \in Nat /\ n \in Nat /\ n = Len(t)
      OBVIOUS
<1>1. /\ R(<<>>) = FirstRow(t)
      /\ \A q \in Seq(E), x \in E : R(Append(q, x)) = NextRow(R(q), x, s, t)
  <2>1. RowsIn(E, t, n)
        BY <1>0 DEF RowsIn
  <2> HIDE DEF E, n
  <2> QED BY <2>1, RowsFold
<1> HIDE DEF R, m, n
<1>2. /\ UpTo(0) = <<>>
      /\ \A k \in 0 .. m : UpTo(k) \in Seq(E)
      /\ \A k \in 1 .. m : UpTo(k) = Append(UpTo(k - 1), k)
      BY <1>0, UpToGrows
<1>3. G(0) = FirstRow(t)
      BY <1>1, <1>2
<1>4. ASSUME NEW k \in 1 .. m
      PROVE  G(k) = NextCosts(G(k - 1), k, s[k], t)
  <2>1. k - 1 \in 0 .. m
        BY <1>0
  <2>2. UpTo(k - 1) \in Seq(E) /\ UpTo(k) = Append(UpTo(k - 1), k) /\ k \in E
        BY <1>2, <2>1
  <2> QED BY <1>1, <2>2 DEF NextRow
<1> HIDE DEF G, E
<1>5. Good(0) /\ \A j \in 0 .. n : G(0)[j] = j
  <2>1. G(0) = [k \in 0 .. n |-> k]
        BY <1>3 DEF FirstRow, n
  <2>2. Smooth(G(0), n)
    <3>1. ASSUME NEW j \in 1 .. n PROVE Near(j - 1, j)
          BY <1>0 DEF Near
    <3>2. \A j \in 1 .. n : j \in 0 .. n /\ j - 1 \in 0 .. n
          BY <1>0
    <3> QED BY <2>1, <3>1, <3>2 DEF Smooth
  <2> QED BY <1>0, <2>1, <2>2
<1>6. ASSUME NEW k \in 1 .. m, Good(k - 1)
      PROVE  /\ Good(k)
             /\ IsTrueRow(G(k), G(k - 1), s[k], t, n)
  <2> DEFINE old == G(k - 1)
             row == G(k)
             c == s[k]
  <2>1. old \in [0 .. n -> Nat] /\ old[0] = k - 1 /\ Smooth(old, n) /\ k \in Nat /\ k > 0
        BY <1>0, <1>6
  <2>2. row = NextCosts(old, k, c, t)
        BY <1>4
  <2> HIDE DEF old, row, c
  <2>3. row \in [0 .. n -> Nat] /\ IsNextRow(row, old, k, c, t)
        BY <1>0, <2>1, <2>2, RowIsNext
  <2>4. /\ Smooth(row, n)
        /\ IsTrueRow(row, old, c, t, n)
        BY <1>0, <2>1, <2>3, NextIsSmooth
  <2>5. row[0] = k
        BY <2>3 DEF IsNextRow
  <2> QED BY <2>3, <2>4, <2>5 DEF old, row, c
<1>7. \A k \in 0 .. m : Good(k)
  <2> HIDE DEF Good
  <2>1. 0 \in T
        BY <1>0, <1>5
  <2>2. ASSUME NEW k \in 1 .. m, k - 1 \in T PROVE k \in T
        BY <1>6, <2>2
  <2> HIDE DEF T
  <2>3. \A k \in 0 .. m : k \in T
        BY <1>0, <2>1, <2>2, InductionTo
  <2> QED BY <2>3 DEF T
<1> DEFINE W == [i \in 0 .. m |-> G(i)]
<1>8. \A k \in 1 .. m : k \in 0 .. m /\ k - 1 \in 0 .. m
      BY <1>0
<1>9. IsTableOf(W, s, t)
  <2>1. \A i \in 0 .. m : W[i] = G(i)
        OBVIOUS
  <2>2. 0 \in 0 .. m
        BY <1>0
  <2> HIDE DEF W
  <2>3. \A i \in 0 .. m : W[i] \in [0 .. n -> Nat] /\ W[i][0] = i
        BY <1>7, <2>1
  <2>4. \A j \in 0 .. n : W[0][j] = j
        BY <1>5, <2>1, <2>2
  <2>5. ASSUME NEW i \in 1 .. m, NEW j \in 1 .. n
        PROVE  W[i][j] = TrueCell(s[i] = t[j], W[i - 1][j], W[i - 1][j - 1], W[i][j - 1])
    <3>1. Good(i - 1) /\ W[i] = G(i) /\ W[i - 1] = G(i - 1)
          BY <1>7, <1>8, <2>1
    <3> HIDE DEF Good
    <3>2. G(i)[j] = TrueCell(s[i] = t[j], G(i - 1)[j], G(i - 1)[j - 1], G(i)[j - 1])
          BY <1>6, <3>1 DEF IsTrueRow
    <3> QED BY <3>1, <3>2
  <2> QED BY <2>3, <2>4, <2>5 DEF IsTableOf, m, n
<1> QED BY <1>9 DEF G, R, m

\* The function that Distance is defined with.
Cells(s, t) == (0 .. Len(s)) \X (0 .. Len(t))
Cell(d, s, t, p) ==
    IF 0 \in {p[1], p[2]} THEN p[1] + p[2]
    ELSE TrueCell(s[p[1]] = t[p[2]], d[<<p[1] - 1, p[2]>>], d[<<p[1] - 1, p[2] - 1>>],
                  d[<<p[1], p[2] - 1>>])
Distances(d, s, t) == d = [p \in Cells(s, t) |-> Cell(d, s, t, p)]

\* Distance looks up its last cell.
LEMMA DistanceIs ==
    ASSUME NEW s, NEW t
    PROVE  Distance(s, t) = (CHOOSE d : Distances(d, s, t))[<<Len(s), Len(t)>>]
BY Zenon DEF Distance, Distances, Cell, Cells, TrueCell, LeastOf

\* A table of the distances is such a function ...
LEMMA TableIsDistances ==
    ASSUME NEW C, NEW s \in Seq(C), NEW t \in Seq(C), NEW W, IsTableOf(W, s, t),
           NEW d, d = [p \in Cells(s, t) |-> W[p[1]][p[2]]]
    PROVE  Distances(d, s, t)
<1> DEFINE m == Len(s)
           n == Len(t)
<1>0. m \in Nat /\ n \in Nat
      OBVIOUS
<1>1. \A i \in 0 .. m, j \in 0 .. n : d[<<i, j>>] = W[i][j]
      BY DEF Cells
<1>2. ASSUME NEW i \in 0 .. m, NEW j \in 0 .. n
      PROVE  W[i][j] = Cell(d, s, t, <<i, j>>)
  <2>1. CASE i = 0
    <3>1. Cell(d, s, t, <<i, j>>) = j
          BY <1>0, <2>1 DEF Cell
    <3> QED BY <2>1, <3>1 DEF IsTableOf
  <2>2. CASE j = 0
    <3>1. Cell(d, s, t, <<i, j>>) = i
          BY <1>0, <2>2 DEF Cell
    <3> QED BY <2>2, <3>1 DEF IsTableOf
  <2>3. CASE i # 0 /\ j # 0
    <3>1. i \in 1 .. m /\ j \in 1 .. n /\ i - 1 \in 0 .. m /\ j - 1 \in 0 .. n
          BY <1>0, <2>3
    <3>2. W[i][j] = TrueCell(s[i] = t[j], W[i - 1][j], W[i - 1][j - 1], W[i][j - 1])
          BY <3>1 DEF IsTableOf
    <3>3. /\ d[<<i - 1, j>>] = W[i - 1][j] /\ d[<<i - 1, j - 1>>] = W[i - 1][j - 1]
          /\ d[<<i, j - 1>>] = W[i][j - 1]
          BY <1>1, <3>1
    <3>4. Cell(d, s, t, <<i, j>>) =
             TrueCell(s[i] = t[j], d[<<i - 1, j>>], d[<<i - 1, j - 1>>], d[<<i, j - 1>>])
          BY <2>3 DEF Cell
    <3> QED BY <3>2, <3>3, <3>4
  <2> QED BY <2>1, <2>2, <2>3
<1>3. ASSUME NEW p \in Cells(s, t) PROVE W[p[1]][p[2]] = Cell(d, s, t, p)
  <2>1. p[1] \in 0 .. m /\ p[2] \in 0 .. n /\ p = <<p[1], p[2]>>
        BY DEF Cells
  <2>2. W[p[1]][p[2]] = Cell(d, s, t, <<p[1], p[2]>>)
        BY <1>2, <2>1
  <2> QED BY <2>1, <2>2
<1>4. [p \in Cells(s, t) |-> W[p[1]][p[2]]] = [p \in Cells(s, t) |-> Cell(d, s, t, p)]
      BY <1>3, Zenon
<1> QED BY <1>4, Zenon DEF Distances

\* ... and the only one.
LEMMA DistancesAreTable ==
    ASSUME NEW C, NEW s \in Seq(C), NEW t \in Seq(C), NEW W, IsTableOf(W, s, t),
           NEW d, Distances(d, s, t)
    PROVE  d[<<Len(s), Len(t)>>] = W[Len(s)][Len(t)]
<1> DEFINE m == Len(s)
           n == Len(t)
           Same(i, j) == d[<<i, j>>] = W[i][j]
           Row(i) == \A j \in 0 .. n : Same(i, j)
           T == {i \in 0 .. m : Row(i)}
<1>0. m \in Nat /\ n \in Nat
      OBVIOUS
<1>1. ASSUME NEW i \in 0 .. m, NEW j \in 0 .. n
      PROVE  d[<<i, j>>] = Cell(d, s, t, <<i, j>>)
  <2>1. <<i, j>> \in Cells(s, t)
        BY DEF Cells
  <2> QED BY <2>1 DEF Distances
<1>2. ASSUME NEW j \in 0 .. n PROVE Same(0, j)
  <2>1. 0 \in 0 .. m
        BY <1>0
  <2>2. d[<<0, j>>] = Cell(d, s, t, <<0, j>>)
        BY <1>1, <2>1
  <2>3. Cell(d, s, t, <<0, j>>) = j
        BY <1>0 DEF Cell
  <2> QED BY <2>2, <2>3 DEF IsTableOf
<1>3. ASSUME NEW i \in 0 .. m PROVE Same(i, 0)
  <2>1. 0 \in 0 .. n
        BY <1>0
  <2>2. d[<<i, 0>>] = Cell(d, s, t, <<i, 0>>)
        BY <1>1, <2>1
  <2>3. Cell(d, s, t, <<i, 0>>) = i
        BY <1>0 DEF Cell
  <2> QED BY <2>2, <2>3 DEF IsTableOf
<1>4. ASSUME NEW i \in 1 .. m, NEW j \in 1 .. n,
             Same(i - 1, j), Same(i - 1, j - 1), Same(i, j - 1)
      PROVE  Same(i, j)
  <2>1. i \in 0 .. m /\ j \in 0 .. n /\ i # 0 /\ j # 0
        BY <1>0
  <2>2. W[i][j] = TrueCell(s[i] = t[j], W[i - 1][j], W[i - 1][j - 1], W[i][j - 1])
        BY DEF IsTableOf
  <2>3. Cell(d, s, t, <<i, j>>) =
           TrueCell(s[i] = t[j], d[<<i - 1, j>>], d[<<i - 1, j - 1>>], d[<<i, j - 1>>])
        BY <2>1 DEF Cell
  <2>4. d[<<i, j>>] = Cell(d, s, t, <<i, j>>)
        BY <1>1, <2>1
  <2> QED BY <1>4, <2>2, <2>3, <2>4
<1> HIDE DEF Same, m, n
<1>5. 0 \in T
      BY <1>0, <1>2
<1>6. ASSUME NEW i \in 1 .. m, i - 1 \in T PROVE i \in T
  <2> DEFINE U == {j \in 0 .. n : Same(i, j)}
  <2>1. i \in 0 .. m
        BY <1>0
  <2>2. 0 \in U
        BY <1>0, <1>3, <2>1
  <2>3. ASSUME NEW j \in 1 .. n, j - 1 \in U PROVE j \in U
    <3>1. j \in 0 .. n /\ j - 1 \in 0 .. n
          BY <1>0
    <3>2. Same(i - 1, j) /\ Same(i - 1, j - 1)
          BY <1>6, <3>1
    <3> QED BY <1>4, <2>3, <3>1, <3>2
  <2> HIDE DEF U
  <2>4. \A j \in 0 .. n : j \in U
        BY <1>0, <2>2, <2>3, InductionTo
  <2> QED BY <2>1, <2>4 DEF U
<1> HIDE DEF T
<1>7. \A i \in 0 .. m : i \in T
      BY <1>0, <1>5, <1>6, InductionTo
<1>8. m \in 0 .. m /\ n \in 0 .. n
      BY <1>0
<1>9. Same(m, n)
      BY <1>7, <1>8 DEF T
<1> QED BY <1>9 DEF Same, m, n

\* Whatever the two strings: the single row of costs that levenshteinDistance
\* overwrites character by character gives their edit distance.
THEOREM RowGivesDistance ==
    ASSUME NEW C, NEW s \in Seq(C), NEW t \in Seq(C)
    PROVE  levenshteinDistance(s, t) = Distance(s, t) /\ Distance(s, t) \in Nat
<1> DEFINE m == Len(s)
           n == Len(t)
           W == [i \in 0 .. m |-> RowsRead(s, t, UpTo(i))]
           d == [p \in Cells(s, t) |-> W[p[1]][p[2]]]
           e == CHOOSE f : Distances(f, s, t)
<1>0. m \in Nat /\ n \in Nat /\ m \in 0 .. m /\ n \in 0 .. n
      OBVIOUS
<1>1. IsTableOf(W, s, t)
      BY RowsAreTable
<1>2. W[m] = RowsRead(s, t, UpTo(m))
      BY <1>0
<1> HIDE DEF W
<1>3. Distances(d, s, t)
      BY <1>1, TableIsDistances
<1> HIDE DEF d
<1>4. Distances(e, s, t)
      BY <1>3
<1> HIDE DEF e
<1>5. e[<<m, n>>] = W[m][n]
      BY <1>1, <1>4, DistancesAreTable
<1>6. Distance(s, t) = e[<<m, n>>]
      BY DistanceIs DEF e
<1>7. W[m][n] \in Nat
      BY <1>0, <1>1 DEF IsTableOf
<1>8. levenshteinDistance(s, t) = W[m][n]
  <2>1. levenshteinDistance(s, t) =
           IF s = <<>> THEN n ELSE IF t = <<>> THEN m ELSE W[m][n]
        BY <1>2, RowsReads
  <2>2. CASE s = <<>>
    <3>1. m = 0
          BY <2>2
    <3>2. W[0][n] = n
          BY <1>0, <1>1 DEF IsTableOf
    <3> QED BY <2>1, <2>2, <3>1, <3>2
  <2>3. CASE s # <<>> /\ t = <<>>
    <3>1. n = 0
          BY <2>3
    <3>2. W[m][0] = m
          BY <1>0, <1>1 DEF IsTableOf
    <3> QED BY <2>1, <2>3, <3>1, <3>2
  <2> QED BY <2>1, <2>2, <2>3
<1> QED BY <1>5, <1>6, <1>7, <1>8

\* What closestMatch finds.
Matches(E) == [distance : Nat, match : E \cup {<<>>}]
NoMatch == [distance |-> HighValue, match |-> <<>>]
HasDistances(wanted, E) ==
    \A name \in E : /\ levenshteinDistance(wanted, name) \in Nat
                    /\ levenshteinDistance(wanted, name) = Distance(wanted, name)

\* closestMatch looks at the names one by one.
LEMMA ClosestFold ==
    ASSUME NEW wanted, NEW E, HasDistances(wanted, E)
    PROVE  /\ closestMatch(wanted, <<>>) = NoMatch
           /\ \A s \in Seq(E), x \in E :
                 /\ closestMatch(wanted, s) \in Matches(E)
                 /\ closestMatch(wanted, Append(s, x)) = Closer(closestMatch(wanted, s), wanted, x)
<1> DEFINE D == Matches(E)
           b == NoMatch
           step == [p \in D |-> [l \in E |-> Closer(p, wanted, l)]]
           Eq(g, s) == g = [t \in SUBSET (DOMAIN s) |->
                              IF t = {} THEN b
                              ELSE Closer(g[t \ {Max(t)}], wanted, s[Max(t)])]
           c(s) == CHOOSE g : Eq(g, s)
<1>1. b \in D /\ step \in [D -> [E -> D]]
  <2>1. b \in D
        BY DEF Matches, NoMatch, HighValue
  <2>2. ASSUME NEW p \in D, NEW l \in E PROVE Closer(p, wanted, l) \in D
        BY DEF Matches, Closer, HasDistances
  <2> QED BY <2>1, <2>2
<1>2. ASSUME NEW s PROVE closestMatch(wanted, s) = c(s)[DOMAIN s]
      BY Zenon DEF closestMatch, NoMatch, FoldLeft, MapThenFoldSet
<1>3. ASSUME NEW s \in Seq(E) PROVE Follows(c(s), D, E, b, step, s, Len(s))
  <2> DEFINE n == Len(s)
  <2>1. n \in Nat /\ s \in [1 .. n -> E] /\ DOMAIN s = 1 .. n
        OBVIOUS
  <2> HIDE DEF b, n, step, D
  <2>2. PICK g : IsFold(g, D, b, step, s, n)
        BY <1>1, <2>1, FoldExists
  <2>3. ASSUME NEW t \in SUBSET (1 .. n), t # {}
        PROVE  s[Max(t)] \in E /\ g[t \ {Max(t)}] \in D
    <3>1. Max(t) \in 1 .. n
          BY <2>1, <2>3, MaxInside
    <3> QED BY <2>1, <2>2, <3>1 DEF IsFold
  <2>4. Eq(g, s)
        BY <2>1, <2>2, <2>3 DEF IsFold, step
  <2>5. Eq(c(s), s)
        BY <2>4
  <2> HIDE DEF c
  <2> QED BY <2>1, <2>5 DEF Follows, step, n
<1> HIDE DEF b, c, step, D
<1>4. closestMatch(wanted, <<>>) = b
  <2>1. <<>> \in Seq(E) /\ Len(<<>>) = 0 /\ DOMAIN <<>> = 1 .. 0
        OBVIOUS
  <2> QED BY <1>2, <1>3, <2>1, FoldNone
<1>5. ASSUME NEW s \in Seq(E), NEW x \in E
      PROVE  /\ closestMatch(wanted, s) \in D
             /\ closestMatch(wanted, Append(s, x)) = Closer(closestMatch(wanted, s), wanted, x)
  <2> DEFINE u == Append(s, x)
             n == Len(s)
             m == n + 1
  <2>1. DOMAIN s = 1 .. n /\ DOMAIN u = 1 .. m /\ u \in Seq(E) /\ Len(u) = m
        OBVIOUS
  <2>2. Longer(u, m, s, n, x) /\ u = Append(s, x)
        BY DEF Longer
  <2> HIDE DEF u, n, m
  <2> DEFINE f == c(s)
             h == c(u)
  <2>3. Follows(f, D, E, b, step, s, n) /\ Follows(h, D, E, b, step, u, m)
        BY <1>3, <2>1, <2>2 DEF Longer
  <2> HIDE DEF f, h
  <2>4. f[1 .. n] \in D /\ h[1 .. m] = step[f[1 .. n]][x]
        BY <1>1, <2>2, <2>3, FoldStep
  <2>5. closestMatch(wanted, s) \in D /\ closestMatch(wanted, u) = step[closestMatch(wanted, s)][x]
        BY <1>2, <2>1, <2>4 DEF f, h
  <2> QED BY <2>2, <2>5 DEF step
<1> QED BY <1>4, <1>5 DEF b, D

\* What is known of the match after some of the names.
ClosestInv(best, wanted, names) ==
    /\ best.distance \in Nat /\ best.distance <= HighValue
    /\ \A name \in ToSet(names) : best.distance <= Distance(wanted, name)
    /\ best.distance < HighValue =>
          best.match \in ToSet(names) /\ best.distance = Distance(wanted, best.match)

\* One more name.
LEMMA ClosestStep ==
    ASSUME NEW E, NEW wanted, HasDistances(wanted, E), NEW names \in Seq(E), NEW name \in E,
           NEW best, ClosestInv(best, wanted, names)
    PROVE  ClosestInv(Closer(best, wanted, name), wanted, Append(names, name))
<1> DEFINE x == Distance(wanted, name)
           q == Closer(best, wanted, name)
           S == ToSet(names)
           R == ToSet(Append(names, name))
<1>0. HighValue \in Nat
      BY DEF HighValue
<1>1. x \in Nat /\ levenshteinDistance(wanted, name) = x
      BY DEF HasDistances
<1>2. R = S \cup {name}
      BY ToSetAppend
<1>3. \A o \in E : Distance(wanted, o) \in Nat
      BY DEF HasDistances
<1>4. q = IF x < best.distance THEN [distance |-> x, match |-> name] ELSE best
      BY <1>1 DEF Closer
<1>5. S \subseteq E
      BY DEF ToSet
<1>6. /\ best.distance \in Nat /\ best.distance <= HighValue
      /\ \A o \in S : best.distance <= Distance(wanted, o)
      /\ best.distance < HighValue =>
            best.match \in S /\ best.distance = Distance(wanted, best.match)
      BY DEF ClosestInv
<1>7. SUFFICES /\ q.distance \in Nat /\ q.distance <= HighValue
               /\ \A o \in R : q.distance <= Distance(wanted, o)
               /\ q.distance < HighValue =>
                     q.match \in R /\ q.distance = Distance(wanted, q.match)
      BY DEF ClosestInv
<1>8. CASE x < best.distance
  <2>1. q.distance = x /\ q.match = name
        BY <1>4, <1>8
  <2> HIDE DEF q, S, R
  <2>2. ASSUME NEW o \in R PROVE x <= Distance(wanted, o)
    <3>1. CASE o = name
          BY <1>1, <3>1
    <3>2. CASE o \in S
      <4> DEFINE y == Distance(wanted, o)
                 z == best.distance
      <4>1. y \in Nat /\ z \in Nat /\ x < z /\ z <= y
            BY <1>3, <1>5, <1>6, <1>8, <3>2
      <4> HIDE DEF x, y, z
      <4>2. x <= y
            BY <1>1, <4>1
      <4> QED BY <4>2 DEF y
    <3> QED BY <1>2, <3>1, <3>2
  <2>3. x <= HighValue
    <3> DEFINE z == best.distance
    <3>1. z \in Nat /\ x < z /\ z <= HighValue
          BY <1>6, <1>8
    <3> HIDE DEF x, z
    <3> QED BY <1>0, <1>1, <3>1
  <2> QED BY <1>1, <1>2, <2>1, <2>2, <2>3
<1>9. CASE ~ (x < best.distance)
  <2>1. q = best
        BY <1>4, <1>9
  <2>2. best.distance <= x
        BY <1>1, <1>6, <1>9
  <2> HIDE DEF q, S, R
  <2> QED BY <1>2, <1>6, <2>1, <2>2
<1> QED BY <1>8, <1>9

\* Whatever the names: the hint is one of those that are closest.
THEOREM ClosestIsClosest ==
    ASSUME NEW C, NEW wanted \in Seq(C), NEW names \in Seq(Seq(C))
    PROVE  IsClosest(closestMatch(wanted, names), wanted, names)
<1> DEFINE E == Seq(C)
           Good(q) == ClosestInv(closestMatch(wanted, q), wanted, q)
           T == {q \in Seq(E) : Good(q)}
<1>1. HasDistances(wanted, E)
      BY RowGivesDistance DEF HasDistances
<1>2. names \in Seq(E)
      OBVIOUS
<1> HIDE DEF E
<1>3. /\ closestMatch(wanted, <<>>) = NoMatch
      /\ \A q \in Seq(E), x \in E :
            closestMatch(wanted, Append(q, x)) = Closer(closestMatch(wanted, q), wanted, x)
      BY <1>1, ClosestFold
<1>4. Good(<<>>)
  <2>1. NoMatch.distance = HighValue /\ HighValue \in Nat
        BY DEF NoMatch, HighValue
  <2> DEFINE e == <<>>
             q == closestMatch(wanted, e)
  <2>2. ToSet(e) = {} /\ q.distance = HighValue
        BY <1>3, <2>1, ToSetEmpty
  <2> HIDE DEF e, q
  <2>3. ClosestInv(q, wanted, e)
        BY <2>1, <2>2 DEF ClosestInv
  <2> QED BY <2>3 DEF q, e
<1>5. ASSUME NEW q \in Seq(E), NEW x \in E, Good(q) PROVE Good(Append(q, x))
  <2> DEFINE best == closestMatch(wanted, q)
  <2>1. closestMatch(wanted, Append(q, x)) = Closer(best, wanted, x)
        BY <1>3
  <2>2. ClosestInv(best, wanted, q)
        BY <1>5
  <2> HIDE DEF best
  <2>3. ClosestInv(Closer(best, wanted, x), wanted, Append(q, x))
        BY <1>1, <2>2, ClosestStep
  <2> QED BY <2>1, <2>3
<1>6. Good(names)
  <2> HIDE DEF Good
  <2>1. <<>> \in T
        BY <1>4
  <2>2. ASSUME NEW q \in Seq(E), NEW x \in E, q \in T PROVE Append(q, x) \in T
        BY <1>5, <2>2
  <2> HIDE DEF T
  <2>3. \A q \in Seq(E) : q \in T
        BY <2>1, <2>2, SeqInduction
  <2> QED BY <1>2, <2>3 DEF T
<1> DEFINE best == closestMatch(wanted, names)
           D == {Distance(wanted, name) : name \in ToSet(names)}
<1>7. /\ best.distance \in Nat /\ best.distance <= HighValue
      /\ \A d \in D : best.distance <= d
      /\ best.distance < HighValue =>
            best.match \in ToSet(names) /\ best.distance = Distance(wanted, best.match)
      BY <1>6 DEF ClosestInv
<1>8. D \subseteq Nat /\ HighValue \in Nat
  <2>1. ToSet(names) \subseteq E
        BY <1>2 DEF ToSet
  <2> QED BY <1>1, <2>1 DEF HasDistances, HighValue
<1>9. best.distance < HighValue => best.distance \in D
      BY <1>7
<1> HIDE DEF best, D
<1>10. CASE \E d \in D : d < HighValue
  <2>1. PICK d \in D : d < HighValue
        BY <1>10
  <2> DEFINE z == best.distance
  <2>2. d \in Nat /\ z \in Nat /\ z <= d
        BY <1>7, <1>8
  <2> HIDE DEF z
  <2>3. z < HighValue
        BY <1>8, <2>1, <2>2
  <2>4. /\ best.match \in ToSet(names)
        /\ best.distance = Distance(wanted, best.match)
        /\ \A c \in D : best.distance <= c
        BY <1>7, <2>3 DEF z
  <2> QED BY <1>10, <2>4, Zenon DEF IsClosest, best, D
<1>11. CASE ~ \E d \in D : d < HighValue
  <2>1. ~ (best.distance < HighValue)
        BY <1>9, <1>11
  <2>2. best.distance = HighValue
        BY <1>7, <1>8, <2>1
  <2> QED BY <1>11, <2>2, Zenon DEF IsClosest, best, D
<1> QED BY <1>10, <1>11

\* The hint for a missing source_layer names one of the closest layers, for
\* all the texts that the runs build, of any length.
THEOREM HintsAreClosest == Spec => []HintIsClosest
<1>1. Init => TextInv
      BY DEF Init, TextInv
<1>2. TextInv => HintIsClosest
  <2> SUFFICES ASSUME kind = "text", input \in Seq(Characters) PROVE HintIsClosest
      BY DEF TextInv, HintIsClosest
  <2> DEFINE C == Characters
             sep == ","
             names == split(input, sep)
  <2>1. ASSUME NEW n \in 0 .. Len(input)
        PROVE  levenshteinDistance(SubSeq(input, 1, n), SubSeq(input, n + 1, Len(input)))
                 = Distance(SubSeq(input, 1, n), SubSeq(input, n + 1, Len(input)))
    <3> DEFINE s == SubSeq(input, 1, n)
               t == SubSeq(input, n + 1, Len(input))
    <3>1. s \in Seq(C) /\ t \in Seq(C)
          OBVIOUS
    <3> HIDE DEF s, t, C
    <3>2. levenshteinDistance(s, t) = Distance(s, t)
          BY <3>1, RowGivesDistance
    <3> QED BY <3>2 DEF s, t
  <2>2. names \in Seq(Seq(C)) /\ names # <<>>
    <3>1. sep \in C
          BY DEF Characters
    <3> HIDE DEF sep, C
    <3> QED BY <3>1, SplitIsUndone DEF C
  <2> HIDE DEF names, C
  <2> DEFINE wanted == Head(names)
             rest == Tail(names)
  <2>3. wanted \in Seq(C) /\ rest \in Seq(Seq(C))
    <3> DEFINE E == Seq(C)
    <3> HIDE DEF E
    <3>1. names \in Seq(E)
          BY <2>2 DEF E
    <3>2. Head(names) \in E /\ Tail(names) \in Seq(E)
          BY <2>2, <3>1
    <3> QED BY <3>2 DEF E
  <2> HIDE DEF wanted, rest
  <2>4. IsClosest(closestMatch(wanted, rest), wanted, rest)
        BY <2>3, ClosestIsClosest
  <2> QED BY <2>1, <2>4, Zenon DEF HintIsClosest, names, wanted, rest, sep
<1> QED BY <1>1, <1>2, TextStep, PTL DEF Spec

=============================================================================
