--------------------------- MODULE RequestProofs ----------------------------
(***************************************************************************)
(* Proofs about requests of any length: the handler that is chosen for a   *)
(* URI, and what a job keeps of a request.                                 *)
(***************************************************************************)
EXTENDS TextProofs

-----------------------------------------------------------------------------
(* URIs                                                                    *)

\* A prefix has characters of C only.
LEMMA PrefixIn ==
    ASSUME NEW s, NEW S, s \in Seq(S), NEW n \in 0 .. Len(s), NEW C
    PROVE  ToSet(SubSeq(s, 1, n)) \subseteq C <=> \A i \in 1 .. n : s[i] \in C
<1> DEFINE q == SubSeq(s, 1, n)
<1>1. q \in Seq(S) /\ Len(q) = n /\ \A i \in 1 .. n : q[i] = s[i]
      OBVIOUS
<1>2. DOMAIN q = 1 .. n
      BY <1>1
<1> HIDE DEF q
<1>3. ToSet(q) \subseteq C <=> \A i \in DOMAIN q : q[i] \in C
      BY Zenon DEF ToSet
<1> QED BY <1>1, <1>2, <1>3 DEF q

\* The number of pieces of the path of uri.
PathLength(uri) ==
    LET P == {n \in DOMAIN uri : uri[n] = "?"}
    IN  IF P = {} THEN Len(uri) ELSE Min(P) - 1

\* The path ends before the first "?".
LEMMA PathEnds ==
    ASSUME NEW S, NEW uri \in Seq(S)
    PROVE  LET e == PathLength(uri)
           IN  /\ e \in 0 .. Len(uri)
               /\ \A i \in 1 .. e : uri[i] # "?"
               /\ IF "?" \in ToSet(uri) THEN e < Len(uri) /\ uri[e + 1] = "?"
                  ELSE e = Len(uri)
               /\ Path(uri) \in Seq(S) /\ Len(Path(uri)) = e
               /\ \A i \in 1 .. e : Path(uri)[i] = uri[i]
<1> DEFINE P == {n \in DOMAIN uri : uri[n] = "?"}
           e == PathLength(uri)
<1>1. P = {} <=> "?" \notin ToSet(uri)
      BY DEF ToSet
<1>2. e = (IF P = {} THEN Len(uri) ELSE Min(P) - 1) /\ Path(uri) = SubSeq(uri, 1, e)
      BY DEF PathLength, Path
<1>3. P \subseteq 1 .. Len(uri)
      OBVIOUS
<1> HIDE DEF e
<1>4. /\ e \in 0 .. Len(uri)
      /\ \A i \in 1 .. e : uri[i] # "?"
      /\ IF "?" \in ToSet(uri) THEN e < Len(uri) /\ uri[e + 1] = "?" ELSE e = Len(uri)
  <2>1. CASE P = {}
        BY <1>1, <1>2, <2>1
  <2>2. CASE P # {}
    <3>1. Min(P) \in P /\ \A n \in P : Min(P) <= n
      <4>1. P \subseteq Nat
            BY <1>3
      <4> HIDE DEF P
      <4> QED BY <2>2, <4>1, MinOfNat
    <3>2. Min(P) \in 1 .. Len(uri) /\ uri[Min(P)] = "?"
          BY <3>1
    <3>3. \A i \in 1 .. Len(uri) : uri[i] = "?" => Min(P) <= i
          BY <3>1
    <3>4. e = Min(P) - 1
          BY <1>2, <2>2
    <3> HIDE DEF P
    <3> QED BY <1>1, <2>2, <3>2, <3>3, <3>4
  <2> QED BY <2>1, <2>2
<1>5. SubSeq(uri, 1, e) \in Seq(S) /\ Len(SubSeq(uri, 1, e)) = e
      /\ \A i \in 1 .. e : SubSeq(uri, 1, e)[i] = uri[i]
      BY <1>4
<1> QED BY <1>2, <1>4, <1>5 DEF e

\* Where normalizeUri cuts.
LEMMA NormalizedIs ==
    ASSUME NEW S, NEW uri \in Seq(S)
    PROVE  LET f == FirstNotOf(uri, {".", "/"})
           IN  normalizeUri(uri) = SubSeq(uri, IF f = 0 THEN 2 ELSE f, PathLength(uri))
BY DEF normalizeUri, PathLength, npos

\* The rest of the path after n pieces.
LEMMA RestOfPath ==
    ASSUME NEW S, NEW uri \in Seq(S), NEW n \in 0 .. PathLength(uri)
    PROVE  SubSeq(Path(uri), n + 1, Len(Path(uri))) = SubSeq(uri, n + 1, PathLength(uri))
<1> DEFINE e == PathLength(uri)
           p == Path(uri)
<1>1. /\ e \in 0 .. Len(uri) /\ p \in Seq(S) /\ Len(p) = e
      /\ \A i \in 1 .. e : p[i] = uri[i]
      BY PathEnds
<1>2. n \in 0 .. e
      OBVIOUS
<1> HIDE DEF e, p
<1>3. /\ SubSeq(p, n + 1, e) \in Seq(S) /\ Len(SubSeq(p, n + 1, e)) = e - n
      /\ \A i \in 1 .. e - n : SubSeq(p, n + 1, e)[i] = p[n + i]
      BY <1>1, <1>2
<1>4. /\ SubSeq(uri, n + 1, e) \in Seq(S) /\ Len(SubSeq(uri, n + 1, e)) = e - n
      /\ \A i \in 1 .. e - n : SubSeq(uri, n + 1, e)[i] = uri[n + i]
      BY <1>1, <1>2
<1>5. \A i \in 1 .. e - n : p[n + i] = uri[n + i]
      BY <1>1, <1>2
<1>6. SubSeq(p, n + 1, e) = SubSeq(uri, n + 1, e)
      BY <1>3, <1>4, <1>5, SeqEqual
<1> QED BY <1>1, <1>6 DEF e, p

\* A path that begins with a name is led to exactly if it is what remains.
LEMMA LeadsToNormalized ==
    ASSUME NEW S, NEW uri \in Seq(S), NEW p \in Seq(S),
           p # <<>>, p[1] \notin {".", "/"}
    PROVE  LeadsTo(uri, p) <=> normalizeUri(uri) = p
<1> DEFINE f == FirstNotOf(uri, {".", "/"})
           e == PathLength(uri)
<1>1. \/ f = 0 /\ \A i \in DOMAIN uri : uri[i] \in {".", "/"}
      \/ /\ f \in 1 .. Len(uri) /\ uri[f] \notin {".", "/"}
         /\ \A i \in 1 .. f - 1 : uri[i] \in {".", "/"}
      BY FirstIsFirst
<1>2. e \in 0 .. Len(uri)
      BY PathEnds
<1>3. normalizeUri(uri) = SubSeq(uri, IF f = 0 THEN 2 ELSE f, e)
      BY NormalizedIs
<1>4. LeadsTo(uri, p) <=>
        \E n \in 0 .. e : ToSet(SubSeq(uri, 1, n)) \subseteq {".", "/"} /\ SubSeq(uri, n + 1, e) = p
      BY PathEnds, RestOfPath DEF LeadsTo
<1> HIDE DEF f, e
<1>5. \A n \in 0 .. e : SubSeq(uri, n + 1, e) = p => n < e /\ p[1] = uri[n + 1]
      BY <1>2
<1>6. \A n \in 0 .. e : ToSet(SubSeq(uri, 1, n)) \subseteq {".", "/"}
                           <=> \A i \in 1 .. n : uri[i] \in {".", "/"}
  <2>1. \A n \in 0 .. e : n \in 0 .. Len(uri)
        BY <1>2
  <2> QED BY <2>1, PrefixIn
<1>7. ASSUME NEW n \in 0 .. e, \A i \in 1 .. n : uri[i] \in {".", "/"},
             SubSeq(uri, n + 1, e) = p
      PROVE  normalizeUri(uri) = p
  <2>1. n < e /\ uri[n + 1] \notin {".", "/"}
        BY <1>5, <1>7
  <2>2. f = n + 1
        BY <1>1, <1>2, <1>7, <2>1
  <2> QED BY <1>3, <1>7, <2>2
<1>8. ASSUME normalizeUri(uri) = p
      PROVE  \E n \in 0 .. e : (\A i \in 1 .. n : uri[i] \in {".", "/"})
                                 /\ SubSeq(uri, n + 1, e) = p
  <2>1. f # 0
    <3> SUFFICES ASSUME f = 0 PROVE FALSE
        OBVIOUS
    <3>1. p = SubSeq(uri, 2, e) /\ \A i \in 1 .. Len(uri) : uri[i] \in {".", "/"}
          BY <1>1, <1>3, <1>8
    <3>2. e >= 2 /\ p[1] = uri[2]
          BY <1>2, <3>1
    <3> QED BY <1>2, <3>1, <3>2
  <2>2. p = SubSeq(uri, f, e) /\ f <= e
        BY <1>1, <1>2, <1>3, <1>8, <2>1
  <2>3. f - 1 \in 0 .. e /\ (f - 1) + 1 = f
        BY <1>1, <1>2, <2>1, <2>2
  <2> QED BY <1>1, <2>1, <2>2, <2>3
<1> QED BY <1>4, <1>6, <1>7, <1>8

\* A slice is empty if its end is before its start.
LEMMA EmptySlice ==
    ASSUME NEW S, NEW s \in Seq(S), NEW m \in 1 .. Len(s) + 1, NEW n \in 0 .. Len(s)
    PROVE  SubSeq(s, m, n) = <<>> <=> n < m
<1>1. n < m => SubSeq(s, m, n) = <<>>
      BY SubSeqEmpty
<1>2. m <= n => Len(SubSeq(s, m, n)) = n - m + 1
      OBVIOUS
<1>3. Len(<<>>) = 0
      OBVIOUS
<1>4. m \in Int /\ n \in Int
      OBVIOUS
<1> QED BY <1>1, <1>2, <1>3, <1>4

\* uri leads to nothing exactly if its path has dots and slashes only.
LEMMA LeadsToNothing ==
    ASSUME NEW S, NEW uri \in Seq(S)
    PROVE  LeadsTo(uri, <<>>) <=> \A i \in 1 .. PathLength(uri) : uri[i] \in {".", "/"}
<1> DEFINE e == PathLength(uri)
           p == Path(uri)
<1>1. e \in 0 .. Len(uri) /\ p \in Seq(S) /\ Len(p) = e
      BY PathEnds
<1> HIDE DEF e, p
<1>2. \A n \in 0 .. e : SubSeq(p, n + 1, e) = <<>> <=> n = e
      BY <1>1
<1>3. LeadsTo(uri, <<>>) <=> ToSet(SubSeq(uri, 1, e)) \subseteq {".", "/"}
      BY <1>1, <1>2 DEF LeadsTo, p
<1>4. ToSet(SubSeq(uri, 1, e)) \subseteq {".", "/"} <=> \A i \in 1 .. e : uri[i] \in {".", "/"}
      BY <1>1, PrefixIn
<1> QED BY <1>3, <1>4 DEF e

\* What remains of a URI is nothing for the start page, and for parameters
\* after dots and slashes.
LEMMA NormalizedToNothing ==
    ASSUME NEW S, NEW uri \in Seq(S), uri # <<>>, uri[1] = "/"
    PROVE  normalizeUri(uri) = <<>> <=>
              LeadsTo(uri, <<>>) /\ (uri = <<"/">> \/ "?" \in ToSet(uri))
<1> DEFINE f == FirstNotOf(uri, {".", "/"})
           e == PathLength(uri)
<1>1. \/ f = 0 /\ \A i \in DOMAIN uri : uri[i] \in {".", "/"}
      \/ /\ f \in 1 .. Len(uri) /\ uri[f] \notin {".", "/"}
         /\ \A i \in 1 .. f - 1 : uri[i] \in {".", "/"}
      BY FirstIsFirst
<1>2. /\ e \in 0 .. Len(uri)
      /\ IF "?" \in ToSet(uri) THEN e < Len(uri) /\ uri[e + 1] = "?" ELSE e = Len(uri)
      BY PathEnds
<1>3. normalizeUri(uri) = SubSeq(uri, IF f = 0 THEN 2 ELSE f, e)
      BY NormalizedIs
<1>4. LeadsTo(uri, <<>>) <=> \A i \in 1 .. e : uri[i] \in {".", "/"}
      BY LeadsToNothing
<1> HIDE DEF f, e
<1>5. CASE f = 0
  <2>1. "?" \notin ToSet(uri) /\ e = Len(uri)
        BY <1>1, <1>2, <1>5
  <2>2. LeadsTo(uri, <<>>)
        BY <1>1, <1>4, <1>5, <2>1
  <2>3. SubSeq(uri, 2, e) = <<>> <=> Len(uri) = 1
    <3>1. 2 \in 1 .. Len(uri) + 1 /\ e \in 0 .. Len(uri) /\ (e < 2 <=> Len(uri) = 1)
          BY <2>1
    <3> QED BY <3>1, EmptySlice
  <2>4. Len(uri) = 1 <=> uri = <<"/">>
        OBVIOUS
  <2> QED BY <1>3, <1>5, <2>1, <2>2, <2>3, <2>4
<1>6. CASE f # 0
  <2>1. uri # <<"/">>
        BY <1>1, <1>6
  <2>2. SubSeq(uri, f, e) = <<>> <=> e < f
    <3>1. f \in 1 .. Len(uri) + 1 /\ e \in 0 .. Len(uri)
          BY <1>1, <1>2, <1>6
    <3> QED BY <3>1, EmptySlice
  <2>3. e < f <=> LeadsTo(uri, <<>>)
        BY <1>1, <1>2, <1>4, <1>6
  <2>4. e < f => "?" \in ToSet(uri)
        BY <1>1, <1>2, <1>6
  <2> QED BY <1>3, <1>6, <2>1, <2>2, <2>3, <2>4
<1> QED BY <1>5, <1>6

\* Ids are sequences.
LEMMA HexIsSeq ==
    ASSUME NEW S, "hex" \in S, NEW m \in Nat
    PROVE  /\ Hex(m) \in Seq(S) /\ Len(Hex(m)) = m
           /\ \A i \in 1 .. m : Hex(m)[i] = "hex"
<1>1. Hex(m) \in [1 .. m -> S] /\ DOMAIN Hex(m) = 1 .. m
      BY DEF Hex
<1>2. Hex(m) \in Seq(S)
      BY <1>1, SeqDef
<1>3. Len(Hex(m)) = m
      BY <1>1, <1>2, LenProperties
<1>4. \A i \in 1 .. m : Hex(m)[i] = "hex"
      BY DEF Hex
<1> QED BY <1>2, <1>3, <1>4

\* A sequence by its head and tail.
LEMMA HeadAndTail ==
    ASSUME NEW S, NEW s \in Seq(S), s # <<>>, NEW t \in Seq(S)
    PROVE  s = <<Head(s)>> \o t <=> Tail(s) = t
<1> DEFINE h == Head(s)
           u == <<h>> \o t
<1>1. /\ h \in S /\ h = s[1] /\ Tail(s) \in Seq(S) /\ Len(s) = Len(Tail(s)) + 1
      /\ \A i \in 1 .. Len(Tail(s)) : Tail(s)[i] = s[i + 1]
      OBVIOUS
<1>2. /\ u \in Seq(S) /\ Len(u) = Len(t) + 1 /\ u[1] = h
      /\ \A i \in 1 .. Len(t) : u[i + 1] = t[i]
      BY <1>1
<1> HIDE DEF h, u
<1>3. ASSUME s = u PROVE Tail(s) = t
      BY <1>1, <1>2, <1>3, SeqEqual
<1>4. ASSUME Tail(s) = t PROVE s = u
  <2>1. Len(t) \in Nat
        OBVIOUS
  <2>2. \A i \in 1 .. Len(t) + 1 : i = 1 \/ (i - 1 \in 1 .. Len(t) /\ i = (i - 1) + 1)
        BY <2>1
  <2>3. \A i \in 1 .. Len(s) : s[i] = u[i]
    <3> SUFFICES ASSUME NEW i \in 1 .. Len(s) PROVE s[i] = u[i]
        OBVIOUS
    <3>1. CASE i = 1
          BY <1>1, <1>2, <3>1
    <3>2. CASE i # 1
      <4>1. i - 1 \in 1 .. Len(t) /\ i = (i - 1) + 1
            BY <1>1, <1>4, <2>2, <3>2
      <4>2. s[(i - 1) + 1] = t[i - 1] /\ u[(i - 1) + 1] = t[i - 1]
            BY <1>1, <1>2, <1>4, <4>1
      <4> QED BY <4>1, <4>2
    <3> QED BY <3>1, <3>2
  <2>4. Len(s) = Len(u)
        BY <1>1, <1>2, <1>4
  <2> QED BY <1>2, <2>3, <2>4, SeqEqual
<1> QED BY <1>3, <1>4 DEF h, u

\* What follows the first n elements.
LEMMA SuffixIs ==
    ASSUME NEW S, NEW s \in Seq(S), NEW n \in 0 .. Len(s)
    PROVE  LET q == SubSeq(s, n + 1, Len(s))
           IN  q \in Seq(S) /\ Len(q) = Len(s) - n /\ \A i \in 1 .. Len(s) - n : q[i] = s[n + i]
OBVIOUS

\* r is x followed by y.
Joins(r, x, y) ==
    /\ Len(r) = Len(x) + Len(y)
    /\ \A i \in 1 .. Len(x) : r[i] = x[i]
    /\ SubSeq(r, Len(x) + 1, Len(r)) = y

\* r is x with y behind it, position by position.
LEMMA JoinIsConcatenation ==
    ASSUME NEW S, NEW r \in Seq(S), NEW x \in Seq(S), NEW y \in Seq(S)
    PROVE  r = x \o y <=> Joins(r, x, y)
<1> DEFINE m == Len(x)
           n == Len(y)
           u == x \o y
<1>1. m \in Nat /\ n \in Nat
      OBVIOUS
<1>2. /\ u \in Seq(S) /\ Len(u) = m + n /\ (\A i \in 1 .. m : u[i] = x[i])
      /\ \A i \in 1 .. n : u[m + i] = y[i]
      OBVIOUS
<1> HIDE DEF u
<1>3. ASSUME NEW s \in Seq(S), Len(s) = m + n
      PROVE  SubSeq(s, m + 1, Len(s)) = y <=> \A i \in 1 .. n : s[m + i] = y[i]
  <2> DEFINE q == SubSeq(s, m + 1, Len(s))
  <2>1. m \in 0 .. Len(s) /\ Len(s) - m = n
        BY <1>1, <1>3
  <2>2. q \in Seq(S) /\ Len(q) = n /\ \A i \in 1 .. n : q[i] = s[m + i]
    <3> HIDE DEF m, n
    <3> QED BY <2>1, SuffixIs
  <2> HIDE DEF q
  <2>3. (\A i \in 1 .. n : q[i] = y[i]) => q = y
        BY <2>2, SeqEqual
  <2>4. (\A i \in 1 .. n : s[m + i] = y[i]) => \A i \in 1 .. n : q[i] = y[i]
        BY <2>2
  <2>5. q = y => \A i \in 1 .. n : s[m + i] = y[i]
        BY <2>2
  <2> QED BY <2>3, <2>4, <2>5 DEF q
<1> HIDE DEF m, n
<1>4. ASSUME Len(r) = m + n, \A i \in 1 .. m : r[i] = x[i], \A i \in 1 .. n : r[m + i] = y[i]
      PROVE  r = u
  <2>1. ASSUME NEW i \in 1 .. Len(r) PROVE r[i] = u[i]
    <3>1. CASE i <= m
          BY <1>2, <1>4, <3>1
    <3>2. CASE ~ i <= m
      <4>1. i - m \in 1 .. n /\ m + (i - m) = i
            BY <1>1, <1>4, <3>2
      <4>2. r[m + (i - m)] = y[i - m] /\ u[m + (i - m)] = y[i - m]
            BY <1>2, <1>4, <4>1
      <4> QED BY <4>1, <4>2
    <3> QED BY <3>1, <3>2
  <2> QED BY <1>2, <1>4, <2>1, SeqEqual
<1> QED BY <1>2, <1>3, <1>4 DEF Joins, u, m, n

\* The job paths, with an id and .json, or ending inside the id.
LEMMA JobPaths ==
    ASSUME NEW S, {"hex", ".", "json"} \subseteq S, NEW ep \in Seq(S), ep # <<>>, Head(ep) = getJobPath
    PROVE  /\ JobRequest(ep) \in {"out_of_range", "job", "none"}
           /\ JobRequest(ep) = "out_of_range" <=> \E m \in Nat : ep = <<getJobPath>> \o Hex(m)
           /\ JobRequest(ep) = "job" <=>
                 \E m \in Nat \ {0} : ep = <<getJobPath>> \o (Hex(m) \o <<".", "json">>)
<1> DEFINE rest == Tail(ep)
           f == FirstNotOf(rest, {"hex"})
           end == <<".", "json">>
<1>1. rest \in Seq(S) /\ Len(rest) \in Nat
      OBVIOUS
<1>2. \/ f = 0 /\ \A i \in 1 .. Len(rest) : rest[i] = "hex"
      \/ /\ f \in 1 .. Len(rest) /\ rest[f] # "hex"
         /\ \A i \in 1 .. f - 1 : rest[i] = "hex"
  <2>1. \/ f = 0 /\ \A i \in DOMAIN rest : rest[i] \in {"hex"}
        \/ /\ f \in 1 .. Len(rest) /\ rest[f] \notin {"hex"}
           /\ \A i \in 1 .. f - 1 : rest[i] \in {"hex"}
        BY <1>1, FirstIsFirst, Zenon
  <2>2. DOMAIN rest = 1 .. Len(rest)
        BY <1>1
  <2> HIDE DEF rest, f
  <2> QED BY <2>1, <2>2
<1>3. JobRequest(ep) = IF f = 0 THEN "out_of_range"
                       ELSE IF SubSeq(rest, f, Len(rest)) = end /\ f # 1
                       THEN "job" ELSE "none"
      BY DEF JobRequest, npos
<1>4. end \in Seq(S) /\ Len(end) = 2 /\ end[1] = "."
      OBVIOUS
<1>5. \A t \in Seq(S) : ep = <<getJobPath>> \o t <=> rest = t
      BY HeadAndTail
<1>6. ASSUME NEW m \in Nat
      PROVE  /\ rest = Hex(m) <=> Len(rest) = m /\ \A i \in 1 .. m : rest[i] = "hex"
             /\ rest = Hex(m) \o end <=>
                   /\ Len(rest) = m + 2
                   /\ \A i \in 1 .. m : rest[i] = "hex"
                   /\ SubSeq(rest, m + 1, Len(rest)) = end
             /\ Hex(m) \in Seq(S) /\ Hex(m) \o end \in Seq(S)
  <2>1. Hex(m) \in Seq(S) /\ Len(Hex(m)) = m /\ \A i \in 1 .. m : Hex(m)[i] = "hex"
        BY HexIsSeq
  <2> HIDE DEF rest
  <2>2. rest = Hex(m) <=> Len(rest) = m /\ \A i \in 1 .. m : rest[i] = "hex"
        BY <1>1, <2>1, SeqEqual
  <2>3. rest = Hex(m) \o end <=>
           /\ Len(rest) = m + 2
           /\ \A i \in 1 .. m : rest[i] = "hex"
           /\ SubSeq(rest, m + 1, Len(rest)) = end
    <3> DEFINE x == Hex(m)
    <3>1. x \in Seq(S) /\ Len(x) = m /\ \A i \in 1 .. m : x[i] = "hex"
          BY <2>1
    <3> HIDE DEF x, end
    <3>2. rest \in Seq(S) /\ x \in Seq(S) /\ end \in Seq(S)
          BY <1>1, <1>4, <3>1
    <3>3. rest = x \o end <=> Joins(rest, x, end)
          BY <3>2, JoinIsConcatenation
    <3> QED BY <1>4, <3>1, <3>3 DEF Joins, x
  <2>4. Hex(m) \o end \in Seq(S)
    <3> HIDE DEF end
    <3> QED BY <1>4, <2>1
  <2> QED BY <2>1, <2>2, <2>3, <2>4
<1> HIDE DEF rest, f, end
<1>7. f = 0 <=> \E m \in Nat : rest = Hex(m)
  <2>1. ASSUME f = 0 PROVE rest = Hex(Len(rest))
        BY <1>1, <1>2, <1>6, <2>1
  <2>2. ASSUME NEW m \in Nat, rest = Hex(m) PROVE f = 0
        BY <1>2, <1>6, <2>2
  <2> QED BY <1>1, <2>1, <2>2
<1>8. (f \notin {0, 1} /\ SubSeq(rest, f, Len(rest)) = end)
         <=> \E m \in Nat \ {0} : rest = Hex(m) \o end
  <2>1. ASSUME f \notin {0, 1}, SubSeq(rest, f, Len(rest)) = end
        PROVE  rest = Hex(f - 1) \o end /\ f - 1 \in Nat \ {0}
    <3>1. f - 1 \in Nat \ {0} /\ (f - 1) + 1 = f
          BY <1>1, <1>2, <2>1
    <3>2. Len(SubSeq(rest, f, Len(rest))) = Len(rest) - f + 1
          BY <1>1, <1>2, <2>1
    <3>3. Len(rest) = (f - 1) + 2
      <4>1. Len(rest) - f + 1 = 2
            BY <1>4, <2>1, <3>2
      <4>2. f \in Int
            BY <1>2
      <4> QED BY <1>1, <4>1, <4>2
    <3>4. \A i \in 1 .. f - 1 : rest[i] = "hex"
          BY <1>2, <2>1
    <3> QED BY <1>6, <2>1, <3>1, <3>3, <3>4
  <2>2. ASSUME NEW m \in Nat \ {0}, rest = Hex(m) \o end
        PROVE  f \notin {0, 1} /\ SubSeq(rest, f, Len(rest)) = end
    <3>1. /\ Len(rest) = m + 2
          /\ \A i \in 1 .. m : rest[i] = "hex"
          /\ SubSeq(rest, m + 1, Len(rest)) = end
          BY <1>6, <2>2
    <3>2. rest[m + 1] # "hex"
      <4>1. SubSeq(rest, m + 1, Len(rest))[1] = rest[m + 1]
            BY <1>1, <3>1
      <4> QED BY <1>4, <3>1, <4>1
    <3>3. f = m + 1
          BY <1>2, <3>1, <3>2
    <3> QED BY <3>1, <3>3
  <2> QED BY <2>1, <2>2
<1>9. JobRequest(ep) = "out_of_range" <=> \E m \in Nat : ep = <<getJobPath>> \o Hex(m)
      BY <1>3, <1>5, <1>6, <1>7
<1>10. JobRequest(ep) = "job" <=>
          \E m \in Nat \ {0} : ep = <<getJobPath>> \o (Hex(m) \o end)
      BY <1>3, <1>5, <1>6, <1>8
<1> QED BY <1>3, <1>9, <1>10 DEF end

\* The handler by what normalizeUri has left of the URI.
LEMMA HandlerIs ==
    ASSUME NEW uri, NEW S, {"hex", ".", "json"} \subseteq S, normalizeUri(uri) \in Seq(S)
    PROVE  LET handler == createRequestHandler(uri)
               ep == normalizeUri(uri)
           IN  /\ \A e \in Endpoints : handler = e <=> ep = <<e>>
               /\ handler = "job" <=>
                     \E m \in Nat \ {0} : ep = <<getJobPath>> \o (Hex(m) \o <<".", "json">>)
               /\ handler = "out_of_range" <=> \E m \in Nat : ep = <<getJobPath>> \o Hex(m)
               /\ handler = "index.html" <=> ep \in {<<>>, <<"index.html">>}
<1> DEFINE handler == createRequestHandler(uri)
           ep == normalizeUri(uri)
           JobId == \E m \in Nat \ {0} : ep = <<getJobPath>> \o (Hex(m) \o <<".", "json">>)
           NoId == \E m \in Nat : ep = <<getJobPath>> \o Hex(m)
           Other == {"job", "out_of_range", "index.html", "not_found"}
<1>1. handler = IF Len(ep) = 1 /\ Head(ep) \in Endpoints THEN Head(ep)
                ELSE IF ep # <<>> /\ Head(ep) = getJobPath /\ JobRequest(ep) # "none"
                THEN JobRequest(ep)
                ELSE IF ep = <<>> THEN "index.html"
                ELSE IF Len(ep) = 1 /\ Head(ep) \in Resources THEN Head(ep)
                ELSE "not_found"
      BY DEF createRequestHandler, StaticResource
<1>2. \A e : ep = <<e>> <=> Len(ep) = 1 /\ Head(ep) = e
      OBVIOUS
<1>3. ep # <<>> /\ Head(ep) = getJobPath =>
        /\ JobRequest(ep) \in {"out_of_range", "job", "none"}
        /\ JobRequest(ep) = "out_of_range" <=> NoId
        /\ JobRequest(ep) = "job" <=> JobId
  <2> HIDE DEF ep
  <2> QED BY JobPaths DEF ep
<1>4. NoId \/ JobId => ep # <<>> /\ Head(ep) = getJobPath
  <2>1. ASSUME NEW t \in Seq(S), ep = <<getJobPath>> \o t
        PROVE  ep # <<>> /\ Head(ep) = getJobPath
    <3> HIDE DEF ep
    <3> QED BY <2>1
  <2>2. \A m \in Nat : Hex(m) \in Seq(S) /\ Hex(m) \o <<".", "json">> \in Seq(S)
    <3> DEFINE end == <<".", "json">>
    <3>1. end \in Seq(S) /\ "hex" \in S
          OBVIOUS
    <3> HIDE DEF end
    <3>2. \A m \in Nat : Hex(m) \in Seq(S)
          BY <3>1, HexIsSeq
    <3>3. \A m \in Nat : Hex(m) \o end \in Seq(S)
          BY <3>1, <3>2
    <3> QED BY <3>2, <3>3 DEF end
  <2> QED BY <2>1, <2>2
<1> HIDE DEF handler, ep, JobId, NoId
<1>5. /\ Endpoints \cap Other = {} /\ getJobPath \notin Endpoints \cup Resources
      /\ Resources = {"index.html"}
      BY DEF Endpoints, Resources, getJobPath
<1>6. \A e \in Endpoints : handler = e <=> ep = <<e>>
      BY <1>1, <1>2, <1>3, <1>5
<1>7. handler = "job" <=> JobId
      BY <1>1, <1>3, <1>4, <1>5
<1>8. handler = "out_of_range" <=> NoId
      BY <1>1, <1>3, <1>4, <1>5
<1>9. handler = "index.html" <=> ep \in {<<>>, <<"index.html">>}
      BY <1>1, <1>2, <1>3, <1>5
<1> QED BY <1>6, <1>7, <1>8, <1>9 DEF handler, ep, JobId, NoId

\* Every URI, of any length and over any pieces: each documented path, and no
\* other one, is served by its handler, with ids of any length; exactly a job
\* path that ends with or before its id makes the factory throw.
THEOREM RoutesAreFollowed ==
    ASSUME NEW uri, NEW T, uri \in Seq(T), uri # <<>>, uri[1] = "/"
    PROVE  FollowsRoutes(uri, {Hex(m) : m \in Nat})
<1> DEFINE S == T \cup {"hex", ".", "json", getJobPath, "index.html"} \cup Endpoints
           ep == normalizeUri(uri)
           end == <<".", "json">>
           Firsts == Endpoints \cup {getJobPath, "index.html"}
<1>1. uri \in Seq(S) /\ {"hex", ".", "json"} \subseteq S /\ Firsts \subseteq S
      BY SeqMonotonic
<1>2. \A c \in Firsts : c \notin {".", "/"}
      BY DEF Endpoints, getJobPath
<1>3. end \in Seq(S)
      OBVIOUS
<1> HIDE DEF S, Firsts
<1>4. ep \in Seq(S)
  <2>1. PICK a \in 1 .. Len(uri) + 1, b \in 0 .. Len(uri) : ep = SubSeq(uri, a, b)
    <3> DEFINE f == FirstNotOf(uri, {".", "/"})
    <3>1. f \in 0 .. Len(uri)
          BY <1>1, FirstIsFirst
    <3>2. PathLength(uri) \in 0 .. Len(uri)
          BY <1>1, PathEnds
    <3>3. ep = SubSeq(uri, IF f = 0 THEN 2 ELSE f, PathLength(uri))
          BY <1>1, NormalizedIs
    <3> HIDE DEF f, ep
    <3>4. (IF f = 0 THEN 2 ELSE f) \in 1 .. Len(uri) + 1
          BY <1>1, <3>1
    <3> QED BY <3>2, <3>3, <3>4
  <2> HIDE DEF ep
  <2>2. \A i \in a .. b : uri[i] \in S
        BY <1>1
  <2> QED BY <2>1, <2>2, SubSeqProperties
<1>5. ASSUME NEW c \in Firsts, NEW t \in Seq(S)
      PROVE  LeadsTo(uri, <<c>> \o t) <=> ep = <<c>> \o t
  <2> DEFINE p == <<c>> \o t
  <2>1. p \in Seq(S) /\ p # <<>> /\ p[1] = c
        BY <1>1
  <2>2. p[1] \notin {".", "/"}
        BY <1>2, <2>1
  <2> HIDE DEF p
  <2>3. LeadsTo(uri, p) <=> normalizeUri(uri) = p
        BY <1>1, <2>1, <2>2, LeadsToNormalized
  <2> QED BY <2>3 DEF p
<1>6. \A c \in Firsts : LeadsTo(uri, <<c>>) <=> ep = <<c>>
  <2>1. \A c \in Firsts : <<c>> \o <<>> = <<c>>
        OBVIOUS
  <2>2. <<>> \in Seq(S)
        OBVIOUS
  <2> QED BY <1>5, <2>1, <2>2
<1>7. \A m \in Nat :
        /\ LeadsTo(uri, <<getJobPath>> \o Hex(m)) <=> ep = <<getJobPath>> \o Hex(m)
        /\ LeadsTo(uri, <<getJobPath>> \o Hex(m) \o end)
              <=> ep = <<getJobPath>> \o (Hex(m) \o end)
        /\ Hex(m) = <<>> <=> m = 0
  <2> SUFFICES ASSUME NEW m \in Nat
               PROVE  /\ LeadsTo(uri, <<getJobPath>> \o Hex(m)) <=> ep = <<getJobPath>> \o Hex(m)
                      /\ LeadsTo(uri, <<getJobPath>> \o Hex(m) \o end)
                            <=> ep = <<getJobPath>> \o (Hex(m) \o end)
                      /\ Hex(m) = <<>> <=> m = 0
      OBVIOUS
  <2> HIDE DEF end, ep
  <2>1. Hex(m) \in Seq(S) /\ Len(Hex(m)) = m
        BY <1>1, HexIsSeq
  <2>2. Hex(m) \o end \in Seq(S)
        BY <1>3, <2>1
  <2>3. getJobPath \in Firsts /\ <<getJobPath>> \in Seq(S)
        BY <1>1 DEF Firsts
  <2>4. <<getJobPath>> \o Hex(m) \o end = <<getJobPath>> \o (Hex(m) \o end)
        BY <1>3, <2>1, <2>3, ConcatAssociative
  <2>5. Hex(m) = <<>> <=> m = 0
        BY <2>1
  <2> QED BY <1>5, <2>1, <2>2, <2>3, <2>4, <2>5
<1>8. ep = <<>> <=> LeadsTo(uri, <<>>) /\ (uri = <<"/">> \/ "?" \in ToSet(uri))
      BY <1>1, NormalizedToNothing
<1> DEFINE handler == createRequestHandler(uri)
<1>9. /\ \A e \in Endpoints : handler = e <=> ep = <<e>>
      /\ handler = "job" <=> \E m \in Nat \ {0} : ep = <<getJobPath>> \o (Hex(m) \o end)
      /\ handler = "out_of_range" <=> \E m \in Nat : ep = <<getJobPath>> \o Hex(m)
      /\ handler = "index.html" <=> ep \in {<<>>, <<"index.html">>}
      BY <1>1, <1>4, HandlerIs
<1> HIDE DEF handler, ep, end
<1>10. \A e \in Endpoints : handler = e <=> LeadsTo(uri, <<e>>)
      BY <1>6, <1>9 DEF Firsts
<1>11. handler = "job" <=>
          \E id \in {Hex(m) : m \in Nat} \ {<<>>} : LeadsTo(uri, <<getJobPath>> \o id \o end)
      BY <1>7, <1>9
<1>12. handler = "out_of_range" <=>
          \E id \in {Hex(m) : m \in Nat} : LeadsTo(uri, <<getJobPath>> \o id)
      BY <1>7, <1>9
<1>13. handler = "index.html" <=>
          \/ LeadsTo(uri, <<"index.html">>)
          \/ LeadsTo(uri, <<>>) /\ (uri = <<"/">> \/ "?" \in ToSet(uri))
      BY <1>6, <1>8, <1>9 DEF Firsts
<1> QED BY <1>10, <1>11, <1>12, <1>13 DEF FollowsRoutes, handler, end

-----------------------------------------------------------------------------
(* The URIs that MCInputs generates                                        *)

\* The pieces a URI is built from, and their alphabet.
Alphabet == Endpoints \cup Resources \cup {getJobPath, "hex", "/", ".", "?", "json"}

\* A URI begins with a slash, and has no more digits in a row than steps.
UriInv ==
    kind = "uri" =>
        /\ input \in Seq(Alphabet) /\ input # <<>> /\ input[1] = "/"
        /\ steps \in 0 .. MaxUri
        /\ \A a \in Nat \ {0}, b \in 0 .. Len(input) :
              (\A i \in a .. b : input[i] = "hex") => b - a < steps

\* Every step keeps the URIs of the runs such.
LEMMA UriStep == UriInv /\ [Next]_vars => UriInv'
<1> SUFFICES ASSUME UriInv, [Next]_vars PROVE UriInv'
    OBVIOUS
<1>1. CASE kind' # "uri"
      BY <1>1 DEF UriInv
<1>2. CASE GrowUri
  <2>1. PICK p \in Pieces : Grow("uri", MaxUri, input \o p)
        BY <1>2 DEF GrowUri
  <2> DEFINE old == input
  <2>2. /\ kind = "uri" /\ old \in Seq(Alphabet) /\ old # <<>> /\ old[1] = "/"
        /\ steps \in 0 .. MaxUri /\ steps < MaxUri /\ steps' = steps + 1 /\ input' = old \o p
        /\ \A a \in Nat \ {0}, b \in 0 .. Len(old) :
              (\A i \in a .. b : old[i] = "hex") => b - a < steps
        BY <2>1 DEF Grow, UriInv
  <2>3. /\ p \in Seq(Alphabet)
        /\ Len(p) = 1 \/ (Len(p) = 2 /\ p[1] # "hex" /\ p[2] # "hex")
    <3>1. CASE p = <<".", "json">>
          BY <3>1 DEF Alphabet
    <3>2. CASE p # <<".", "json">>
      <4>1. PICK c \in Alphabet : p = <<c>>
            BY <3>2 DEF Pieces, Alphabet
      <4> QED BY <4>1
    <3> QED BY <3>1, <3>2
  <2> DEFINE n == Len(old)
             new == old \o p
  <2>4. /\ new \in Seq(Alphabet) /\ new # <<>> /\ Len(new) = n + Len(p) /\ n \in Nat
        /\ \A i \in 1 .. n : new[i] = old[i]
        /\ \A i \in 1 .. Len(p) : new[n + i] = p[i]
        BY <2>2, <2>3
  <2>5. new[1] = "/"
        BY <2>2, <2>4
  <2>6. \A a \in Nat \ {0}, b \in 0 .. n : (\A i \in a .. b : old[i] = "hex") => b - a < steps
        BY <2>2
  <2> HIDE DEF new, n, old
  <2>7. ASSUME NEW a \in Nat \ {0}, NEW b \in 0 .. Len(new), \A i \in a .. b : new[i] = "hex"
        PROVE  b - a < steps + 1
    <3>1. CASE b <= n
      <4>1. b \in 0 .. n /\ \A i \in a .. b : old[i] = "hex"
            BY <2>4, <2>7, <3>1
      <4>2. b - a < steps
            BY <4>1, <2>6
      <4> QED BY <2>2, <2>4, <4>2
    <3>2. CASE b < a
          BY <2>2, <3>2
    <3>3. CASE a <= b /\ n < b
      <4>1. new[b] = "hex" /\ b = n + (b - n) /\ b - n \in 1 .. Len(p)
            BY <2>3, <2>4, <2>7, <3>3
      <4>2. p[b - n] = "hex"
            BY <2>4, <4>1
      <4>3. b = n + 1
            BY <2>3, <2>4, <4>1, <4>2
      <4>4. \A i \in a .. n : old[i] = "hex"
            BY <2>4, <2>7, <4>3
      <4>5. n \in 0 .. n /\ n - a < steps
            BY <2>4, <2>6, <4>4
      <4> QED BY <2>2, <2>4, <4>3, <4>5
    <3> QED BY <2>4, <3>1, <3>2, <3>3
  <2>8. steps + 1 \in 0 .. MaxUri
        BY <2>2, BoundsAssumption
  <2> QED BY <2>2, <2>4, <2>5, <2>7, <2>8 DEF UriInv, new
<1>3. CASE UNCHANGED vars
      BY <1>3 DEF vars, UriInv
<1>4. ASSUME NEW k, k # "uri", NEW max, NEW e, Grow(k, max, e)
      PROVE  UriInv'
      BY <1>1, <1>4 DEF Grow
<1> QED BY <1>2, <1>3, <1>4 DEF Next, GrowText, AddLine, DropLine, AddColumn,
                                ChooseField, ChooseGeometry, AddMember

\* A URI that leads to a path with an id of m digits has m digits in a row.
LEMMA IdIsInUri ==
    ASSUME NEW S, NEW uri \in Seq(S), NEW p \in Seq(S), NEW m \in Nat, m < Len(p),
           \A i \in 1 .. m : p[i + 1] = "hex", LeadsTo(uri, p)
    PROVE  \E a \in Nat \ {0}, b \in 0 .. Len(uri) :
              b - a = m - 1 /\ \A i \in a .. b : uri[i] = "hex"
<1> DEFINE e == PathLength(uri)
<1>1. e \in 0 .. Len(uri) /\ Len(Path(uri)) = e
      BY PathEnds
<1>2. PICK n \in 0 .. e : SubSeq(uri, n + 1, e) = p
      BY <1>1, RestOfPath DEF LeadsTo
<1> HIDE DEF e
<1>3. Len(p) = e - n /\ \A i \in 1 .. e - n : p[i] = uri[n + i]
      BY <1>1, <1>2
<1>4. n + 2 \in Nat \ {0} /\ n + 1 + m \in 0 .. Len(uri) /\ (n + 1 + m) - (n + 2) = m - 1
      BY <1>1, <1>3
<1>5. ASSUME NEW i \in n + 2 .. n + 1 + m PROVE uri[i] = "hex"
  <2>1. i - n - 1 \in 1 .. m /\ (i - n - 1) + 1 \in 1 .. e - n /\ n + ((i - n - 1) + 1) = i
        BY <1>1, <1>3
  <2> QED BY <1>3, <2>1
<1> QED BY <1>4, <1>5

\* The factory follows the routes for every URI that is generated, whatever the
\* bound: the general theorem, and UriInv for the length of the ids.
THEOREM DispatchIsCorrect == Spec => []DispatchFollowsRoutes
<1>1. Init => UriInv
  <2> SUFFICES ASSUME Init, kind = "uri" PROVE UriInv
      BY DEF UriInv
  <2>1. input = <<"/">> /\ steps = 0
        BY DEF Init
  <2>2. input \in Seq(Alphabet) /\ Len(input) = 1 /\ input[1] = "/" /\ input # <<>>
        BY <2>1 DEF Alphabet
  <2>3. ASSUME NEW a \in Nat \ {0}, NEW b \in 0 .. Len(input), \A i \in a .. b : input[i] = "hex"
        PROVE  b - a < 0
        BY <2>2, <2>3
  <2> QED BY <2>1, <2>2, <2>3, BoundsAssumption DEF UriInv
<1>2. UriInv => DispatchFollowsRoutes
  <2> SUFFICES ASSUME UriInv, kind = "uri"
               PROVE  FollowsRoutes(input, {Hex(m) : m \in 0 .. MaxUri})
      BY DEF DispatchFollowsRoutes
  <2>1. /\ input \in Seq(Alphabet) /\ input # <<>> /\ input[1] = "/"
        /\ steps \in 0 .. MaxUri
        /\ \A a \in Nat \ {0}, b \in 0 .. Len(input) :
              (\A i \in a .. b : input[i] = "hex") => b - a < steps
        BY DEF UriInv
  <2>2. FollowsRoutes(input, {Hex(m) : m \in Nat})
        BY <2>1, RoutesAreFollowed
  <2>3. \A m \in Nat : m > MaxUri =>
           /\ ~ LeadsTo(input, <<getJobPath>> \o Hex(m))
           /\ ~ LeadsTo(input, <<getJobPath>> \o Hex(m) \o <<".", "json">>)
    <3>1. ASSUME NEW m \in Nat, NEW t \in Seq(Alphabet),
                 LeadsTo(input, <<getJobPath>> \o Hex(m) \o t)
          PROVE  m <= MaxUri
      <4> DEFINE p == <<getJobPath>> \o Hex(m) \o t
      <4>1. getJobPath \in Alphabet /\ "hex" \in Alphabet
            BY DEF Alphabet
      <4>2. Hex(m) \in Seq(Alphabet) /\ Len(Hex(m)) = m /\ \A i \in 1 .. m : Hex(m)[i] = "hex"
            BY <4>1, HexIsSeq
      <4>3. p \in Seq(Alphabet) /\ m < Len(p) /\ \A i \in 1 .. m : p[i + 1] = "hex"
            BY <4>1, <4>2
      <4> HIDE DEF p
      <4>4. PICK a \in Nat \ {0}, b \in 0 .. Len(input) :
               b - a = m - 1 /\ \A i \in a .. b : input[i] = "hex"
            BY <2>1, <3>1, <4>3, IdIsInUri DEF p
      <4>5. b - a < steps
            BY <2>1, <4>4
      <4> QED BY <2>1, <4>4, <4>5, BoundsAssumption
    <3> DEFINE end == <<".", "json">>
    <3>2. <<>> \in Seq(Alphabet) /\ end \in Seq(Alphabet)
          BY DEF Alphabet
    <3>3. \A m \in Nat : <<getJobPath>> \o Hex(m) \o <<>> = <<getJobPath>> \o Hex(m)
      <4> SUFFICES ASSUME NEW m \in Nat
                   PROVE  <<getJobPath>> \o Hex(m) \o <<>> = <<getJobPath>> \o Hex(m)
          OBVIOUS
      <4>1. <<getJobPath>> \in Seq(Alphabet) /\ Hex(m) \in Seq(Alphabet)
            BY HexIsSeq DEF Alphabet
      <4>2. <<getJobPath>> \o Hex(m) \in Seq(Alphabet)
            BY <4>1
      <4> QED BY <4>2, ConcatEmptySeq
    <3> HIDE DEF end
    <3>4. \A m \in Nat : /\ LeadsTo(input, <<getJobPath>> \o Hex(m)) => m <= MaxUri
                         /\ LeadsTo(input, <<getJobPath>> \o Hex(m) \o end) => m <= MaxUri
          BY <3>1, <3>2, <3>3
    <3> QED BY <3>4, BoundsAssumption DEF end
  <2> QED BY <2>2, <2>3, BoundsAssumption DEF FollowsRoutes
<1> QED BY <1>1, <1>2, UriStep, PTL DEF Spec

-----------------------------------------------------------------------------
(* The bodies of requests                                                  *)

\* What the members E can be read as.
Maps(E) == UNION {[A -> {m.value : m \in E}] : A \in SUBSET NamesOf(E)}

\* The set s after one more member.
Given(s, m) == [a \in DOMAIN s \cup {m.name} |-> IF a = m.name THEN m.value ELSE s[a]]

\* One more member gives such a function again.
LEMMA MapsAppend ==
    ASSUME NEW E, NEW p \in Maps(E), NEW l \in E
    PROVE  Given(p, l) \in Maps(E)
<1> DEFINE V == {m.value : m \in E}
           N == NamesOf(E)
           q == Given(p, l)
<1>1. PICK A \in SUBSET N : p \in [A -> V]
      BY DEF Maps
<1>2. l.name \in N /\ l.value \in V
      BY DEF NamesOf
<1> HIDE DEF N, V
<1>3. q \in [A \cup {l.name} -> V] /\ A \cup {l.name} \in SUBSET N
      BY <1>1, <1>2 DEF Given
<1> QED BY <1>3 DEF Maps, N, V

\* AttributeSet reads the members one by one.
LEMMA AttributeFold ==
    ASSUME NEW E
    PROVE  /\ AttributeSet(<<>>) = <<>>
           /\ \A s \in Seq(E), x \in E :
                 /\ AttributeSet(s) \in Maps(E)
                 /\ AttributeSet(Append(s, x)) = Given(AttributeSet(s), x)
<1> DEFINE D == Maps(E)
           b == <<>>
           step == [p \in D |-> [l \in E |-> Given(p, l)]]
           Eq(g, s) == g = [t \in SUBSET (DOMAIN s) |->
                              IF t = {} THEN b
                              ELSE Given(g[t \ {Max(t)}], s[Max(t)])]
           c(s) == CHOOSE g : Eq(g, s)
<1>1. b \in D /\ step \in [D -> [E -> D]]
  <2>1. <<>> \in Maps(E)
        BY NoAttributes DEF Maps
  <2> QED BY <2>1, MapsAppend
<1>2. ASSUME NEW s PROVE AttributeSet(s) = c(s)[DOMAIN s]
      BY Zenon DEF AttributeSet, Given, FoldLeft, MapThenFoldSet
<1>3. ASSUME NEW s \in Seq(E) PROVE Follows(c(s), D, E, b, step, s, Len(s))
  <2> DEFINE n == Len(s)
  <2>1. n \in Nat /\ s \in [1 .. n -> E] /\ DOMAIN s = 1 .. n
        OBVIOUS
  <2> HIDE DEF b, n, step, D
  <2>2. PICK g : IsFold(g, D, b, step, s, n)
        BY <1>1, <2>1, FoldExists
  <2>3. ASSUME NEW t \in SUBSET (1 .. n), t # {}
        PROVE  s[Max(t)] \in E /\ g[t \ {Max(t)}] \in D
    <3>1. Max(t) \in 1 .. n
          BY <2>1, <2>3, MaxInside
    <3> QED BY <2>1, <2>2, <3>1 DEF IsFold
  <2>4. Eq(g, s)
        BY <2>1, <2>2, <2>3 DEF IsFold, step
  <2>5. Eq(c(s), s)
        BY <2>4
  <2> HIDE DEF c
  <2> QED BY <2>1, <2>5 DEF Follows, step, n
<1> HIDE DEF b, c, step, D
<1>4. AttributeSet(<<>>) = b
  <2>1. <<>> \in Seq(E) /\ Len(<<>>) = 0 /\ DOMAIN <<>> = 1 .. 0
        OBVIOUS
  <2> QED BY <1>2, <1>3, <2>1, FoldNone
<1>5. ASSUME NEW s \in Seq(E), NEW x \in E
      PROVE  /\ AttributeSet(s) \in D
             /\ AttributeSet(Append(s, x)) = Given(AttributeSet(s), x)
  <2> DEFINE u == Append(s, x)
             n == Len(s)
             m == n + 1
  <2>1. DOMAIN s = 1 .. n /\ DOMAIN u = 1 .. m /\ u \in Seq(E) /\ Len(u) = m
        OBVIOUS
  <2>2. Longer(u, m, s, n, x) /\ u = Append(s, x)
        BY DEF Longer
  <2> HIDE DEF u, n, m
  <2> DEFINE f == c(s)
             h == c(u)
  <2>3. Follows(f, D, E, b, step, s, n) /\ Follows(h, D, E, b, step, u, m)
        BY <1>3, <2>1, <2>2 DEF Longer
  <2> HIDE DEF f, h
  <2>4. f[1 .. n] \in D /\ h[1 .. m] = step[f[1 .. n]][x]
        BY <1>1, <2>2, <2>3, FoldStep
  <2>5. AttributeSet(s) \in D /\ AttributeSet(u) = step[AttributeSet(s)][x]
        BY <1>2, <2>1, <2>4 DEF f, h
  <2> QED BY <2>2, <2>5 DEF step
<1> QED BY <1>4, <1>5 DEF b, D

\* So does AttributeSets the elements.
LEMMA SetsFold ==
    ASSUME NEW E
    PROVE  /\ AttributeSets(<<>>) = <<>>
           /\ \A s \in Seq(E), x \in E :
                 /\ AttributeSets(s) \in Seq({AttributeSet(e.members) : e \in E})
                 /\ AttributeSets(Append(s, x)) =
                       (IF AttributeSet(x.members) = <<>> THEN AttributeSets(s)
                        ELSE Append(AttributeSets(s), AttributeSet(x.members)))
<1> DEFINE D == Seq({AttributeSet(e.members) : e \in E})
           b == <<>>
           step == [p \in D |-> [l \in E |-> (IF AttributeSet(l.members) = <<>> THEN p
                                              ELSE Append(p, AttributeSet(l.members)))]]
           Eq(g, s) == g = [t \in SUBSET (DOMAIN s) |->
                              IF t = {} THEN b
                              ELSE (IF AttributeSet(s[Max(t)].members) = <<>> THEN g[t \ {Max(t)}]
                                    ELSE Append(g[t \ {Max(t)}], AttributeSet(s[Max(t)].members)))]
           c(s) == CHOOSE g : Eq(g, s)
<1>1. b \in D /\ step \in [D -> [E -> D]]
      OBVIOUS
<1>2. ASSUME NEW s PROVE AttributeSets(s) = c(s)[DOMAIN s]
      BY Zenon DEF AttributeSets, FoldLeft, MapThenFoldSet
<1>3. ASSUME NEW s \in Seq(E) PROVE Follows(c(s), D, E, b, step, s, Len(s))
  <2> DEFINE n == Len(s)
  <2>1. n \in Nat /\ s \in [1 .. n -> E] /\ DOMAIN s = 1 .. n
        OBVIOUS
  <2> HIDE DEF b, n, step, D
  <2>2. PICK g : IsFold(g, D, b, step, s, n)
        BY <1>1, <2>1, FoldExists
  <2>3. ASSUME NEW t \in SUBSET (1 .. n), t # {}
        PROVE  s[Max(t)] \in E /\ g[t \ {Max(t)}] \in D
    <3>1. Max(t) \in 1 .. n
          BY <2>1, <2>3, MaxInside
    <3> QED BY <2>1, <2>2, <3>1 DEF IsFold
  <2>4. Eq(g, s)
        BY <2>1, <2>2, <2>3 DEF IsFold, step
  <2>5. Eq(c(s), s)
        BY <2>4
  <2> HIDE DEF c
  <2> QED BY <2>1, <2>5 DEF Follows, step, n
<1> HIDE DEF b, c, step, D
<1>4. AttributeSets(<<>>) = b
  <2>1. <<>> \in Seq(E) /\ Len(<<>>) = 0 /\ DOMAIN <<>> = 1 .. 0
        OBVIOUS
  <2> QED BY <1>2, <1>3, <2>1, FoldNone
<1>5. ASSUME NEW s \in Seq(E), NEW x \in E
      PROVE  /\ AttributeSets(s) \in D
             /\ AttributeSets(Append(s, x)) =
                   (IF AttributeSet(x.members) = <<>> THEN AttributeSets(s)
                    ELSE Append(AttributeSets(s), AttributeSet(x.members)))
  <2> DEFINE u == Append(s, x)
             n == Len(s)
             m == n + 1
  <2>1. DOMAIN s = 1 .. n /\ DOMAIN u = 1 .. m /\ u \in Seq(E) /\ Len(u) = m
        OBVIOUS
  <2>2. Longer(u, m, s, n, x) /\ u = Append(s, x)
        BY DEF Longer
  <2> HIDE DEF u, n, m
  <2> DEFINE f == c(s)
             h == c(u)
  <2>3. Follows(f, D, E, b, step, s, n) /\ Follows(h, D, E, b, step, u, m)
        BY <1>3, <2>1, <2>2 DEF Longer
  <2> HIDE DEF f, h
  <2>4. f[1 .. n] \in D /\ h[1 .. m] = step[f[1 .. n]][x]
        BY <1>1, <2>2, <2>3, FoldStep
  <2>5. AttributeSets(s) \in D /\ AttributeSets(u) = step[AttributeSets(s)][x]
        BY <1>2, <2>1, <2>4 DEF f, h
  <2> QED BY <2>2, <2>5 DEF step
<1> QED BY <1>4, <1>5 DEF b, D

\* What AttributeSet makes of members: for each name its last value.
SaysLast(ms, s) ==
    /\ DOMAIN s = {ms[n].name : n \in DOMAIN ms}
    /\ \A n \in DOMAIN ms : \/ s[ms[n].name] = ms[n].value
                            \/ \E m \in n + 1 .. Len(ms) : ms[m].name = ms[n].name
    /\ \A a \in DOMAIN s : \E n \in DOMAIN ms : s[a] = ms[n].value

\* One more member keeps what is said last.
LEMMA SaysLastAppend ==
    ASSUME NEW E, NEW ms \in Seq(E), NEW x \in E, NEW s, SaysLast(ms, s), NEW r,
           r = Given(s, x)
    PROVE  SaysLast(Append(ms, x), r)
<1> USE DEF Given
<1> DEFINE u == Append(ms, x)
           n == Len(ms)
<1>1. /\ DOMAIN u = 1 .. n + 1 /\ DOMAIN ms = 1 .. n /\ n \in Nat /\ Len(u) = n + 1
      /\ \A i \in 1 .. n : u[i] = ms[i]
      /\ u[n + 1] = x
      OBVIOUS
<1> HIDE DEF u, n
<1>2. 1 .. n + 1 = (1 .. n) \cup {n + 1}
      BY <1>1
<1>3. DOMAIN r = {u[i].name : i \in DOMAIN u}
  <2>1. DOMAIN r = {ms[i].name : i \in 1 .. n} \cup {x.name}
        BY <1>1 DEF SaysLast
  <2>2. {u[i].name : i \in (1 .. n) \cup {n + 1}} = {ms[i].name : i \in 1 .. n} \cup {x.name}
        BY <1>1
  <2> QED BY <1>1, <1>2, <2>1, <2>2
<1>4. ASSUME NEW i \in 1 .. n + 1
      PROVE  \/ r[u[i].name] = u[i].value
             \/ \E m \in i + 1 .. n + 1 : u[m].name = u[i].name
  <2>1. CASE i = n + 1
        BY <1>1, <2>1
  <2>2. CASE i \in 1 .. n
    <3>1. CASE ms[i].name = x.name
      <4>1. n + 1 \in i + 1 .. n + 1
            BY <1>1, <2>2
      <4> QED BY <1>1, <2>2, <3>1, <4>1
    <3>2. CASE ms[i].name # x.name /\ s[ms[i].name] = ms[i].value
      <4>1. ms[i].name \in DOMAIN s
            BY <1>1, <2>2 DEF SaysLast
      <4> QED BY <1>1, <2>2, <3>2, <4>1
    <3>3. CASE \E m \in i + 1 .. n : ms[m].name = ms[i].name
      <4>1. PICK m \in i + 1 .. n : ms[m].name = ms[i].name
            BY <3>3
      <4>2. m \in i + 1 .. n + 1 /\ m \in 1 .. n
            BY <1>1, <2>2
      <4> QED BY <1>1, <2>2, <4>1, <4>2
    <3> QED BY <1>1, <2>2, <3>1, <3>2, <3>3 DEF SaysLast, n
  <2> QED BY <1>2, <2>1, <2>2
<1>5. ASSUME NEW a \in DOMAIN r PROVE \E i \in 1 .. n + 1 : r[a] = u[i].value
  <2>1. CASE a = x.name
    <3>1. n + 1 \in 1 .. n + 1
          BY <1>1
    <3> QED BY <1>1, <2>1, <3>1
  <2>2. CASE a # x.name
    <3>1. PICK i \in 1 .. n : s[a] = ms[i].value
          BY <1>1, <2>2 DEF SaysLast
    <3> QED BY <1>1, <1>2, <2>2, <3>1
  <2> QED BY <2>1, <2>2
<1>6. \A a \in DOMAIN r : \E i \in DOMAIN u : r[a] = u[i].value
      BY <1>1, <1>5
<1>7. \A i \in DOMAIN u : \/ r[u[i].name] = u[i].value
                          \/ \E m \in i + 1 .. Len(u) : u[m].name = u[i].name
      BY <1>1, <1>4
<1>8. SaysLast(u, r)
      BY <1>3, <1>6, <1>7, Zenon DEF SaysLast
<1> QED BY <1>8 DEF u

\* An attribute set has the last value of each of its names, and no other name.
LEMMA AttributesAreLast ==
    ASSUME NEW E
    PROVE  \A ms \in Seq(E) : /\ SaysLast(ms, AttributeSet(ms))
                              /\ AttributeSet(ms) = <<>> <=> ms = <<>>
<1> DEFINE T == {ms \in Seq(E) : SaysLast(ms, AttributeSet(ms))}
<1>1. /\ AttributeSet(<<>>) = <<>>
      /\ \A s \in Seq(E), x \in E :
            /\ AttributeSet(s) \in Maps(E)
            /\ AttributeSet(Append(s, x)) = Given(AttributeSet(s), x)
      BY AttributeFold
<1>2. <<>> \in T
  <2>1. DOMAIN <<>> = {}
        OBVIOUS
  <2>2. SaysLast(<<>>, <<>>)
        BY <2>1 DEF SaysLast
  <2> QED BY <1>1, <2>2
<1>3. ASSUME NEW ms \in Seq(E), NEW x \in E, ms \in T PROVE Append(ms, x) \in T
  <2> DEFINE s == AttributeSet(ms)
             r == AttributeSet(Append(ms, x))
  <2>1. SaysLast(ms, s)
        BY <1>3
  <2>2. r = Given(s, x)
        BY <1>1
  <2>3. Append(ms, x) \in Seq(E)
        OBVIOUS
  <2> HIDE DEF s, r
  <2>4. SaysLast(Append(ms, x), r)
        BY <2>1, <2>2, SaysLastAppend
  <2> QED BY <2>3, <2>4 DEF r
<1> HIDE DEF T
<1>4. \A ms \in Seq(E) : ms \in T
      BY <1>2, <1>3, SeqInduction
<1>5. ASSUME NEW ms \in Seq(E), AttributeSet(ms) = <<>> PROVE ms = <<>>
  <2>1. DOMAIN <<>> = {}
        OBVIOUS
  <2>2. {ms[n].name : n \in DOMAIN ms} = {}
        BY <1>4, <1>5, <2>1 DEF T, SaysLast
  <2>3. DOMAIN ms = {}
        BY <2>2, Zenon
  <2>4. Len(ms) = 0 /\ Len(<<>>) = 0
    <3>1. DOMAIN ms = 1 .. Len(ms) /\ Len(ms) \in Nat
          OBVIOUS
    <3> QED BY <2>3, <3>1
  <2> QED BY <2>4
<1> QED BY <1>1, <1>4, <1>5 DEF T

\* The attribute sets are those of the elements that have members.
LEMMA SetsHave ==
    ASSUME NEW E
    PROVE  \A es \in Seq(E) :
              ToSet(AttributeSets(es)) = {AttributeSet(e.members) : e \in ToSet(es)} \ {<<>>}
<1> DEFINE F == {AttributeSet(e.members) : e \in E}
           Of(S) == {AttributeSet(e.members) : e \in S} \ {<<>>}
           T == {es \in Seq(E) : ToSet(AttributeSets(es)) = Of(ToSet(es))}
<1>1. /\ AttributeSets(<<>>) = <<>>
      /\ \A s \in Seq(E), x \in E :
            /\ AttributeSets(s) \in Seq(F)
            /\ AttributeSets(Append(s, x)) =
                  (IF AttributeSet(x.members) = <<>> THEN AttributeSets(s)
                   ELSE Append(AttributeSets(s), AttributeSet(x.members)))
      BY SetsFold
<1>2. <<>> \in T
      BY <1>1, ToSetEmpty
<1>3. ASSUME NEW s \in Seq(E), NEW x \in E, s \in T PROVE Append(s, x) \in T
  <2> DEFINE r == AttributeSets(s)
             a == AttributeSet(x.members)
  <2>1. ToSet(Append(s, x)) = ToSet(s) \cup {x} /\ Append(s, x) \in Seq(E)
        BY ToSetAppend
  <2>2. r \in Seq(F) /\ AttributeSets(Append(s, x)) = IF a = <<>> THEN r ELSE Append(r, a)
        BY <1>1
  <2>3. Of(ToSet(s) \cup {x}) = Of(ToSet(s)) \cup ({a} \ {<<>>})
        OBVIOUS
  <2>4. ToSet(r) = Of(ToSet(s))
        BY <1>3
  <2> HIDE DEF r, a, F, Of
  <2>5. ToSet(Append(r, a)) = ToSet(r) \cup {a}
        BY <2>2, ToSetAppend
  <2>6. ToSet(AttributeSets(Append(s, x))) = Of(ToSet(Append(s, x)))
        BY <2>1, <2>2, <2>3, <2>4, <2>5
  <2> QED BY <2>1, <2>6
<1> HIDE DEF T
<1>4. \A s \in Seq(E) : s \in T
      BY <1>2, <1>3, SeqInduction
<1> QED BY <1>4 DEF T

\* A JSON value: texts, elements and members are sequences, as deep as
\* fromString looks.
WellFormed(doc) ==
    /\ IsSeq(doc.members)
    /\ \A n \in DOMAIN doc.members :
          LET v == doc.members[n].value
          IN  /\ v.type = "string" => IsSeq(v.text)
              /\ v.type = "array" =>
                    /\ IsSeq(v.elements)
                    /\ \A m \in DOMAIN v.elements :
                          v.elements[m].type = "object" => IsSeq(v.elements[m].members)

\* A member that is there has the value of one of the members.
LEMMA MemberIsOne ==
    ASSUME NEW doc, IsSeq(doc.members), NEW name, HasMember(doc, name)
    PROVE  \E n \in DOMAIN doc.members : Member(doc, name) = doc.members[n].value
<1> DEFINE P == {n \in DOMAIN doc.members : doc.members[n].name = name}
<1>1. P \subseteq Nat
      BY DEF IsSeq
<1>2. P # {}
      BY DEF HasMember
<1>3. Min(P) \in P
      BY <1>1, <1>2, MinOfNat
<1> QED BY <1>3 DEF Member

\* The attribute sets of elements that are objects.
LEMMA ElementsAreKept ==
    ASSUME NEW es, IsSeq(es), NEW sets, sets = ToSet(AttributeSets(es)),
           \A n \in DOMAIN es : AttributeSetOk(es[n]) /\ IsSeq(es[n].members),
           NEW asks, asks = {n \in DOMAIN es : es[n].members # <<>>}
    PROVE  /\ \A n \in asks : \E s \in sets : Says(es[n], s)
           /\ \A s \in sets : \E n \in asks : Says(es[n], s)
           /\ \A s \in sets : \A a \in DOMAIN s : s[a] # Number
<1>1. sets = {AttributeSet(e.members) : e \in ToSet(es)} \ {<<>>}
  <2>1. PICK E : es \in Seq(E)
        BY DEF IsSeq
  <2> QED BY <2>1, SetsHave
<1>2. ASSUME NEW n \in DOMAIN es
      PROVE  /\ SaysLast(es[n].members, AttributeSet(es[n].members))
             /\ AttributeSet(es[n].members) = <<>> <=> es[n].members = <<>>
  <2>1. PICK E : es[n].members \in Seq(E)
        BY DEF IsSeq
  <2> QED BY <2>1, AttributesAreLast
<1>3. sets = {AttributeSet(es[n].members) : n \in asks}
  <2>1. ToSet(es) = {es[n] : n \in DOMAIN es}
        BY DEF ToSet
  <2> QED BY <1>1, <1>2, <2>1
<1>4. ASSUME NEW n \in asks PROVE Says(es[n], AttributeSet(es[n].members))
      BY <1>2 DEF SaysLast, Says
<1>5. ASSUME NEW n \in asks, NEW a \in DOMAIN AttributeSet(es[n].members)
      PROVE  AttributeSet(es[n].members)[a] # Number
  <2>1. PICK m \in DOMAIN es[n].members :
           AttributeSet(es[n].members)[a] = es[n].members[m].value
        BY <1>2 DEF SaysLast
  <2>2. es[n].members[m].value.type \in {"string", "null"}
        BY DEF AttributeSetOk
  <2> QED BY <2>1, <2>2 DEF Number
<1> QED BY <1>3, <1>4, <1>5, Zenon

\* Whatever the request: the job that Job::fromString makes of one that it
\* accepts keeps every restriction.
THEOREM RequestsAreKept ==
    ASSUME NEW doc, WellFormed(doc), RequestOk(doc)
    PROVE  KeepsRestrictions(doc)
<1> DEFINE job == fromString(doc)
           given == IF HasMember(doc, "attributeSets")
                    THEN Member(doc, "attributeSets").elements ELSE <<>>
           asks == {n \in DOMAIN given : given[n].members # <<>>}
           sets == ToSet(job.attributeSets)
<1>1. IsSeq(doc.members)
      BY DEF WellFormed
<1>2. job.filter = <<>> <=> \/ ~ HasMember(doc, "filter")
                            \/ Member(doc, "filter").text = <<>>
  <2>1. job.filter = IF HasMember(doc, "filter")
                     THEN trim(Member(doc, "filter").text, Blanks) ELSE <<>>
        BY DEF fromString
  <2>2. HasMember(doc, "filter") => IsSeq(Member(doc, "filter").text)
        BY <1>1, MemberIsOne DEF WellFormed, RequestOk
  <2> QED BY <2>1, <2>2, TrimKeepsSome
<1>3. job.attributeSets = IF HasMember(doc, "attributeSets")
                          THEN AttributeSets(Member(doc, "attributeSets").elements) ELSE <<>>
      BY DEF fromString
<1>4. /\ \A n \in asks : \E s \in sets : Says(given[n], s)
      /\ \A s \in sets : \E n \in asks : Says(given[n], s)
      /\ \A s \in sets : \A a \in DOMAIN s : s[a] # Number
  <2>1. CASE HasMember(doc, "attributeSets")
    <3> DEFINE v == Member(doc, "attributeSets")
               es == v.elements
    <3>1. v.type = "array" /\ \A n \in DOMAIN es : AttributeSetOk(es[n])
          BY <2>1 DEF RequestOk
    <3>2. PICK n \in DOMAIN doc.members : v = doc.members[n].value
          BY <1>1, <2>1, MemberIsOne
    <3>3. IsSeq(es) /\ \A m \in DOMAIN es : es[m].type = "object" => IsSeq(es[m].members)
          BY <3>1, <3>2 DEF WellFormed
    <3>4. given = es /\ sets = ToSet(AttributeSets(es))
          BY <1>3, <2>1
    <3>5. \A m \in DOMAIN es : AttributeSetOk(es[m]) /\ IsSeq(es[m].members)
          BY <3>1, <3>3 DEF AttributeSetOk
    <3>6. asks = {m \in DOMAIN es : es[m].members # <<>>}
          BY <3>4
    <3> HIDE DEF given, sets, asks, es, job
    <3>7. /\ \A m \in asks : \E s \in sets : Says(es[m], s)
          /\ \A s \in sets : \E m \in asks : Says(es[m], s)
          /\ \A s \in sets : \A a \in DOMAIN s : s[a] # Number
          BY <3>3, <3>4, <3>5, <3>6, ElementsAreKept
    <3> QED BY <3>4, <3>7
  <2>2. CASE ~ HasMember(doc, "attributeSets")
    <3>1. asks = {} /\ sets = {}
          BY <1>3, <2>2, ToSetEmpty
    <3> QED BY <3>1
  <2> QED BY <2>1, <2>2
<1> QED BY <1>2, <1>4, Zenon DEF KeepsRestrictions

-----------------------------------------------------------------------------

\* The requests of the runs.
BodyInv == kind = "body" => input \in Seq(Members)

\* Every step keeps the requests of the runs such.
LEMMA BodyStep == BodyInv /\ [Next]_vars => BodyInv'
<1> SUFFICES ASSUME BodyInv, [Next]_vars, kind' = "body" PROVE input' \in Seq(Members)
    BY DEF BodyInv
<1>1. CASE AddMember
  <2>1. PICK m \in Members : kind = "body" /\ input' = Append(input, m)
        BY <1>1 DEF AddMember, Grow
  <2> QED BY <2>1 DEF BodyInv
<1>2. CASE UNCHANGED vars
      BY <1>2 DEF BodyInv, vars
<1>3. ~ (GrowText \/ GrowUri \/ AddLine \/ DropLine \/ ChooseField \/ ChooseGeometry \/ AddColumn)
      BY DEF GrowText, GrowUri, AddLine, DropLine, ChooseField, ChooseGeometry, AddColumn, Grow
<1> QED BY <1>1, <1>2, <1>3 DEF Next

\* Sequences that are written out.
LEMMA ShortSequences ==
    ASSUME NEW a, NEW b
    PROVE  IsSeq(<<>>) /\ IsSeq(<<a>>) /\ IsSeq(<<a, b>>)
<1>1. <<>> \in Seq({a, b}) /\ <<a>> \in Seq({a, b}) /\ <<a, b>> \in Seq({a, b})
      OBVIOUS
<1> QED BY <1>1 DEF IsSeq

\* Each of their members is well-formed.
LEMMA MembersAreWellFormed ==
    ASSUME NEW m \in Members
    PROVE  /\ m.value.type = "string" => IsSeq(m.value.text)
           /\ m.value.type = "array" =>
                 /\ IsSeq(m.value.elements)
                 /\ \A n \in DOMAIN m.value.elements :
                       m.value.elements[n].type = "object" => IsSeq(m.value.elements[n].members)
<1> DEFINE v == m.value
<1>1. ASSUME NEW ms PROVE Object(ms).type = "object" /\ Object(ms).members = ms
      BY DEF Object
<1>2. ASSUME NEW e \in Elements, e.type = "object" PROVE IsSeq(e.members)
  <2>1. Number.type = "number"
        BY DEF Number
  <2>2. CASE e = Object(<<>>)
        BY <1>1, <2>2, ShortSequences
  <2>3. CASE \E w \in Values : e = Object(<<M("a", w)>>)
        BY <1>1, <2>3, ShortSequences
  <2>4. CASE \E n \in {"a", "b"}, w, x \in Values : e = Object(<<M("a", w), M(n, x)>>)
        BY <1>1, <2>4, ShortSequences
  <2> QED BY <1>2, <2>1, <2>2, <2>3, <2>4 DEF Elements
<1>3. ASSUME NEW n, NEW w PROVE M(n, w).value = w
      BY DEF M
<1>4. ASSUME NEW t PROVE Text(t).type = "string" /\ Text(t).text = t
      BY DEF Text
<1>5. ASSUME NEW es PROVE Array(es).type = "array" /\ Array(es).elements = es
      BY DEF Array
<1>6. \/ v = Number
      \/ v \in {Text(<<"a">>), Text(<<" ", "a">>), Text(<<" ">>), Text(<<>>)}
      \/ v = Array(<<>>)
      \/ \E e \in Elements : v \in {Array(<<e>>), Array(<<Object(<<>>), e>>)}
  <2>1. CASE \E w \in {Text(<<"a">>), Number} : m = M("layerName", w)
        BY <1>3, <2>1
  <2>2. CASE \E w \in {Text(<<" ", "a">>), Text(<<" ">>), Text(<<>>), Number} : m = M("filter", w)
        BY <1>3, <2>2
  <2>3. CASE \E w \in {Number, Array(<<>>)} \cup {Array(<<e>>) : e \in Elements}
                      \cup {Array(<<Object(<<>>), e>>) : e \in Elements} :
                m = M("attributeSets", w)
    <3>1. PICK w \in {Number, Array(<<>>)} \cup {Array(<<e>>) : e \in Elements}
                      \cup {Array(<<Object(<<>>), e>>) : e \in Elements} :
                m = M("attributeSets", w)
          BY <2>3
    <3>2. v = w
          BY <1>3, <3>1, Zenon
    <3> QED BY <3>2, Zenon
  <2> QED BY <2>1, <2>2, <2>3, Zenon DEF Members
<1>7. CASE v = Number
      BY <1>7 DEF Number
<1>8. CASE v \in {Text(<<"a">>), Text(<<" ", "a">>), Text(<<" ">>), Text(<<>>)}
  <2>1. v.type = "string" /\ v.text \in {<<"a">>, <<" ", "a">>, <<" ">>, <<>>}
        BY <1>4, <1>8, Zenon
  <2>2. IsSeq(v.text)
        BY <2>1, ShortSequences
  <2> QED BY <2>1, <2>2
<1>9. CASE v = Array(<<>>)
  <2>1. v.type = "array" /\ v.elements = <<>>
        BY <1>5, <1>9, Zenon
  <2>2. DOMAIN <<>> = {} /\ IsSeq(<<>>)
    <3>1. <<>> \in Seq({})
          OBVIOUS
    <3> QED BY <3>1 DEF IsSeq
  <2> QED BY <2>1, <2>2
<1>10. ASSUME NEW e \in Elements, v \in {Array(<<e>>), Array(<<Object(<<>>), e>>)}
       PROVE  /\ v.type = "array" /\ IsSeq(v.elements)
              /\ \A n \in DOMAIN v.elements :
                    v.elements[n].type = "object" => IsSeq(v.elements[n].members)
  <2>1. v.type = "array" /\ v.elements \in {<<e>>, <<Object(<<>>), e>>}
        BY <1>5, <1>10, Zenon
  <2>2. IsSeq(v.elements)
        BY <2>1, ShortSequences
  <2>3. \A n \in DOMAIN v.elements : v.elements[n] \in {e, Object(<<>>)}
        BY <2>1
  <2>4. IsSeq(Object(<<>>).members)
        BY <1>1, ShortSequences
  <2> QED BY <1>2, <2>1, <2>2, <2>3, <2>4
<1> HIDE DEF v
<1> QED BY <1>6, <1>7, <1>8, <1>9, <1>10 DEF v

\* Job::fromString never lets a request remove more than the client has
\* described, for all the requests that the runs build, of any length.
THEOREM RequestsKeepRestrictions == Spec => []RequestKeepsRestrictions
<1>1. Init => BodyInv
      BY DEF Init, BodyInv
<1>2. BodyInv => RequestKeepsRestrictions
  <2> SUFFICES ASSUME input \in Seq(Members), RequestOk(Object(input))
               PROVE  KeepsRestrictions(Object(input))
      BY DEF BodyInv, RequestKeepsRestrictions
  <2> DEFINE doc == Object(input)
  <2>1. doc.members = input
        BY DEF Object
  <2>2. \A n \in DOMAIN input : input[n] \in Members
        OBVIOUS
  <2>3. WellFormed(doc)
        BY <2>1, <2>2, MembersAreWellFormed DEF WellFormed, IsSeq
  <2> HIDE DEF doc
  <2>4. RequestOk(doc)
        BY DEF doc
  <2>5. KeepsRestrictions(doc)
        BY <2>3, <2>4, RequestsAreKept
  <2> QED BY <2>5 DEF doc
<1> QED BY <1>1, <1>2, BodyStep, PTL DEF Spec

=============================================================================
