---------------------------- MODULE StringUtils ----------------------------
(***************************************************************************)
(* The string functions of common/stringutils.cpp that the configuration,  *)
(* the worker and the request handlers rely on.  A string is a sequence of *)
(* characters, a position is counted from 1, and npos is 0.                *)
(***************************************************************************)
EXTENDS Naturals, SequencesExt

npos == 0

\* std::string::find_first_not_of and find_last_not_of.
FirstNotOf(s, characters) ==
    LET P == {n \in DOMAIN s : s[n] \notin characters}
    IN  IF P = {} THEN npos ELSE Min(P)

LastNotOf(s, characters) ==
    LET P == {n \in DOMAIN s : s[n] \notin characters}
    IN  IF P = {} THEN npos ELSE Max(P)

\* Mutant of trim: the last character is taken for the end.
trimOneShort(s, characters) ==
    LET start == FirstNotOf(s, characters)
        end == LastNotOf(s, characters)
    IN  SubSeq(s, IF start = npos THEN 1 ELSE start, IF end = npos THEN Len(s) ELSE end - 1)

\* A string of nothing but these characters is returned as it is: without a
\* position to start or end at, the whole string is the result.
trim(s, characters) ==
    LET start == FirstNotOf(s, characters)
        end == LastNotOf(s, characters)
    IN  SubSeq(s, IF start = npos THEN 1 ELSE start, IF end = npos THEN Len(s) ELSE end)

join(elements, separator) ==
    IF elements = <<>> THEN <<>>
    ELSE FoldLeft(LAMBDA os, e : os \o separator \o e, Head(elements), Tail(elements))

split(joined, separator) ==
    LET read(r, c) == IF c = separator
                      THEN [elements |-> Append(r.elements, r.beg), beg |-> <<>>]
                      ELSE [r EXCEPT !.beg = Append(@, c)]
        end == FoldLeft(read, [elements |-> <<>>, beg |-> <<>>], joined)
    IN  Append(end.elements, end.beg)

UpTo(n) == [i \in 1 .. n |-> i]

\* Mutant of NextCosts: the cost of the left neighbour is that of the last row.
NextCostsOldRow(costs, i, c, s2) ==
    LET step(r, j) ==
            [costs |-> [r.costs EXCEPT ![j] =
                          IF c = s2[j] THEN r.corner
                          ELSE Min({r.costs[j], r.corner, costs[j - 1]}) + 1],
             corner |-> r.costs[j]]
    IN  FoldLeft(step, [costs |-> [costs EXCEPT ![0] = i], corner |-> i - 1],
                 UpTo(Len(s2))).costs

\* One row of the table of distances, computed in place: the costs for the
\* first i characters of s1, of which c is the last, from those for i - 1.
NextCosts(costs, i, c, s2) ==
    LET step(r, j) ==
            [costs |-> [r.costs EXCEPT ![j] =
                          IF c = s2[j] THEN r.corner
                          ELSE Min({r.costs[j], r.corner, r.costs[j - 1]}) + 1],
             corner |-> r.costs[j]]
    IN  FoldLeft(step, [costs |-> [costs EXCEPT ![0] = i], corner |-> i - 1],
                 UpTo(Len(s2))).costs

levenshteinDistance(s1, s2) ==
    IF s1 = <<>> THEN Len(s2)
    ELSE IF s2 = <<>> THEN Len(s1)
    ELSE FoldLeft(LAMBDA costs, i : NextCosts(costs, i, s1[i], s2),
                  [k \in 0 .. Len(s2) |-> k], UpTo(Len(s1)))[Len(s2)]

=============================================================================
