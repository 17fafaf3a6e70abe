----------------------------- MODULE IniParser -----------------------------
(***************************************************************************)
(* Ini::Parser: how the lines of a configuration file become a tree of     *)
(* sections.  A line is a record of its kind.  A "white" line, of white    *)
(* space only, is not skipped like a blank one, because trim returns it    *)
(* unchanged: it is read as a pair without "=".  A level is the path of    *)
(* its section names, the top level is <<>>.                               *)
(***************************************************************************)
EXTENDS Naturals, SequencesExt

\* The state of the parser after some lines.  The calls of parse for the
\* levels above have nothing left to do, since each reads to the end.
Top == [level |-> <<>>, lastKey |-> "", sections |-> {<<>>}, values |-> <<>>,
        error |-> ""]

err(p, message) == [p EXCEPT !.error = message]

\* Blank lines and comments.
Skipped(p) == [p EXCEPT !.lastKey = ""]

\* A line that begins with "+" continues the last value of the level.
Continue(p, line) ==
    IF p.lastKey = "" THEN err(p, "no key to append to")
    ELSE [p EXCEPT !.values[<<p.level, p.lastKey>>] = Append(@, line.text)]

\* Mutant of Enclosing: a section that is not nested is a sibling.
EnclosingSibling(p, depth) ==
    IF depth = Len(p.level) + 1 THEN p.level ELSE SubSeq(p.level, 1, Len(p.level) - 1)

\* The level in which a section of this depth begins: the current one, or as
\* many levels up as it takes.
Enclosing(p, depth) ==
    IF depth = Len(p.level) + 1 THEN p.level ELSE SubSeq(p.level, 1, depth - 1)

Section(p, line) ==
    LET path == Append(Enclosing(p, line.depth), line.name)
    IN  IF line.depth > Len(p.level) + 1 THEN err(p, "section with wrong depth")
        ELSE IF path \in p.sections THEN err(p, "duplicate section name on the same level")
        ELSE [p EXCEPT !.level = path, !.lastKey = "", !.sections = @ \cup {path}]

KeyValue(p, line) ==
    LET place == <<p.level, line.key>>
    IN  IF place \in DOMAIN p.values THEN err(p, "duplicated key found")
        ELSE [p EXCEPT !.lastKey = line.key,
                       !.values = [q \in DOMAIN @ \cup {place} |->
                                     IF q = place THEN <<line.text>> ELSE @[q]]]

parseLine(p, line) ==
    IF p.error # "" THEN p
    ELSE IF line.kind \in {"blank", "comment"} THEN Skipped(p)
    ELSE IF line.kind = "+" THEN Continue(p, line)
    ELSE IF line.kind = "section" THEN Section(p, line)
    ELSE IF line.kind = "pair" THEN KeyValue(p, line)
    ELSE err(p, "no '=' found")

parse(lines) == FoldLeft(parseLine, Top, lines)

=============================================================================
