---------------------------- MODULE RequestBody ----------------------------
(***************************************************************************)
(* Job::fromString: the body of a request as a job.  A JSON value has a    *)
(* type; a string has a text (a sequence of characters), an array has      *)
(* elements, and an object has members [name, value], possibly several     *)
(* with the same name.                                                     *)
(***************************************************************************)
EXTENDS StringUtils

\* What trim removes unless it is told otherwise.
Blanks == {" ", "\t", "\r", "\n"}

\* rapidjson looks a member up by its name and takes the first one.
HasMember(v, name) == \E n \in DOMAIN v.members : v.members[n].name = name
Member(v, name) ==
    v.members[Min({n \in DOMAIN v.members : v.members[n].name = name})].value

\* Mutant of AttributeSet: null is taken for an attribute that is not given.
AttributeSetNotNull(members) ==
    FoldLeft(LAMBDA s, m :
                IF m.value.type = "null" THEN s
                ELSE [a \in DOMAIN s \cup {m.name} |-> IF a = m.name THEN m.value ELSE s[a]],
             <<>>, members)

\* The attributes of one element of attributeSets, given by its members; of
\* several with the same name the last one counts.
AttributeSet(members) ==
    FoldLeft(LAMBDA s, m :
                [a \in DOMAIN s \cup {m.name} |-> IF a = m.name THEN m.value ELSE s[a]],
             <<>>, members)

\* Attribute sets without attributes are dropped.
AttributeSets(elements) ==
    FoldLeft(LAMBDA sets, e : IF AttributeSet(e.members) = <<>> THEN sets
                              ELSE Append(sets, AttributeSet(e.members)),
             <<>>, elements)

AttributeSetOk(v) ==
    /\ v.type = "object"
    /\ \A n \in DOMAIN v.members : v.members[n].value.type \in {"string", "null"}

\* fromString throws std::invalid_argument for any other request.
RequestOk(doc) ==
    /\ doc.type = "object"
    /\ HasMember(doc, "layerName") /\ Member(doc, "layerName").type = "string"
    /\ HasMember(doc, "filter") => Member(doc, "filter").type = "string"
    /\ HasMember(doc, "attributeSets") =>
          /\ Member(doc, "attributeSets").type = "array"
          /\ \A n \in DOMAIN Member(doc, "attributeSets").elements :
                AttributeSetOk(Member(doc, "attributeSets").elements[n])

\* The job of an accepted request.
fromString(doc) ==
    [layerName |-> Member(doc, "layerName").text,
     filter |-> IF HasMember(doc, "filter") THEN trim(Member(doc, "filter").text, Blanks)
                ELSE <<>>,
     attributeSets |->
        IF HasMember(doc, "attributeSets")
        THEN AttributeSets(Member(doc, "attributeSets").elements) ELSE <<>>]

=============================================================================
