----------------------------- MODULE XmlCanonical -----------------------------
(***************************************************************************)
(* What is done with a whole tree: looking through it, pretty printing,    *)
(* and its canonical form.                                                 *)
(***************************************************************************)
EXTENDS XmlTree

\* Every element below one, itself included.
RECURSIVE Elements(_)
Elements(element) ==
    {element} \cup
    UNION {Elements(element.child[i]) :
              i \in {j \in DOMAIN element.child : IsElement(element.child[j])}}

\* Pretty printing with so many columns a level: what was white space goes, and each
\* child that is not character data stands on a line of its own.
RECURSIVE Indent(_, _, _)
Indent(element, columns, depth) ==
    LET nodes == SelectSeq(element.child, LAMBDA c : ~IsSpace(c))
        lines == [i \in DOMAIN nodes |->
                     CASE IsData(nodes[i]) -> <<nodes[i]>>
                       [] IsElement(nodes[i]) ->
                             <<Space(columns * depth), Indent(nodes[i], columns, depth + 1)>>
                       [] OTHER -> <<Space(columns * depth), nodes[i]>>]
        closed == IF nodes = <<>> \/ IsData(Last(nodes)) THEN <<>>
                  ELSE <<Space(columns * (depth - 1))>>
    IN [element EXCEPT !.child = FlattenSeq(lines) \o closed]

\* The document without the processing instructions below an element.
RECURSIVE WithoutInstructions(_)
WithoutInstructions(element) ==
    LET kept == SelectSeq(element.child, LAMBDA c : ~IsInstruction(c))
    IN [element EXCEPT !.child =
           [i \in DOMAIN kept |->
               IF IsElement(kept[i]) THEN WithoutInstructions(kept[i]) ELSE kept[i]]]

-------------------------------------------------------------------------------
(***************************************************************************)
(* Canonicalize.  The canonical form is a tree again: attributes in no     *)
(* order, no comment, no instruction, and of the namespaces those that are *)
(* written.                                                                *)
(***************************************************************************)

\* Elements and character data, which runs on where a node between is left out.
Written(child) ==
    FoldLeft(LAMBDA nodes, c :
                 IF IsData(c) /\ nodes # <<>> /\ IsData(Last(nodes))
                 THEN Front(nodes) \o <<Data(Joined(Last(nodes).data, c.data))>>
                 ELSE Append(nodes, c),
             <<>>,
             SelectSeq(child, LAMBDA c : ~IsComment(c) /\ ~IsInstruction(c)))

\* Mutant: the attributes are written in the order in which they stand.
RECURSIVE canonicalizeUnsorted(_, _)
canonicalizeUnsorted(element, inScope) ==
    LET scope == IF element.xmlns = "" THEN inScope ELSE element.xmlns
        nodes == Written(element.child)
    IN [tag |-> element.tag, attrs |-> element.attrs,
        xmlns |-> IF scope = inScope THEN "" ELSE scope,
        child |-> [i \in DOMAIN nodes |->
                      IF IsElement(nodes[i]) THEN canonicalizeUnsorted(nodes[i], scope)
                      ELSE nodes[i]]]

\* inScope is the namespace that a declaration is compared with.
RECURSIVE canonicalizeElement(_, _)
canonicalizeElement(element, inScope) ==
    LET scope == IF element.xmlns = "" THEN inScope ELSE element.xmlns
        nodes == Written(element.child)
    IN [tag |-> element.tag, attrs |-> Range(element.attrs),
        xmlns |-> IF scope = inScope THEN "" ELSE scope,
        child |-> [i \in DOMAIN nodes |->
                      IF IsElement(nodes[i]) THEN canonicalizeElement(nodes[i], scope)
                      ELSE nodes[i]]]

\* collectNamespacesInScope counts the element's own declaration, and those above it,
\* as in scope already.
Canonicalize(element, inherited) ==
    canonicalizeElement(element, IF element.xmlns = "" THEN inherited ELSE element.xmlns)

RECURSIVE removeSignatureElements(_)
removeSignatureElements(element) ==
    LET kept == SelectSeq(element.child, LAMBDA c : ~(IsElement(c) /\ c.tag = "Signature"))
    IN [element EXCEPT !.child =
           [i \in DOMAIN kept |->
               IF IsElement(kept[i]) THEN removeSignatureElements(kept[i]) ELSE kept[i]]]

\* The copy that is canonicalised is a document of its own, with nothing above it.
CanonicalizeSigned(element) == Canonicalize(removeSignatureElements(element), "")

\* Exclusive canonicalisation as W3C defines it: an element has the namespace that is in
\* scope, which is written unless the output has it already.  (That form keeps the
\* instructions; what is signed here has none.)
ExcC14N(element, inherited) ==
    canonicalizeElement(
        [element EXCEPT !.xmlns = IF @ = "" THEN inherited ELSE @], "")
===============================================================================
