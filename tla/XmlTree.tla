------------------------------- MODULE XmlTree --------------------------------
(***************************************************************************)
(* XML documents as the etree library holds them.  A node is an element,   *)
(* character data, character data that is nothing but a line break and an  *)
(* indentation, a comment, or a processing instruction.  Names have no     *)
(* prefix: a DPS and its signature each declare a default namespace.       *)
(***************************************************************************)
EXTENDS Naturals, SequencesExt

Element(tag, child) == [tag |-> tag, xmlns |-> "", attrs |-> <<>>, child |-> child]
Data(data) == [data |-> data]
Space(width) == [space |-> width]
Comment == [comment |-> TRUE]
Instruction == [instruction |-> TRUE]

IsElement(node) == "tag" \in DOMAIN node
IsData(node) == "data" \in DOMAIN node
IsSpace(node) == "space" \in DOMAIN node
IsComment(node) == "comment" \in DOMAIN node
IsInstruction(node) == "instruction" \in DOMAIN node

\* An element found, or nothing: an element's first child of that name.
Find(element, tag) ==
    LET found == SelectSeq(element.child, LAMBDA c : IsElement(c) /\ c.tag = tag)
    IN IF found = <<>> THEN {} ELSE {Head(found)}

Attribute(element, key) == {a.value : a \in {b \in Range(element.attrs) : b.key = key}}

\* A text of no characters, or of white space, which everything that reads it trims.
Blank == [kind |-> "blank", length |-> 0, value |-> 0]

\* What two pieces of a text make.  The only text that comes in pieces here is of digits.
Joined(text, piece) ==
    IF text = Blank THEN piece
    ELSE [kind |-> text.kind, length |-> text.length + piece.length,
          value |-> text.value * 10^piece.length + piece.value]

\* The character data at the beginning of an element, past comments, up to whatever else
\* there is: an element, an instruction.
Text(element) ==
    LET nodes == SelectSeq(element.child, LAMBDA c : ~IsComment(c))
        end == CHOOSE n \in 0..Len(nodes) :
                  /\ \A i \in 1..n : IsData(nodes[i])
                  /\ n < Len(nodes) => ~IsData(nodes[n + 1])
    IN FoldLeft(LAMBDA text, node : Joined(text, node.data), Blank, SubSeq(nodes, 1, end))
===============================================================================
