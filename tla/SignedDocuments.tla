--------------------------- MODULE SignedDocuments ----------------------------
(***************************************************************************)
(* PreSigned with its parts: the service's signer and verifier, a signer   *)
(* of another make, the tools, and the builder's documents; and what a     *)
(* signature is worth on the way from one to the other.                    *)
(***************************************************************************)
EXTENDS PreSigned, XmlSignature

ASSUME CertificatesAssumption == \A p \in Plans : p.cert \in Certificate

\* The elements DPSBuilder writes, from the digits and words of a configuration, each on
\* its own line.
BuiltDPS(id, c) ==
    LET Leaf(tag) == Element(tag, <<Data(c[tag])>>)
        infDPS == Element("infDPS",
            << Leaf("tpAmb"), Leaf("dhEmi"), Leaf("verAplic"), Leaf("serie"), Leaf("nDPS"),
               Leaf("dCompet"), Leaf("tpEmit"), Leaf("cLocEmi"), Leaf("subst"),
               Element("prest", << Leaf("CNPJ"), Leaf("xNome") >>),
               Element("serv",
                   << Element("locPrest", << Element("cLocPrestacao", <<Data(c["cLocEmi"])>>) >>),
                      Element("cServ", << Leaf("cTribNac") >>), Leaf("xDescServ") >>),
               Element("valores", << Element("vServPrest", << Leaf("vServ") >>) >>) >>)
        dps == Element("DPS", << [infDPS EXCEPT !.attrs = <<[key |-> "Id", value |-> id]>>] >>)
    IN Indent([dps EXCEPT !.xmlns = "nfse", !.attrs = <<[key |-> "versao", value |-> "1.00"]>>], 2, 1)

-------------------------------------------------------------------------------
\* What a signer makes of a document, if it takes it.
SignedBy(signer, dps, cert) ==
    CASE signer = "nobody"                             -> {dps}
      [] signer # "nobody" /\ ~Signable(dps, cert)     -> {}
      [] signer = "worker" /\ Signable(dps, cert)      -> {SignDPS(dps, cert)}
      [] signer = "service" /\ Signable(dps, cert)     -> {SignDPSCompact(dps, cert)}
      [] signer = "standard" /\ Signable(dps, cert)    -> {SignStandard(dps, cert)}

\* Another node among the digits of a text, after the first of them.
Parted(text, node) ==
    LET rest == text.length - 1
    IN << Data([text EXCEPT !.length = 1, !.value = @ \div 10^rest]), node,
          Data([text EXCEPT !.length = rest, !.value = @ % 10^rest]) >>

\* What a tool does to one element ...
Touched(tool, element) ==
    CASE tool = "reorder" -> [element EXCEPT !.attrs = Reverse(@)]
      [] tool = "comment" /\ element.tag = "infDPS" -> [element EXCEPT !.child = <<Comment>> \o @]
      [] tool = "comment" /\ element.tag = "nDPS" ->
            [element EXCEPT !.child = Parted(Text(element), Comment)]
      [] tool = "instruct" /\ element.tag = "nDPS" ->
            [element EXCEPT !.child = Parted(Text(element), Instruction)]
      [] tool = "amend" /\ element.tag = "nDPS" ->
            [element EXCEPT !.child = <<Data([Text(element) EXCEPT !.value = @ + 1])>>]
      [] OTHER -> element

\* ... and so to each: comments in the document and in a text, an instruction in a text,
\* attributes in another order, another DPS number.
RECURSIVE Everywhere(_, _)
Everywhere(tool, element) ==
    Touched(tool,
        [element EXCEPT !.child =
            [i \in DOMAIN @ |-> IF IsElement(@[i]) THEN Everywhere(tool, @[i]) ELSE @[i]]])

\* White space of its own is a matter of the whole document.
Passed(tool, dps) == IF tool = "reindent" THEN Indent(dps, 4, 1) ELSE Everywhere(tool, dps)

-------------------------------------------------------------------------------
\* What a reader finds in the infDPS of a document.
Reading(dps) ==
    UNION {{<<e.tag, Text(e)>> : e \in Elements(infDPS)} : infDPS \in Find(dps, "infDPS")}

InfDPSOf(dps) == CHOOSE x \in Find(dps, "infDPS") : TRUE

\* A signature outlives what the canonical form is there to abstract from: the order of
\* attributes and comments.  Holds for what SignDPSCompact signs.
CompactSignatureHolds ==
    xmlStage \in {"sent", "accepted", "refused"} /\ plan.signer = "service"
        /\ plan.tool \in {"none", "comment", "reorder"}
    => VerifyDPSSignature(document)


\* spec.md: "Given XML with invalid signature, When the integrator POSTs to /nfse/xml, Then
\* the system returns HTTP 400".  Whatever is accepted reads, in every text of its infDPS, as
\* its signer signed it, since a change to what is signed makes a signature invalid.
AcceptedAsSigned ==
    xmlStage = "accepted" =>
        plan.signer # "nobody" /\ Reading(document) = Reading(plan.unsigned)

\* Pretty printing after the signature does not touch the digest of a document of the
\* builder's, which is laid out that way already: DPSBuilder and SignDPS agree.
BuilderDigestSurvives ==
    xmlStage = "signed" /\ plan.signer = "worker" /\ plan.unsigned = Indent(plan.unsigned, 2, 1)
    => CanonicalizeSigned(InfDPSOf(document)) = CanonicalizeSigned(InfDPSOf(plan.unsigned))

\* spec.md: "Given a valid pre-signed DPS XML, When the integrator POSTs to /nfse/xml, Then
\* the system validates the signature and submits".  What a signer with a good certificate
\* has just signed passes VerifyDPSSignature, whether the service's own SignDPS made the
\* signature or one that canonicalises by the standard.
SignatureVerifies == xmlStage = "signed" /\ plan.signer # "nobody" => VerifyDPSSignature(document)
===============================================================================
