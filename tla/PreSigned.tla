------------------------------ MODULE PreSigned -------------------------------
(***************************************************************************)
(* A signed DPS from the signer to POST /v1/nfse/xml: it is signed, goes   *)
(* through the integrator's hands, and EmissionXMLHandler verifies the     *)
(* signature, validates the structure, reads the document and stores a     *)
(* row.  Three parts of the service read the same tree by rules of their   *)
(* own.                                                                    *)
(*                                                                         *)
(* A text is a kind ("digits", "punctuated" digits, "decimal", "comma" for *)
(* a decimal with a comma, "date", "datetime", "localtime", "word"), a     *)
(* length and, for numbers, a value; the white space around it is trimmed  *)
(* by all who read it.                                                     *)
(***************************************************************************)
EXTENDS XmlTree

CONSTANTS
    Plans,                  \* what the integrators considered do, a set of plans
    SignerMakes(_, _, _),   \* what a signer makes of a document: nothing if he refuses it
    ToolMakes(_, _),        \* what an integrator's tool makes of one
    Verifies(_)             \* does the service's verifier accept its signature?

VARIABLES
    plan,           \* what this integrator does
    document,       \* his document as it is now
    xmlStage,
    rows            \* the row stored: none, or this document's

documentVars == <<plan, document, xmlStage, rows>>

\* Who signs, with which certificate, what the document goes through before it is
\* sent, and how it is sent.  "worker" signs as the worker does, "service" with the
\* compact variant, "standard" is a signer of another make.
IsPlan(p) ==
    /\ p.signer \in {"nobody", "worker", "service", "standard"}
    /\ p.tool \in {"none", "comment", "instruct", "reorder", "reindent", "amend"}
    /\ p.post \in [type : {"xml", "json", "other"}, decodes : BOOLEAN, query : BOOLEAN]

ASSUME PlansAssumption == \A p \in Plans : IsPlan(p)

DocumentInit ==
    /\ plan \in Plans
    /\ document = plan.unsigned
    /\ xmlStage = "unsigned"
    /\ rows = {}

-------------------------------------------------------------------------------
(***************************************************************************)
(* XSDValidator: a check for each element it knows.                        *)
(***************************************************************************)

DigitText(text, length) == text.kind = "digits" /\ text.length = length
OneOf(text, values) == DigitText(text, 1) /\ text.value \in values

\* The element is there and its text passes.
Holds(parent, tag, Test(_)) == \E x \in Find(parent, tag) : Test(Text(x))

\* If the element is there, its text passes.
HoldsIfAny(parent, tag, Test(_)) == \A x \in Find(parent, tag) : Test(Text(x))

validateTpAmb(infDPS) == Holds(infDPS, "tpAmb", LAMBDA t : OneOf(t, {1, 2}))
validateDhEmi(infDPS) == Holds(infDPS, "dhEmi", LAMBDA t : t.kind = "datetime")
validateRequiredElement(infDPS, tag) == Holds(infDPS, tag, LAMBDA t : t # Blank)

\* Mutant: any digits are a series.
validateSerieLoosely(infDPS) == Holds(infDPS, "serie", LAMBDA t : t.kind = "digits")

validateSerie(infDPS) == Holds(infDPS, "serie", LAMBDA t : DigitText(t, 5))

validateNDPS(infDPS) == Holds(infDPS, "nDPS", LAMBDA t : t.kind = "digits" /\ t.length \in 1..15)
validateDCompet(infDPS) == Holds(infDPS, "dCompet", LAMBDA t : t.kind = "date")
validateTpEmit(infDPS) == Holds(infDPS, "tpEmit", LAMBDA t : OneOf(t, {1, 2, 3}))
validateCLocEmi(infDPS) == Holds(infDPS, "cLocEmi", LAMBDA t : DigitText(t, 7))
validateSubst(infDPS) == Holds(infDPS, "subst", LAMBDA t : OneOf(t, {1, 2}))

validatePrest(infDPS) ==
    \E prest \in Find(infDPS, "prest") :
       /\ Find(prest, "CNPJ") \cup Find(prest, "CPF") # {}
       /\ HoldsIfAny(prest, "CNPJ", LAMBDA t : DigitText(t, 14))
       /\ HoldsIfAny(prest, "CPF", LAMBDA t : DigitText(t, 11))

validateServ(infDPS) ==
    \E serv \in Find(infDPS, "serv") :
       /\ Holds(serv, "cTribNac", LAMBDA t : DigitText(t, 6))
       /\ Holds(serv, "xDescServ", LAMBDA t : t # Blank /\ t.length <= 2000)
       /\ Holds(serv, "cLocPrest", LAMBDA t : DigitText(t, 7))

\* The amount stands in vServPrest, or in vServ where there is no vServPrest.
Amount(valores) ==
    IF Find(valores, "vServPrest") # {} THEN Find(valores, "vServPrest") ELSE Find(valores, "vServ")

validateValores(infDPS) ==
    \E valores \in Find(infDPS, "valores") :
       \E x \in Amount(valores) :
          Text(x).kind \in {"digits", "decimal"} /\ Text(x).value > 0

validateInfDPS(infDPS) ==
    /\ validateTpAmb(infDPS) /\ validateDhEmi(infDPS)
    /\ validateRequiredElement(infDPS, "verAplic")
    /\ validateSerie(infDPS) /\ validateNDPS(infDPS) /\ validateDCompet(infDPS)
    /\ validateTpEmit(infDPS) /\ validateCLocEmi(infDPS) /\ validateSubst(infDPS)
    /\ validatePrest(infDPS) /\ validateServ(infDPS) /\ validateValores(infDPS)

ValidateDPS(dps) ==
    /\ dps.tag = "DPS"
    /\ dps.xmlns = "nfse"
    /\ \E infDPS \in Find(dps, "infDPS") : Attribute(infDPS, "Id") # {} /\ validateInfDPS(infDPS)

-------------------------------------------------------------------------------
(***************************************************************************)
(* ParsePreSignedXML and PreSignedInfo.Validate.                           *)
(***************************************************************************)

\* cleanNumericString, as the number of digits it leaves.
CleanLength(found) ==
    IF \E x \in found : Text(x).kind \in {"digits", "punctuated", "decimal"}
    THEN (CHOOSE n \in {Text(x).length : x \in found} : TRUE) ELSE 0

TextOrBlank(found) == IF found = {} THEN Blank ELSE CHOOSE t \in {Text(x) : x \in found} : TRUE

\* The CPF counts where the CNPJ has no digit.
extractProviderInfo(prest) ==
    LET cnpj == CleanLength(Find(prest, "CNPJ"))
    IN [cnpj |-> cnpj, cpf |-> IF cnpj # 0 THEN 0 ELSE CleanLength(Find(prest, "CPF"))]

\* A comma is read as a decimal point here.
extractValuesInfo(infDPS) ==
    LET amounts == {Text(x) : x \in UNION {Amount(v) : v \in Find(infDPS, "valores")}}
    IN IF \E t \in amounts : t.kind \in {"digits", "decimal", "comma"}
       THEN (CHOOSE t \in amounts : TRUE).value ELSE 0

\* What the document says, or nothing when it cannot be told.
ParsePreSignedXML(dps) ==
    {[dpsId       |-> CHOOSE id \in Attribute(infDPS, "Id") : TRUE,
      provider    |-> extractProviderInfo(CHOOSE p \in Find(infDPS, "prest") : TRUE),
      environment |-> TextOrBlank(Find(infDPS, "tpAmb")).value,
      series      |-> TextOrBlank(Find(infDPS, "serie")),
      number      |-> TextOrBlank(Find(infDPS, "nDPS")),
      value       |-> extractValuesInfo(infDPS),
      signed      |-> Find(dps, "Signature") # {}] :
        infDPS \in {x \in Find(dps, "infDPS") :
                       /\ Attribute(x, "Id") # {}
                       /\ \E p \in Find(x, "prest") : extractProviderInfo(p) # [cnpj |-> 0, cpf |-> 0]}}

ValidateInfo(info) ==
    /\ info.dpsId # ""
    /\ info.provider.cnpj \in {0, 14} /\ info.provider.cpf \in {0, 11}
    /\ info.environment \in {1, 2}
    /\ info.signed

GetEnvironmentString(info) == IF info.environment = 1 THEN "producao" ELSE "homologacao"

-------------------------------------------------------------------------------
(***************************************************************************)
(* The steps: the signer, the integrator's tools, the handler.             *)
(***************************************************************************)

\* A signer refuses a certificate or a document that is not fit for it.
SignDocument ==
    LET made == SignerMakes(plan.signer, document, plan.cert)
    IN /\ xmlStage = "unsigned"
       /\ xmlStage' = IF made = {} THEN "unsignable" ELSE "signed"
       /\ document' \in IF made = {} THEN {document} ELSE made
       /\ UNCHANGED <<plan, rows>>

PassThroughTool ==
    /\ xmlStage = "signed"
    /\ xmlStage' = "sent"
    /\ document' = ToolMakes(plan.tool, document)
    /\ UNCHANGED <<plan, rows>>

\* The body is XML, or JSON with the XML in base64.
extractXMLContent(post) == post.type = "xml" \/ (post.type = "json" /\ post.decodes)

\* A JSON request names its webhook in the URL, for its body has been read by then.
extractWebhookURL(post) == IF post.type = "json" /\ post.query THEN "request" ELSE "default"

Accepts(dps) ==
    /\ Verifies(dps)
    /\ ValidateDPS(dps)
    /\ \E info \in ParsePreSignedXML(dps) : ValidateInfo(info)

\* The row that is stored; the worker submits the document as it came.
Row(info, post) ==
    [environment |-> GetEnvironmentString(info), series |-> info.series, number |-> info.number,
     provider |-> IF info.provider.cnpj # 0 THEN info.provider.cnpj ELSE info.provider.cpf,
     value |-> info.value, webhook |-> extractWebhookURL(post)]

CreateFromXML ==
    /\ xmlStage = "sent"
    /\ IF extractXMLContent(plan.post) /\ Accepts(document)
       THEN /\ xmlStage' = "accepted"
            /\ rows' = {Row(info, plan.post) : info \in ParsePreSignedXML(document)}
       ELSE xmlStage' = "refused" /\ rows' = rows
    /\ UNCHANGED <<plan, document>>

DocumentNext == SignDocument \/ PassThroughTool \/ CreateFromXML

DocumentSpec == DocumentInit /\ [][DocumentNext]_documentVars

-------------------------------------------------------------------------------
\* A row says of a document what stands in its infDPS.
RowSays(row, dps) ==
    \E infDPS \in Find(dps, "infDPS") :
       /\ row.environment = "producao" <=> Holds(infDPS, "tpAmb", LAMBDA t : OneOf(t, {1}))
       /\ DigitText(row.series, 5) /\ Holds(infDPS, "serie", LAMBDA t : t = row.series)
       /\ row.number.length \in 1..15 /\ Holds(infDPS, "nDPS", LAMBDA t : t = row.number)
       /\ \E prest \in Find(infDPS, "prest") :
             IF Find(prest, "CNPJ") # {} THEN row.provider = 14
             ELSE row.provider = 11 /\ Holds(prest, "CPF", LAMBDA t : DigitText(t, 11))
       /\ row.value > 0
       /\ \E valores \in Find(infDPS, "valores") :
             \E x \in Amount(valores) : Text(x).value = row.value

\* The row is complete and the document's: the validator and the reader, each with rules of its
\* own, pick the same elements of one tree and understand them alike.  There is a row just when
\* the document is accepted.
RowIsComplete ==
    /\ rows = {} <=> xmlStage # "accepted"
    /\ \A row \in rows : RowSays(row, document)
===============================================================================
