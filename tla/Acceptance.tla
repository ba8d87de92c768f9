------------------------------ MODULE Acceptance ------------------------------
(***************************************************************************)
(* A JSON request from its arrival to its DPS: EmissionHandler.Create      *)
(* validates it, answers 400 or stores a document, and later the worker    *)
(* builds the DPS from the document by rules of its own, in a place where  *)
(* nobody can be asked to correct the request any more.                    *)
(*                                                                         *)
(* A text keeps its form; the fields that are only matched against a       *)
(* pattern and copied (names, descriptions, national code, phone, e-mail,  *)
(* webhook URL, password) are one flag.  Amounts are requested in mills    *)
(* and held in float64.                                                    *)
(***************************************************************************)
EXTENDS Money, FiniteSets

CONSTANTS
    RequestSets,        \* the requests considered, a sequence of sets of Request
    MaxAmount,          \* bound: of the amounts of a request, in mills
    MaxServiceValue     \* of the calculator, in mills

VARIABLES
    request,            \* what the integrator asks for
    stage,
    docs,               \* the documents stored: none, or this request's
    dps                 \* the DPS built: none, or this request's

vars == <<request, stage, docs, dps>>

\* A text of digits only, with its leading zeros; or another one.
DigitTexts == {t \in [digits : BOOLEAN, length : 0..17, zeros : 0..17] : t.zeros <= t.length}

\* A CNPJ as it is written: nothing but its 14 digits, with dots, slash and
\* hyphen, with something else between them, or wrong.
CnpjForms == {"bare", "formatted", "spaced", "wrong"}

Amounts == {"service", "unconditional", "conditional", "deductions"}

\* A taker gives identifications, well formed or not, and perhaps an address that
\* passes as a national one, as a foreign one, or as neither.
Taker == [ids : SUBSET {"cnpj", "cpf", "nif"}, valid : BOOLEAN,
          address : {"none", "national", "foreign", "neither"}]

Request ==
    [fields       : BOOLEAN,
     provider     : CnpjForms,
     municipality : DigitTexts,
     series       : DigitTexts,
     number       : DigitTexts,
     taker        : {{}} \cup {{t} : t \in Taker},
     values       : [Amounts -> -MaxAmount..MaxAmount],
     certificate  : {"none", "unusable", "usable"}]

\* The amounts are below ten thousand million, where Money is what float64 does.
ASSUME AcceptanceAssumption ==
    /\ MaxAmount \in Nat
    /\ MaxAmount \div 10^9 < 10^4
    /\ MaxServiceValue \in 1..MaxAmount
    /\ \A i \in DOMAIN RequestSets : RequestSets[i] \subseteq Request

Init ==
    /\ \E i \in DOMAIN RequestSets : request \in RequestSets[i]
    /\ stage = "received"
    /\ docs = {}
    /\ dps = {}

-------------------------------------------------------------------------------
(***************************************************************************)
(* EmissionValidator.Validate and the deeper look at the certificate.      *)
(***************************************************************************)

OfLength(text, length) == text.digits /\ text.length = length

\* CleanCNPJ drops everything that is not a digit.
validateProvider(req) == req.provider # "wrong"

\* Mutant: several identifications are as good as one.
validateIdentificationLoosely(taker) == taker.ids # {} /\ taker.valid

validateIdentification(taker) == Cardinality(taker.ids) = 1 /\ taker.valid

\* A company needs a national address, a person may give one, a foreigner needs a
\* foreign one.
validateTakerAddress(taker) ==
    IF "cnpj" \in taker.ids THEN taker.address = "national"
    ELSE IF "cpf" \in taker.ids THEN taker.address \in {"none", "national"}
    ELSE "nif" \in taker.ids => taker.address = "foreign"

validateTaker(req) ==
    \A taker \in req.taker : validateIdentification(taker) /\ validateTakerAddress(taker)

validateService(req) == OfLength(req.municipality, 7)

\* Mutant: each reduction is compared with the service value for itself.
validateValuesSingly(values) ==
    /\ Less(Zero, values["service"])
    /\ isValidMonetaryValue(values["service"])
    /\ \A a \in Amounts \ {"service"} :
          ~Less(values[a], Zero) /\ ~Less(values["service"], values[a])

validateValues(values) ==
    /\ Less(Zero, values["service"])
    /\ isValidMonetaryValue(values["service"])
    /\ \A a \in Amounts \ {"service"} : ~Less(values[a], Zero)
    /\ LET total == Add(Add(values["unconditional"], values["conditional"]),
                        values["deductions"])
       IN ~Less(values["service"], total)

validateDPS(req) ==
    /\ OfLength(req.series, 5)
    /\ req.number.digits
    /\ req.number.length \in 1..15

ParsedValues(req) == [a \in Amounts |-> Nearest(req.values[a])]

Valid(req) ==
    /\ req.fields
    /\ validateProvider(req)
    /\ validateTaker(req)
    /\ validateService(req)
    /\ validateValues(ParsedValues(req))
    /\ validateDPS(req)
    /\ req.certificate # "unusable"

-------------------------------------------------------------------------------
\* Mutant: the CNPJ is stored as it was written.
StoredAsWritten(req) ==
    [provider |-> req.provider, municipality |-> req.municipality, series |-> req.series,
     number |-> req.number, values |-> ParsedValues(req),
     taker |-> UNION {taker.ids : taker \in req.taker}]

\* The document: the CNPJ cleaned, of the taker the identification and the name.
Stored(req) ==
    [provider |-> "bare", municipality |-> req.municipality, series |-> req.series,
     number |-> req.number, values |-> ParsedValues(req),
     taker |-> UNION {taker.ids : taker \in req.taker}]

\* Mutant: the document is inserted before the verdict.
CreateStoringFirst ==
    /\ stage = "received"
    /\ stage' = IF Valid(request) THEN "accepted" ELSE "refused"
    /\ docs' = {Stored(request)}
    /\ UNCHANGED <<request, dps>>

Create ==
    /\ stage = "received"
    /\ IF Valid(request)
       THEN stage' = "accepted" /\ docs' = {Stored(request)}
       ELSE stage' = "refused" /\ docs' = docs
    /\ UNCHANGED <<request, dps>>

-------------------------------------------------------------------------------
(***************************************************************************)
(* DPSBuilder.Build, and GenerateDPSID, which can fail.                    *)
(***************************************************************************)

\* The number is trimmed of its zeros to be measured, and padded as it was written.
CanGenerateDPSID(d) ==
    /\ OfLength(d.municipality, 7)
    /\ d.provider \in {"bare", "formatted"}
    /\ OfLength(d.series, 5)
    /\ d.number.digits
    /\ d.number.length - d.number.zeros <= 15

\* DPS, municipality, registration type, registration, series, number.
DpsIdLength(d) == 3 + 7 + 1 + 14 + 5 + Later(d.number.length, 15)

buildTaker(d) ==
    IF "cnpj" \in d.taker THEN {"cnpj"}
    ELSE IF "cpf" \in d.taker THEN {"cpf"} ELSE d.taker

TaxBase(values) ==
    LET base == Sub(Sub(values["service"], values["unconditional"]), values["deductions"])
    IN IF Less(base, Zero) THEN Zero ELSE base

\* A reduction that is not positive is left out.
Printed(x) == IF Less(Zero, x) THEN FormatMoney(x) ELSE [minus |-> FALSE, cents |-> 0]

buildValues(values) ==
    [vServ       |-> FormatMoney(values["service"]),
     vDescIncond |-> Printed(values["unconditional"]),
     vDescCond   |-> Printed(values["conditional"]),
     vDR         |-> Printed(values["deductions"]),
     vBCCalc     |-> FormatMoney(TaxBase(values))]

BuildDPS ==
    /\ stage = "accepted"
    /\ \E d \in docs :
          IF CanGenerateDPSID(d)
          THEN /\ stage' = "built"
               /\ dps' = {[idLength |-> DpsIdLength(d), taker |-> buildTaker(d),
                           values |-> buildValues(d.values)]}
          ELSE stage' = "unbuildable" /\ dps' = dps
    /\ UNCHANGED <<request, docs>>

Next == Create \/ BuildDPS

Spec == Init /\ [][Next]_vars

-------------------------------------------------------------------------------
(***************************************************************************)
(* ValueCalculator.Calculate, the calculation as a function of its own,    *)
(* which ValuesValidator repeats; the handlers call neither.               *)
(***************************************************************************)

MayCalculate(values) ==
    LET service == values["service"]
    IN /\ Less(Zero, service)
       /\ ~Less(Nearest(MaxServiceValue), service)
       /\ \A a \in Amounts : hasValidDecimalPrecision(values[a])
       /\ \A a \in Amounts \ {"service"} :
             ~Less(values[a], Zero) /\ ~Less(service, values[a])
       /\ ~Less(service, Add(values["unconditional"], values["deductions"]))

\* The tax base it returns.
Calculate(values) ==
    roundToTwoDecimals(Sub(Sub(values["service"], values["unconditional"]), values["deductions"]))

-------------------------------------------------------------------------------
\* A document exists once the request is accepted, a DPS once it is built: a 400
\* stores nothing and an error in Build makes nothing.
TypeOK ==
    /\ request \in Request
    /\ stage \in {"received", "refused", "accepted", "built", "unbuildable"}
    /\ docs = {} <=> stage \in {"received", "refused"}
    /\ dps = {} <=> stage # "built"

WholeCents == \A a \in Amounts : request.values[a] % 10 = 0

\* What the handler accepts the worker can build: XML_BUILD_ERROR, found when the
\* integrator has his 202, is out of reach, although GenerateDPSID checks again; and the id
\* has the 45 characters of its format, although the number is measured trimmed and written
\* untrimmed.
AcceptedIsBuildable ==
    /\ stage # "unbuildable"
    /\ \A x \in dps : x.idLength = 45

\* The DPS names the taker by the one identification that the request gave:
\* buildTaker takes the first one there is.
TakerIdentified ==
    \A x \in dps : x.taker = UNION {taker.ids : taker \in request.taker}

\* In whole cents the printed amounts add up to the printed tax base, through the
\* float64 arithmetic of buildTaxSection, and none is printed as minus zero; of what the
\* handler accepted the calculator refuses only what exceeds its maximum, which the
\* handler does not know, and its tax base has the cents of the one printed and is not
\* below zero (but may be minus zero, which the builder's never is).
AmountsAddUp ==
    WholeCents =>
        /\ \A x \in dps :
              LET v == x.values
              IN /\ \A field \in DOMAIN v : ~v[field].minus
                 /\ v.vBCCalc.cents = v.vServ.cents - v.vDescIncond.cents - v.vDR.cents
        /\ \A d \in docs :
              /\ MayCalculate(d.values) <=> request.values["service"] <= MaxServiceValue
              /\ ~Less(Calculate(d.values), Zero)
              /\ \A x \in dps :
                    FormatMoney(Calculate(d.values)).cents = x.values.vBCCalc.cents

\* What is accepted obeys the rule in exact arithmetic: no sum of float64 hides
\* that the reductions exceed the service value.
AcceptedWithinService ==
    docs # {} =>
        LET v == request.values
        IN /\ v["service"] > 0 /\ \A a \in Amounts : v[a] >= 0
           /\ v["unconditional"] + v["conditional"] + v["deductions"] <= v["service"]
===============================================================================
