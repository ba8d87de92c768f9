---------------------------- MODULE AcceptanceProofs ----------------------------
(***************************************************************************)
(* Both ways in.  A JSON request on its way to the DPS, for any requests   *)
(* and any amounts: what exists at which stage, that the worker can build  *)
(* what the handler accepted, whom the DPS names as its taker, and that    *)
(* its amounts add up.  A document that came signed, for any document: the *)
(* row made of it says what it says.                                       *)
(***************************************************************************)
EXTENDS Acceptance, PreSigned, FiniteSetTheorems, TLAPS

\* The DPS that BuildDPS makes of a document.
BuiltFrom(d) ==
    [idLength |-> DpsIdLength(d), taker |-> buildTaker(d), values |-> buildValues(d.values)]

\* The course of a request: a document is that of a valid request, and a DPS is built from
\* that document.
Course ==
    /\ request \in Request
    /\ \/ stage \in {"received", "refused"} /\ docs = {} /\ dps = {}
       \/ stage = "accepted" /\ Valid(request) /\ docs = {Stored(request)} /\ dps = {}
       \/ /\ stage = "built" /\ Valid(request)
          /\ docs = {Stored(request)} /\ dps = {BuiltFrom(Stored(request))}

-------------------------------------------------------------------------------
\* GenerateDPSID's checks follow from the validator's, and the id has its format's length.
LEMMA ValidIsBuildable ==
    ASSUME NEW req \in Request, Valid(req)
    PROVE  /\ CanGenerateDPSID(Stored(req))
           /\ DpsIdLength(Stored(req)) = 45
<1>1. /\ OfLength(req.municipality, 7)
      /\ OfLength(req.series, 5)
      /\ req.number.digits
      /\ req.number.length \in 1..15
  BY DEF Valid, validateService, validateDPS
<1>2. req.number.zeros \in 0..17
  BY DEF Request, DigitTexts
<1>. DEFINE d == Stored(req)
<1>3. /\ d.provider = "bare" /\ d.municipality = req.municipality
      /\ d.series = req.series /\ d.number = req.number
  BY DEF Stored
<1>. HIDE DEF d
<1>4. CanGenerateDPSID(d)
  BY <1>1, <1>2, <1>3 DEF CanGenerateDPSID
<1>5. Later(d.number.length, 15) = 15
  BY <1>1, <1>3 DEF Later
<1>6. DpsIdLength(d) = 45
  BY <1>5 DEF DpsIdLength
<1>. QED
  BY <1>4, <1>6 DEF d

\* buildTaker leaves nothing of a valid request's taker out.
LEMMA ValidTakerIsOne ==
    ASSUME NEW req \in Request, Valid(req)
    PROVE  buildTaker(Stored(req)) = UNION {taker.ids : taker \in req.taker}
<1>. DEFINE ids == UNION {taker.ids : taker \in req.taker}
<1>1. Stored(req).taker = ids
  BY DEF Stored
<1>2. CASE req.taker = {}
  <2>1. ids = {}
    BY <1>2
  <2>. QED
    BY <1>1, <2>1 DEF buildTaker
<1>3. ASSUME NEW t \in Taker, req.taker = {t}
      PROVE  \E id : ids = {id}
  <2>1. ids = t.ids
    BY <1>3
  <2>2. Cardinality(t.ids) = 1
    BY <1>3 DEF Valid, validateTaker, validateIdentification
  <2>3. IsFiniteSet({"cnpj", "cpf", "nif"})
    <3>1. IsFiniteSet({} \cup {"cnpj"})
      BY FS_EmptySet, FS_AddElement
    <3>2. IsFiniteSet(({} \cup {"cnpj"}) \cup {"cpf"})
      BY <3>1, FS_AddElement
    <3>3. IsFiniteSet((({} \cup {"cnpj"}) \cup {"cpf"}) \cup {"nif"})
      BY <3>2, FS_AddElement
    <3>4. {"cnpj", "cpf", "nif"} = (({} \cup {"cnpj"}) \cup {"cpf"}) \cup {"nif"}
      OBVIOUS
    <3>. QED
      BY <3>3, <3>4
  <2>4. IsFiniteSet(t.ids)
    <3>1. t.ids \in SUBSET {"cnpj", "cpf", "nif"}
      BY DEF Taker
    <3>. QED
      BY <2>3, <3>1, FS_Subset
  <2>. QED
    <3>1. \E id : t.ids = {id}
      BY <2>2, <2>4, FS_Singleton
    <3>. HIDE DEF ids
    <3>. QED
      BY <2>1, <3>1
<1>4. req.taker = {} \/ \E t \in Taker : req.taker = {t}
  BY DEF Request
<1>. HIDE DEF ids
<1>5. (\E id : ids = {id}) => buildTaker(Stored(req)) = ids
  BY <1>1 DEF buildTaker
<1>. QED
  BY <1>2, <1>3, <1>4, <1>5 DEF ids

-------------------------------------------------------------------------------
LEMMA CourseInit == Init => Course
BY AcceptanceAssumption DEF Init, Course

LEMMA CourseStep == Course /\ [Next]_vars => Course'
<1>. SUFFICES ASSUME Course, [Next]_vars PROVE Course'
  OBVIOUS
<1>1. CASE Create
  BY <1>1 DEF Create, Course
<1>2. CASE BuildDPS
  <2>1. /\ Valid(request) /\ docs = {Stored(request)} /\ request \in Request
        /\ request' = request /\ docs' = docs
    BY <1>2 DEF BuildDPS, Course
  <2>2. CanGenerateDPSID(Stored(request))
    BY <2>1, ValidIsBuildable
  <2>3. stage' = "built" /\ dps' = {BuiltFrom(Stored(request))}
    BY <1>2, <2>1, <2>2 DEF BuildDPS, BuiltFrom
  <2>. QED
    BY <2>1, <2>3 DEF Course
<1>3. CASE UNCHANGED vars
  BY <1>3 DEF vars, Course
<1>. QED
  BY <1>1, <1>2, <1>3 DEF Next

\* A refused request leaves nothing behind, an accepted one a document, a built one a DPS.
THEOREM StagesOfARequest == Spec => []TypeOK
<1>1. Course => TypeOK
  BY DEF Course, TypeOK
<1>. QED
  BY CourseInit, CourseStep, <1>1, PTL DEF Spec

\* Whatever the handler accepts the worker can build, and the id of the DPS has 45 characters.
THEOREM AcceptedCanBeBuilt == Spec => []AcceptedIsBuildable
<1>1. Course => AcceptedIsBuildable
  BY ValidIsBuildable DEF Course, AcceptedIsBuildable, BuiltFrom
<1>. QED
  BY CourseInit, CourseStep, <1>1, PTL DEF Spec

\* The DPS names its taker by the identification that the request gave.
THEOREM TakerIsNamed == Spec => []TakerIdentified
<1>1. Course => TakerIdentified
  BY ValidTakerIsOne DEF Course, TakerIdentified, BuiltFrom
<1>. QED
  BY CourseInit, CourseStep, <1>1, PTL DEF Spec

-------------------------------------------------------------------------------
(***************************************************************************)
(* Amounts.  Rounding never moves an amount to another number of mills: it *)
(* changes the distance r, and every comparison looks at r last.           *)
(***************************************************************************)

\* x is the float64 of n mills, however it was rounded.
Mills(x, n) == n \in Int /\ \E k, r : x = [n |-> n, k |-> k, r |-> r]

LEMMA RecordMills ==
    ASSUME NEW n \in Int, NEW k, NEW r
    PROVE  Mills([n |-> n, k |-> k, r |-> r], n)
BY Zenon DEF Mills

LEMMA FieldsOfMills ==
    ASSUME NEW x, NEW n, Mills(x, n)
    PROVE  x.n = n /\ n \in Int
BY DEF Mills

LEMMA NegateMills ==
    ASSUME NEW x, NEW n, Mills(x, n)
    PROVE  Mills(Negate(x), -n)
<1>1. -n \in Int /\ -x.n = -n
  BY FieldsOfMills
<1>2. Negate(x) = [n |-> -n, k |-> x.k, r |-> -x.r]
  BY <1>1, Zenon DEF Negate
<1>. QED
  BY <1>1, <1>2, RecordMills, Zenon

LEMMA ZeroMills == Mills(Zero, 0) /\ Negate(Zero) = Zero
<1>1. Mills(Zero, 0)
  BY RecordMills DEF Zero
<1>2. Zero.n = 0 /\ Zero.k = 0 /\ Zero.r = 0
  BY DEF Zero
<1>3. -0 = 0
  <2>1. 0 \in Int /\ \A i \in Int : -i = 0 - i
    OBVIOUS
  <2>2. \A i \in Int : i = 0 => 0 - i = i
    OBVIOUS
  <2>. QED
    BY <2>1, <2>2, Zenon
<1>4. -Zero.n = 0 /\ -Zero.r = 0
  BY <1>2, <1>3, Zenon
<1>. QED
  BY <1>1, <1>2, <1>4, Zenon DEF Negate, Zero

\* Sums and literals are never the zero with a sign.
LEMMA MillsHaveNoSign ==
    ASSUME NEW x, NEW n, Mills(x, n)
    PROVE  x # NegativeZero
<1>1. DOMAIN x = {"n", "k", "r"}
  BY DEF Mills
<1>2. DOMAIN NegativeZero = {"n", "k", "r", "minus"}
  BY DEF NegativeZero
<1>3. "minus" \notin {"n", "k", "r"}
  OBVIOUS
<1>. QED
  BY <1>1, <1>2, <1>3

LEMMA RoundedMills ==
    ASSUME NEW n \in Int, NEW k, NEW r
    PROVE  Mills(Rounded(n, k, r), n)
<1>1. ASSUME NEW m \in Int, NEW q
      PROVE  Mills(RoundedUp(m, k, q), m)
  <2>. DEFINE e == IF m = 1000 * 2^Later(Exponent(m), 0) /\ q < 0 THEN Exponent(m) - 1 ELSE Exponent(m)
              to == 52 - e
              ulp == 1000 * 2^(k - to)
              rest == (ScaledMod(m, k, 2 * ulp) + q) % (2 * ulp)
              over == rest % ulp
              up == over > ulp \div 2 \/ (over = ulp \div 2 /\ rest >= ulp)
              exact == q * 2^(to - k)
              rounded == (q - over + (IF up THEN ulp ELSE 0)) \div 2^(k - to)
  <2>1. RoundedUp(m, k, q) = IF to >= k THEN [n |-> m, k |-> to, r |-> exact]
                                        ELSE [n |-> m, k |-> to, r |-> rounded]
    BY Zenon DEF RoundedUp
  <2>. HIDE DEF to, exact, rounded
  <2>2. Mills([n |-> m, k |-> to, r |-> exact], m) /\ Mills([n |-> m, k |-> to, r |-> rounded], m)
    BY RecordMills, Zenon
  <2>. QED
    BY <2>1, <2>2, Zenon
<1>2. CASE n = 0
  BY <1>2 DEF Rounded, Mills
<1>3. CASE n > 0
  BY <1>1, <1>3 DEF Rounded
<1>4. CASE n < 0
  <2>1. Mills(RoundedUp(-n, k, -r), -n)
    BY <1>1
  <2>2. Mills(Negate(RoundedUp(-n, k, -r)), -(-n))
    BY <2>1, NegateMills, Zenon
  <2>3. Rounded(n, k, r) = Negate(RoundedUp(-n, k, -r)) /\ -(-n) = n
    BY <1>4 DEF Rounded
  <2>. QED
    BY <2>2, <2>3
<1>. QED
  BY <1>2, <1>3, <1>4

LEMMA NearestMills ==
    ASSUME NEW n \in Int
    PROVE  Mills(Nearest(n), n)
<1>1. CASE n = 0
  <2>1. Nearest(n) = Zero
    BY <1>1, Zenon DEF Nearest
  <2>. QED
    BY <1>1, <2>1, ZeroMills
<1>2. CASE n # 0
  <2>. DEFINE i == IF n < 0 THEN -n ELSE n
              k == 52 - Exponent(i)
              over == ScaledMod(i, k, 1000)
              r == IF over < 500 THEN -over ELSE 1000 - over
              x == [n |-> i, k |-> k, r |-> r]
  <2>1. Nearest(n) = IF n < 0 THEN Negate(x) ELSE x
    BY <1>2, Zenon DEF Nearest
  <2>2. i \in Int /\ (n >= 0 => i = n) /\ (n < 0 => -i = n)
    OBVIOUS
  <2>. HIDE DEF i, r, k
  <2>3. Mills(x, i)
    BY <2>2, RecordMills
  <2>4. Mills(Negate(x), -i)
    BY <2>3, NegateMills
  <2>. HIDE DEF x
  <2>. QED
    BY <2>1, <2>2, <2>3, <2>4
<1>. QED
  BY <1>1, <1>2

LEMMA NearestZero == Nearest(0) = Zero
BY Zenon DEF Nearest

LEMMA AddMills ==
    ASSUME NEW x, NEW y, NEW m, NEW n, Mills(x, m), Mills(y, n)
    PROVE  Mills(Add(x, y), m + n)
<1>1. x.n = m /\ y.n = n /\ m \in Int /\ n \in Int
  BY DEF Mills
<1>2. CASE y = Zero
  BY <1>1, <1>2 DEF Add, Zero
<1>3. CASE y # Zero
  BY <1>1, <1>3, RoundedMills DEF Add
<1>. QED
  BY <1>2, <1>3

LEMMA SubMills ==
    ASSUME NEW x, NEW y, NEW m, NEW n, Mills(x, m), Mills(y, n)
    PROVE  Mills(Sub(x, y), m - n)
<1>1. Mills(Add(x, Negate(y)), m + (-n))
  BY NegateMills, AddMills
<1>2. m + (-n) = m - n
  BY DEF Mills
<1>. QED
  BY <1>1, <1>2 DEF Sub

LEMMA Times100Mills ==
    ASSUME NEW x, NEW n, Mills(x, n)
    PROVE  Mills(Times100(x), 100 * n)
<1>1. x.n = n /\ n \in Int
  BY DEF Mills
<1>. QED
  BY <1>1, RoundedMills DEF Times100

LEMMA LessMills ==
    ASSUME NEW x, NEW y, NEW m, NEW n, Mills(x, m), Mills(y, n)
    PROVE  /\ Less(x, y) => m <= n
           /\ m < n => Less(x, y)
BY DEF Less, Mills

-------------------------------------------------------------------------------
\* What is accepted obeys the rule in exact arithmetic.
LEMMA ValidIsWithin ==
    ASSUME NEW req \in Request, Valid(req)
    PROVE  LET v == req.values
           IN /\ v["service"] > 0 /\ \A a \in Amounts : v[a] \in Nat
              /\ v["unconditional"] + v["conditional"] + v["deductions"] <= v["service"]
<1>. DEFINE v == req.values
            x == ParsedValues(req)
<1>1. \A a \in Amounts : v[a] \in Int
  BY AcceptanceAssumption DEF Request
<1>2. \A a \in Amounts : Mills(x[a], v[a])
  BY <1>1, NearestMills DEF ParsedValues
<1>3. x["service"] = Nearest(v["service"])
  BY DEF ParsedValues, Amounts
<1>4. validateValues(x)
  BY DEF Valid
<1>. HIDE DEF x, v
<1>5. v["service"] \in Int /\ v["service"] > 0
  <2>1. 0 <= v["service"] /\ v["service"] \in Int
    BY <1>1, <1>2, <1>4, LessMills, ZeroMills DEF validateValues, Amounts
  <2>2. v["service"] # 0
    <3>. SUFFICES ASSUME v["service"] = 0 PROVE FALSE
      OBVIOUS
    <3>1. x["service"] = Zero
      BY <1>3, NearestZero, Zenon
    <3>. QED
      BY <1>4, <3>1, Zenon DEF validateValues, Less
  <2>. QED
    BY <2>1, <2>2
<1>6. \A a \in Amounts : v[a] >= 0
  <2>. SUFFICES ASSUME NEW a \in Amounts, a # "service" PROVE v[a] >= 0
    BY <1>5
  <2>1. ~Less(x[a], Zero) /\ v[a] \in Int
    BY <1>1, <1>4 DEF validateValues
  <2>2. v[a] < 0 => Less(x[a], Zero)
    BY <1>2, LessMills, ZeroMills
  <2>. QED
    BY <2>1, <2>2
<1>7. v["unconditional"] + v["conditional"] + v["deductions"] <= v["service"]
  <2>. DEFINE u == v["unconditional"]
              c == v["conditional"]
              d == v["deductions"]
              total == Add(Add(x["unconditional"], x["conditional"]), x["deductions"])
  <2>1. Mills(x["unconditional"], u) /\ Mills(x["conditional"], c) /\ Mills(x["deductions"], d)
        /\ Mills(x["service"], v["service"])
    BY <1>2 DEF Amounts
  <2>2. Mills(total, (u + c) + d)
    BY <2>1, AddMills
  <2>3. ~Less(x["service"], total)
    BY <1>4 DEF validateValues
  <2>4. u \in Int /\ c \in Int /\ d \in Int
    BY <1>1 DEF Amounts
  <2>5. ~(v["service"] < (u + c) + d)
    BY <2>1, <2>2, <2>3, LessMills, Zenon
  <2>. QED
    BY <1>5, <2>4, <2>5
<1>. QED
  BY <1>1, <1>5, <1>6, <1>7 DEF v
\* A whole number of cents is printed as it is, and an amount that is not below zero
\* without a sign.
LEMMA WholeCentsPrinted ==
    ASSUME NEW x, NEW n, Mills(x, n), n >= 0, n % 10 = 0, ~Less(x, Zero)
    PROVE  FormatMoney(x) = [minus |-> FALSE, cents |-> n \div 10]
<1>1. x.n = n /\ n \in Int
  BY FieldsOfMills
<1>2. ~(x.n % 10 > 5) /\ x.n % 10 # 5
  BY <1>1
<1>3. Less(x, Zero) = FALSE
  BY DEF Less
<1>4. HasSign(x) = FALSE
  BY <1>3, MillsHaveNoSign DEF HasSign
<1>5. FormatMoney(x) = [minus |-> FALSE, cents |-> x.n \div 10]
  BY <1>2, <1>3, <1>4 DEF FormatMoney
<1>. QED
  BY <1>1, <1>5

LEMMA NearestPrinted ==
    ASSUME NEW n \in Nat, n % 10 = 0
    PROVE  /\ ~Less(Nearest(n), Zero)
           /\ FormatMoney(Nearest(n)) = [minus |-> FALSE, cents |-> n \div 10]
           /\ Printed(Nearest(n)) = [minus |-> FALSE, cents |-> n \div 10]
<1>1. Mills(Nearest(n), n)
  BY NearestMills
<1>2. ~Less(Nearest(n), Zero)
  <2>1. CASE n = 0
    BY <2>1, NearestZero DEF Less
  <2>2. CASE n > 0
    BY <1>1, <2>2, LessMills, ZeroMills
  <2>. QED
    BY <2>1, <2>2
<1>3. FormatMoney(Nearest(n)) = [minus |-> FALSE, cents |-> n \div 10]
  BY <1>1, <1>2, WholeCentsPrinted
<1>4. n > 0 => Less(Zero, Nearest(n))
  BY <1>1, LessMills, ZeroMills
<1>5. ~(n > 0) => n \div 10 = 0
  OBVIOUS
<1>6. Printed(Nearest(n)) = [minus |-> FALSE, cents |-> n \div 10]
  BY <1>3, <1>4, <1>5, Zenon DEF Printed
<1>. QED
  BY <1>2, <1>3, <1>6

LEMMA NearestIsPrecise ==
    ASSUME NEW n \in Int, n % 10 = 0
    PROVE  hasValidDecimalPrecision(Nearest(n))
<1>1. Mills(Times100(Nearest(n)), 100 * n)
  BY NearestMills, Times100Mills
<1>2. Times100(Nearest(n)).n = 100 * n
  BY <1>1, FieldsOfMills
<1>3. (100 * n) % 1000 = 0
  OBVIOUS
<1>. QED
  BY <1>2, <1>3 DEF hasValidDecimalPrecision

\* Rounding to two decimals takes the rest away, and leaves the sign of a zero.
LEMMA RoundedToCents ==
    ASSUME NEW x, NEW n, Mills(x, n), n >= 0, n % 10 = 0
    PROVE  \/ roundToTwoDecimals(x) = Nearest(n)
           \/ n = 0 /\ roundToTwoDecimals(x) = NegativeZero
<1>1. n \in Int
  BY FieldsOfMills
<1>2. \A i : Mills(i, n) => Times100(i).n = 100 * n
  BY Times100Mills, FieldsOfMills
<1>3. /\ (100 * n) % 1000 = 0
      /\ 10 * ((100 * n) \div 1000 + 0) = n
  BY <1>1
<1>4. CASE ~Less(x, Zero)
  <2>1. Times100(x).n = 100 * n
    BY <1>2
  <2>. QED
    BY <1>3, <1>4, <2>1 DEF roundToTwoDecimals
<1>5. CASE Less(x, Zero)
  <2>1. n = 0
    BY <1>1, <1>5, LessMills, ZeroMills
  <2>2. Times100(Negate(x)).n = 100 * n
    <3>1. Mills(Negate(x), -n)
      BY NegateMills
    <3>2. \A i \in Int : i = 0 => 0 - i = i
      OBVIOUS
    <3>3. \A i \in Int : -i = 0 - i
      OBVIOUS
    <3>4. -n = n
      BY <1>1, <2>1, <3>2, <3>3, Zenon
    <3>. QED
      BY <1>2, <3>1, <3>4, Zenon
  <2>3. roundToTwoDecimals(x) = IF Nearest(n) = Zero THEN NegativeZero ELSE Negate(Nearest(n))
    BY <1>3, <1>5, <2>2 DEF roundToTwoDecimals
  <2>. QED
    BY <2>1, <2>3, NearestZero
<1>. QED
  BY <1>4, <1>5

\* A base that is rounded to whole cents has the cents of its amount and is not below zero.
LEMMA RoundedPrinted ==
    ASSUME NEW x, NEW n, Mills(x, n), n >= 0, n % 10 = 0
    PROVE  /\ ~Less(roundToTwoDecimals(x), Zero)
           /\ FormatMoney(roundToTwoDecimals(x)).cents = n \div 10
<1>. n \in Nat
  BY FieldsOfMills
<1>1. CASE roundToTwoDecimals(x) = Nearest(n)
  BY <1>1, NearestPrinted
<1>2. CASE n = 0 /\ roundToTwoDecimals(x) = NegativeZero
  <2>1. /\ NegativeZero.n = 0 /\ NegativeZero.r = 0
        /\ Zero.n = 0 /\ Zero.r = 0
    BY DEF NegativeZero, Zero
  <2>2. Less(NegativeZero, Zero) = FALSE
    BY <2>1 DEF Less, Distance
  <2>3. /\ 0 % 10 = 0 /\ 0 \div 10 = 0
    OBVIOUS
  <2>4. FormatMoney(NegativeZero).cents = 0
    BY <2>1, <2>2, <2>3 DEF FormatMoney
  <2>. QED
    BY <1>2, <2>2, <2>3, <2>4
<1>. QED
  BY <1>1, <1>2, RoundedToCents

\* A whole-cents request that the handler accepts.
Whole(req) == \A a \in Amounts : req.values[a] % 10 = 0

LEMMA WholeMayCalculate ==
    ASSUME NEW req \in Request, Valid(req), Whole(req)
    PROVE  MayCalculate(ParsedValues(req)) <=> req.values["service"] <= MaxServiceValue
<1>. DEFINE v == req.values
            x == ParsedValues(req)
            s == v["service"]
<1>1. /\ \A a \in Amounts : v[a] \in Nat
      /\ s > 0 /\ s \in Nat
      /\ v["unconditional"] + v["conditional"] + v["deductions"] <= s
  BY ValidIsWithin DEF Amounts
<1>2. \A a \in Amounts : x[a] = Nearest(v[a])
  BY DEF ParsedValues
<1>3. \A a \in Amounts : Mills(x[a], v[a]) /\ hasValidDecimalPrecision(x[a]) /\ ~Less(x[a], Zero)
  BY <1>1, <1>2, NearestMills, NearestIsPrecise, NearestPrinted DEF Whole
<1>4. Mills(Nearest(MaxServiceValue), MaxServiceValue) /\ MaxServiceValue \in Int
  BY AcceptanceAssumption, NearestMills
<1>5. "service" \in Amounts /\ "unconditional" \in Amounts /\ "conditional" \in Amounts
      /\ "deductions" \in Amounts
  BY DEF Amounts
<1>. HIDE DEF x, v, s
<1>6. Less(Nearest(MaxServiceValue), x["service"]) <=> s > MaxServiceValue
  <2>1. CASE s = MaxServiceValue
    <3>1. x["service"] = Nearest(MaxServiceValue)
      BY <1>2, <1>5, <2>1 DEF s
    <3>. QED
      BY <1>1, <1>4, <2>1, <3>1 DEF Less
  <2>2. CASE s # MaxServiceValue
    BY <1>1, <1>3, <1>4, <1>5, <2>2, LessMills DEF s
  <2>. QED
    BY <2>1, <2>2
<1>7. Less(Zero, x["service"])
  BY <1>1, <1>3, <1>5, LessMills, ZeroMills DEF s
<1>8. ASSUME NEW a \in Amounts PROVE ~Less(x["service"], x[a])
  <2>1. v[a] <= s
    BY <1>1, <1>5 DEF s, Amounts
  <2>2. CASE v[a] = s
    BY <1>2, <1>5, <2>2 DEF Less, s
  <2>3. CASE v[a] < s
    BY <1>1, <1>3, <1>5, <2>3, LessMills DEF s
  <2>. QED
    BY <1>1, <2>1, <2>2, <2>3
<1>9. ~Less(x["service"], Add(x["unconditional"], x["deductions"]))
  <2>. DEFINE u == v["unconditional"]
              c == v["conditional"]
              d == v["deductions"]
  <2>1. u \in Nat /\ c \in Nat /\ d \in Nat /\ u + c + d <= s
    BY <1>1, <1>5
  <2>2. CASE c = 0
    <3>1. x["conditional"] = Zero
      BY <1>2, <1>5, <2>2, NearestZero
    <3>2. Add(x["unconditional"], x["conditional"]) = x["unconditional"]
      BY <3>1, Zenon DEF Add
    <3>. QED
      BY <3>2, Zenon DEF Valid, validateValues, x
  <2>3. CASE c > 0
    <3>1. Mills(Add(x["unconditional"], x["deductions"]), u + d)
      BY <1>3, <1>5, AddMills
    <3>2. u + d < s
      BY <1>1, <2>1, <2>3
    <3>. QED
      BY <1>1, <1>3, <1>5, <3>1, <3>2, LessMills DEF s
  <2>. QED
    BY <2>1, <2>2, <2>3
<1>. QED
  BY <1>1, <1>3, <1>4, <1>5, <1>6, <1>7, <1>8, <1>9 DEF MayCalculate, x, s, v

\* An amount in whole cents, as it is printed.
Plain(n) == [minus |-> FALSE, cents |-> n \div 10]

\* The amounts of a whole-cents request, as the DPS gives them, add up in exact arithmetic.
LEMMA WholeAddsUp ==
    ASSUME NEW req \in Request, Valid(req), Whole(req)
    PROVE  LET p == buildValues(ParsedValues(req))
           IN /\ \A field \in DOMAIN p : ~p[field].minus
              /\ p.vBCCalc.cents = p.vServ.cents - p.vDescIncond.cents - p.vDR.cents
              /\ ~Less(Calculate(ParsedValues(req)), Zero)
              /\ FormatMoney(Calculate(ParsedValues(req))).cents = p.vBCCalc.cents
<1>. DEFINE v == req.values
            x == ParsedValues(req)
            s == v["service"]
            u == v["unconditional"]
            c == v["conditional"]
            d == v["deductions"]
            base == s - u - d
            y == Sub(Sub(x["service"], x["unconditional"]), x["deductions"])
<1>1. /\ s \in Nat /\ u \in Nat /\ c \in Nat /\ d \in Nat /\ u + c + d <= s
      /\ s % 10 = 0 /\ u % 10 = 0 /\ c % 10 = 0 /\ d % 10 = 0
  BY ValidIsWithin DEF Amounts, Whole
<1>2. /\ x["service"] = Nearest(s) /\ x["unconditional"] = Nearest(u)
      /\ x["conditional"] = Nearest(c) /\ x["deductions"] = Nearest(d)
  BY DEF ParsedValues, Amounts
<1>. HIDE DEF x, s, u, c, d
<1>3. base \in Nat /\ base % 10 = 0 /\ base \div 10 = s \div 10 - u \div 10 - d \div 10
  BY <1>1
<1>4. Mills(y, base)
  <2>1. Mills(x["service"], s) /\ Mills(x["unconditional"], u) /\ Mills(x["deductions"], d)
    BY <1>1, <1>2, NearestMills
  <2>. QED
    BY <2>1, SubMills
<1>5. FormatMoney(TaxBase(x)) = Plain(base)
  <2>1. CASE Less(y, Zero)
    <3>1. base = 0
      BY <1>3, <1>4, <2>1, LessMills, ZeroMills
    <3>2. TaxBase(x) = Nearest(0)
      BY <2>1, NearestZero, Zenon DEF TaxBase
    <3>3. FormatMoney(Nearest(0)) = Plain(0)
      <4>1. 0 \in Nat /\ 0 % 10 = 0
        OBVIOUS
      <4>. QED
        BY <4>1, NearestPrinted DEF Plain
    <3>. QED
      BY <3>1, <3>2, <3>3
  <2>2. CASE ~Less(y, Zero)
    <3>1. TaxBase(x) = y
      BY <2>2, Zenon DEF TaxBase
    <3>2. base >= 0
      BY <1>3
    <3>. HIDE DEF y, base
    <3>3. FormatMoney(y) = Plain(base)
      BY <1>3, <1>4, <2>2, <3>2, WholeCentsPrinted, Zenon DEF Plain
    <3>. QED
      BY <3>1, <3>3
  <2>. QED
    BY <2>1, <2>2
<1>6. ~Less(Calculate(x), Zero) /\ FormatMoney(Calculate(x)).cents = base \div 10
  <2>1. Calculate(x) = roundToTwoDecimals(y)
    BY DEF Calculate
  <2>. HIDE DEF y, base
  <2>. QED
    BY <1>3, <1>4, <2>1, RoundedPrinted
<1>7. /\ FormatMoney(x["service"]) = Plain(s)
      /\ Printed(x["unconditional"]) = Plain(u)
      /\ Printed(x["conditional"]) = Plain(c)
      /\ Printed(x["deductions"]) = Plain(d)
  BY <1>1, <1>2, NearestPrinted DEF Plain
<1>8. buildValues(x) = [vServ |-> Plain(s), vDescIncond |-> Plain(u), vDescCond |-> Plain(c),
                        vDR |-> Plain(d), vBCCalc |-> Plain(base)]
  BY <1>5, <1>7, Zenon DEF buildValues
<1>9. /\ \A n : ~Plain(n).minus /\ Plain(n).cents = n \div 10
  BY DEF Plain
<1>. HIDE DEF base
<1>. QED
  BY <1>3, <1>6, <1>8, <1>9 DEF x

\* What is accepted obeys the rule that the reductions do not exceed the service value in
\* exact arithmetic, whatever the amounts: float64 sums hide no excess.
THEOREM AcceptedIsWithin == Spec => []AcceptedWithinService
<1>1. Course => AcceptedWithinService
  <2>. SUFFICES ASSUME Course, docs # {} PROVE AcceptedWithinService
    BY DEF AcceptedWithinService
  <2>1. request \in Request /\ Valid(request)
    BY DEF Course
  <2>. QED
    BY <2>1, ValidIsWithin DEF AcceptedWithinService
<1>. QED
  BY CourseInit, CourseStep, <1>1, PTL DEF Spec

\* In whole cents the printed amounts add up to the printed tax base, none has a sign, and the
\* calculator accepts what does not exceed its maximum and comes to the same cents, though
\* perhaps to minus zero.
THEOREM AmountsOfADpsAddUp == Spec => []AmountsAddUp
<1>1. Course => AmountsAddUp
  <2>. SUFFICES ASSUME Course, WholeCents PROVE AmountsAddUp
    BY DEF AmountsAddUp
  <2>. DEFINE p == ParsedValues(request)
  <2>1. Whole(request)
    BY DEF Whole, WholeCents
  <2>2. ASSUME NEW d \in docs
        PROVE  /\ request \in Request /\ Valid(request)
               /\ d.values = p
    BY DEF Course, Stored
  <2>3. ASSUME NEW x \in dps
        PROVE  /\ request \in Request /\ Valid(request)
               /\ x.values = buildValues(p)
    <3>1. request \in Request /\ Valid(request) /\ x = BuiltFrom(Stored(request))
      BY DEF Course
    <3>2. Stored(request).values = p
      BY DEF Stored
    <3>3. BuiltFrom(Stored(request)).values = buildValues(Stored(request).values)
      BY DEF BuiltFrom
    <3>. QED
      BY <3>1, <3>2, <3>3
  <2>. HIDE DEF p
  <2>4. ASSUME NEW x \in dps
        PROVE  LET v == x.values
               IN /\ \A field \in DOMAIN v : ~v[field].minus
                  /\ v.vBCCalc.cents = v.vServ.cents - v.vDescIncond.cents - v.vDR.cents
    BY <2>1, <2>3, WholeAddsUp, Zenon DEF p
  <2>5. ASSUME NEW d \in docs
        PROVE  /\ MayCalculate(d.values) <=> request.values["service"] <= MaxServiceValue
               /\ ~Less(Calculate(d.values), Zero)
               /\ \A x \in dps :
                     FormatMoney(Calculate(d.values)).cents = x.values.vBCCalc.cents
    <3>1. MayCalculate(d.values) <=> request.values["service"] <= MaxServiceValue
      BY <2>1, <2>2, WholeMayCalculate DEF p
    <3>2. ~Less(Calculate(d.values), Zero)
      BY <2>1, <2>2, WholeAddsUp, Zenon DEF p
    <3>3. ASSUME NEW x \in dps
          PROVE  FormatMoney(Calculate(d.values)).cents = x.values.vBCCalc.cents
      BY <2>1, <2>2, <2>3, WholeAddsUp, Zenon DEF p
    <3>. QED
      BY <3>1, <3>2, <3>3
  <2>. QED
    BY <2>4, <2>5 DEF AmountsAddUp
<1>. QED
  BY CourseInit, CourseStep, <1>1, PTL DEF Spec

-------------------------------------------------------------------------------
(***************************************************************************)
(* PreSigned.  The validator's rules and the reader's meet in what Find    *)
(* gives: one element or none.  Nothing is used of the signer, the tools   *)
(* and the verifier.                                                       *)
(***************************************************************************)

\* Find gives one element or none, so whoever finds an element finds the same.
LEMMA OneFound ==
    ASSUME NEW element, NEW tag, NEW x \in Find(element, tag)
    PROVE  Find(element, tag) = {x}
BY DEF Find

\* A cleaned text of digits is as long as it was.
LEMMA CleanDigits ==
    ASSUME NEW element, NEW tag, NEW length,
           HoldsIfAny(element, tag, LAMBDA t : DigitText(t, length))
    PROVE  CleanLength(Find(element, tag)) = IF Find(element, tag) = {} THEN 0 ELSE length
<1>1. CASE Find(element, tag) = {}
  BY <1>1 DEF CleanLength
<1>2. CASE Find(element, tag) # {}
  <2>1. PICK x \in Find(element, tag) : TRUE
    BY <1>2
  <2>2. Find(element, tag) = {x}
    BY <2>1, OneFound
  <2>3. Text(x).kind = "digits" /\ Text(x).length = length
    BY <2>1 DEF HoldsIfAny, DigitText
  <2>4. {Text(y).length : y \in {x}} = {length}
    BY <2>3
  <2>5. (CHOOSE n \in {Text(y).length : y \in {x}} : TRUE) = length
    BY <2>4
  <2> QED BY <2>2, <2>3, <2>5 DEF CleanLength
<1> QED BY <1>1, <1>2

\* The text read of an element that is there is that element's.
LEMMA TextFound ==
    ASSUME NEW element, NEW tag, NEW x \in Find(element, tag)
    PROVE  TextOrBlank(Find(element, tag)) = Text(x)
<1>1. Find(element, tag) = {x}
  BY OneFound
<1>2. {Text(y) : y \in {x}} = {Text(x)}
  OBVIOUS
<1>3. (CHOOSE t \in {Text(y) : y \in {x}} : TRUE) = Text(x)
  BY <1>2
<1> QED BY <1>1, <1>3 DEF TextOrBlank

\* Of a provider that the validator passes, the reader takes the CNPJ where there is one.
LEMMA ProviderRead ==
    ASSUME NEW infDPS, validatePrest(infDPS)
    PROVE  LET provider == extractProviderInfo(CHOOSE p \in Find(infDPS, "prest") : TRUE)
               number == IF provider.cnpj # 0 THEN provider.cnpj ELSE provider.cpf
           IN \E prest \in Find(infDPS, "prest") :
                 IF Find(prest, "CNPJ") # {} THEN number = 14
                 ELSE number = 11 /\ Holds(prest, "CPF", LAMBDA t : DigitText(t, 11))
<1>1. PICK prest \in Find(infDPS, "prest") :
          /\ Find(prest, "CNPJ") \cup Find(prest, "CPF") # {}
          /\ HoldsIfAny(prest, "CNPJ", LAMBDA t : DigitText(t, 14))
          /\ HoldsIfAny(prest, "CPF", LAMBDA t : DigitText(t, 11))
  BY DEF validatePrest
<1>2. (CHOOSE p \in Find(infDPS, "prest") : TRUE) = prest
  BY <1>1, OneFound
<1>3. CleanLength(Find(prest, "CNPJ")) = IF Find(prest, "CNPJ") = {} THEN 0 ELSE 14
  BY <1>1, CleanDigits
<1>4. CleanLength(Find(prest, "CPF")) = IF Find(prest, "CPF") = {} THEN 0 ELSE 11
  BY <1>1, CleanDigits
<1> DEFINE provider == extractProviderInfo(CHOOSE p \in Find(infDPS, "prest") : TRUE)
           number == IF provider.cnpj # 0 THEN provider.cnpj ELSE provider.cpf
<1>5. provider = extractProviderInfo(prest)
  BY <1>2, Zenon
<1> HIDE DEF provider
<1>6. /\ provider.cnpj = CleanLength(Find(prest, "CNPJ"))
      /\ provider.cpf = IF provider.cnpj # 0 THEN 0 ELSE CleanLength(Find(prest, "CPF"))
  BY <1>5 DEF extractProviderInfo
<1>7. IF Find(prest, "CNPJ") # {} THEN number = 14
      ELSE number = 11 /\ Holds(prest, "CPF", LAMBDA t : DigitText(t, 11))
  <2>1. CASE Find(prest, "CNPJ") # {}
    BY <1>3, <1>6, <2>1 DEF Holds
  <2>2. CASE Find(prest, "CNPJ") = {}
    <3>1. Find(prest, "CPF") # {}
      BY <1>1, <2>2
    <3>2. number = 11
      BY <1>3, <1>4, <1>6, <2>2, <3>1
    <3> QED BY <1>1, <2>2, <3>1, <3>2 DEF Holds, HoldsIfAny
  <2> QED BY <2>1, <2>2 DEF Holds
<1> QED BY <1>1, <1>7 DEF Holds, provider

\* The amount that the validator passes is the one that is read.
LEMMA AmountRead ==
    ASSUME NEW infDPS, validateValores(infDPS)
    PROVE  /\ extractValuesInfo(infDPS) > 0
           /\ \E valores \in Find(infDPS, "valores") :
                 \E x \in Amount(valores) : Text(x).value = extractValuesInfo(infDPS)
<1>0. PICK valores \in Find(infDPS, "valores") :
          \E x \in Amount(valores) : Text(x).kind \in {"digits", "decimal"} /\ Text(x).value > 0
  BY DEF validateValores
<1>1. PICK x \in Amount(valores) : Text(x).kind \in {"digits", "decimal"} /\ Text(x).value > 0
  BY <1>0
<1>2. Find(infDPS, "valores") = {valores}
  BY <1>1, OneFound
<1>3. Amount(valores) = {x}
  BY <1>1, OneFound DEF Amount
<1>4. {Text(y) : y \in UNION {Amount(v) : v \in Find(infDPS, "valores")}} = {Text(x)}
  BY <1>2, <1>3
<1>5. (CHOOSE t \in {Text(x)} : TRUE) = Text(x)
  OBVIOUS
<1>6. extractValuesInfo(infDPS) = Text(x).value
  BY <1>1, <1>4, <1>5 DEF extractValuesInfo
<1> QED BY <1>1, <1>6

\* The row made of a document with a valid structure says what the document says, whatever
\* made the document.
LEMMA ValidIsRead ==
    ASSUME NEW doc, ValidateDPS(doc), NEW info \in ParsePreSignedXML(doc), NEW post
    PROVE  RowSays(Row(info, post), doc)
<1>1. PICK infDPS \in Find(doc, "infDPS") : validateInfDPS(infDPS)
  BY DEF ValidateDPS
<1>2. Find(doc, "infDPS") = {infDPS}
  BY <1>1, OneFound
<1> DEFINE provider == extractProviderInfo(CHOOSE p \in Find(infDPS, "prest") : TRUE)
           environment == TextOrBlank(Find(infDPS, "tpAmb")).value
           series == TextOrBlank(Find(infDPS, "serie"))
           number == TextOrBlank(Find(infDPS, "nDPS"))
<1>3. /\ info.provider = provider
      /\ info.environment = environment
      /\ info.series = series
      /\ info.number = number
      /\ info.value = extractValuesInfo(infDPS)
  BY <1>2 DEF ParsePreSignedXML
<1> HIDE DEF provider, environment, series, number
<1>4. /\ Row(info, post).environment = IF environment = 1 THEN "producao" ELSE "homologacao"
      /\ Row(info, post).series = series
      /\ Row(info, post).number = number
      /\ Row(info, post).provider = IF provider.cnpj # 0 THEN provider.cnpj ELSE provider.cpf
      /\ Row(info, post).value = extractValuesInfo(infDPS)
  BY <1>3 DEF Row, GetEnvironmentString
<1>5. Row(info, post).environment = "producao"
        <=> Holds(infDPS, "tpAmb", LAMBDA t : OneOf(t, {1}))
  <2>1. PICK x \in Find(infDPS, "tpAmb") : OneOf(Text(x), {1, 2})
    BY <1>1 DEF validateInfDPS, validateTpAmb, Holds
  <2>2. environment = Text(x).value
    BY <2>1, TextFound DEF environment
  <2>3. Find(infDPS, "tpAmb") = {x}
    BY <2>1, OneFound
  <2>4. Holds(infDPS, "tpAmb", LAMBDA t : OneOf(t, {1})) <=> environment = 1
    BY <2>1, <2>2, <2>3 DEF Holds, OneOf
  <2> QED BY <1>4, <2>4
<1>6. DigitText(series, 5) /\ Holds(infDPS, "serie", LAMBDA t : t = series)
  <2>1. PICK x \in Find(infDPS, "serie") : DigitText(Text(x), 5)
    BY <1>1 DEF validateInfDPS, validateSerie, Holds
  <2>2. series = Text(x)
    BY <2>1, TextFound DEF series
  <2> QED BY <2>1, <2>2 DEF Holds
<1>7. number.length \in 1..15 /\ Holds(infDPS, "nDPS", LAMBDA t : t = number)
  <2>1. PICK x \in Find(infDPS, "nDPS") : Text(x).length \in 1..15
    BY <1>1 DEF validateInfDPS, validateNDPS, Holds
  <2>2. number = Text(x)
    BY <2>1, TextFound DEF number
  <2> QED BY <2>1, <2>2 DEF Holds
<1>8. \E prest \in Find(infDPS, "prest") :
         IF Find(prest, "CNPJ") # {} THEN Row(info, post).provider = 14
         ELSE /\ Row(info, post).provider = 11
              /\ Holds(prest, "CPF", LAMBDA t : DigitText(t, 11))
  <2>1. validatePrest(infDPS)
    BY <1>1 DEF validateInfDPS
  <2> QED BY <1>4, <2>1, ProviderRead DEF provider
<1>9. /\ extractValuesInfo(infDPS) > 0
      /\ \E valores \in Find(infDPS, "valores") :
            \E x \in Amount(valores) : Text(x).value = extractValuesInfo(infDPS)
  <2>1. validateValores(infDPS)
    BY <1>1 DEF validateInfDPS
  <2> QED BY <2>1, AmountRead
<1> QED BY <1>1, <1>4, <1>5, <1>6, <1>7, <1>8, <1>9 DEF RowSays, Holds

\* The row of a document that came signed says what the document says, for any documents,
\* signers and tools and whatever the verifier accepts.
THEOREM RowsAreComplete == DocumentSpec => []RowIsComplete
<1>1. DocumentInit => RowIsComplete
  BY DEF DocumentInit, RowIsComplete
<1>2. RowIsComplete /\ [DocumentNext]_documentVars => RowIsComplete'
  <2> SUFFICES ASSUME RowIsComplete, [DocumentNext]_documentVars
               PROVE  RowIsComplete'
    OBVIOUS
  <2>1. CASE UNCHANGED documentVars
    BY <2>1 DEF RowIsComplete, documentVars, RowSays, Holds
  <2>2. CASE SignDocument
    <3>1. xmlStage # "accepted" /\ xmlStage' # "accepted" /\ rows' = rows
      BY <2>2 DEF SignDocument
    <3> QED BY <2>2, <3>1 DEF RowIsComplete
  <2>3. CASE PassThroughTool
    <3>1. xmlStage # "accepted" /\ xmlStage' # "accepted" /\ rows' = rows
      BY <2>3 DEF PassThroughTool
    <3> QED BY <3>1 DEF RowIsComplete
  <2>4. CASE CreateFromXML
    <3>1. CASE extractXMLContent(plan.post) /\ Accepts(document)
      <4>1. /\ xmlStage' = "accepted" /\ document' = document
            /\ rows' = {Row(info, plan.post) : info \in ParsePreSignedXML(document)}
        BY <2>4, <3>1 DEF CreateFromXML
      <4>2. ValidateDPS(document) /\ ParsePreSignedXML(document) # {}
        BY <3>1 DEF Accepts
      <4>3. \A row \in rows' : RowSays(row, document')
        BY <4>1, <4>2, ValidIsRead
      <4>4. rows' # {}
        BY <4>1, <4>2
      <4> QED BY <4>1, <4>3, <4>4 DEF RowIsComplete, RowSays, Holds
    <3>2. CASE ~(extractXMLContent(plan.post) /\ Accepts(document))
      <4>1. xmlStage # "accepted" /\ xmlStage' # "accepted" /\ rows' = rows
        BY <2>4, <3>2 DEF CreateFromXML
      <4> QED BY <4>1 DEF RowIsComplete
    <3> QED BY <3>1, <3>2
  <2> QED BY <2>1, <2>2, <2>3, <2>4 DEF DocumentNext
<1> QED BY <1>1, <1>2, PTL DEF DocumentSpec
===============================================================================
