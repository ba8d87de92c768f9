----------------------------- MODULE MCAcceptance -----------------------------
(***************************************************************************)
(* Requests for TLC: one that is good in every respect, varied in its      *)
(* amounts, in its identifiers and in its taker, one of them at a time.    *)
(***************************************************************************)
EXTENDS Acceptance

Digits(length, zeros) == [digits |-> TRUE, length |-> length, zeros |-> zeros]

Good ==
    [fields |-> TRUE, provider |-> "bare", municipality |-> Digits(7, 0), series |-> Digits(5, 4),
     number |-> Digits(1, 0), taker |-> {}, certificate |-> "none",
     values |-> [a \in Amounts |-> IF a = "service" THEN 1000 ELSE 0]]

Asks(service, unconditional, conditional, deductions) ==
    [Good EXCEPT !.values = [service |-> service, unconditional |-> unconditional,
                             conditional |-> conditional, deductions |-> deductions]]

\* Service values up to one real and around it, reductions that use them up or pass them
\* by a cent or a mill, and some that are negative or finer than a cent.
Services == {-10, 0, 5} \cup {10 * c : c \in 1..110}
Reductions == {-10, 0, 5, 10, 20, 70, 100, 190, 300, 335}

Reduced ==
    {Asks(s, u, c, d) : s \in Services, u \in Reductions, c \in {0, 10, 100}, d \in Reductions}

UsedUp ==
    {Asks(s, u, c, s - u - c + m) :
        s \in Services, u \in Reductions, c \in {0, 10, 100}, m \in {0, 1, 10}}

Forms == {[digits |-> b, length |-> n, zeros |-> z] :
             b \in BOOLEAN, n \in {0, 1, 5, 7, 15, 16, 17}, z \in {0, 1, 2}} \cap DigitTexts

Identified ==
    {[Good EXCEPT !.provider = p, !.series = t, !.number = u] : p \in CnpjForms, t, u \in Forms}

Enclosed ==
    {[Good EXCEPT !.municipality = t, !.fields = b, !.certificate = c] :
        t \in Forms, b \in BOOLEAN, c \in {"none", "unusable", "usable"}}

VariedTakers == {[Good EXCEPT !.taker = {t}] : t \in Taker}

AllRequests == <<Reduced, UsedUp, Identified, Enclosed, VariedTakers>>

FewRequests == << {Good} >>
===============================================================================
