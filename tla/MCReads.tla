-------------------------------- MODULE MCReads --------------------------------
(***************************************************************************)
(* What clients of the API read, for TLC.  A behaviour is queries to the   *)
(* government, of which the first is any and the second a lookup of a DPS, *)
(* or one client's walk through the list of its requests.                  *)
(***************************************************************************)
EXTENDS QueryHandlers, StatusList

GoodForm == [length |-> TRUE, characters |-> TRUE, beginning |-> TRUE]

BadForms ==
    {[GoodForm EXCEPT !.length = FALSE], [GoodForm EXCEPT !.characters = FALSE],
     [GoodForm EXCEPT !.beginning = FALSE]}

GoodPfx(holder) ==
    [file |-> "whole", password |-> "right", key |-> TRUE, dates |-> "current", holder |-> holder]

BadPfx ==
    LET pfx == GoodPfx("provider")
    IN {[pfx EXCEPT !.file = f] : f \in {"missing", "unreadable", "tooLarge", "empty"}}
       \cup {[pfx EXCEPT !.password = p] : p \in {"missing", "wrong"}}
       \cup {[pfx EXCEPT !.key = FALSE]}
       \cup {[pfx EXCEPT !.dates = d] : d \in {"expired", "future"}}

Base == [op |-> "nfse", id |-> "right", form |-> GoodForm, tipo |-> "", cert |-> GoodPfx("provider")]

\* Every operation, every holder of a certificate, and every single thing that may be wrong.
AllQueryRequests ==
    {[Base EXCEPT !.op = op] : op \in Ops}
    \cup {[Base EXCEPT !.op = op, !.id = "other"] : op \in {"events", "exists"}}
    \cup {[Base EXCEPT !.op = op, !.id = "padded"] : op \in {"nfse", "lookup"}}
    \cup {[Base EXCEPT !.op = "events", !.tipo = "cancel"]}
    \cup {[Base EXCEPT !.op = op, !.cert = GoodPfx("stranger")] : op \in {"lookup", "exists"}}
    \cup {[Base EXCEPT !.op = op, !.cert = c] : op \in {"lookup", "exists"}, c \in BadPfx}
    \cup {[Base EXCEPT !.op = op, !.id = "other", !.form = f] : op \in Ops, f \in BadForms}

LookupRequests ==
    {[Base EXCEPT !.op = "lookup", !.cert = GoodPfx(holder)] : holder \in Holders}

SomeRequests == [q \in Queries |-> IF q = 1 THEN AllQueryRequests ELSE LookupRequests]

\* Ten in the morning, Brazilian time.
OneTime == {[hour |-> 10, offset |-> -3]}

\* The default, a zero, which counts as none, every size up to the cap and one above it.
SomePageSizes == {{}, {0}, {1}, {2}, {3}, {4}}

VARIABLE reading

ReadInit ==
    /\ QueryInit /\ ListInit
    /\ reading \in {"government", "list"}

ReadNext ==
    \/ reading = "government" /\ QueryNext /\ UNCHANGED <<reading, listVars>>
    \/ reading = "list" /\ ListNext /\ UNCHANGED <<reading, queryVars>>

ReadSpec == ReadInit /\ [][ReadNext]_<<reading, queryVars, listVars>> /\ QueryFairness
===============================================================================
