------------------------------ MODULE MCGateway ------------------------------
(***************************************************************************)
(* Values for TLC's runs of the gateway: two keys whose prefix is the same *)
(* ("nfse_dev"), one of them with a rate of its own.                       *)
(***************************************************************************)
EXTENDS Gateway

CONSTANTS q1, q2, q3, a, b

ThreeRequests == {q1, q2, q3}
TwoKeys == {a, b}
OneKey == {b}

SamePrefix(k) == "nfse_dev"

Rpm(k) == IF k = a THEN 1 ELSE 0

\* q1 and q3 create, each with its key; q2 asks for q1's status with either.
SomeIntents(q) ==
    CASE q = q1 -> {[key |-> a, asks |-> None]}
      [] q = q2 -> {[key |-> k, asks |-> q1] : k \in TwoKeys}
      [] q = q3 -> {[key |-> b, asks |-> None]}
===============================================================================
