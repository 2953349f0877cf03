------------------------------ MODULE MCRegistry ------------------------------
EXTENDS RegistryClients, TLC

CONSTANTS a, b, line, held

\* The two rentals ask for the same thing, each other run for its own.
SharedRequest == [r \in Runs |-> IF r \in {a, b} THEN {a, b} ELSE {r}]

\* The two rentals are interchangeable: no property tells them apart.
Interchangeable == Permutations({a, b})
==============================================================================
