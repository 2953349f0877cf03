---------------------------- MODULE MCLeasePricing ----------------------------
(***************************************************************************)
(* Quotes on a short hour: rates that do not divide it, quanta longer than *)
(* the release, minimum charges on either side of what the budget buys.    *)
(***************************************************************************)
EXTENDS LeasePricing

quotes ==
    [rate: 0..3, fees: {-1, 0, 2}, budget: 1..6, granularity: {0, 1, 3, 5},
     minimum: {0, 9, 20}, setup: {0, 2}, requested: {0, 1, 4}]
===============================================================================
