----------------------------- MODULE LeasePricing -----------------------------
(***************************************************************************)
(* What a rental may cost: Lease.priced and Lease._billable_seconds        *)
(* (dispatch/hosts/lease.py) turn a quote and a budget into the moment the *)
(* release must begin, and the provider charges whole quanta for the time  *)
(* the machine was up (BillingModel.cost_usd, costs/model.py).             *)
(*                                                                         *)
(* Amounts are whole cents and times whole seconds, so the floor of a      *)
(* decimal quotient is \div; `setup` and `requested` are the provisioning  *)
(* estimate and the walltime asked for.                                    *)
(*                                                                         *)
(*   phase      quoted, refused, leased, up (created), releasing, ended    *)
(*   quote      the terms on offer and what is asked of them               *)
(*   now        seconds since the lease was priced                         *)
(*   releaseBy  the lease's deadline                                       *)
(*   began      when the provider began to charge                          *)
(*   cut        when the release began                                     *)
(***************************************************************************)
EXTENDS Integers

CONSTANTS
    SECONDS_PER_HOUR,
    RELEASE_SECONDS,  \* what a release may take, and is reserved for it
    Quotes            \* the terms that may be met

Terms ==
    [rate: Int, fees: Int, budget: Int, granularity: Int, minimum: Int,
     setup: Int, requested: Nat]

ASSUME PricingAssumption ==
    /\ SECONDS_PER_HOUR \in Nat \ {0}
    /\ RELEASE_SECONDS \in Nat
    /\ \A q \in Quotes : q \in Terms

VARIABLES phase, quote, now, releaseBy, began, cut

vars == <<phase, quote, now, releaseBy, began, cut>>

TypeOK ==
    /\ phase \in {"quoted", "refused", "leased", "up", "releasing", "ended"}
    /\ quote \in Quotes
    /\ now \in Nat /\ releaseBy \in Nat /\ began \in Nat /\ cut \in Nat

(***************************************************************************)
(* The arithmetic.                                                         *)
(***************************************************************************)
\* Lease._billable_seconds: the whole quanta the budget buys past the fees.
BillableSeconds(q) ==
    (((q.budget - q.fees) * SECONDS_PER_HOUR) \div (q.rate * q.granularity))
        * q.granularity

\* Lease.priced: the terms it refuses outright, and the budgets too small for
\* the minimum charge or for the setup, the walltime and the release.
Sound(q) ==
    /\ q.rate > 0 /\ q.fees >= 0 /\ q.budget > q.fees
    /\ q.granularity >= 1 /\ q.minimum >= 0 /\ q.setup >= 0
Affordable(q) ==
    /\ Sound(q)
    /\ BillableSeconds(q) >= q.minimum
    /\ BillableSeconds(q) > q.setup + q.requested + RELEASE_SECONDS

NoReserve(q) == BillableSeconds(q)  \* mutant: the release has no time of its own
NoSetup(q) ==                       \* mutant: the walltime counts from the lease
    LET longest == BillableSeconds(q) - RELEASE_SECONDS IN
    IF q.requested > 0 /\ q.requested < longest THEN q.requested ELSE longest

\* The seconds from the lease to its deadline.
Lifetime(q) ==
    LET longest == BillableSeconds(q) - RELEASE_SECONDS
        asked == q.setup + q.requested + RELEASE_SECONDS
    IN  IF q.requested > 0 /\ asked < longest THEN asked ELSE longest

\* BillingModel.billed_seconds: whole quanta, and no fewer than the minimum.
Quanta(q, wall) == (wall + q.granularity - 1) \div q.granularity
BilledSeconds(q, wall) ==
    LET whole == Quanta(q, wall) * q.granularity IN
    IF whole < q.minimum THEN q.minimum ELSE whole

(***************************************************************************)
(* A rental's life.                                                        *)
(***************************************************************************)
Init ==
    /\ phase = "quoted"
    /\ quote \in Quotes
    /\ now = 0 /\ releaseBy = 0 /\ began = 0 /\ cut = 0

Price ==
    /\ phase = "quoted"
    /\ IF Affordable(quote)
       THEN phase' = "leased" /\ releaseBy' = Lifetime(quote)
       ELSE phase' = "refused" /\ UNCHANGED releaseBy
    /\ UNCHANGED <<quote, now, began, cut>>

\* The machine is created after its lease was priced, and charged from then.
Create ==
    /\ phase = "leased"
    /\ phase' = "up"
    /\ began' = now
    /\ UNCHANGED <<quote, now, releaseBy, cut>>

\* Lease.expired, or any earlier end of the run: the release begins.
Expired == now >= releaseBy
Cut ==
    /\ phase = "up"
    /\ phase' = "releasing"
    /\ cut' = now
    /\ UNCHANGED <<quote, now, releaseBy, began>>

\* The provider confirms that the machine is gone and stops charging.
End ==
    /\ phase = "releasing"
    /\ phase' = "ended"
    /\ UNCHANGED <<quote, now, releaseBy, began, cut>>

\* A monitor is live, so a release begins when it is due, and the provider
\* answers it within the seconds reserved for it.
Tick ==
    /\ phase \in {"leased", "up"} => ~Expired
    /\ phase = "releasing" => now < cut + RELEASE_SECONDS
    /\ phase \in {"leased", "up", "releasing"}
    /\ now' = now + 1
    /\ UNCHANGED <<phase, quote, releaseBy, began, cut>>

Next == Price \/ Create \/ Cut \/ End \/ Tick

Spec == Init /\ [][Next]_vars

(***************************************************************************)
(* Properties.                                                             *)
(***************************************************************************)

\* What the provider has charged for so far, and the charge it comes to at the
\* rate per hour, an hour being SECONDS_PER_HOUR of the amount below.
Wall == now - began
Charge == quote.rate * BilledSeconds(quote, Wall)

\* The bill of a rental, fees and minimum charge included, stays within the
\* budget its quote was accepted under, at every moment until it has ended:
\* Lease.priced's floor, reserve and minimum are enough together.
WithinBudget ==
    phase \in {"up", "releasing", "ended"} =>
        quote.fees * SECONDS_PER_HOUR + Charge <= quote.budget * SECONDS_PER_HOUR

\* A job that started within the setup estimate has had its whole walltime
\* by the time its lease expires, whether the budget or the request set it.
WalltimeFits ==
    phase \in {"leased", "up", "releasing", "ended"} /\ Expired =>
        quote.setup + quote.requested <= now

\* What every step keeps: a lease was affordable, its deadline is the lifetime
\* its quote buys, and no release began later or ran longer than was reserved.
OnTime ==
    /\ began <= now
    /\ phase \in {"quoted", "refused"} => now = 0
    /\ phase \in {"leased", "up", "releasing", "ended"} =>
           Affordable(quote) /\ releaseBy = Lifetime(quote)
    /\ phase \in {"leased", "up"} => now <= releaseBy
    /\ phase \in {"releasing", "ended"} =>
           cut <= releaseBy /\ now <= cut + RELEASE_SECONDS
===============================================================================
