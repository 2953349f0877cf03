----------------------------- MODULE PricingProofs -----------------------------
(***************************************************************************)
(* The bill of a rental stays within its budget, for every quote.          *)
(*                                                                         *)
(* The arithmetic first: the seconds a budget buys cost no more than it    *)
(* (FloorIsPaid), and a machine up for no longer is charged for no more    *)
(* (ChargedForNoMore).  Then the life of a rental: OnTime is inductive, so *)
(* no machine outlives the seconds its budget bought.                      *)
(***************************************************************************)
EXTENDS LeasePricing, TLAPS

\* What integer division, as in the floor of billable_seconds, leaves over.
LEMMA DivBounds ==
    ASSUME NEW a \in Int, NEW b \in Int, b > 0
    PROVE  /\ a \div b \in Int
           /\ b * (a \div b) <= a
           /\ a < b * (a \div b) + b
BY SMT

\* A larger factor gives no smaller product: longer rentals cost no less.
LEMMA TimesMono ==
    ASSUME NEW a \in Int, NEW b \in Int, NEW c \in Int, a <= b, c >= 0
    PROVE  a * c <= b * c
BY SMT

\* A smaller product by the same factor comes of a smaller factor.
LEMMA TimesStrict ==
    ASSUME NEW a \in Int, NEW b \in Int, NEW c \in Int, c > 0, a * c < b * c
    PROVE  a < b
BY SMT

\* The quotient of two positive amounts is a natural number.
LEMMA DivNat ==
    ASSUME NEW a \in Int, NEW b \in Int, b > 0, a >= 0
    PROVE  a \div b \in Nat
BY DivBounds, SMT

\* The whole quanta a budget buys, in seconds, cost no more than what is left
\* of it once the fees are paid.
LEMMA FloorIsPaid ==
    ASSUME NEW q \in Terms, Sound(q)
    PROVE  /\ BillableSeconds(q) \in Nat
           /\ q.rate * BillableSeconds(q) <= (q.budget - q.fees) * SECONDS_PER_HOUR
<1> DEFINE left == (q.budget - q.fees) * SECONDS_PER_HOUR
           price == q.rate * q.granularity
           n == left \div price
<1>1. /\ q.rate \in Int /\ q.granularity \in Int /\ q.budget \in Int /\ q.fees \in Int
      /\ q.rate > 0 /\ q.granularity > 0 /\ q.budget - q.fees > 0
    BY DEF Terms, Sound
<1>2. SECONDS_PER_HOUR \in Int /\ SECONDS_PER_HOUR > 0
    BY PricingAssumption
<1>3. left \in Int /\ left >= 0
    BY <1>1, <1>2, SMT
<1>4. price \in Int /\ price > 0
    BY <1>1, SMT
<1> HIDE DEF left, price
<1>5. n \in Nat /\ price * n <= left
    BY <1>3, <1>4, DivBounds, DivNat
<1>6. BillableSeconds(q) = n * q.granularity
    BY DEF BillableSeconds, left, price
<1> HIDE DEF n
<1>7. n * q.granularity \in Nat
    BY <1>1, <1>5, SMT
<1>8. q.rate * (n * q.granularity) = price * n
    BY <1>1, <1>5, SMT DEF price
<1>9. QED
    BY <1>5, <1>6, <1>7, <1>8 DEF left

\* A machine up for no longer than the budget buys is charged for no more.
LEMMA ChargedForNoMore ==
    ASSUME NEW q \in Terms, Affordable(q),
           NEW wall \in Nat, wall <= BillableSeconds(q)
    PROVE  /\ BilledSeconds(q, wall) \in Int
           /\ BilledSeconds(q, wall) <= BillableSeconds(q)
<1> DEFINE g == q.granularity
           n == ((q.budget - q.fees) * SECONDS_PER_HOUR) \div (q.rate * q.granularity)
           k == Quanta(q, wall)
<1>1. g \in Int /\ g > 0 /\ q.minimum \in Int /\ Sound(q)
    BY DEF Terms, Sound, Affordable
<1>2. BillableSeconds(q) \in Nat /\ BillableSeconds(q) >= q.minimum
    BY <1>1, FloorIsPaid DEF Affordable
<1>3. BillableSeconds(q) = n * g
    BY DEF BillableSeconds
<1>4. n \in Int
  <2>1. /\ q.rate \in Int /\ q.budget \in Int /\ q.fees \in Int /\ q.rate > 0
        /\ SECONDS_PER_HOUR \in Int
      BY <1>1, PricingAssumption DEF Terms, Sound
  <2>2. (q.budget - q.fees) * SECONDS_PER_HOUR \in Int
      BY <2>1, SMT
  <2>3. q.rate * q.granularity \in Int /\ q.rate * q.granularity > 0
      BY <1>1, <2>1, SMT
  <2>4. QED
      BY <2>2, <2>3, DivBounds
<1> HIDE DEF n
<1>5. k \in Int /\ g * k <= wall + g - 1
  <2>1. wall + g - 1 \in Int
      BY <1>1
  <2>2. QED
      BY <1>1, <2>1, DivBounds DEF Quanta
<1> HIDE DEF g, k
<1>6. k <= n
  <2>1. k * g < (n + 1) * g
      BY <1>1, <1>2, <1>3, <1>4, <1>5, SMT
  <2>2. k < n + 1
      BY <1>1, <1>4, <1>5, <2>1, TimesStrict
  <2>3. QED
      BY <1>4, <1>5, <2>2
<1>7. k * g \in Int /\ k * g <= n * g
    BY <1>1, <1>4, <1>5, <1>6, TimesMono, SMT
<1>8. BilledSeconds(q, wall) = IF k * g < q.minimum THEN q.minimum ELSE k * g
    BY DEF BilledSeconds, g, k
<1>9. QED
    BY <1>1, <1>2, <1>3, <1>7, <1>8, SMT

\* A lease leaves its release the seconds reserved for it, and the job the
\* setup and the walltime asked for.
LEMMA LifetimeFits ==
    ASSUME NEW q \in Terms, Affordable(q)
    PROVE  /\ Lifetime(q) \in Nat
           /\ Lifetime(q) + RELEASE_SECONDS <= BillableSeconds(q)
           /\ q.setup + q.requested <= Lifetime(q)
<1>1. /\ q.setup \in Nat /\ q.requested \in Nat /\ RELEASE_SECONDS \in Nat
      /\ BillableSeconds(q) \in Nat
      /\ BillableSeconds(q) > q.setup + q.requested + RELEASE_SECONDS
    BY PricingAssumption, FloorIsPaid DEF Terms, Sound, Affordable
<1>2. QED
    BY <1>1, SMT DEF Lifetime

\* The quote a rental was priced from is a record of terms.
LEMMA QuoteIsTerms == ASSUME TypeOK PROVE quote \in Terms
BY PricingAssumption DEF TypeOK

\* A rental starts well typed and on time.
LEMMA OnTimeInit == Init => TypeOK /\ OnTime
BY DEF Init, TypeOK, OnTime

\* Pricing, coming up, releasing and time passing keep it so.
LEMMA OnTimeNext == TypeOK /\ OnTime /\ [Next]_vars => TypeOK' /\ OnTime'
<1> SUFFICES ASSUME TypeOK, OnTime, [Next]_vars
             PROVE  TypeOK' /\ OnTime'
    OBVIOUS
<1>0. quote \in Terms /\ RELEASE_SECONDS \in Nat
    BY QuoteIsTerms, PricingAssumption
<1>1. CASE Price
  <2>1. CASE Affordable(quote)
    <3>1. Lifetime(quote) \in Nat
        BY <1>0, <2>1, LifetimeFits
    <3>2. /\ phase = "quoted" /\ phase' = "leased" /\ releaseBy' = Lifetime(quote)
          /\ UNCHANGED <<quote, now, began, cut>>
        BY <1>1, <2>1 DEF Price
    <3>3. Affordable(quote)' /\ Lifetime(quote)' = Lifetime(quote)
        BY <2>1, <3>2 DEF Affordable, Sound, BillableSeconds, Lifetime
    <3>4. QED
        BY <1>0, <3>1, <3>2, <3>3 DEF TypeOK, OnTime
  <2>2. CASE ~Affordable(quote)
      BY <1>1, <2>2 DEF Price, TypeOK, OnTime
  <2>3. QED
      BY <2>1, <2>2
<1>2. SUFFICES ASSUME ~Price
               PROVE  TypeOK' /\ OnTime'
    BY <1>1
<1>3. ~Price => UNCHANGED <<quote, releaseBy>>
    BY DEF Next, vars, Create, Cut, End, Tick
<1>4. Affordable(quote)' = Affordable(quote) /\ Lifetime(quote)' = Lifetime(quote)
    BY <1>2, <1>3 DEF Affordable, Sound, BillableSeconds, Lifetime
<1>5. CASE Create
    BY <1>0, <1>4, <1>5 DEF Create, TypeOK, OnTime
<1>6. CASE Cut
    BY <1>0, <1>4, <1>6 DEF Cut, TypeOK, OnTime
<1>7. CASE End
    BY <1>0, <1>4, <1>7 DEF End, TypeOK, OnTime
<1>8. CASE Tick
    BY <1>0, <1>4, <1>8 DEF Tick, Expired, TypeOK, OnTime
<1>9. CASE UNCHANGED vars
    BY <1>4, <1>9 DEF vars, TypeOK, OnTime
<1>10. QED
    BY <1>2, <1>5, <1>6, <1>7, <1>8, <1>9 DEF Next

\* A machine that is charged for was up no longer than its budget bought.
LEMMA WithinBudgetInv == TypeOK /\ OnTime => WithinBudget
<1> SUFFICES ASSUME TypeOK, OnTime, phase \in {"up", "releasing", "ended"}
             PROVE  quote.fees * SECONDS_PER_HOUR + Charge
                        <= quote.budget * SECONDS_PER_HOUR
    BY DEF WithinBudget
<1>1. /\ quote \in Terms /\ Affordable(quote) /\ releaseBy = Lifetime(quote)
      /\ now \in Nat /\ began \in Nat /\ cut \in Nat /\ RELEASE_SECONDS \in Nat
    BY QuoteIsTerms, PricingAssumption DEF TypeOK, OnTime
<1>2. Lifetime(quote) \in Nat /\ Lifetime(quote) + RELEASE_SECONDS <= BillableSeconds(quote)
    BY <1>1, LifetimeFits
<1>3. /\ BillableSeconds(quote) \in Nat
      /\ quote.rate * BillableSeconds(quote)
             <= (quote.budget - quote.fees) * SECONDS_PER_HOUR
    BY <1>1, FloorIsPaid DEF Affordable
<1>4. Wall \in Nat /\ Wall <= BillableSeconds(quote)
    BY <1>1, <1>2, <1>3 DEF Wall, OnTime
<1>5. /\ BilledSeconds(quote, Wall) \in Int
      /\ BilledSeconds(quote, Wall) <= BillableSeconds(quote)
    BY <1>1, <1>4, ChargedForNoMore
<1> DEFINE billed == BilledSeconds(quote, Wall)
           bought == BillableSeconds(quote)
<1> HIDE DEF billed, bought
<1>6. /\ quote.rate \in Int /\ quote.rate >= 0 /\ quote.budget \in Int
      /\ quote.fees \in Int /\ SECONDS_PER_HOUR \in Int
    BY <1>1, PricingAssumption DEF Terms, Affordable, Sound
<1>7. quote.rate * billed <= quote.rate * bought
    BY <1>3, <1>5, <1>6, SMT DEF billed, bought
<1>8. quote.rate * bought <= quote.budget * SECONDS_PER_HOUR - quote.fees * SECONDS_PER_HOUR
    BY <1>3, <1>6, SMT DEF bought
<1>9. QED
    BY <1>3, <1>5, <1>6, <1>7, <1>8, SMT DEF Charge, billed, bought

\* On time, a lease that was accepted covers the set-up and the walltime.
LEMMA WalltimeFitsInv == TypeOK /\ OnTime => WalltimeFits
BY QuoteIsTerms, LifetimeFits DEF TypeOK, OnTime, WalltimeFits, Expired, Terms

\* However the terms and the request fall, what a provider charges for a
\* rental, fees and minimum included, stays within the budget of its quote, if
\* its release begins by the lease's deadline and ends within the reserve.
THEOREM RentalWithinBudget == Spec => []WithinBudget
<1>1. Init => TypeOK /\ OnTime
    BY OnTimeInit
<1>2. TypeOK /\ OnTime /\ [Next]_vars => TypeOK' /\ OnTime'
    BY OnTimeNext
<1>3. TypeOK /\ OnTime => WithinBudget
    BY WithinBudgetInv
<1>4. QED
    BY <1>1, <1>2, <1>3, PTL DEF Spec

\* A lease never expires before the setup estimate and the walltime asked for
\* have both passed.
THEOREM LeaseCoversWalltime == Spec => []WalltimeFits
<1>1. Init => TypeOK /\ OnTime
    BY OnTimeInit
<1>2. TypeOK /\ OnTime /\ [Next]_vars => TypeOK' /\ OnTime'
    BY OnTimeNext
<1>3. TypeOK /\ OnTime => WalltimeFits
    BY WalltimeFitsInv
<1>4. QED
    BY <1>1, <1>2, <1>3, PTL DEF Spec
================================================================================
