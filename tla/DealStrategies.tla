---- MODULE DealStrategies ----
(***************************************************************************)
(* Strategies and offers (strategies/engine.py): what a purchase at a      *)
(* price earns, the highest price that still meets a target margin (the    *)
(* MAO), and what the seller is left with at every offer of a grid.  All   *)
(* are functions of the record and of what the financial engine made of    *)
(* it, so the record's growth of Underwriting is the behaviour.            *)
(***************************************************************************)
EXTENDS Underwriting

CONSTANTS
  AcqPct, AcqFlat,         \* acquisition costs
  ClosingPct, ClosingFlat, \* the seller's closing costs (title, transfer, escrow)
  StagingFlat,             \* flip only
  FinancingFlat, LoanPct, PointsPct, RatePct,   \* hard money
  CashMargin, FlipMargin,  \* target margins, in percent
  PayoffFees,              \* interest and fees of a payoff
  GridStep,                \* offers are rounded to it (the code: 5000)
  InvestorPct, MinSpread,  \* wholesale: the investor's share of the ARV, least spread
  Rents, YearlyDues,       \* monthly rents; taxes, dues and utilities of a year
  VacancyPct, OperatingPct, InsurancePct,       \* rental
  RentalLoanPct, DebtServicePct,                \* a year's payments, per cent of the loan
  Prices                   \* purchase prices asked about

ASSUME MarginsAreShares == CashMargin \in 0..99 /\ FlipMargin \in 0..99
ASSUME RentalIsSane == {VacancyPct, OperatingPct} \subseteq 0..99 /\ RentalLoanPct \in 0..100
ASSUME CostsAreShares == AcqPct \in 0..99 /\ ClosingPct \in 0..99 /\ ResalePct \in 0..99
\* Amounts are whole; the rates of a loan and of the insurance are not negative
\* (_hard_money and its like refuse the assumption set).
ASSUME FlatsAreWhole ==
  {AcqFlat, ClosingFlat, StagingFlat, FinancingFlat, PayoffFees, MinSpread, YearlyDues} \subseteq Int
ASSUME RatesAreCounted ==
  {LoanPct, PointsPct, RatePct, InvestorPct, InsurancePct, DebtServicePct} \subseteq Nat
ASSUME OffersAreWhole == GridStep \in Nat \ {0} /\ Prices \subseteq Int /\ Rents \subseteq Int

------------------------------------------------------------------------------
(* Costs of a purchase *)

AcquisitionCost(price) == Money(price * AcqPct, 100) + AcqFlat
RepairCost(scenario) == IF Repairs(scenario) = Unknown THEN 0 ELSE Repairs(scenario)
ResaleOf(value) == Money(value * ResalePct, 100)

------------------------------------------------------------------------------
(* Cash and flip: profit at a price, and the price of a target margin *)

CashProfit(scenario, price) ==
  Money(Value(scenario) * (100 - ResalePct), 100)
    - (price + AcquisitionCost(price) + RepairCost(scenario) + Holding(scenario))

\* Mistake: the percentage of the acquisition costs is left out.
CashMaoFlat(scenario) ==
  LET value == Value(scenario)
  IN  Money(value * (100 - CashMargin)
              - 100 * (RepairCost(scenario) + Holding(scenario) + ResaleOf(value) + AcqFlat), 100)

CashMao(scenario) ==
  LET value == Value(scenario)
      available == value * (100 - CashMargin)
                   - 100 * (RepairCost(scenario) + Holding(scenario) + ResaleOf(value) + AcqFlat)
  IN  Money(available, 100 + AcqPct)

\* Hard money: points on the loan, a flat fee and interest over the period;
\* what a loan costs is counted in thousandths of it.
LoanCost(scenario) == Money(1200 * PointsPct + RatePct * BaseMonths * PeriodFactor(scenario), 120)
FlipLoan(scenario, price) == Money(LoanPct * (price + RepairCost(scenario)), 100)
Financing(loan, scenario) == Money(loan * LoanCost(scenario), 1000) + FinancingFlat

FlipResale(scenario) == ResaleOf(AfterRepairValue(scenario)) + StagingFlat

FlipProfit(scenario, price) ==
  AfterRepairValue(scenario)
    - (price + RepairCost(scenario) + Holding(scenario) + AcquisitionCost(price)
         + Financing(FlipLoan(scenario, price), scenario) + FlipResale(scenario))

\* The financing depends on the price: its coefficient is solved for.
FinancingCoefficient(scenario) == Money(LoanPct * LoanCost(scenario), 100)
FlipMao(scenario) ==
  LET arv == AfterRepairValue(scenario)
      coefficient == FinancingCoefficient(scenario)
      constant == Money(arv * (100 - FlipMargin), 100) - RepairCost(scenario) - Holding(scenario)
                  - FlipResale(scenario) - AcqFlat - FinancingFlat
  IN  Money(1000 * constant - coefficient * RepairCost(scenario), 1000 + coefficient + 10 * AcqPct)

------------------------------------------------------------------------------
(* Wholesale, rental and subject-to *)

\* The highest price the investor pays who takes the contract over.  Both need
\* the square footage.  This is the half of the test that depends on the price;
\* the other, that the data are good enough for a wholesale, is Viable of Ranking.
InvestorThreshold(scenario) ==
  Money(AfterRepairValue(scenario) * InvestorPct, 100) - RepairCost(scenario)
WholesaleMao(scenario) == InvestorThreshold(scenario) - MinSpread
Assignable(scenario, price) == InvestorThreshold(scenario) - price >= MinSpread

\* The insurance follows the value of the scenario, the loan the price.
EffectiveIncome(rent) == Money(12 * rent * (100 - VacancyPct), 100)
NetIncome(rent, scenario) ==
  EffectiveIncome(rent) - (YearlyDues + Money(Value(scenario) * InsurancePct, 100)
                             + Money(EffectiveIncome(rent) * OperatingPct, 100))
CashFlow(rent, scenario, price) ==
  NetIncome(rent, scenario) - Money(Money(price * RentalLoanPct, 100) * DebtServicePct, 100)

------------------------------------------------------------------------------
(* The offer grid *)

\* The breakdown of liabilities has a "mortgage:" entry.
HasMortgageEntry ==
  \E position \in Positions :
    Evaluated(mortgages, position) # {} \/ UnknownCapacity(mortgages, position) > 0

ConfirmedPayoffs ==
  Confirmed(mortgages, liens, bid, arrears) + (IF HasMortgageEntry THEN PayoffFees ELSE 0)

\* Potential obligations as the offers weigh them: a lien at its expected
\* amount, undrawn HELOC capacity at the amount the breakdown calls expected,
\* which is all of it.
OfferWeightedPotential ==
  SumFunction(PotentialAt(mortgages, bid)) + SumFunction(LiensExpected(liens))

SellerClosing(offer) == Money(offer * ClosingPct, 100) + ClosingFlat
ProceedsHigh(offer) == offer - ConfirmedPayoffs - SellerClosing(offer)
ProceedsExpected(offer) == ProceedsHigh(offer) - OfferWeightedPotential
ProceedsLow(offer) == ProceedsHigh(offer) - Potential(mortgages, liens, bid)
IsShortSale(offer) == ProceedsLow(offer) < 0

GridOffers == {Money(VExp * (60 + 5 * i), 100 * GridStep) * GridStep : i \in 0..8}
Markers(scenario) ==
  {mao \in {CashMao(scenario)} \cup
           (IF repairBase = Unknown THEN {} ELSE {FlipMao(scenario)}) : mao > 0}
Offers(scenario) == GridOffers \cup Markers(scenario)

------------------------------------------------------------------------------
(* The foreclosure strategy's own count of the debt *)

\* _resolved_mortgage_balance: a negative balance is passed over, and what is
\* amortized is to today, from the day of a mortgage that is younger.
BalanceNow(m) ==
  IF m.reported \in Balances THEN m.reported ELSE IF m.heloc THEN Unknown ELSE m.today

\* The first mortgage is the one with the highest REPORTED balance.
FirstMortgageOf(ms) ==
  LET open == OpenAt(ms, "1")
      reported(i) == IF ms[i].reported = Unknown THEN 0 ELSE ms[i].reported
      best == Max({reported(i) : i \in open})
  IN  ms[Min({i \in open : reported(i) = best})]

ForeclosureFirst ==
  IF bid # Unknown THEN bid
  ELSE IF OpenAt(mortgages, "1") = {} \/ BalanceNow(FirstMortgageOf(mortgages)) = Unknown THEN 0
  ELSE BalanceNow(FirstMortgageOf(mortgages))

\* subject_to, "condition_balance_le_80pct_value": nothing is said without a
\* balance or a value.
LowLoanToValue(scenario) ==
  IF OpenAt(mortgages, "1") = {} \/ BalanceNow(FirstMortgageOf(mortgages)) = Unknown
     \/ Value(scenario) = 0
  THEN "unknown"
  ELSE IF 5 * BalanceNow(FirstMortgageOf(mortgages)) <= 4 * Value(scenario) THEN "yes" ELSE "no"

Resolved(position) ==
  {BalanceNow(mortgages[i]) : i \in {j \in OpenAt(mortgages, position) :
                                        BalanceNow(mortgages[j]) # Unknown}}
JuniorAt == [position \in Positions \ {"1"} |-> Max({0} \cup Resolved(position))]
LiensRecorded ==
  [i \in DOMAIN liens |-> IF liens[i].basis = Recorded /\ liens[i].amount # Unknown
                          THEN liens[i].amount ELSE 0]

\* The obligations of a foreclosure; its costs of transfer come on top.
ForeclosureDebt ==
  ForeclosureFirst + SumFunction(JuniorAt) + arrears["taxes"] + SumFunction(LiensRecorded)

------------------------------------------------------------------------------
(* Properties *)

\* At every offer of the grid and every marker the seller's low proceeds are
\* at most the expected and those at most the high ones, and a higher offer
\* never turns a sale into a short sale (offer_point, offer_grid).
ProceedsAreOrdered ==
  Priced => \A scenario \in Scenarios :
    LET offers == Offers(scenario)
        shortSales == {offer \in offers : IsShortSale(offer)}
    IN  \A offer \in offers :
          /\ ProceedsLow(offer) <= ProceedsExpected(offer)
          /\ ProceedsExpected(offer) <= ProceedsHigh(offer)
          /\ offer \in shortSales \/ \A short \in shortSales : short < offer

\* What the worse case allows the better one allows, except for a rental: its
\* insurance follows the value, so the optimistic case carries most of it and
\* earns least (rental; subject_to for the loan taken over).
WorseCaseIsWorse ==
  Priced =>
    /\ LowLoanToValue("conservative") = "yes" => LowLoanToValue("optimistic") = "yes"
    /\ repairBase # Unknown => \A rent \in Rents, price \in Prices :
          CashFlow(rent, "optimistic", price) <= CashFlow(rent, "conservative", price)

\* A range and never a single number, from the values of the scenarios to the
\* proceeds of the seller.
RangesAreOrdered == ScenarioOrder /\ ProceedsAreOrdered /\ WorseCaseIsWorse

\* What the MAO promises: a purchase at it earns the target margin, to the
\* rounding of the terms (a flip rounds the cost of its loan to a thousandth of
\* what is financed), and a lower price never earns less (_cash_mao, _flip_mao
\* solve what cash and flip compute); a contract can be assigned at the
\* wholesale MAO and below it and nowhere else; a rental that carries itself at
\* a price does at a lower one.
Financed(scenario) ==
  LET basis == FlipMao(scenario) + RepairCost(scenario) IN IF basis < 0 THEN -basis ELSE basis
Slack(scenario) ==
  4 + (LoanCost(scenario) + FinancingCoefficient(scenario) + Financed(scenario)) \div 2000
MaoEarnsMargin ==
  Priced => \A scenario \in Scenarios :
    LET value == Value(scenario)
        arv == AfterRepairValue(scenario)
        cashShortfall(price) == 100 * CashProfit(scenario, price) - CashMargin * value
        flipShortfall(price) == 100 * FlipProfit(scenario, price) - FlipMargin * arv
    IN  /\ cashShortfall(CashMao(scenario)) >= -300
        /\ cashShortfall(CashMao(scenario)) <= 300
        /\ \A price \in Prices : price <= CashMao(scenario) => cashShortfall(price) >= -300
        /\ repairBase # Unknown =>
             /\ flipShortfall(FlipMao(scenario)) >= -100 * Slack(scenario)
             /\ flipShortfall(FlipMao(scenario)) <= 100 * Slack(scenario)
             /\ \A price \in Prices \cup {WholesaleMao(scenario), FlipMao(scenario)} :
                   Assignable(scenario, price) <=> price <= WholesaleMao(scenario)
             /\ \A rent \in Rents, price \in Prices, lower \in Prices :
                   lower <= price /\ CashFlow(rent, scenario, price) >= 0
                     => CashFlow(rent, scenario, lower) >= 0

\* The foreclosure strategy counts no debt the financial engine does not hold
\* confirmed (foreclosure: "mirror finance's conservative conflict handling"),
\* but for two, each counted once: a mortgage that only the strategies can
\* value, since they pass over a negative balance and need no report's date,
\* at its balance of today; and a published bid while an open first mortgage
\* has no balance, which the financial engine leaves out without a flag.
OnlyNow(position) ==
  {BalanceNow(mortgages[i]) : i \in {j \in OpenAt(mortgages, position) :
      Balance(mortgages[j]) = Unknown /\ BalanceNow(mortgages[j]) # Unknown}}
BeyondAt == [position \in Positions |-> Max({0} \cup OnlyNow(position))]
BidLeftOut ==
  IF bid # Unknown /\ OpenAt(mortgages, "1") # {} /\ Evaluated(mortgages, "1") = {}
  THEN bid ELSE 0

ForeclosureWithinConfirmed ==
  ForeclosureDebt <= Confirmed(mortgages, liens, bid, arrears) + SumFunction(BeyondAt) + BidLeftOut

\* What decides how much is owed agrees: the sum of the liabilities, whether
\* there are any, the published bid, and the foreclosure strategy's own count.
DebtFiguresAgree ==
  OwnerLiensNeverConfirmed /\ NoDebtSilently /\ BidDropIsFlagged /\ ForeclosureWithinConfirmed

\* What the page shows as an offer can be acted on: every range is in order in
\* every scenario, and a purchase at a MAO earns its margin.
OffersAreHonest == RangesAreOrdered /\ MaoEarnsMargin
====
