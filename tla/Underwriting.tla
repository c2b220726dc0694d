---- MODULE Underwriting ----
(***************************************************************************)
(* The financial engine (finance/engine.py): from one normalized property  *)
(* record to liabilities, three value scenarios and the equity of each.    *)
(* The record grows one fact at a time; the engine is a pure function of   *)
(* it, so every figure below is an operator of the record, and what may    *)
(* happen to a figure when one more fact arrives is a property of steps.   *)
(*                                                                         *)
(* Amounts are whole units (the code: cents) and percentages whole         *)
(* numbers.  What amortization returns is an amount between zero and the   *)
(* original principal, or nothing, and belongs to the mortgage: one amount *)
(* at the date of the newest report, which this engine uses, and one today,*)
(* which the strategies use.  Neither date moves while a record grows, and *)
(* no report is dated after today.  The weighted dispersion of several candidates is any percentage of the      *)
(* range the code clamps it to.                                            *)
(***************************************************************************)
EXTENDS Integers, Sequences, FiniteSets, Functions, FiniteSetsExt

CONSTANTS
  Positions,       \* position keys of mortgages, "1" the first
  Balances,        \* reported balances a mortgage may carry
  Principals,      \* original amounts (of a HELOC: its credit limit)
  LienTypes,       \* kinds of liens
  Median,          \* [LienTypes -> Nat]: assumed amount of a lien without one
  LienAmounts,
  Attachment,      \* [bases -> 0..100]: probability that a lien attaches
  Undrawn,         \* 0..100: probability that undrawn HELOC capacity is drawn
  Bids,            \* published bids of an active foreclosure
  Arrears,         \* amounts of delinquent taxes and of HOA arrears
  Values,          \* values of valuation candidates
  Weights,         \* adjusted weights of valuation candidates
  Dispersions,     \* percentages several candidates may disperse by
  RepairBases,     \* base repair budgets, from the square footage
  ResalePct, CarryPct, MonthlyFlat, BaseMonths,   \* the assumption set
  RepairFactor,    \* [Scenarios -> Nat]: percent of the base repair budget
  MaxMortgages, MaxFacts                          \* bounds of the model

Unknown == -1
Negative == -2             \* a reported balance below zero
Recorded == "recorded_against_property"
SingleDispersion == 15

ASSUME DispersionIsClamped == Dispersions \subseteq 4..30
ASSUME ProbabilitiesAreShares ==
  /\ Undrawn \in 0..100
  /\ \A basis \in DOMAIN Attachment : Attachment[basis] \in 0..100
\* Costs, periods and repair factors are never negative (_validate_assumptions).
ASSUME CostsAreCounted ==
  /\ {CarryPct, MonthlyFlat, BaseMonths} \subseteq Nat
  /\ \A scenario \in {"conservative", "expected", "optimistic"} : RepairFactor[scenario] \in Nat
ASSUME MediansAreKnown == \A lienType \in LienTypes : Median[lienType] \in Nat
\* Amounts are owed or known, never overpaid, and positions can be counted.
ASSUME AmountsAreOwed ==
  /\ Balances \cup Principals \cup LienAmounts \cup Bids \cup Arrears \subseteq Nat
  /\ Values \cup Weights \cup RepairBases \subseteq Nat
ASSUME PositionsAreFinite == IsFiniteSet(Positions)

Mortgage == {m \in [position : Positions, heloc : BOOLEAN,
                    reported : Balances \cup {Unknown, Negative},
                    original : Principals \cup {Unknown},
                    amortized : Balances \cup {Unknown},
                    today : Balances \cup {Unknown}] :
               /\ m.position = "heloc" => m.heloc
               /\ m.amortized <= m.original /\ m.today <= m.original
               /\ m.amortized # Unknown => m.today <= m.amortized
               /\ m.amortized > 0 => m.today # Unknown
               /\ m.heloc \/ m.reported # Unknown => m.amortized = Unknown
               /\ m.heloc \/ m.reported \in Balances => m.today = Unknown}
Lien == [type : LienTypes, amount : LienAmounts \cup {Unknown},
         basis : DOMAIN Attachment \cup {Recorded}]
Candidate == [value : Values, weight : Weights]

VARIABLES
  mortgages,     \* Seq(Mortgage): the open mortgages, in the record's order
  liens,         \* Seq(Lien): the open liens
  bid,           \* the published bid, Unknown when there is none
  arrears,       \* what is owed in taxes and to the HOA, of each
  candidates,    \* Seq(Candidate)
  compRange,     \* <<low, high>> of the comparable evidence, Unknown when none
  repairBase,    \* the base repair budget, Unknown without square footage
  dispersion     \* the dispersion of the candidates, in percent

underwritingVars == <<mortgages, liens, bid, arrears, candidates, compRange, repairBase, dispersion>>

------------------------------------------------------------------------------
(* Arithmetic *)

\* money(n / d): rounded half away from zero.
Money(n, d) == IF n >= 0 THEN (2 * n + d) \div (2 * d) ELSE -((2 * (-n) + d) \div (2 * d))

------------------------------------------------------------------------------
(* Liabilities *)

\* _mortgage_balance: a reported balance wins, and a negative one leaves the
\* mortgage without; a credit limit is never amortized.  Amortized is to the
\* date of the newest report, so nothing without such a date, or before the
\* mortgage was made.
Balance(m) ==
  IF m.reported \in Balances THEN m.reported
  ELSE IF m.reported = Unknown /\ ~m.heloc THEN m.amortized ELSE Unknown

\* The places in the record of the mortgages of a position, and of those among
\* them whose balance is known.
OpenAt(ms, position) == {i \in DOMAIN ms : ms[i].position = position}
Evaluated(ms, position) == {i \in OpenAt(ms, position) : Balance(ms[i]) # Unknown}
BalancesAt(ms, position) == {Balance(ms[i]) : i \in Evaluated(ms, position)}

\* The largest limit of a HELOC of which no draw is known, zero when none.
UnknownCapacity(ms, position) ==
  Max({0} \cup {ms[i].original : i \in {j \in OpenAt(ms, position) :
                                           ms[j].heloc /\ Balance(ms[j]) = Unknown}})

\* The first mortgage of a position with that balance.
FirstWith(ms, position, balance) ==
  ms[Min({i \in Evaluated(ms, position) : Balance(ms[i]) = balance})]

\* Mistake: the lowest balance is kept.
ChosenLowest(ms, position) == FirstWith(ms, position, Min(BalancesAt(ms, position)))

\* Same-position mortgages conflict: the highest balance is kept, the first
\* of the list among equals.
Chosen(ms, position) == FirstWith(ms, position, Max(BalancesAt(ms, position)))

\* A position's share of the confirmed and of the potential debt.
PositionDebt(ms, position, published) ==
  IF Evaluated(ms, position) = {}
  THEN [confirmed |-> 0, potential |-> UnknownCapacity(ms, position)]
  ELSE LET chosen == Chosen(ms, position)
           balance == IF published # Unknown /\ position = "1" THEN published
                      ELSE Balance(chosen)
       IN  [confirmed |-> balance,
            potential |-> IF chosen.heloc THEN Max({0, chosen.original - balance})
                          ELSE UnknownCapacity(ms, position)]

ConfirmedAt(ms, published) ==
  [position \in Positions |-> PositionDebt(ms, position, published).confirmed]
PotentialAt(ms, published) ==
  [position \in Positions |-> PositionDebt(ms, position, published).potential]

\* A published bid with no open first mortgage is a debt of its own.
BidAlone(ms, published) ==
  IF published # Unknown /\ OpenAt(ms, "1") = {} THEN published ELSE 0

LienAmount(lien) == IF lien.amount = Unknown THEN Median[lien.type] ELSE lien.amount

\* Mistake: a lien that only names the owner is as good as recorded.
LienIsAssumed(lien) == lien.amount = Unknown /\ LienAmount(lien) > 0

LienIsPotential(lien) ==
  \/ lien.amount = Unknown /\ LienAmount(lien) > 0
  \/ lien.basis # Recorded
\* A basis without a probability of its own is assumed to attach.
LienWeight(lien) == IF lien.basis \in DOMAIN Attachment THEN Attachment[lien.basis] ELSE 100

LiensConfirmed(ls) == [i \in DOMAIN ls |-> IF LienIsPotential(ls[i]) THEN 0 ELSE LienAmount(ls[i])]
LiensPotential(ls) == [i \in DOMAIN ls |-> IF LienIsPotential(ls[i]) THEN LienAmount(ls[i]) ELSE 0]
LiensExpected(ls) ==
  [i \in DOMAIN ls |-> Money(LiensPotential(ls)[i] * LienWeight(ls[i]), 100)]

Confirmed(ms, ls, published, owed) ==
  SumFunction(ConfirmedAt(ms, published)) + BidAlone(ms, published)
    + owed["taxes"] + owed["hoa"] + SumFunction(LiensConfirmed(ls))

Potential(ms, ls, published) ==
  SumFunction(PotentialAt(ms, published)) + SumFunction(LiensPotential(ls))

PotentialWeighted(ms, ls, published) ==
  SumFunction([position \in Positions |-> Money(PotentialAt(ms, published)[position] * Undrawn, 100)])
    + SumFunction(LiensExpected(ls))

HasDebtData(ms, ls, published) ==
  \/ published # Unknown
  \/ \E i \in DOMAIN ms : Balance(ms[i]) # Unknown \/ (ms[i].heloc /\ ms[i].original > 0)
  \/ \E i \in DOMAIN ls : ls[i].amount # Unknown \/ Median[ls[i].type] > 0

\* The first known balance of a first mortgage, which the bid is compared with.
FirstMortgageBalance(ms) ==
  IF Evaluated(ms, "1") = {} THEN Unknown ELSE Balance(ms[Min(Evaluated(ms, "1"))])

BidMismatch(ms, published) ==
  LET balance == FirstMortgageBalance(ms)
      gap == IF published > balance THEN published - balance ELSE balance - published
  IN  published > 0 /\ balance # Unknown /\ 5 * gap > published

------------------------------------------------------------------------------
(* Value, costs and equity *)

Scenarios == {"conservative", "expected", "optimistic"}

Usable == {i \in DOMAIN candidates : candidates[i].value > 0 /\ candidates[i].weight > 0}
Priced == Usable # {}
VExp == Money(SumFunction([i \in Usable |-> candidates[i].value * candidates[i].weight]),
              SumFunction([i \in Usable |-> candidates[i].weight]))
Spread == IF Cardinality(Usable) = 1 THEN SingleDispersion ELSE dispersion

\* Comparable evidence narrows the range, and is ignored on the side where it
\* contradicts the expectation.
VLow ==
  LET raw == VExp * (100 - Spread)
  IN  IF compRange[1] # Unknown /\ compRange[1] <= VExp
      THEN Money(Max({raw, 100 * compRange[1]}), 100) ELSE Money(raw, 100)
VHigh ==
  LET raw == VExp * (100 + Spread)
  IN  IF compRange[2] # Unknown /\ compRange[2] >= VExp
      THEN Money(Min({raw, 100 * compRange[2]}), 100) ELSE Money(raw, 100)

Value(scenario) ==
  CASE scenario = "conservative" -> VLow
    [] scenario = "expected"     -> VExp
    [] scenario = "optimistic"   -> VHigh

\* Without square footage there is no repair budget (never a silent zero) and
\* no after-repair value.
Repairs(scenario) ==
  IF repairBase = Unknown THEN Unknown ELSE Money(repairBase * RepairFactor[scenario], 100)
AfterRepairValue(scenario) ==
  IF repairBase = Unknown THEN Unknown ELSE Value(scenario) + Repairs(scenario)

\* HOLDING_PERIOD_FACTOR, in percent of the base months.
PeriodFactor(scenario) ==
  CASE scenario = "conservative" -> 150
    [] scenario = "expected"     -> 100
    [] scenario = "optimistic"   -> 75

\* Carrying cost of a month, and of the whole period: insurance and
\* maintenance follow the value.
Monthly(scenario) == Money(Value(scenario) * CarryPct, 1200) + MonthlyFlat
Holding(scenario) == Money(Monthly(scenario) * BaseMonths * PeriodFactor(scenario), 100)

PotentialUsed(scenario) ==
  CASE scenario = "conservative" -> Potential(mortgages, liens, bid)
    [] scenario = "expected"     -> PotentialWeighted(mortgages, liens, bid)
    [] scenario = "optimistic"   -> 0

AdjustedEquity(scenario) ==
  Value(scenario) - Confirmed(mortgages, liens, bid, arrears) - PotentialUsed(scenario)

NetRealizable(scenario) ==
  Money(Value(scenario) * (100 - ResalePct), 100) - Confirmed(mortgages, liens, bid, arrears)
    - PotentialUsed(scenario) - Holding(scenario)

------------------------------------------------------------------------------
(* The record grows *)

UnderwritingInit ==
  /\ mortgages = <<>>
  /\ liens = <<>>
  /\ bid = Unknown
  /\ arrears = [kind \in {"taxes", "hoa"} |-> 0]
  /\ candidates = <<>>
  /\ compRange = <<Unknown, Unknown>>
  /\ repairBase = Unknown
  /\ dispersion = SingleDispersion

FactCount ==
  Len(mortgages) + Len(liens) + Len(candidates)
    + Cardinality({i \in 1..5 : <<bid, arrears["taxes"] - 1, arrears["hoa"] - 1,
                                compRange[1], repairBase>>[i] # Unknown})

ReportMortgage(m) ==
  /\ Len(mortgages) < MaxMortgages
  /\ mortgages' = Append(mortgages, m)
  /\ UNCHANGED <<liens, bid, arrears, candidates, compRange, repairBase, dispersion>>

ReportLien(lien) ==
  /\ liens' = Append(liens, lien)
  /\ UNCHANGED <<mortgages, bid, arrears, candidates, compRange, repairBase, dispersion>>

PublishBid(amount) ==
  /\ bid = Unknown
  /\ bid' = amount
  /\ UNCHANGED <<mortgages, liens, arrears, candidates, compRange, repairBase, dispersion>>

ReportArrears(kind, amount) ==
  /\ arrears[kind] = 0
  /\ arrears' = [arrears EXCEPT ![kind] = amount]
  /\ UNCHANGED <<mortgages, liens, bid, candidates, compRange, repairBase, dispersion>>

ReportSize(base) ==
  /\ repairBase = Unknown
  /\ repairBase' = base
  /\ UNCHANGED <<mortgages, liens, bid, arrears, candidates, compRange, dispersion>>

ReportValue(candidate) ==
  /\ candidates' = Append(candidates, candidate)
  /\ IF candidates = <<>> THEN UNCHANGED dispersion ELSE dispersion' \in Dispersions
  /\ UNCHANGED <<mortgages, liens, bid, arrears, compRange, repairBase>>

ReportComparables(low, high) ==
  /\ low <= high
  /\ compRange = <<Unknown, Unknown>>
  /\ compRange' = <<low, high>>
  /\ UNCHANGED <<mortgages, liens, bid, arrears, candidates, repairBase, dispersion>>

UnderwritingNext ==
  /\ FactCount < MaxFacts
  /\ \/ \E m \in Mortgage : ReportMortgage(m)
     \/ \E lien \in Lien : ReportLien(lien)
     \/ \E amount \in Bids : PublishBid(amount)
     \/ \E kind \in DOMAIN arrears, amount \in Arrears : ReportArrears(kind, amount)
     \/ \E base \in RepairBases : ReportSize(base)
     \/ \E candidate \in Candidate : ReportValue(candidate)
     \/ \E low, high \in Values \ {0} : ReportComparables(low, high)

UnderwritingSpec == UnderwritingInit /\ [][UnderwritingNext]_underwritingVars

------------------------------------------------------------------------------
(* Properties *)

\* The record has its type, and every liability is an amount.
UnderwritingTypeOK ==
  /\ mortgages \in Seq(Mortgage) /\ liens \in Seq(Lien) /\ candidates \in Seq(Candidate)
  /\ bid \in Bids \cup {Unknown}
  /\ arrears \in [{"taxes", "hoa"} -> Arrears \cup {0}]
  /\ compRange \in (Values \cup {Unknown}) \X (Values \cup {Unknown})
  /\ repairBase \in RepairBases \cup {Unknown}
  /\ dispersion \in Dispersions \cup {SingleDispersion}
  /\ Confirmed(mortgages, liens, bid, arrears) >= 0
  /\ Potential(mortgages, liens, bid) >= 0

\* A lien that names the owner but is not recorded against the property never
\* raises the confirmed debt (_liabilities): taking all such liens away leaves
\* the total as it is.
OwnerLiensNeverConfirmed ==
  LET recorded == {i \in DOMAIN liens : liens[i].basis = Recorded}
  IN  Confirmed(mortgages, liens, bid, arrears)
        = Confirmed(mortgages, Restrict(liens, recorded), bid, arrears)

\* When the result says that no debt data is present, no debt was summed up
\* from mortgages, bids and liens either (_has_debt_data repeats the
\* conditions of _liabilities).
NoDebtSilently ==
  ~HasDebtData(mortgages, liens, bid)
    => /\ Confirmed(mortgages, liens, bid, arrears) = arrears["taxes"] + arrears["hoa"]
       /\ Potential(mortgages, liens, bid) = 0

\* A published bid lowers the confirmed debt by a fifth of the bid or more only
\* with a flag: that of the bid, or that of conflicting first mortgages
\* (_bid_mismatch looks at one first mortgage, _liabilities at the highest); a
\* bid of nothing is compared with none.
BidDropIsFlagged ==
  bid > 0
    => \/ 5 * (Confirmed(mortgages, liens, Unknown, arrears)
                - Confirmed(mortgages, liens, bid, arrears)) <= bid
       \/ BidMismatch(mortgages, bid)
       \/ \E balance, other \in BalancesAt(mortgages, "1") : balance # other

\* The three scenarios keep their order whatever the evidence is: in value, in
\* the equity left, and, once a month's carrying cost is more than what
\* rounding adds to it, in the cost of holding (a lower value never makes up
\* for the longer period) and in what is realized (_underwrite).
CarryCounts == VExp >= 100 /\ Monthly("expected") >= 100
ScenarioOrder ==
  Priced =>
    /\ VLow <= VExp /\ VExp <= VHigh
    /\ AdjustedEquity("conservative") <= AdjustedEquity("expected")
    /\ AdjustedEquity("expected") <= AdjustedEquity("optimistic")
    /\ CarryCounts =>
         /\ Holding("optimistic") <= Holding("expected")
         /\ Holding("expected") <= Holding("conservative")
         /\ NetRealizable("conservative") <= NetRealizable("expected")
         /\ NetRealizable("expected") <= NetRealizable("optimistic")

\* Without a published bid, one more report of a mortgage, of a lien or of
\* arrears never lowers the confirmed debt: a conflict over a position is
\* settled for the higher balance (_liabilities).  At one date: a report of a
\* later date amortizes every mortgage further.
DebtOnlyGrows ==
  [][bid' = Unknown => Confirmed(mortgages, liens, bid, arrears)
                     <= Confirmed(mortgages', liens', bid', arrears')]_underwritingVars
====
