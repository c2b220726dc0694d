---- MODULE FactResolution ----
(***************************************************************************)
(* The resolver (normalization/resolver.py): from the fact ledger of one   *)
(* property, in which every report's statements stay side by side, to one  *)
(* record.  Modelled are the mortgages: grouping, entity dedupe, the winner *)
(* of each leaf and the balance conflict.                                  *)
(*                                                                         *)
(* A claim is what one item of one report, or one human correction, states *)
(* about an entity.  The item's place in its report is all the name it has *)
(* (extraction/flatten.py: "mortgages[0]"), and the resolver groups claims *)
(* by that name before it asks which of them are the same mortgage.        *)
(*                                                                         *)
(* Amounts are whole units (the code: dollars, with the tolerances scaled  *)
(* by the constant Tolerance), days are numbers, and the score is counted  *)
(* in percent: 40% rank, 30% recency, 20% specificity, 10% corroboration.  *)
(***************************************************************************)
EXTENDS Integers, Sequences, FiniteSets, FiniteSetsExt

CONSTANTS
  Reports,         \* set of numbers: reports in the order of their ids
  Contents,        \* what a report may state: a sequence of mortgage items
  Corrections,     \* balances a human may enter
  RoundAmounts,    \* amounts that look rounded (the code: thousands, from 10000)
  Tolerance,       \* balances this far apart are one balance (the code: 10000)
  MaxCorrections   \* bound of the model: human corrections

NotStated == -1
Human == 0         \* the "report" of a correction

\* recent: the statement's as-of date is near the day of the resolution.
\* ranged: the report states its amounts as a range.
MortgageItem == [doc : Int, lender : Int, day : Int, original : Int, balance : Int,
                 recent : BOOLEAN, ranged : BOOLEAN]

ASSUME ReportsAreNumbered == Reports \subseteq Nat \ {0}
ASSUME ContentsAreItems == Contents \subseteq Seq(MortgageItem)
ASSUME AmountsAreCounted ==
  Corrections \subseteq Nat /\ Tolerance \in Nat /\ MaxCorrections \in Nat

VARIABLES
  claims,          \* the active mortgage facts, by item
  correctionsMade

resolutionVars == <<claims, correctionsMade>>

Claim == [report : Reports \cup {Human}, place : Nat, item : MortgageItem]

------------------------------------------------------------------------------
(* The winner of a leaf *)

Abs(n) == IF n < 0 THEN -n ELSE n
Within(a, b, percent) == 100 * Abs(a - b) <= percent * Max({Abs(a), Abs(b)})
MoneyLeaves == {"original", "balance"}

Stated(group, leaf) == {c \in group : c.item[leaf] # NotStated}

\* A human's statement always wins, whatever the reports say.
Contenders(group, leaf) ==
  LET stated == Stated(group, leaf)
      human == {c \in stated : c.report = Human}
  IN  IF human = {} THEN stated ELSE human

Rank(c) == IF c.report = Human THEN 100 ELSE 70
Recency(c) == IF c.item.recent THEN 100 ELSE 25

\* An exact figure is worth more than a range, and that more than a round one.
Specificity(c, leaf) ==
  IF leaf \notin MoneyLeaves THEN 100
  ELSE IF c.item.ranged THEN 60
  ELSE IF c.item[leaf] \in RoundAmounts THEN 30 ELSE 100

\* Independent reports that state the same; money agrees within 2%.
Agreeing(c, contenders, leaf) ==
  {d \in contenders :
     /\ d.report # c.report
     /\ IF leaf \in MoneyLeaves THEN Within(c.item[leaf], d.item[leaf], 2)
        ELSE c.item[leaf] = d.item[leaf]}
Corroboration(c, contenders, leaf) ==
  Min({100, (100 * Cardinality(Agreeing(c, contenders, leaf))) \div 3})

Score(c, contenders, leaf) ==
  4 * Rank(c) + 3 * Recency(c) + 2 * Specificity(c, leaf) + Corroboration(c, contenders, leaf)

\* Equal scores: the highest liability, then the first report and place.  (The
\* code compares the snippets before the reports; any report may state any
\* content, so an order of the snippets is one of the reports here.)
Beats(c, d, contenders, leaf) ==
  LET sc == Score(c, contenders, leaf)
      sd == Score(d, contenders, leaf)
      liability(x) == IF leaf \in MoneyLeaves THEN x.item[leaf] ELSE 0
  IN  \/ sc > sd
      \/ sc = sd /\ liability(c) > liability(d)
      \/ sc = sd /\ liability(c) = liability(d)
           /\ \/ c.report < d.report
              \/ c.report = d.report /\ c.place < d.place
              \/ c.report = d.report /\ c.place = d.place

WinnerOf(group, leaf) ==
  LET contenders == Contenders(group, leaf)
  IN  IF contenders = {} THEN NotStated
      ELSE (CHOOSE c \in contenders : \A d \in contenders : Beats(c, d, contenders, leaf)).item[leaf]

------------------------------------------------------------------------------
(* Which groups are one mortgage *)

\* Claims with the same local name are one group, whatever report they are of.
GroupsByPlace(stated) == [p \in {c.place : c \in stated} |-> {c \in stated : c.place = p}]

SameMortgage(g, h) ==
  LET both(leaf) == WinnerOf(g, leaf) # NotStated /\ WinnerOf(h, leaf) # NotStated
  IN  IF both("doc") THEN WinnerOf(g, "doc") = WinnerOf(h, "doc")
      ELSE /\ both("lender") /\ WinnerOf(g, "lender") = WinnerOf(h, "lender")
           /\ both("day") => Abs(WinnerOf(g, "day") - WinnerOf(h, "day")) <= 30
           /\ both("original") => Within(WinnerOf(g, "original"), WinnerOf(h, "original"), 1)

\* The union-find of the code: every pair of groups that is the same joins
\* the two roots.  find follows the parents to where they stop: to the fixed
\* point in every set that following them from i does not leave.
Closed(parents, S) == \A j \in S : parents[j] \in S
RootIn(parents, i) ==
  CHOOSE r \in DOMAIN parents :
    /\ parents[r] = r
    /\ \A S \in SUBSET DOMAIN parents : i \in S /\ Closed(parents, S) => r \in S

JoinPair(parents, pair, groups) ==
  LET i == RootIn(parents, pair[1])
      j == RootIn(parents, pair[2])
  IN  IF i # j /\ SameMortgage(groups[pair[1]], groups[pair[2]])
      THEN [parents EXCEPT ![j] = i]
      ELSE parents

\* The pairs of the two loops, and the one that comes last.
PairsOf(groups) ==
  LET places == DOMAIN groups IN {p \in places \X places : p[1] < p[2]}
LastOf(pairs) ==
  CHOOSE p \in pairs : \A q \in pairs : q[1] < p[1] \/ (q[1] = p[1] /\ q[2] <= p[2])

ParentsOf(groups) ==
  LET after[pairs \in SUBSET PairsOf(groups)] ==
        IF pairs = {} THEN [i \in DOMAIN groups |-> i]
        ELSE JoinPair(after[pairs \ {LastOf(pairs)}], LastOf(pairs), groups)
  IN  after[PairsOf(groups)]

MergeGroups(groups) ==
  LET parents == ParentsOf(groups)
      member(r) == {k \in DOMAIN groups : RootIn(parents, k) = r}
  IN  {UNION {groups[j] : j \in member(r)} : r \in {RootIn(parents, k) : k \in DOMAIN groups}}

\* The mortgages of the record, as the claims each is built from.
MortgagesOf(stated) == MergeGroups(GroupsByPlace(stated))
Mortgages == MortgagesOf(claims)

------------------------------------------------------------------------------
(* The record *)

StatedBalances(group) == {c.item.balance : c \in Contenders(group, "balance")}

\* Mistake: a fifth instead of a twentieth.
InConflictCoarse(group) ==
  /\ StatedBalances(group) # {}
  /\ LET spread == Max(StatedBalances(group)) - Min(StatedBalances(group))
     IN  spread > Tolerance /\ 5 * spread > Max(StatedBalances(group))

\* _money_conflict: the spread of the winner and its contenders.
InConflict(group) ==
  /\ StatedBalances(group) # {}
  /\ LET spread == Max(StatedBalances(group)) - Min(StatedBalances(group))
     IN  spread > Tolerance /\ 20 * spread > Max(StatedBalances(group))

------------------------------------------------------------------------------
(* The ledger grows *)

ResolutionInit == claims = {} /\ correctionsMade = 0

\* A report is extracted: its mortgages are named by their places in it.
ReportExtracted(r, content) ==
  /\ \A c \in claims : c.report # r
  /\ claims' = claims \cup {[report |-> r, place |-> i, item |-> content[i]] :
                             i \in DOMAIN content}
  /\ UNCHANGED correctionsMade

\* add_fact of api/routes_properties.py: a human states a balance under the
\* name the page shows.
CorrectBalance(place, balance) ==
  /\ correctionsMade < MaxCorrections
  /\ \E c \in claims : c.place = place
  /\ claims' = claims \cup
       {[report |-> Human, place |-> place,
         item |-> [doc |-> NotStated, lender |-> NotStated, day |-> NotStated,
                   original |-> NotStated, balance |-> balance,
                   recent |-> TRUE, ranged |-> FALSE]]}
  /\ correctionsMade' = correctionsMade + 1

ResolutionNext ==
  \/ \E r \in Reports, content \in Contents : ReportExtracted(r, content)
  \/ \E place \in {c.place : c \in claims}, balance \in Corrections : CorrectBalance(place, balance)

ResolutionSpec == ResolutionInit /\ [][ResolutionNext]_resolutionVars

------------------------------------------------------------------------------
(* Properties *)

\* The ledger has its type, and every claim went into exactly one mortgage.
ResolutionTypeOK ==
  /\ claims \subseteq Claim
  /\ correctionsMade \in 0..MaxCorrections
  /\ UNION Mortgages = claims
  /\ \A g, h \in Mortgages : g = h \/ g \cap h = {}

\* The union-find merges what the pairwise test connects and nothing else
\* (_merge_groups): the mortgages are the components of that relation, the
\* smallest sets of groups that no test leads out of.
Connected(groups, D) ==
  \A i \in D, j \in DOMAIN groups :
    SameMortgage(groups[i], groups[j]) \/ SameMortgage(groups[j], groups[i]) => j \in D
Components(groups) ==
  {D \in (SUBSET DOMAIN groups) \ {{}} :
     /\ Connected(groups, D)
     /\ \A E \in (SUBSET D) \ {{}} : Connected(groups, E) => E = D}

MergeIsClosure ==
  LET groups == GroupsByPlace(claims)
  IN  Mortgages = {UNION {groups[j] : j \in D} : D \in Components(groups)}

\* A balance some report states never disappears from the record without a
\* trace: its mortgage shows a balance within the tolerance of it or above it,
\* or carries the conflict flag, or shows a balance that a human entered for it
\* (_build_mortgage, _pick_winner).
DebtNeverDropsUnflagged ==
  \A group \in Mortgages : \A c \in Stated(group, "balance") :
    LET shown == WinnerOf(group, "balance")
        entered == {d.item.balance : d \in {x \in group : x.report = Human}}
    IN  IF entered # {} THEN shown \in entered
        ELSE \/ InConflict(group)
             \/ shown >= c.item.balance - Tolerance
             \/ 20 * (c.item.balance - shown) <= c.item.balance

\* Two mortgages with different recording document numbers stay two records
\* (spec 6.4; tests/test_normalization.py "distinct mortgages are not
\* merged").  It does not hold: the first mortgages of two reports are one
\* group from the start, and a third without a number connects two others.
DistinctMortgagesStayApart ==
  \A group \in Mortgages : Cardinality({c.item.doc : c \in Stated(group, "doc")}) <= 1
====
