------------------------------ MODULE Ranking -------------------------------
(***************************************************************************)
(* Scores and ranks (scoring/engine.py, scoring/ranking.py).  A recompute  *)
(* turns what is known of a property into four component scores, an overall *)
(* score and gates, and stores them; a ranking numbers the rankable        *)
(* properties of the portfolio by their stored scores, with the rank each  *)
(* had before.  A ranking's time is the start of its transaction, its      *)
(* statement runs later; the rank_scope job and the nightly job are        *)
(* different jobs and may overlap.                                         *)
(*                                                                         *)
(* Scores are in hundredths of a point, shares in percent; the figures are *)
(* those of DEFAULT_CONFIG.  An age is a number of half-lives.             *)
(***************************************************************************)
EXTENDS Integers, FiniteSets, FiniteSetsExt, Functions

CONSTANTS Listed,       \* properties: numbers, in the order of their ids
          Cases,        \* what a recompute may find: a file and its quality
          Qualities,    \* qualities of data
          Mergeable,    \* bound: properties that may be merged into another
          MaxRankings,  \* bound: rankings begun
          Unscored      \* no stored score

ASSUME RankingAssumption ==
    IsFiniteSet(Listed) /\ Listed \subseteq Nat /\ MaxRankings \in Nat

\* Figures are whole numbers, and what is counted is finite.
Ages == {age \in Nat : 2^age \in Nat \ {0}}

IsFile(f) ==
    /\ \A counted \in {f.liens, f.bankruptcies, f.failedListings} :
          IsFiniteSet(counted) /\ \A x \in counted : x.age \in Ages
    /\ \A b \in f.bankruptcies : b.sequence \in Int
    /\ \A l \in f.liens : l.amount \in Int
    /\ {f.foreclosure.age, 0} \subseteq Ages
    /\ {f.foreclosure.rescissions, f.titleFlags, f.yearsDelinquent, f.yearsOwned} \subseteq Nat
    /\ {f.equityPct, f.equityShare} \subseteq Int
    /\ IsFiniteSet(f.offers)
    /\ \A o \in f.offers : o.strategy \in 1..6 /\ o.profit \in Nat
                            /\ {o.roi, o.discount, o.margin} \subseteq Int
    /\ \A o, other \in f.offers : o.strategy = other.strategy => o = other

IsQuality(q) ==
    /\ {q.coverage, q.corroboration, q.recency, q.verification, q.extraction} \subseteq Int
    /\ q.conflicts \in Nat

ASSUME CasesAssumption ==
    /\ \A c \in Cases : IsFile(c.file) /\ IsQuality(c.quality)
    /\ \A q \in Qualities : IsQuality(q)

VARIABLES
    case,      \* case[p]: what the stored row of scores was computed from
    hidden,    \* properties.archived_at is set
    merged,    \* properties.merged_into_id is set
    ranking,   \* ranking[r]: when the transaction of ranker r began, 0 if none runs
    clock,     \* now()
    rankRows,  \* the table rankings
    overlapped \* history: a ranking began while the other ran

rankingVars == <<case, hidden, merged, ranking, clock, rankRows, overlapped>>

Rankers == {"rank_scope", "nightly"}

(***************************************************************************)
(* Component scores                                                        *)
(***************************************************************************)
Clamp(n, high) == IF n < 0 THEN 0 ELSE IF n > high THEN high ELSE n
AtMost(n, high) == IF n > high THEN high ELSE n
Points(n) == 100 * n
If(condition, n) == IF condition THEN Points(n) ELSE 0

\* _decay: half the points after each half-life.
Decayed(n, age) == Points(n) \div 2^age

Total(points) == SumFunctionOnSet(points, DOMAIN points)

\* A lien: [id, kind, basis, amount, age, open].  The basis of its attachment
\* is "recorded", "owner_only" or "unknown".
OpenLiens(f) == {l \in f.liens : l.open}
TaxKinds == {"tax", "property_tax", "state_tax", "federal_tax"}
NearSale == {"nts", "auction"}

\* _distress: dated events fade, each category has its cap.
ForeclosureDistress(f) ==
    IF ~f.foreclosure.active THEN 0
    ELSE (IF ~f.foreclosure.nts /\ f.foreclosure.stage \notin NearSale THEN 0
          ELSE Decayed(IF f.foreclosure.saleNear THEN 30 ELSE 24,
                       IF f.foreclosure.nts THEN f.foreclosure.age ELSE 0))
       + (IF f.foreclosure.nod THEN Decayed(18, f.foreclosure.age) ELSE 0)
       + AtMost(Points(8) * f.foreclosure.rescissions, Points(16))

BankruptcyDistress(f) ==
    LET active == {b \in f.bankruptcies : b.status = "active"}
        prior == {b \in f.bankruptcies : b.status \in {"dismissed", "discharged", "closed"}}
    IN  (IF active = {} THEN 0 ELSE Max({Decayed(12, b.age) : b \in active}))
      + AtMost(Total([b \in prior |-> Decayed(6, b.age)]), Points(18))
      + If(\E b \in f.bankruptcies : b.sequence > 1, 8)

LienDistress(f) ==
    LET tax == {l \in OpenLiens(f) : l.kind \in TaxKinds}
        other == OpenLiens(f) \ tax
    IN  Total([l \in tax |-> Decayed(IF l.basis = "recorded" THEN 10 ELSE 4, l.age)])
      + AtMost(Total([l \in other |-> Decayed(3, l.age)]) + If(f.hoa = "lien", 3), Points(12))

Distress(f) ==
    LET pressure ==
            ForeclosureDistress(f) + BankruptcyDistress(f) + LienDistress(f)
          + If(f.yearsDelinquent >= 2, 10) + If(f.absentee, 5) + If(f.yearsOwned > 15, 4)
          + AtMost(Total([l \in f.failedListings |-> Decayed(6, l.age)]), Points(12))
    IN  Clamp(pressure + If(f.equityPct >= 50 /\ pressure > 0, 5), Points(100))

\* _dcs: the weighted shares, and less for every conflict.
Confidence(q) ==
    30 * q.coverage + 20 * q.corroboration + 20 * q.recency
    + 15 * (100 - AtMost(20 * q.conflicts, 100)) + 10 * q.verification + 5 * q.extraction

\* _risk: a lien whose basis is not known counts as a lien, not as the owner's.
LargeOwnerOnly(f) == {l \in OpenLiens(f) : l.basis = "owner_only" /\ l.amount > 10000}

Risk(f, q) ==
    Clamp(Points(6) * Cardinality(OpenLiens(f))
        + If(\E b \in f.bankruptcies : b.status = "active", 15)
        + If(f.foreclosure.active /\ f.foreclosure.stage \in NearSale, 12)
        + Points(10) * Cardinality(LargeOwnerOnly(f))
        + Points(10) * f.titleFlags + If(f.occupied, 8) + If(f.hoa # "none", 8)
        + Points(10) * q.conflicts
        + If(Confidence(q) < Points(50), 12)
        + If(\E l \in OpenLiens(f) : l.kind = "federal_tax", 6), Points(100))

(***************************************************************************)
(* score: the weighted sum, then the gates                                 *)
(***************************************************************************)
\* Mistake: the cap is lifted below 75 instead of above.
GatesReversed(f, q) ==
    {g \in {"dcs_below_40", "foreclosure_cap"} :
        IF g = "dcs_below_40" THEN Confidence(q) < Points(40)
        ELSE f.foreclosure.active /\ Confidence(q) >= Points(75)}

Gates(f, q) ==
    {g \in {"insufficient_data", "dcs_below_40", "foreclosure_cap", "open_gating_flag"} :
        \/ g = "insufficient_data" /\ ~f.underwritten
        \/ g = "dcs_below_40" /\ Confidence(q) < Points(40)
        \/ g = "foreclosure_cap" /\ f.foreclosure.active /\ Confidence(q) < Points(75)
        \/ g = "open_gating_flag" /\ f.identityConflict}

\* The strategies by their priority: cash 1, flip 2, wholesale 3, rental 4,
\* foreclosure 6; subject-to is never recommended.  An offer of a file is a
\* strategy whose figures make it viable: [strategy, profit, roi, discount,
\* margin], each figure as a share of its range.  Wholesale has neither a return
\* nor a margin, and is viable only on good data (wholesale, wholesale_min).
Wholesale == 3

Viable(f, q) == {o \in f.offers : o.strategy = Wholesale => Confidence(q) >= Points(60)}

\* _recommend: the most profitable, and of those the first by priority.
NoOffer == [strategy |-> 0, profit |-> 0, roi |-> 0, discount |-> 0, margin |-> 0]
Standing(o) == 10 * o.profit - o.strategy

Recommended(f, q) ==
    IF Viable(f, q) = {} THEN NoOffer
    ELSE CHOOSE o \in Viable(f, q) :
            \A other \in Viable(f, q) : Standing(other) <= Standing(o)

\* _fos: the figures of the recommended strategy.
Opportunity(f, q) ==
    LET o == Recommended(f, q)
    IN  Clamp(30 * o.profit + 25 * o.roi + 20 * f.equityShare + 15 * o.discount
              + 10 * o.margin, Points(100))

Weighted(f, q) ==
    Clamp((50 * Opportunity(f, q) + 20 * Distress(f) + 20 * Confidence(q) - 25 * Risk(f, q))
          \div 100, Points(100))

CapOf(gate) == IF gate = "dcs_below_40" THEN Points(45)
               ELSE IF gate = "foreclosure_cap" THEN Points(70)
               ELSE Points(100)

Overall(f, q) == Min({Weighted(f, q)} \cup {CapOf(g) : g \in Gates(f, q)})

\* The row of scores of a case, with its own quality and with any other.
Row(f, q) == [overall |-> Overall(f, q), gates |-> Gates(f, q),
              recommended |-> Recommended(f, q)]
RowOf == [c \in Cases |-> Row(c.file, c.quality)]
RowWith == [c \in Cases |-> [q \in Qualities |-> Row(c.file, q)]]

ScoreOf(p) == RowOf[case[p]].overall

Rankable(p) ==
    /\ case[p] # Unscored
    /\ RowOf[case[p]].gates \cap {"insufficient_data", "open_gating_flag"} = {}

(***************************************************************************)
(* The portfolio                                                           *)
(***************************************************************************)
RankingInit ==
    /\ case = [p \in Listed |-> Unscored]
    /\ hidden = [p \in Listed |-> FALSE]
    /\ merged = [p \in Listed |-> FALSE]
    /\ ranking = [r \in Rankers |-> 0]
    /\ clock = 1
    /\ rankRows = {}
    /\ overlapped = FALSE

\* Pipeline.recompute finds c known of p; replace_results deletes and inserts
\* the row of scores.
RecomputeScore(p, c) ==
    /\ ~hidden[p] /\ case[p] # c
    /\ case' = [case EXCEPT ![p] = c]
    /\ UNCHANGED <<hidden, merged, ranking, clock, rankRows, overlapped>>

SetHidden(p) ==
    /\ hidden' = [hidden EXCEPT ![p] = ~@]
    /\ UNCHANGED <<case, merged, ranking, clock, rankRows, overlapped>>

SetMerged(p) ==
    /\ p \in Mergeable
    /\ merged' = [merged EXCEPT ![p] = ~@]
    /\ UNCHANGED <<case, hidden, ranking, clock, rankRows, overlapped>>

BeginRanking(r) ==
    /\ ranking[r] = 0 /\ clock <= MaxRankings
    /\ ranking' = [ranking EXCEPT ![r] = clock]
    /\ clock' = clock + 1
    /\ overlapped' = (overlapped \/ \E other \in Rankers : ranking[other] # 0)
    /\ UNCHANGED <<case, hidden, merged, rankRows>>

Newest(rows) == {row \in rows : \A other \in rows : other.at <= row.at}

Contestants == {p \in Listed : ~hidden[p] /\ ~merged[p] /\ Rankable(p)}

\* RANK() OVER (ORDER BY overall DESC, property_id)
Ahead(p, q) == ScoreOf(p) > ScoreOf(q) \/ (ScoreOf(p) = ScoreOf(q) /\ p < q)

\* Mistake: the newest rank it ever had.
PreviousRankEver(p) ==
    LET before == Newest({row \in rankRows : row.property = p})
    IN  IF before = {} THEN 0 ELSE (CHOOSE row \in before : TRUE).rank

\* LEFT JOIN previous: 0 for a property that had no rank.
PreviousRank(p) ==
    LET before == {row \in Newest(rankRows) : row.property = p}
    IN  IF before = {} THEN 0 ELSE (CHOOSE row \in before : TRUE).rank

InsertRanks(r) ==
    /\ ranking[r] # 0
    /\ rankRows' = rankRows \cup
            {[property |-> p, rank |-> 1 + Cardinality({q \in Contestants : Ahead(q, p)}),
              previous |-> PreviousRank(p), at |-> ranking[r]] : p \in Contestants}
    /\ ranking' = [ranking EXCEPT ![r] = 0]
    /\ UNCHANGED <<case, hidden, merged, clock, overlapped>>

RankingNext ==
    \/ \E p \in Listed : \/ \E c \in Cases : RecomputeScore(p, c)
                         \/ SetHidden(p) \/ SetMerged(p)
    \/ \E r \in Rankers : BeginRanking(r) \/ InsertRanks(r)

RankingSpec == RankingInit /\ [][RankingNext]_rankingVars

(***************************************************************************)
(* What the pages show                                                     *)
(***************************************************************************)
\* GET /rankings: the newest ranking that has a property which is not archived.
RankingPage == Newest({row \in rankRows : ~hidden[row.property]})

\* _latest_ranks of the property list: the newest row of each property.
ShownRow(p) == Newest({row \in rankRows : row.property = p})

(***************************************************************************)
(* Properties                                                              *)
(***************************************************************************)
RankingTypeOK ==
    /\ case \in [Listed -> Cases \cup {Unscored}]
    /\ hidden \in [Listed -> BOOLEAN] /\ merged \in [Listed -> BOOLEAN]
    /\ ranking \in [Rankers -> 0..MaxRankings]
    /\ clock \in 1..(MaxRankings + 1)
    /\ rankRows \subseteq [property : Listed, rank : Nat \ {0}, previous : Nat,
                           at : 1..MaxRankings]
    /\ overlapped \in BOOLEAN

\* Better data about the same facts never take a property off the ranking and
\* never recommend less profit: neither the penalties, nor the caps, nor the
\* gates work against whoever verifies a field or resolves a conflict (_dcs,
\* _risk, score).  They lower the overall score in one case only: they open
\* wholesale, which has the highest profit and neither a return nor a margin,
\* and so displaces what was recommended (wholesale_min, _recommend).
Better(q, than) ==
    /\ \A part \in {"coverage", "corroboration", "recency", "verification", "extraction"} :
          q[part] >= than[part]
    /\ q.conflicts <= than.conflicts

ConfidenceNeverHurts ==
    \A p \in Listed : case[p] # Unscored =>
        \A q \in Qualities : Better(q, case[p].quality) =>
            LET now == RowOf[case[p]]
                better == RowWith[case[p]][q]
            IN  /\ better.gates \subseteq now.gates
                /\ better.recommended.profit >= now.recommended.profit
                /\ \/ better.overall >= now.overall
                   \/ /\ better.recommended.strategy = Wholesale
                      /\ now.recommended.strategy # Wholesale

\* The movement of a row is from the ranking before it, unless two rankings
\* overlapped: a property that missed that ranking is new.  Two properties are
\* shown with one rank only if one of them has left the ranking, and the two
\* pages agree (RANKINGS_SQL, _latest_ranks, GET /rankings).
Before(row) == Newest({other \in rankRows : other.at < row.at})

MovementIsFromLast ==
    \A row \in rankRows :
        LET last == {other \in Before(row) : other.property = row.property}
        IN  IF last = {} THEN row.previous = 0
            ELSE \E other \in last : other.rank = row.previous

RankingIsHonest ==
    /\ overlapped \/ MovementIsFromLast
    /\ \A p, q \in Listed : \A r \in ShownRow(p), s \in ShownRow(q) :
          p # q /\ r.rank = s.rank => ~({r, s} \subseteq Newest(rankRows))
    /\ \A row \in RankingPage : row \in ShownRow(row.property)
=============================================================================
