---------------------------- MODULE RecordProofs -----------------------------
(*****************************************************************************)
(* Theorems about the record a property is shown with: what the gauntlet     *)
(* keeps of one answer (FactGauntlet), which claims the resolver takes for   *)
(* one mortgage and what it shows of them (FactResolution), and the debts    *)
(* the engines count from such a record (Underwriting, DealStrategies).  The *)
(* last part puts the components that count money together (MCMoney).        *)
(*****************************************************************************)
EXTENDS MCMoney, MoneyProofs

(*****************************************************************************)
(* FactGauntlet, for any units of a report and any answers in the schema.    *)
(*****************************************************************************)

(* What screening one unit leaves behind. *)
ScreenedAs(u, answer) ==
    LET drafts == DraftsOf(u, answer)
        active == ActiveOf(drafts)
    IN  [active |-> active, drafts |-> drafts,
         inactive |-> {f \in drafts : Survives(f)} \ active,
         dropped |-> Cardinality({f \in drafts : ~Survives(f)})
                       + Cardinality({i \in DOMAIN answer : ~answer[i].sourced})]

GauntletInv ==
    /\ DOMAIN screened = Units
    /\ \A u \in Units : \/ screened[u] = Unscreened
                        \/ \E answer \in Answers : screened[u] = ScreenedAs(u, answer)

(* Every unit is as it began or as one answer left it.                          *)
LEMMA GauntletInvariant == GauntletSpec => []GauntletInv
<1>1. GauntletInit => GauntletInv
  BY DEF GauntletInit, GauntletInv
<1>2. GauntletInv /\ [GauntletNext]_gauntletVars => GauntletInv'
  <2> SUFFICES ASSUME GauntletInv, [GauntletNext]_gauntletVars PROVE GauntletInv'
    OBVIOUS
  <2>1. ASSUME NEW u \in Units, NEW answer \in Answers, ScreenUnit(u, answer)
        PROVE  GauntletInv'
    <3>1. screened' = [screened EXCEPT ![u] = ScreenedAs(u, answer)]
      BY <2>1 DEF ScreenUnit, ScreenedAs
    <3> QED
      BY <2>1, <3>1 DEF GauntletInv
  <2>2. CASE UNCHANGED gauntletVars
    BY <2>2 DEF GauntletInv, gauntletVars
  <2> QED
    BY <2>1, <2>2 DEF GauntletNext
<1> QED
  BY <1>1, <1>2, PTL DEF GauntletSpec

(* Facts that do not hold both dates.                                           *)
Dates == {"year_built", "ownership_start_date"}
Undated(facts) ==
    \A f, g \in facts : ~(f.field = "year_built" /\ g.field = "ownership_start_date")

(* The values a function takes on a finite set are finitely many.               *)
LEMMA ValuesAreFinite ==
  ASSUME NEW S, IsFiniteSet(S), NEW g
  PROVE  IsFiniteSet({g[x] : x \in S})
<1> DEFINE T == {g[x] : x \in S}
           h == [x \in S |-> g[x]]
<1>1. h \in Surjection(S, T)
  BY DEF Surjection
<1> QED
  BY <1>1, FS_Surjection

(* The drafts of a unit can be counted, and each knows its unit.                *)
LEMMA DraftsAreOfTheUnit ==
  ASSUME NEW u, NEW answer \in Answers
  PROVE  /\ IsFiniteSet(DraftsOf(u, answer))
         /\ \A f \in DraftsOf(u, answer) : f.unit = u
         /\ Undated(DraftsOf(u, answer))
<1> DEFINE sourced == {j \in DOMAIN answer : answer[j].sourced}
           draft(i, f) == [unit |-> u, stem |-> answer[i].stem, place |-> i, field |-> f,
                           value |-> answer[i].stated[f].value,
                           raw |-> answer[i].stated[f].raw,
                           grounded |-> answer[i].grounded, excused |-> answer[i].excused]
           ofItem(i) == {draft(i, f) : f \in DOMAIN answer[i].stated}
<1>1. DraftsOf(u, answer) = UNION {ofItem(i) : i \in sourced}
  BY DEF DraftsOf
<1>2. ASSUME NEW i \in sourced PROVE IsFiniteSet(ofItem(i))
  <2>1. IsFiniteSet(DOMAIN answer[i].stated)
    BY AnswersAreFinite
  <2>2. PICK g : g = [f \in DOMAIN answer[i].stated |-> draft(i, f)]
    OBVIOUS
  <2>3. ofItem(i) = {g[f] : f \in DOMAIN answer[i].stated}
    BY <2>2
  <2> QED
    BY <2>1, <2>3, ValuesAreFinite
<1>3. IsFiniteSet({ofItem(i) : i \in sourced})
  <2>1. IsFiniteSet(sourced)
    BY AnswersAreFinite, FS_Subset
  <2>2. PICK g : g = [i \in sourced |-> ofItem(i)]
    OBVIOUS
  <2>3. {ofItem(i) : i \in sourced} = {g[i] : i \in sourced}
    BY <2>2
  <2> HIDE DEF ofItem, sourced
  <2> QED
    BY <2>1, <2>3, ValuesAreFinite
<1>4. IsFiniteSet(DraftsOf(u, answer))
  <2> HIDE DEF ofItem, sourced
  <2> QED
    BY <1>1, <1>2, <1>3, FS_UNION
<1>5. \A f \in DraftsOf(u, answer) :
        f.unit = u /\ \E i \in DOMAIN answer : f.field \in DOMAIN answer[i].stated
  BY <1>1
<1>6. Undated(DraftsOf(u, answer))
  BY <1>5, AnswersKeepTheSchema DEF Undated
<1> QED
  BY <1>4, <1>5, <1>6

(* What is kept of a unit was drafted in it, and nothing is both kept and not.  *)
LEMMA GauntletTyped == GauntletSpec => []GauntletTypeOK
<1>1. GauntletInv => GauntletTypeOK
  <2> SUFFICES ASSUME GauntletInv, NEW u \in Units
               PROVE  /\ screened[u].active \cup screened[u].inactive \subseteq screened[u].drafts
                      /\ screened[u].active \cap screened[u].inactive = {}
                      /\ screened[u].dropped \in Nat
    BY DEF GauntletTypeOK
  <2>1. CASE screened[u] = Unscreened
    BY <2>1 DEF Unscreened
  <2>2. ASSUME NEW answer \in Answers, screened[u] = ScreenedAs(u, answer)
        PROVE  /\ screened[u].active \cup screened[u].inactive \subseteq screened[u].drafts
               /\ screened[u].active \cap screened[u].inactive = {}
               /\ screened[u].dropped \in Nat
    <3>1. /\ Cardinality({f \in DraftsOf(u, answer) : ~Survives(f)}) \in Nat
          /\ Cardinality({i \in DOMAIN answer : ~answer[i].sourced}) \in Nat
      <4>1. /\ IsFiniteSet({f \in DraftsOf(u, answer) : ~Survives(f)})
            /\ IsFiniteSet({i \in DOMAIN answer : ~answer[i].sourced})
        BY DraftsAreOfTheUnit, AnswersAreFinite, FS_Subset
      <4> QED
        BY <4>1, FS_CardinalityType
    <3>2. ActiveOf(DraftsOf(u, answer)) \subseteq DraftsOf(u, answer)
      BY DEF ActiveOf
    <3> QED
      BY <2>2, <3>1, <3>2 DEF ScreenedAs
  <2> QED
    BY <2>1, <2>2 DEF GauntletInv
<1> QED
  BY <1>1, GauntletInvariant, PTL

(* Two facts of one item of which a rule takes the first, and the pair that     *)
(* only the facts of several units can hold.                                    *)
Clash(f, g) ==
    /\ f.value # Empty /\ g.value # Empty
    /\ TooHigh(f, g) \/ SoldBeforeDefault(f, g) \/ SoldBeforeDefault(g, f)

(* A fact that goes is a junior mortgage without a first one, clashes with a    *)
(* fact of its item, or is one of the two dates.                                *)
LEMMA RuleByRule ==
  ASSUME NEW facts, NEW f
  PROVE  /\ f \in Contradicted(facts) =>
               /\ f \in facts
               /\ \/ Junior(f, facts) /\ \A g \in facts : ~IsFirst(g)
                  \/ \E g \in facts : Clash(f, g)
                  \/ f.field \in Dates /\ ~Undated(facts)
         /\ /\ f \in facts
            /\ \/ Junior(f, facts) /\ \A g \in facts : ~IsFirst(g)
               \/ \E g \in facts : Clash(f, g)
            => f \in Contradicted(facts)
BY DEF Contradicted, Clash, Dates, Undated, BoughtUnbuilt

(* A first mortgage is never taken away by a rule.                              *)
LEMMA FirstStays ==
  ASSUME NEW facts, NEW f \in facts, IsFirst(f)
  PROVE  f \notin Contradicted(facts)
<1>1. ~\E g \in facts : Clash(f, g)
  BY DEF Clash, IsFirst, MortgageFact, TooHigh, SoldBeforeDefault
<1>2. f.field \notin Dates
  BY DEF IsFirst, MortgageFact, Dates
<1> QED
  BY <1>1, <1>2, RuleByRule

(* What one rule takes away never makes another apply.                          *)
LEMMA OneRoundIsEnough ==
  ASSUME NEW facts, Undated(facts)
  PROVE  Contradicted(facts \ Contradicted(facts)) = {}
<1> DEFINE active == facts \ Contradicted(facts)
<1>1. Undated(active)
  BY DEF Undated
<1>2. SUFFICES ASSUME NEW f \in active,
                      \/ Junior(f, active) /\ \A g \in active : ~IsFirst(g)
                      \/ \E g \in active : Clash(f, g)
               PROVE  f \in Contradicted(facts)
  <2> HIDE DEF active
  <2>1. \A f : f \in Contradicted(active) => f \in active
    BY RuleByRule
  <2> QED
    BY <1>1, <2>1, RuleByRule DEF active
<1>3. CASE \E g \in active : Clash(f, g)
  BY <1>3, RuleByRule
<1>4. CASE Junior(f, active) /\ \A g \in active : ~IsFirst(g)
  <2>1. \A g \in facts : ~IsFirst(g)
    BY <1>4, FirstStays
  <2>2. Junior(f, facts)
    BY <1>4 DEF Junior
  <2> QED
    BY <2>1, <2>2, RuleByRule
<1> QED
  BY <1>2, <1>3, <1>4

(* No two facts that a unit keeps contradict each other, and the split of a     *)
(* report into units changes the verdict on a junior mortgage and on an owner   *)
(* older than the house, and on nothing else (extraction/validation.py          *)
(* run_gauntlet).                                                               *)
THEOREM ScreeningStaysLocal == GauntletSpec => []ScreeningIsLocal
<1>1. GauntletInv => ScreeningIsLocal
  <2> SUFFICES ASSUME GauntletInv PROVE ScreeningIsLocal
    OBVIOUS
  <2> DEFINE Sane(D) == {f \in D : Survives(f) /\ InRange(f)}
  <2>1. \A D : ActiveOf(D) = Sane(D) \ Contradicted(Sane(D))
    BY DEF ActiveOf
  <2>2. ASSUME NEW u \in Units
        PROVE  /\ screened[u].active = ActiveOf(screened[u].drafts)
               /\ \A f \in screened[u].drafts : f.unit = u
               /\ Undated(screened[u].drafts)
    <3>1. CASE screened[u] = Unscreened
      <4>1. ActiveOf({}) = {}
        BY <2>1
      <4> QED
        BY <3>1, <4>1 DEF Unscreened, Undated
    <3>2. ASSUME NEW answer \in Answers, screened[u] = ScreenedAs(u, answer)
          PROVE  /\ screened[u].active = ActiveOf(screened[u].drafts)
                 /\ \A f \in screened[u].drafts : f.unit = u
                 /\ Undated(screened[u].drafts)
      BY <3>2, DraftsAreOfTheUnit DEF ScreenedAs
    <3> QED
      BY <3>1, <3>2 DEF GauntletInv
  <2>3. \A u \in Units : Undated(Sane(screened[u].drafts))
    BY <2>2 DEF Undated
  <2> HIDE DEF Sane
  <2>4. ASSUME NEW u \in Units PROVE Contradicted(screened[u].active) = {}
    BY <2>1, <2>2, <2>3, OneRoundIsEnough
  <2>5. \A u \in Units : Sane(screened[u].drafts) \subseteq Sane(Everything)
    BY DEF Sane, Everything
  <2>6. ASSUME NEW f \in ActiveOf(Everything) \ Kept
        PROVE  Junior(f, screened[f.unit].drafts)
    <3>1. PICK u \in Units : f \in screened[u].drafts
      BY <2>1 DEF Everything, Sane
    <3>2. f.unit = u /\ f \notin screened[u].active
      BY <2>2, <3>1 DEF Kept
    <3>3. f \in Sane(screened[u].drafts) /\ f \in Contradicted(Sane(screened[u].drafts))
      BY <2>1, <2>2, <3>1, <3>2 DEF Sane
    <3>4. f \in Sane(Everything) /\ f \notin Contradicted(Sane(Everything))
      BY <2>1
    <3>5. Junior(f, Sane(screened[u].drafts))
      BY <2>3, <2>5, <3>3, <3>4, RuleByRule
    <3> QED
      BY <3>2, <3>5 DEF Junior, Sane
  <2>7. ASSUME NEW f \in Kept \ ActiveOf(Everything)
        PROVE  f.field \in Dates
    <3>1. PICK u \in Units : f \in screened[u].active
      BY DEF Kept
    <3>2. f \in Sane(screened[u].drafts) /\ f \notin Contradicted(Sane(screened[u].drafts))
      BY <2>1, <2>2, <3>1
    <3>3. f \in Sane(Everything) /\ f \in Contradicted(Sane(Everything))
      BY <2>1, <2>5, <3>2
    <3>4. f.unit = u
      BY <2>2, <3>2 DEF Sane
    <3>5. ASSUME NEW g \in Sane(Everything), g.unit = u
          PROVE  g \in Sane(screened[u].drafts)
      <4>1. PICK v \in Units : g \in screened[v].drafts
        BY DEF Sane, Everything
      <4>2. v = u
        BY <2>2, <3>5, <4>1
      <4> QED
        BY <4>1, <4>2 DEF Sane
    <3>6. CASE Junior(f, Sane(Everything)) /\ \A g \in Sane(Everything) : ~IsFirst(g)
      <4>1. Junior(f, Sane(screened[u].drafts))
        BY <3>4, <3>5, <3>6 DEF Junior, SameItem
      <4>2. \A g \in Sane(screened[u].drafts) : ~IsFirst(g)
        BY <2>5, <3>6
      <4> QED
        BY <3>2, <4>1, <4>2, RuleByRule
    <3>7. ASSUME NEW g \in Sane(Everything), Clash(f, g)
          PROVE  f.field \in Dates
      <4>1. g.unit = u
        BY <3>4, <3>7 DEF Clash, TooHigh, SoldBeforeDefault, SameItem
      <4> QED
        BY <3>2, <3>5, <3>7, <4>1, RuleByRule
    <3> QED
      BY <3>3, <3>6, <3>7, RuleByRule
  <2> QED
    BY <2>4, <2>6, <2>7 DEF ScreeningIsLocal, Dates
<1> QED
  BY <1>1, GauntletInvariant, PTL

(*****************************************************************************)
(* The union-find.                                                           *)
(*****************************************************************************)

(* Where find ends when it starts at k: rep[k].                                 *)
Follows(ps, rep, P) ==
    /\ ps \in [P -> P] /\ rep \in [P -> P]
    /\ \A k \in P : rep[ps[k]] = rep[k] /\ ps[rep[k]] = rep[k]
    /\ \A k \in P, S \in SUBSET P : k \in S /\ Closed(ps, S) => rep[k] \in S

(* The root find returns is where the parents lead.                             *)
LEMMA RootIsRep ==
  ASSUME NEW P, NEW ps, NEW rep, Follows(ps, rep, P), NEW i \in P
  PROVE  RootIn(ps, i) = rep[i]
<1>1. DOMAIN ps = P /\ rep[i] \in P
  BY DEF Follows
<1> DEFINE Ends(r) == ps[r] = r /\ \A S \in SUBSET P : i \in S /\ Closed(ps, S) => r \in S
<1>2. Ends(rep[i])
  BY DEF Follows
<1>3. ASSUME NEW r \in P, Ends(r) PROVE r = rep[i]
  <2>1. PICK S \in SUBSET P : S = {k \in P : rep[k] = rep[i]}
    OBVIOUS
  <2>2. i \in S /\ Closed(ps, S)
    BY <2>1 DEF Follows, Closed
  <2>3. rep[r] = rep[i]
    BY <1>3, <2>1, <2>2
  <2>4. {r} \in SUBSET P /\ Closed(ps, {r})
    BY <1>3 DEF Closed
  <2>5. rep[r] \in {r}
    BY <2>4 DEF Follows
  <2> QED
    BY <2>3, <2>5
<1>4. RootIn(ps, i) = CHOOSE r \in P : Ends(r)
  BY <1>1 DEF RootIn
<1> HIDE DEF Ends
<1> QED
  BY <1>1, <1>2, <1>3, <1>4

(* Hanging one root below another leads the whole of its tree there.            *)
LEMMA JoinFollows ==
  ASSUME NEW P, NEW ps, NEW rep, Follows(ps, rep, P), NEW a \in P, NEW b \in P,
         rep[a] # rep[b]
  PROVE  Follows([ps EXCEPT ![rep[b]] = rep[a]],
                 [k \in P |-> IF rep[k] = rep[b] THEN rep[a] ELSE rep[k]], P)
<1> DEFINE qs == [ps EXCEPT ![rep[b]] = rep[a]]
           req == [k \in P |-> IF rep[k] = rep[b] THEN rep[a] ELSE rep[k]]
<1>1. /\ ps \in [P -> P] /\ rep \in [P -> P]
      /\ rep[a] \in P /\ rep[b] \in P
      /\ rep[rep[a]] = rep[a] /\ rep[rep[b]] = rep[b]
      /\ ps[rep[a]] = rep[a] /\ ps[rep[b]] = rep[b]
  <2>1. \A k \in P : rep[rep[k]] = rep[k]
    <3>1. ASSUME NEW k \in P PROVE rep[rep[k]] = rep[k]
      <4>1. rep[k] \in P /\ ps[rep[k]] = rep[k]
        BY DEF Follows
      <4>2. {rep[k]} \in SUBSET P /\ Closed(ps, {rep[k]})
        BY <4>1 DEF Closed
      <4> QED
        BY <4>1, <4>2 DEF Follows
    <3> QED
      BY <3>1
  <2> QED
    BY <2>1 DEF Follows
<1>2. qs \in [P -> P] /\ req \in [P -> P]
  BY <1>1
<1>3. ASSUME NEW k \in P PROVE req[qs[k]] = req[k]
  <2>1. CASE k = rep[b]
    BY <1>1, <2>1
  <2>2. CASE k # rep[b]
    <3>1. qs[k] = ps[k] /\ ps[k] \in P /\ rep[ps[k]] = rep[k]
      BY <1>1, <2>2 DEF Follows
    <3> QED
      BY <3>1
  <2> QED
    BY <2>1, <2>2
<1>4. ASSUME NEW k \in P PROVE qs[req[k]] = req[k]
  <2>1. CASE rep[k] = rep[b]
    BY <1>1, <2>1
  <2>2. CASE rep[k] # rep[b]
    <3>1. rep[k] \in P /\ ps[rep[k]] = rep[k]
      BY DEF Follows
    <3> QED
      BY <1>1, <2>2, <3>1
  <2> QED
    BY <2>1, <2>2
<1>5. ASSUME NEW k \in P, NEW S \in SUBSET P, k \in S, Closed(qs, S)
      PROVE  req[k] \in S
  <2>1. Closed(ps, S)
    <3>1. ASSUME NEW j \in S PROVE ps[j] \in S
      <4>1. CASE j = rep[b]
        BY <1>1, <4>1
      <4>2. CASE j # rep[b]
        BY <1>1, <1>5, <4>2 DEF Closed
      <4> QED
        BY <4>1, <4>2
    <3> QED
      BY <3>1 DEF Closed
  <2>2. rep[k] \in S
    BY <1>5, <2>1 DEF Follows
  <2>3. rep[b] \in S => rep[a] \in S
    BY <1>1, <1>5 DEF Closed
  <2> QED
    BY <2>2, <2>3
<1> QED
  BY <1>2, <1>3, <1>4, <1>5 DEF Follows

(* After some pairs: the tested ones that are the same share a root, and no root *)
(* lies outside a set that no test leads out of.                                *)
Merged(groups, pairs, ps) ==
    \E rep :
      /\ Follows(ps, rep, DOMAIN groups)
      /\ \A p \in pairs : SameMortgage(groups[p[1]], groups[p[2]]) => rep[p[1]] = rep[p[2]]
      /\ \A D \in SUBSET DOMAIN groups : Connected(groups, D) =>
           \A k \in DOMAIN groups : k \in D <=> rep[k] \in D

(* Before any test everyone is alone.                                           *)
LEMMA MergedAtFirst ==
  ASSUME NEW groups
  PROVE  Merged(groups, {}, [i \in DOMAIN groups |-> i])
<1> DEFINE P == DOMAIN groups
           id == [i \in P |-> i]
<1>1. Follows(id, id, P)
  BY DEF Follows
<1> QED
  BY <1>1 DEF Merged

(* One more pair is tested, and joined if it is the same mortgage.              *)
LEMMA JoinKeepsMerged ==
  ASSUME NEW groups, NEW pairs \in SUBSET PairsOf(groups), NEW ps, Merged(groups, pairs, ps),
         NEW pair \in PairsOf(groups)
  PROVE  Merged(groups, pairs \cup {pair}, JoinPair(ps, pair, groups))
<1> DEFINE P == DOMAIN groups
           a == pair[1]
           b == pair[2]
<1>1. PICK rep :
      /\ Follows(ps, rep, P)
      /\ \A p \in pairs : SameMortgage(groups[p[1]], groups[p[2]]) => rep[p[1]] = rep[p[2]]
      /\ \A D \in SUBSET P : Connected(groups, D) => \A k \in P : k \in D <=> rep[k] \in D
  BY DEF Merged
<1>2. a \in P /\ b \in P
  BY DEF PairsOf
<1>3. RootIn(ps, a) = rep[a] /\ RootIn(ps, b) = rep[b]
  BY <1>1, <1>2, RootIsRep
<1>4. CASE rep[a] = rep[b] \/ ~SameMortgage(groups[a], groups[b])
  <2>1. JoinPair(ps, pair, groups) = ps
    BY <1>3, <1>4 DEF JoinPair
  <2>2. \A p \in pairs \cup {pair} :
          SameMortgage(groups[p[1]], groups[p[2]]) => rep[p[1]] = rep[p[2]]
    BY <1>1, <1>4
  <2> QED
    BY <1>1, <2>1, <2>2 DEF Merged
<1>5. CASE rep[a] # rep[b] /\ SameMortgage(groups[a], groups[b])
  <2>1. PICK req : req = [k \in P |-> IF rep[k] = rep[b] THEN rep[a] ELSE rep[k]]
    OBVIOUS
  <2>2. JoinPair(ps, pair, groups) = [ps EXCEPT ![rep[b]] = rep[a]]
    BY <1>3, <1>5 DEF JoinPair
  <2>3. Follows(JoinPair(ps, pair, groups), req, P)
    <3> HIDE DEF P, a, b
    <3>1. Follows([ps EXCEPT ![rep[b]] = rep[a]],
                  [k \in P |-> IF rep[k] = rep[b] THEN rep[a] ELSE rep[k]], P)
      BY <1>1, <1>2, <1>5, JoinFollows
    <3> QED
      BY <2>1, <2>2, <3>1
  <2>4. ASSUME NEW p \in pairs \cup {pair}, SameMortgage(groups[p[1]], groups[p[2]])
        PROVE  req[p[1]] = req[p[2]]
    <3>1. p[1] \in P /\ p[2] \in P
      BY DEF PairsOf
    <3>2. CASE p \in pairs
      BY <1>1, <2>1, <2>4, <3>1, <3>2
    <3>3. CASE p = pair
      BY <1>2, <2>1, <3>3
    <3> QED
      BY <3>2, <3>3
  <2>5. ASSUME NEW D \in SUBSET P, Connected(groups, D), NEW k \in P
        PROVE  k \in D <=> req[k] \in D
    <3>1. a \in D <=> b \in D
      BY <1>2, <1>5, <2>5 DEF Connected
    <3>2. \A m \in P : m \in D <=> rep[m] \in D
      BY <1>1, <2>5
    <3>3. rep[a] \in D <=> rep[b] \in D
      BY <1>2, <3>1, <3>2
    <3> QED
      BY <2>1, <3>2, <3>3
  <2> QED
    BY <2>3, <2>4, <2>5 DEF Merged
<1> QED
  BY <1>4, <1>5

(* The loops take every pair once.                                              *)
LEMMA LastIsOne ==
  ASSUME NEW pairs \in SUBSET (Nat \X Nat), IsFiniteSet(pairs), pairs # {}
  PROVE  LastOf(pairs) \in pairs
<1> DEFINE f == [p \in pairs |-> p[1]]
           g == [p \in pairs |-> p[2]]
<1>1. \A p \in pairs : f[p] \in Int /\ g[p] \in Int /\ f[p] = p[1] /\ g[p] = p[2]
  OBVIOUS
<1> HIDE DEF f, g
<1>2. PICK m \in pairs : \A q \in pairs : f[q] <= f[m]
  BY <1>1, Greatest
<1> DEFINE top == {p \in pairs : p[1] = m[1]}
<1>3. IsFiniteSet(top) /\ top # {} /\ \A p \in top : g[p] \in Int
  BY <1>1, FS_Subset
<1>4. PICK p \in top : \A q \in top : g[q] <= g[p]
  BY <1>3, Greatest
<1>5. ASSUME NEW q \in pairs
      PROVE  q[1] < p[1] \/ (q[1] = p[1] /\ q[2] <= p[2])
  <2>1. q[1] <= p[1] /\ q[1] \in Int /\ p[1] \in Int
    BY <1>1, <1>2
  <2>2. CASE q[1] = p[1]
    BY <1>1, <1>4, <2>2
  <2> QED
    BY <2>1, <2>2
<1> QED
  BY <1>4, <1>5 DEF LastOf

After(g, groups, S) ==
    g = [pairs \in SUBSET S |->
           IF pairs = {} THEN [i \in DOMAIN groups |-> i]
           ELSE JoinPair(g[pairs \ {LastOf(pairs)}], LastOf(pairs), groups)]

(* The parents the resolver ends with are those after all pairs.                *)
LEMMA ParentsAreAfter ==
  ASSUME NEW groups
  PROVE  ParentsOf(groups) = (CHOOSE g : After(g, groups, PairsOf(groups)))[PairsOf(groups)]
BY DEF ParentsOf, After

(* Whatever pairs have been taken, they are merged.                             *)
LEMMA AfterIsMerged ==
  ASSUME NEW groups, NEW S \in SUBSET (Nat \X Nat), IsFiniteSet(S), S \subseteq PairsOf(groups),
         NEW g, After(g, groups, S)
  PROVE  Merged(groups, S, g[S])
<1> DEFINE C == {s \in SUBSET S : ~Merged(groups, s, g[s])}
<1>1. SUFFICES ASSUME C # {} PROVE FALSE
  OBVIOUS
<1>2. PICK s \in C : \A t \in C : ~(t \subseteq s /\ t # s)
  <2>1. C \in SUBSET SUBSET S
    OBVIOUS
  <2> HIDE DEF C
  <2> QED
    BY <1>1, <2>1, SmallestSubset
<1>3. s # {}
  BY <1>2, MergedAtFirst DEF After
<1>4. IsFiniteSet(s) /\ s \in SUBSET (Nat \X Nat)
  BY <1>2, FS_Subset
<1>5. LastOf(s) \in s
  BY <1>3, <1>4, LastIsOne
<1> DEFINE r == s \ {LastOf(s)}
<1>6. Merged(groups, r, g[r]) /\ r \in SUBSET S
  BY <1>2, <1>5
<1>7. g[s] = JoinPair(g[r], LastOf(s), groups)
  BY <1>2, <1>3 DEF After
<1>8. s = r \cup {LastOf(s)} /\ LastOf(s) \in PairsOf(groups) /\ r \in SUBSET PairsOf(groups)
  BY <1>5
<1>9. Merged(groups, s, g[s])
  <2> HIDE DEF r
  <2> QED
    BY <1>6, <1>7, <1>8, JoinKeepsMerged
<1> QED
  BY <1>2, <1>9

\* Two such functions agree wherever both are defined.
LEMMA AfterUnique ==
  ASSUME NEW groups, NEW S \in SUBSET (Nat \X Nat), IsFiniteSet(S), NEW R \in SUBSET S,
         NEW g, NEW h, After(g, groups, S), After(h, groups, R)
  PROVE  \A s \in SUBSET R : g[s] = h[s]
<1> DEFINE C == {s \in SUBSET R : g[s] # h[s]}
<1>1. SUFFICES ASSUME C # {} PROVE FALSE
  OBVIOUS
<1>2. IsFiniteSet(R)
  BY FS_Subset
<1>3. PICK s \in C : \A t \in C : ~(t \subseteq s /\ t # s)
  <2>1. C \in SUBSET SUBSET R
    OBVIOUS
  <2> HIDE DEF C
  <2> QED
    BY <1>1, <1>2, <2>1, SmallestSubset
<1>4. s # {} /\ s \in SUBSET S
  BY DEF After
<1>5. LastOf(s) \in s
  <2>1. IsFiniteSet(s) /\ s \in SUBSET (Nat \X Nat)
    BY <1>4, FS_Subset
  <2> QED
    BY <1>4, <2>1, LastIsOne
<1>6. s \ {LastOf(s)} \in SUBSET R /\ s \ {LastOf(s)} \notin C
  BY <1>3, <1>5
<1>7. /\ g[s] = JoinPair(g[s \ {LastOf(s)}], LastOf(s), groups)
      /\ h[s] = JoinPair(h[s \ {LastOf(s)}], LastOf(s), groups)
  BY <1>4 DEF After
<1> QED
  BY <1>6, <1>7

(* The loop has a result for every set of pairs.                                *)
LEMMA AfterExists ==
  ASSUME NEW groups, NEW S \in SUBSET (Nat \X Nat), IsFiniteSet(S)
  PROVE  \E g : After(g, groups, S)
<1> DEFINE id == [i \in DOMAIN groups |-> i]
           C == {T \in SUBSET S : ~ \E g : After(g, groups, T)}
<1>1. SUFFICES ASSUME C # {} PROVE FALSE
  OBVIOUS
<1>2. PICK T \in C : \A R \in C : ~(R \subseteq T /\ R # T)
  <2>1. C \in SUBSET SUBSET S
    OBVIOUS
  <2> HIDE DEF C
  <2> QED
    BY <1>1, <2>1, SmallestSubset
<1> DEFINE G(R) == CHOOSE g : After(g, groups, R)
           g == [s \in SUBSET T |-> IF s = {} THEN id
                    ELSE JoinPair(G(s \ {LastOf(s)})[s \ {LastOf(s)}], LastOf(s), groups)]
<1>3. ASSUME NEW R \in SUBSET T, R # T
      PROVE  After(G(R), groups, R)
  <2>1. R \in SUBSET S /\ R \notin C
    BY <1>2, <1>3
  <2> QED
    BY <2>1
<1>4. ASSUME NEW s \in SUBSET T, s # {}
      PROVE  LastOf(s) \in s /\ IsFiniteSet(s) /\ s \in SUBSET (Nat \X Nat)
  <2>1. IsFiniteSet(s) /\ s \in SUBSET (Nat \X Nat)
    BY FS_Subset
  <2> QED
    BY <1>4, <2>1, LastIsOne
<1> HIDE DEF G
<1>5. ASSUME NEW s \in SUBSET T, s # T
      PROVE  g[s] = G(s)[s]
  <2>1. CASE s = {}
    BY <1>3, <1>5, <2>1 DEF After
  <2>2. CASE s # {}
    <3> DEFINE r == s \ {LastOf(s)}
    <3>1. LastOf(s) \in s /\ IsFiniteSet(s) /\ s \in SUBSET (Nat \X Nat)
      BY <1>4, <2>2
    <3>2. r \in SUBSET s /\ r \in SUBSET T /\ r # T
      BY <3>1
    <3>3. G(s)[s] = JoinPair(G(s)[r], LastOf(s), groups)
      BY <1>3, <1>5, <2>2 DEF After
    <3>4. After(G(s), groups, s) /\ After(G(r), groups, r)
      BY <1>3, <1>5, <3>2
    <3>5. G(s)[r] = G(r)[r]
      <4> HIDE DEF r
      <4> QED
        BY <3>1, <3>2, <3>4, AfterUnique
    <3> QED
      BY <2>2, <3>3, <3>5
  <2> QED
    BY <2>1, <2>2
<1>6. After(g, groups, T)
  <2>1. ASSUME NEW s \in SUBSET T, s # {}
        PROVE  G(s \ {LastOf(s)})[s \ {LastOf(s)}] = g[s \ {LastOf(s)}]
    <3>1. s \ {LastOf(s)} \in SUBSET T /\ s \ {LastOf(s)} # T
      BY <1>4, <2>1
    <3> QED
      BY <1>5, <3>1
  <2> DEFINE e(s) == IF s = {} THEN id
                ELSE JoinPair(G(s \ {LastOf(s)})[s \ {LastOf(s)}], LastOf(s), groups)
             d(s) == IF s = {} THEN id
                ELSE JoinPair(g[s \ {LastOf(s)}], LastOf(s), groups)
  <2>2. \A s \in SUBSET T : e(s) = d(s)
    BY <2>1
  <2>3. [s \in SUBSET T |-> e(s)] = [s \in SUBSET T |-> d(s)]
    <3> HIDE DEF e, d
    <3> QED
      BY <2>2
  <2>4. g = [s \in SUBSET T |-> d(s)]
    BY <2>3
  <2> HIDE DEF g
  <2> QED
    BY <2>4 DEF After
<1> QED
  BY <1>2, <1>6

(* In the end every pair has been tested.                                       *)
LEMMA ParentsAreMerged ==
  ASSUME NEW groups, IsFiniteSet(DOMAIN groups), DOMAIN groups \subseteq Nat
  PROVE  Merged(groups, PairsOf(groups), ParentsOf(groups))
<1>1. IsFiniteSet(PairsOf(groups)) /\ PairsOf(groups) \in SUBSET (Nat \X Nat)
  <2>1. IsFiniteSet((DOMAIN groups) \X (DOMAIN groups))
    BY FS_Product
  <2> QED
    BY <2>1, FS_Subset DEF PairsOf
<1>2. PICK g : g = CHOOSE h : After(h, groups, PairsOf(groups))
  OBVIOUS
<1>3. After(g, groups, PairsOf(groups))
  BY <1>1, <1>2, AfterExists
<1> QED
  BY <1>1, <1>2, <1>3, ParentsAreAfter, AfterIsMerged

(*****************************************************************************)
(* The winner of a leaf.                                                     *)
(*****************************************************************************)
Leaves == {"doc", "lender", "day", "original", "balance"}

(* What a claim states of a leaf is a number or nothing.                        *)
LEMMA ClaimTypes ==
  ASSUME NEW c \in Claim, NEW leaf \in Leaves
  PROVE  c.item[leaf] \in Int /\ c.report \in Nat /\ c.place \in Nat
<1>1. c.item \in MortgageItem /\ c.report \in Reports \cup {Human} /\ c.place \in Nat
  BY DEF Claim
<1>2. c.item[leaf] \in Int
  BY <1>1 DEF MortgageItem, Leaves
<1>3. c.report \in Nat
  <2>1. Reports \subseteq Nat \ {0}
    BY ReportsAreNumbered
  <2>2. CASE c.report \in Reports
    BY <2>1, <2>2
  <2>3. CASE c.report = Human
    BY <2>3 DEF Human
  <2> QED
    BY <1>1, <2>2, <2>3
<1> QED
  BY <1>1, <1>2, <1>3

(* The score of a claim can be compared.                                        *)
LEMMA ScoreType ==
  ASSUME NEW contenders \in SUBSET Claim, IsFiniteSet(contenders), NEW c, NEW leaf
  PROVE  Score(c, contenders, leaf) \in Int
<1>1. IsFiniteSet(Agreeing(c, contenders, leaf))
  BY FS_Subset DEF Agreeing
<1>2. Cardinality(Agreeing(c, contenders, leaf)) \in Nat
  BY <1>1, FS_CardinalityType
<1>3. PICK n : n = (100 * Cardinality(Agreeing(c, contenders, leaf))) \div 3
  OBVIOUS
<1>4. n \in Int
  BY <1>2, <1>3
<1>5. IsFiniteSet({100, n}) /\ {100, n} \subseteq Int /\ {100, n} # {}
  <2>1. IsFiniteSet({100} \cup {n})
    BY FS_Singleton, FS_Union
  <2>2. {100} \cup {n} = {100, n}
    OBVIOUS
  <2> QED
    BY <1>4, <2>1, <2>2
<1>6. Min({100, n}) \in {100, n}
  BY <1>5, MaxMin
<1>7. Corroboration(c, contenders, leaf) \in Int
  BY <1>3, <1>4, <1>6 DEF Corroboration
<1>8. Rank(c) \in Int /\ Recency(c) \in Int /\ Specificity(c, leaf) \in Int
  BY DEF Rank, Recency, Specificity
<1> QED
  BY <1>7, <1>8 DEF Score

(* One contender beats the others: by score, then by liability, then by report  *)
(* and place.                                                                   *)
LEMMA SomeoneWins ==
  ASSUME NEW contenders \in SUBSET Claim, IsFiniteSet(contenders), contenders # {},
         NEW leaf \in Leaves
  PROVE  \E c \in contenders : \A d \in contenders : Beats(c, d, contenders, leaf)
<1> DEFINE liability(x) == IF leaf \in MoneyLeaves THEN x.item[leaf] ELSE 0
           sc == [x \in contenders |-> Score(x, contenders, leaf)]
           li == [x \in contenders |-> liability(x)]
           re == [x \in contenders |-> 0 - x.report]
           pl == [x \in contenders |-> 0 - x.place]
<1>1. \A x \in contenders : /\ sc[x] \in Int /\ li[x] \in Int /\ re[x] \in Int /\ pl[x] \in Int
                            /\ x.report \in Int /\ x.place \in Int
                            /\ sc[x] = Score(x, contenders, leaf) /\ li[x] = liability(x)
                            /\ re[x] = 0 - x.report /\ pl[x] = 0 - x.place
  BY ScoreType, ClaimTypes
<1> HIDE DEF sc, li, re, pl
<1>2. PICK m1 \in contenders : \A y \in contenders : sc[y] <= sc[m1]
  BY <1>1, Greatest
<1> DEFINE S1 == {x \in contenders : sc[x] = sc[m1]}
<1>3. IsFiniteSet(S1) /\ S1 # {} /\ \A x \in S1 : li[x] \in Int
  BY <1>1, FS_Subset
<1>4. PICK m2 \in S1 : \A y \in S1 : li[y] <= li[m2]
  BY <1>3, Greatest
<1> DEFINE S2 == {x \in S1 : li[x] = li[m2]}
<1>5. IsFiniteSet(S2) /\ S2 # {} /\ \A x \in S2 : re[x] \in Int
  BY <1>1, <1>3, FS_Subset
<1>6. PICK m3 \in S2 : \A y \in S2 : re[y] <= re[m3]
  BY <1>5, Greatest
<1> DEFINE S3 == {x \in S2 : re[x] = re[m3]}
<1>7. IsFiniteSet(S3) /\ S3 # {} /\ \A x \in S3 : pl[x] \in Int
  BY <1>1, <1>5, FS_Subset
<1>8. PICK c \in S3 : \A y \in S3 : pl[y] <= pl[c]
  BY <1>7, Greatest
<1>9. c \in contenders /\ sc[c] = sc[m1] /\ li[c] = li[m2] /\ re[c] = re[m3]
  BY <1>8
<1>10. ASSUME NEW d \in contenders PROVE Beats(c, d, contenders, leaf)
  <2>1. sc[d] <= sc[c]
    BY <1>2, <1>9
  <2>2. sc[d] = sc[c] => li[d] <= li[c]
    BY <1>4, <1>9
  <2>3. sc[d] = sc[c] /\ li[d] = li[c] => re[d] <= re[c]
    BY <1>6, <1>9
  <2>4. sc[d] = sc[c] /\ li[d] = li[c] /\ re[d] = re[c] => pl[d] <= pl[c]
    BY <1>8, <1>9
  <2>5. sc[d] = sc[c] /\ li[d] = li[c] => c.report <= d.report
    BY <1>1, <1>9, <2>3
  <2>6. sc[d] = sc[c] /\ li[d] = li[c] /\ c.report = d.report => c.place <= d.place
    BY <1>1, <1>9, <2>4
  <2>7. /\ sc[c] = Score(c, contenders, leaf) /\ sc[d] = Score(d, contenders, leaf)
        /\ li[c] = liability(c) /\ li[d] = liability(d)
    BY <1>1, <1>9
  <2>8. \/ sc[c] > sc[d]
        \/ sc[c] = sc[d] /\ li[c] > li[d]
        \/ sc[c] = sc[d] /\ li[c] = li[d]
             /\ \/ c.report < d.report
                \/ c.report = d.report /\ c.place < d.place
                \/ c.report = d.report /\ c.place = d.place
    <3>1. /\ sc[c] \in Int /\ sc[d] \in Int /\ li[c] \in Int /\ li[d] \in Int
          /\ c.report \in Int /\ d.report \in Int /\ c.place \in Int /\ d.place \in Int
      BY <1>1, <1>9
    <3> QED
      BY <2>1, <2>2, <2>5, <2>6, <3>1
  <2> QED
    BY <2>7, <2>8 DEF Beats
<1> QED
  BY <1>9, <1>10

(* The winner of a leaf is stated by one of its contenders.                     *)
LEMMA WinnerIsStated ==
  ASSUME NEW group \in SUBSET Claim, IsFiniteSet(group), NEW leaf \in Leaves
  PROVE  /\ IsFiniteSet(Contenders(group, leaf)) /\ Contenders(group, leaf) \subseteq group
         /\ Contenders(group, leaf) = {} => WinnerOf(group, leaf) = NotStated
         /\ Contenders(group, leaf) # {} =>
              \E c \in Contenders(group, leaf) : WinnerOf(group, leaf) = c.item[leaf]
         /\ WinnerOf(group, leaf) \in Int
<1>1. Contenders(group, leaf) \subseteq group
  BY DEF Contenders, Stated
<1>2. IsFiniteSet(Contenders(group, leaf))
  BY <1>1, FS_Subset
<1>3. CASE Contenders(group, leaf) = {}
  BY <1>1, <1>2, <1>3 DEF WinnerOf, NotStated
<1>4. CASE Contenders(group, leaf) # {}
  <2>1. PICK C : C = Contenders(group, leaf)
    OBVIOUS
  <2>2. \E c \in C : \A d \in C : Beats(c, d, C, leaf)
    BY <1>1, <1>2, <1>4, <2>1, SomeoneWins
  <2>3. PICK w \in C : w = CHOOSE c \in C : \A d \in C : Beats(c, d, C, leaf)
    BY <2>2
  <2>4. WinnerOf(group, leaf) = w.item[leaf]
    BY <1>4, <2>1, <2>3 DEF WinnerOf
  <2>5. w.item[leaf] \in Int
    BY <1>1, <2>1, ClaimTypes
  <2> QED
    BY <1>1, <1>2, <1>4, <2>1, <2>3, <2>4, <2>5
<1> QED
  BY <1>3, <1>4

(* The pairwise test does not depend on the order of the pair.                  *)
LEMMA TestIsSymmetric ==
  ASSUME NEW g \in SUBSET Claim, IsFiniteSet(g), NEW h \in SUBSET Claim, IsFiniteSet(h)
  PROVE  SameMortgage(g, h) => SameMortgage(h, g)
<1>1. /\ WinnerOf(g, "day") \in Int /\ WinnerOf(h, "day") \in Int
      /\ WinnerOf(g, "original") \in Int /\ WinnerOf(h, "original") \in Int
  BY WinnerIsStated DEF Leaves
<1>2. \A a, b \in Int : Abs(a - b) = Abs(b - a)
  BY DEF Abs
<1>3. \A a, b \in Int : Within(a, b, 1) = Within(b, a, 1)
  <2> SUFFICES ASSUME NEW a \in Int, NEW b \in Int PROVE Within(a, b, 1) = Within(b, a, 1)
    OBVIOUS
  <2>1. {Abs(a), Abs(b)} = {Abs(b), Abs(a)}
    OBVIOUS
  <2>2. Max({Abs(a), Abs(b)}) = Max({Abs(b), Abs(a)})
    BY <2>1
  <2> QED
    BY <1>2, <2>2 DEF Within
<1> QED
  BY <1>1, <1>2, <1>3 DEF SameMortgage

(*****************************************************************************)
(* The ledger.                                                               *)
(*****************************************************************************)

LedgerInv ==
    /\ claims \subseteq Claim /\ IsFiniteSet(claims)
    /\ \A c \in claims : c.report = Human => c.item.balance \in Corrections
    /\ correctionsMade \in 0..MaxCorrections

(* Claims are appended, and an operator enters only what can be entered.        *)
LEMMA LedgerInvariant == ResolutionSpec => []LedgerInv
<1>1. ResolutionInit => LedgerInv
  BY AmountsAreCounted, FS_EmptySet DEF ResolutionInit, LedgerInv
<1>2. LedgerInv /\ [ResolutionNext]_resolutionVars => LedgerInv'
  <2> SUFFICES ASSUME LedgerInv, [ResolutionNext]_resolutionVars PROVE LedgerInv'
    OBVIOUS
  <2>1. ASSUME NEW r \in Reports, NEW content \in Contents, ReportExtracted(r, content)
        PROVE  LedgerInv'
    <3>1. PICK new : new = [i \in DOMAIN content |->
                              [report |-> r, place |-> i, item |-> content[i]]]
      OBVIOUS
    <3>2. claims' = claims \cup {new[i] : i \in DOMAIN content}
      BY <2>1, <3>1 DEF ReportExtracted
    <3>3. content \in Seq(MortgageItem)
      BY ContentsAreItems
    <3>4. DOMAIN content = 1..Len(content) /\ Len(content) \in Nat
          /\ \A i \in DOMAIN content : content[i] \in MortgageItem
      BY <3>3
    <3>5. IsFiniteSet({new[i] : i \in DOMAIN content})
      <4>1. IsFiniteSet(DOMAIN content)
        BY <3>4, FS_Interval
      <4> QED
        BY <4>1, ValuesAreFinite
    <3>6. IsFiniteSet(claims')
      BY <3>2, <3>5, FS_Union DEF LedgerInv
    <3>7. \A i \in DOMAIN content : new[i] \in Claim /\ new[i].report # Human
      BY <3>1, <3>4, ReportsAreNumbered DEF Claim, Human
    <3> QED
      BY <2>1, <3>2, <3>6, <3>7 DEF LedgerInv, ReportExtracted
  <2>2. ASSUME NEW place \in {c.place : c \in claims}, NEW balance \in Corrections,
               CorrectBalance(place, balance)
        PROVE  LedgerInv'
    <3>1. PICK new : new = [report |-> Human, place |-> place,
              item |-> [doc |-> NotStated, lender |-> NotStated, day |-> NotStated,
                        original |-> NotStated, balance |-> balance,
                        recent |-> TRUE, ranged |-> FALSE]]
      OBVIOUS
    <3>2. claims' = claims \cup {new}
      BY <2>2, <3>1 DEF CorrectBalance
    <3>3. place \in Nat
      BY ClaimTypes DEF LedgerInv, Claim
    <3>4. new.item \in MortgageItem
      BY <3>1, AmountsAreCounted DEF MortgageItem, NotStated
    <3>5. new \in Claim /\ new.item.balance \in Corrections
      BY <3>1, <3>3, <3>4 DEF Claim
    <3>6. IsFiniteSet(claims')
      BY <3>2, FS_Singleton, FS_Union DEF LedgerInv
    <3>7. correctionsMade' \in 0..MaxCorrections
      BY <2>2, AmountsAreCounted DEF CorrectBalance, LedgerInv
    <3> QED
      BY <3>2, <3>5, <3>6, <3>7 DEF LedgerInv
  <2>3. CASE UNCHANGED resolutionVars
    BY <2>3 DEF LedgerInv, resolutionVars
  <2> QED
    BY <2>1, <2>2, <2>3 DEF ResolutionNext
<1> QED
  BY <1>1, <1>2, PTL DEF ResolutionSpec

(* Groups of the ledger: finite, one for each place.                            *)
LEMMA GroupsOfPlaces ==
  ASSUME LedgerInv, NEW groups, groups = GroupsByPlace(claims)
  PROVE  /\ IsFiniteSet(DOMAIN groups) /\ DOMAIN groups \subseteq Nat
         /\ \A p \in DOMAIN groups : /\ groups[p] \in SUBSET Claim /\ IsFiniteSet(groups[p])
                                     /\ groups[p] = {c \in claims : c.place = p}
         /\ \A c \in claims : c.place \in DOMAIN groups
<1>1. DOMAIN groups = {c.place : c \in claims}
  BY DEF GroupsByPlace
<1>2. \A c \in claims : c \in Claim /\ c.place \in Nat
  BY ClaimTypes DEF LedgerInv, Claim
<1>3. IsFiniteSet({c.place : c \in claims})
  <2>1. PICK f : f = [c \in claims |-> c.place]
    OBVIOUS
  <2>2. {c.place : c \in claims} = {f[c] : c \in claims}
    BY <2>1
  <2> QED
    BY <2>2, ValuesAreFinite DEF LedgerInv
<1>4. ASSUME NEW p \in DOMAIN groups
      PROVE  /\ groups[p] \in SUBSET Claim /\ IsFiniteSet(groups[p])
             /\ groups[p] = {c \in claims : c.place = p}
  <2>1. groups[p] = {c \in claims : c.place = p}
    BY <1>1, <1>4 DEF GroupsByPlace
  <2>2. groups[p] \subseteq claims
    BY <2>1
  <2> QED
    BY <2>1, <2>2, FS_Subset DEF LedgerInv
<1> QED
  BY <1>1, <1>2, <1>3, <1>4

(* Where the groups end up: each class of one root is a component, and each     *)
(* component is such a class.                                                   *)
LEMMA ClassesAreComponents ==
  ASSUME NEW groups, IsFiniteSet(DOMAIN groups), DOMAIN groups \subseteq Nat,
         \A p \in DOMAIN groups : groups[p] \in SUBSET Claim /\ IsFiniteSet(groups[p])
  PROVE  \E rep \in [DOMAIN groups -> DOMAIN groups] :
           /\ \A k \in DOMAIN groups : RootIn(ParentsOf(groups), k) = rep[k]
           /\ Components(groups)
                = {{k \in DOMAIN groups : rep[k] = r} : r \in {rep[k] : k \in DOMAIN groups}}
<1> DEFINE P == DOMAIN groups
           ps == ParentsOf(groups)
<1>1. PICK rep :
      /\ Follows(ps, rep, P)
      /\ \A p \in PairsOf(groups) :
            SameMortgage(groups[p[1]], groups[p[2]]) => rep[p[1]] = rep[p[2]]
      /\ \A D \in SUBSET P : Connected(groups, D) => \A k \in P : k \in D <=> rep[k] \in D
  BY ParentsAreMerged DEF Merged
<1>2. rep \in [P -> P]
  BY <1>1 DEF Follows
<1>3. \A k \in P : RootIn(ps, k) = rep[k]
  BY <1>1, RootIsRep
<1> DEFINE class(r) == {k \in P : rep[k] = r}
<1>4. ASSUME NEW i \in P, NEW j \in P,
             SameMortgage(groups[i], groups[j]) \/ SameMortgage(groups[j], groups[i])
      PROVE  rep[i] = rep[j]
  <2>1. SameMortgage(groups[i], groups[j]) /\ SameMortgage(groups[j], groups[i])
    BY <1>4, TestIsSymmetric
  <2>2. i \in Nat /\ j \in Nat
    OBVIOUS
  <2>3. CASE i < j
    <3>1. <<i, j>> \in PairsOf(groups)
      BY <2>3 DEF PairsOf
    <3> QED
      BY <1>1, <2>1, <3>1
  <2>4. CASE j < i
    <3>1. <<j, i>> \in PairsOf(groups)
      BY <2>4 DEF PairsOf
    <3> QED
      BY <1>1, <2>1, <3>1
  <2>5. CASE i = j
    BY <2>5
  <2> QED
    BY <2>2, <2>3, <2>4, <2>5
<1>5. \A r : Connected(groups, class(r))
  BY <1>4 DEF Connected
<1>6. ASSUME NEW k \in P PROVE class(rep[k]) \in Components(groups)
  <2>1. class(rep[k]) \in (SUBSET P) \ {{}}
    OBVIOUS
  <2>2. ASSUME NEW E \in (SUBSET class(rep[k])) \ {{}}, Connected(groups, E)
        PROVE  E = class(rep[k])
    <3>1. PICK e \in E : TRUE
      BY <2>2
    <3>2. \A m \in P : m \in E <=> rep[m] \in E
      BY <1>1, <2>2
    <3>3. rep[e] = rep[k] /\ e \in P
      BY <2>2
    <3>4. rep[k] \in E
      BY <3>1, <3>2, <3>3
    <3> QED
      BY <2>2, <3>2, <3>4
  <2> HIDE DEF class
  <2> QED
    BY <1>5, <2>1, <2>2 DEF Components
<1>7. ASSUME NEW D \in Components(groups)
      PROVE  \E k \in P : D = class(rep[k])
  <2>1. D \in SUBSET P /\ D # {} /\ Connected(groups, D)
        /\ \A E \in (SUBSET D) \ {{}} : Connected(groups, E) => E = D
    BY DEF Components
  <2>2. PICK k \in D : TRUE
    BY <2>1
  <2>3. \A m \in P : m \in D <=> rep[m] \in D
    BY <1>1, <2>1
  <2>4. k \in P /\ k \in class(rep[k])
    BY <2>1
  <2>5. class(rep[k]) \subseteq D
    BY <2>3, <2>4
  <2>6. class(rep[k]) = D
    <3> HIDE DEF class
    <3> QED
      BY <1>5, <2>1, <2>4, <2>5
  <2> QED
    BY <2>4, <2>6
<1>8. Components(groups) = {class(r) : r \in {rep[k] : k \in P}}
  <2> HIDE DEF class
  <2> QED
    BY <1>6, <1>7
<1> QED
  BY <1>2, <1>3, <1>8

(* The union-find merges what the pairwise test connects and nothing else       *)
(* (normalization/resolver.py _merge_groups).                                   *)
LEMMA MortgagesAreComponents ==
  ASSUME LedgerInv
  PROVE  /\ MergeIsClosure
         /\ UNION Mortgages = claims
         /\ \A g, h \in Mortgages : g = h \/ g \cap h = {}
         /\ \A g \in Mortgages : g \subseteq claims
<1>1. PICK groups : groups = GroupsByPlace(claims)
  OBVIOUS
<1> DEFINE P == DOMAIN groups
<1>2. /\ IsFiniteSet(P) /\ P \subseteq Nat
      /\ \A p \in P : groups[p] \in SUBSET Claim /\ IsFiniteSet(groups[p])
      /\ \A p \in P : groups[p] = {c \in claims : c.place = p}
      /\ \A c \in claims : c.place \in P
  BY <1>1, GroupsOfPlaces
<1>3. PICK rep \in [P -> P] :
      /\ \A k \in P : RootIn(ParentsOf(groups), k) = rep[k]
      /\ Components(groups) = {{k \in P : rep[k] = r} : r \in {rep[k] : k \in P}}
  BY <1>2, ClassesAreComponents
<1> DEFINE class(r) == {k \in P : rep[k] = r}
           whole(D) == UNION {groups[j] : j \in D}
<1>4. Mortgages = {whole(class(r)) : r \in {rep[k] : k \in P}}
  <2>1. \A r : {k \in P : RootIn(ParentsOf(groups), k) = r} = class(r)
    BY <1>3
  <2>2. {RootIn(ParentsOf(groups), k) : k \in P} = {rep[k] : k \in P}
    BY <1>3
  <2>3. Mortgages = {whole({k \in P : RootIn(ParentsOf(groups), k) = r}) :
                       r \in {RootIn(ParentsOf(groups), k) : k \in P}}
    BY <1>1 DEF Mortgages, MortgagesOf, MergeGroups
  <2> HIDE DEF whole, class
  <2> QED
    BY <2>1, <2>2, <2>3
<1>5. Mortgages = {whole(D) : D \in Components(groups)}
  <2>1. Components(groups) = {class(r) : r \in {rep[k] : k \in P}}
    BY <1>3
  <2> HIDE DEF whole, class
  <2> QED
    BY <1>4, <2>1
<1>6. MergeIsClosure
  BY <1>1, <1>5 DEF MergeIsClosure
<1>7. \A r, c : c \in whole(class(r)) <=> c \in claims /\ rep[c.place] = r
  BY <1>2
<1>8. ASSUME NEW c \in claims PROVE c \in UNION Mortgages
  <2>1. c.place \in P /\ c \in whole(class(rep[c.place]))
    BY <1>2, <1>7
  <2> HIDE DEF whole, class
  <2> QED
    BY <1>4, <2>1
<1> HIDE DEF whole, class
<1>9. UNION Mortgages = claims /\ \A g \in Mortgages : g \subseteq claims
  BY <1>4, <1>7, <1>8
<1>10. \A g, h \in Mortgages : g = h \/ g \cap h = {}
  BY <1>4, <1>7
<1> QED
  BY <1>6, <1>9, <1>10

(* Every claim is in one mortgage of the record and in no other.                *)
LEMMA ResolutionTyped == ResolutionSpec => []ResolutionTypeOK
<1>1. LedgerInv => ResolutionTypeOK
  BY MortgagesAreComponents DEF LedgerInv, ResolutionTypeOK
<1> QED
  BY <1>1, LedgerInvariant, PTL

(*****************************************************************************)
(* The balances.                                                             *)
(*****************************************************************************)
LEMMA BalanceIsShown ==
  ASSUME LedgerInv, NEW group \in SUBSET claims, NEW c \in Stated(group, "balance"),
         {d.item.balance : d \in {x \in group : x.report = Human}} = {}
  PROVE  LET shown == WinnerOf(group, "balance")
         IN  \/ InConflict(group)
             \/ shown >= c.item.balance - Tolerance
             \/ 20 * (c.item.balance - shown) <= c.item.balance
<1> DEFINE contenders == Contenders(group, "balance")
           shown == WinnerOf(group, "balance")
           balances == StatedBalances(group)
<1>1. group \in SUBSET Claim /\ IsFiniteSet(group) /\ "balance" \in Leaves
  BY FS_Subset DEF LedgerInv, Leaves
<1>2. c \in contenders
  BY DEF Contenders, Stated
<1>3. /\ IsFiniteSet(contenders) /\ contenders \subseteq group
      /\ \E w \in contenders : shown = w.item["balance"]
  BY <1>1, <1>2, WinnerIsStated
<1>4. \A d \in contenders : d.item["balance"] \in Int /\ d.item["balance"] = d.item.balance
  BY <1>1, <1>3, ClaimTypes
<1>5. /\ balances = {d.item.balance : d \in contenders}
      /\ shown \in balances /\ c.item.balance \in balances
  BY <1>2, <1>3, <1>4 DEF StatedBalances
<1>6. IsFiniteSet(balances) /\ balances \subseteq Int /\ balances # {}
  <2>1. PICK f : f = [d \in contenders |-> d.item.balance]
    OBVIOUS
  <2>2. balances = {f[d] : d \in contenders}
    BY <1>5, <2>1
  <2>3. IsFiniteSet(balances)
    BY <1>3, <2>2, ValuesAreFinite
  <2> QED
    BY <1>4, <1>5, <2>3
<1>7. /\ Max(balances) \in Int /\ Min(balances) \in Int
      /\ shown \in Int /\ c.item.balance \in Int
      /\ Min(balances) <= shown /\ c.item.balance <= Max(balances)
  BY <1>5, <1>6, MaxMin
<1> HIDE DEF shown, balances, contenders
<1>8. PICK M, m, s, b : /\ M = Max(balances) /\ m = Min(balances) /\ s = shown
                        /\ b = c.item.balance
  OBVIOUS
<1>9. CASE M - m <= Tolerance
  BY <1>7, <1>8, <1>9, AmountsAreCounted DEF shown
<1>10. CASE 20 * (M - m) <= M
  <2>1. 20 * (b - s) <= b
    BY <1>7, <1>8, <1>10
  <2> QED
    BY <1>8, <2>1 DEF shown
<1>11. CASE M - m > Tolerance /\ 20 * (M - m) > M
  BY <1>5, <1>8, <1>11 DEF InConflict, balances
<1> QED
  BY <1>7, <1>8, <1>9, <1>10, <1>11, AmountsAreCounted

(* What an operator entered is what is shown.                                   *)
LEMMA CorrectionIsShown ==
  ASSUME LedgerInv, NEW group \in SUBSET claims,
         {d.item.balance : d \in {x \in group : x.report = Human}} # {}
  PROVE  WinnerOf(group, "balance") \in {d.item.balance : d \in {x \in group : x.report = Human}}
<1>1. group \in SUBSET Claim /\ IsFiniteSet(group) /\ "balance" \in Leaves
  BY FS_Subset DEF LedgerInv, Leaves
<1>2. PICK d \in group : d.report = Human
  OBVIOUS
<1>3. d.item.balance # NotStated
  BY <1>2, AmountsAreCounted DEF LedgerInv, NotStated
<1>4. Contenders(group, "balance") = {x \in Stated(group, "balance") : x.report = Human}
      /\ d \in Contenders(group, "balance")
  BY <1>2, <1>3 DEF Contenders, Stated
<1>5. \E x \in Contenders(group, "balance") : WinnerOf(group, "balance") = x.item["balance"]
  BY <1>1, <1>4, WinnerIsStated
<1> QED
  BY <1>4, <1>5 DEF Stated

(* A stated balance never disappears from the record without a trace            *)
(* (normalization/resolver.py _pick_winner, _money_conflict, _build_mortgage).  *)
LEMMA DebtIsKept == ASSUME LedgerInv PROVE DebtNeverDropsUnflagged
<1> SUFFICES ASSUME NEW group \in Mortgages, NEW c \in Stated(group, "balance")
             PROVE  LET shown == WinnerOf(group, "balance")
                        entered == {d.item.balance : d \in {x \in group : x.report = Human}}
                    IN  IF entered # {} THEN shown \in entered
                        ELSE \/ InConflict(group)
                             \/ shown >= c.item.balance - Tolerance
                             \/ 20 * (c.item.balance - shown) <= c.item.balance
  BY DEF DebtNeverDropsUnflagged
<1>1. group \in SUBSET claims
  BY MortgagesAreComponents
<1> QED
  BY <1>1, BalanceIsShown, CorrectionIsShown

(*****************************************************************************)
(* The engines, for any positions, amounts and bids: what is owed of a       *)
(* position, of a record, and what one more fact does to it.                 *)
(*****************************************************************************)

(* An amount is known and not negative, or not known.                           *)
LEMMA KnownOrNot ==
  ASSUME NEW S \in SUBSET Nat, NEW amount \in S \cup {Unknown}
  PROVE  amount \in Int /\ -1 <= amount /\ (amount # Unknown => amount \in Nat)
<1>1. CASE amount = Unknown
  BY <1>1 DEF Unknown
<1>2. CASE amount \in Nat
  BY <1>2 DEF Unknown
<1> QED
  BY <1>1, <1>2

(* The amounts of a mortgage, and its balance.                                  *)
LEMMA MortgageAmounts ==
  ASSUME NEW m \in Mortgage
  PROVE  /\ m.position \in Positions /\ m.heloc \in BOOLEAN
         /\ m.reported \in Int /\ m.original \in Int /\ -1 <= m.original
         /\ Balance(m) \in Int /\ -1 <= Balance(m)
         /\ Balance(m) # Unknown => Balance(m) \in Nat
<1>1. /\ m.position \in Positions /\ m.heloc \in BOOLEAN
      /\ m.reported \in Balances \cup {Unknown, Negative}
      /\ m.original \in Principals \cup {Unknown} /\ m.amortized \in Balances \cup {Unknown}
  BY DEF Mortgage
<1>2. Balances \subseteq Nat /\ Principals \subseteq Nat
  BY AmountsAreOwed
<1>3. m.reported \in Int /\ m.original \in Int /\ -1 <= m.original
  <2>1. m.original \in Int /\ -1 <= m.original
    BY <1>1, <1>2, KnownOrNot
  <2>2. m.reported \in Nat \cup {-1, -2}
    BY <1>1, <1>2 DEF Unknown, Negative
  <2> QED
    BY <2>1, <2>2
<1>4. Balance(m) \in Balances \cup {Unknown}
  <2>1. CASE m.reported \in Balances
    BY <2>1 DEF Balance, Unknown
  <2>2. CASE m.reported \notin Balances /\ m.reported = Unknown /\ ~m.heloc
    BY <1>1, <2>2 DEF Balance
  <2>3. CASE m.reported \notin Balances /\ ~(m.reported = Unknown /\ ~m.heloc)
    BY <2>3 DEF Balance
  <2> QED
    BY <2>1, <2>2, <2>3
<1>5. PICK balance : balance = Balance(m)
  OBVIOUS
<1>6. balance \in Int /\ -1 <= balance /\ (balance # Unknown => balance \in Nat)
  BY <1>2, <1>4, <1>5, KnownOrNot
<1> QED
  BY <1>1, <1>3, <1>5, <1>6

(* The balance of the strategies is an amount, and at most that of the engine   *)
(* where both have one.                                                         *)
LEMMA BalanceOfToday ==
  ASSUME NEW m \in Mortgage
  PROVE  /\ BalanceNow(m) \in Nat \cup {Unknown}
         /\ Balance(m) # Unknown /\ BalanceNow(m) # Unknown => BalanceNow(m) <= Balance(m)
<1>1. /\ m.heloc \in BOOLEAN /\ m.reported \in Balances \cup {Unknown, Negative}
      /\ m.amortized \in Balances \cup {Unknown} /\ m.today \in Balances \cup {Unknown}
      /\ m.amortized # Unknown => m.today <= m.amortized
      /\ Balances \subseteq Nat
  BY AmountsAreOwed DEF Mortgage
<1>2. CASE m.reported \in Balances
  <2>1. Balance(m) = m.reported
    BY <1>2 DEF Balance, Unknown
  <2>2. BalanceNow(m) = m.reported
    BY <1>2 DEF BalanceNow
  <2>3. m.reported \in Nat
    BY <1>1, <1>2
  <2> QED
    BY <2>1, <2>2, <2>3
<1>3. CASE m.reported \notin Balances /\ ~m.heloc
  <2>1. BalanceNow(m) = m.today
    BY <1>3 DEF BalanceNow
  <2>2. Balance(m) \in {Unknown, m.amortized}
    <3>1. CASE m.reported = Unknown
      BY <1>3, <3>1 DEF Balance
    <3>2. CASE m.reported # Unknown
      BY <1>3, <3>2 DEF Balance
    <3> QED
      BY <3>1, <3>2
  <2>3. m.today \in Nat \cup {Unknown}
    BY <1>1
  <2>4. CASE Balance(m) = Unknown
    BY <2>1, <2>3, <2>4
  <2>5. CASE Balance(m) = m.amortized /\ m.amortized # Unknown
    <3>1. m.today <= m.amortized
      BY <1>1, <2>5
    <3> QED
      BY <2>1, <2>3, <2>5, <3>1
  <2> QED
    BY <2>2, <2>4, <2>5
<1>4. CASE m.reported \notin Balances /\ m.heloc
  <2>1. BalanceNow(m) = Unknown
    BY <1>4 DEF BalanceNow
  <2> QED
    BY <2>1
<1> QED
  BY <1>1, <1>2, <1>3, <1>4

(* A lien without an amount counts as its type is assumed to.                   *)
LEMMA LienIsAmount ==
  ASSUME NEW lien \in Lien
  PROVE  /\ LienAmount(lien) \in Nat /\ lien.amount \in Int
         /\ lien.amount # Unknown => lien.amount \in Nat /\ LienAmount(lien) = lien.amount
<1>1. lien.type \in LienTypes /\ lien.amount \in LienAmounts \cup {Unknown}
  BY DEF Lien
<1>2. LienAmounts \subseteq Nat /\ Median[lien.type] \in Nat
  BY <1>1, AmountsAreOwed, MediansAreKnown
<1>3. lien.amount \in Int /\ (lien.amount # Unknown => lien.amount \in Nat)
  BY <1>1, <1>2, KnownOrNot
<1> QED
  BY <1>2, <1>3 DEF LienAmount

(* A record lists finitely many mortgages.                                      *)
LEMMA PlacesAreFinite ==
  ASSUME NEW S, NEW s \in Seq(S)
  PROVE  /\ IsFiniteSet(DOMAIN s) /\ DOMAIN s \subseteq Int /\ DOMAIN s = 1..Len(s)
         /\ \A i \in DOMAIN s : s[i] \in S
<1>1. DOMAIN s = 1..Len(s) /\ Len(s) \in Nat
  OBVIOUS
<1>2. IsFiniteSet(1..Len(s))
  BY <1>1, FS_Interval
<1> QED
  BY <1>1, <1>2

(* The balances at a position are finitely many amounts.                        *)
LEMMA BalancesAreCounted ==
  ASSUME NEW ms \in Seq(Mortgage), NEW position
  PROVE  /\ IsFiniteSet(OpenAt(ms, position)) /\ OpenAt(ms, position) \subseteq DOMAIN ms
         /\ IsFiniteSet(Evaluated(ms, position)) /\ Evaluated(ms, position) \subseteq DOMAIN ms
         /\ IsFiniteSet(BalancesAt(ms, position)) /\ BalancesAt(ms, position) \subseteq Nat
         /\ BalancesAt(ms, position) = {} <=> Evaluated(ms, position) = {}
<1>1. OpenAt(ms, position) \subseteq DOMAIN ms /\ Evaluated(ms, position) \subseteq DOMAIN ms
  BY DEF OpenAt, Evaluated
<1>2. IsFiniteSet(OpenAt(ms, position)) /\ IsFiniteSet(Evaluated(ms, position))
  BY <1>1, PlacesAreFinite, FS_Subset
<1>3. PICK g : g = [i \in DOMAIN ms |-> Balance(ms[i])]
  OBVIOUS
<1>4. BalancesAt(ms, position) = {g[i] : i \in Evaluated(ms, position)}
  BY <1>1, <1>3 DEF BalancesAt
<1>5. IsFiniteSet(BalancesAt(ms, position))
  BY <1>2, <1>4, ValuesAreFinite
<1>6. \A i \in Evaluated(ms, position) : Balance(ms[i]) \in Nat
  <2> TAKE i \in Evaluated(ms, position)
  <2>1. ms[i] \in Mortgage /\ Balance(ms[i]) # Unknown
    BY <1>1, PlacesAreFinite DEF Evaluated
  <2> QED
    BY <2>1, MortgageAmounts
<1>7. BalancesAt(ms, position) \subseteq Nat
  BY <1>6 DEF BalancesAt
<1>8. BalancesAt(ms, position) = {} <=> Evaluated(ms, position) = {}
  BY DEF BalancesAt
<1> QED
  BY <1>1, <1>2, <1>5, <1>7, <1>8

(* The mortgage kept is one of the position, and none has a higher balance.     *)
LEMMA HighestIsChosen ==
  ASSUME NEW ms \in Seq(Mortgage), NEW position, Evaluated(ms, position) # {}
  PROVE  /\ \E i \in Evaluated(ms, position) : Chosen(ms, position) = ms[i]
         /\ Chosen(ms, position) \in Mortgage
         /\ Balance(Chosen(ms, position)) \in BalancesAt(ms, position)
         /\ Balance(Chosen(ms, position)) \in Nat
         /\ \A balance \in BalancesAt(ms, position) :
               balance <= Balance(Chosen(ms, position))
<1>1. PICK best : best = Max(BalancesAt(ms, position))
  OBVIOUS
<1>2. best \in BalancesAt(ms, position) /\ best \in Nat
      /\ \A balance \in BalancesAt(ms, position) : balance <= best
  <2>1. IsFiniteSet(BalancesAt(ms, position)) /\ BalancesAt(ms, position) # {}
        /\ BalancesAt(ms, position) \subseteq Int /\ BalancesAt(ms, position) \subseteq Nat
    BY BalancesAreCounted
  <2> QED
    BY <1>1, <2>1, MaxMin
<1> DEFINE with == {i \in Evaluated(ms, position) : Balance(ms[i]) = best}
<1>3. IsFiniteSet(with) /\ with # {} /\ with \subseteq Int
  <2>1. IsFiniteSet(Evaluated(ms, position)) /\ Evaluated(ms, position) \subseteq DOMAIN ms
    BY BalancesAreCounted
  <2>2. DOMAIN ms \subseteq Int
    BY PlacesAreFinite
  <2>3. with # {}
    BY <1>2 DEF BalancesAt
  <2> QED
    BY <2>1, <2>2, <2>3, FS_Subset
<1>4. Min(with) \in with
  <2> HIDE DEF with
  <2> QED
    BY <1>3, MaxMin
<1>5. Chosen(ms, position) = ms[Min(with)]
  BY <1>1 DEF Chosen, FirstWith
<1>6. Min(with) \in Evaluated(ms, position) /\ Balance(ms[Min(with)]) = best
  BY <1>4
<1>7. ms[Min(with)] \in Mortgage
  BY <1>6, PlacesAreFinite, BalancesAreCounted
<1> QED
  BY <1>2, <1>5, <1>6, <1>7

(* The capacity counted at a position is the limit of a HELOC there, or nothing. *)
LEMMA CapacityIsALimit ==
  ASSUME NEW ms \in Seq(Mortgage), NEW position
  PROVE  /\ UnknownCapacity(ms, position) \in Nat
         /\ \/ UnknownCapacity(ms, position) = 0
            \/ \E i \in DOMAIN ms : /\ ms[i].heloc /\ Balance(ms[i]) = Unknown
                                   /\ UnknownCapacity(ms, position) = ms[i].original
<1> DEFINE limits == {i \in OpenAt(ms, position) : ms[i].heloc /\ Balance(ms[i]) = Unknown}
<1>1. PICK g : g = [i \in DOMAIN ms |-> ms[i].original]
  OBVIOUS
<1>2. PICK all : all = {0} \cup {ms[i].original : i \in limits}
  OBVIOUS
<1>3. limits \subseteq DOMAIN ms /\ IsFiniteSet(limits)
  BY BalancesAreCounted, FS_Subset
<1>4. {ms[i].original : i \in limits} = {g[i] : i \in limits}
  BY <1>1, <1>3
<1>5. IsFiniteSet({g[i] : i \in limits})
  <2> HIDE DEF limits
  <2> QED
    BY <1>3, ValuesAreFinite
<1>6. IsFiniteSet(all)
  BY <1>2, <1>4, <1>5, FS_Singleton, FS_Union
<1>7. all \subseteq Int /\ 0 \in all
  <2>1. \A i \in limits : ms[i].original \in Int
    BY <1>3, PlacesAreFinite, MortgageAmounts
  <2> HIDE DEF limits
  <2> QED
    BY <1>2, <2>1
<1>8. Max(all) \in Int /\ Max(all) \in all /\ 0 <= Max(all)
  BY <1>6, <1>7, MaxMin
<1>9. UnknownCapacity(ms, position) = Max(all)
  BY <1>2 DEF UnknownCapacity
<1>10. Max(all) = 0 \/ \E i \in limits : Max(all) = ms[i].original
  BY <1>2, <1>8
<1>11. \A i \in limits : i \in DOMAIN ms /\ ms[i].heloc /\ Balance(ms[i]) = Unknown
  BY <1>3
<1> HIDE DEF limits
<1> QED
  BY <1>8, <1>9, <1>10, <1>11

(* The bid that can be published.                                               *)
Published == Bids \cup {Unknown}

(* The share of a position is an amount, and without a bid it is the highest    *)
(* balance there, or nothing.                                                   *)
LEMMA SharesAreAmounts ==
  ASSUME NEW ms \in Seq(Mortgage), NEW position, NEW published \in Published
  PROVE  /\ PositionDebt(ms, position, published).confirmed \in Nat
         /\ PositionDebt(ms, position, published).potential \in Nat
         /\ UnknownCapacity(ms, position) \in Nat
<1>1. UnknownCapacity(ms, position) \in Nat
  BY CapacityIsALimit
<1>2. CASE Evaluated(ms, position) = {}
  BY <1>1, <1>2 DEF PositionDebt
<1>3. CASE Evaluated(ms, position) # {}
  <2>1. PICK chosen : chosen = Chosen(ms, position)
    OBVIOUS
  <2>2. PICK balance : balance = IF published # Unknown /\ position = "1" THEN published
                                 ELSE Balance(chosen)
    OBVIOUS
  <2>3. balance \in Nat /\ chosen.original \in Int
    <3>1. Balance(chosen) \in Nat /\ chosen \in Mortgage
      BY <1>3, <2>1, HighestIsChosen
    <3>2. published # Unknown => published \in Nat
      BY AmountsAreOwed DEF Published
    <3> QED
      BY <2>2, <3>1, <3>2, MortgageAmounts
  <2>4. PICK rest : rest = chosen.original - balance
    OBVIOUS
  <2>5. Max({0, rest}) \in Nat
    <3>1. rest \in Int
      BY <2>3, <2>4
    <3>2. PICK two : two = {0, rest}
      OBVIOUS
    <3>3. two = {0} \cup {rest}
      BY <3>2
    <3>4. IsFiniteSet(two)
      BY <3>3, FS_Singleton, FS_Union
    <3>5. two \subseteq Int /\ 0 \in two
      BY <3>1, <3>2
    <3>6. Max(two) \in Int /\ 0 <= Max(two)
      BY <3>4, <3>5, MaxMin
    <3> QED
      BY <3>2, <3>6
  <2>6. PositionDebt(ms, position, published)
          = [confirmed |-> balance,
             potential |-> IF chosen.heloc THEN Max({0, rest}) ELSE UnknownCapacity(ms, position)]
    BY <1>3, <2>1, <2>2, <2>4 DEF PositionDebt
  <2> QED
    BY <1>1, <2>3, <2>5, <2>6
<1> QED
  BY <1>1, <1>2, <1>3

(* Without a bid, what is confirmed of a position is its highest balance.       *)
LEMMA ShareIsHighest ==
  ASSUME NEW ms \in Seq(Mortgage), NEW position, NEW published, 
         published = Unknown \/ position # "1"
  PROVE  /\ Evaluated(ms, position) = {} =>
              PositionDebt(ms, position, published).confirmed = 0
         /\ Evaluated(ms, position) # {} =>
              /\ PositionDebt(ms, position, published).confirmed \in BalancesAt(ms, position)
              /\ \A balance \in BalancesAt(ms, position) :
                   balance <= PositionDebt(ms, position, published).confirmed
<1>1. CASE Evaluated(ms, position) = {}
  BY <1>1 DEF PositionDebt
<1>2. CASE Evaluated(ms, position) # {}
  <2>1. PositionDebt(ms, position, published).confirmed = Balance(Chosen(ms, position))
    BY <1>2 DEF PositionDebt
  <2> QED
    BY <1>2, <2>1, HighestIsChosen
<1> QED
  BY <1>1, <1>2

(* Liens, as a sequence or as what is left of one.                              *)
LienList(ls) == IsFiniteSet(DOMAIN ls) /\ \A i \in DOMAIN ls : ls[i] \in Lien

(* What liens add to each sum is an amount.                                     *)
LEMMA LienShares ==
  ASSUME NEW ls, LienList(ls)
  PROVE  /\ \A i \in DOMAIN ls : /\ LiensConfirmed(ls)[i] \in Nat
                                 /\ LiensPotential(ls)[i] \in Nat
         /\ DOMAIN LiensConfirmed(ls) = DOMAIN ls /\ DOMAIN LiensPotential(ls) = DOMAIN ls
         /\ SumFunction(LiensConfirmed(ls)) \in Nat /\ SumFunction(LiensPotential(ls)) \in Nat
<1>1. DOMAIN LiensConfirmed(ls) = DOMAIN ls /\ DOMAIN LiensPotential(ls) = DOMAIN ls
  BY DEF LiensConfirmed, LiensPotential
<1>2. \A i \in DOMAIN ls : LiensConfirmed(ls)[i] \in Nat /\ LiensPotential(ls)[i] \in Nat
  BY LienIsAmount DEF LiensConfirmed, LiensPotential, LienList
<1> QED
  BY <1>1, <1>2, SumOfAmounts DEF LienList, SumFunction

(* The confirmed and the potential debt are amounts.                            *)
LEMMA DebtIsAnAmount ==
  ASSUME NEW ms \in Seq(Mortgage), NEW ls, LienList(ls), NEW published \in Published,
         NEW due, due["taxes"] \in Nat, due["hoa"] \in Nat
  PROVE  /\ SumFunction(ConfirmedAt(ms, published)) \in Nat
         /\ BidAlone(ms, published) \in Nat
         /\ Confirmed(ms, ls, published, due) \in Nat
         /\ Potential(ms, ls, published) \in Nat
<1>1. /\ DOMAIN ConfirmedAt(ms, published) = Positions
      /\ DOMAIN PotentialAt(ms, published) = Positions
      /\ \A position \in Positions : /\ ConfirmedAt(ms, published)[position] \in Nat
                                     /\ PotentialAt(ms, published)[position] \in Nat
  BY SharesAreAmounts DEF ConfirmedAt, PotentialAt
<1>2. /\ SumFunction(ConfirmedAt(ms, published)) \in Nat
      /\ SumFunction(PotentialAt(ms, published)) \in Nat
  BY <1>1, PositionsAreFinite, SumOfAmounts DEF SumFunction
<1>3. BidAlone(ms, published) \in Nat
  BY AmountsAreOwed DEF BidAlone, Published
<1>4. SumFunction(LiensConfirmed(ls)) \in Nat /\ SumFunction(LiensPotential(ls)) \in Nat
  BY LienShares
<1>5. Confirmed(ms, ls, published, due) \in Nat
  BY <1>2, <1>3, <1>4 DEF Confirmed
<1>6. Potential(ms, ls, published) \in Nat
  BY <1>2, <1>4 DEF Potential
<1> QED
  BY <1>2, <1>3, <1>5, <1>6

(* One more mortgage never lowers what is owed of a position.                   *)
LEMMA MortgagesOnlyAdd ==
  ASSUME NEW ms \in Seq(Mortgage), NEW m \in Mortgage
  PROVE  SumFunction(ConfirmedAt(ms, Unknown)) <= SumFunction(ConfirmedAt(Append(ms, m), Unknown))
<1>1. PICK more : more = Append(ms, m)
  OBVIOUS
<1>2. /\ more \in Seq(Mortgage) /\ DOMAIN ms \subseteq DOMAIN more
      /\ \A i \in DOMAIN ms : more[i] = ms[i]
  BY <1>1
<1>3. \A position : BalancesAt(ms, position) \subseteq BalancesAt(more, position)
  BY <1>2 DEF BalancesAt, Evaluated, OpenAt
<1>4. Unknown \in Published
  BY DEF Published
<1>5. \A position \in Positions :
        /\ PositionDebt(ms, position, Unknown).confirmed \in Int
        /\ PositionDebt(more, position, Unknown).confirmed \in Int
        /\ PositionDebt(ms, position, Unknown).confirmed
              <= PositionDebt(more, position, Unknown).confirmed
  <2> TAKE position \in Positions
  <2>1. PositionDebt(ms, position, Unknown).confirmed \in Nat
        /\ PositionDebt(more, position, Unknown).confirmed \in Nat
    BY <1>2, <1>4, SharesAreAmounts
  <2>2. CASE Evaluated(ms, position) = {}
    <3>1. PositionDebt(ms, position, Unknown).confirmed = 0
      BY <2>2, ShareIsHighest
    <3> QED
      BY <2>1, <3>1
  <2>3. CASE Evaluated(ms, position) # {}
    <3>1. PositionDebt(ms, position, Unknown).confirmed \in BalancesAt(more, position)
      BY <1>3, <2>3, ShareIsHighest
    <3>2. Evaluated(more, position) # {}
      BY <1>2, <3>1, BalancesAreCounted
    <3> QED
      BY <1>2, <2>1, <3>1, <3>2, ShareIsHighest
  <2> QED
    BY <2>2, <2>3
<1>6. SumFunction(ConfirmedAt(ms, Unknown)) <= SumFunction(ConfirmedAt(more, Unknown))
  <2>1. DOMAIN ConfirmedAt(ms, Unknown) = Positions /\ DOMAIN ConfirmedAt(more, Unknown) = Positions
    BY DEF ConfirmedAt
  <2>2. \A position \in Positions :
          /\ ConfirmedAt(ms, Unknown)[position] \in Int
          /\ ConfirmedAt(more, Unknown)[position] \in Int
          /\ ConfirmedAt(ms, Unknown)[position] <= ConfirmedAt(more, Unknown)[position]
    BY <1>5 DEF ConfirmedAt
  <2> QED
    BY <2>1, <2>2, PositionsAreFinite, SumMonotone DEF SumFunction
<1> QED
  BY <1>1, <1>6

(* Nor does one more lien.                                                      *)
LEMMA LiensOnlyAdd ==
  ASSUME NEW ls \in Seq(Lien), NEW lien \in Lien
  PROVE  SumFunction(LiensConfirmed(ls)) <= SumFunction(LiensConfirmed(Append(ls, lien)))
<1>1. PICK more : more = Append(ls, lien)
  OBVIOUS
<1>2. PICK last : last = Len(ls) + 1
  OBVIOUS
<1>3. /\ more \in Seq(Lien) /\ DOMAIN more = (DOMAIN ls) \cup {last}
      /\ last \notin DOMAIN ls
      /\ \A i \in DOMAIN ls : more[i] = ls[i]
  BY <1>1, <1>2
<1>4. LienList(ls) /\ LienList(more)
  BY <1>3, PlacesAreFinite DEF LienList
<1> DEFINE f == LiensConfirmed(ls)
           g == LiensConfirmed(more)
<1>5. \A i \in DOMAIN ls : f[i] = g[i]
  BY <1>3 DEF LiensConfirmed
<1>6. /\ DOMAIN f = DOMAIN ls /\ DOMAIN g = (DOMAIN ls) \cup {last}
      /\ SumFunction(f) \in Nat
      /\ \A i \in (DOMAIN ls) \cup {last} : g[i] \in Nat
      /\ IsFiniteSet(DOMAIN ls) /\ IsFiniteSet((DOMAIN ls) \cup {last})
  BY <1>3, <1>4, LienShares DEF LienList
<1> HIDE DEF f, g
<1>7. SumFunctionOnSet(g, (DOMAIN ls) \cup {last}) = SumFunctionOnSet(g, DOMAIN ls) + g[last]
  BY <1>3, <1>6, SumAdd
<1>8. SumFunctionOnSet(f, DOMAIN ls) = SumFunctionOnSet(g, DOMAIN ls)
  BY <1>5, <1>6, SumSame
<1>9. SumFunction(g) = SumFunction(f) + g[last]
  BY <1>6, <1>7, <1>8 DEF SumFunction
<1>10. g[last] \in Nat
  BY <1>6
<1>11. SumFunction(f) <= SumFunction(g)
  BY <1>6, <1>9, <1>10
<1> QED
  BY <1>1, <1>11 DEF f, g

(* The types, which every report of a fact keeps.                               *)
UnderwritingTypes ==
    /\ mortgages \in Seq(Mortgage) /\ liens \in Seq(Lien) /\ candidates \in Seq(Candidate)
    /\ bid \in Published
    /\ arrears \in [{"taxes", "hoa"} -> Arrears \cup {0}]
    /\ compRange \in (Values \cup {Unknown}) \X (Values \cup {Unknown})
    /\ repairBase \in RepairBases \cup {Unknown}
    /\ dispersion \in Dispersions \cup {SingleDispersion}

(* Every step keeps the types.                                                  *)
LEMMA UnderwritingStaysTyped ==
  ASSUME UnderwritingTypes, [UnderwritingNext]_underwritingVars
  PROVE  UnderwritingTypes'
<1>1. ASSUME NEW m \in Mortgage, ReportMortgage(m)
      PROVE  UnderwritingTypes'
  BY <1>1 DEF UnderwritingTypes, ReportMortgage
<1>2. ASSUME NEW lien \in Lien, ReportLien(lien)
      PROVE  UnderwritingTypes'
  BY <1>2 DEF UnderwritingTypes, ReportLien
<1>3. ASSUME NEW amount \in Bids, PublishBid(amount)
      PROVE  UnderwritingTypes'
  BY <1>3 DEF UnderwritingTypes, PublishBid, Published
<1>4. ASSUME NEW kind \in DOMAIN arrears, NEW amount \in Arrears, ReportArrears(kind, amount)
      PROVE  UnderwritingTypes'
  BY <1>4 DEF UnderwritingTypes, ReportArrears
<1>5. ASSUME NEW base \in RepairBases, ReportSize(base)
      PROVE  UnderwritingTypes'
  BY <1>5 DEF UnderwritingTypes, ReportSize
<1>6. ASSUME NEW candidate \in Candidate, ReportValue(candidate)
      PROVE  UnderwritingTypes'
  BY <1>6 DEF UnderwritingTypes, ReportValue
<1>7. ASSUME NEW low \in Values \ {0}, NEW high \in Values \ {0}, ReportComparables(low, high)
      PROVE  UnderwritingTypes'
  BY <1>7 DEF UnderwritingTypes, ReportComparables
<1>8. CASE UNCHANGED underwritingVars
  BY <1>8 DEF UnderwritingTypes, underwritingVars
<1> QED
  BY <1>1, <1>2, <1>3, <1>4, <1>5, <1>6, <1>7, <1>8 DEF UnderwritingNext

(* They hold of a record without facts.                                         *)
LEMMA UnderwritingStartsTyped == UnderwritingInit => UnderwritingTypes
BY DEF UnderwritingInit, UnderwritingTypes, Published

(* Arrears are amounts, and the liens of a record can be counted.               *)
LEMMA ArrearsAreAmounts ==
  ASSUME NEW due \in [{"taxes", "hoa"} -> Arrears \cup {0}], NEW ls \in Seq(Lien)
  PROVE  due["taxes"] \in Nat /\ due["hoa"] \in Nat /\ LienList(ls)
<1>1. due["taxes"] \in Arrears \cup {0} /\ due["hoa"] \in Arrears \cup {0}
  OBVIOUS
<1>2. LienList(ls)
  BY PlacesAreFinite DEF LienList
<1> QED
  BY <1>1, <1>2, AmountsAreOwed

(* Without a bid the confirmed debt is what the positions, the arrears and the  *)
(* recorded liens come to.                                                      *)
LEMMA DebtWithoutBid ==
  ASSUME NEW ms \in Seq(Mortgage), NEW ls, LienList(ls),
         NEW due, due["taxes"] \in Nat, due["hoa"] \in Nat
  PROVE  /\ Confirmed(ms, ls, Unknown, due)
              = SumFunction(ConfirmedAt(ms, Unknown)) + due["taxes"] + due["hoa"]
                  + SumFunction(LiensConfirmed(ls))
         /\ SumFunction(ConfirmedAt(ms, Unknown)) \in Nat
         /\ SumFunction(LiensConfirmed(ls)) \in Nat
<1>1. BidAlone(ms, Unknown) = 0
  BY DEF BidAlone
<1>2. SumFunction(ConfirmedAt(ms, Unknown)) \in Nat
  <2>1. Unknown \in Published
    BY DEF Published
  <2> QED
    BY <2>1, DebtIsAnAmount
<1>3. SumFunction(LiensConfirmed(ls)) \in Nat
  BY LienShares
<1> QED
  BY <1>1, <1>2, <1>3 DEF Confirmed

(* Every figure of the record has its type, and the debt is an amount.          *)
LEMMA UnderwritingIsTyped == UnderwritingTypes => UnderwritingTypeOK
<1> SUFFICES ASSUME UnderwritingTypes PROVE UnderwritingTypeOK
  OBVIOUS
<1>1. /\ Confirmed(mortgages, liens, bid, arrears) \in Nat
      /\ Potential(mortgages, liens, bid) \in Nat
  BY ArrearsAreAmounts, DebtIsAnAmount DEF UnderwritingTypes
<1>2. /\ Confirmed(mortgages, liens, bid, arrears) >= 0
      /\ Potential(mortgages, liens, bid) >= 0
  BY <1>1
<1> QED
  BY <1>2 DEF UnderwritingTypes, UnderwritingTypeOK, Published

(* One step of the record, while no bid is published.                           *)
DebtGrowsNow ==
    bid' = Unknown => Confirmed(mortgages, liens, bid, arrears)
                        <= Confirmed(mortgages', liens', bid', arrears')

(* One step never lowers what is confirmed without a bid.                       *)
LEMMA DebtGrows ==
  ASSUME UnderwritingTypes, [UnderwritingNext]_underwritingVars
  PROVE  DebtGrowsNow
<1> SUFFICES ASSUME bid' = Unknown
             PROVE  Confirmed(mortgages, liens, bid, arrears)
                      <= Confirmed(mortgages', liens', bid', arrears')
  BY DEF DebtGrowsNow
<1>1. UnderwritingTypes'
  BY UnderwritingStaysTyped
<1>2. bid = Unknown
  <2>1. ASSUME NEW amount \in Bids, PublishBid(amount) PROVE FALSE
    <3>1. amount \in Nat /\ amount = Unknown
      BY <2>1, AmountsAreOwed DEF PublishBid
    <3> QED
      BY <3>1 DEF Unknown
  <2>2. UNCHANGED bid \/ \E amount \in Bids : PublishBid(amount)
    BY DEF UnderwritingNext, ReportMortgage, ReportLien, ReportArrears, ReportSize, ReportValue,
           ReportComparables, underwritingVars
  <2> QED
    BY <2>1, <2>2
<1>3. \/ UNCHANGED mortgages
      \/ \E m \in Mortgage : mortgages' = Append(mortgages, m)
  BY DEF UnderwritingNext, ReportMortgage, ReportLien, PublishBid, ReportArrears, ReportSize,
         ReportValue, ReportComparables, underwritingVars
<1>4. \/ UNCHANGED liens
      \/ \E lien \in Lien : liens' = Append(liens, lien)
  BY DEF UnderwritingNext, ReportMortgage, ReportLien, PublishBid, ReportArrears, ReportSize,
         ReportValue, ReportComparables, underwritingVars
<1>5. \/ UNCHANGED arrears
      \/ \E kind \in {"taxes", "hoa"}, amount \in Arrears :
           arrears[kind] = 0 /\ arrears' = [arrears EXCEPT ![kind] = amount]
  BY DEF UnderwritingTypes, UnderwritingNext, ReportMortgage, ReportLien, PublishBid,
         ReportArrears, ReportSize, ReportValue, ReportComparables, underwritingVars
<1>6. /\ mortgages \in Seq(Mortgage) /\ LienList(liens) /\ liens \in Seq(Lien)
      /\ arrears["taxes"] \in Nat /\ arrears["hoa"] \in Nat
      /\ mortgages' \in Seq(Mortgage) /\ LienList(liens')
      /\ arrears'["taxes"] \in Nat /\ arrears'["hoa"] \in Nat
  BY <1>1, ArrearsAreAmounts DEF UnderwritingTypes
<1>7. SumFunction(ConfirmedAt(mortgages, Unknown)) <= SumFunction(ConfirmedAt(mortgages', Unknown))
  <2>1. CASE UNCHANGED mortgages
    BY <1>6, <2>1, DebtWithoutBid
  <2>2. ASSUME NEW m \in Mortgage, mortgages' = Append(mortgages, m)
        PROVE  SumFunction(ConfirmedAt(mortgages, Unknown))
                 <= SumFunction(ConfirmedAt(mortgages', Unknown))
    BY <1>6, <2>2, MortgagesOnlyAdd
  <2> QED
    BY <1>3, <2>1, <2>2
<1>8. SumFunction(LiensConfirmed(liens)) <= SumFunction(LiensConfirmed(liens'))
  <2>1. CASE UNCHANGED liens
    BY <1>6, <2>1, LienShares
  <2>2. ASSUME NEW lien \in Lien, liens' = Append(liens, lien)
        PROVE  SumFunction(LiensConfirmed(liens)) <= SumFunction(LiensConfirmed(liens'))
    BY <1>6, <2>2, LiensOnlyAdd
  <2> QED
    BY <1>4, <2>1, <2>2
<1>9. arrears["taxes"] <= arrears'["taxes"] /\ arrears["hoa"] <= arrears'["hoa"]
  <2>1. CASE UNCHANGED arrears
    BY <1>6, <2>1
  <2>2. ASSUME NEW kind \in {"taxes", "hoa"}, NEW amount \in Arrears,
               arrears[kind] = 0, arrears' = [arrears EXCEPT ![kind] = amount]
        PROVE  arrears["taxes"] <= arrears'["taxes"] /\ arrears["hoa"] <= arrears'["hoa"]
    <3>1. DOMAIN arrears = {"taxes", "hoa"}
      BY DEF UnderwritingTypes
    <3>2. \A k \in {"taxes", "hoa"} : k # kind => arrears'[k] = arrears[k]
      BY <2>2, <3>1
    <3>3. \A k \in {"taxes", "hoa"} : arrears[k] \in Nat /\ arrears'[k] \in Nat
      BY <1>6
    <3>4. \A k \in {"taxes", "hoa"} : arrears[k] <= arrears'[k]
      BY <2>2, <3>2, <3>3
    <3> QED
      BY <3>4
  <2> QED
    BY <1>5, <2>1, <2>2
<1>10. /\ Confirmed(mortgages, liens, Unknown, arrears)
            = SumFunction(ConfirmedAt(mortgages, Unknown)) + arrears["taxes"] + arrears["hoa"]
                + SumFunction(LiensConfirmed(liens))
       /\ SumFunction(ConfirmedAt(mortgages, Unknown)) \in Nat
       /\ SumFunction(LiensConfirmed(liens)) \in Nat
  BY <1>6, DebtWithoutBid
<1>11. /\ Confirmed(mortgages', liens', Unknown, arrears')
            = SumFunction(ConfirmedAt(mortgages', Unknown)) + arrears'["taxes"] + arrears'["hoa"]
                + SumFunction(LiensConfirmed(liens'))
       /\ SumFunction(ConfirmedAt(mortgages', Unknown)) \in Nat
       /\ SumFunction(LiensConfirmed(liens')) \in Nat
  BY <1>6, DebtWithoutBid
<1>12. Confirmed(mortgages, liens, Unknown, arrears)
         <= Confirmed(mortgages', liens', Unknown, arrears')
  <2>1. \A a, b, c, d, e, f, g, h \in Nat :
          a <= e /\ b <= f /\ c <= g /\ d <= h => a + b + c + d <= e + f + g + h
    OBVIOUS
  <2>2. SumFunction(ConfirmedAt(mortgages, Unknown)) + arrears["taxes"] + arrears["hoa"]
            + SumFunction(LiensConfirmed(liens))
          <= SumFunction(ConfirmedAt(mortgages', Unknown)) + arrears'["taxes"] + arrears'["hoa"]
               + SumFunction(LiensConfirmed(liens'))
    BY <1>6, <1>7, <1>8, <1>9, <1>10, <1>11, <2>1
  <2> QED
    BY <1>10, <1>11, <2>2
<1> QED
  BY <1>2, <1>12

(* Every figure of a record has its type, whatever it holds.                    *)
THEOREM UnderwritingTyped == UnderwritingSpec => []UnderwritingTypeOK
<1>1. UnderwritingTypes /\ [UnderwritingNext]_underwritingVars => UnderwritingTypes'
  BY UnderwritingStaysTyped
<1> QED
  BY <1>1, UnderwritingStartsTyped, UnderwritingIsTyped, PTL DEF UnderwritingSpec

(* A fact that is added never makes the confirmed debt of a record smaller as   *)
(* long as no bid is published (finance/engine.py _liabilities).                *)
THEOREM DebtGrowsOnly == UnderwritingSpec => DebtOnlyGrows
<1>1. UnderwritingTypes /\ [UnderwritingNext]_underwritingVars => UnderwritingTypes'
  BY UnderwritingStaysTyped
<1>2. UnderwritingTypes /\ [UnderwritingNext]_underwritingVars
        => [DebtGrowsNow]_underwritingVars
  BY DebtGrows
<1>3. UnderwritingSpec => [][DebtGrowsNow]_underwritingVars
  BY <1>1, <1>2, UnderwritingStartsTyped, PTL DEF UnderwritingSpec
<1> QED
  BY <1>3 DEF DebtOnlyGrows, DebtGrowsNow

(* Liens that are not recorded add nothing to the confirmed debt.               *)
LEMMA OnlyRecordedLiensCount ==
  ASSUME UnderwritingTypes
  PROVE  OwnerLiensNeverConfirmed
<1> DEFINE recorded == {i \in DOMAIN liens : liens[i].basis = Recorded}
           left == Restrict(liens, recorded)
           f == LiensConfirmed(liens)
           g == LiensConfirmed(left)
<1>1. LienList(liens) /\ IsFiniteSet(DOMAIN liens) /\ IsFiniteSet(recorded)
  BY ArrearsAreAmounts, FS_Subset DEF UnderwritingTypes, LienList
<1>2. DOMAIN left = recorded /\ \A i \in recorded : left[i] = liens[i]
  BY DEF Restrict
<1>3. /\ DOMAIN f = DOMAIN liens /\ DOMAIN g = recorded
      /\ \A i \in recorded : g[i] = f[i]
      /\ \A i \in (DOMAIN liens) \ recorded : f[i] = 0
  BY <1>2 DEF LiensConfirmed, LienIsPotential
<1>4. \A i \in DOMAIN liens : f[i] \in Int
  BY <1>1, LienShares
<1>5. SumFunctionOnSet(g, recorded) = SumFunctionOnSet(f, recorded)
  <2> HIDE DEF f, g, recorded, left
  <2> QED
    BY <1>1, <1>3, SumSame
<1>6. SumFunctionOnSet(f, recorded) = SumFunctionOnSet(f, DOMAIN liens)
  <2>1. recorded \in SUBSET DOMAIN liens
    OBVIOUS
  <2> HIDE DEF f, g, recorded, left
  <2> QED
    BY <1>1, <1>3, <1>4, <2>1, SumPart
<1>7. SumFunction(LiensConfirmed(liens)) = SumFunction(LiensConfirmed(Restrict(liens, recorded)))
  <2> HIDE DEF f, g, recorded
  <2>1. SumFunction(f) = SumFunction(g)
    BY <1>3, <1>5, <1>6 DEF SumFunction
  <2> QED
    BY <2>1 DEF f, g
<1> HIDE DEF recorded, left, f, g
<1>8. Confirmed(mortgages, liens, bid, arrears)
        = Confirmed(mortgages, Restrict(liens, recorded), bid, arrears)
  BY <1>7 DEF Confirmed
<1> QED
  BY <1>8 DEF OwnerLiensNeverConfirmed, recorded

(* Without debt data there is no debt but the arrears.                          *)
LEMMA NothingIsSummedSilently ==
  ASSUME UnderwritingTypes
  PROVE  NoDebtSilently
<1> SUFFICES ASSUME ~HasDebtData(mortgages, liens, bid)
             PROVE  /\ Confirmed(mortgages, liens, bid, arrears) = arrears["taxes"] + arrears["hoa"]
                    /\ Potential(mortgages, liens, bid) = 0
  BY DEF NoDebtSilently
<1>1. /\ bid = Unknown
      /\ \A i \in DOMAIN mortgages : /\ Balance(mortgages[i]) = Unknown
                                     /\ ~(mortgages[i].heloc /\ mortgages[i].original > 0)
      /\ \A i \in DOMAIN liens : liens[i].amount = Unknown /\ ~(Median[liens[i].type] > 0)
  BY DEF HasDebtData
<1>2. /\ mortgages \in Seq(Mortgage) /\ LienList(liens)
      /\ arrears["taxes"] \in Nat /\ arrears["hoa"] \in Nat
  BY ArrearsAreAmounts DEF UnderwritingTypes
<1>3. \A position \in Positions :
        /\ PositionDebt(mortgages, position, bid).confirmed = 0
        /\ PositionDebt(mortgages, position, bid).potential = 0
  <2> TAKE position \in Positions
  <2>1. Evaluated(mortgages, position) = {}
    BY <1>1 DEF Evaluated, OpenAt
  <2>2. UnknownCapacity(mortgages, position) = 0
    <3>1. UnknownCapacity(mortgages, position) \in Nat
      BY <1>2, CapacityIsALimit
    <3>2. ASSUME NEW i \in DOMAIN mortgages, mortgages[i].heloc,
                 UnknownCapacity(mortgages, position) = mortgages[i].original
          PROVE  UnknownCapacity(mortgages, position) = 0
      BY <1>1, <3>1, <3>2
    <3> QED
      BY <1>2, <3>2, CapacityIsALimit
  <2> QED
    BY <2>1, <2>2 DEF PositionDebt
<1>4. /\ SumFunction(ConfirmedAt(mortgages, bid)) = 0
      /\ SumFunction(PotentialAt(mortgages, bid)) = 0
  <2>1. /\ DOMAIN ConfirmedAt(mortgages, bid) = Positions
        /\ DOMAIN PotentialAt(mortgages, bid) = Positions
        /\ \A position \in Positions : /\ ConfirmedAt(mortgages, bid)[position] = 0
                                       /\ PotentialAt(mortgages, bid)[position] = 0
    BY <1>3 DEF ConfirmedAt, PotentialAt
  <2> QED
    BY <2>1, PositionsAreFinite, SumZero DEF SumFunction
<1>5. \A i \in DOMAIN liens : LienAmount(liens[i]) = 0
  <2> TAKE i \in DOMAIN liens
  <2>1. LienAmount(liens[i]) \in Nat
    BY <1>2, LienIsAmount DEF LienList
  <2>2. LienAmount(liens[i]) = Median[liens[i].type] /\ ~(Median[liens[i].type] > 0)
    BY <1>1 DEF LienAmount
  <2> QED
    BY <2>1, <2>2
<1>6. /\ SumFunction(LiensConfirmed(liens)) = 0
      /\ SumFunction(LiensPotential(liens)) = 0
  <2>1. /\ DOMAIN LiensConfirmed(liens) = DOMAIN liens /\ DOMAIN LiensPotential(liens) = DOMAIN liens
        /\ \A i \in DOMAIN liens : LiensConfirmed(liens)[i] = 0 /\ LiensPotential(liens)[i] = 0
    BY <1>5 DEF LiensConfirmed, LiensPotential
  <2>2. IsFiniteSet(DOMAIN liens)
    BY <1>2 DEF LienList
  <2> QED
    BY <2>1, <2>2, SumZero DEF SumFunction
<1>7. BidAlone(mortgages, bid) = 0
  BY <1>1 DEF BidAlone
<1>8. Confirmed(mortgages, liens, bid, arrears) = 0 + 0 + arrears["taxes"] + arrears["hoa"] + 0
  BY <1>4, <1>6, <1>7 DEF Confirmed
<1>9. Potential(mortgages, liens, bid) = 0 + 0
  BY <1>4, <1>6 DEF Potential
<1> QED
  BY <1>2, <1>8, <1>9

(* A bid changes what is due of the first position and nothing else.           *)
LEMMA BidTakesOnePlace ==
  ASSUME NEW ms \in Seq(Mortgage), NEW published \in Bids
  PROVE  /\ Evaluated(ms, "1") = {} =>
              SumFunction(ConfirmedAt(ms, published)) = SumFunction(ConfirmedAt(ms, Unknown))
         /\ Evaluated(ms, "1") # {} =>
              \E best \in BalancesAt(ms, "1") :
                SumFunction(ConfirmedAt(ms, published))
                  = SumFunction(ConfirmedAt(ms, Unknown)) - best + published
<1> DEFINE f == ConfirmedAt(ms, Unknown)
           g == ConfirmedAt(ms, published)
<1>1. /\ DOMAIN f = Positions /\ DOMAIN g = Positions
      /\ \A position \in Positions :
            /\ f[position] = PositionDebt(ms, position, Unknown).confirmed
            /\ g[position] = PositionDebt(ms, position, published).confirmed
  BY DEF ConfirmedAt
<1>2. \A position \in Positions : f[position] \in Int /\ g[position] \in Int
  <2>1. Unknown \in Published /\ published \in Published
    BY DEF Published
  <2> QED
    BY <1>1, <2>1, SharesAreAmounts
<1>3. \A position \in Positions \ {"1"} : g[position] = f[position]
  BY <1>1 DEF PositionDebt
<1> HIDE DEF f, g
<1>4. CASE Evaluated(ms, "1") = {}
  <2>1. \A position \in Positions : g[position] = f[position]
    BY <1>1, <1>3, <1>4 DEF PositionDebt
  <2>2. SumFunction(g) = SumFunction(f)
    BY <1>1, <2>1, PositionsAreFinite, SumSame DEF SumFunction
  <2> QED
    BY <1>4, <2>2 DEF f, g
<1>5. CASE Evaluated(ms, "1") # {}
  <2>1. "1" \in Positions
    <3>1. PICK i \in Evaluated(ms, "1") : TRUE
      BY <1>5
    <3>2. i \in DOMAIN ms /\ ms[i].position = "1"
      BY DEF Evaluated, OpenAt
    <3> QED
      BY <3>2, PlacesAreFinite, MortgageAmounts
  <2>2. published \in Nat /\ published # Unknown
    BY AmountsAreOwed DEF Unknown
  <2>3. g["1"] = published
    BY <1>1, <1>5, <2>1, <2>2 DEF PositionDebt
  <2>4. f["1"] \in BalancesAt(ms, "1")
    BY <1>1, <1>5, <2>1, ShareIsHighest
  <2>5. SumFunction(g) = SumFunction(f) - f["1"] + g["1"]
    BY <1>1, <1>2, <1>3, <2>1, PositionsAreFinite, SumUpdate DEF SumFunction
  <2> QED
    BY <1>5, <2>3, <2>4, <2>5 DEF f, g
<1> QED
  BY <1>4, <1>5

(* A bid that takes a fifth of itself or more off the debt is flagged.          *)
LEMMA BidDropIsSeen ==
  ASSUME UnderwritingTypes
  PROVE  BidDropIsFlagged
<1> SUFFICES ASSUME bid > 0, ~BidMismatch(mortgages, bid),
                    \A balance, other \in BalancesAt(mortgages, "1") : balance = other
             PROVE  5 * (Confirmed(mortgages, liens, Unknown, arrears)
                          - Confirmed(mortgages, liens, bid, arrears)) <= bid
  BY DEF BidDropIsFlagged
<1>1. /\ mortgages \in Seq(Mortgage) /\ LienList(liens)
      /\ arrears["taxes"] \in Nat /\ arrears["hoa"] \in Nat /\ bid \in Published
  BY ArrearsAreAmounts DEF UnderwritingTypes
<1>2. bid \in Bids /\ bid \in Nat /\ bid # Unknown /\ bid \in Int
  <2>1. bid # Unknown
    BY DEF Unknown
  <2> QED
    BY <1>1, <2>1, AmountsAreOwed DEF Published
<1> DEFINE with == SumFunction(ConfirmedAt(mortgages, bid))
           without == SumFunction(ConfirmedAt(mortgages, Unknown))
           rest == arrears["taxes"] + arrears["hoa"] + SumFunction(LiensConfirmed(liens))
<1>3. /\ with \in Nat /\ without \in Nat /\ rest \in Nat /\ BidAlone(mortgages, bid) \in Nat
      /\ Confirmed(mortgages, liens, Unknown, arrears) = without + rest
      /\ Confirmed(mortgages, liens, bid, arrears) = with + BidAlone(mortgages, bid) + rest
  <2>1. with \in Nat /\ BidAlone(mortgages, bid) \in Nat
    BY <1>1, DebtIsAnAmount
  <2>2. /\ Confirmed(mortgages, liens, Unknown, arrears)
              = without + arrears["taxes"] + arrears["hoa"] + SumFunction(LiensConfirmed(liens))
        /\ without \in Nat /\ SumFunction(LiensConfirmed(liens)) \in Nat
    BY <1>1, DebtWithoutBid
  <2>3. Confirmed(mortgages, liens, bid, arrears)
          = with + BidAlone(mortgages, bid) + arrears["taxes"] + arrears["hoa"]
              + SumFunction(LiensConfirmed(liens))
    BY DEF Confirmed
  <2>4. PICK t : t = arrears["taxes"]
    OBVIOUS
  <2>5. PICK h : h = arrears["hoa"]
    OBVIOUS
  <2>6. PICK l : l = SumFunction(LiensConfirmed(liens))
    OBVIOUS
  <2>7. t \in Nat /\ h \in Nat /\ l \in Nat /\ rest = t + h + l
    BY <1>1, <2>2, <2>4, <2>5, <2>6
  <2>8. Confirmed(mortgages, liens, Unknown, arrears) = without + t + h + l
    BY <2>2, <2>4, <2>5, <2>6
  <2>9. Confirmed(mortgages, liens, bid, arrears) = with + BidAlone(mortgages, bid) + t + h + l
    BY <2>3, <2>4, <2>5, <2>6
  <2>10. with \in Nat /\ without \in Nat
    BY <2>1, <2>2
  <2> HIDE DEF with, without, rest
  <2> QED
    BY <2>1, <2>7, <2>8, <2>9, <2>10
<1> HIDE DEF with, without, rest
<1>4. PICK alone : alone = BidAlone(mortgages, bid)
  OBVIOUS
<1>5. CASE Evaluated(mortgages, "1") = {}
  <2>1. with = without
    BY <1>1, <1>2, <1>5, BidTakesOnePlace DEF with, without
  <2>2. \A w, a, r, b \in Nat : 5 * ((w + r) - (w + a + r)) <= b
    OBVIOUS
  <2> QED
    BY <1>2, <1>3, <2>1, <2>2
<1>6. CASE Evaluated(mortgages, "1") # {}
  <2>1. PICK best \in BalancesAt(mortgages, "1") : with = without - best + bid
    BY <1>1, <1>2, <1>6, BidTakesOnePlace DEF with, without
  <2>2. best \in Nat
    BY <1>1, BalancesAreCounted
  <2>3. FirstMortgageBalance(mortgages) = best
    <3>1. Min(Evaluated(mortgages, "1")) \in Evaluated(mortgages, "1")
      <4>1. IsFiniteSet(Evaluated(mortgages, "1")) /\ Evaluated(mortgages, "1") \subseteq Int
        BY <1>1, BalancesAreCounted, PlacesAreFinite
      <4> QED
        BY <1>6, <4>1, MaxMin
    <3>2. FirstMortgageBalance(mortgages) \in BalancesAt(mortgages, "1")
      BY <1>6, <3>1 DEF FirstMortgageBalance, BalancesAt
    <3> QED
      BY <3>2
  <2>4. 5 * (best - bid) <= bid
    <3>1. best # Unknown
      BY <2>2 DEF Unknown
    <3>2. PICK gap : gap = IF bid > best THEN bid - best ELSE best - bid
      OBVIOUS
    <3>3. ~(5 * gap > bid)
      BY <2>3, <3>1, <3>2 DEF BidMismatch
    <3> QED
      BY <1>2, <2>2, <3>2, <3>3
  <2>5. \A w, a, r, b, t \in Nat : 5 * (t - b) <= b =>
          5 * ((w + r) - ((w - t + b) + a + r)) <= b
    OBVIOUS
  <2> QED
    BY <1>2, <1>3, <2>1, <2>2, <2>4, <2>5
<1> QED
  BY <1>5, <1>6

(* The first mortgage of the strategies is an open one.                         *)
LEMMA FirstMortgageIsOpen ==
  ASSUME UnderwritingTypes, OpenAt(mortgages, "1") # {}
  PROVE  \E i \in OpenAt(mortgages, "1") : FirstMortgageOf(mortgages) = mortgages[i]
<1> DEFINE reported == [i \in DOMAIN mortgages |->
                          IF mortgages[i].reported = Unknown THEN 0 ELSE mortgages[i].reported]
<1>1. PICK open : open = OpenAt(mortgages, "1")
  OBVIOUS
<1>2. mortgages \in Seq(Mortgage)
  BY DEF UnderwritingTypes
<1>3. IsFiniteSet(open) /\ open \subseteq DOMAIN mortgages /\ open # {}
      /\ open \subseteq Int
  BY <1>1, <1>2, BalancesAreCounted, PlacesAreFinite
<1>4. PICK all : all = {reported[i] : i \in open}
  OBVIOUS
<1>5. IsFiniteSet(all)
  <2> HIDE DEF reported
  <2> QED
    BY <1>3, <1>4, ValuesAreFinite
<1>6. all \subseteq Int /\ all # {}
  <2>1. \A i \in open : reported[i] \in Int
    BY <1>2, <1>3, PlacesAreFinite, MortgageAmounts
  <2> QED
    BY <1>3, <1>4, <2>1
<1>7. PICK best : best = Max(all)
  OBVIOUS
<1>8. best \in all
  BY <1>5, <1>6, <1>7, MaxMin
<1>9. PICK with : with = {i \in open : reported[i] = best}
  OBVIOUS
<1>10. IsFiniteSet(with) /\ with # {} /\ with \subseteq Int /\ with \subseteq open
  BY <1>3, <1>4, <1>8, <1>9, FS_Subset
<1>11. Min(with) \in open
  BY <1>10, MaxMin
<1>12. {IF mortgages[i].reported = Unknown THEN 0 ELSE mortgages[i].reported : i \in open} = all
  BY <1>3, <1>4
<1>13. {i \in open : (IF mortgages[i].reported = Unknown THEN 0 ELSE mortgages[i].reported) = best}
         = with
  BY <1>3, <1>9
<1>14. FirstMortgageOf(mortgages) = mortgages[Min(with)]
  BY <1>1, <1>7, <1>12, <1>13 DEF FirstMortgageOf
<1> QED
  BY <1>1, <1>11, <1>14

(* What the strategies alone can value at a position is an amount.              *)
LEMMA BeyondIsHighest ==
  ASSUME UnderwritingTypes
  PROVE  /\ DOMAIN BeyondAt = Positions
         /\ \A position \in Positions :
               /\ BeyondAt[position] \in Nat
               /\ \A balance \in OnlyNow(position) : balance <= BeyondAt[position]
<1>1. mortgages \in Seq(Mortgage)
  BY DEF UnderwritingTypes
<1>2. ASSUME NEW position \in Positions
      PROVE  /\ BeyondAt[position] \in Nat
             /\ \A balance \in OnlyNow(position) : balance <= BeyondAt[position]
  <2> DEFINE g == [i \in DOMAIN mortgages |-> BalanceNow(mortgages[i])]
             places == {j \in OpenAt(mortgages, position) :
                          Balance(mortgages[j]) = Unknown /\ BalanceNow(mortgages[j]) # Unknown}
             all == {0} \cup OnlyNow(position)
  <2>1. IsFiniteSet(places) /\ places \subseteq DOMAIN mortgages
    BY <1>1, BalancesAreCounted, FS_Subset
  <2>2. OnlyNow(position) = {g[i] : i \in places}
    BY <2>1 DEF OnlyNow
  <2>3. IsFiniteSet(OnlyNow(position))
    <3> HIDE DEF g, places
    <3> QED
      BY <2>1, <2>2, ValuesAreFinite
  <2>4. \A i \in places : BalanceNow(mortgages[i]) \in Nat
    <3> TAKE i \in places
    <3>1. mortgages[i] \in Mortgage /\ BalanceNow(mortgages[i]) # Unknown
      BY <1>1, <2>1, PlacesAreFinite
    <3> QED
      BY <3>1, BalanceOfToday
  <2>5. OnlyNow(position) \subseteq Nat
    BY <2>4 DEF OnlyNow
  <2>6. IsFiniteSet(all) /\ all \subseteq Nat /\ all \subseteq Int /\ all # {}
    <3>1. IsFiniteSet({0})
      BY FS_Singleton
    <3>2. IsFiniteSet(all)
      BY <2>3, <3>1, FS_Union
    <3>3. all \subseteq Nat
      BY <2>5
    <3> HIDE DEF all
    <3>4. all \subseteq Int
      BY <3>3
    <3>5. 0 \in all
      BY DEF all
    <3> QED
      BY <3>2, <3>3, <3>4, <3>5
  <2>7. BeyondAt[position] = Max(all)
    BY DEF BeyondAt
  <2>9. OnlyNow(position) \subseteq all
    OBVIOUS
  <2> HIDE DEF all
  <2>8. Max(all) \in all /\ \A balance \in all : balance <= Max(all)
    BY <2>6, MaxMin
  <2> QED
    BY <2>6, <2>7, <2>8, <2>9
<1> QED
  BY <1>2 DEF BeyondAt

(* A balance the strategies count at a position is at most the highest of the   *)
(* engine there, or beyond what the engine can value.                           *)
LEMMA NowIsCovered ==
  ASSUME UnderwritingTypes, NEW position \in Positions,
         NEW i \in OpenAt(mortgages, position), BalanceNow(mortgages[i]) # Unknown,
         NEW share \in Nat, \A balance \in BalancesAt(mortgages, position) : balance <= share
  PROVE  /\ BalanceNow(mortgages[i]) \in Nat
         /\ BalanceNow(mortgages[i]) <= share + BeyondAt[position]
<1>1. /\ mortgages[i] \in Mortgage
      /\ BeyondAt[position] \in Nat
      /\ \A balance \in OnlyNow(position) : balance <= BeyondAt[position]
  <2>1. mortgages \in Seq(Mortgage)
    BY DEF UnderwritingTypes
  <2> QED
    BY <2>1, BalancesAreCounted, PlacesAreFinite, BeyondIsHighest
<1>2. PICK now : now = BalanceNow(mortgages[i])
  OBVIOUS
<1>3. now \in Nat
  BY <1>1, <1>2, BalanceOfToday
<1>4. CASE Balance(mortgages[i]) = Unknown
  <2>1. now \in OnlyNow(position)
    BY <1>2, <1>4 DEF OnlyNow
  <2> QED
    BY <1>1, <1>2, <1>3, <2>1
<1>5. CASE Balance(mortgages[i]) # Unknown
  <2>1. PICK balance : balance = Balance(mortgages[i])
    OBVIOUS
  <2>2. balance \in BalancesAt(mortgages, position)
    BY <1>5, <2>1 DEF BalancesAt, Evaluated
  <2>3. balance \in Nat /\ balance <= share
    BY <1>1, <1>5, <2>1, <2>2, MortgageAmounts
  <2>4. now <= balance
    BY <1>1, <1>2, <1>5, <2>1, BalanceOfToday
  <2> QED
    BY <1>1, <1>2, <1>3, <2>3, <2>4
<1> QED
  BY <1>4, <1>5

(* The bid that a position without a balance leaves out is an amount.           *)
LEMMA BidLeftOutIsAmount == ASSUME UnderwritingTypes PROVE BidLeftOut \in Nat
BY AmountsAreOwed DEF BidLeftOut, UnderwritingTypes, Published

(* What foreclosure counts first is covered by the first position, the bid that *)
(* stands alone and the bid that is left out.                                   *)
LEMMA FirstOfForeclosure ==
  ASSUME UnderwritingTypes
  PROVE  LET alone == BidAlone(mortgages, bid) + BidLeftOut
         IN  /\ ForeclosureFirst \in Nat
             /\ "1" \in Positions =>
                   ForeclosureFirst <= ConfirmedAt(mortgages, bid)["1"] + BeyondAt["1"] + alone
             /\ "1" \notin Positions => ForeclosureFirst <= alone
<1> DEFINE share == ConfirmedAt(mortgages, bid)["1"]
<1>1. mortgages \in Seq(Mortgage) /\ bid \in Published
  BY DEF UnderwritingTypes
<1>2. BidLeftOut \in Nat /\ BidAlone(mortgages, bid) \in Nat
  BY <1>1, BidLeftOutIsAmount, AmountsAreOwed DEF BidAlone, Published
<1>3. "1" \in Positions => /\ share = PositionDebt(mortgages, "1", bid).confirmed
                           /\ share \in Nat /\ BeyondAt["1"] \in Nat
  BY <1>1, SharesAreAmounts, BeyondIsHighest DEF ConfirmedAt
<1>4. OpenAt(mortgages, "1") # {} => "1" \in Positions
  BY <1>1, PlacesAreFinite, MortgageAmounts DEF OpenAt
<1> HIDE DEF share
<1>5. CASE bid # Unknown
  <2>1. ForeclosureFirst = bid /\ bid \in Nat
    BY <1>1, <1>5, AmountsAreOwed DEF ForeclosureFirst, Published
  <2>2. CASE OpenAt(mortgages, "1") = {}
    <3>1. BidAlone(mortgages, bid) = bid
      BY <1>5, <2>2 DEF BidAlone
    <3> QED
      BY <1>2, <1>3, <2>1, <3>1 DEF share
  <2>3. CASE OpenAt(mortgages, "1") # {} /\ Evaluated(mortgages, "1") = {}
    <3>1. BidLeftOut = bid
      BY <1>5, <2>3 DEF BidLeftOut
    <3> QED
      BY <1>2, <1>3, <2>1, <3>1 DEF share
  <2>4. CASE OpenAt(mortgages, "1") # {} /\ Evaluated(mortgages, "1") # {}
    <3>1. PositionDebt(mortgages, "1", bid).confirmed = bid
      BY <1>5, <2>4 DEF PositionDebt
    <3> QED
      BY <1>2, <1>3, <1>4, <2>1, <2>4, <3>1 DEF share
  <2> QED
    BY <2>2, <2>3, <2>4
<1>6. CASE bid = Unknown
  <2>1. CASE OpenAt(mortgages, "1") = {} \/ BalanceNow(FirstMortgageOf(mortgages)) = Unknown
    <3>1. ForeclosureFirst = 0
      BY <1>6, <2>1 DEF ForeclosureFirst
    <3> QED
      BY <1>2, <1>3, <3>1 DEF share
  <2>2. CASE OpenAt(mortgages, "1") # {} /\ BalanceNow(FirstMortgageOf(mortgages)) # Unknown
    <3>1. ForeclosureFirst = BalanceNow(FirstMortgageOf(mortgages))
      BY <1>6, <2>2 DEF ForeclosureFirst
    <3>2. PICK i \in OpenAt(mortgages, "1") : FirstMortgageOf(mortgages) = mortgages[i]
      BY <2>2, FirstMortgageIsOpen
    <3>3. \A balance \in BalancesAt(mortgages, "1") : balance <= share
      <4>1. CASE Evaluated(mortgages, "1") = {}
        BY <1>1, <4>1, BalancesAreCounted
      <4>2. CASE Evaluated(mortgages, "1") # {}
        BY <1>1, <1>3, <1>4, <1>6, <2>2, <4>2, ShareIsHighest
      <4> QED
        BY <4>1, <4>2
    <3>4. PICK now : now = BalanceNow(mortgages[i])
      OBVIOUS
    <3>5. now \in Nat /\ now <= share + BeyondAt["1"]
      BY <1>3, <1>4, <2>2, <3>2, <3>3, <3>4, NowIsCovered
    <3>6. ForeclosureFirst = now
      BY <3>1, <3>2, <3>4
    <3> QED
      BY <1>2, <1>3, <1>4, <2>2, <3>5, <3>6 DEF share
  <2> QED
    BY <2>1, <2>2
<1> QED
  BY <1>5, <1>6

(* And what it counts of a junior position by that position.                    *)
LEMMA JuniorIsCovered ==
  ASSUME UnderwritingTypes, NEW position \in Positions \ {"1"}
  PROVE  /\ JuniorAt[position] \in Nat
         /\ JuniorAt[position] <= ConfirmedAt(mortgages, bid)[position] + BeyondAt[position]
<1> DEFINE share == ConfirmedAt(mortgages, bid)[position]
           g == [i \in DOMAIN mortgages |-> BalanceNow(mortgages[i])]
           places == {j \in OpenAt(mortgages, position) : BalanceNow(mortgages[j]) # Unknown}
           all == {0} \cup Resolved(position)
<1>1. mortgages \in Seq(Mortgage) /\ bid \in Published
  BY DEF UnderwritingTypes
<1>2. /\ share = PositionDebt(mortgages, position, bid).confirmed
      /\ share \in Nat /\ BeyondAt[position] \in Nat
  BY <1>1, SharesAreAmounts, BeyondIsHighest DEF ConfirmedAt
<1>3. \A balance \in BalancesAt(mortgages, position) : balance <= share
  <2>1. CASE Evaluated(mortgages, position) = {}
    BY <1>1, <2>1, BalancesAreCounted
  <2>2. CASE Evaluated(mortgages, position) # {}
    BY <1>1, <1>2, <2>2, ShareIsHighest
  <2> QED
    BY <2>1, <2>2
<1> HIDE DEF share
<1>4. IsFiniteSet(places) /\ places \subseteq DOMAIN mortgages
  BY <1>1, BalancesAreCounted, FS_Subset
<1>5. Resolved(position) = {g[i] : i \in places}
  BY <1>4 DEF Resolved
<1>6. IsFiniteSet(Resolved(position))
  <2> HIDE DEF g, places
  <2> QED
    BY <1>4, <1>5, ValuesAreFinite
<1>7. \A balance \in Resolved(position) :
         balance \in Nat /\ balance <= share + BeyondAt[position]
  <2> TAKE balance \in Resolved(position)
  <2>1. PICK i \in OpenAt(mortgages, position) :
           BalanceNow(mortgages[i]) # Unknown /\ balance = BalanceNow(mortgages[i])
    BY DEF Resolved
  <2> QED
    BY <1>2, <1>3, <2>1, NowIsCovered
<1>8. /\ \A balance \in all : balance \in Nat /\ balance <= share + BeyondAt[position]
      /\ IsFiniteSet(all) /\ all # {}
  <2>1. IsFiniteSet({0})
    BY FS_Singleton
  <2>2. IsFiniteSet(all)
    BY <1>6, <2>1, FS_Union
  <2>3. 0 \in Nat /\ 0 <= share + BeyondAt[position]
    BY <1>2
  <2>4. \A balance \in all : balance = 0 \/ balance \in Resolved(position)
    OBVIOUS
  <2>5. 0 \in all
    OBVIOUS
  <2> HIDE DEF all
  <2> QED
    BY <1>7, <2>2, <2>3, <2>4, <2>5
<1>9. JuniorAt[position] = Max(all)
  BY DEF JuniorAt
<1> HIDE DEF all
<1>11. all \subseteq Int
  BY <1>8
<1>10. Max(all) \in all
  BY <1>8, <1>11, MaxMin
<1> QED
  BY <1>8, <1>9, <1>10 DEF share

(* It counts at most what the engine holds confirmed, what the strategies alone *)
(* can value, and the bid that is left out.                                     *)
LEMMA ForeclosureCountsLess ==
  ASSUME UnderwritingTypes
  PROVE  ForeclosureWithinConfirmed
<1>1. /\ mortgages \in Seq(Mortgage) /\ LienList(liens) /\ bid \in Published
      /\ arrears["taxes"] \in Nat /\ arrears["hoa"] \in Nat
  BY ArrearsAreAmounts DEF UnderwritingTypes
<1>2. PICK first : first = ForeclosureFirst
  OBVIOUS
<1>3. PICK alone : alone = BidAlone(mortgages, bid) + BidLeftOut
  OBVIOUS
<1> DEFINE f == ConfirmedAt(mortgages, bid)
           u == BeyondAt
           both == [position \in Positions |-> f[position] + u[position]]
           others == Positions \ {"1"}
<1>4. /\ DOMAIN f = Positions /\ DOMAIN u = Positions
      /\ \A position \in Positions : f[position] \in Nat /\ u[position] \in Nat
  BY <1>1, SharesAreAmounts, BeyondIsHighest DEF ConfirmedAt
<1>5. /\ first \in Nat /\ alone \in Nat
      /\ "1" \in Positions => first <= f["1"] + u["1"] + alone
      /\ "1" \notin Positions => first <= alone
  <2>1. BidLeftOut \in Nat /\ BidAlone(mortgages, bid) \in Nat
    BY <1>1, BidLeftOutIsAmount, AmountsAreOwed DEF BidAlone, Published
  <2>2. alone \in Nat
    BY <1>3, <2>1
  <2> QED
    BY <1>2, <1>3, <2>2, FirstOfForeclosure
<1>6. \A position \in others : /\ JuniorAt[position] \in Nat
                               /\ JuniorAt[position] <= f[position] + u[position]
  BY JuniorIsCovered
<1> HIDE DEF f, u
<1>15. \A position \in Positions : /\ both[position] = f[position] + u[position]
                                   /\ both[position] \in Nat
  BY <1>4
<1>16. DOMAIN both = Positions
  OBVIOUS
<1> HIDE DEF both
<1>7. SumFunction(JuniorAt) \in Nat /\ SumFunctionOnSet(both, others) \in Nat
      /\ SumFunction(JuniorAt) <= SumFunctionOnSet(both, others)
  <2>1. DOMAIN JuniorAt = others /\ IsFiniteSet(others) /\ others \subseteq Positions
    BY PositionsAreFinite, FS_Subset DEF JuniorAt
  <2>2. \A position \in others : /\ both[position] \in Nat
                                 /\ JuniorAt[position] <= both[position]
    BY <1>6, <1>15, <2>1
  <2> HIDE DEF others
  <2>3. SumFunctionOnSet(JuniorAt, others) <= SumFunctionOnSet(both, others)
    BY <1>6, <2>1, <2>2, SumMonotone
  <2> QED
    BY <1>6, <2>1, <2>2, <2>3, SumOfAmounts DEF SumFunction
<1>8. first + SumFunctionOnSet(both, others) <= SumFunction(both) + alone
      /\ SumFunction(both) \in Nat
  <2>1. CASE "1" \in Positions
    <3>1. others \in SUBSET Positions /\ "1" \notin others /\ others \cup {"1"} = Positions
      BY <2>1
    <3> HIDE DEF others
    <3>2. SumFunctionOnSet(both, others \cup {"1"}) = SumFunctionOnSet(both, others) + both["1"]
      BY <1>15, <2>1, <3>1, PositionsAreFinite, SumAdd
    <3>3. SumFunction(both) = SumFunctionOnSet(both, others) + both["1"]
      BY <1>16, <3>1, <3>2 DEF SumFunction
    <3>4. first <= both["1"] + alone /\ both["1"] \in Nat
      BY <1>5, <1>15, <2>1
    <3> QED
      BY <1>5, <1>7, <3>3, <3>4
  <2>2. CASE "1" \notin Positions
    <3>1. others = Positions
      BY <2>2
    <3> HIDE DEF others
    <3>2. SumFunction(both) = SumFunctionOnSet(both, others)
      BY <1>16, <3>1 DEF SumFunction
    <3> QED
      BY <1>5, <1>7, <2>2, <3>2
  <2> QED
    BY <2>1, <2>2
<1>14. /\ SumFunction(both) = SumFunction(f) + SumFunction(u)
       /\ SumFunction(f) \in Nat /\ SumFunction(u) \in Nat
  BY <1>4, <1>15, <1>16, PositionsAreFinite, SumPlus, SumOfAmounts DEF SumFunction
<1>9. SumFunction(LiensRecorded) \in Nat
      /\ SumFunction(LiensRecorded) <= SumFunction(LiensConfirmed(liens))
  <2>1. /\ DOMAIN LiensRecorded = DOMAIN liens /\ IsFiniteSet(DOMAIN liens)
        /\ DOMAIN LiensConfirmed(liens) = DOMAIN liens
    BY <1>1 DEF LiensRecorded, LiensConfirmed, LienList
  <2>2. \A i \in DOMAIN liens : /\ LiensRecorded[i] \in Nat /\ LiensConfirmed(liens)[i] \in Nat
                                /\ LiensRecorded[i] <= LiensConfirmed(liens)[i]
    <3> TAKE i \in DOMAIN liens
    <3>1. LiensConfirmed(liens)[i] \in Nat
      BY <1>1, LienShares
    <3>2. CASE liens[i].basis = Recorded /\ liens[i].amount # Unknown
      <4>1. liens[i].amount \in Nat /\ LienAmount(liens[i]) = liens[i].amount
        BY <1>1, <3>2, LienIsAmount DEF LienList
      <4>2. LiensConfirmed(liens)[i] = liens[i].amount /\ LiensRecorded[i] = liens[i].amount
        BY <3>2, <4>1 DEF LiensConfirmed, LiensRecorded, LienIsPotential
      <4> QED
        BY <4>1, <4>2
    <3>3. CASE ~(liens[i].basis = Recorded /\ liens[i].amount # Unknown)
      BY <3>1, <3>3 DEF LiensRecorded
    <3> QED
      BY <3>2, <3>3
  <2>3. SumFunctionOnSet(LiensRecorded, DOMAIN liens)
          <= SumFunctionOnSet(LiensConfirmed(liens), DOMAIN liens)
    BY <2>1, <2>2, SumMonotone
  <2> QED
    BY <2>1, <2>2, <2>3, SumOfAmounts DEF SumFunction
<1>10. /\ Confirmed(mortgages, liens, bid, arrears)
            = SumFunction(f) + BidAlone(mortgages, bid) + arrears["taxes"] + arrears["hoa"]
                + SumFunction(LiensConfirmed(liens))
       /\ SumFunction(LiensConfirmed(liens)) \in Nat
       /\ BidAlone(mortgages, bid) \in Nat /\ BidLeftOut \in Nat
  <2>1. Confirmed(mortgages, liens, bid, arrears)
          = SumFunction(f) + BidAlone(mortgages, bid) + arrears["taxes"] + arrears["hoa"]
              + SumFunction(LiensConfirmed(liens))
    BY DEF Confirmed, f
  <2>2. SumFunction(LiensConfirmed(liens)) \in Nat
    BY <1>1, LienShares
  <2>3. bid \in Nat \cup {Unknown} /\ BidLeftOut \in Nat
    BY <1>1, BidLeftOutIsAmount, AmountsAreOwed DEF Published
  <2>4. BidAlone(mortgages, bid) \in Nat
    BY <2>3 DEF BidAlone
  <2> QED
    BY <2>1, <2>2, <2>3, <2>4
<1>11. ForeclosureDebt
         = first + SumFunction(JuniorAt) + arrears["taxes"] + SumFunction(LiensRecorded)
  BY <1>2 DEF ForeclosureDebt
<1> HIDE DEF others
<1>12. \A a, j, o, c, t, h, l, k, x \in Nat :
         j <= o /\ a + o <= c + x /\ l <= k => a + j + t + l <= c + x + t + h + k
  OBVIOUS
<1>13. first + SumFunction(JuniorAt) + arrears["taxes"] + SumFunction(LiensRecorded)
         <= SumFunction(both) + alone + arrears["taxes"] + arrears["hoa"]
              + SumFunction(LiensConfirmed(liens))
  BY <1>1, <1>5, <1>7, <1>8, <1>9, <1>10, <1>12
<1> QED
  <2>1. PICK confirmed : confirmed = Confirmed(mortgages, liens, bid, arrears)
    OBVIOUS
  <2>2. PICK ofF, ofU, ofBoth, ofLiens :
          /\ ofF = SumFunction(f) /\ ofU = SumFunction(u) /\ ofBoth = SumFunction(both)
          /\ ofLiens = SumFunction(LiensConfirmed(liens))
    OBVIOUS
  <2>3. PICK lone, left : lone = BidAlone(mortgages, bid) /\ left = BidLeftOut
    OBVIOUS
  <2>4. /\ ForeclosureDebt <= ofBoth + (lone + left) + arrears["taxes"] + arrears["hoa"] + ofLiens
        /\ ofBoth = ofF + ofU
        /\ confirmed = ofF + lone + arrears["taxes"] + arrears["hoa"] + ofLiens
    BY <1>3, <1>10, <1>11, <1>13, <1>14, <2>1, <2>2, <2>3
  <2>5. /\ ofF \in Nat /\ ofU \in Nat /\ ofLiens \in Nat /\ lone \in Nat /\ left \in Nat
        /\ arrears["taxes"] \in Nat /\ arrears["hoa"] \in Nat
    BY <1>1, <1>10, <1>14, <2>2, <2>3
  <2>6. PICK debt : debt = ForeclosureDebt
    OBVIOUS
  <2>7. \A a, b, c, d, e, g, h \in Nat :
           (a + b) + (c + d) + e + g + h = (a + c + e + g + h) + b + d
    OBVIOUS
  <2>8. debt <= confirmed + ofU + left
    BY <2>4, <2>5, <2>6, <2>7
  <2> QED
    BY <2>1, <2>2, <2>3, <2>6, <2>8 DEF ForeclosureWithinConfirmed, u

(* The counts of the debt agree, for any record that reports can make.          *)
LEMMA DebtAgrees == UnderwritingTypes => DebtFiguresAgree
BY OnlyRecordedLiensCount, NothingIsSummedSilently, BidDropIsSeen, ForeclosureCountsLess
   DEF DebtFiguresAgree

(*****************************************************************************)
(* Values, costs and offers: every rounded amount is half a unit from the    *)
(* exact one, and what is promised holds to the sum of these.                *)
(*****************************************************************************)

(* Division rounds down.                                                       *)
LEMMA DivRounds ==
  ASSUME NEW a \in Int, NEW b \in Nat \ {0}
  PROVE  /\ a \div b \in Int /\ b * (a \div b) <= a /\ a < b * (a \div b) + b
OBVIOUS

(* A product with an amount keeps the order.                                   *)
LEMMA ProductGrows ==
  ASSUME NEW a \in Int, NEW b \in Int, NEW c \in Nat, a <= b
  PROVE  a * c <= b * c
OBVIOUS

(* A rounded amount is at most half a unit away from the exact one.            *)
LEMMA MoneyRounds ==
  ASSUME NEW n \in Int, NEW d \in Nat \ {0}
  PROVE  /\ Money(n, d) \in Int
         /\ 2 * n - d <= 2 * d * Money(n, d) /\ 2 * d * Money(n, d) <= 2 * n + d
         /\ n >= 0 => Money(n, d) >= 0
<1> DEFINE up == (2 * n + d) \div (2 * d)
           down == (2 * (-n) + d) \div (2 * d)
<1>1. 2 * d \in Nat \ {0} /\ 2 * n + d \in Int /\ 2 * (-n) + d \in Int
  OBVIOUS
<1>2. up \in Int /\ 2 * d * up <= 2 * n + d /\ 2 * n + d < 2 * d * up + 2 * d
  BY <1>1, DivRounds
<1>3. down \in Int /\ 2 * d * down <= 2 * (-n) + d /\ 2 * (-n) + d < 2 * d * down + 2 * d
  BY <1>1, DivRounds
<1>4. ASSUME n >= 0 PROVE up >= 0
  BY <1>2, <1>4
<1> HIDE DEF up, down
<1>5. Money(n, d) = IF n >= 0 THEN up ELSE -down
  BY DEF Money, up, down
<1>6. CASE n >= 0
  BY <1>2, <1>4, <1>5, <1>6
<1>7. CASE ~(n >= 0)
  <2>1. 2 * d * (-down) = -(2 * d * down)
    BY <1>3
  <2> QED
    BY <1>3, <1>5, <1>7, <2>1
<1> QED
  BY <1>6, <1>7

(* A greater amount is not rounded to a smaller one.                           *)
LEMMA MoneyGrows ==
  ASSUME NEW n \in Int, NEW m \in Int, NEW d \in Nat \ {0}, n <= m
  PROVE  Money(n, d) <= Money(m, d)
<1> DEFINE up(x) == (2 * x + d) \div (2 * d)
<1>1. \A x \in Int : /\ up(x) \in Int /\ 2 * d * up(x) <= 2 * x + d
                     /\ 2 * x + d < 2 * d * up(x) + 2 * d
  <2> SUFFICES ASSUME NEW x \in Int
               PROVE  /\ up(x) \in Int /\ 2 * d * up(x) <= 2 * x + d
                      /\ 2 * x + d < 2 * d * up(x) + 2 * d
    OBVIOUS
  <2>1. 2 * d \in Nat \ {0} /\ 2 * x + d \in Int
    OBVIOUS
  <2> QED
    BY <2>1, DivRounds
<1>2. /\ Money(n, d) = IF n >= 0 THEN up(n) ELSE -up(-n)
      /\ Money(m, d) = IF m >= 0 THEN up(m) ELSE -up(-m)
  BY DEF Money
<1> HIDE DEF up
<1>3. ASSUME NEW x \in Int, NEW y \in Int, x <= y PROVE up(x) <= up(y)
  <2>1. /\ up(x) \in Int /\ 2 * d * up(x) <= 2 * x + d
        /\ up(y) \in Int /\ 2 * y + d < 2 * d * up(y) + 2 * d
    BY <1>1
  <2>2. 2 * d * up(x) < 2 * d * up(y) + 2 * d
    BY <1>3, <2>1
  <2>3. SUFFICES ASSUME up(x) >= up(y) + 1 PROVE FALSE
    BY <2>1
  <2>4. 2 * d * up(x) >= 2 * d * (up(y) + 1)
    BY <2>1, <2>3
  <2> QED
    BY <2>1, <2>2, <2>4
<1>4. ASSUME NEW x \in Int, x >= 0 PROVE up(x) >= 0
  <2>1. up(x) \in Int /\ 2 * x + d < 2 * d * up(x) + 2 * d
    BY <1>1
  <2>2. SUFFICES ASSUME up(x) + 1 <= 0 PROVE FALSE
    BY <2>1
  <2>3. 2 * d * (up(x) + 1) <= 0
    BY <2>1, <2>2
  <2> QED
    BY <1>4, <2>1, <2>3
<1>5. CASE n >= 0
  BY <1>2, <1>3, <1>5
<1>6. CASE n < 0 /\ m >= 0
  BY <1>1, <1>2, <1>4, <1>6
<1>7. CASE m < 0
  <2>1. up(-m) <= up(-n)
    BY <1>3, <1>7
  <2> QED
    BY <1>1, <1>2, <1>7, <2>1
<1> QED
  BY <1>5, <1>6, <1>7

(* The greater and the smaller of two numbers.                                 *)
LEMMA MaxMinOfTwo ==
  ASSUME NEW a \in Int, NEW b \in Int
  PROVE  /\ Max({a, b}) \in {a, b} /\ a <= Max({a, b}) /\ b <= Max({a, b})
         /\ Min({a, b}) \in {a, b} /\ Min({a, b}) <= a /\ Min({a, b}) <= b
<1>1. PICK two : two = {a, b}
  OBVIOUS
<1>2. two = {a} \cup {b}
  BY <1>1
<1>3. IsFiniteSet(two)
  BY <1>2, FS_Singleton, FS_Union
<1>4. two \subseteq Int /\ two # {} /\ a \in two /\ b \in two
  BY <1>1
<1>5. /\ Max(two) \in two /\ \A x \in two : x <= Max(two)
      /\ Min(two) \in two /\ \A x \in two : Min(two) <= x
  BY <1>3, <1>4, MaxMin
<1> QED
  BY <1>1, <1>4, <1>5

(* The expected value is an amount: the usable candidates weigh something.     *)
LEMMA CandidatesWeigh ==
  ASSUME UnderwritingTypes, Priced
  PROVE  VExp \in Nat
<1> DEFINE f == [i \in Usable |-> candidates[i].value * candidates[i].weight]
           g == [i \in Usable |-> candidates[i].weight]
<1>1. IsFiniteSet(Usable) /\ Usable \subseteq DOMAIN candidates
  <2>1. candidates \in Seq(Candidate)
    BY DEF UnderwritingTypes
  <2>2. IsFiniteSet(DOMAIN candidates)
    BY <2>1, PlacesAreFinite
  <2>3. Usable \subseteq DOMAIN candidates
    BY DEF Usable
  <2> QED
    BY <2>2, <2>3, FS_Subset
<1>2. \A i \in Usable : /\ candidates[i].value \in Nat /\ candidates[i].weight \in Nat
                        /\ candidates[i].value > 0 /\ candidates[i].weight > 0
  <2> SUFFICES ASSUME NEW i \in Usable
               PROVE  /\ candidates[i].value \in Nat /\ candidates[i].weight \in Nat
                      /\ candidates[i].value > 0 /\ candidates[i].weight > 0
    OBVIOUS
  <2>1. candidates[i] \in Candidate
    BY <1>1, PlacesAreFinite DEF UnderwritingTypes
  <2>2. candidates[i].value \in Values /\ candidates[i].weight \in Weights
    BY <2>1 DEF Candidate
  <2> QED
    BY <2>2, AmountsAreOwed DEF Usable
<1>3. \A i \in Usable : f[i] \in Nat /\ g[i] \in Nat /\ g[i] >= 1
  BY <1>2
<1>4. DOMAIN f = Usable /\ DOMAIN g = Usable
  OBVIOUS
<1> HIDE DEF f, g
<1>5. SumFunctionOnSet(f, Usable) \in Nat /\ SumFunctionOnSet(g, Usable) \in Nat
  BY <1>1, <1>3, SumOfAmounts
<1>6. SumFunctionOnSet(g, Usable) >= 1
  <2>1. PICK i \in Usable : TRUE
    BY DEF Priced
  <2>2. PICK h : h = [j \in Usable |-> IF j = i THEN 1 ELSE 0]
    OBVIOUS
  <2>3. \A j \in Usable : h[j] \in Int /\ g[j] \in Int /\ h[j] <= g[j]
    BY <1>3, <2>2
  <2>4. SumFunctionOnSet(h, Usable) <= SumFunctionOnSet(g, Usable)
    BY <1>1, <2>3, SumMonotone
  <2>5. SumFunctionOnSet(h, {i}) = SumFunctionOnSet(h, Usable)
    <3>1. {i} \in SUBSET Usable /\ \A j \in Usable \ {i} : h[j] = 0
      BY <2>2
    <3> QED
      BY <1>1, <2>3, <3>1, SumPart
  <2>6. SumFunctionOnSet(h, {i}) = 1
    <3>1. IsFiniteSet({i}) /\ {i} # {} /\ First({i}) = i /\ {i} \ {First({i})} = {}
      BY FS_Singleton DEF First
    <3>2. SumFunctionOnSet(h, {i}) = h[i] + SumFunctionOnSet(h, {})
      BY <3>1, SumRecursion
    <3> QED
      BY <2>2, <3>2, SumEmpty
  <2> QED
    BY <1>5, <2>4, <2>5, <2>6
<1>7. VExp = Money(SumFunctionOnSet(f, Usable), SumFunctionOnSet(g, Usable))
  BY <1>4 DEF VExp, SumFunction, f, g
<1>8. PICK weighted, weight : /\ weighted = SumFunctionOnSet(f, Usable)
                              /\ weight = SumFunctionOnSet(g, Usable)
  OBVIOUS
<1>9. weighted \in Int /\ weighted >= 0 /\ weight \in Nat \ {0}
  BY <1>5, <1>6, <1>8
<1>10. Money(weighted, weight) \in Int /\ Money(weighted, weight) >= 0
  BY <1>9, MoneyRounds
<1> QED
  BY <1>7, <1>8, <1>10

(* The spread of the values is at most 30 percent.                             *)
LEMMA SpreadIsClamped ==
  ASSUME UnderwritingTypes
  PROVE  Spread \in 4..30
BY DispersionIsClamped DEF UnderwritingTypes, Spread, SingleDispersion

(* The values of the scenarios are in order, and at most the clamped spread    *)
(* and half a unit apart.                                                      *)
LEMMA ValuesInOrder ==
  ASSUME UnderwritingTypes, Priced
  PROVE  /\ VExp \in Nat /\ VLow \in Nat /\ VHigh \in Nat
         /\ VLow <= VExp /\ VExp <= VHigh
         /\ 140 * VExp - 100 <= 200 * VLow /\ 200 * VHigh <= 260 * VExp + 100
<1>1. VExp \in Nat
  BY CandidatesWeigh
<1>2. PICK spread : spread = Spread
  OBVIOUS
<1>3. spread \in 4..30
  BY <1>2, SpreadIsClamped
<1>4. /\ compRange[1] \in Int /\ (compRange[1] # Unknown => compRange[1] \in Nat)
      /\ compRange[2] \in Int /\ (compRange[2] # Unknown => compRange[2] \in Nat)
  <2>1. compRange[1] \in Values \cup {Unknown} /\ compRange[2] \in Values \cup {Unknown}
    BY DEF UnderwritingTypes
  <2>2. Values \subseteq Nat
    BY AmountsAreOwed
  <2> QED
    BY <2>1, <2>2, KnownOrNot
<1>5. PICK expected : expected = VExp
  OBVIOUS
<1>6. \E amount \in Int : /\ VLow = Money(amount, 100)
                          /\ 70 * expected <= amount /\ amount <= 100 * expected
  <2>1. PICK raw : raw = expected * (100 - spread)
    OBVIOUS
  <2>2. raw \in Int /\ 70 * expected <= raw /\ raw <= 100 * expected
    <3>1. expected * 70 <= expected * (100 - spread) /\ expected * (100 - spread) <= expected * 100
      BY <1>1, <1>3, <1>5
    <3> QED
      BY <1>1, <1>3, <1>5, <2>1, <3>1
  <2>3. CASE compRange[1] # Unknown /\ compRange[1] <= VExp
    <3>1. VLow = Money(Max({raw, 100 * compRange[1]}), 100)
      BY <1>2, <1>5, <2>1, <2>3 DEF VLow
    <3>2. PICK low : low = 100 * compRange[1]
      OBVIOUS
    <3>3. low \in Int /\ low <= 100 * expected
      BY <1>1, <1>4, <1>5, <2>3, <3>2
    <3>4. Max({raw, low}) \in {raw, low} /\ raw <= Max({raw, low})
      BY <2>2, <3>3, MaxMinOfTwo
    <3>5. PICK best : best = Max({raw, low})
      OBVIOUS
    <3>6. best \in Int /\ 70 * expected <= best /\ best <= 100 * expected
      BY <1>1, <1>5, <2>2, <3>3, <3>4, <3>5
    <3>7. VLow = Money(best, 100)
      BY <3>1, <3>2, <3>5
    <3> QED
      BY <3>6, <3>7
  <2>4. CASE ~(compRange[1] # Unknown /\ compRange[1] <= VExp)
    <3>1. VLow = Money(raw, 100)
      BY <1>2, <1>5, <2>1, <2>4 DEF VLow
    <3> QED
      BY <2>2, <3>1
  <2> QED
    BY <2>3, <2>4
<1>7. \E amount \in Int : /\ VHigh = Money(amount, 100)
                          /\ 100 * expected <= amount /\ amount <= 130 * expected
  <2>1. PICK raw : raw = expected * (100 + spread)
    OBVIOUS
  <2>2. raw \in Int /\ 100 * expected <= raw /\ raw <= 130 * expected
    <3>1. expected * 100 <= expected * (100 + spread) /\ expected * (100 + spread) <= expected * 130
      BY <1>1, <1>3, <1>5
    <3> QED
      BY <1>1, <1>3, <1>5, <2>1, <3>1
  <2>3. CASE compRange[2] # Unknown /\ compRange[2] >= VExp
    <3>1. VHigh = Money(Min({raw, 100 * compRange[2]}), 100)
      BY <1>2, <1>5, <2>1, <2>3 DEF VHigh
    <3>2. PICK high : high = 100 * compRange[2]
      OBVIOUS
    <3>3. high \in Int /\ 100 * expected <= high
      BY <1>1, <1>4, <1>5, <2>3, <3>2
    <3>4. Min({raw, high}) \in {raw, high} /\ Min({raw, high}) <= raw
      BY <2>2, <3>3, MaxMinOfTwo
    <3>5. PICK best : best = Min({raw, high})
      OBVIOUS
    <3>6. best \in Int /\ 100 * expected <= best /\ best <= 130 * expected
      BY <1>1, <1>5, <2>2, <3>3, <3>4, <3>5
    <3>7. VHigh = Money(best, 100)
      BY <3>1, <3>2, <3>5
    <3> QED
      BY <3>6, <3>7
  <2>4. CASE ~(compRange[2] # Unknown /\ compRange[2] >= VExp)
    <3>1. VHigh = Money(raw, 100)
      BY <1>2, <1>5, <2>1, <2>4 DEF VHigh
    <3> QED
      BY <2>2, <3>1
  <2> QED
    BY <2>3, <2>4
<1>8. 100 \in Nat \ {0}
  OBVIOUS
<1>9. VLow \in Nat /\ VLow <= expected /\ 140 * expected - 100 <= 200 * VLow
  <2>1. PICK amount \in Int : /\ VLow = Money(amount, 100)
                              /\ 70 * expected <= amount /\ amount <= 100 * expected
    BY <1>6
  <2>2. /\ Money(amount, 100) \in Int
        /\ 2 * amount - 100 <= 2 * 100 * Money(amount, 100)
        /\ 2 * 100 * Money(amount, 100) <= 2 * amount + 100
        /\ amount >= 0 => Money(amount, 100) >= 0
    BY <1>8, MoneyRounds
  <2>3. amount >= 0
    BY <1>1, <1>5, <2>1
  <2> QED
    BY <1>1, <1>5, <2>1, <2>2, <2>3
<1>10. VHigh \in Nat /\ expected <= VHigh /\ 200 * VHigh <= 260 * expected + 100
  <2>1. PICK amount \in Int : /\ VHigh = Money(amount, 100)
                              /\ 100 * expected <= amount /\ amount <= 130 * expected
    BY <1>7
  <2>2. /\ Money(amount, 100) \in Int
        /\ 2 * amount - 100 <= 2 * 100 * Money(amount, 100)
        /\ 2 * 100 * Money(amount, 100) <= 2 * amount + 100
        /\ amount >= 0 => Money(amount, 100) >= 0
    BY <1>8, MoneyRounds
  <2>3. amount >= 0
    BY <1>1, <1>5, <2>1
  <2> QED
    BY <1>1, <1>5, <2>1, <2>2, <2>3
<1> QED
  BY <1>1, <1>5, <1>9, <1>10

(* A share of an amount is at most the amount.                                 *)
LEMMA ShareOfAmount ==
  ASSUME NEW amount \in Nat, NEW share \in 0..100
  PROVE  Money(amount * share, 100) \in Nat /\ Money(amount * share, 100) <= amount
<1>1. PICK part : part = amount * share
  OBVIOUS
<1>2. part \in Int /\ 0 <= part /\ part <= 100 * amount
  <2>1. 0 * amount <= share * amount /\ share * amount <= 100 * amount
    OBVIOUS
  <2> QED
    BY <1>1, <2>1
<1>3. 100 \in Nat \ {0}
  OBVIOUS
<1>4. /\ Money(part, 100) \in Int /\ 2 * 100 * Money(part, 100) <= 2 * part + 100
      /\ part >= 0 => Money(part, 100) >= 0
  BY <1>2, <1>3, MoneyRounds
<1> QED
  BY <1>1, <1>2, <1>4

(* Weighed by the chance to attach, liens come to no more.                     *)
LEMMA LiensWeigh ==
  ASSUME NEW ls, LienList(ls)
  PROVE  /\ SumFunction(LiensExpected(ls)) \in Nat
         /\ SumFunction(LiensExpected(ls)) <= SumFunction(LiensPotential(ls))
<1>1. \A i \in DOMAIN ls : LiensExpected(ls)[i] \in Nat
                           /\ LiensExpected(ls)[i] <= LiensPotential(ls)[i]
  <2> SUFFICES ASSUME NEW i \in DOMAIN ls
               PROVE  /\ LiensExpected(ls)[i] \in Nat
                      /\ LiensExpected(ls)[i] <= LiensPotential(ls)[i]
    OBVIOUS
  <2>1. LiensPotential(ls)[i] \in Nat
    BY LienShares
  <2>2. LienWeight(ls[i]) \in 0..100
    BY ProbabilitiesAreShares DEF LienWeight
  <2>3. LiensExpected(ls)[i] = Money(LiensPotential(ls)[i] * LienWeight(ls[i]), 100)
    BY DEF LiensExpected
  <2> QED
    BY <2>1, <2>2, <2>3, ShareOfAmount
<1>2. DOMAIN LiensExpected(ls) = DOMAIN ls /\ DOMAIN LiensPotential(ls) = DOMAIN ls
  BY DEF LiensExpected, LiensPotential
<1>3. \A i \in DOMAIN ls : LiensPotential(ls)[i] \in Nat
  BY LienShares
<1>4. IsFiniteSet(DOMAIN ls)
  BY DEF LienList
<1>5. PICK f, g : f = LiensExpected(ls) /\ g = LiensPotential(ls)
  OBVIOUS
<1>6. SumFunctionOnSet(f, DOMAIN ls) \in Nat
  BY <1>1, <1>4, <1>5, SumOfAmounts
<1>7. SumFunctionOnSet(f, DOMAIN ls) <= SumFunctionOnSet(g, DOMAIN ls)
  <2>1. \A i \in DOMAIN ls : f[i] \in Int /\ g[i] \in Int /\ f[i] <= g[i]
    BY <1>1, <1>3, <1>5
  <2> QED
    BY <1>4, <2>1, SumMonotone
<1> QED
  BY <1>2, <1>5, <1>6, <1>7 DEF SumFunction

(* Both weighted sums of the potential debt are at most the whole of it.       *)
LEMMA PotentialIsWeighed ==
  ASSUME UnderwritingTypes
  PROVE  /\ Confirmed(mortgages, liens, bid, arrears) \in Nat
         /\ Potential(mortgages, liens, bid) \in Nat
         /\ PotentialWeighted(mortgages, liens, bid) \in Nat
         /\ PotentialWeighted(mortgages, liens, bid) <= Potential(mortgages, liens, bid)
         /\ OfferWeightedPotential \in Nat
         /\ OfferWeightedPotential <= Potential(mortgages, liens, bid)
<1>1. /\ mortgages \in Seq(Mortgage) /\ liens \in Seq(Lien) /\ bid \in Published
      /\ arrears \in [{"taxes", "hoa"} -> Arrears \cup {0}]
  BY DEF UnderwritingTypes
<1>2. arrears["taxes"] \in Nat /\ arrears["hoa"] \in Nat /\ LienList(liens)
  BY <1>1, ArrearsAreAmounts
<1>3. /\ Confirmed(mortgages, liens, bid, arrears) \in Nat
      /\ Potential(mortgages, liens, bid) \in Nat
  BY <1>1, <1>2, DebtIsAnAmount
<1>4. PICK full, weighed :
        /\ full = PotentialAt(mortgages, bid)
        /\ weighed = [position \in Positions |-> Money(full[position] * Undrawn, 100)]
  OBVIOUS
<1>5. DOMAIN full = Positions /\ \A position \in Positions : full[position] \in Nat
  BY <1>1, <1>4, SharesAreAmounts DEF PotentialAt
<1>6. \A position \in Positions : weighed[position] \in Nat /\ weighed[position] <= full[position]
  BY <1>4, <1>5, ProbabilitiesAreShares, ShareOfAmount
<1>7. /\ SumFunctionOnSet(full, Positions) \in Nat /\ SumFunctionOnSet(weighed, Positions) \in Nat
      /\ SumFunctionOnSet(weighed, Positions) <= SumFunctionOnSet(full, Positions)
  <2>1. SumFunctionOnSet(full, Positions) \in Nat
    BY <1>5, PositionsAreFinite, SumOfAmounts
  <2>2. SumFunctionOnSet(weighed, Positions) \in Nat
    BY <1>6, PositionsAreFinite, SumOfAmounts
  <2>3. \A position \in Positions : /\ weighed[position] \in Int /\ full[position] \in Int
                                    /\ weighed[position] <= full[position]
    BY <1>5, <1>6
  <2>4. SumFunctionOnSet(weighed, Positions) <= SumFunctionOnSet(full, Positions)
    BY <2>3, PositionsAreFinite, SumMonotone
  <2> QED
    BY <2>1, <2>2, <2>4
<1>8. PICK ofFull, ofWeighed, ofLiens, ofLiensWeighed :
        /\ ofFull = SumFunction(full) /\ ofWeighed = SumFunction(weighed)
        /\ ofLiens = SumFunction(LiensPotential(liens))
        /\ ofLiensWeighed = SumFunction(LiensExpected(liens))
  OBVIOUS
<1>9. ofFull \in Nat /\ ofWeighed \in Nat /\ ofWeighed <= ofFull
  <2>1. DOMAIN weighed = Positions
    BY <1>4
  <2> QED
    BY <1>5, <1>7, <1>8, <2>1 DEF SumFunction
<1>10. ofLiens \in Nat /\ ofLiensWeighed \in Nat /\ ofLiensWeighed <= ofLiens
  BY <1>2, <1>8, LiensWeigh, LienShares
<1>11. /\ Potential(mortgages, liens, bid) = ofFull + ofLiens
       /\ PotentialWeighted(mortgages, liens, bid) = ofWeighed + ofLiensWeighed
       /\ OfferWeightedPotential = ofFull + ofLiensWeighed
  BY <1>4, <1>8 DEF Potential, PotentialWeighted, OfferWeightedPotential
<1> QED
  BY <1>3, <1>9, <1>10, <1>11

(* The value of each scenario.                                                 *)
LEMMA ScenarioValues ==
  ASSUME UnderwritingTypes, Priced
  PROVE  /\ Value("conservative") = VLow /\ Value("expected") = VExp /\ Value("optimistic") = VHigh
         /\ \A scenario \in Scenarios : Value(scenario) \in Nat
<1>1. Value("conservative") = VLow /\ Value("expected") = VExp /\ Value("optimistic") = VHigh
  BY DEF Value
<1> QED
  BY <1>1, ValuesInOrder DEF Scenarios

(* What of the value a month costs, rounded.                                   *)
LEMMA MonthlyIsCounted ==
  ASSUME NEW value \in Nat
  PROVE  /\ Money(value * CarryPct, 1200) \in Nat /\ value * CarryPct \in Nat
         /\ 2 * (value * CarryPct) - 1200 <= 2400 * Money(value * CarryPct, 1200)
         /\ 2400 * Money(value * CarryPct, 1200) <= 2 * (value * CarryPct) + 1200
<1>1. PICK cost : cost = value * CarryPct
  OBVIOUS
<1>2. cost \in Nat
  BY <1>1, CostsAreCounted
<1>3. 1200 \in Nat \ {0}
  OBVIOUS
<1>4. /\ Money(cost, 1200) \in Int
      /\ 2 * cost - 1200 <= 2 * 1200 * Money(cost, 1200)
      /\ 2 * 1200 * Money(cost, 1200) <= 2 * cost + 1200
      /\ cost >= 0 => Money(cost, 1200) >= 0
  BY <1>2, <1>3, MoneyRounds
<1> QED
  BY <1>1, <1>2, <1>4

(* The cost of holding is an amount.                                           *)
LEMMA HoldingTypes ==
  ASSUME UnderwritingTypes, Priced
  PROVE  \A scenario \in Scenarios : /\ Monthly(scenario) \in Nat /\ Holding(scenario) \in Nat
                                     /\ PeriodFactor(scenario) \in Nat
<1> SUFFICES ASSUME NEW scenario \in Scenarios
             PROVE  /\ Monthly(scenario) \in Nat /\ Holding(scenario) \in Nat
                    /\ PeriodFactor(scenario) \in Nat
  OBVIOUS
<1>1. Value(scenario) \in Nat
  BY ScenarioValues
<1>2. Monthly(scenario) \in Nat
  <2>1. Money(Value(scenario) * CarryPct, 1200) \in Nat
    BY <1>1, MonthlyIsCounted
  <2>2. MonthlyFlat \in Nat
    BY CostsAreCounted
  <2> QED
    BY <2>1, <2>2 DEF Monthly
<1>3. PeriodFactor(scenario) \in Nat
  BY DEF PeriodFactor, Scenarios
<1>4. PICK cost : cost = Monthly(scenario) * BaseMonths * PeriodFactor(scenario)
  OBVIOUS
<1>5. cost \in Nat
  <2>1. Monthly(scenario) * BaseMonths \in Nat
    BY <1>2, CostsAreCounted
  <2> QED
    BY <1>3, <1>4, <2>1
<1>6. 100 \in Nat \ {0}
  OBVIOUS
<1>7. Money(cost, 100) \in Int /\ (cost >= 0 => Money(cost, 100) >= 0)
  BY <1>5, <1>6, MoneyRounds
<1> QED
  BY <1>2, <1>3, <1>4, <1>5, <1>7 DEF Holding

(* A lower value, of at least 70 percent, does not make up for half as long    *)
(* again, nor a higher one, of at most 130 percent, for a quarter less: 3 *    *)
(* 1.3 < 4 and 2 < 3 * 0.7 leave a margin that exceeds the rounding where a    *)
(* month costs a hundred.                                                      *)
LEMMA HoldingInOrder ==
  ASSUME UnderwritingTypes, Priced, CarryCounts
  PROVE  /\ Holding("optimistic") <= Holding("expected")
         /\ Holding("expected") <= Holding("conservative")
<1>1. /\ VExp \in Nat /\ VLow \in Nat /\ VHigh \in Nat
      /\ 140 * VExp - 100 <= 200 * VLow /\ 200 * VHigh <= 260 * VExp + 100
  BY ValuesInOrder
<1>2. CarryPct \in Nat /\ MonthlyFlat \in Nat /\ BaseMonths \in Nat
  BY CostsAreCounted
<1>3. PICK low, exp, high, carry :
        low = VLow * CarryPct /\ exp = VExp * CarryPct /\ high = VHigh * CarryPct /\ carry = CarryPct
  OBVIOUS
<1>4. /\ low \in Nat /\ exp \in Nat /\ high \in Nat /\ carry \in Nat
      /\ 140 * exp - 100 * carry <= 200 * low /\ 200 * high <= 260 * exp + 100 * carry
      /\ 100 * carry <= exp
  <2>1. low \in Nat /\ exp \in Nat /\ high \in Nat /\ carry \in Nat
    BY <1>1, <1>2, <1>3
  <2>2. (140 * VExp - 100) * CarryPct <= (200 * VLow) * CarryPct
    <3>1. 140 * VExp - 100 \in Int /\ 200 * VLow \in Int
      BY <1>1
    <3> QED
      BY <1>1, <1>2, <3>1, ProductGrows
  <2>3. (200 * VHigh) * CarryPct <= (260 * VExp + 100) * CarryPct
    <3>1. 260 * VExp + 100 \in Int /\ 200 * VHigh \in Int
      BY <1>1
    <3> QED
      BY <1>1, <1>2, <3>1, ProductGrows
  <2>4. 100 * CarryPct <= VExp * CarryPct
    BY <1>1, <1>2, ProductGrows DEF CarryCounts
  <2>5. /\ (140 * VExp - 100) * CarryPct = 140 * exp - 100 * carry
        /\ (200 * VLow) * CarryPct = 200 * low
        /\ (260 * VExp + 100) * CarryPct = 260 * exp + 100 * carry
        /\ (200 * VHigh) * CarryPct = 200 * high
    BY <1>1, <1>2, <1>3
  <2> QED
    BY <1>3, <2>1, <2>2, <2>3, <2>4, <2>5
<1>5. PICK monthLow, monthExp, monthHigh :
        /\ monthLow = Monthly("conservative") /\ monthExp = Monthly("expected")
        /\ monthHigh = Monthly("optimistic")
  OBVIOUS
<1>6. /\ monthLow \in Nat /\ monthExp \in Nat /\ monthHigh \in Nat
      /\ 2 * low - 1200 + 2400 * MonthlyFlat <= 2400 * monthLow
      /\ 2 * exp - 1200 + 2400 * MonthlyFlat <= 2400 * monthExp
      /\ 2400 * monthExp <= 2 * exp + 1200 + 2400 * MonthlyFlat
      /\ 2400 * monthHigh <= 2 * high + 1200 + 2400 * MonthlyFlat
  <2>1. /\ monthLow = Money(VLow * CarryPct, 1200) + MonthlyFlat
        /\ monthExp = Money(VExp * CarryPct, 1200) + MonthlyFlat
        /\ monthHigh = Money(VHigh * CarryPct, 1200) + MonthlyFlat
    BY <1>5, ScenarioValues DEF Monthly
  <2>2. PICK ofLow, ofExp, ofHigh :
          /\ ofLow = Money(VLow * CarryPct, 1200) /\ ofExp = Money(VExp * CarryPct, 1200)
          /\ ofHigh = Money(VHigh * CarryPct, 1200)
    OBVIOUS
  <2>3. /\ ofLow \in Nat /\ 2 * low - 1200 <= 2400 * ofLow
        /\ ofExp \in Nat /\ 2 * exp - 1200 <= 2400 * ofExp /\ 2400 * ofExp <= 2 * exp + 1200
        /\ ofHigh \in Nat /\ 2400 * ofHigh <= 2 * high + 1200
    BY <1>1, <1>3, <2>2, MonthlyIsCounted
  <2>4. monthLow = ofLow + MonthlyFlat /\ monthExp = ofExp + MonthlyFlat
        /\ monthHigh = ofHigh + MonthlyFlat
    BY <2>1, <2>2
  <2> QED
    BY <1>2, <1>4, <2>3, <2>4
<1>7. monthExp >= 100
  BY <1>5 DEF CarryCounts
<1>8. 3 * monthHigh <= 4 * monthExp /\ 2 * monthExp <= 3 * monthLow
  BY <1>2, <1>4, <1>6, <1>7
<1>9. /\ monthHigh * BaseMonths * 75 <= monthExp * BaseMonths * 100
      /\ monthExp * BaseMonths * 100 <= monthLow * BaseMonths * 150
  <2>1. (3 * monthHigh) * BaseMonths <= (4 * monthExp) * BaseMonths
    <3>1. 3 * monthHigh \in Int /\ 4 * monthExp \in Int
      BY <1>6
    <3> QED
      BY <1>2, <1>8, <3>1, ProductGrows
  <2>2. (2 * monthExp) * BaseMonths <= (3 * monthLow) * BaseMonths
    <3>1. 2 * monthExp \in Int /\ 3 * monthLow \in Int
      BY <1>6
    <3> QED
      BY <1>2, <1>8, <3>1, ProductGrows
  <2> QED
    BY <1>2, <1>6, <2>1, <2>2
<1>10. /\ Holding("optimistic") = Money(monthHigh * BaseMonths * 75, 100)
       /\ Holding("expected") = Money(monthExp * BaseMonths * 100, 100)
       /\ Holding("conservative") = Money(monthLow * BaseMonths * 150, 100)
  BY <1>5 DEF Holding, PeriodFactor
<1>11. PICK a, b, c : /\ a = monthHigh * BaseMonths * 75 /\ b = monthExp * BaseMonths * 100
                      /\ c = monthLow * BaseMonths * 150
  OBVIOUS
<1>12. a \in Int /\ b \in Int /\ c \in Int
  BY <1>2, <1>6, <1>11
<1>13. 100 \in Nat \ {0}
  OBVIOUS
<1>14. Money(a, 100) <= Money(b, 100) /\ Money(b, 100) <= Money(c, 100)
  BY <1>9, <1>11, <1>12, <1>13, MoneyGrows
<1> QED
  BY <1>10, <1>11, <1>14

(* The scenarios keep their order.                                             *)
LEMMA ScenariosInOrder == ASSUME UnderwritingTypes PROVE ScenarioOrder
<1> SUFFICES ASSUME Priced PROVE ScenarioOrder
  BY DEF ScenarioOrder
<1>1. /\ VExp \in Nat /\ VLow \in Nat /\ VHigh \in Nat /\ VLow <= VExp /\ VExp <= VHigh
  BY ValuesInOrder
<1>2. PICK confirmed, potential, weighted :
        /\ confirmed = Confirmed(mortgages, liens, bid, arrears)
        /\ potential = Potential(mortgages, liens, bid)
        /\ weighted = PotentialWeighted(mortgages, liens, bid)
  OBVIOUS
<1>3. confirmed \in Nat /\ potential \in Nat /\ weighted \in Nat /\ weighted <= potential
  BY <1>2, PotentialIsWeighed
<1>4. /\ PotentialUsed("conservative") = potential /\ PotentialUsed("expected") = weighted
      /\ PotentialUsed("optimistic") = 0
  BY <1>2 DEF PotentialUsed
<1>5. /\ Value("conservative") = VLow /\ Value("expected") = VExp /\ Value("optimistic") = VHigh
  BY ScenarioValues
<1>6. /\ AdjustedEquity("conservative") = VLow - confirmed - potential
      /\ AdjustedEquity("expected") = VExp - confirmed - weighted
      /\ AdjustedEquity("optimistic") = VHigh - confirmed - 0
  BY <1>2, <1>4, <1>5 DEF AdjustedEquity
<1>7. /\ AdjustedEquity("conservative") <= AdjustedEquity("expected")
      /\ AdjustedEquity("expected") <= AdjustedEquity("optimistic")
  BY <1>1, <1>3, <1>6
<1>8. ASSUME CarryCounts
      PROVE  /\ NetRealizable("conservative") <= NetRealizable("expected")
             /\ NetRealizable("expected") <= NetRealizable("optimistic")
  <2>1. PICK rest : rest = 100 - ResalePct
    OBVIOUS
  <2>2. rest \in Nat
    BY <2>1, CostsAreShares
  <2>3. PICK low, exp, high : low = VLow * rest /\ exp = VExp * rest /\ high = VHigh * rest
    OBVIOUS
  <2>4. low \in Int /\ exp \in Int /\ high \in Int /\ low <= exp /\ exp <= high
    BY <1>1, <2>2, <2>3, ProductGrows
  <2>5. PICK ofLow, ofExp, ofHigh :
          /\ ofLow = Money(low, 100) /\ ofExp = Money(exp, 100) /\ ofHigh = Money(high, 100)
    OBVIOUS
  <2>6. ofLow \in Int /\ ofExp \in Int /\ ofHigh \in Int /\ ofLow <= ofExp /\ ofExp <= ofHigh
    <3>1. 100 \in Nat \ {0}
      OBVIOUS
    <3> QED
      BY <2>4, <2>5, <3>1, MoneyGrows, MoneyRounds
  <2>7. PICK holdLow, holdExp, holdHigh :
          /\ holdLow = Holding("conservative") /\ holdExp = Holding("expected")
          /\ holdHigh = Holding("optimistic")
    OBVIOUS
  <2>8. /\ holdLow \in Int /\ holdExp \in Int /\ holdHigh \in Int
        /\ holdHigh <= holdExp /\ holdExp <= holdLow
    BY <1>8, <2>7, HoldingInOrder, HoldingTypes DEF Scenarios
  <2>9. /\ NetRealizable("conservative") = ofLow - confirmed - potential - holdLow
        /\ NetRealizable("expected") = ofExp - confirmed - weighted - holdExp
        /\ NetRealizable("optimistic") = ofHigh - confirmed - 0 - holdHigh
    BY <1>2, <1>4, <1>5, <2>1, <2>3, <2>5, <2>7 DEF NetRealizable
  <2> QED
    BY <1>3, <2>6, <2>8, <2>9
<1> QED
  BY <1>1, <1>7, <1>8, HoldingInOrder DEF ScenarioOrder

(* The amounts of a scenario are whole.                                         *)
LEMMA CostsAreWhole ==
  ASSUME UnderwritingTypes, Priced, NEW scenario \in Scenarios
  PROVE  /\ Value(scenario) \in Nat /\ Holding(scenario) \in Nat
         /\ RepairCost(scenario) \in Int /\ ResaleOf(Value(scenario)) \in Int
         /\ repairBase # Unknown =>
              AfterRepairValue(scenario) \in Nat /\ FlipResale(scenario) \in Int
<1>1. Value(scenario) \in Nat /\ Holding(scenario) \in Nat
  BY ScenarioValues, HoldingTypes
<1>2. 100 \in Nat \ {0} /\ ResalePct \in Nat /\ RepairFactor[scenario] \in Nat /\ StagingFlat \in Int
  BY CostsAreShares, CostsAreCounted, FlatsAreWhole DEF Scenarios
<1>3. \A value \in Nat : ResaleOf(value) \in Int
  <2> SUFFICES ASSUME NEW value \in Nat PROVE ResaleOf(value) \in Int
    OBVIOUS
  <2>1. value * ResalePct \in Int
    BY <1>2
  <2> QED
    BY <1>2, <2>1, MoneyRounds DEF ResaleOf
<1>4. CASE repairBase = Unknown
  <2>1. RepairCost(scenario) = 0
    BY <1>4 DEF RepairCost, Repairs
  <2> QED
    BY <1>1, <1>3, <1>4, <2>1
<1>5. CASE repairBase # Unknown
  <2>1. repairBase \in Nat
    BY <1>5, AmountsAreOwed DEF UnderwritingTypes
  <2>2. PICK budget : budget = repairBase * RepairFactor[scenario]
    OBVIOUS
  <2>3. budget \in Nat
    BY <1>2, <2>1, <2>2
  <2>4. Money(budget, 100) \in Nat
    <3>1. Money(budget, 100) \in Int /\ (budget >= 0 => Money(budget, 100) >= 0)
      BY <1>2, <2>3, MoneyRounds
    <3> QED
      BY <2>3, <3>1
  <2>5. Repairs(scenario) = Money(budget, 100)
    BY <1>5, <2>2 DEF Repairs
  <2>6. RepairCost(scenario) = Money(budget, 100)
        /\ AfterRepairValue(scenario) = Value(scenario) + Money(budget, 100)
    BY <1>5, <2>4, <2>5 DEF RepairCost, AfterRepairValue, Unknown
  <2>7. AfterRepairValue(scenario) \in Nat
    BY <1>1, <2>4, <2>6
  <2>8. FlipResale(scenario) \in Int
    <3>1. ResaleOf(AfterRepairValue(scenario)) \in Int
      BY <1>3, <2>7
    <3> QED
      BY <1>2, <3>1 DEF FlipResale
  <2> QED
    BY <1>1, <1>3, <2>4, <2>6, <2>7, <2>8
<1> QED
  BY <1>4, <1>5

(* What a purchase at the cash price of a scenario earns is the target margin,  *)
(* give or take the rounding of four terms, and a lower price earns no less.    *)
LEMMA CashEarnsMargin ==
  ASSUME UnderwritingTypes, Priced, NEW scenario \in Scenarios, NEW price \in Int,
         price <= CashMao(scenario)
  PROVE  /\ CashMao(scenario) \in Int
         /\ CashProfit(scenario, price) \in Int
         /\ 100 * CashProfit(scenario, price) - CashMargin * Value(scenario) >= -300
         /\ price = CashMao(scenario) =>
              100 * CashProfit(scenario, price) - CashMargin * Value(scenario) <= 300
<1>1. PICK value, holding, repair, resale :
        /\ value = Value(scenario) /\ holding = Holding(scenario)
        /\ repair = RepairCost(scenario) /\ resale = ResaleOf(value)
  OBVIOUS
<1>2. /\ value \in Nat /\ holding \in Int /\ repair \in Int /\ resale \in Int
      /\ AcqPct \in 0..99 /\ CashMargin \in 0..99 /\ ResalePct \in 0..99 /\ AcqFlat \in Int
  BY <1>1, CostsAreWhole, CostsAreShares, MarginsAreShares, FlatsAreWhole
<1>3. 100 \in Nat \ {0} /\ 100 + AcqPct \in Nat \ {0}
  BY <1>2
<1>4. PICK ofResale, ofRest, ofMargin, ofPrice :
        /\ ofResale = value * ResalePct /\ ofRest = value * (100 - ResalePct)
        /\ ofMargin = CashMargin * value /\ ofPrice = price * AcqPct
  OBVIOUS
<1>5. /\ ofResale \in Int /\ ofRest = 100 * value - ofResale /\ ofMargin \in Int
      /\ ofPrice \in Int /\ ofRest \in Int
  BY <1>2, <1>4
<1>6. PICK available : available = value * (100 - CashMargin) - 100 * (repair + holding + resale + AcqFlat)
  OBVIOUS
<1>7. /\ available = 100 * value - ofMargin - 100 * (repair + holding + resale + AcqFlat)
      /\ available \in Int
  BY <1>2, <1>4, <1>6
<1>8. PICK mao : mao = CashMao(scenario)
  OBVIOUS
<1>9. mao = Money(available, 100 + AcqPct)
  BY <1>1, <1>6, <1>8 DEF CashMao
<1>10. /\ mao \in Int
       /\ 2 * available - (100 + AcqPct) <= 2 * (100 + AcqPct) * mao
       /\ 2 * (100 + AcqPct) * mao <= 2 * available + (100 + AcqPct)
  BY <1>3, <1>7, <1>9, MoneyRounds
<1>11. PICK ofMao : ofMao = mao * AcqPct
  OBVIOUS
<1>12. /\ ofMao \in Int /\ 2 * (100 + AcqPct) * mao = 200 * mao + 2 * ofMao
       /\ ofPrice <= ofMao
  BY <1>2, <1>4, <1>8, <1>10, <1>11, ProductGrows
<1>13. PICK kept, acquired : kept = Money(ofRest, 100) /\ acquired = Money(ofPrice, 100)
  OBVIOUS
<1>14. /\ kept \in Int /\ 2 * ofRest - 100 <= 200 * kept /\ 200 * kept <= 2 * ofRest + 100
       /\ acquired \in Int /\ 2 * ofPrice - 100 <= 200 * acquired
       /\ 200 * acquired <= 2 * ofPrice + 100
  <2>1. /\ 2 * ofRest - 100 <= 2 * 100 * Money(ofRest, 100)
        /\ 2 * 100 * Money(ofRest, 100) <= 2 * ofRest + 100
        /\ Money(ofRest, 100) \in Int
    BY <1>3, <1>5, MoneyRounds
  <2>2. /\ 2 * ofPrice - 100 <= 2 * 100 * Money(ofPrice, 100)
        /\ 2 * 100 * Money(ofPrice, 100) <= 2 * ofPrice + 100
        /\ Money(ofPrice, 100) \in Int
    BY <1>3, <1>5, MoneyRounds
  <2> QED
    BY <1>13, <2>1, <2>2
<1>15. 2 * ofResale - 100 <= 200 * resale /\ 200 * resale <= 2 * ofResale + 100
  <2>1. /\ 2 * ofResale - 100 <= 2 * 100 * Money(ofResale, 100)
        /\ 2 * 100 * Money(ofResale, 100) <= 2 * ofResale + 100
        /\ Money(ofResale, 100) \in Int
    BY <1>3, <1>5, MoneyRounds
  <2>2. resale = Money(ofResale, 100)
    BY <1>1, <1>4 DEF ResaleOf
  <2> QED
    BY <2>1, <2>2
<1>16. CashProfit(scenario, price) = kept - (price + (acquired + AcqFlat) + repair + holding)
  BY <1>1, <1>4, <1>13 DEF CashProfit, AcquisitionCost
<1>17. PICK profit : profit = CashProfit(scenario, price)
  OBVIOUS
<1>18. profit \in Int /\ 100 * profit - ofMargin >= -300
  BY <1>2, <1>5, <1>7, <1>8, <1>10, <1>12, <1>14, <1>15, <1>16, <1>17
<1>19. price = mao => 100 * profit - ofMargin <= 300
  <2> SUFFICES ASSUME price = mao PROVE 100 * profit - ofMargin <= 300
    OBVIOUS
  <2>1. ofPrice = ofMao
    BY <1>4, <1>11
  <2> QED
    BY <1>2, <1>5, <1>7, <1>10, <1>12, <1>14, <1>15, <1>16, <1>17, <2>1
<1> QED
  BY <1>1, <1>4, <1>8, <1>10, <1>17, <1>18, <1>19

(* A number as close to nothing as a bound stays so, times another, within the *)
(* bound times the size of the other.                                          *)
LEMMA ProductIsBounded ==
  ASSUME NEW a \in Int, NEW bound \in Nat, NEW x \in Int, NEW size \in Nat,
         -bound <= a, a <= bound, -size <= x, x <= size
  PROVE  -(bound * size) <= a * x /\ a * x <= bound * size
<1>1. CASE x >= 0
  <2>1. x \in Nat
    BY <1>1
  <2>2. (-bound) * x <= a * x /\ a * x <= bound * x
    BY <2>1, ProductGrows
  <2>3. bound * x <= bound * size
    <3>1. x * bound <= size * bound
      BY ProductGrows
    <3> QED
      BY <3>1
  <2> QED
    BY <2>1, <2>2, <2>3
<1>2. CASE x < 0
  <2>1. -x \in Nat /\ -x <= size
    BY <1>2
  <2>2. PICK y \in Nat : y = -x /\ y <= size
    BY <2>1
  <2>3. (-bound) * y <= a * y /\ a * y <= bound * y
    BY <2>2, ProductGrows
  <2>4. bound * y <= bound * size
    <3>1. y * bound <= size * bound
      BY <2>2, ProductGrows
    <3> QED
      BY <2>2, <3>1
  <2>5. a * x = -(a * y) /\ (-bound) * y = -(bound * y)
    BY <2>2
  <2>6. a * y \in Int /\ bound * y \in Int /\ bound * size \in Int
    BY <2>2
  <2> QED
    BY <2>3, <2>4, <2>5, <2>6
<1> QED
  BY <1>1, <1>2

(* What a loan costs, and the share of the price and the repairs that its       *)
(* financing comes to, in thousandths.                                          *)
LEMMA LoanIsCounted ==
  ASSUME NEW scenario \in Scenarios
  PROVE  /\ LoanCost(scenario) \in Nat /\ FinancingCoefficient(scenario) \in Nat
         /\ -100 <= 2 * (LoanPct * LoanCost(scenario)) - 200 * FinancingCoefficient(scenario)
         /\ 2 * (LoanPct * LoanCost(scenario)) - 200 * FinancingCoefficient(scenario) <= 100
<1>1. /\ PointsPct \in Nat /\ RatePct \in Nat /\ LoanPct \in Nat /\ BaseMonths \in Nat
      /\ PeriodFactor(scenario) \in Nat
  BY RatesAreCounted, CostsAreCounted DEF PeriodFactor, Scenarios
<1>2. PICK cost : cost = 1200 * PointsPct + RatePct * BaseMonths * PeriodFactor(scenario)
  OBVIOUS
<1>3. cost \in Int /\ cost >= 0
  <2>1. RatePct * BaseMonths \in Nat
    BY <1>1
  <2>2. RatePct * BaseMonths * PeriodFactor(scenario) \in Nat
    BY <1>1, <2>1
  <2> QED
    BY <1>1, <1>2, <2>2
<1>4. 100 \in Nat \ {0} /\ 120 \in Nat \ {0}
  OBVIOUS
<1>5. Money(cost, 120) \in Int /\ Money(cost, 120) >= 0
  BY <1>3, <1>4, MoneyRounds
<1>6. LoanCost(scenario) \in Nat
  BY <1>2, <1>5 DEF LoanCost
<1>7. PICK part : part = LoanPct * LoanCost(scenario)
  OBVIOUS
<1>8. part \in Int /\ part >= 0
  BY <1>1, <1>6, <1>7
<1>9. /\ Money(part, 100) \in Int /\ (part >= 0 => Money(part, 100) >= 0)
      /\ 2 * part - 100 <= 2 * 100 * Money(part, 100)
      /\ 2 * 100 * Money(part, 100) <= 2 * part + 100
  BY <1>4, <1>8, MoneyRounds
<1>10. FinancingCoefficient(scenario) = Money(part, 100)
  BY <1>7 DEF FinancingCoefficient
<1> QED
  BY <1>6, <1>7, <1>8, <1>9, <1>10

(* A flip at its price earns the target margin, give or take the rounding: the  *)
(* interest follows the loan, the loan the price and the repairs.               *)
LEMMA FlipEarnsMargin ==
  ASSUME UnderwritingTypes, Priced, repairBase # Unknown, NEW scenario \in Scenarios
  PROVE  /\ FlipMao(scenario) \in Int
         /\ 100 * FlipProfit(scenario, FlipMao(scenario))
              - FlipMargin * AfterRepairValue(scenario) >= -100 * Slack(scenario)
         /\ 100 * FlipProfit(scenario, FlipMao(scenario))
              - FlipMargin * AfterRepairValue(scenario) <= 100 * Slack(scenario)
<1>1. PICK arv, holding, repair, resale, cost, coefficient, price :
        /\ arv = AfterRepairValue(scenario) /\ holding = Holding(scenario)
        /\ repair = RepairCost(scenario) /\ resale = FlipResale(scenario)
        /\ cost = LoanCost(scenario) /\ coefficient = FinancingCoefficient(scenario)
        /\ price = FlipMao(scenario)
  OBVIOUS
<1>2. /\ arv \in Nat /\ holding \in Int /\ repair \in Int /\ resale \in Int
      /\ cost \in Nat /\ coefficient \in Nat
      /\ AcqPct \in 0..99 /\ FlipMargin \in 0..99 /\ LoanPct \in Nat
      /\ AcqFlat \in Int /\ FinancingFlat \in Int
      /\ -100 <= 2 * (LoanPct * cost) - 200 * coefficient
      /\ 2 * (LoanPct * cost) - 200 * coefficient <= 100
  BY <1>1, CostsAreWhole, LoanIsCounted, CostsAreShares, MarginsAreShares, FlatsAreWhole,
     RatesAreCounted
<1>3. PICK ofMargin, ofRest, ofRepair :
        /\ ofMargin = FlipMargin * arv /\ ofRest = arv * (100 - FlipMargin)
        /\ ofRepair = coefficient * repair
  OBVIOUS
<1>4. /\ ofMargin \in Int /\ ofRest \in Int /\ ofRepair \in Int
      /\ ofRest = 100 * arv - ofMargin
  BY <1>2, <1>3
<1>5. PICK kept : kept = Money(ofRest, 100)
  OBVIOUS
<1>6. kept \in Int /\ 2 * ofRest - 100 <= 200 * kept /\ 200 * kept <= 2 * ofRest + 100
  <2>1. 100 \in Nat \ {0}
    OBVIOUS
  <2>2. /\ Money(ofRest, 100) \in Int
        /\ 2 * ofRest - 100 <= 2 * 100 * Money(ofRest, 100)
        /\ 2 * 100 * Money(ofRest, 100) <= 2 * ofRest + 100
    BY <1>4, <2>1, MoneyRounds
  <2> QED
    BY <1>5, <2>2
<1>7. PICK constant, divisor :
        /\ constant = kept - repair - holding - resale - AcqFlat - FinancingFlat
        /\ divisor = 1000 + coefficient + 10 * AcqPct
  OBVIOUS
<1>8. constant \in Int /\ divisor \in Nat \ {0} /\ 1000 * constant - ofRepair \in Int
  BY <1>2, <1>4, <1>6, <1>7
<1>9. price = Money(1000 * constant - ofRepair, divisor)
  BY <1>1, <1>3, <1>5, <1>7 DEF FlipMao
<1>10. /\ price \in Int
       /\ 2 * (1000 * constant - ofRepair) - divisor <= 2 * divisor * price
       /\ 2 * divisor * price <= 2 * (1000 * constant - ofRepair) + divisor
  <2>1. PICK amount : amount = 1000 * constant - ofRepair
    OBVIOUS
  <2>2. /\ Money(amount, divisor) \in Int
        /\ 2 * amount - divisor <= 2 * divisor * Money(amount, divisor)
        /\ 2 * divisor * Money(amount, divisor) <= 2 * amount + divisor
    BY <1>8, <2>1, MoneyRounds
  <2>3. price = Money(amount, divisor)
    BY <1>9, <2>1
  <2> QED
    BY <2>1, <2>2, <2>3
<1>11. PICK ofPrice, ofLoan : ofPrice = price * AcqPct /\ ofLoan = coefficient * price
  OBVIOUS
<1>12. /\ ofPrice \in Int /\ ofLoan \in Int
       /\ 2 * divisor * price = 2000 * price + 2 * ofLoan + 20 * ofPrice
  <2>1. \A k, a, p \in Int : 2 * (1000 + k + 10 * a) * p = 2000 * p + 2 * (k * p) + 20 * (p * a)
    OBVIOUS
  <2>2. coefficient \in Int /\ AcqPct \in Int /\ price \in Int
    BY <1>2, <1>10
  <2>3. ofPrice \in Int /\ ofLoan \in Int
    BY <1>11, <2>2
  <2> QED
    BY <1>7, <1>11, <2>1, <2>2, <2>3
<1>13. PICK acquired : acquired = Money(ofPrice, 100)
  OBVIOUS
<1>14. acquired \in Int /\ 2 * ofPrice - 100 <= 200 * acquired /\ 200 * acquired <= 2 * ofPrice + 100
  <2>1. 100 \in Nat \ {0}
    OBVIOUS
  <2>2. /\ Money(ofPrice, 100) \in Int
        /\ 2 * ofPrice - 100 <= 2 * 100 * Money(ofPrice, 100)
        /\ 2 * 100 * Money(ofPrice, 100) <= 2 * ofPrice + 100
    <3>1. ofPrice \in Int
      BY <1>12
    <3> QED
      BY <2>1, <3>1, MoneyRounds
  <2> QED
    BY <1>13, <2>2
<1>15. PICK basis, size : basis = price + repair /\ size = Financed(scenario)
  OBVIOUS
<1>16. basis \in Int /\ size \in Nat /\ -size <= basis /\ basis <= size
  BY <1>1, <1>2, <1>10, <1>15 DEF Financed
<1>17. PICK loan, interest :
         /\ loan = Money(LoanPct * basis, 100) /\ interest = Money(loan * cost, 1000)
  OBVIOUS
<1>18. PICK lent, fees, exact :
         /\ lent = LoanPct * basis /\ fees = loan * cost /\ exact = (LoanPct * cost) * basis
  OBVIOUS
<1>19. lent \in Int /\ loan \in Int /\ 2 * lent - 100 <= 200 * loan /\ 200 * loan <= 2 * lent + 100
  <2>1. 100 \in Nat \ {0}
    OBVIOUS
  <2>2. lent \in Int
    BY <1>2, <1>16, <1>18
  <2>3. /\ Money(lent, 100) \in Int
        /\ 2 * lent - 100 <= 2 * 100 * Money(lent, 100)
        /\ 2 * 100 * Money(lent, 100) <= 2 * lent + 100
    BY <2>1, <2>2, MoneyRounds
  <2> QED
    BY <1>17, <1>18, <2>2, <2>3
<1>20. /\ fees \in Int /\ exact \in Int
       /\ 2 * exact - 100 * cost <= 200 * fees /\ 200 * fees <= 2 * exact + 100 * cost
  <2>1. fees \in Int /\ LoanPct * cost \in Int
    BY <1>2, <1>18, <1>19
  <2>2. exact \in Int
    BY <1>16, <1>18, <2>1
  <2>3. /\ (2 * lent - 100) * cost <= (200 * loan) * cost
        /\ (200 * loan) * cost <= (2 * lent + 100) * cost
    <3>1. 2 * lent - 100 \in Int /\ 200 * loan \in Int /\ 2 * lent + 100 \in Int
      BY <1>19
    <3> QED
      BY <1>2, <1>19, <3>1, ProductGrows
  <2>4. lent * cost = exact
    BY <1>2, <1>16, <1>18
  <2>5. /\ (2 * lent - 100) * cost = 2 * (lent * cost) - 100 * cost
        /\ (2 * lent + 100) * cost = 2 * (lent * cost) + 100 * cost
        /\ (200 * loan) * cost = 200 * (loan * cost)
    BY <1>2, <1>19
  <2> QED
    BY <1>18, <2>1, <2>2, <2>3, <2>4, <2>5
<1>21. /\ interest \in Int /\ 2 * fees - 1000 <= 2000 * interest
       /\ 2000 * interest <= 2 * fees + 1000
  <2>1. 1000 \in Nat \ {0}
    OBVIOUS
  <2>2. /\ Money(fees, 1000) \in Int
        /\ 2 * fees - 1000 <= 2 * 1000 * Money(fees, 1000)
        /\ 2 * 1000 * Money(fees, 1000) <= 2 * fees + 1000
    <3>1. fees \in Int
      BY <1>20
    <3> QED
      BY <2>1, <3>1, MoneyRounds
  <2> QED
    BY <1>17, <1>18, <2>2
<1>22. /\ 2 * exact - 200 * (ofLoan + ofRepair) <= 100 * size
       /\ -(100 * size) <= 2 * exact - 200 * (ofLoan + ofRepair)
  <2>1. PICK gap : gap = 2 * (LoanPct * cost) - 200 * coefficient
    OBVIOUS
  <2>2. LoanPct * cost \in Int
    BY <1>2
  <2>3. gap \in Int /\ -100 <= gap /\ gap <= 100
    BY <1>2, <2>1, <2>2
  <2>4. -(100 * size) <= gap * basis /\ gap * basis <= 100 * size
    BY <1>16, <2>3, ProductIsBounded
  <2>5. gap * basis = 2 * exact - 200 * (coefficient * basis)
    BY <1>2, <1>16, <1>18, <2>1, <2>2
  <2>6. coefficient * basis = ofLoan + ofRepair
    BY <1>2, <1>3, <1>10, <1>11, <1>15
  <2> QED
    BY <2>4, <2>5, <2>6
<1>23. FlipProfit(scenario, price)
         = arv - (price + repair + holding + (acquired + AcqFlat) + (interest + FinancingFlat) + resale)
  <2>1. FlipLoan(scenario, price) = loan
    BY <1>1, <1>15, <1>17 DEF FlipLoan
  <2>2. Financing(loan, scenario) = interest + FinancingFlat
    BY <1>1, <1>17 DEF Financing
  <2>3. AcquisitionCost(price) = acquired + AcqFlat
    BY <1>11, <1>13 DEF AcquisitionCost
  <2> QED
    BY <1>1, <2>1, <2>2, <2>3 DEF FlipProfit
<1>24. PICK slack : slack = Slack(scenario)
  OBVIOUS
<1>25. slack \in Int /\ cost + coefficient + size < 2000 * (slack - 3)
  <2>1. PICK total : total = cost + coefficient + size
    OBVIOUS
  <2>2. total \in Int /\ 2000 \in Nat \ {0}
    BY <1>2, <1>16, <2>1
  <2>3. total \div 2000 \in Int /\ total < 2000 * (total \div 2000) + 2000
    BY <2>2, DivRounds
  <2>4. slack = 4 + total \div 2000
    BY <1>1, <1>15, <1>24, <2>1 DEF Slack
  <2> QED
    BY <2>1, <2>3, <2>4
<1>26. PICK profit : profit = FlipProfit(scenario, price)
  OBVIOUS
<1>27. profit \in Int /\ 100 * profit - ofMargin >= -100 * slack
  BY <1>2, <1>4, <1>6, <1>7, <1>10, <1>12, <1>14, <1>16, <1>20, <1>21, <1>22, <1>23, <1>25, <1>26
<1>28. 100 * profit - ofMargin <= 100 * slack
  BY <1>2, <1>4, <1>6, <1>7, <1>10, <1>12, <1>14, <1>16, <1>20, <1>21, <1>22, <1>23, <1>25, <1>26
<1> QED
  BY <1>1, <1>3, <1>10, <1>24, <1>26, <1>27, <1>28

(* Money of a product, which may be negative, is whole.                         *)
LEMMA ShareIsWhole ==
  ASSUME NEW amount \in Int, NEW share \in Int
  PROVE  Money(amount * share, 100) \in Int
<1>1. PICK product : product = amount * share
  OBVIOUS
<1>2. product \in Int /\ 100 \in Nat \ {0}
  BY <1>1
<1> QED
  BY <1>1, <1>2, MoneyRounds

(* A share of a smaller amount is no greater.                                   *)
LEMMA ShareGrows ==
  ASSUME NEW less \in Int, NEW more \in Int, NEW share \in Nat, less <= more
  PROVE  /\ Money(less * share, 100) \in Int /\ Money(more * share, 100) \in Int
         /\ Money(less * share, 100) <= Money(more * share, 100)
<1>1. PICK a, b : a = less * share /\ b = more * share
  OBVIOUS
<1>2. a \in Int /\ b \in Int /\ a <= b /\ 100 \in Nat \ {0}
  BY <1>1, ProductGrows
<1>3. Money(a, 100) \in Int /\ Money(b, 100) \in Int
  BY <1>2, MoneyRounds
<1>4. Money(a, 100) <= Money(b, 100)
  BY <1>2, MoneyGrows
<1> QED
  BY <1>1, <1>3, <1>4

(* A rental earns less at a higher price, and less in a scenario that values    *)
(* the house higher.                                                            *)
LEMMA CashFlowFalls ==
  ASSUME UnderwritingTypes, Priced, NEW rent \in Int, NEW price \in Int, NEW lower \in Int,
         NEW scenario \in Scenarios, NEW other \in Scenarios,
         lower <= price, Value(other) <= Value(scenario)
  PROVE  /\ CashFlow(rent, scenario, price) \in Int /\ CashFlow(rent, other, lower) \in Int
         /\ CashFlow(rent, scenario, price) <= CashFlow(rent, other, lower)
<1>1. /\ VacancyPct \in Nat /\ OperatingPct \in Nat /\ RentalLoanPct \in Nat
      /\ InsurancePct \in Nat /\ DebtServicePct \in Nat /\ YearlyDues \in Int
  BY RentalIsSane, RatesAreCounted, FlatsAreWhole
<1>2. EffectiveIncome(rent) \in Int
  <2>1. PICK income, let : income = 12 * rent /\ let = 100 - VacancyPct
    OBVIOUS
  <2>2. income \in Int /\ let \in Int
    BY <1>1, <2>1
  <2> QED
    BY <2>1, <2>2, ShareIsWhole DEF EffectiveIncome
<1>3. PICK operating, insured, insuredOther, owedAt, owedAtLower :
        /\ operating = Money(EffectiveIncome(rent) * OperatingPct, 100)
        /\ insured = Money(Value(scenario) * InsurancePct, 100)
        /\ insuredOther = Money(Value(other) * InsurancePct, 100)
        /\ owedAt = Money(price * RentalLoanPct, 100)
        /\ owedAtLower = Money(lower * RentalLoanPct, 100)
  OBVIOUS
<1>4. operating \in Int
  BY <1>1, <1>2, <1>3, ShareIsWhole
<1>5. insured \in Int /\ insuredOther \in Int /\ insuredOther <= insured
  <2>1. Value(other) \in Int /\ Value(scenario) \in Int
    BY ScenarioValues
  <2> QED
    BY <1>1, <1>3, <2>1, ShareGrows
<1>6. owedAt \in Int /\ owedAtLower \in Int /\ owedAtLower <= owedAt
  BY <1>1, <1>3, ShareGrows
<1>7. PICK paid, paidLower :
        /\ paid = Money(owedAt * DebtServicePct, 100)
        /\ paidLower = Money(owedAtLower * DebtServicePct, 100)
  OBVIOUS
<1>8. paid \in Int /\ paidLower \in Int /\ paidLower <= paid
  BY <1>1, <1>6, <1>7, ShareGrows
<1>9. /\ CashFlow(rent, scenario, price)
           = EffectiveIncome(rent) - (YearlyDues + insured + operating) - paid
      /\ CashFlow(rent, other, lower)
           = EffectiveIncome(rent) - (YearlyDues + insuredOther + operating) - paidLower
  BY <1>3, <1>7 DEF CashFlow, NetIncome
<1> QED
  BY <1>1, <1>2, <1>4, <1>5, <1>8, <1>9

(* The conservative scenario is the worse one for a loan taken over, and the    *)
(* better one for the insurance of a rental.                                    *)
LEMMA WorseIsWorse == ASSUME UnderwritingTypes PROVE WorseCaseIsWorse
<1> SUFFICES ASSUME Priced PROVE WorseCaseIsWorse
  BY DEF WorseCaseIsWorse
<1>1. /\ Value("conservative") = VLow /\ Value("optimistic") = VHigh
      /\ VLow \in Nat /\ VHigh \in Nat /\ VLow <= VHigh
      /\ {"conservative", "optimistic"} \subseteq Scenarios
  BY ScenarioValues, ValuesInOrder DEF Scenarios
<1>2. ASSUME LowLoanToValue("conservative") = "yes"
      PROVE  LowLoanToValue("optimistic") = "yes"
  <2>1. PICK balance : balance = BalanceNow(FirstMortgageOf(mortgages))
    OBVIOUS
  <2>2. /\ OpenAt(mortgages, "1") # {} /\ balance # Unknown /\ VLow # 0
        /\ 5 * balance <= 4 * VLow
    BY <1>1, <1>2, <2>1 DEF LowLoanToValue
  <2>3. balance \in Nat
    <3>1. mortgages \in Seq(Mortgage)
      BY DEF UnderwritingTypes
    <3>2. PICK i \in OpenAt(mortgages, "1") : FirstMortgageOf(mortgages) = mortgages[i]
      BY <2>2, FirstMortgageIsOpen
    <3>3. mortgages[i] \in Mortgage
      BY <3>1, BalancesAreCounted, PlacesAreFinite
    <3> QED
      BY <2>1, <2>2, <3>2, <3>3, BalanceOfToday
  <2>4. VHigh # 0 /\ 5 * balance <= 4 * VHigh
    BY <1>1, <2>2, <2>3
  <2> QED
    BY <1>1, <2>1, <2>2, <2>4 DEF LowLoanToValue
<1>3. ASSUME NEW rent \in Rents, NEW price \in Prices
      PROVE  CashFlow(rent, "optimistic", price) <= CashFlow(rent, "conservative", price)
  <2>1. rent \in Int /\ price \in Int /\ price <= price
    BY OffersAreWhole
  <2> QED
    BY <1>1, <2>1, CashFlowFalls
<1> QED
  BY <1>2, <1>3 DEF WorseCaseIsWorse

(* So is the highest cash price.                                                *)
LEMMA CashMaoIsWhole ==
  ASSUME UnderwritingTypes, Priced, NEW scenario \in Scenarios
  PROVE  CashMao(scenario) \in Int
<1>1. PICK value, costs : /\ value = Value(scenario)
                          /\ costs = RepairCost(scenario) + Holding(scenario)
                                       + ResaleOf(Value(scenario)) + AcqFlat
  OBVIOUS
<1>2. value \in Int /\ costs \in Int
  <2>1. AcqFlat \in Int
    BY FlatsAreWhole
  <2> QED
    BY <1>1, <2>1, CostsAreWhole
<1>3. value * (100 - CashMargin) - 100 * costs \in Int /\ 100 + AcqPct \in Nat \ {0}
  BY <1>2, CostsAreShares, MarginsAreShares
<1>4. CashMao(scenario) = Money(value * (100 - CashMargin) - 100 * costs, 100 + AcqPct)
  BY <1>1 DEF CashMao
<1> QED
  BY <1>3, <1>4, MoneyRounds

(* Offers are whole amounts.                                                    *)
LEMMA OffersAreAmounts ==
  ASSUME UnderwritingTypes, Priced, NEW scenario \in Scenarios
  PROVE  Offers(scenario) \subseteq Int
<1>1. GridOffers \subseteq Int
  <2> SUFFICES ASSUME NEW i \in 0..8
               PROVE  Money(VExp * (60 + 5 * i), 100 * GridStep) * GridStep \in Int
    BY DEF GridOffers
  <2>1. GridStep \in Nat \ {0} /\ 100 * GridStep \in Nat \ {0}
    BY OffersAreWhole
  <2>2. VExp * (60 + 5 * i) \in Int
    BY ValuesInOrder
  <2>3. Money(VExp * (60 + 5 * i), 100 * GridStep) \in Int
    BY <2>1, <2>2, MoneyRounds
  <2> QED
    BY <2>1, <2>3
<1>2. CashMao(scenario) \in Int
  BY CashMaoIsWhole
<1>3. repairBase # Unknown => FlipMao(scenario) \in Int
  BY FlipEarnsMargin
<1>4. Markers(scenario) \subseteq Int
  BY <1>2, <1>3 DEF Markers
<1> QED
  BY <1>1, <1>4 DEF Offers

(* A higher offer leaves the seller no less, and the low proceeds are at most   *)
(* the expected and those at most the high ones.                                *)
LEMMA ProceedsGrow ==
  ASSUME UnderwritingTypes, NEW offer \in Int, NEW more \in Int, offer <= more
  PROVE  /\ ProceedsLow(offer) \in Int /\ ProceedsLow(more) \in Int
         /\ ProceedsLow(offer) <= ProceedsLow(more)
         /\ ProceedsLow(offer) <= ProceedsExpected(offer)
         /\ ProceedsExpected(offer) <= ProceedsHigh(offer)
<1>1. PICK potential, weighted, payoffs :
        /\ potential = Potential(mortgages, liens, bid) /\ weighted = OfferWeightedPotential
        /\ payoffs = ConfirmedPayoffs
  OBVIOUS
<1>2. potential \in Nat /\ weighted \in Nat /\ weighted <= potential
  BY <1>1, PotentialIsWeighed
<1>3. payoffs \in Int /\ ClosingFlat \in Int /\ ClosingPct \in 0..99
  <2>1. PayoffFees \in Int /\ Confirmed(mortgages, liens, bid, arrears) \in Int
    BY PotentialIsWeighed, FlatsAreWhole
  <2> QED
    BY <1>1, <2>1, FlatsAreWhole, CostsAreShares DEF ConfirmedPayoffs
<1>4. PICK part, partMore : part = offer * ClosingPct /\ partMore = more * ClosingPct
  OBVIOUS
<1>5. /\ part \in Int /\ partMore \in Int
      /\ 100 * partMore - 100 * part <= 9900 * (more - offer)
  <2>1. ClosingPct * (more - offer) <= 99 * (more - offer)
    <3>1. more - offer \in Nat /\ ClosingPct <= 99
      BY <1>3
    <3> QED
      BY <1>3, <3>1, ProductGrows
  <2>2. ClosingPct * (more - offer) = partMore - part
    BY <1>3, <1>4
  <2> QED
    BY <1>3, <1>4, <2>1, <2>2
<1>6. PICK closing, closingMore : closing = Money(part, 100) /\ closingMore = Money(partMore, 100)
  OBVIOUS
<1>7. /\ closing \in Int /\ closingMore \in Int
      /\ 2 * part - 100 <= 200 * closing /\ 200 * closingMore <= 2 * partMore + 100
  <2>1. 100 \in Nat \ {0}
    OBVIOUS
  <2>2. Money(part, 100) \in Int /\ 2 * part - 100 <= 2 * 100 * Money(part, 100)
    BY <1>5, <2>1, MoneyRounds
  <2>3. Money(partMore, 100) \in Int /\ 2 * 100 * Money(partMore, 100) <= 2 * partMore + 100
    BY <1>5, <2>1, MoneyRounds
  <2> QED
    BY <1>6, <2>2, <2>3
<1>8. more - offer >= closingMore - closing
  <2>1. CASE more = offer
    BY <1>4, <1>6, <1>7, <2>1
  <2>2. CASE more >= offer + 1
    BY <1>5, <1>7, <2>2
  <2> QED
    BY <2>1, <2>2
<1>9. /\ ProceedsHigh(offer) = offer - payoffs - (closing + ClosingFlat)
      /\ ProceedsHigh(more) = more - payoffs - (closingMore + ClosingFlat)
  BY <1>1, <1>4, <1>6 DEF ProceedsHigh, SellerClosing
<1>10. /\ ProceedsExpected(offer) = ProceedsHigh(offer) - weighted
       /\ ProceedsLow(offer) = ProceedsHigh(offer) - potential
       /\ ProceedsLow(more) = ProceedsHigh(more) - potential
  BY <1>1 DEF ProceedsExpected, ProceedsLow
<1> QED
  BY <1>2, <1>3, <1>7, <1>8, <1>9, <1>10

(* Every offer shown leaves a range in order.                                  *)
LEMMA ProceedsInOrder == ASSUME UnderwritingTypes PROVE ProceedsAreOrdered
<1> SUFFICES ASSUME Priced, NEW scenario \in Scenarios, NEW offer \in Offers(scenario)
             PROVE  /\ ProceedsLow(offer) <= ProceedsExpected(offer)
                    /\ ProceedsExpected(offer) <= ProceedsHigh(offer)
                    /\ \/ offer \in {o \in Offers(scenario) : IsShortSale(o)}
                       \/ \A short \in {o \in Offers(scenario) : IsShortSale(o)} : short < offer
  BY DEF ProceedsAreOrdered
<1>1. Offers(scenario) \subseteq Int
  BY OffersAreAmounts
<1>2. offer \in Int /\ offer <= offer
  BY <1>1
<1>3. /\ ProceedsLow(offer) <= ProceedsExpected(offer)
      /\ ProceedsExpected(offer) <= ProceedsHigh(offer)
  BY <1>2, ProceedsGrow
<1>4. ASSUME ~IsShortSale(offer), NEW short \in Offers(scenario), IsShortSale(short)
      PROVE  short < offer
  <2>1. SUFFICES ASSUME offer <= short PROVE FALSE
    BY <1>1, <1>2
  <2>2. /\ ProceedsLow(offer) \in Int /\ ProceedsLow(short) \in Int
        /\ ProceedsLow(offer) <= ProceedsLow(short)
    BY <1>1, <1>2, <2>1, ProceedsGrow
  <2> QED
    BY <1>4, <2>2 DEF IsShortSale
<1> QED
  BY <1>3, <1>4

(* A contract can be assigned exactly up to the wholesale price.                *)
LEMMA AssignableUpToMao ==
  ASSUME UnderwritingTypes, Priced, repairBase # Unknown, NEW scenario \in Scenarios,
         NEW price \in Int
  PROVE  /\ WholesaleMao(scenario) \in Int
         /\ Assignable(scenario, price) <=> price <= WholesaleMao(scenario)
<1>1. InvestorThreshold(scenario) \in Int
  <2>1. /\ AfterRepairValue(scenario) \in Int /\ RepairCost(scenario) \in Int
        /\ InvestorPct \in Int
    BY CostsAreWhole, RatesAreCounted
  <2>2. Money(AfterRepairValue(scenario) * InvestorPct, 100) \in Int
    BY <2>1, ShareIsWhole
  <2> QED
    BY <2>1, <2>2 DEF InvestorThreshold
<1>2. MinSpread \in Int
  BY FlatsAreWhole
<1> QED
  BY <1>1, <1>2 DEF WholesaleMao, Assignable

(* The highest prices keep what they promise.                                  *)
LEMMA MaoEarnsItsMargin == ASSUME UnderwritingTypes PROVE MaoEarnsMargin
<1> SUFFICES ASSUME Priced PROVE MaoEarnsMargin
  BY DEF MaoEarnsMargin
<1>1. ASSUME NEW scenario \in Scenarios
      PROVE  /\ 100 * CashProfit(scenario, CashMao(scenario)) - CashMargin * Value(scenario) >= -300
             /\ 100 * CashProfit(scenario, CashMao(scenario)) - CashMargin * Value(scenario) <= 300
             /\ \A price \in Prices :
                  price <= CashMao(scenario) =>
                    100 * CashProfit(scenario, price) - CashMargin * Value(scenario) >= -300
  <2>1. PICK mao : mao = CashMao(scenario)
    OBVIOUS
  <2>2. mao \in Int /\ mao <= mao
    <3>1. CashMao(scenario) \in Int
      BY <1>1, CashMaoIsWhole
    <3> QED
      BY <2>1, <3>1
  <2>3. /\ 100 * CashProfit(scenario, mao) - CashMargin * Value(scenario) >= -300
        /\ 100 * CashProfit(scenario, mao) - CashMargin * Value(scenario) <= 300
    BY <1>1, <2>1, <2>2, CashEarnsMargin
  <2>4. ASSUME NEW price \in Prices, price <= CashMao(scenario)
        PROVE  100 * CashProfit(scenario, price) - CashMargin * Value(scenario) >= -300
    <3>1. price \in Int
      BY OffersAreWhole
    <3> QED
      BY <1>1, <2>4, <3>1, CashEarnsMargin
  <2> QED
    BY <2>1, <2>3, <2>4
<1>2. ASSUME NEW scenario \in Scenarios, repairBase # Unknown
      PROVE  /\ 100 * FlipProfit(scenario, FlipMao(scenario))
                  - FlipMargin * AfterRepairValue(scenario) >= -100 * Slack(scenario)
             /\ 100 * FlipProfit(scenario, FlipMao(scenario))
                  - FlipMargin * AfterRepairValue(scenario) <= 100 * Slack(scenario)
             /\ \A price \in Prices \cup {WholesaleMao(scenario), FlipMao(scenario)} :
                  Assignable(scenario, price) <=> price <= WholesaleMao(scenario)
  <2>1. Prices \cup {WholesaleMao(scenario), FlipMao(scenario)} \subseteq Int
    <3>1. WholesaleMao(scenario) \in Int
      <4>1. 0 \in Int
        OBVIOUS
      <4> QED
        BY <1>2, <4>1, AssignableUpToMao
    <3>2. FlipMao(scenario) \in Int
      BY <1>2, FlipEarnsMargin
    <3> QED
      BY <3>1, <3>2, OffersAreWhole
  <2>2. \A price \in Prices \cup {WholesaleMao(scenario), FlipMao(scenario)} :
          Assignable(scenario, price) <=> price <= WholesaleMao(scenario)
    BY <1>2, <2>1, AssignableUpToMao
  <2> QED
    BY <1>2, <2>2, FlipEarnsMargin
<1>3. ASSUME NEW scenario \in Scenarios, NEW rent \in Rents, NEW price \in Prices,
             NEW lower \in Prices, lower <= price, CashFlow(rent, scenario, price) >= 0
      PROVE  CashFlow(rent, scenario, lower) >= 0
  <2>1. rent \in Int /\ price \in Int /\ lower \in Int
    BY OffersAreWhole
  <2>2. Value(scenario) <= Value(scenario)
    BY <1>3, ScenarioValues
  <2>3. /\ CashFlow(rent, scenario, price) \in Int /\ CashFlow(rent, scenario, lower) \in Int
        /\ CashFlow(rent, scenario, price) <= CashFlow(rent, scenario, lower)
    BY <1>3, <2>1, <2>2, CashFlowFalls
  <2> QED
    BY <1>3, <2>3
<1> QED
  BY <1>1, <1>2, <1>3 DEF MaoEarnsMargin

(* What is shown as an offer can be acted on.                                  *)
LEMMA OffersHold == UnderwritingTypes => OffersAreHonest
BY ScenariosInOrder, ProceedsInOrder, WorseIsWorse, MaoEarnsItsMargin
   DEF OffersAreHonest, RangesAreOrdered

(*****************************************************************************)
(* The components side by side.                                              *)
(*****************************************************************************)

(* A behaviour of the composition is one of each component.                     *)
LEMMA ComponentsRun ==
  MoneySpec => ChatSpec /\ SpendSpec /\ CallSpec /\ UnderwritingSpec /\ GauntletSpec
                 /\ ResolutionSpec
<1>1. MoneyInit => /\ ChatInit /\ SpendInit /\ CallInit /\ UnderwritingInit /\ GauntletInit
                   /\ ResolutionInit
  BY DEF MoneyInit
<1>2. ASSUME [MoneyNext]_moneyVars
      PROVE  /\ [ChatNext]_chatVars /\ [SpendNext]_spendVars /\ [CallNext]_callVars
             /\ [UnderwritingNext]_underwritingVars /\ [GauntletNext]_gauntletVars
             /\ [ResolutionNext]_resolutionVars
  BY <1>2, Zenon DEF MoneyNext, moneyVars
<1> QED
  BY <1>1, <1>2, PTL DEF MoneySpec, ChatSpec, SpendSpec, CallSpec, UnderwritingSpec,
                         GauntletSpec, ResolutionSpec

(* Whatever chat, document analysis, the gauntlet, the resolver and the engines *)
(* do, their rows keep their types (MCMoney's components, see each module).     *)
THEOREM MoneyIsTyped == MoneySpec => []MoneyTypeOK
BY ComponentsRun, ChatTyped, SpendTyped, CallTyped, UnderwritingTyped, GauntletTyped,
   ResolutionTyped, PTL DEF MoneyTypeOK

(* The record accounts for what the reports state: the gauntlet drops a fact    *)
(* only for a contradiction in its own unit, the resolver joins two claims      *)
(* exactly when a chain of equal mortgages links them, and a balance that is    *)
(* not shown has left a conflict behind, lies within the tolerance of the shown *)
(* one or gave way to an operator's (validation.py run_gauntlet,                *)
(* resolver.py _resolve_mortgages, _money_conflict).                            *)
THEOREM RecordIsComplete == MoneySpec => []RecordAccountsForClaims
<1>1. LedgerInv => MergeIsClosure /\ DebtNeverDropsUnflagged
  BY MortgagesAreComponents, DebtIsKept
<1> QED
  BY <1>1, ComponentsRun, LedgerInvariant, ScreeningStaysLocal, PTL
     DEF RecordAccountsForClaims

(* The debts the engines show of one record agree: no lien of an owner is ever  *)
(* confirmed, a record that is said to hold no debt has none summed up, a bid   *)
(* that lowers the confirmed debt by more than a fifth of it leaves a flag, and *)
(* the foreclosure strategy, with balances of its own, counts no more than is   *)
(* confirmed but for a mortgage the engine cannot value and a bid it leaves out *)
(* (finance/engine.py _liabilities, _has_debt_data, _bid_mismatch,              *)
(* strategies/engine.py foreclosure, _resolved_mortgage_balance).               *)
THEOREM DebtIsCountedOnce == MoneySpec => []DebtFiguresAgree
<1>1. UnderwritingTypes /\ [UnderwritingNext]_underwritingVars => UnderwritingTypes'
  BY UnderwritingStaysTyped
<1> QED
  BY <1>1, ComponentsRun, UnderwritingStartsTyped, DebtAgrees, PTL DEF UnderwritingSpec

(* What the page shows as an offer can be acted on, whatever the record and the *)
(* assumption set: values, equity, costs, realizable amounts and the seller's   *)
(* proceeds are ranges in order, a higher offer never becomes a short sale, a   *)
(* purchase at the highest price of cash or flip earns its margin to the        *)
(* rounding of its terms, a contract can be assigned up to the wholesale price  *)
(* and no further, and a rental that carries itself does so at a lower price    *)
(* (finance/engine.py _underwrite, strategies/engine.py _cash_mao, _flip_mao,   *)
(* wholesale, rental, offer_point).                                             *)
THEOREM OffersAreSound == MoneySpec => []OffersAreHonest
<1>1. UnderwritingTypes /\ [UnderwritingNext]_underwritingVars => UnderwritingTypes'
  BY UnderwritingStaysTyped
<1> QED
  BY <1>1, ComponentsRun, UnderwritingStartsTyped, OffersHold, PTL DEF UnderwritingSpec
==============================================================================
