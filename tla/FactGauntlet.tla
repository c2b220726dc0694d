---------------------------- MODULE FactGauntlet ----------------------------
(***************************************************************************)
(* From the answer of the model for one extraction unit to the facts that  *)
(* are stored for it (extraction/flatten.py flatten_payload, extraction/   *)
(* validation.py run_gauntlet, extraction/service.py _extract_drafts).     *)
(* An answer is a sequence of items, each with the page and the words it   *)
(* was read from; every field of an item becomes one fact.  A fact that is *)
(* not grounded, not parsed or empty without a reason is dropped; one that *)
(* is out of range or contradicts another of the SAME unit is stored       *)
(* inactive and counts for nothing.                                        *)
(*                                                                         *)
(* A report goes to the model in units of some pages, so what the gauntlet *)
(* compares is what one unit happened to hold.                             *)
(***************************************************************************)
EXTENDS Integers, Sequences, FiniteSets

CONSTANTS Units,        \* extraction units of one report
          Answers,      \* what the model may answer: sequences of items
          Bounds        \* per field: the sane values (range_violation)

(* An answer is a JSON document: what it lists can be counted. *)
ASSUME AnswersAreFinite ==
    \A answer \in Answers :
        /\ IsFiniteSet(DOMAIN answer)
        /\ \A i \in DOMAIN answer : IsFiniteSet(DOMAIN answer[i].stated)

(* The provider is held to the schema of the unit's type (strict), and no schema
   has both the year of a house and the start of an ownership (schemas.py). *)
ASSUME AnswersKeepTheSchema ==
    \A answer \in Answers : \A i, j \in DOMAIN answer :
        ~("year_built" \in DOMAIN answer[i].stated
             /\ "ownership_start_date" \in DOMAIN answer[j].stated)

(* An item: stem names the array it stands in; sourced: it has a snippet and
   a page; grounded: the snippet is on that page; stated: its fields, each with
   a value and what became of its raw text. *)
RawStates == {"absent", "agrees", "differs"}

VARIABLE screened       \* per unit: its facts after the gauntlet
gauntletVars == <<screened>>

Empty == -1             \* all five value columns of a fact are null
Unscreened == [active |-> {}, inactive |-> {}, dropped |-> 0, drafts |-> {}]

GauntletInit == screened = [u \in Units |-> Unscreened]

-----------------------------------------------------------------------------
(* flatten_payload: an item without provenance is dropped as a whole; the
   others give a fact per field, named after the item's place in the answer. *)
DraftsOf(u, answer) ==
    UNION {{[unit |-> u, stem |-> answer[i].stem, place |-> i, field |-> f,
             value |-> answer[i].stated[f].value, raw |-> answer[i].stated[f].raw,
             grounded |-> answer[i].grounded, excused |-> answer[i].excused] :
            f \in DOMAIN answer[i].stated} :
           i \in {j \in DOMAIN answer : answer[j].sourced}}

(* validate_grounding, _parse_consistent and the null discipline. *)
Survives(fact) ==
    /\ fact.grounded
    /\ fact.raw # "differs"
    /\ fact.value = Empty => fact.excused

InRange(fact) == fact.value # Empty /\ fact.field \in DOMAIN Bounds
                    => fact.value \in Bounds[fact.field]

SameItem(f, g) == f.unit = g.unit /\ f.stem = g.stem /\ f.place = g.place
MortgageFact(f, field) == f.stem = "mortgages" /\ f.field = field
IsFirst(f) == MortgageFact(f, "position") /\ f.value = 1

(* second or third by its own position. *)
Junior(f, facts) ==
    /\ f.stem = "mortgages"
    /\ \E g \in facts : SameItem(f, g) /\ MortgageFact(g, "position") /\ g.value \in {2, 3}

(* The rules about two facts of an item that are both filled in: a balance above
   1.5 times the original amount, a notice of sale before the notice of default. *)
TooHigh(f, g) ==
    /\ SameItem(f, g) /\ MortgageFact(f, "balance") /\ MortgageFact(g, "original_amount")
    /\ 2 * f.value > 3 * g.value

SoldBeforeDefault(f, g) ==
    /\ SameItem(f, g) /\ f.stem = "foreclosure_events"
    /\ f.field = "nod_date" /\ g.field = "nts_date" /\ g.value < f.value

(* "Sale date >= year built": of the first house and the first owner among the
   facts, whatever items they are of. *)
Foremost(f, facts) == \A g \in facts : g.field = f.field => f.place <= g.place

BoughtUnbuilt(f, g, facts) ==
    /\ f.field = "year_built" /\ g.field = "ownership_start_date" /\ g.value < f.value
    /\ Foremost(f, facts) /\ Foremost(g, facts)

(* _cross_field_violations: of the first pair the balance goes, of the others
   both; and a junior mortgage among facts without a first one. *)
Contradicted(facts) ==
    LET filled == {f \in facts : f.value # Empty}
        noFirst == \A f \in facts : ~IsFirst(f)
    IN  {f \in facts : noFirst /\ Junior(f, facts)}
          \cup {f \in filled : \E g \in filled :
                  \/ TooHigh(f, g)
                  \/ SoldBeforeDefault(f, g) \/ SoldBeforeDefault(g, f)
                  \/ BoughtUnbuilt(f, g, filled) \/ BoughtUnbuilt(g, f, filled)}

(* run_gauntlet: the rules across fields see only what is still active. *)
ActiveOf(drafts) ==
    LET kept == {f \in drafts : Survives(f) /\ InRange(f)} IN kept \ Contradicted(kept)

(* _extract_drafts of a unit; finish_unit stores what is active and what is
   not (persist_facts) and nothing of what was dropped. *)
ScreenUnit(u, answer) ==
    /\ screened[u] = Unscreened
    /\ LET drafts == DraftsOf(u, answer)
           active == ActiveOf(drafts)
       IN  screened' = [screened EXCEPT ![u] =
              [active |-> active, drafts |-> drafts,
               inactive |-> {f \in drafts : Survives(f)} \ active,
               dropped |-> Cardinality({f \in drafts : ~Survives(f)})
                             + Cardinality({i \in DOMAIN answer : ~answer[i].sourced})]]

GauntletNext == \E u \in Units, answer \in Answers : ScreenUnit(u, answer)

GauntletSpec == GauntletInit /\ [][GauntletNext]_gauntletVars

-----------------------------------------------------------------------------
GauntletTypeOK ==
    \A u \in Units : /\ screened[u].active \cup screened[u].inactive \subseteq screened[u].drafts
                     /\ screened[u].active \cap screened[u].inactive = {}
                     /\ screened[u].dropped \in Nat

Everything == UNION {screened[u].drafts : u \in Units}
Kept == UNION {screened[u].active : u \in Units}

(* No two facts that a unit keeps contradict each other: what one rule takes   *)
(* away never makes another rule apply (run_gauntlet evaluates each once).     *)
(* And how a report was split into units changes the verdict on two kinds of   *)
(* facts only: a junior mortgage is lost when the first one is in another      *)
(* unit, and an owner older than the house is never noticed, because the two   *)
(* dates are in units of different types.                                      *)
ScreeningIsLocal ==
    /\ \A u \in Units : Contradicted(screened[u].active) = {}
    /\ \A f \in ActiveOf(Everything) \ Kept : Junior(f, screened[f.unit].drafts)
    /\ \A f \in Kept \ ActiveOf(Everything) : f.field \in {"year_built", "ownership_start_date"}
==============================================================================
