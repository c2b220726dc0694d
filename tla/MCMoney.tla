------------------------------- MODULE MCMoney -------------------------------
(* TLC instance of the components that count money: what chat turns and    *)
(* document analysis may spend on the model provider and what one call of  *)
(* it costs, the gauntlet and the resolver that make one record of what    *)
(* all reports state, and the financial and strategy engines that read     *)
(* such a record.  They share no variable here, so a behaviour is one of a *)
(* single component, chosen at the start; the others stay as they begin.   *)
EXTENDS ChatSpend, DocumentSpend, ProviderCalls, DealStrategies, FactGauntlet,
        FactResolution, TLC

(* The assumption set of the engines. *)
AssumedAmount == [lienType \in LienTypes |-> IF lienType = "tax" THEN 2000 ELSE 0]
AttachedShare == "owner_named_only" :> 60
RepairPercent == [s \in Scenarios |->
    CASE s = "conservative" -> 120 [] s = "expected" -> 100 [] s = "optimistic" -> 85]

(* What a report may state: the same mortgage with another balance, two    *)
(* mortgages in the other order, a balance without a name, and so on.      *)
Item(doc, lender, day, original, balance, recent) ==
    [doc |-> doc, lender |-> lender, day |-> day, original |-> original,
     balance |-> balance, recent |-> recent, ranged |-> FALSE]
ReportContents == {
    <<Item(1, 7, 0, 300, 250, TRUE)>>,
    <<[Item(1, 7, 0, 300, 252, FALSE) EXCEPT !.ranged = TRUE]>>,
    <<Item(2, 8, 90, 50, 40, TRUE), Item(1, 7, 0, 300, 400, FALSE)>>,
    <<Item(1, 7, 0, 300, NotStated, TRUE), Item(2, 7, 20, 301, 300, TRUE),
      Item(NotStated, 7, 10, 300, 280, FALSE)>>,
    <<Item(NotStated, NotStated, NotStated, NotStated, 270, TRUE),
      Item(NotStated, 8, NotStated, 51, 40, TRUE)>>}

(* What a unit may hold, items of one type: two mortgages with a balance too
   high, a junior one alone, a notice of sale that is too early, an impossible
   year, an owner older than the house of another unit, items without a source. *)
Says(value) == [value |-> value, raw |-> "absent"]
Holds(stem, stated) == [stem |-> stem, sourced |-> TRUE, grounded |-> TRUE,
                        excused |-> FALSE, stated |-> stated]
FirstLien == Holds("mortgages", "position" :> Says(1) @@ "original_amount" :> Says(200)
                                  @@ "balance" :> Says(310))
SecondLien == Holds("mortgages", "position" :> Says(2) @@ "balance" :> Says(40))
Notices == Holds("foreclosure_events", "nod_date" :> Says(5) @@ "nts_date" :> Says(3))
UnitAnswers == {
    <<FirstLien, SecondLien>>, <<SecondLien>>,
    <<SecondLien, [FirstLien EXCEPT !.grounded = FALSE]>>,
    <<SecondLien, [FirstLien EXCEPT !.stated["position"].raw = "differs"]>>,
    <<Notices, [Notices EXCEPT !.sourced = FALSE]>>,
    <<Holds("property", "year_built" :> Says(1990)),
      Holds("property", "year_built" :> Says(1500))>>,
    <<[Holds("owners", "ownership_start_date" :> Says(Empty)) EXCEPT !.excused = TRUE],
      Holds("owners", "ownership_start_date" :> Says(1980))>>,
    <<Holds("owners", "ownership_start_date" :> Says(Empty))>>}
SaneValues == "year_built" :> (1600..2030)

VARIABLE component

moneyVars == <<component, chatVars, spendVars, callVars, underwritingVars,
               gauntletVars, resolutionVars>>

MoneyInit ==
    /\ component \in {"chat", "documents", "calls", "engines", "unit", "record"}
    /\ ChatInit /\ SpendInit /\ CallInit /\ UnderwritingInit /\ GauntletInit
    /\ ResolutionInit
    /\ component # "calls" => call = NewCall("document", FALSE)

MoneyNext ==
    /\ UNCHANGED component
    /\ \/ /\ component = "chat" /\ ChatNext
          /\ UNCHANGED <<spendVars, callVars, underwritingVars, gauntletVars, resolutionVars>>
       \/ /\ component = "documents" /\ SpendNext
          /\ UNCHANGED <<chatVars, callVars, underwritingVars, gauntletVars, resolutionVars>>
       \/ /\ component = "calls" /\ CallNext
          /\ UNCHANGED <<chatVars, spendVars, underwritingVars, gauntletVars, resolutionVars>>
       \/ /\ component = "engines" /\ UnderwritingNext
          /\ UNCHANGED <<chatVars, spendVars, callVars, gauntletVars, resolutionVars>>
       \/ /\ component = "unit" /\ GauntletNext
          /\ UNCHANGED <<chatVars, spendVars, callVars, underwritingVars, resolutionVars>>
       \/ /\ component = "record" /\ ResolutionNext
          /\ UNCHANGED <<chatVars, spendVars, callVars, underwritingVars, gauntletVars>>

MoneySpec == MoneyInit /\ [][MoneyNext]_moneyVars /\ ChatFairness

(* Every variable of these components has its type. *)
MoneyTypeOK == /\ ChatTypeOK /\ SpendTypeOK /\ CallTypeOK /\ UnderwritingTypeOK
               /\ GauntletTypeOK /\ ResolutionTypeOK

(* The record a property is shown with accounts for what its reports state:    *)
(* the gauntlet keeps what does not contradict itself, the resolver joins the  *)
(* claims that state the same mortgage and no others, and no stated balance    *)
(* disappears without a flag.                                                  *)
RecordAccountsForClaims == ScreeningIsLocal /\ MergeIsClosure /\ DebtNeverDropsUnflagged
==============================================================================
