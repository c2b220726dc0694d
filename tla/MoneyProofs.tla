----------------------------- MODULE MoneyProofs -----------------------------
(*****************************************************************************)
(* Theorems about the money paid to the model provider: what one call may    *)
(* need (ProviderCalls), what a day of chat may cost (ChatSpend) and how far *)
(* batches.spent_usd may be from what was charged (DocumentSpend).           *)
(*****************************************************************************)
EXTENDS ProviderCalls, ChatSpend, DocumentSpend, SumTheorems, FiniteSetTheorems, TLAPS

(*****************************************************************************)
(* ProviderCalls, for any number of retries and tool rounds and any cost of  *)
(* an answer.                                                                *)
(*****************************************************************************)

(* Requests of the extraction client beyond max_retries + 1 in one loop: the
   one whose temperature was refused. *)
Refusals == IF call.deterministic /\ ~call.temperature THEN 1 ELSE 0
LoopLimit == MaxRetries + 1 + (IF call.deterministic THEN 1 ELSE 0)

(* While a client asks, what it may still send fits into its limit. *)
ExtractionInv ==
    /\ call.temperature => call.deterministic
    /\ call.attempts <= MaxRetries + Refusals
    /\ requests <= call.attempts + (IF call.repairing THEN LoopLimit ELSE 0)

RoundsInv ==
    /\ ~call.temperature /\ ~call.repairing
    /\ call.attempts < MaxRetries
    /\ requests <= (call.round - 1) * MaxRetries + call.attempts

CallInv ==
    /\ call.pc = "asking" =>
         /\ call.client = "extraction" => ExtractionInv
         /\ call.client = "document" => call.round = 1
         /\ call.client \in {"document", "chat"} => RoundsInv
    /\ CallsBoundedAndPaid

------------------------------------------------------------------------------
(* The products that bound the tool rounds. *)
LEMMA RoundsFit ==
  ASSUME NEW i \in Nat, NEW n \in Nat, i < n, NEW k \in Nat
  PROVE  /\ (i + 1) * k = i * k + k
         /\ (i + 1) * k <= n * k
<1>1. (i + 1) * k = i * k + k
  BY SMT
<1>2. PICK d \in Nat : n = (i + 1) + d
  <2> WITNESS n - (i + 1) \in Nat
  <2> QED
    BY SMT
<1>3. d * k \in Nat /\ n * k = (i + 1) * k + d * k
  BY <1>2, SMT
<1> QED
  BY <1>1, <1>3, SMT

(* The record of a call, with the names of its fields' types. *)
CallPhases == {"asking", "returned", "raised"}
AttemptCounts == 0..(MaxRetries + 1)
RoundNumbers == 1..ToolRounds
CallRecords == [client : Clients, pc : CallPhases, attempts : AttemptCounts,
                deterministic : BOOLEAN, temperature : BOOLEAN, repairing : BOOLEAN,
                round : RoundNumbers, usage : Nat]

(* The fields of a call.                                                        *)
LEMMA CallShape ==
  /\ CallTypeOK <=> call \in CallRecords /\ requests \in Nat /\ charged \in Nat
  /\ CallTypeOK' <=> call' \in CallRecords /\ requests' \in Nat /\ charged' \in Nat
  BY DEF CallTypeOK, CallRecords, CallPhases, AttemptCounts, RoundNumbers

(* What a request adds when the call goes on, and when it ends. *)
LEMMA Requested ==
  ASSUME CallTypeOK, CallInv, call.pc = "asking"
  PROVE  /\ requests + 1 <= RequestLimit
         /\ call.usage = charged
<1> USE CallAssumption DEF CallTypeOK, Clients
<1>1. call.usage = charged
  BY DEF CallInv, CallsBoundedAndPaid
<1>2. CASE call.client = "extraction"
  BY <1>1, <1>2 DEF CallInv, ExtractionInv, Refusals, LoopLimit, RequestLimit
<1>3. CASE call.client = "document"
  <2>1. (call.round - 1) * MaxRetries = 0
    BY <1>3, SMT DEF CallInv
  <2> QED
    BY <1>1, <1>3, <2>1 DEF CallInv, RoundsInv, RequestLimit
<1>4. CASE call.client = "chat"
  <2> DEFINE i == call.round - 1
  <2>1. i \in Nat /\ ToolRounds \in Nat /\ MaxRetries \in Nat /\ i < ToolRounds
    OBVIOUS
  <2>2. (i + 1) * MaxRetries = i * MaxRetries + MaxRetries
        /\ (i + 1) * MaxRetries <= ToolRounds * MaxRetries
    BY <2>1, RoundsFit
  <2>3. requests <= i * MaxRetries + call.attempts /\ call.attempts < MaxRetries
    BY <1>4 DEF CallInv, RoundsInv
  <2>4. RequestLimit = ToolRounds * MaxRetries
    BY <1>4 DEF RequestLimit
  <2>5. i * MaxRetries \in Int /\ ToolRounds * MaxRetries \in Int
    BY <2>1, SMT
  <2> QED
    BY <1>1, <2>2, <2>3, <2>4, <2>5
<1> QED
  BY <1>2, <1>3, <1>4

(* A call begins with nothing sent and nothing paid.                            *)
LEMMA CallInitial == CallInit => CallTypeOK /\ CallInv
<1> SUFFICES ASSUME CallInit PROVE CallTypeOK /\ CallInv
  OBVIOUS
<1> USE CallAssumption DEF Clients
<1>1. PICK client \in Clients, temperature \in BOOLEAN :
        /\ temperature => client = "extraction"
        /\ call = NewCall(client, temperature)
  BY DEF CallInit
<1>2. requests = 0 /\ charged = 0
  BY DEF CallInit
<1>3. CallTypeOK
  BY <1>1, <1>2 DEF CallTypeOK, NewCall
<1>4. (call.round - 1) * MaxRetries = 0
  BY <1>1, SMT DEF NewCall
<1>5. ToolRounds * MaxRetries \in Nat
  BY SMT
<1>6. 0 <= RequestLimit
  BY <1>1, <1>5 DEF NewCall, RequestLimit
<1> QED
  BY <1>1, <1>2, <1>3, <1>4, <1>6
     DEF CallInv, ExtractionInv, RoundsInv, Refusals, LoopLimit, CallsBoundedAndPaid, NewCall

(* A step that ends the call, without a result and with one. *)
LEMMA EndsRaised ==
  ASSUME CallTypeOK, CallInv, call.pc = "asking", Sent, charged' \in Nat, Raise
  PROVE  (CallTypeOK /\ CallInv)'
<1>1. requests + 1 <= RequestLimit
  BY Requested
<1>2. CallTypeOK'
  <2>1. "raised" \in CallPhases /\ requests' \in Nat /\ 0 \in Nat
    BY CallShape DEF CallPhases, Sent
  <2> QED
    BY <2>1, CallShape DEF Raise, CallRecords
<1>3. RequestLimit' = RequestLimit /\ call'.pc = "raised"
  BY DEF RequestLimit, Raise, CallTypeOK
<1> QED
  BY <1>1, <1>2, <1>3 DEF CallInv, CallsBoundedAndPaid, Sent

(* A call that ends returns what it has cost.                                   *)
LEMMA EndsReturned ==
  ASSUME CallTypeOK, CallInv, call.pc = "asking", Sent, NEW c \in Nat, charged' = charged + c,
         call' = [call EXCEPT !.pc = "returned", !.usage = @ + c]
  PROVE  (CallTypeOK /\ CallInv)'
<1>1. requests + 1 <= RequestLimit /\ call.usage = charged
  BY Requested
<1>2. CallTypeOK'
  <2>1. /\ "returned" \in CallPhases /\ requests' \in Nat /\ charged' \in Nat
        /\ call.usage + c \in Nat
    BY CallShape DEF CallPhases, Sent, CallRecords
  <2> QED
    BY <2>1, CallShape DEF CallRecords
<1>3. /\ RequestLimit' = RequestLimit
      /\ call'.pc = "returned" /\ call'.usage = charged'
  BY <1>1 DEF RequestLimit, CallTypeOK
<1> QED
  BY <1>1, <1>2, <1>3 DEF CallInv, CallsBoundedAndPaid, Sent

(* Every step of a call keeps the bounds.                                       *)
LEMMA CallStep == CallTypeOK /\ CallInv /\ [CallNext]_callVars => (CallTypeOK /\ CallInv)'
<1> SUFFICES ASSUME CallTypeOK, CallInv, [CallNext]_callVars
             PROVE  (CallTypeOK /\ CallInv)'
  OBVIOUS
<1> USE CallAssumption
<1>1. CASE UNCHANGED callVars
  BY <1>1 DEF callVars, CallTypeOK, CallInv, ExtractionInv, RoundsInv, Refusals, LoopLimit,
              CallsBoundedAndPaid, RequestLimit
<1>2. ASSUME Overloaded PROVE (CallTypeOK /\ CallInv)'
  <2> USE <1>2 DEF Overloaded, Asking, Unanswered, Sent, Clients
  <2>1. CASE GivesUp
    BY <2>1, EndsRaised DEF CallTypeOK
  <2>2. CASE ~GivesUp
    <3>1. call' = [call EXCEPT !.attempts = @ + 1] /\ requests' = requests + 1 /\ charged' = charged
      BY <2>2
    <3>2. requests + 1 <= RequestLimit /\ call.usage = charged
      BY Requested
    <3>3. CallTypeOK'
      BY <2>2, <3>1 DEF CallTypeOK, GivesUp
    <3>4. call.client = "extraction" => ExtractionInv'
      BY <2>2, <3>1 DEF CallTypeOK, GivesUp, CallInv, ExtractionInv, Refusals, LoopLimit
    <3>5. call.client \in {"document", "chat"} => RoundsInv'
      <4> DEFINE before == (call.round - 1) * MaxRetries
      <4>1. before \in Int /\ (call'.round - 1) * MaxRetries = before
        BY <3>1, SMT DEF CallTypeOK
      <4> QED
        BY <2>2, <3>1, <4>1 DEF CallTypeOK, GivesUp, CallInv, RoundsInv
    <3>6. RequestLimit' = RequestLimit
      BY <3>1 DEF RequestLimit, CallTypeOK
    <3> QED
      BY <3>1, <3>2, <3>3, <3>4, <3>5, <3>6 DEF CallInv, CallsBoundedAndPaid, CallTypeOK
  <2> QED
    BY <2>1, <2>2
<1>3. ASSUME TemperatureRefused PROVE (CallTypeOK /\ CallInv)'
  <2> USE <1>3 DEF TemperatureRefused, Asking, Unanswered, Sent, Clients
  <2>1. requests + 1 <= RequestLimit /\ call.usage = charged
    BY Requested
  <2>2. call.attempts <= MaxRetries /\ call.deterministic
    BY DEF CallTypeOK, CallInv, ExtractionInv, Refusals
  <2>3. CallTypeOK'
    <3>1. call.attempts + 1 \in AttemptCounts /\ requests' \in Nat
      BY <2>2 DEF CallTypeOK, AttemptCounts
    <3> QED
      BY <3>1, CallShape DEF CallRecords
  <2>4. ExtractionInv'
    BY <2>2 DEF CallTypeOK, CallInv, ExtractionInv, Refusals, LoopLimit
  <2>5. RequestLimit' = RequestLimit
    BY DEF RequestLimit, CallTypeOK
  <2> QED
    BY <2>1, <2>3, <2>4, <2>5 DEF CallInv, CallsBoundedAndPaid, CallTypeOK
<1>4. ASSUME Rejected PROVE (CallTypeOK /\ CallInv)'
  BY <1>4, EndsRaised DEF Rejected, Asking, Unanswered, CallTypeOK
<1>5. ASSUME NEW c \in AnswerCosts, GoodAnswer(c) PROVE (CallTypeOK /\ CallInv)'
  <2>1. c \in Nat /\ charged \in Nat
    BY DEF CallTypeOK
  <2>2. /\ call.pc = "asking" /\ Sent /\ charged' = charged + c
        /\ call' = [call EXCEPT !.pc = "returned", !.usage = @ + c]
    BY <1>5 DEF GoodAnswer, Asking, Answered, SumOf
  <2> QED
    BY <2>1, <2>2, EndsReturned
<1>6. ASSUME NEW c \in AnswerCosts, WrongShape(c) PROVE (CallTypeOK /\ CallInv)'
  <2> USE <1>6 DEF WrongShape, Asking, Answered
  <2>1. CASE call.repairing
    BY <2>1, EndsRaised DEF CallTypeOK
  <2>2. CASE ~call.repairing
    <3>1. /\ call' = [NewCall("extraction", call.deterministic) EXCEPT
                         !.repairing = TRUE, !.usage = call.usage + c]
          /\ requests' = requests + 1 /\ charged' = charged + c
      BY <2>2 DEF Sent, SumOf
    <3>2. requests + 1 <= RequestLimit /\ call.usage = charged
      BY Requested
    <3>3. CallTypeOK'
      <4>1. /\ call.usage + c \in Nat /\ call.deterministic \in BOOLEAN
            /\ requests' \in Nat /\ charged' \in Nat
            /\ 0 \in AttemptCounts /\ 1 \in RoundNumbers /\ "asking" \in CallPhases
            /\ "extraction" \in Clients
        BY <3>1 DEF CallTypeOK, AttemptCounts, RoundNumbers, CallPhases, Clients
      <4>2. call' = [client |-> "extraction", pc |-> "asking", attempts |-> 0,
                     deterministic |-> call.deterministic, temperature |-> call.deterministic,
                     repairing |-> TRUE, round |-> 1, usage |-> call.usage + c]
        BY <3>1 DEF NewCall
      <4> QED
        BY <4>1, <4>2, CallShape DEF CallRecords
    <3>4. ExtractionInv'
      BY <2>2, <3>1 DEF CallTypeOK, CallInv, ExtractionInv, Refusals, LoopLimit, NewCall
    <3>5. RequestLimit' = RequestLimit
      BY <3>1 DEF RequestLimit, CallTypeOK, NewCall
    <3> QED
      BY <3>1, <3>2, <3>3, <3>4, <3>5 DEF CallInv, CallsBoundedAndPaid, CallTypeOK, NewCall
  <2> QED
    BY <2>1, <2>2
<1>7. ASSUME NEW c \in AnswerCosts, Unusable(c) PROVE (CallTypeOK /\ CallInv)'
  BY <1>7, EndsRaised DEF Unusable, Asking, Answered, CallTypeOK
<1>8. ASSUME NEW c \in AnswerCosts, ToolCalls(c) PROVE (CallTypeOK /\ CallInv)'
  <2> USE <1>8 DEF ToolCalls, Asking, Answered
  <2>1. CASE Raise
    BY <2>1, EndsRaised DEF CallTypeOK
  <2>2. CASE /\ call.round < ToolRounds
             /\ call' = [call EXCEPT !.attempts = 0, !.round = @ + 1, !.usage = @ + c]
    <3>1. requests' = requests + 1 /\ charged' = charged + c
      BY DEF Sent
    <3>2. requests + 1 <= RequestLimit /\ call.usage = charged
      BY Requested
    <3>3. CallTypeOK'
      <4>1. /\ call.usage + c \in Nat /\ requests' \in Nat /\ charged' \in Nat
            /\ call.round + 1 \in RoundNumbers /\ 0 \in AttemptCounts
        BY <2>2, <3>1 DEF CallTypeOK, RoundNumbers, AttemptCounts
      <4> QED
        BY <2>2, <4>1, CallShape DEF CallRecords
    <3>4. RoundsInv'
      <4> DEFINE i == call.round - 1
      <4>1. i \in Nat /\ MaxRetries \in Nat /\ i < i + 1
        BY DEF CallTypeOK
      <4>2. (i + 1) * MaxRetries = i * MaxRetries + MaxRetries /\ i * MaxRetries \in Int
        BY <4>1, SMT
      <4>3. call'.round - 1 = i + 1
        BY <2>2 DEF CallTypeOK
      <4>4. requests <= i * MaxRetries + call.attempts /\ call.attempts < MaxRetries
        BY DEF CallInv, RoundsInv
      <4> HIDE DEF i
      <4>5. requests + 1 <= (i + 1) * MaxRetries
        BY <4>2, <4>4 DEF CallTypeOK
      <4> QED
        BY <2>2, <3>1, <4>3, <4>5 DEF CallTypeOK, RoundsInv, CallInv
    <3>5. RequestLimit' = RequestLimit
      BY <2>2 DEF RequestLimit, CallTypeOK
    <3> QED
      BY <2>2, <3>1, <3>2, <3>3, <3>4, <3>5 DEF CallInv, CallsBoundedAndPaid, CallTypeOK
  <2> QED
    BY <2>1, <2>2 DEF SumOf
<1> QED
  BY <1>1, <1>2, <1>3, <1>4, <1>5, <1>6, <1>7, <1>8 DEF CallNext

(* However refusals, retries, the repair and the tool rounds fall together, a   *)
(* call sends a bounded number of requests and reports what every answered one  *)
(* cost (ProviderClient.complete, analyze_pdf, ChatProviderClient.complete).    *)
THEOREM CallsAreBoundedAndPaid == CallSpec => []CallsBoundedAndPaid
<1>1. CallTypeOK /\ CallInv => CallsBoundedAndPaid
  BY DEF CallInv
<1> QED
  BY <1>1, CallInitial, CallStep, PTL DEF CallSpec

(*****************************************************************************)
(* ChatSpend, for any turns, sessions, caps, days and costs.                 *)
(*****************************************************************************)

(* The rows an open turn holds are held by nobody else, and still say what it *)
(* read in them.                                                            *)
Apart(r, u) == /\ turn[u].session # r.session
               /\ turn[u].day = r.day => r.day = NoDay

HoldsItsRows(r) ==
    /\ r.session \in Sessions
    /\ r.tokensRead = sessionTokens[r.session]
    /\ r.asks # NoDay => r.asks \in 0..today /\ r.day <= r.asks
    /\ \/ r.pc = "reserving" /\ r.day = NoDay
       \/ /\ r.day \in 0..today
          /\ r.spendRead = daySpend[r.day]
          /\ Affordable(r.spendRead, r.estimate)

RowsLocked == \A t \in Open : \A u \in Open \ {t} : Apart(turn[t], u)
HoldsWhatItRead == \A t \in Open : HoldsItsRows(turn[t])

IdleTurns == \A t \in Turns : turn[t].pc = "idle" => turn[t].day = NoDay /\ turn[t].asks = NoDay

(* The turns corrected on a day explain why it is over the cap. *)
DayExplained(d) ==
    \E S \in SUBSET Corrected(d) :
        OneReservedOn(d, S) /\ daySpend[d] <= DailyCap + Excess(S)

ChatInv == /\ ChatTypeOK /\ RowsLocked /\ HoldsWhatItRead /\ IdleTurns
           /\ SpendNeverUndercounted
           /\ \A d \in Days : DayExplained(d)

----------------------------------------------------------------------------
(* The sums of two tables of turns. *)
TurnRecords == [pc : {"idle"} \cup Running \cup Ended,
                session : Sessions \cup {NoSession}, day : Days \cup {NoDay},
                asks : Days \cup {NoDay}, estimate : Estimates \cup {0},
                cost : Nat, tokensRead : Nat, spendRead : Nat]

TurnTables == [Turns -> TurnRecords]

TurnCosts(w) == [t \in Turns |-> w[t].cost]
TurnExcess(w) == [t \in Turns |-> AtLeastZero(w[t].cost - w[t].estimate)]

(* Estimates are natural numbers, and so is that of a turn that has none. *)
LEMMA EstimatesNatural == Estimates \cup {0} \subseteq Nat
  BY ChatAssumption

(* A turn has a cost and an excess, both natural numbers. *)
LEMMA TurnSummands ==
  ASSUME NEW w \in TurnTables, NEW t \in Turns
  PROVE  /\ w[t].cost \in Nat /\ w[t].estimate \in Nat
         /\ TurnCosts(w)[t] = w[t].cost /\ TurnCosts(w)[t] \in Int
         /\ TurnExcess(w)[t] = AtLeastZero(w[t].cost - w[t].estimate)
         /\ TurnExcess(w)[t] \in Nat
<1>1. w[t] \in TurnRecords
  BY DEF TurnTables
<1>2. w[t].cost \in Nat /\ w[t].estimate \in Estimates \cup {0}
  BY <1>1 DEF TurnRecords
<1>3. w[t].estimate \in Nat
  BY <1>2, EstimatesNatural
<1> QED
  BY <1>2, <1>3 DEF TurnCosts, TurnExcess, AtLeastZero

(* Sums over turns that stay as they are stay the same. *)
LEMMA TurnSumsKept ==
  ASSUME NEW w \in TurnTables, NEW v \in TurnTables, NEW S \in SUBSET Turns,
         \A t \in S : w[t] = v[t]
  PROVE  /\ SumFunctionOnSet(TurnCosts(w), S) = SumFunctionOnSet(TurnCosts(v), S)
         /\ SumFunctionOnSet(TurnExcess(w), S) = SumFunctionOnSet(TurnExcess(v), S)
<1>1. IsFiniteSet(S)
  BY ChatAssumption, FS_Subset
<1>2. \A t \in S : TurnCosts(w)[t] = TurnCosts(v)[t] /\ TurnExcess(w)[t] = TurnExcess(v)[t]
  BY DEF TurnCosts, TurnExcess
<1> QED
  BY <1>1, <1>2, SumSame

(* Sums over turns are integers, and one more turn adds its own. *)
LEMMA TurnSumsGrow ==
  ASSUME NEW w \in TurnTables, NEW S \in SUBSET Turns
  PROVE  /\ SumFunctionOnSet(TurnCosts(w), S) \in Int
         /\ SumFunctionOnSet(TurnExcess(w), S) \in Int
         /\ \A t \in Turns \ S :
              /\ SumFunctionOnSet(TurnCosts(w), S \cup {t})
                   = SumFunctionOnSet(TurnCosts(w), S) + w[t].cost
              /\ SumFunctionOnSet(TurnExcess(w), S \cup {t})
                   = SumFunctionOnSet(TurnExcess(w), S)
                       + AtLeastZero(w[t].cost - w[t].estimate)
<1>1. IsFiniteSet(S) /\ IsFiniteSet(Turns)
  BY ChatAssumption, FS_Subset
<1>2. \A t \in Turns : TurnCosts(w)[t] \in Int /\ TurnExcess(w)[t] \in Int
  BY TurnSummands
<1>3. ASSUME NEW t \in Turns \ S
      PROVE  /\ SumFunctionOnSet(TurnCosts(w), S \cup {t})
                  = SumFunctionOnSet(TurnCosts(w), S) + TurnCosts(w)[t]
             /\ SumFunctionOnSet(TurnExcess(w), S \cup {t})
                  = SumFunctionOnSet(TurnExcess(w), S) + TurnExcess(w)[t]
  BY <1>1, <1>2, SumAdd
<1>4. SumFunctionOnSet(TurnCosts(w), S) \in Int /\ SumFunctionOnSet(TurnExcess(w), S) \in Int
  BY <1>1, <1>2, SumType
<1> QED
  BY <1>3, <1>4, TurnSummands

(* The days are finitely many. *)
LEMMA DaysFinite == IsFiniteSet(Days) /\ Days \subseteq Int
<1>1. 0 \in Int /\ LastDay \in Int
  BY ChatAssumption
<1> QED
  BY <1>1, FS_Interval DEF Days

(* What the properties add up, by the tables. *)
LEMMA ChatSums ==
  /\ \A S : CostOf(S) = SumFunctionOnSet(TurnCosts(turn), S)
  /\ \A S : Excess(S) = SumFunctionOnSet(TurnExcess(turn), S)
  BY DEF CostOf, Excess, TurnCosts, TurnExcess

(* The sums of the next state.                                                  *)
LEMMA ChatSumsThen ==
  /\ \A S : CostOf(S)' = SumFunctionOnSet(TurnCosts(turn'), S)
  /\ \A S : Excess(S)' = SumFunctionOnSet(TurnExcess(turn'), S)
  BY DEF CostOf, Excess, TurnCosts, TurnExcess

(* The type invariant, table by table.                                          *)
LEMMA ChatTables == ChatTypeOK <=> /\ today \in Days
                                   /\ daySpend \in [Days -> Nat]
                                   /\ sessionTokens \in [Sessions -> Nat]
                                   /\ turn \in TurnTables
  BY DEF ChatTypeOK, TurnTables, TurnRecords
----------------------------------------------------------------------------

(* Nothing is reserved and nothing charged at first.                            *)
LEMMA ChatInitial == ChatInit => ChatInv
<1> SUFFICES ASSUME ChatInit PROVE ChatInv
  OBVIOUS
<1> USE ChatAssumption
<1>1. Open = {} /\ Done = {}
  BY DEF ChatInit, Open, Done, IdleTurn, Running
<1>2. ChatTypeOK
  <2>1. IdleTurn \in TurnRecords
    BY DEF IdleTurn, TurnRecords
  <2> QED
    BY <2>1, ChatTables DEF ChatInit, Days, TurnTables
<1>3. CostOf({}) = 0 /\ Excess({}) = 0
  BY SumEmpty DEF CostOf, Excess
<1>4. SpendNeverUndercounted
  <2>2. SumFunctionOnSet(daySpend, Days) = 0
    BY DaysFinite, SumZero DEF ChatInit
  <2>3. \A s \in Sessions : {t \in Done : turn[t].session = s} = {}
    BY <1>1
  <2> QED
    BY <1>1, <1>3, <2>2, <2>3 DEF SpendNeverUndercounted, ChatInit
<1>5. \A d \in Days : DayExplained(d)
  BY <1>1, <1>3 DEF DayExplained, OneReservedOn, ChatInit, Days
<1> QED
  BY <1>1, <1>2, <1>4, <1>5 DEF ChatInv, RowsLocked, HoldsWhatItRead, IdleTurns, ChatInit, IdleTurn

(* A day that is within the cap needs no explanation. *)
LEMMA ExplainedByNobody ==
  ASSUME NEW d \in Days, daySpend'[d] <= DailyCap
  PROVE  DayExplained(d)'
<1>1. Excess({})' = 0
  BY ChatSumsThen, SumEmpty
<1>2. daySpend'[d] <= DailyCap + 0
  BY ChatAssumption
<1> QED
  BY <1>1, <1>2 DEF DayExplained, OneReservedOn

(* The turns that explain a day still do when its row is not written. *)
LEMMA StillExplained ==
  ASSUME NEW d \in Days, DayExplained(d), daySpend'[d] = daySpend[d],
         turn \in TurnTables, turn' \in TurnTables,
         Done \subseteq Done', \A u \in Done : turn'[u] = turn[u]
  PROVE  DayExplained(d)'
<1>1. PICK S \in SUBSET Corrected(d) : OneReservedOn(d, S) /\ daySpend[d] <= DailyCap + Excess(S)
  BY DEF DayExplained
<1>2. S \in SUBSET Turns /\ S \in SUBSET Corrected(d)' /\ \A u \in S : turn'[u] = turn[u]
  BY DEF Corrected, Done
<1>3. Excess(S)' = Excess(S)
  BY <1>2, TurnSumsKept, ChatSums, ChatSumsThen
<1>4. OneReservedOn(d, S)'
  BY <1>1, <1>2 DEF OneReservedOn
<1> QED
  BY <1>1, <1>2, <1>3, <1>4 DEF DayExplained

(* A step of an open or new turn that neither is its end nor writes a row. *)
LEMMA QuietTurn ==
  ASSUME ChatInv, NEW t \in Turns, NEW r \in TurnRecords,
         turn[t].pc # "done", r.pc \notin {"done", "idle"},
         turn' = [turn EXCEPT ![t] = r],
         UNCHANGED <<today, daySpend, sessionTokens>>,
         r.pc \in Running => HoldsItsRows(r) /\ \A u \in Open \ {t} : Apart(r, u)
  PROVE  ChatInv'
<1> USE ChatAssumption
<1>1. turn \in TurnTables /\ turn' \in TurnTables /\ ChatTypeOK'
  <2>1. ChatTypeOK /\ turn \in TurnTables /\ turn' \in TurnTables
    BY ChatTables DEF ChatInv, TurnTables
  <2> QED
    BY <2>1 DEF ChatTypeOK, TurnTables, TurnRecords
<1>2. /\ Done' = Done /\ Done \subseteq Turns
      /\ \A u \in Turns : turn'[u] = IF u = t THEN r ELSE turn[u]
      /\ \A u \in Done : u # t
  BY <1>1 DEF Done, TurnTables
<1>3. \A u \in Open' : u \in Open \/ u = t
  BY <1>2 DEF Open
<1>4. RowsLocked'
  <2> SUFFICES ASSUME NEW u \in Open', NEW v \in Open' \ {u}
               PROVE  Apart(turn[u], v)'
    BY DEF RowsLocked
  <2>1. CASE u # t /\ v # t
    BY <1>2, <1>3, <2>1 DEF ChatInv, RowsLocked, Apart, Open
  <2>2. CASE u = t
    BY <1>2, <1>3, <2>2 DEF Apart, Open
  <2>3. CASE v = t
    BY <1>2, <1>3, <2>3 DEF Apart, Open
  <2> QED
    BY <2>1, <2>2, <2>3
<1>5. HoldsWhatItRead'
  BY <1>2, <1>3 DEF ChatInv, HoldsWhatItRead, HoldsItsRows, Open
<1>9. IdleTurns'
  BY <1>2 DEF ChatInv, IdleTurns
<1>6. \A S \in SUBSET Done : CostOf(S)' = CostOf(S) /\ Excess(S)' = Excess(S)
  <2>1. ASSUME NEW S \in SUBSET Done
        PROVE  CostOf(S)' = CostOf(S) /\ Excess(S)' = Excess(S)
    <3>1. S \in SUBSET Turns /\ \A u \in S : turn'[u] = turn[u]
      BY <1>2
    <3> QED
      BY <1>1, <3>1, TurnSumsKept, ChatSums, ChatSumsThen
  <2> QED
    BY <2>1
<1>7. SpendNeverUndercounted'
  <2>1. \A s \in Sessions : {u \in Done : turn'[u].session = s} = {u \in Done : turn[u].session = s}
    BY <1>2
  <2> QED
    BY <1>2, <1>6, <2>1 DEF ChatInv, SpendNeverUndercounted
<1>8. ASSUME NEW d \in Days
      PROVE  DayExplained(d)'
  <2>1. \A u \in Done : turn'[u] = turn[u]
    BY <1>2
  <2> QED
    BY <1>1, <1>2, <2>1, StillExplained DEF ChatInv
<1> QED
  BY <1>1, <1>4, <1>5, <1>7, <1>8, <1>9 DEF ChatInv

(* A turn that ends without its commit frees its rows. *)
LEMMA RolledBack ==
  ASSUME ChatInv, NEW t \in Turns, turn[t].pc # "done",
         NEW pc \in {"refused", "failed"}, EndTurn(t, pc),
         UNCHANGED <<today, daySpend, sessionTokens>>
  PROVE  ChatInv'
<1> DEFINE r == [IdleTurn EXCEPT !.pc = pc]
<1>1. r \in TurnRecords /\ r.pc \notin {"done", "idle"} /\ r.pc \notin Running
  BY DEF TurnRecords, IdleTurn, Ended, Running
<1>2. turn' = [turn EXCEPT ![t] = r]
  BY DEF EndTurn
<1> HIDE DEF r
<1> QED
  BY <1>1, <1>2, QuietTurn

(* A turn begins by reading the tokens of its session.                          *)
LEMMA ReserveTokensStep ==
  ASSUME ChatInv, NEW t \in Turns, NEW s \in Sessions, NEW n \in Estimates,
         ReserveTokens(t, s, n)
  PROVE  ChatInv'
<1>1. /\ turn[t].pc = "idle" /\ SessionFree(s, t)
      /\ UNCHANGED <<today, daySpend, sessionTokens>>
  BY DEF ReserveTokens
<1>2. CASE sessionTokens[s] + n > TokenCap
  <2>1. EndTurn(t, "refused")
    BY <1>2 DEF ReserveTokens
  <2> QED
    BY <1>1, <2>1, RolledBack
<1>3. CASE ~(sessionTokens[s] + n > TokenCap)
  <2> DEFINE r == [turn[t] EXCEPT !.pc = "reserving", !.session = s, !.estimate = n,
                                  !.tokensRead = sessionTokens[s]]
  <2>1. turn' = [turn EXCEPT ![t] = r]
    BY <1>3 DEF ReserveTokens
  <2>2. turn[t] \in TurnRecords /\ sessionTokens[s] \in Nat
    BY ChatTables DEF ChatInv, TurnTables
  <2>3. r \in TurnRecords /\ r.pc = "reserving" /\ r.session = s /\ r.tokensRead = sessionTokens[s]
        /\ r.day = turn[t].day /\ r.asks = turn[t].asks
    BY <2>2 DEF TurnRecords, Running
  <2>4. turn[t].day = NoDay /\ turn[t].asks = NoDay
    BY <1>1 DEF ChatInv, IdleTurns
  <2> HIDE DEF r
  <2>5. HoldsItsRows(r)
    BY <2>3, <2>4 DEF HoldsItsRows
  <2>6. \A u \in Open \ {t} : Apart(r, u)
    BY <1>1, <2>3, <2>4 DEF Apart, SessionFree
  <2> QED
    BY <1>1, <2>1, <2>3, <2>4, <2>5, <2>6, QuietTurn
<1> QED
  BY <1>2, <1>3

(* The row is named by the date, which is no earlier than that of the row the   *)
(* turn holds.                                                                  *)
LEMMA NameDayStep ==
  ASSUME ChatInv, NEW t \in Turns, NameDay(t)
  PROVE  ChatInv'
<1> DEFINE r == [turn[t] EXCEPT !.asks = today]
<1>1. turn[t] \in TurnRecords /\ t \in Open /\ today \in Days /\ turn[t].pc \in NeedsDay
  BY ChatTables DEF ChatInv, TurnTables, NameDay, Open, Running, NeedsDay
<1>2. /\ r \in TurnRecords /\ r.pc = turn[t].pc /\ r.session = turn[t].session
      /\ r.tokensRead = turn[t].tokensRead /\ r.day = turn[t].day /\ r.asks = today
      /\ r.spendRead = turn[t].spendRead /\ r.estimate = turn[t].estimate
  BY <1>1 DEF TurnRecords
<1>3. turn' = [turn EXCEPT ![t] = r] /\ UNCHANGED <<today, daySpend, sessionTokens>>
  BY DEF NameDay
<1> HIDE DEF r
<1>4. HoldsItsRows(turn[t])
  BY <1>1 DEF ChatInv, HoldsWhatItRead
<1>5. today \in 0..today /\ NoDay <= today
  BY <1>1, ChatAssumption DEF Days, NoDay
<1>6. r.day <= r.asks
  BY <1>2, <1>4, <1>5, ChatAssumption DEF HoldsItsRows
<1>7. HoldsItsRows(r)
  BY <1>2, <1>4, <1>5, <1>6 DEF HoldsItsRows
<1>8. \A u \in Open \ {t} : Apart(r, u)
  BY <1>1, <1>2 DEF Apart, ChatInv, RowsLocked
<1>9. turn[t].pc # "done" /\ r.pc \notin {"done", "idle"}
  BY <1>1, <1>2 DEF NeedsDay
<1> QED
  BY <1>2, <1>3, <1>7, <1>8, <1>9, QuietTurn

(* A reservation of a day is made when it fits under the cap.                   *)
LEMMA ReserveDayStep ==
  ASSUME ChatInv, NEW t \in Turns, ReserveDay(t)
  PROVE  ChatInv'
<1> DEFINE d == turn[t].asks
<1>1. /\ turn[t].pc = "reserving" /\ d # NoDay /\ DayFree(d, t)
      /\ UNCHANGED <<today, daySpend, sessionTokens>>
  BY DEF ReserveDay, GetsDay
<1>2. CASE ~Affordable(daySpend[d], turn[t].estimate)
  <2>1. EndTurn(t, "refused")
    BY <1>2 DEF ReserveDay
  <2> QED
    BY <1>1, <2>1, RolledBack
<1>3. CASE Affordable(daySpend[d], turn[t].estimate)
  <2> DEFINE r == [turn[t] EXCEPT !.pc = "asking", !.day = d, !.asks = NoDay,
                                  !.spendRead = daySpend[d]]
  <2>1. turn' = [turn EXCEPT ![t] = r]
    BY <1>3 DEF ReserveDay
  <2>2. turn[t] \in TurnRecords /\ t \in Open
    BY <1>1, ChatTables DEF ChatInv, TurnTables, Open, Running
  <2>3. HoldsItsRows(turn[t])
    BY <2>2 DEF ChatInv, HoldsWhatItRead
  <2>4. d \in 0..today /\ d \in Days /\ daySpend[d] \in Nat
    <3>1. d \in Days /\ daySpend \in [Days -> Nat]
      BY <1>1, <2>2, ChatTables DEF ChatInv, TurnRecords
    <3> QED
      BY <1>1, <2>3, <3>1 DEF HoldsItsRows
  <2>5. /\ r \in TurnRecords /\ r.pc = "asking" /\ r.session = turn[t].session
        /\ r.tokensRead = turn[t].tokensRead /\ r.day = d /\ r.asks = NoDay
        /\ r.spendRead = daySpend[d] /\ r.estimate = turn[t].estimate
    BY <2>2, <2>4 DEF TurnRecords, Running
  <2> HIDE DEF r
  <2>6. HoldsItsRows(r)
    BY <1>3, <2>3, <2>4, <2>5 DEF HoldsItsRows
  <2>7. \A u \in Open \ {t} : Apart(r, u)
    BY <1>1, <2>2, <2>5 DEF Apart, DayFree, ChatInv, RowsLocked
  <2> QED
    BY <1>1, <2>1, <2>5, <2>6, <2>7, QuietTurn
<1> QED
  BY <1>2, <1>3

(* An answer, or a failure that is still to be handled: the turn goes on with *)
(* the rows it holds.                                                        *)
LEMMA GoesOn ==
  ASSUME ChatInv, NEW t \in Turns, turn[t].pc \in {"asking", "retrying"}, NEW c \in Nat,
         NEW pc \in {"settling", "retrying", "failing"},
         turn' = [turn EXCEPT ![t].pc = pc, ![t].cost = @ + c],
         UNCHANGED <<today, daySpend, sessionTokens>>
  PROVE  ChatInv'
<1> DEFINE r == [turn[t] EXCEPT !.pc = pc, !.cost = turn[t].cost + c]
<1>2. turn[t] \in TurnRecords /\ t \in Open /\ turn \in TurnTables
  BY ChatTables DEF ChatInv, TurnTables, Open, Running
<1>1. turn' = [turn EXCEPT ![t] = r]
  BY <1>2 DEF TurnTables, TurnRecords
<1>3. turn[t].cost + c \in Nat
  BY <1>2 DEF TurnRecords
<1>4. /\ r \in TurnRecords /\ r.pc = pc /\ r.session = turn[t].session
      /\ r.tokensRead = turn[t].tokensRead /\ r.day = turn[t].day /\ r.asks = turn[t].asks
      /\ r.spendRead = turn[t].spendRead /\ r.estimate = turn[t].estimate
  BY <1>2, <1>3 DEF TurnRecords, Running
<1> HIDE DEF r
<1>5. HoldsItsRows(turn[t])
  BY <1>2 DEF ChatInv, HoldsWhatItRead
<1>6. HoldsItsRows(r)
  BY <1>4, <1>5 DEF HoldsItsRows
<1>7. \A u \in Open \ {t} : Apart(r, u)
  BY <1>2, <1>4 DEF Apart, ChatInv, RowsLocked
<1> QED
  BY <1>1, <1>2, <1>4, <1>6, <1>7, QuietTurn

(* An answer is added to what the turn has cost; a failure leaves that as it is. *)
LEMMA ProviderStep ==
  ASSUME ChatInv, NEW t \in Turns,
         \/ \E c \in 0..MaxCall : FirstAnswer(t, c) \/ SecondAnswer(t, c)
         \/ ProviderFails(t)
         \/ ToolFails(t)
  PROVE  ChatInv'
<1>1. CASE ToolFails(t)
  BY <1>1, RolledBack DEF ToolFails
<1>2. ASSUME NEW c \in 0..MaxCall, FirstAnswer(t, c) \/ SecondAnswer(t, c)
      PROVE  ChatInv'
  <2>1. c \in Nat
    OBVIOUS
  <2>2. CASE FirstAnswer(t, c)
    BY <2>1, <2>2, GoesOn DEF FirstAnswer
  <2>3. CASE SecondAnswer(t, c)
    BY <2>1, <2>3, GoesOn DEF SecondAnswer
  <2> QED
    BY <1>2, <2>2, <2>3
<1>3. CASE ProviderFails(t)
  <2>1. turn[t] \in TurnRecords /\ turn \in TurnTables /\ turn[t].cost \in Nat
    BY ChatTables DEF ChatInv, TurnTables, TurnRecords
  <2>2. turn[t].cost + 0 = turn[t].cost
    BY <2>1
  <2>3. [turn[t] EXCEPT !.pc = "failing"]
           = [turn[t] EXCEPT !.pc = "failing", !.cost = turn[t].cost + 0]
    BY <2>1, <2>2 DEF TurnRecords
  <2>4. turn' = [turn EXCEPT ![t].pc = "failing", ![t].cost = @ + 0]
    BY <1>3, <2>1, <2>3 DEF ProviderFails, TurnTables
  <2> QED
    BY <1>3, <2>4, GoesOn DEF ProviderFails
<1> QED
  BY <1>1, <1>2, <1>3

(* A turn that is given up leaves the rows as they were.                        *)
LEMMA GiveUpStep ==
  ASSUME ChatInv, NEW t \in Turns, GiveUp(t)
  PROVE  ChatInv'
  BY RolledBack DEF GiveUp

(* The date changes and nothing else: rows that were named stay named.          *)
LEMMA MidnightStep ==
  ASSUME ChatInv, Midnight
  PROVE  ChatInv'
<1>1. today' \in Days /\ today' = today + 1 /\ today \in Int
  BY ChatTables, ChatAssumption DEF Midnight, ChatInv, Days
<1>2. UNCHANGED <<daySpend, sessionTokens, turn, Open, Done>>
  BY DEF Midnight, Open, Done
<1>3. ChatTypeOK'
  BY <1>1, <1>2 DEF ChatInv, ChatTypeOK
<1>4. RowsLocked' /\ HoldsWhatItRead' /\ IdleTurns'
  BY <1>1, <1>2 DEF ChatInv, RowsLocked, HoldsWhatItRead, IdleTurns, HoldsItsRows, Apart
<1>5. SpendNeverUndercounted'
  BY <1>2 DEF ChatInv, SpendNeverUndercounted, CostOf
<1>6. ASSUME NEW d \in Days
      PROVE  DayExplained(d)'
  BY <1>2 DEF ChatInv, DayExplained, OneReservedOn, Corrected, Excess
<1> QED
  BY <1>3, <1>4, <1>5, <1>6 DEF ChatInv

(* A finished turn leaves its cost in the rows: on the day it was reserved,   *)
(* or, past midnight, its estimate there and the rest on the day it named.   *)
SettledRows(t, d, a) ==
    /\ d = turn[t].day /\ a = turn[t].asks /\ t \in Open /\ turn[t].pc = "settling"
    /\ daySpend' \in [Days -> Nat]
    /\ \A e \in Days \ {d, a} : daySpend'[e] = daySpend[e]
    /\ daySpend[d] + turn[t].estimate <= DailyCap
    /\ d = a => daySpend'[d] = daySpend[d] + turn[t].cost
    /\ d # a => /\ daySpend'[d] = daySpend[d] + turn[t].estimate
                /\ daySpend'[a] = AtLeastZero(daySpend[a] - turn[t].estimate + turn[t].cost)

LEMMA SettledDays ==
  ASSUME ChatInv, NEW t \in Turns, Settle(t)
  PROVE  \E d \in 0..today, a \in 0..today : SettledRows(t, d, a)
<1>1. turn[t].pc = "settling" /\ t \in Open /\ turn[t].asks # NoDay
  BY DEF Settle, GetsDay, Open, Running
<1>2. turn[t] \in TurnRecords /\ today \in Days /\ daySpend \in [Days -> Nat]
  BY ChatTables DEF ChatInv, TurnTables
<1>3. turn[t].cost \in Nat /\ turn[t].estimate \in Nat
  BY <1>2, EstimatesNatural DEF TurnRecords
<1> DEFINE d == turn[t].day
           a == turn[t].asks
<1>4. /\ d \in 0..today /\ a \in 0..today /\ turn[t].spendRead = daySpend[d]
      /\ daySpend[d] + turn[t].estimate <= DailyCap
  <2>1. /\ d \in 0..today /\ a \in 0..today /\ turn[t].spendRead = daySpend[d]
        /\ Affordable(turn[t].spendRead, turn[t].estimate)
    BY <1>1 DEF ChatInv, HoldsWhatItRead, HoldsItsRows
  <2>2. d \in Days /\ daySpend[d] \in Nat
    BY <1>2, <2>1, ChatAssumption DEF Days
  <2> QED
    BY <1>3, <2>1, <2>2, ChatAssumption DEF Affordable
<1>5. d \in Days /\ a \in Days /\ daySpend[d] \in Nat /\ daySpend[a] \in Nat
  BY <1>2, <1>4, ChatAssumption DEF Days
<1> DEFINE before == [daySpend EXCEPT ![d] = daySpend[d] + turn[t].estimate]
<1>6. daySpend' = [before EXCEPT ![a] = AtLeastZero(before[a] - turn[t].estimate + turn[t].cost)]
  BY <1>2, <1>4, <1>5 DEF Settle, ReconciledDays
<1>7. /\ before \in [Days -> Nat] /\ before[d] = daySpend[d] + turn[t].estimate
      /\ \A e \in Days \ {d} : before[e] = daySpend[e]
  BY <1>2, <1>3, <1>5
<1> HIDE DEF before
<1>8. AtLeastZero(before[a] - turn[t].estimate + turn[t].cost) \in Nat
  BY <1>3, <1>5, <1>7 DEF AtLeastZero
<1>9. /\ daySpend' \in [Days -> Nat]
      /\ \A e \in Days \ {a} : daySpend'[e] = before[e]
      /\ daySpend'[a] = AtLeastZero(before[a] - turn[t].estimate + turn[t].cost)
  BY <1>5, <1>6, <1>7, <1>8
<1>10. CASE d = a
  <2>1. daySpend'[d] = daySpend[d] + turn[t].cost
    BY <1>3, <1>5, <1>7, <1>9, <1>10 DEF AtLeastZero
  <2> QED
    BY <1>1, <1>4, <1>7, <1>9, <1>10, <2>1 DEF SettledRows
<1>11. CASE d # a
  BY <1>1, <1>2, <1>4, <1>5, <1>7, <1>9, <1>11 DEF SettledRows
<1> QED
  BY <1>10, <1>11

(* Sums over the days, when one row changes. *)
LEMMA DaySums ==
  ASSUME NEW f \in [Days -> Nat], NEW g \in [Days -> Nat]
  PROVE  /\ SumFunctionOnSet(f, Days) \in Int
         /\ (\A e \in Days : g[e] = f[e]) =>
              SumFunctionOnSet(g, Days) = SumFunctionOnSet(f, Days)
         /\ \A d \in Days : (\A e \in Days \ {d} : g[e] = f[e]) =>
              SumFunctionOnSet(g, Days) = SumFunctionOnSet(f, Days) - f[d] + g[d]
<1>1. \A e \in Days : f[e] \in Int /\ g[e] \in Int
  OBVIOUS
<1>4. IsFiniteSet(Days)
  BY DaysFinite
<1>2. SumFunctionOnSet(f, Days) \in Int
  BY <1>1, <1>4, SumType
<1>3. ASSUME NEW d \in Days, \A e \in Days \ {d} : g[e] = f[e]
      PROVE  SumFunctionOnSet(g, Days) = SumFunctionOnSet(f, Days) - f[d] + g[d]
  BY <1>1, <1>3, <1>4, SumUpdate
<1>5. ASSUME \A e \in Days : g[e] = f[e]
      PROVE  SumFunctionOnSet(g, Days) = SumFunctionOnSet(f, Days)
  BY <1>4, <1>5, SumSame
<1> QED
  BY <1>2, <1>3, <1>5

(* The rows of the days grow by at least the cost of the turn. *)
LEMMA SettledSum ==
  ASSUME ChatInv, NEW t \in Turns, Settle(t)
  PROVE  SumFunctionOnSet(daySpend, Days) + turn[t].cost
            <= SumFunctionOnSet(daySpend', Days)
<1> PICK d \in 0..today, a \in 0..today : SettledRows(t, d, a)
  BY SettledDays
<1> USE DEF SettledRows
<1> DEFINE Sum(f) == SumFunctionOnSet(f, Days)
           mid == [daySpend EXCEPT ![d] = daySpend'[d]]
<1>1. /\ turn[t] \in TurnRecords /\ today \in Days /\ daySpend \in [Days -> Nat]
      /\ daySpend' \in [Days -> Nat] /\ d \in 0..today /\ a \in 0..today
  BY ChatTables, DaysFinite DEF ChatInv, TurnTables
<1>2. turn[t].cost \in Nat /\ turn[t].estimate \in Nat /\ d \in Days /\ a \in Days
  <2>1. turn[t].cost \in Nat /\ turn[t].estimate \in Nat
    BY <1>1, EstimatesNatural DEF TurnRecords
  <2>2. d \in Days /\ a \in Days
    BY <1>1, ChatAssumption DEF Days
  <2> QED
    BY <2>1, <2>2
<1>3. /\ mid \in [Days -> Nat] /\ mid[d] = daySpend'[d]
      /\ \A e \in Days \ {d} : mid[e] = daySpend[e]
  BY <1>1, <1>2
<1> HIDE DEF mid
<1>4. Sum(daySpend) \in Int /\ Sum(mid) \in Int /\ Sum(daySpend') \in Int
  BY <1>1, <1>3, DaySums
<1>5. Sum(mid) = Sum(daySpend) - daySpend[d] + mid[d]
  BY <1>1, <1>2, <1>3, DaySums
<1>6. CASE d = a
  <2>1. \A e \in Days : mid[e] = daySpend'[e]
    BY <1>3, <1>6
  <2>2. Sum(mid) = Sum(daySpend')
    BY <1>1, <1>3, <2>1, DaySums
  <2>3. mid[d] = daySpend[d] + turn[t].cost /\ daySpend[d] \in Nat
    BY <1>1, <1>2, <1>3, <1>6
  <2> QED
    BY <1>2, <1>4, <1>5, <2>2, <2>3
<1>7. CASE d # a
  <2>1. \A e \in Days \ {a} : daySpend'[e] = mid[e]
    <3>1. \A e \in Days \ {d, a} : daySpend'[e] = mid[e]
      BY <1>3
    <3> QED
      BY <1>3, <3>1
  <2>2. Sum(daySpend') = Sum(mid) - mid[a] + daySpend'[a]
    <3>1. a \in Days /\ mid \in [Days -> Nat] /\ daySpend' \in [Days -> Nat]
      BY <1>1, <1>2, <1>3
    <3> HIDE DEF SettledRows
    <3> QED
      BY <2>1, <3>1, DaySums
  <2>3. /\ mid[d] = daySpend[d] + turn[t].estimate /\ daySpend[d] \in Nat
        /\ mid[a] = daySpend[a] /\ daySpend[a] \in Nat
        /\ daySpend'[a] = AtLeastZero(daySpend[a] - turn[t].estimate + turn[t].cost)
    BY <1>1, <1>2, <1>3, <1>7
  <2>4. daySpend'[a] >= daySpend[a] - turn[t].estimate + turn[t].cost /\ daySpend'[a] \in Nat
    BY <1>1, <1>2, <2>3 DEF AtLeastZero
  <2>5. Sum(mid) = Sum(daySpend) + turn[t].estimate
    BY <1>2, <1>4, <1>5, <2>3
  <2> QED
    BY <1>2, <1>4, <2>2, <2>3, <2>4, <2>5
<1> QED
  BY <1>6, <1>7

(* The turn commits: its cost is in the rows, and it explains its day. *)
LEMMA SettleStep ==
  ASSUME ChatInv, NEW t \in Turns, Settle(t)
  PROVE  ChatInv'
<1> PICK d \in 0..today, a \in 0..today : SettledRows(t, d, a)
  BY SettledDays
<1> USE DEF SettledRows
<1> DEFINE s == turn[t].session
<1>1. /\ turn \in TurnTables /\ turn[t] \in TurnRecords /\ today \in Days /\ today \in Int
      /\ daySpend \in [Days -> Nat] /\ sessionTokens \in [Sessions -> Nat]
  BY ChatTables, DaysFinite DEF ChatInv, TurnTables
<1>2. turn[t].cost \in Nat /\ turn[t].estimate \in Nat
  BY <1>1, EstimatesNatural DEF TurnRecords
<1>3. d \in Days /\ a \in Days /\ d \in Int /\ a \in Int
  BY <1>1, ChatAssumption DEF Days
<1>4. /\ UNCHANGED today /\ DayFree(a, t)
      /\ turn' = [turn EXCEPT ![t].pc = "done"]
  BY DEF Settle, GetsDay
<1>5. s \in Sessions /\ sessionTokens' = [sessionTokens EXCEPT ![s] = @ + turn[t].cost]
  <2>1. s \in Sessions /\ turn[t].tokensRead = sessionTokens[s]
    BY DEF ChatInv, HoldsWhatItRead, HoldsItsRows
  <2>2. sessionTokens[s] \in Nat
    BY <1>1, <2>1
  <2>3. AtLeastZero(turn[t].tokensRead + turn[t].estimate - turn[t].estimate + turn[t].cost)
           = sessionTokens[s] + turn[t].cost
    BY <1>2, <2>1, <2>2 DEF AtLeastZero
  <2> QED
    BY <2>1, <2>3 DEF Settle
<1>6. turn' \in TurnTables
  <2>1. [turn[t] EXCEPT !.pc = "done"] \in TurnRecords
    BY <1>1 DEF TurnRecords, Ended
  <2> QED
    BY <1>1, <1>4, <2>1 DEF TurnTables
<1>7. ChatTypeOK'
  <2>1. sessionTokens' \in [Sessions -> Nat]
    BY <1>1, <1>2, <1>5
  <2> QED
    BY <1>1, <1>4, <1>6, <2>1 DEF ChatInv, ChatTypeOK, TurnTables, TurnRecords
<1>8. /\ Done' = Done \cup {t} /\ Open' = Open \ {t} /\ t \notin Done /\ Done \subseteq Turns
      /\ \A u \in Turns \ {t} : turn'[u] = turn[u]
      /\ turn'[t].pc = "done" /\ turn'[t].session = s /\ turn'[t].day = d
      /\ turn'[t].asks = a
      /\ turn'[t].cost = turn[t].cost /\ turn'[t].estimate = turn[t].estimate
  BY <1>1, <1>4 DEF Done, Open, Running, TurnTables, TurnRecords
<1>9. TurnCosts(turn') = TurnCosts(turn) /\ TurnExcess(turn') = TurnExcess(turn)
  BY <1>8 DEF TurnCosts, TurnExcess
<1> HIDE DEF s
<1>10. RowsLocked' /\ IdleTurns'
  BY <1>4, <1>5, <1>8 DEF ChatInv, RowsLocked, IdleTurns, Apart, Open
<1>11. HoldsWhatItRead'
  <2> SUFFICES ASSUME NEW u \in Open' PROVE HoldsItsRows(turn[u])'
    BY DEF HoldsWhatItRead
  <2>1. u \in Open \ {t} /\ turn'[u] = turn[u] /\ HoldsItsRows(turn[u]) /\ Apart(turn[t], u)
    BY <1>8 DEF ChatInv, HoldsWhatItRead, RowsLocked, Open
  <2>2. turn[u].session # s /\ turn[u].day # a /\ turn[u].day # d
    BY <1>3, <1>4, <2>1 DEF Apart, DayFree, NoDay, s
  <2>3. turn[u].day \in 0..today => turn[u].day \in Days \ {d, a}
    BY <1>1, <2>2, ChatAssumption DEF Days
  <2> QED
    BY <1>1, <1>4, <1>5, <2>1, <2>2, <2>3 DEF HoldsItsRows
<1>13. SpendNeverUndercounted'
  <2>1. SumFunctionOnSet(TurnCosts(turn'), Done') = CostOf(Done) + turn[t].cost
    BY <1>1, <1>8, <1>9, TurnSumsGrow, ChatSums
  <2>2. CostOf(Done) \in Int /\ CostOf(Done) <= SumFunctionOnSet(daySpend, Days)
    BY <1>1, <1>8, TurnSumsGrow, ChatSums DEF ChatInv, SpendNeverUndercounted
  <2>3. /\ SumFunctionOnSet(daySpend, Days) \in Int /\ SumFunctionOnSet(daySpend', Days) \in Int
        /\ SumFunctionOnSet(daySpend, Days) + turn[t].cost <= SumFunctionOnSet(daySpend', Days)
    BY <1>1, DaySums, SettledSum
  <2>4. SumFunctionOnSet(TurnCosts(turn'), Done') <= SumFunctionOnSet(daySpend', Days)
    BY <1>2, <2>1, <2>2, <2>3
  <2>5. ASSUME NEW q \in Sessions
        PROVE  sessionTokens'[q]
                 = SumFunctionOnSet(TurnCosts(turn'), {u \in Done' : turn'[u].session = q})
    <3> DEFINE S == {u \in Done : turn[u].session = q}
    <3>1. S \in SUBSET Turns /\ t \in Turns \ S
      BY <1>8
    <3>2. sessionTokens[q] = SumFunctionOnSet(TurnCosts(turn), S)
      BY ChatSums DEF ChatInv, SpendNeverUndercounted
    <3>3. {u \in Done' : turn'[u].session = q} = IF q = s THEN S \cup {t} ELSE S
      BY <1>8
    <3> HIDE DEF S
    <3>4. SumFunctionOnSet(TurnCosts(turn'), S \cup {t})
             = SumFunctionOnSet(TurnCosts(turn), S) + turn[t].cost
      BY <1>1, <1>9, <3>1, TurnSumsGrow
    <3> QED
      BY <1>1, <1>5, <1>9, <3>2, <3>3, <3>4
  <2> QED
    BY <2>4, <2>5 DEF SpendNeverUndercounted, CostOf, TurnCosts
<1>14. ASSUME NEW e \in Days
       PROVE  DayExplained(e)'
  <2>1. DayExplained(e) /\ e \in Int /\ daySpend[e] \in Nat
    BY <1>1, DaysFinite DEF ChatInv
  <2>2. CASE e \notin {d, a}
    <3>1. daySpend'[e] = daySpend[e] /\ Done \subseteq Done' /\ \A u \in Done : turn'[u] = turn[u]
      BY <1>8, <2>2
    <3> QED
      BY <1>1, <1>6, <2>1, <3>1, StillExplained
  <2>3. CASE e = d /\ d # a
    <3>1. daySpend'[e] <= DailyCap
      BY <2>3
    <3> QED
      BY <3>1, ExplainedByNobody
  <2>4. CASE e = a /\ d = a
    \* What it cost beyond its estimate, all else is within the cap.
    <3>1. SumFunctionOnSet(TurnExcess(turn'), {t}) = AtLeastZero(turn[t].cost - turn[t].estimate)
      <4>1. /\ {} \in SUBSET Turns /\ t \in Turns \ {} /\ {} \cup {t} = {t}
            /\ SumFunctionOnSet(TurnExcess(turn), {}) = 0
        BY SumEmpty
      <4>2. AtLeastZero(turn[t].cost - turn[t].estimate) \in Int
        BY <1>2 DEF AtLeastZero
      <4> QED
        BY <1>1, <1>9, <4>1, <4>2, TurnSumsGrow
    <3>2. daySpend'[e] <= DailyCap + AtLeastZero(turn[t].cost - turn[t].estimate)
      BY <1>2, <2>1, <2>4, ChatAssumption DEF AtLeastZero
    <3>3. Excess({t})' = AtLeastZero(turn[t].cost - turn[t].estimate)
      BY <3>1, ChatSumsThen
    <3>4. OneReservedOn(e, {t})' /\ {t} \in SUBSET Corrected(e)'
      BY <1>8, <2>4 DEF OneReservedOn, Corrected
    <3> QED
      BY <3>2, <3>3, <3>4 DEF DayExplained
  <2>5. CASE e = a /\ d # a
    \* It crossed midnight and joins those that explain the day it named.
    <3>1. PICK S \in SUBSET Corrected(e) :
             OneReservedOn(e, S) /\ daySpend[e] <= DailyCap + Excess(S)
      BY <2>1 DEF DayExplained
    <3>2. /\ S \in SUBSET Turns /\ t \in Turns \ S /\ S \cup {t} \in SUBSET Corrected(e)'
          /\ \A u \in S : turn'[u] = turn[u]
      BY <1>8, <2>5 DEF Corrected
    <3>3. /\ Excess(S \cup {t})' = Excess(S) + AtLeastZero(turn[t].cost - turn[t].estimate)
          /\ Excess(S) \in Int
      BY <1>1, <1>9, <3>2, TurnSumsGrow, ChatSums, ChatSumsThen
    <3>4. daySpend'[e] <= daySpend[e] + AtLeastZero(turn[t].cost - turn[t].estimate)
      BY <1>2, <2>1, <2>5 DEF AtLeastZero
    <3>5. AtLeastZero(turn[t].cost - turn[t].estimate) \in Int /\ daySpend'[e] \in Int
      BY <1>2, <1>1 DEF AtLeastZero
    <3>6. daySpend'[e] <= DailyCap + Excess(S \cup {t})'
      BY <2>1, <3>1, <3>3, <3>4, <3>5, ChatAssumption
    <3>7. OneReservedOn(e, S \cup {t})'
      BY <1>8, <2>5, <3>1, <3>2 DEF OneReservedOn
    <3> QED
      BY <3>2, <3>6, <3>7 DEF DayExplained
  <2> QED
    BY <2>2, <2>3, <2>4, <2>5
<1> QED
  BY <1>7, <1>10, <1>11, <1>13, <1>14 DEF ChatInv

(* The invariant holds throughout.                                              *)
LEMMA ChatInvariant == ChatSpec => []ChatInv
<1>1. ASSUME ChatInv, [ChatNext]_chatVars PROVE ChatInv'
  <2>1. CASE \E t \in Turns, s \in Sessions, n \in Estimates : ReserveTokens(t, s, n)
    BY <1>1, <2>1, ReserveTokensStep
  <2>2. ASSUME NEW t \in Turns, TurnStep(t) PROVE ChatInv'
    BY <1>1, <2>2, NameDayStep, ReserveDayStep, ProviderStep, GiveUpStep, SettleStep DEF TurnStep
  <2>3. CASE Midnight
    BY <1>1, <2>3, MidnightStep
  <2>4. CASE UNCHANGED chatVars
    <3>1. UNCHANGED <<today, daySpend, sessionTokens, turn, Open, Done>>
      BY <2>4 DEF chatVars, Open, Done
    <3>2. ChatTypeOK' /\ RowsLocked' /\ HoldsWhatItRead' /\ IdleTurns'
      BY <1>1, <3>1 DEF ChatInv, ChatTypeOK, RowsLocked, HoldsWhatItRead, IdleTurns,
         HoldsItsRows, Apart
    <3>3. SpendNeverUndercounted'
      BY <1>1, <3>1 DEF ChatInv, SpendNeverUndercounted, CostOf
    <3>4. \A d \in Days : DayExplained(d)'
      BY <1>1, <3>1 DEF ChatInv, DayExplained, OneReservedOn, Corrected, Excess
    <3> QED
      BY <3>2, <3>3, <3>4 DEF ChatInv
  <2> QED
    BY <1>1, <2>1, <2>2, <2>3, <2>4 DEF ChatNext
<1> QED
  BY <1>1, ChatInitial, PTL DEF ChatSpec

(* What the rows of the days hold is bounded from both sides, for any number    *)
(* of turns, sessions and midnights: every finished turn is in them at what it  *)
(* cost, and a day exceeds the cap only by the excess of turns corrected on it, *)
(* all of which but one were reserved on an earlier day                         *)
(* (reserve_daily_chat_budget, reconcile_daily_chat_budget).                    *)
THEOREM ChatSpendIsBounded == ChatSpec => []DaySpendBounded
<1>1. ChatInv => DaySpendBounded
  BY DEF ChatInv, DayExplained, DaySpendBounded, OvershootIsLateAnswers
<1> QED
  BY <1>1, ChatInvariant, PTL

(* What TurnsEnd rests on: t waits for u, which holds the row t has asked for.  *)
WaitsFor(t, u) == /\ {t, u} \subseteq Open /\ u # t
                  /\ turn[t].asks # NoDay /\ turn[u].day = turn[t].asks

(* A turn that waits for another waits for one that holds the row of a later    *)
(* day than its own, so the chains of waiting turns never close; and while      *)
(* turns are open, one of them waits for nobody and can go on.                  *)
HoldersGoOn ==
    /\ \A t, u \in Turns : WaitsFor(t, u) => turn[t].day < turn[u].day
    /\ Open # {} => \E t \in Open : \A u \in Turns : ~WaitsFor(t, u)

(* The row locks of the days never close a circle, for any number of turns and  *)
(* midnights, although a turn that holds yesterday's row asks for today's, and  *)
(* turns that asked for yesterday's before midnight still wait for that one.    *)
THEOREM ChatHoldersGoOn == ChatSpec => []HoldersGoOn
<1>1. ChatInv => HoldersGoOn
  <2> SUFFICES ASSUME ChatInv PROVE HoldersGoOn
    OBVIOUS
  <2>1. \A t \in Turns : turn[t].day \in Days \cup {NoDay} /\ turn[t].day \in Int
    <3>1. \A t \in Turns : turn[t].day \in Days \cup {NoDay}
      BY ChatTables DEF ChatInv, TurnTables, TurnRecords
    <3> QED
      BY <3>1, DaysFinite DEF NoDay
  <2>2. ASSUME NEW t \in Turns, NEW u \in Turns, WaitsFor(t, u)
        PROVE  turn[t].day < turn[u].day
    <3>1. /\ turn[t].day <= turn[u].day /\ turn[u].day # NoDay
          /\ Apart(turn[t], u)
      BY <2>2 DEF WaitsFor, ChatInv, HoldsWhatItRead, HoldsItsRows, RowsLocked
    <3> QED
      BY <2>1, <3>1 DEF Apart
  <2>3. ASSUME Open # {}
        PROVE  \E t \in Open : \A u \in Turns : ~WaitsFor(t, u)
    <3> DEFINE Later(t) == {u \in Open : turn[t].day < turn[u].day}
    <3>1. Open \subseteq Turns /\ IsFiniteSet(Open)
      BY ChatAssumption, FS_Subset DEF Open
    <3> DEFINE C == {Later(t) : t \in Open}
    <3>5. C \in SUBSET SUBSET Open /\ C # {}
      BY <2>3
    <3> HIDE DEF C
    <3>2. PICK T \in C : \A R \in C : ~(R \subseteq T /\ R # T)
      BY <3>1, <3>5, SmallestSubset
    <3> USE DEF C
    <3>3. PICK t \in Open : T = Later(t)
      OBVIOUS
    <3>4. ASSUME NEW u \in Turns, WaitsFor(t, u)
          PROVE  FALSE
      <4>1. turn[t].day < turn[u].day /\ u \in Open
        BY <2>2, <3>1, <3>4 DEF WaitsFor
      <4>2. u \in Later(t) /\ u \notin Later(u) /\ Later(u) \subseteq Later(t)
        BY <2>1, <3>1, <4>1
      <4> QED
        BY <3>2, <3>3, <4>1, <4>2
    <3> QED
      BY <3>4
  <2> QED
    BY <2>2, <2>3 DEF HoldersGoOn
<1> QED
  BY <1>1, ChatInvariant, PTL

(*****************************************************************************)
(* DocumentSpend, for any number of runs and any bounds.                     *)
(*****************************************************************************)

(* Sums of a natural number per run are cardinalities: of the pairs of a run *)
(* and a number below the run's.                                             *)
RunWeights == [AnalysisRuns -> 0..Estimate]
Pairs(w) == {p \in AnalysisRuns \X (0..Estimate) : p[2] < w[p[1]]}
Total(w) == Cardinality(Pairs(w))

PairsUnder(r, n) == {r} \X (0..(n - 1))
PairsBut(w, r) == {p \in Pairs(w) : p[1] # r}

(* The total of finitely many weights is a number.                              *)
LEMMA PairsFinite ==
  ASSUME NEW w \in RunWeights
  PROVE  IsFiniteSet(Pairs(w)) /\ Total(w) \in Nat
<1>1. IsFiniteSet(0..Estimate)
  BY FS_Interval, SpendAssumption
<1>2. IsFiniteSet(AnalysisRuns \X (0..Estimate))
  BY <1>1, FS_Product, SpendAssumption
<1>3. IsFiniteSet(Pairs(w))
  BY <1>2, FS_Subset DEF Pairs
<1> QED
  BY <1>3, FS_CardinalityType DEF Total

(* A total is what one run weighs, and the rest.                                *)
LEMMA PairsSplit ==
  ASSUME NEW w \in RunWeights, NEW r \in AnalysisRuns
  PROVE  /\ IsFiniteSet(PairsBut(w, r))
         /\ Cardinality(PairsBut(w, r)) \in Nat
         /\ Total(w) = Cardinality(PairsBut(w, r)) + w[r]
<1> DEFINE n == w[r]
<1>1. n \in Nat /\ n <= Estimate /\ Estimate \in Nat
  BY SpendAssumption DEF RunWeights
<1>2. IsFiniteSet(Pairs(w))
  BY PairsFinite
<1>3. IsFiniteSet(PairsBut(w, r)) /\ Cardinality(PairsBut(w, r)) \in Nat
  <2>1. PairsBut(w, r) \in SUBSET Pairs(w)
    BY DEF PairsBut
  <2> HIDE DEF n
  <2> QED
    BY <1>2, <2>1, FS_Subset, FS_CardinalityType
<1>4. IsFiniteSet(PairsUnder(r, n)) /\ Cardinality(PairsUnder(r, n)) = n
  <2>1. IsFiniteSet(0..(n - 1)) /\ Cardinality(0..(n - 1)) = n
    <3>1. 0 \in Int /\ n - 1 \in Int
      BY <1>1
    <3>2. Cardinality(0..(n - 1)) = IF 0 > n - 1 THEN 0 ELSE (n - 1) - 0 + 1
      BY <3>1, FS_Interval
    <3>3. IsFiniteSet(0..(n - 1))
      BY <3>1, FS_Interval
    <3> HIDE DEF n
    <3>4. Cardinality(0..(n - 1)) = n
      BY <1>1, <3>2
    <3> QED
      BY <3>3, <3>4
  <2>2. IsFiniteSet({r}) /\ Cardinality({r}) = 1
    BY FS_Singleton
  <2>3. /\ IsFiniteSet({r} \X (0..(n - 1)))
        /\ Cardinality({r} \X (0..(n - 1))) = 1 * n
    BY <2>1, <2>2, FS_Product
  <2> QED
    BY <1>1, <2>3 DEF PairsUnder
<1>5. Pairs(w) = PairsBut(w, r) \cup PairsUnder(r, n)
  BY <1>1 DEF Pairs, PairsBut, PairsUnder
<1>6. PairsBut(w, r) \cap PairsUnder(r, n) = {}
  BY DEF PairsBut, PairsUnder
<1>7. Total(w) = Cardinality(PairsBut(w, r)) + Cardinality(PairsUnder(r, n)) - 0
  <2> DEFINE A == PairsBut(w, r)
             B == PairsUnder(r, n)
  <2>1. IsFiniteSet(A) /\ IsFiniteSet(B)
    BY <1>3, <1>4
  <2> HIDE DEF A, B
  <2>2. Cardinality(A \cup B) = Cardinality(A) + Cardinality(B) - Cardinality(A \cap B)
    BY <2>1, FS_Union
  <2>3. Cardinality({}) = 0
    BY FS_EmptySet
  <2>4. Total(w) = Cardinality(A \cup B) /\ Cardinality(A \cap B) = 0
    BY <1>5, <1>6, <2>3 DEF Total, A, B
  <2> QED
    BY <2>2, <2>4 DEF A, B
<1> QED
  BY <1>1, <1>3, <1>4, <1>7

(* Changing the number of one run changes the sum by as much. *)
LEMMA TotalChanges ==
  ASSUME NEW w \in RunWeights, NEW v \in RunWeights, NEW r \in AnalysisRuns,
         \A q \in AnalysisRuns \ {r} : v[q] = w[q]
  PROVE  /\ Total(w) \in Nat /\ Total(v) \in Nat
         /\ w[r] \in Nat /\ v[r] \in Nat
         /\ w[r] <= Total(w)
         /\ Total(v) = Total(w) - w[r] + v[r]
<1>1. PairsBut(v, r) = PairsBut(w, r)
  BY DEF PairsBut, Pairs
<1>2. w[r] \in Nat /\ v[r] \in Nat
  BY SpendAssumption DEF RunWeights
<1>3. /\ Cardinality(PairsBut(w, r)) \in Nat
      /\ Total(w) = Cardinality(PairsBut(w, r)) + w[r]
      /\ Total(v) = Cardinality(PairsBut(w, r)) + v[r]
  BY <1>1, PairsSplit
<1> QED
  BY <1>2, <1>3

(* Nothing adds up to zero.                                                     *)
LEMMA NothingTotals == Total([r \in AnalysisRuns |-> 0]) = 0
<1>1. Pairs([r \in AnalysisRuns |-> 0]) = {}
  BY SpendAssumption DEF Pairs
<1> QED
  BY <1>1, FS_EmptySet DEF Total

-----------------------------------------------------------------------------
Requests == [pc : {"idle", "asking", "failing", "settling", "writing", "over"},
             at : Nat, cost : Costs \cup {0}, answered : BOOLEAN,
             valid : BOOLEAN, seen : Nat]

(* The estimate of a request is in the column from its reservation on. *)
InFlight == {"asking", "failing", "settling", "writing"}
HeldBy(m) == IF m.pc \in InFlight THEN Estimate ELSE 0

(* What is left of the estimate when the answer has been paid for. *)
Cheap == \A c \in Costs : c <= Estimate
SpareIn(m) ==
    IF ~Cheap \/ m.pc \notin InFlight THEN 0
    ELSE IF m.answered THEN Estimate - m.cost
    ELSE IF m.pc = "asking" THEN Estimate ELSE 0

Held == [r \in AnalysisRuns |-> HeldBy(request[r])]
Spare == [r \in AnalysisRuns |-> SpareIn(request[r])]

Typed == /\ request \in [AnalysisRuns -> Requests]
         /\ batchSpent \in Nat /\ providerBill \in Nat /\ owed \in Int
         /\ overlapped \in BOOLEAN
         /\ \A r \in AnalysisRuns :
              /\ request[r].pc = "writing" => request[r].answered
              /\ request[r].pc \in {"idle", "asking"} => ~request[r].answered

(* While no two transactions overlapped on the column, a run about to write   *)
(* it has seen what it holds, it is what is owed, and it covers the estimates *)
(* of the requests in flight and what the provider charged.                   *)
Exact == /\ batchSpent = owed
         /\ \A r \in AnalysisRuns : request[r].pc = "writing" => request[r].seen = batchSpent
         /\ Total(Held) <= batchSpent
         /\ Cheap => providerBill + Total(Spare) <= batchSpent

SpendInv == Typed /\ (overlapped \/ Exact)

(* What a run has outstanding is at most one estimate.                          *)
LEMMA WeightsOf ==
  ASSUME NEW m \in Requests
  PROVE  HeldBy(m) \in 0..Estimate /\ SpareIn(m) \in 0..Estimate
<1>1. m.cost \in Nat /\ (Cheap => m.cost <= Estimate) /\ Estimate \in Nat
  <2>1. m.cost \in Costs \cup {0}
    BY DEF Requests
  <2>2. Estimate \in Nat /\ 0 \in Nat /\ Costs \subseteq Nat
    BY SpendAssumption
  <2>3. 0 <= Estimate
    BY <2>2
  <2>4. CASE m.cost = 0
    BY <2>2, <2>3, <2>4
  <2>5. CASE m.cost \in Costs
    BY <2>2, <2>5, Zenon DEF Cheap
  <2> QED
    BY <2>1, <2>4, <2>5
<1>2. HeldBy(m) \in 0..Estimate
  BY <1>1 DEF HeldBy
<1>3. 0 \in 0..Estimate /\ Estimate \in 0..Estimate
      /\ (Cheap => Estimate - m.cost \in 0..Estimate)
  BY <1>1
<1>4. SpareIn(m) \in 0..Estimate
  BY <1>3, Zenon DEF SpareIn
<1> QED
  BY <1>2, <1>4

(* Nothing is spent at first.                                                   *)
LEMMA SpendInitial == SpendInit => SpendInv
<1> SUFFICES ASSUME SpendInit PROVE SpendInv
  OBVIOUS
<1>1. AtRest \in Requests /\ AtRest.pc = "idle"
  BY DEF AtRest, Requests
<1>2. \A r \in AnalysisRuns : request[r] = AtRest
  BY DEF SpendInit
<1>3. Typed
  <2>1. request \in [AnalysisRuns -> Requests]
    BY <1>1 DEF SpendInit
  <2>2. AtRest.answered = FALSE
    BY DEF AtRest
  <2>3. \A r \in AnalysisRuns :
            /\ request[r].pc = "writing" => request[r].answered
            /\ request[r].pc \in {"idle", "asking"} => ~request[r].answered
    BY <1>1, <1>2, <2>2
  <2>4. batchSpent \in Nat /\ providerBill \in Nat /\ owed \in Int
    BY DEF SpendInit
  <2>5. overlapped \in BOOLEAN
    BY Zenon DEF SpendInit
  <2> QED
    BY <2>1, <2>3, <2>4, <2>5 DEF Typed
<1>4. HeldBy(AtRest) = 0 /\ SpareIn(AtRest) = 0
  BY <1>1 DEF HeldBy, SpareIn, InFlight
<1>5. Held = [r \in AnalysisRuns |-> 0] /\ Spare = [r \in AnalysisRuns |-> 0]
  BY <1>2, <1>4 DEF Held, Spare
<1>6. Exact
  BY <1>1, <1>2, <1>5, NothingTotals DEF SpendInit, Exact
<1> QED
  BY <1>3, <1>6 DEF SpendInv

(* A step gives one run a new record. *)
Moves(r, m) == m \in Requests /\ request' = [request EXCEPT ![r] = m]

(* A step of one run moves the totals by what moves in that run.                *)
LEMMA TotalsMove ==
  ASSUME Typed, NEW r \in AnalysisRuns, NEW m, Moves(r, m)
  PROVE  /\ request' \in [AnalysisRuns -> Requests]
         /\ Total(Held) \in Nat /\ Total(Spare) \in Nat
         /\ Total(Held') = Total(Held) - HeldBy(request[r]) + HeldBy(m)
         /\ Total(Spare') = Total(Spare) - SpareIn(request[r]) + SpareIn(m)
         /\ HeldBy(request[r]) <= Total(Held)
         /\ SpareIn(request[r]) <= Total(Spare)
<1>1. /\ request \in [AnalysisRuns -> Requests] /\ request' \in [AnalysisRuns -> Requests]
      /\ request'[r] = m /\ \A q \in AnalysisRuns \ {r} : request'[q] = request[q]
  BY DEF Typed, Moves
<1>2. /\ Held \in RunWeights /\ Spare \in RunWeights
      /\ Held' \in RunWeights /\ Spare' \in RunWeights
  BY <1>1, WeightsOf DEF RunWeights, Held, Spare
<1>3. /\ Held[r] = HeldBy(request[r]) /\ Held'[r] = HeldBy(m)
      /\ Spare[r] = SpareIn(request[r]) /\ Spare'[r] = SpareIn(m)
      /\ \A q \in AnalysisRuns \ {r} : Held'[q] = Held[q] /\ Spare'[q] = Spare[q]
  BY <1>1 DEF Held, Spare
<1>4. /\ Total(Held) \in Nat /\ Held[r] <= Total(Held)
      /\ Total(Held') = Total(Held) - Held[r] + Held'[r]
  BY <1>2, <1>3, TotalChanges
<1>5. /\ Total(Spare) \in Nat /\ Spare[r] <= Total(Spare)
      /\ Total(Spare') = Total(Spare) - Spare[r] + Spare'[r]
  BY <1>2, <1>3, TotalChanges
<1> QED
  BY <1>1, <1>3, <1>4, <1>5

Consistent(m) == /\ m.pc = "writing" => m.answered
                 /\ m.pc \in {"idle", "asking"} => ~m.answered

(* A step that writes values of their types keeps the types.                    *)
LEMMA TypedKept ==
  ASSUME Typed, NEW r \in AnalysisRuns, NEW m, Moves(r, m), Consistent(m),
         batchSpent' \in Nat, providerBill' \in Nat, owed' \in Int, overlapped' \in BOOLEAN
  PROVE  Typed'
<1>1. /\ request \in [AnalysisRuns -> Requests] /\ request' \in [AnalysisRuns -> Requests]
      /\ request'[r] = m /\ \A q \in AnalysisRuns \ {r} : request'[q] = request[q]
  BY DEF Typed, Moves
<1>2. \A q \in AnalysisRuns : Consistent(request'[q])
  BY <1>1, Zenon DEF Typed, Consistent
<1> QED
  BY <1>1, <1>2, Zenon DEF Typed, Consistent

(* The column moves by d, the bill by b. *)
LEMMA ExactKept ==
  ASSUME Typed, Exact, NEW r \in AnalysisRuns, NEW m, Moves(r, m),
         NEW d \in Int, NEW b \in Int,
         batchSpent' = batchSpent + d, owed' = owed + d, providerBill' = providerBill + b,
         d = 0 \/ \A q \in AnalysisRuns \ {r} : request[q].pc # "writing",
         m.pc = "writing" => m.seen = batchSpent',
         HeldBy(m) - HeldBy(request[r]) <= d,
         Cheap => b + SpareIn(m) - SpareIn(request[r]) <= d
  PROVE  Exact'
<1>1. /\ request'[r] = m /\ \A q \in AnalysisRuns \ {r} : request'[q] = request[q]
      /\ request[r] \in Requests /\ m \in Requests
  BY DEF Typed, Moves
<1>2. \A q \in AnalysisRuns : request'[q].pc = "writing" => request'[q].seen = batchSpent'
  BY <1>1 DEF Typed, Exact
<1>3. /\ HeldBy(request[r]) \in Nat /\ SpareIn(request[r]) \in Nat
      /\ HeldBy(m) \in Nat /\ SpareIn(m) \in Nat
      /\ batchSpent \in Nat /\ providerBill \in Nat
  BY <1>1, WeightsOf, SpendAssumption DEF Typed
<1>4. Total(Held') <= batchSpent'
  BY <1>3, TotalsMove DEF Exact
<1>5. Cheap => providerBill' + Total(Spare') <= batchSpent'
  BY <1>3, TotalsMove DEF Exact
<1>6. batchSpent' = owed'
  BY DEF Exact
<1> QED
  BY <1>2, <1>4, <1>5, <1>6 DEF Exact, Total, Pairs

(* Nothing is in flight in an idle run. *)
LEMMA IdleIsFree ==
  ASSUME NEW a \in Nat
  PROVE  LET m == [AtRest EXCEPT !.at = a]
         IN  /\ m \in Requests /\ m.pc = "idle" /\ Consistent(m)
             /\ HeldBy(m) = 0 /\ SpareIn(m) = 0
  BY DEF AtRest, Requests, Consistent, HeldBy, SpareIn, InFlight

-----------------------------------------------------------------------------
(* A step that leaves the money alone and lets nothing new into flight. *)
LEMMA QuietStep ==
  ASSUME SpendInv, NEW r \in AnalysisRuns, NEW m, Moves(r, m), Consistent(m),
         UNCHANGED <<batchSpent, providerBill, owed, overlapped>>,
         m.pc = "writing" => m.seen = batchSpent,
         HeldBy(m) <= HeldBy(request[r]), SpareIn(m) <= SpareIn(request[r])
  PROVE  SpendInv'
<1>1. /\ batchSpent \in Nat /\ providerBill \in Nat /\ owed \in Int /\ overlapped \in BOOLEAN
      /\ request[r] \in Requests /\ m \in Requests /\ Typed
  BY DEF SpendInv, Typed, Moves
<1>2. Typed'
  BY <1>1, TypedKept
<1>3. /\ HeldBy(request[r]) \in Nat /\ SpareIn(request[r]) \in Nat
      /\ HeldBy(m) \in Nat /\ SpareIn(m) \in Nat
  BY <1>1, WeightsOf, SpendAssumption
<1>4. ASSUME Exact PROVE Exact'
  <2>1. /\ batchSpent' = batchSpent + 0 /\ owed' = owed + 0
        /\ providerBill' = providerBill + 0
    BY <1>1
  <2>2. /\ HeldBy(m) - HeldBy(request[r]) <= 0
        /\ 0 + SpareIn(m) - SpareIn(request[r]) <= 0
    BY <1>3
  <2> QED
    BY <1>1, <1>4, <2>1, <2>2, ExactKept
<1> QED
  BY <1>2, <1>4 DEF SpendInv

(* The request of a run is a request.                                           *)
LEMMA RequestOf ==
  ASSUME SpendInv, NEW r \in AnalysisRuns
  PROVE  /\ request[r] \in Requests /\ Consistent(request[r])
         /\ request \in [AnalysisRuns -> Requests]
         /\ HeldBy(request[r]) \in Nat /\ SpareIn(request[r]) \in Nat
         /\ batchSpent \in Nat /\ providerBill \in Nat /\ owed \in Int
         /\ request[r].at \in Nat /\ Estimate \in Nat
<1>1. request[r] \in Requests /\ request \in [AnalysisRuns -> Requests]
  BY DEF SpendInv, Typed
<1>2. request[r].at \in Nat
  BY <1>1 DEF Requests
<1> QED
  BY <1>1, <1>2, WeightsOf, SpendAssumption DEF SpendInv, Typed, Consistent

(* Whatever a run held, it may go on with its chunk or the next. *)
LEMMA GoesIdle ==
  ASSUME SpendInv, NEW r \in AnalysisRuns, NEW a \in Nat,
         request' = [request EXCEPT ![r] = [AtRest EXCEPT !.at = a]],
         UNCHANGED <<batchSpent, providerBill, owed, overlapped>>
  PROVE  SpendInv'
<1> DEFINE m == [AtRest EXCEPT !.at = a]
<1>1. /\ Moves(r, m) /\ Consistent(m) /\ m.pc # "writing"
      /\ HeldBy(m) = 0 /\ SpareIn(m) = 0
  BY IdleIsFree DEF Moves
<1>2. HeldBy(m) <= HeldBy(request[r]) /\ SpareIn(m) <= SpareIn(request[r])
  <2>1. HeldBy(request[r]) >= 0 /\ SpareIn(request[r]) >= 0
    BY RequestOf
  <2> QED
    BY <1>1, <2>1
<1> HIDE DEF m
<1> QED
  BY <1>1, <1>2, QuietStep

(* Steps after which a run has no request.                                      *)
LEMMA IdleSteps ==
  ASSUME SpendInv, NEW r \in AnalysisRuns,
         SkipComplete(r) \/ KeepReservation(r) \/ WorkerDies(r)
  PROVE  SpendInv'
<1>1. UNCHANGED <<batchSpent, providerBill, owed, overlapped>>
  BY DEF SkipComplete, KeepReservation, WorkerDies
<1>2. request[r].at \in Nat /\ request[r].at + 1 \in Nat /\ 1 \in Nat
  BY RequestOf
<1>3. AtRest = [AtRest EXCEPT !.at = 1]
  BY DEF AtRest
<1>4. CASE WorkerDies(r)
  BY <1>1, <1>2, <1>3, <1>4, GoesIdle DEF WorkerDies
<1>5. CASE SkipComplete(r)
  BY <1>1, <1>2, <1>5, GoesIdle DEF SkipComplete, NextChunk
<1>6. CASE KeepReservation(r)
  <2>1. PICK a \in {request[r].at, request[r].at + 1} :
            request' = [request EXCEPT ![r] = [AtRest EXCEPT !.at = a]]
    BY <1>6 DEF KeepReservation, NextChunk
  <2> QED
    BY <1>1, <1>2, <2>1, GoesIdle
<1> QED
  BY <1>4, <1>5, <1>6

(* Marking a chunk failed moves no money.                                       *)
LEMMA FailedStep ==
  ASSUME SpendInv, NEW r \in AnalysisRuns, MarkFailed(r)
  PROVE  SpendInv'
<1> DEFINE m == [request[r] EXCEPT !.pc = "settling"]
<1>1. UNCHANGED <<batchSpent, providerBill, owed, overlapped>> /\ request[r].pc = "failing"
  BY DEF MarkFailed
<1>2. /\ m \in Requests /\ m.pc = "settling" /\ m.answered = request[r].answered
      /\ m.cost = request[r].cost
  BY RequestOf DEF Requests
<1>3. Moves(r, m)
  BY <1>2, RequestOf DEF MarkFailed, Moves
<1> HIDE DEF m
<1>4. HeldBy(m) = HeldBy(request[r])
  BY <1>1, <1>2 DEF HeldBy, InFlight
<1>5. SpareIn(m) = SpareIn(request[r])
  BY <1>1, <1>2 DEF SpareIn, InFlight
<1>6. Consistent(m)
  BY <1>2 DEF Consistent
<1>7. HeldBy(m) <= HeldBy(request[r]) /\ SpareIn(m) <= SpareIn(request[r])
  BY <1>4, <1>5, RequestOf
<1> QED
  BY <1>1, <1>2, <1>3, <1>6, <1>7, QuietStep

(* A run that reads the column remembers what it read.                          *)
LEMMA ReadStep ==
  ASSUME SpendInv, NEW r \in AnalysisRuns, ReadSpent(r)
  PROVE  SpendInv'
<1> DEFINE m == [request[r] EXCEPT !.pc = "writing", !.seen = batchSpent]
<1>1. /\ UNCHANGED <<batchSpent, providerBill, owed, overlapped>>
      /\ request[r].pc = "settling" /\ request[r].answered
      /\ request' = [request EXCEPT ![r] = m]
  BY DEF ReadSpent
<1>2. /\ m \in Requests /\ m.pc = "writing" /\ m.answered = request[r].answered
      /\ m.cost = request[r].cost /\ m.seen = batchSpent
  BY RequestOf DEF Requests
<1>3. Moves(r, m)
  BY <1>1, <1>2 DEF Moves
<1> HIDE DEF m
<1>4. HeldBy(m) = HeldBy(request[r])
  BY <1>1, <1>2 DEF HeldBy, InFlight
<1>5. SpareIn(m) = SpareIn(request[r])
  BY <1>1, <1>2 DEF SpareIn, InFlight
<1>6. Consistent(m)
  BY <1>1, <1>2 DEF Consistent
<1>7. HeldBy(m) <= HeldBy(request[r]) /\ SpareIn(m) <= SpareIn(request[r])
  BY <1>4, <1>5, RequestOf
<1> QED
  BY <1>1, <1>2, <1>3, <1>6, <1>7, QuietStep

(* The estimate goes into the column as the request goes into flight. *)
LEMMA ReserveStep ==
  ASSUME SpendInv, NEW r \in AnalysisRuns, ReserveChunk(r)
  PROVE  SpendInv'
<1>0. /\ request[r].pc = "idle" /\ ~request[r].answered
      /\ HeldBy(request[r]) = 0 /\ SpareIn(request[r]) = 0
  BY RequestOf DEF ReserveChunk, Consistent, HeldBy, SpareIn, InFlight
<1>1. CASE Reservable
  <2> DEFINE m == [request[r] EXCEPT !.pc = "asking"]
  <2>1. /\ request' = [request EXCEPT ![r] = m]
        /\ batchSpent' = batchSpent + Estimate /\ owed' = owed + Estimate
        /\ overlapped' = Overlap(r) /\ providerBill' = providerBill
    BY <1>1 DEF ReserveChunk
  <2>2. m \in Requests /\ m.pc = "asking" /\ m.answered = request[r].answered
    BY RequestOf DEF Requests
  <2>3. Moves(r, m)
    BY <2>1, <2>2 DEF Moves
  <2> HIDE DEF m
  <2>4. Consistent(m)
    BY <1>0, <2>2 DEF Consistent
  <2>5. HeldBy(m) = Estimate
    BY <2>2 DEF HeldBy, InFlight
  <2>6. SpareIn(m) <= Estimate
    BY <2>2, WeightsOf, SpendAssumption
  <2>7. overlapped' \in BOOLEAN
    BY <2>1, Zenon DEF Overlap, SpendInv, Typed
  <2>8. Typed'
    <3>1. batchSpent' \in Nat /\ providerBill' \in Nat /\ owed' \in Int
      BY <2>1, RequestOf DEF SpendInv, Typed
    <3> QED
      BY <2>3, <2>4, <2>7, <3>1, TypedKept DEF SpendInv
  <2>9. ASSUME ~overlapped' PROVE Exact'
    <3>1. ~overlapped /\ \A q \in AnalysisRuns \ {r} : request[q].pc # "writing"
      BY <2>1, <2>9 DEF Overlap
    <3>2. Typed /\ Exact /\ providerBill \in Int
      BY <3>1 DEF SpendInv, Typed
    <3>3. /\ HeldBy(m) - HeldBy(request[r]) <= Estimate
          /\ 0 + SpareIn(m) - SpareIn(request[r]) <= Estimate
          /\ Estimate \in Int /\ providerBill' = providerBill + 0
      BY <1>0, <2>1, <2>2, <2>5, <2>6, <3>2, WeightsOf, SpendAssumption
    <3> QED
      BY <2>1, <2>2, <2>3, <3>1, <3>2, <3>3, ExactKept
  <2> QED
    BY <2>8, <2>9 DEF SpendInv
<1>2. CASE ~Reservable
  <2> DEFINE m == [request[r] EXCEPT !.pc = "over"]
  <2>1. /\ request' = [request EXCEPT ![r] = m]
        /\ UNCHANGED <<batchSpent, providerBill, owed, overlapped>>
    BY <1>2 DEF ReserveChunk
  <2>2. m \in Requests /\ m.pc = "over"
    BY RequestOf DEF Requests
  <2>3. Moves(r, m)
    BY <2>1, <2>2 DEF Moves
  <2> HIDE DEF m
  <2>4. Consistent(m) /\ HeldBy(m) = 0 /\ SpareIn(m) = 0
    BY <2>2 DEF Consistent, HeldBy, SpareIn, InFlight
  <2>5. HeldBy(m) <= HeldBy(request[r]) /\ SpareIn(m) <= SpareIn(request[r])
    BY <1>0, <2>4
  <2> QED
    BY <2>1, <2>2, <2>3, <2>4, <2>5, QuietStep
<1> QED
  BY <1>1, <1>2

(* The provider charges c, with an answer or without. *)
LEMMA ChargeStep ==
  ASSUME SpendInv, NEW r \in AnalysisRuns, NEW c \in Costs,
         NoAnswer(r, c) \/ \E valid \in BOOLEAN : Answer(r, c, valid)
  PROVE  SpendInv'
<1>1. /\ request[r].pc = "asking" /\ providerBill' = providerBill + c
      /\ UNCHANGED <<batchSpent, owed, overlapped>>
  BY DEF NoAnswer, Answer
<1>2. c \in Nat /\ Estimate \in Nat
  BY SpendAssumption
<1>3. ~request[r].answered /\ HeldBy(request[r]) = Estimate
  BY <1>1, RequestOf DEF Consistent, HeldBy, InFlight
<1>4. Cheap => SpareIn(request[r]) = Estimate
  BY <1>1, <1>3 DEF SpareIn, InFlight
<1>5. ASSUME NEW m, Moves(r, m), m.pc \in {"failing", "settling"},
             m.answered => m.cost = c
      PROVE  SpendInv'
  <2>1. Consistent(m) /\ HeldBy(m) = Estimate
    BY <1>5 DEF Consistent, HeldBy, InFlight
  <2>2. Cheap => SpareIn(m) <= Estimate - c
    <3>1. Cheap => 0 <= Estimate - c /\ c <= Estimate
      BY <1>2 DEF Cheap
    <3> QED
      BY <1>2, <1>5, <3>1 DEF SpareIn, InFlight
  <2>3. Typed'
    <3>1. batchSpent' \in Nat /\ providerBill' \in Nat /\ owed' \in Int /\ overlapped' \in BOOLEAN
      BY <1>1, <1>2 DEF SpendInv, Typed
    <3> QED
      BY <1>5, <2>1, <3>1, TypedKept DEF SpendInv
  <2>4. ASSUME Exact PROVE Exact'
    <3>1. /\ batchSpent' = batchSpent + 0 /\ owed' = owed + 0 /\ Typed
      BY <1>1, RequestOf DEF SpendInv
    <3>2. /\ HeldBy(m) - HeldBy(request[r]) <= 0
          /\ Cheap => c + SpareIn(m) - SpareIn(request[r]) <= 0
      <4>1. SpareIn(m) \in Int
        BY <1>2, <1>5, WeightsOf DEF Moves
      <4> QED
        BY <1>2, <1>3, <1>4, <2>1, <2>2, <4>1
    <3> QED
      BY <1>1, <1>2, <1>5, <2>4, <3>1, <3>2, ExactKept
  <2> QED
    BY <1>1, <2>3, <2>4 DEF SpendInv
<1>6. CASE NoAnswer(r, c)
  <2> DEFINE m == [request[r] EXCEPT !.pc = "failing"]
  <2>1. request' = [request EXCEPT ![r] = m]
    BY <1>6 DEF NoAnswer
  <2>2. m \in Requests /\ m.pc = "failing" /\ m.answered = request[r].answered
    BY RequestOf DEF Requests
  <2> QED
    BY <1>3, <1>5, <2>1, <2>2 DEF Moves
<1>7. ASSUME NEW valid \in BOOLEAN, Answer(r, c, valid) PROVE SpendInv'
  <2> DEFINE m == [request[r] EXCEPT !.cost = c, !.answered = TRUE, !.valid = valid,
                                     !.pc = IF valid THEN "settling" ELSE "failing"]
  <2>1. request' = [request EXCEPT ![r] = m]
    BY <1>7 DEF Answer
  <2>2. m \in Requests /\ m.pc \in {"failing", "settling"} /\ m.cost = c
    BY RequestOf DEF Requests
  <2> HIDE DEF m
  <2> QED
    BY <1>5, <2>1, <2>2 DEF Moves
<1> QED
  BY <1>6, <1>7

(* What the answer cost replaces the estimate in the column. *)
LEMMA WriteStep ==
  ASSUME SpendInv, NEW r \in AnalysisRuns, WriteSpent(r)
  PROVE  SpendInv'
<1> DEFINE c == request[r].cost
<1>1. /\ request[r].pc = "writing"
      /\ batchSpent' = Settled(request[r].seen, c)
      /\ owed' = owed + c - Estimate
      /\ overlapped' = Overlap(r) /\ providerBill' = providerBill
  BY DEF WriteSpent
<1>2. PICK m : m \in {[AtRest EXCEPT !.at = request[r].at], NextChunk(r)}
               /\ request' = [request EXCEPT ![r] = m]
  BY DEF WriteSpent
<1>3. /\ Moves(r, m) /\ Consistent(m) /\ m.pc # "writing"
      /\ HeldBy(m) = 0 /\ SpareIn(m) = 0
  <2>1. request[r].at \in Nat /\ request[r].at + 1 \in Nat
    BY RequestOf
  <2>2. PICK a \in Nat : m = [AtRest EXCEPT !.at = a]
    BY <1>2, <2>1 DEF NextChunk
  <2> QED
    BY <1>2, <2>2, IdleIsFree DEF Moves
<1>4. /\ c \in Nat /\ request[r].seen \in Nat /\ Estimate \in Nat
      /\ HeldBy(request[r]) = Estimate /\ (Cheap => SpareIn(request[r]) = Estimate - c)
  <2>1. c \in Nat
    <3>1. c \in Costs \cup {0}
      BY RequestOf DEF Requests
    <3>2. Costs \cup {0} \subseteq Nat
      BY SpendAssumption
    <3> QED
      BY <3>1, <3>2
  <2>2. request[r].seen \in Nat /\ request[r].answered
    BY <1>1, RequestOf DEF Requests, Consistent
  <2> QED
    BY <1>1, <2>1, <2>2, SpendAssumption DEF HeldBy, SpareIn, InFlight
<1> HIDE DEF c
<1>5. Typed'
  <2>1. batchSpent' \in Nat /\ providerBill' \in Nat /\ owed' \in Int
    BY <1>1, <1>4 DEF Settled, SpendInv, Typed
  <2>2. overlapped' \in BOOLEAN
    BY <1>1, Zenon DEF Overlap, SpendInv, Typed
  <2> QED
    BY <1>3, <2>1, <2>2, TypedKept DEF SpendInv
<1>6. ASSUME ~overlapped' PROVE Exact'
  <2>1. ~overlapped /\ \A q \in AnalysisRuns \ {r} : request[q].pc # "writing"
    BY <1>1, <1>6 DEF Overlap
  <2>2. Typed /\ Exact
    BY <2>1 DEF SpendInv
  <2>3. request[r].seen = batchSpent /\ Estimate <= batchSpent
    <3>1. HeldBy(request[r]) <= Total(Held) /\ Total(Held) \in Nat
      BY <1>3, <2>2, TotalsMove
    <3> QED
      BY <1>1, <1>4, <2>2, <3>1, RequestOf DEF Exact
  <2>4. /\ batchSpent' = batchSpent + (c - Estimate) /\ owed' = owed + (c - Estimate)
        /\ providerBill' = providerBill + 0
    BY <1>1, <1>4, <2>2, <2>3, RequestOf DEF Settled, Typed
  <2>5. /\ HeldBy(m) - HeldBy(request[r]) <= c - Estimate
        /\ Cheap => 0 + SpareIn(m) - SpareIn(request[r]) <= c - Estimate
        /\ c - Estimate \in Int
    BY <1>3, <1>4
  <2> QED
    BY <1>3, <2>1, <2>2, <2>4, <2>5, ExactKept
<1> QED
  BY <1>5, <1>6 DEF SpendInv

(* The invariant holds throughout.                                              *)
LEMMA SpendInvariant == SpendSpec => []SpendInv
<1>1. SpendInv /\ UNCHANGED spendVars => SpendInv'
  BY DEF spendVars, SpendInv, Typed, Exact, Total, Pairs, Held, Spare
<1>2. SpendInv /\ [SpendNext]_spendVars => SpendInv'
  BY <1>1, IdleSteps, FailedStep, ReadStep, ReserveStep, ChargeStep, WriteStep DEF SpendNext
<1> QED
  BY <1>2, SpendInitial, PTL DEF SpendSpec

(* Unless two transactions overlapped on batches.spent_usd, it is what was      *)
(* charged plus the estimates nobody settled, and covers what the provider      *)
(* charged as long as no answer costs more than its estimate: however runs      *)
(* crash, retry and get invalid answers (documents._request, reserve_budget).   *)
THEOREM SpendIsAccountedFor == SpendSpec => []SpendAccounted
<1>1. SpendInv => SpendAccounted
  <2> SUFFICES ASSUME SpendInv, ~overlapped
               PROVE  batchSpent = owed /\ (Cheap => providerBill <= batchSpent)
    BY DEF SpendAccounted, DriftOnlyIfOverlapped, Cheap
  <2>1. Exact /\ Typed
    BY DEF SpendInv
  <2>2. Total(Spare) \in Nat
    <3>1. Spare \in RunWeights
      BY <2>1, WeightsOf DEF Spare, RunWeights, Typed
    <3> QED
      BY <3>1, PairsFinite
  <2> QED
    BY <2>1, <2>2 DEF Exact, Typed
<1> QED
  BY <1>1, SpendInvariant, PTL

------------------------------------------------------------------------------
(* The chunk a request is about, and what is kept of every chunk. *)
ChunkRecords == [status : {"none", "running", "failed", "complete"},
                 attempts : 0..MaxTries, cost : Nat]
ChunksKept ==
    /\ chunk \in [ChunkKeys -> ChunkRecords]
    /\ \A r \in AnalysisRuns : /\ request[r].at \in 1..(Chunks + 1)
                               /\ request[r].pc \in InFlight => request[r].at <= Chunks

(* A step that gives run r a request for one of its chunks and writes at most   *)
(* the row of the chunk it was at.                                              *)
LEMMA ChunkRowKept ==
  ASSUME SpendInv, ChunksKept, NEW r \in AnalysisRuns, NEW m,
         request' = [request EXCEPT ![r] = m],
         m.at \in 1..(Chunks + 1), m.pc \in InFlight => m.at <= Chunks,
         \/ chunk' = chunk
         \/ \E k \in ChunkRecords : chunk' = [chunk EXCEPT ![Key(r)] = k]
  PROVE  ChunksKept'
<1>1. request \in [AnalysisRuns -> Requests]
  BY DEF SpendInv, Typed
<1>2. \A q \in AnalysisRuns : request'[q] = IF q = r THEN m ELSE request[q]
  BY <1>1
<1>3. \A q \in AnalysisRuns : /\ request'[q].at \in 1..(Chunks + 1)
                              /\ request'[q].pc \in InFlight => request'[q].at <= Chunks
  BY <1>2 DEF ChunksKept
<1>4. chunk' \in [ChunkKeys -> ChunkRecords]
  BY DEF ChunksKept
<1> QED
  BY <1>3, <1>4 DEF ChunksKept

(* Every step is such a step.                                                  *)
LEMMA ChunksStayKept == SpendInv /\ ChunksKept /\ [SpendNext]_spendVars => ChunksKept'
<1> SUFFICES ASSUME SpendInv, ChunksKept, [SpendNext]_spendVars PROVE ChunksKept'
  OBVIOUS
<1>1. ASSUME NEW r \in AnalysisRuns,
             \/ SkipComplete(r) \/ ReserveChunk(r) \/ MarkFailed(r)
             \/ \E c \in Costs : \/ \E valid \in BOOLEAN : Answer(r, c, valid)
                                 \/ NoAnswer(r, c)
             \/ KeepReservation(r) \/ ReadSpent(r) \/ WriteSpent(r) \/ WorkerDies(r)
      PROVE  ChunksKept'
  <2>1. /\ request[r] \in Requests /\ request \in [AnalysisRuns -> Requests]
        /\ request[r].at \in 1..(Chunks + 1) /\ Chunks \in Nat /\ request[r].at \in Nat
        /\ request[r].pc \in InFlight => request[r].at <= Chunks
    BY <1>1, SpendAssumption, RequestOf DEF ChunksKept
  <2>2. request[r].at <= Chunks => Key(r) \in ChunkKeys
    BY <2>1 DEF Key, ChunkKeys
  <2>3. ASSUME Key(r) \in ChunkKeys
        PROVE  /\ chunk[Key(r)] \in ChunkRecords /\ chunk[Key(r)].attempts \in 0..MaxTries
               /\ chunk[Key(r)].cost \in Nat
    BY <2>3 DEF ChunksKept, ChunkRecords
  <2>4. /\ 1 \in 1..(Chunks + 1)
        /\ request[r].at <= Chunks => request[r].at + 1 \in 1..(Chunks + 1)
    BY <2>1
  <2>5. ASSUME NEW p \in {"asking", "failing", "settling", "writing", "over"},
               request' = [request EXCEPT ![r].pc = p], request[r].at <= Chunks,
               \/ chunk' = chunk
               \/ \E k \in ChunkRecords : chunk' = [chunk EXCEPT ![Key(r)] = k]
        PROVE  ChunksKept'
    <3> DEFINE m == [request[r] EXCEPT !.pc = p]
    <3>1. m.at = request[r].at /\ request' = [request EXCEPT ![r] = m]
      BY <2>1, <2>5 DEF Requests
    <3> HIDE DEF m
    <3> QED
      BY <1>1, <2>1, <2>5, <3>1, ChunkRowKept
  <2>6. ASSUME NEW a \in 1..(Chunks + 1),
               request' = [request EXCEPT ![r] = [AtRest EXCEPT !.at = a]],
               \/ chunk' = chunk
               \/ \E k \in ChunkRecords : chunk' = [chunk EXCEPT ![Key(r)] = k]
        PROVE  ChunksKept'
    <3> DEFINE m == [AtRest EXCEPT !.at = a]
    <3>1. m.at = a /\ m.pc = "idle"
      BY DEF AtRest
    <3> HIDE DEF m
    <3> QED
      BY <1>1, <2>6, <3>1, ChunkRowKept DEF m, InFlight
  <2>7. CASE SkipComplete(r)
    BY <2>4, <2>6, <2>7 DEF SkipComplete, NextChunk
  <2>8. CASE ReserveChunk(r)
    <3>1. request[r].at <= Chunks /\ chunk[Key(r)].attempts < MaxTries
      BY <2>8 DEF ReserveChunk
    <3>2. PICK k : k = [chunk[Key(r)] EXCEPT !.status = "running", !.attempts = @ + 1]
      OBVIOUS
    <3>3. k \in ChunkRecords
      <4>1. chunk[Key(r)].attempts + 1 \in 0..MaxTries
        BY <2>2, <2>3, <3>1, SpendAssumption
      <4> QED
        BY <2>2, <2>3, <3>1, <3>2, <4>1 DEF ChunkRecords
    <3>4. CASE Reservable
      <4>1. chunk' = [chunk EXCEPT ![Key(r)] = k] /\ request' = [request EXCEPT ![r].pc = "asking"]
        BY <2>8, <3>2, <3>4 DEF ReserveChunk
      <4> QED
        BY <2>5, <3>1, <3>3, <4>1
    <3>5. CASE ~Reservable
      BY <2>5, <2>8, <3>1, <3>5 DEF ReserveChunk
    <3> QED
      BY <3>4, <3>5
  <2>9. CASE MarkFailed(r)
    <3>1. request[r].at <= Chunks
      BY <2>1, <2>9 DEF MarkFailed, InFlight
    <3>2. PICK k : k = [chunk[Key(r)] EXCEPT !.status = "failed"]
      OBVIOUS
    <3>3. k \in ChunkRecords
      BY <2>2, <2>3, <3>1, <3>2 DEF ChunkRecords
    <3> QED
      BY <2>5, <2>9, <3>1, <3>2, <3>3 DEF MarkFailed
  <2>10. ASSUME NEW c \in Costs, NoAnswer(r, c) PROVE ChunksKept'
    <3>1. request[r].at <= Chunks
      BY <2>1, <2>10 DEF NoAnswer, InFlight
    <3> QED
      BY <2>5, <2>10, <3>1 DEF NoAnswer
  <2>11. ASSUME NEW c \in Costs, NEW valid \in BOOLEAN, Answer(r, c, valid) PROVE ChunksKept'
    <3>1. request[r].at <= Chunks /\ chunk' = chunk
      BY <2>1, <2>11 DEF Answer, InFlight
    <3> DEFINE m == [request[r] EXCEPT !.cost = c, !.answered = TRUE, !.valid = valid,
                                       !.pc = IF valid THEN "settling" ELSE "failing"]
    <3>2. m.at = request[r].at /\ request' = [request EXCEPT ![r] = m]
      BY <2>1, <2>11 DEF Requests, Answer
    <3> HIDE DEF m
    <3> QED
      BY <1>1, <2>1, <3>1, <3>2, ChunkRowKept
  <2>12. CASE KeepReservation(r)
    <3>1. request[r].at <= Chunks /\ chunk' = chunk
      BY <2>1, <2>12 DEF KeepReservation, InFlight
    <3>2. PICK a \in {request[r].at, request[r].at + 1} :
              request' = [request EXCEPT ![r] = [AtRest EXCEPT !.at = a]]
      BY <2>12 DEF KeepReservation, NextChunk
    <3> QED
      BY <2>1, <2>4, <2>6, <3>1, <3>2
  <2>13. CASE ReadSpent(r)
    <3>1. request[r].at <= Chunks /\ chunk' = chunk
      BY <2>1, <2>13 DEF ReadSpent, InFlight
    <3> DEFINE m == [request[r] EXCEPT !.pc = "writing", !.seen = batchSpent]
    <3>2. m.at = request[r].at /\ request' = [request EXCEPT ![r] = m]
      BY <2>1, <2>13 DEF Requests, ReadSpent
    <3> HIDE DEF m
    <3> QED
      BY <1>1, <2>1, <3>1, <3>2, ChunkRowKept
  <2>14. CASE WriteSpent(r)
    <3>1. request[r].at <= Chunks /\ request[r].cost \in Nat
      <4>1. request[r].cost \in Costs \cup {0}
        BY <2>1 DEF Requests
      <4> QED
        BY <2>1, <2>14, <4>1, SpendAssumption DEF WriteSpent, InFlight
    <3>2. PICK k : k = [chunk[Key(r)] EXCEPT !.cost = @ + request[r].cost,
                            !.status = IF request[r].valid THEN "complete" ELSE @]
      OBVIOUS
    <3>3. k \in ChunkRecords
      <4>1. chunk[Key(r)].cost + request[r].cost \in Nat
        BY <2>2, <2>3, <3>1
      <4> QED
        BY <2>2, <2>3, <3>1, <3>2, <4>1 DEF ChunkRecords
    <3>4. chunk' = [chunk EXCEPT ![Key(r)] = k]
      BY <2>14, <3>2 DEF WriteSpent
    <3>5. PICK a \in {request[r].at, request[r].at + 1} :
              request' = [request EXCEPT ![r] = [AtRest EXCEPT !.at = a]]
      BY <2>14 DEF WriteSpent, NextChunk
    <3> QED
      BY <2>1, <2>4, <2>6, <3>1, <3>3, <3>4, <3>5
  <2>15. CASE WorkerDies(r)
    <3>1. AtRest = [AtRest EXCEPT !.at = 1]
      BY DEF AtRest
    <3> QED
      BY <2>4, <2>6, <2>15, <3>1 DEF WorkerDies
  <2> QED
    BY <1>1, <2>7, <2>8, <2>9, <2>10, <2>11, <2>12, <2>13, <2>14, <2>15
<1>2. CASE UNCHANGED spendVars
  BY <1>2 DEF spendVars, ChunksKept, ChunkKeys
<1> QED
  BY <1>1, <1>2 DEF SpendNext

(* Every column of document analysis has its type.                             *)
LEMMA SpendTyped == SpendSpec => []SpendTypeOK
<1>1. SpendInit => ChunksKept
  BY SpendAssumption DEF SpendInit, ChunksKept, ChunkRecords, AtRest, InFlight
<1>2. SpendInv /\ ChunksKept => SpendTypeOK
  <2> SUFFICES ASSUME SpendInv, ChunksKept PROVE SpendTypeOK
    OBVIOUS
  <2>1. ASSUME NEW r \in AnalysisRuns
        PROVE  request[r] \in [pc : {"idle", "asking", "failing", "settling", "writing", "over"},
                               at : 1..(Chunks + 1), cost : Nat, answered : BOOLEAN,
                               valid : BOOLEAN, seen : Nat]
    <3>1. request[r] \in Requests /\ request[r].at \in 1..(Chunks + 1)
      BY DEF SpendInv, Typed, ChunksKept
    <3>2. Costs \cup {0} \subseteq Nat
      BY SpendAssumption
    <3> QED
      BY <3>1, <3>2 DEF Requests
  <2>2. request = [r \in AnalysisRuns |-> request[r]]
    BY DEF SpendInv, Typed
  <2> QED
    BY <2>1, <2>2 DEF SpendTypeOK, SpendInv, Typed, ChunksKept, ChunkRecords
<1> QED
  BY <1>1, <1>2, ChunksStayKept, SpendInvariant, PTL DEF SpendSpec

(* A call has its type.                                                        *)
LEMMA CallTyped == CallSpec => []CallTypeOK
BY CallInitial, CallStep, PTL DEF CallSpec

(* So have the rows and turns of chat.                                         *)
LEMMA ChatTyped == ChatSpec => []ChatTypeOK
<1>1. ChatInv => ChatTypeOK
  BY DEF ChatInv
<1> QED
  BY <1>1, ChatInvariant, PTL
================================================================================
