------------------------------ MODULE ChatSpend ------------------------------
(***************************************************************************)
(* What a chat turn may spend (api/routes_chat.py chat, ops/chat_budget.py,*)
(* ops/budget.py, chat/service.py answer_chat).  The whole turn, provider  *)
(* calls included, is ONE database transaction: the tokens of the chat     *)
(* session and the dollars of the day are reserved in two rows of          *)
(* `settings` that stay locked (FOR UPDATE) until the turn commits or      *)
(* rolls back, and both are corrected to what the provider really charged. *)
(*                                                                         *)
(* The row of the day is named by the date at the moment of EACH call, and *)
(* before the call waits for the lock of that row: a turn that is open at  *)
(* midnight reserves in one row and is corrected in another, and one that  *)
(* waits over midnight still gets the row of the day it asked for.  Each   *)
(* call is two steps, `NameDay` and what happens with the lock.  One unit  *)
(* stands for the same amount in tokens and in dollars (`chat` estimates   *)
(* the second from the first).  The document-text cache that shares the    *)
(* row of the session is left out.                                         *)
(***************************************************************************)
EXTENDS Integers, FiniteSets, FiniteSetsExt

CONSTANTS Turns,        \* POST /chat requests
          Sessions,     \* chat_session keys
          TokenCap,     \* settings.chat_session_token_cap
          DailyCap,     \* settings.chat_daily_spend_cap_usd
          Estimates,    \* what a request may be estimated at
          MaxCall,      \* the most one provider completion may cost
          LastDay       \* bound on midnights

ASSUME ChatAssumption ==
    /\ IsFiniteSet(Turns)
    /\ TokenCap \in Nat /\ DailyCap \in Nat /\ MaxCall \in Nat /\ LastDay \in Nat
    /\ Estimates \subseteq Nat \ {0}

VARIABLES
    today,          \* the UTC date
    daySpend,       \* committed `reserved` of chat_spend:{date}
    sessionTokens,  \* committed `tokens` of chat_session:{user}:{session}
    turn            \* the open transactions

chatVars == <<today, daySpend, sessionTokens, turn>>

Days == 0..LastDay
NoSession == "no_session"
NoDay == -1
Running == {"reserving", "asking", "retrying", "settling", "failing"}
NeedsDay == {"reserving", "settling", "failing"}
Ended == {"done", "refused", "failed"}

(* A turn: its place in the handler, the rows it reserved in, the row of a day
   it has asked for, its estimate, what it has cost so far, and what it read in
   each row it locked. *)
IdleTurn == [pc |-> "idle", session |-> NoSession, day |-> NoDay, asks |-> NoDay,
             estimate |-> 0, cost |-> 0, tokensRead |-> 0, spendRead |-> 0]

ChatTypeOK ==
    /\ today \in Days
    /\ daySpend \in [Days -> Nat]
    /\ sessionTokens \in [Sessions -> Nat]
    /\ turn \in [Turns -> [pc : {"idle"} \cup Running \cup Ended,
                           session : Sessions \cup {NoSession},
                           day : Days \cup {NoDay}, asks : Days \cup {NoDay},
                           estimate : Estimates \cup {0},
                           cost : Nat, tokensRead : Nat, spendRead : Nat]]

ChatInit ==
    /\ today = 0
    /\ daySpend = [d \in Days |-> 0]
    /\ sessionTokens = [s \in Sessions |-> 0]
    /\ turn = [t \in Turns |-> IdleTurn]

Open == {t \in Turns : turn[t].pc \in Running}

(* Mistakes: the row is not locked; or it is locked against its own turn. *)
DayShared(d, t) == TRUE
DayFreeOfAll(d, t) == \A u \in Open : turn[u].day # d

(* FOR UPDATE of _ensure_and_lock: nobody else holds the row. *)
SessionFree(s, t) == \A u \in Open \ {t} : turn[u].session # s
DayFree(d, t) == \A u \in Open \ {t} : turn[u].day # d

(* Mistake: no max(0, ...). *)
Unclamped(n) == n

AtLeastZero(n) == IF n < 0 THEN 0 ELSE n

(* A transaction that rolls back leaves nothing and frees both rows; no row
   holds what the provider charged for it. *)
EndTurn(t, pc) == turn' = [turn EXCEPT ![t] = [IdleTurn EXCEPT !.pc = pc]]

(* reserve_chat_session_tokens: the first row the turn locks.  A refusal
   raises BUDGET_PAUSED. *)
ReserveTokens(t, s, n) ==
    /\ turn[t].pc = "idle"
    /\ SessionFree(s, t)
    /\ IF sessionTokens[s] + n > TokenCap
       THEN EndTurn(t, "refused")
       ELSE turn' = [turn EXCEPT ![t] =
                [@ EXCEPT !.pc = "reserving", !.session = s, !.estimate = n,
                          !.tokensRead = sessionTokens[s]]]
    /\ UNCHANGED <<today, daySpend, sessionTokens>>

(* Budget.check_and_reserve on the amount of the day. *)
Affordable(spent, n) == n <= DailyCap - spent

(* The first line of reserve_daily_chat_budget and of
   reconcile_daily_chat_budget: the key is made from the date, then
   _ensure_and_lock waits for that row. *)
NameDay(t) ==
    /\ turn[t].pc \in NeedsDay /\ turn[t].asks = NoDay
    /\ turn' = [turn EXCEPT ![t].asks = today]
    /\ UNCHANGED <<today, daySpend, sessionTokens>>

GetsDay(t) == turn[t].asks # NoDay /\ DayFree(turn[t].asks, t)

(* reserve_daily_chat_budget, with the lock; a refusal gives the tokens back
   and raises BUDGET_PAUSED. *)
ReserveDay(t) ==
    /\ turn[t].pc = "reserving"
    /\ GetsDay(t)
    /\ IF Affordable(daySpend[turn[t].asks], turn[t].estimate)
       THEN turn' = [turn EXCEPT ![t] =
                [@ EXCEPT !.pc = "asking", !.day = turn[t].asks, !.asks = NoDay,
                          !.spendRead = daySpend[turn[t].asks]]]
       ELSE EndTurn(t, "refused")
    /\ UNCHANGED <<today, daySpend, sessionTokens>>

(* answer_chat: the first complete answer.  Grounded, it is the reply; when a
   number in it has no source, the whole answer is asked for once more. *)
FirstAnswer(t, c) ==
    /\ turn[t].pc = "asking"
    /\ \E next \in {"settling", "retrying"} :
          turn' = [turn EXCEPT ![t].pc = next, ![t].cost = @ + c]
    /\ UNCHANGED <<today, daySpend, sessionTokens>>

(* answer_chat: the corrected answer, the grounded sentences of either answer
   or the fixed fallback is shown; the turn succeeds with the cost of both. *)
SecondAnswer(t, c) ==
    /\ turn[t].pc = "retrying"
    /\ turn' = [turn EXCEPT ![t].pc = "settling", ![t].cost = @ + c]
    /\ UNCHANGED <<today, daySpend, sessionTokens>>

(* complete raises ProviderError or ValueError (a rejected request, too many
   tool rounds, arguments that are not JSON), whatever its rounds have cost. *)
ProviderFails(t) ==
    /\ turn[t].pc \in {"asking", "retrying"}
    /\ turn' = [turn EXCEPT ![t].pc = "failing"]
    /\ UNCHANGED <<today, daySpend, sessionTokens>>

(* A tool raises AcqError (page of an owner, unknown document): no handler
   catches it in `chat`, the request ends at once. *)
ToolFails(t) ==
    /\ turn[t].pc \in {"asking", "retrying"}
    /\ EndTurn(t, "failed")
    /\ UNCHANGED <<today, daySpend, sessionTokens>>

(* The except branches of `chat` reconcile both rows to zero, which needs the
   row of the day they name, and raise: get_session rolls everything back. *)
GiveUp(t) ==
    /\ turn[t].pc = "failing"
    /\ GetsDay(t)
    /\ EndTurn(t, "failed")
    /\ UNCHANGED <<today, daySpend, sessionTokens>>

(* reconcile_daily_chat_budget and reconcile_chat_session_tokens, then the
   commit.  Past midnight the reservation stays in the row of yesterday and
   the correction is applied to the row the call has named. *)
ReconciledDays(t) ==
    LET me == turn[t]
        reservedIn == [daySpend EXCEPT ![me.day] = me.spendRead + me.estimate]
    IN  [reservedIn EXCEPT ![me.asks] = AtLeastZero(@ - me.estimate + me.cost)]

Settle(t) ==
    /\ turn[t].pc = "settling"
    /\ GetsDay(t)
    /\ daySpend' = ReconciledDays(t)
    /\ sessionTokens' = [sessionTokens EXCEPT ![turn[t].session] =
            AtLeastZero(turn[t].tokensRead + turn[t].estimate
                            - turn[t].estimate + turn[t].cost)]
    /\ turn' = [turn EXCEPT ![t].pc = "done"]
    /\ UNCHANGED today

Midnight ==
    /\ today < LastDay
    /\ today' = today + 1
    /\ UNCHANGED <<daySpend, sessionTokens, turn>>

TurnStep(t) ==
    \/ NameDay(t)
    \/ ReserveDay(t)
    \/ \E c \in 0..MaxCall : FirstAnswer(t, c) \/ SecondAnswer(t, c)
    \/ ProviderFails(t)
    \/ ToolFails(t)
    \/ GiveUp(t)
    \/ Settle(t)

ChatNext ==
    \/ \E t \in Turns : \/ \E s \in Sessions, n \in Estimates : ReserveTokens(t, s, n)
                        \/ TurnStep(t)
    \/ Midnight

(* A turn that is open keeps going: every provider call has a timeout and a
   bounded number of attempts and rounds (ChatProviderClient._request,
   complete). *)
ChatFairness == \A t \in Turns : WF_chatVars(TurnStep(t))

ChatSpec == ChatInit /\ [][ChatNext]_chatVars /\ ChatFairness

-----------------------------------------------------------------------------
(* Properties *)

Done == {t \in Turns : turn[t].pc = "done"}
CostOf(S) == SumFunctionOnSet([t \in Turns |-> turn[t].cost], S)

(* The rows of the days hold at least what the finished turns cost, whatever
   turns were open at midnight and however the corrections were truncated at
   zero: no finished turn is paid for by nobody.  The tokens of a session are
   exactly those of its finished turns: two requests on one session never
   overwrite each other's count. *)
SpendNeverUndercounted ==
    /\ CostOf(Done) <= SumFunctionOnSet(daySpend, Days)
    /\ \A s \in Sessions :
          sessionTokens[s] = CostOf({t \in Done : turn[t].session = s})

(* A day is charged past the cap only by what answers corrected on it cost
   beyond their estimates, and of those at most one was reserved on that day.
   The others were reserved on an earlier one and crossed midnight; they may be
   many, for a turn that named yesterday's row before midnight still gets it
   after the one it waited for is gone. *)
Excess(S) == SumFunctionOnSet(
                [t \in Turns |-> AtLeastZero(turn[t].cost - turn[t].estimate)], S)

Corrected(d) == {t \in Done : turn[t].asks = d}

OneReservedOn(d, S) == \A t, u \in S : turn[t].day = d /\ turn[u].day = d => t = u

OvershootIsLateAnswers ==
    \A d \in Days : \E S \in SUBSET Corrected(d) :
        OneReservedOn(d, S) /\ daySpend[d] <= DailyCap + Excess(S)

(* What the rows say was spent is bounded from both sides. *)
DaySpendBounded == SpendNeverUndercounted /\ OvershootIsLateAnswers

(* Every turn that began ends: turns wait for each other's rows, one that
   already holds a day's waits for a later day's, and new turns still queue for
   the row it holds, yet no circle of them ever closes. *)
TurnsEnd == \A t \in Turns : turn[t].pc \in Running ~> turn[t].pc \in Ended
==============================================================================
