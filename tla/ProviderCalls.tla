---------------------------- MODULE ProviderCalls ----------------------------
(***************************************************************************)
(* One call of a model client and the HTTP requests behind it              *)
(* (extraction/client.py ProviderClient.complete and _call_with_retries,   *)
(* report_analysis/provider.py analyze_pdf, chat/service.py _request and   *)
(* complete).  Three clients retry what the provider refuses for the       *)
(* moment, each by its own loop: the extraction client also asks again     *)
(* without a temperature the model does not take, and once more when the   *)
(* answer has the wrong shape; the chat client asks again with the results *)
(* of the tools the model called.                                          *)
(*                                                                         *)
(* A request whose answer is read is paid for.  Who calls a client, and what   *)
(* is done about a call that fails, is in ExtractionFanIn, DocumentSpend   *)
(* and ChatSpend.                                                          *)
(***************************************************************************)
EXTENDS Integers

CONSTANTS MaxRetries,   \* max_retries of the client
          ToolRounds,   \* 5 in ChatProviderClient.complete
          AnswerCosts   \* what one answered request may cost

ASSUME CallAssumption ==
    /\ MaxRetries \in Nat \ {0} /\ ToolRounds \in Nat \ {0}
    /\ AnswerCosts \subseteq Nat

VARIABLES
    call,      \* the call of a client
    requests,  \* history: requests it has sent
    charged    \* history: what the answered ones cost

callVars == <<call, requests, charged>>

Clients == {"extraction", "document", "chat"}

(* attempts: of the loop that runs now; temperature: it is in the payload;
   adapted: it was taken out; repairing: the answer had the wrong shape;
   round: of tool calls; usage: the cost the client would report. *)
NewCall(client, temperature) ==
    [client |-> client, pc |-> "asking", attempts |-> 0, deterministic |-> temperature,
     temperature |-> temperature, repairing |-> FALSE, round |-> 1, usage |-> 0]

CallTypeOK ==
    /\ call \in [client : Clients, pc : {"asking", "returned", "raised"},
                 attempts : 0..(MaxRetries + 1), deterministic : BOOLEAN,
                 temperature : BOOLEAN, repairing : BOOLEAN, round : 1..ToolRounds,
                 usage : Nat]
    /\ requests \in Nat /\ charged \in Nat

(* _supports_temperature_zero: only the extraction client sends one, to the
   models that take it by their name. *)
CallInit ==
    /\ \E client \in Clients, temperature \in BOOLEAN :
          /\ temperature => client = "extraction"
          /\ call = NewCall(client, temperature)
    /\ requests = 0 /\ charged = 0

Asking(clients) == call.pc = "asking" /\ call.client \in clients
Sent == requests' = requests + 1
Raise == call' = [call EXCEPT !.pc = "raised", !.usage = 0]
Unanswered == Sent /\ UNCHANGED charged

(* The loop gives up: `attempts > max_retries` of the extraction client after
   it counts the request, `attempt < max_retries` of the other two. *)
GivesUp == IF call.client = "extraction" THEN call.attempts + 1 > MaxRetries
                                         ELSE call.attempts + 1 >= MaxRetries

(* 429, 5xx, a timeout or a broken connection: again after a pause, or
   RETRY_EXHAUSTED / ProviderError / ProviderTimeout. *)
Overloaded ==
    /\ Asking(Clients) /\ Unanswered
    /\ IF GivesUp THEN Raise ELSE call' = [call EXCEPT !.attempts = @ + 1]

(* 400 for the temperature: again at once without it, whatever the number of
   attempts.  The payload has none afterwards, so this happens once. *)
TemperatureRefused ==
    /\ Asking({"extraction"}) /\ call.temperature /\ Unanswered
    /\ call' = [call EXCEPT !.attempts = @ + 1, !.temperature = FALSE]

(* Any other 4xx. *)
Rejected == Asking(Clients) /\ Unanswered /\ Raise

(* Mistake: the cost of the repair stands for the cost of both. *)
LastOnly(usage, c) == c

SumOf(usage, c) == usage + c

Answered(c) == Sent /\ charged' = charged + c

(* A 200 whose content serves: an object with the expected array, JSON that
   parses, a reply without tool calls. *)
GoodAnswer(c) ==
    /\ Asking(Clients) /\ Answered(c)
    /\ call' = [call EXCEPT !.pc = "returned", !.usage = SumOf(@, c)]

(* complete: an answer without the expected array is sent back with one
   request to repair it, through the same loop with a new payload; the second
   such answer raises INVALID_INPUT. *)
WrongShape(c) ==
    /\ Asking({"extraction"}) /\ Answered(c)
    /\ IF call.repairing THEN Raise
       ELSE call' = [NewCall("extraction", call.deterministic) EXCEPT
                        !.repairing = TRUE, !.usage = SumOf(call.usage, c)]

(* analyze_pdf: an incomplete output or invalid JSON; it and the chat client:
   no output text. *)
Unusable(c) == Asking({"document", "chat"}) /\ Answered(c) /\ Raise

(* ChatProviderClient.complete: the model calls tools; their results go into
   the next request, five rounds at most.  Arguments that are no object and a
   response without an id raise. *)
ToolCalls(c) ==
    /\ Asking({"chat"}) /\ Answered(c)
    /\ \/ Raise
       \/ /\ call.round < ToolRounds
          /\ call' = [call EXCEPT !.attempts = 0, !.round = @ + 1, !.usage = SumOf(@, c)]

CallNext ==
    \/ Overloaded \/ TemperatureRefused \/ Rejected
    \/ \E c \in AnswerCosts :
          GoodAnswer(c) \/ WrongShape(c) \/ Unusable(c) \/ ToolCalls(c)

CallSpec == CallInit /\ [][CallNext]_callVars

-----------------------------------------------------------------------------
(* How many requests a call may send at most. *)
RequestLimit ==
    CASE call.client = "extraction" ->
            (IF call.deterministic THEN 2 ELSE 0) + 2 * (MaxRetries + 1)
      [] call.client = "document" -> MaxRetries
      [] call.client = "chat" -> ToolRounds * MaxRetries

(* However temperature refusals, repairs, tool rounds and pauses fall          *)
(* together, the three loops of the clients send a bounded number of requests, *)
(* and a call that returns reports the cost of every request that was answered *)
(* on the way, not only of the last one (the sum of the two usages in          *)
(* complete, total_cost in ChatProviderClient.complete).                       *)
CallsBoundedAndPaid ==
    /\ requests <= RequestLimit
    /\ call.pc # "raised" => call.usage = charged
==============================================================================
