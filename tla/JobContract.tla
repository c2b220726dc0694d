------------------------------ MODULE JobContract ------------------------------
(***************************************************************************)
(* What the jobs table promises to the code that enqueues work: a job is   *)
(* run by at most one worker at a time, only the worker that runs it       *)
(* settles it, and a run that is lost with its worker is the only other    *)
(* way back to the queue.  JobQueue is shown to implement this module when *)
(* no handler outlives its lease.                                          *)
(***************************************************************************)
CONSTANTS Keys, Workers, NoWorker

VARIABLES phase, owner
vars == <<phase, owner>>

Phases == {"idle", "pending", "working", "done", "dead"}

TypeOK == /\ phase \in [Keys -> Phases]
          /\ owner \in [Keys -> Workers \cup {NoWorker}]

Init == /\ phase = [k \in Keys |-> "idle"]
        /\ owner = [k \in Keys |-> NoWorker]

\* Settled or new jobs may be asked for (again), several in one transaction.
Submit(asked) == /\ asked # {}
                 /\ \A k \in asked : phase[k] \in {"idle", "done", "dead"}
                 /\ phase' = [k \in Keys |-> IF k \in asked THEN "pending" ELSE phase[k]]
                 /\ UNCHANGED owner

Begin(k, w) == /\ phase[k] = "pending"
               /\ phase' = [phase EXCEPT ![k] = "working"]
               /\ owner' = [owner EXCEPT ![k] = w]

\* The owner reports success, a failure to retry, or a failure for good.
Settle(k, w) == /\ phase[k] = "working"
                /\ owner[k] = w
                /\ \E p \in {"done", "pending", "dead"} :
                      phase' = [phase EXCEPT ![k] = p]
                /\ owner' = [owner EXCEPT ![k] = NoWorker]

\* The owner dies or cannot report: the job has no owner but is not free.
Lose(k, w) == /\ phase[k] = "working"
              /\ owner[k] = w
              /\ owner' = [owner EXCEPT ![k] = NoWorker]
              /\ UNCHANGED phase

\* Lost jobs, and no others, are put back in the queue together.
Reclaim == \E lost \in SUBSET {k \in Keys : phase[k] = "working" /\ owner[k] = NoWorker} :
              /\ lost # {}
              /\ phase' = [k \in Keys |-> IF k \in lost THEN "pending" ELSE phase[k]]
              /\ UNCHANGED owner

Next == \/ \E asked \in SUBSET Keys : Submit(asked)
        \/ \E k \in Keys, w \in Workers : Begin(k, w) \/ Settle(k, w) \/ Lose(k, w)
        \/ Reclaim

Spec == Init /\ [][Next]_vars
================================================================================
