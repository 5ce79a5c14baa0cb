--------------------------- MODULE ServingProcess ---------------------------
(***************************************************************************)
(* A serving process: the control server next to the engine that the       *)
(* inference threads use (control.py:3-7).  Every interleaving of the      *)
(* handlers, the adapter's threads, the clock and the store.               *)
(***************************************************************************)
EXTENDS ControlServer, SGLangExplicitCache

\* A thread of the HTTP server is none of the inference threads.
ASSUME SeparateAssumption == Handler \intersect Adapter = {}

servingVars == <<content, kept, descs, table, proc, http, job, buffer>>

ServingInit == Init /\ HTTPInit /\ SGLangInit

ServingNext == \/ HTTPNext /\ UNCHANGED <<job, buffer>>
               \/ SGLangNext /\ Watch(http)
               \/ (Expire \/ Vanish) /\ Watch(http) /\ UNCHANGED <<job, buffer>>

\* Threads inside a request are scheduled again (Python threads are preempted, not
\* starved); requests need not come, nor ttls run out.
ServingSpec ==
    /\ ServingInit /\ [][ServingNext]_servingVars
    /\ \A t \in Handler : WF_servingVars(Serve(t) /\ UNCHANGED <<job, buffer>>)
    /\ \A t \in Adapter : WF_servingVars(Work(t) /\ Watch(http))

\* Every request to the server is answered or dropped, and every call of the adapter ends:
\* no loop of the engine runs for ever and no thread waits for another.
EveryRequestEnds ==
    /\ \A t \in Handler : []<>(http[t].at = "idle")
    /\ \A t \in Adapter : []<>(job[t].at = "idle")
=============================================================================
