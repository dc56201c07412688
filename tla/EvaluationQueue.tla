--------------------------- MODULE EvaluationQueue ---------------------------
(***************************************************************************)
(* What the RAG evaluation queue promises its users, with nothing of how   *)
(* it is done: runs wait in order, at most one runs, each ends exactly     *)
(* once, and a run whose cancellation was accepted never delivers results. *)
(***************************************************************************)
EXTENDS Naturals

CONSTANTS Runs,      \* a set of naturals: the place of a run in the queue
          FullResult \* the number of results of a run that succeeds

VARIABLES state,   \* "absent", "queued", "running" or how the run ended
          asked,   \* runs whose cancellation was accepted while they ran
          results

queueVars == <<state, asked, results>>

QueueInit ==
    /\ state = [r \in Runs |-> "absent"]
    /\ asked = [r \in Runs |-> FALSE]
    /\ results = [r \in Runs |-> 0]

Submit(r) ==
    /\ state[r] = "absent"
    /\ state' = [state EXCEPT ![r] = "queued"]
    /\ UNCHANGED <<asked, results>>

Start(r) ==
    /\ state[r] = "queued"
    /\ \A q \in Runs : state[q] # "running"
    /\ \A q \in Runs : state[q] = "queued" => r <= q
    /\ state' = [state EXCEPT ![r] = "running"]
    /\ UNCHANGED <<asked, results>>

Withdraw(r) ==
    /\ state[r] = "queued"
    /\ state' = [state EXCEPT ![r] = "cancelled"]
    /\ UNCHANGED <<asked, results>>

Ask(r) ==
    /\ state[r] = "running"
    /\ asked' = [asked EXCEPT ![r] = TRUE]
    /\ UNCHANGED <<state, results>>

Deliver(r) ==
    /\ state[r] = "running"
    /\ ~asked[r]
    /\ state' = [state EXCEPT ![r] = "completed"]
    /\ results' = [results EXCEPT ![r] = FullResult]
    /\ UNCHANGED asked

GiveUp(r) ==
    /\ state[r] = "running"
    /\ \E outcome \in {"failed", "cancelled"} :
           /\ outcome = "cancelled" => asked[r]
           /\ state' = [state EXCEPT ![r] = outcome]
    /\ asked' = [asked EXCEPT ![r] = FALSE]
    /\ UNCHANGED results

QueueNext ==
    \E r \in Runs : Submit(r) \/ Start(r) \/ Withdraw(r) \/ Ask(r)
                    \/ Deliver(r) \/ GiveUp(r)

QueueSpec == QueueInit /\ [][QueueNext]_queueVars
=============================================================================
