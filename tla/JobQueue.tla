------------------------------ MODULE JobQueue ------------------------------
(***************************************************************************)
(* The registry's job queue and the one worker thread that drains it.      *)
(*                                                                         *)
(* The queue is a table that request handlers, the lease heartbeat and the *)
(* worker update through sessions of their own: a session reads a row,     *)
(* decides, and writes the columns it changed, without a version check, so *)
(* a claim or a cancellation is a read step and a write step.  A running   *)
(* handler notices a cancellation, a lost library or more urgent work only *)
(* at its checkpoints.                                                     *)
(***************************************************************************)
EXTENDS Naturals, FiniteSets

CONSTANTS
    Job,          \* the rows a behaviour may create, numbered in order of creation
    MaxCrashes    \* bound: restarts of the server process

ASSUME JobAssumption ==
    /\ Job \subseteq Nat \ {0}
    /\ MaxCrashes \in Nat

VARIABLES
    status,     \* status of each row, "absent" before it is created
    cancel,     \* cancel_requested of each row
    kind,       \* "scan" is the most urgent class, "sweep" a library-wide pass
    cancelling, \* the status an unfinished cancel request read, or "none"
    worker,     \* where the worker thread is, with which job, and why it stops
    owned,      \* whether this server holds the library's lease
    opens,      \* whether the library's database can always be opened (it may be broken)
    crashes     \* restarts so far

rows == <<status, cancel, kind>>
vars == <<rows, cancelling, worker, owned, opens, crashes>>

Final == {"succeeded", "failed", "cancelled"}
Unfinished == {"queued", "running"}

Down == [at |-> "down", job |-> 0, why |-> "none"]
Idle == [at |-> "idle", job |-> 0, why |-> "none"]

(***************************************************************************)
(* Types of the jobs table and of the worker thread (registry/jobs.py).    *)
(***************************************************************************)
TypeOK ==
    /\ status \in [Job -> Unfinished \union Final \union {"absent"}]
    /\ cancel \in [Job -> BOOLEAN]
    /\ kind \in [Job -> {"scan", "sweep"}]
    /\ cancelling \in [Job -> Unfinished \union {"none"}]
    /\ worker \in [at: {"down", "idle", "claim", "setup", "ready", "run", "stop"},
                   job: Job \union {0},
                   why: Final \union {"none", "yield", "queued", "running"}]
    /\ {owned, opens} \subseteq BOOLEAN
    /\ crashes \in Nat

Init ==
    /\ status = [j \in Job |-> "absent"]
    /\ cancel = [j \in Job |-> FALSE]
    /\ kind = [j \in Job |-> "scan"]
    /\ cancelling = [j \in Job |-> "none"]
    /\ worker = Down
    /\ owned = TRUE
    /\ opens \in BOOLEAN
    /\ crashes = 0

-----------------------------------------------------------------------------
(* Requests                                                                *)

\* create_job, and get_or_create_queued_job for a pass that is already waiting
Submit(j, k) ==
    /\ worker # Down
    /\ status[j] = "absent"
    /\ \A i \in Job : i < j => status[i] # "absent"
    /\ k = "sweep" => \A i \in Job : ~(status[i] = "queued" /\ kind[i] = "sweep")
    /\ status' = [status EXCEPT ![j] = "queued"]
    /\ kind' = [kind EXCEPT ![j] = k]
    /\ UNCHANGED <<cancel, cancelling, worker, owned, opens, crashes>>

\* request_cancel, its read: a finished job is left alone
CancelRead(j) ==
    /\ worker # Down
    /\ cancelling[j] = "none"
    /\ status[j] \in Unfinished
    /\ cancelling' = [cancelling EXCEPT ![j] = status[j]]
    /\ UNCHANGED <<rows, worker, owned, opens, crashes>>

\* ... and its write: a job read as queued ends here, a running one is told
CancelWrite(j) ==
    /\ cancelling[j] # "none"
    /\ cancel' = [cancel EXCEPT ![j] = TRUE]
    /\ status' = [status EXCEPT ![j] = IF cancelling[j] = "queued" THEN "cancelled" ELSE @]
    /\ cancelling' = [cancelling EXCEPT ![j] = "none"]
    /\ UNCHANGED <<kind, worker, owned, opens, crashes>>

\* the heartbeat finds the lease lost: request_cancel_for_library for what is unfinished
LoseLibrary ==
    /\ worker # Down
    /\ owned
    /\ owned' = FALSE
    /\ cancelling' = [j \in Job |->
                        IF cancelling[j] = "none" /\ status[j] \in Unfinished
                          THEN status[j] ELSE cancelling[j]]
    /\ UNCHANGED <<rows, worker, opens, crashes>>

-----------------------------------------------------------------------------
(* The worker                                                              *)

\* Mutant of Start: jobs left by the previous process are not closed out.
StartUnreconciled ==
    /\ worker = Down
    /\ worker' = Idle
    /\ UNCHANGED <<rows, cancelling, owned, opens, crashes>>

\* fail_interrupted_jobs, then the thread
Start ==
    /\ worker = Down
    /\ status' = [j \in Job |-> IF status[j] = "running" THEN "failed" ELSE status[j]]
    /\ worker' = Idle
    /\ UNCHANGED <<cancel, kind, cancelling, owned, opens, crashes>>

Urgency(j) == IF kind[j] = "scan" THEN 0 ELSE 1
Claimable(j) == status[j] = "queued" /\ ~cancel[j]

\* claim_next_queued, its read: the most urgent class, then the oldest
ClaimRead(j) ==
    /\ worker = Idle
    /\ Claimable(j)
    /\ \A i \in Job \ {j} : Claimable(i) =>
            \/ Urgency(j) < Urgency(i)
            \/ Urgency(j) = Urgency(i) /\ j < i
    /\ worker' = [at |-> "claim", job |-> j, why |-> "none"]
    /\ UNCHANGED <<rows, cancelling, owned, opens, crashes>>

\* ... and its write
ClaimWrite(j) ==
    /\ worker.at = "claim" /\ worker.job = j
    /\ status' = [status EXCEPT ![j] = "running"]
    /\ worker' = [worker EXCEPT !.at = "setup"]
    /\ UNCHANGED <<cancel, kind, cancelling, owned, opens, crashes>>

\* execute_job: the library is there, its lease is held or acquired, its database opens
SetUp(j) ==
    /\ worker.at = "setup" /\ worker.job = j
    /\ owned' = TRUE
    /\ worker' = [worker EXCEPT !.at = "ready", !.why = status[j]]
    /\ UNCHANGED <<rows, cancelling, opens, crashes>>

\* ... or the library is unavailable or another server holds it
Refuse(j) ==
    /\ worker.at = "setup" /\ worker.job = j
    /\ status' = [status EXCEPT ![j] = "failed"]
    /\ worker' = Idle
    /\ UNCHANGED <<cancel, kind, cancelling, owned, opens, crashes>>

\* ... or the database does not open: nothing in execute_job catches it, the loop goes on
Raise(j) ==
    /\ ~opens
    /\ worker.at = "setup" /\ worker.job = j
    /\ worker' = Idle
    /\ UNCHANGED <<rows, cancelling, owned, opens, crashes>>

\* mark_running repeats the claim, unless this session had read it as running
MarkRunning(j) ==
    /\ worker.at = "ready" /\ worker.job = j
    /\ status' = [status EXCEPT ![j] = IF worker.why = "running" THEN @ ELSE "running"]
    /\ worker' = [worker EXCEPT !.at = "run", !.why = "none"]
    /\ UNCHANGED <<cancel, kind, cancelling, owned, opens, crashes>>

Stop(j, why) == worker' = [worker EXCEPT !.at = "stop", !.why = why]

\* Mutant of UrgentWaiting: work of the same class is worth standing aside for.
EqualWaiting(j) ==
    \E i \in Job \ {j} : Claimable(i) /\ Urgency(i) <= Urgency(j)

\* higher_priority_waiting
UrgentWaiting(j) ==
    \E i \in Job : Claimable(i) /\ Urgency(i) < Urgency(j)

\* Mutant of Checkpoint: a cancellation is not looked at.
CheckpointUnaware(j) ==
    /\ worker.at = "run" /\ worker.job = j
    /\ \/ ~owned /\ Stop(j, "cancelled")
       \/ owned /\ UrgentWaiting(j) /\ Stop(j, "yield")
    /\ UNCHANGED <<rows, cancelling, owned, opens, crashes>>

\* _raise_if_interrupted: a lost library, a cancellation, more urgent work
Checkpoint(j) ==
    /\ worker.at = "run" /\ worker.job = j
    /\ \/ (~owned \/ cancel[j]) /\ Stop(j, "cancelled")
       \/ owned /\ ~cancel[j] /\ UrgentWaiting(j) /\ Stop(j, "yield")
    /\ UNCHANGED <<rows, cancelling, owned, opens, crashes>>

\* the handler returns or fails by itself
Complete(j) ==
    /\ worker.at = "run" /\ worker.job = j
    /\ Stop(j, "succeeded") \/ Stop(j, "failed")
    /\ UNCHANGED <<rows, cancelling, owned, opens, crashes>>

\* mark_finished, or requeue_after_yield: the status, and nothing of cancel_requested
Conclude(j) ==
    /\ worker.at = "stop" /\ worker.job = j
    /\ status' = [status EXCEPT ![j] = IF worker.why = "yield" THEN "queued" ELSE worker.why]
    /\ worker' = Idle
    /\ UNCHANGED <<cancel, kind, cancelling, owned, opens, crashes>>

\* the process dies: the rows stay, its threads and requests are gone
Crash ==
    /\ worker # Down
    /\ crashes < MaxCrashes
    /\ crashes' = crashes + 1
    /\ worker' = Down
    /\ cancelling' = [j \in Job |-> "none"]
    /\ UNCHANGED <<rows, owned, opens>>

-----------------------------------------------------------------------------
Next ==
    \/ Start
    \/ Crash
    \/ LoseLibrary
    \/ \E j \in Job :
        \/ \E k \in {"scan", "sweep"} : Submit(j, k)
        \/ CancelRead(j)
        \/ CancelWrite(j)
        \/ ClaimRead(j)
        \/ ClaimWrite(j)
        \/ SetUp(j)
        \/ Refuse(j)
        \/ Raise(j)
        \/ MarkRunning(j)
        \/ Checkpoint(j)
        \/ Complete(j)
        \/ Conclude(j)

Spec == Init /\ [][Next]_vars

(***************************************************************************)
(* The worker loop never sleeps on work it could do, and a checkpoint      *)
(* comes again and again while a handler runs.  A handler may run for ever *)
(* if nothing stops it, and no request has to come.                        *)
(***************************************************************************)
Serving ==
    /\ WF_vars(Start)
    /\ \A j \in Job :
        /\ WF_vars(CancelWrite(j))
        /\ WF_vars(ClaimRead(j))
        /\ WF_vars(ClaimWrite(j))
        /\ WF_vars(SetUp(j) \/ Refuse(j) \/ Raise(j))
        /\ WF_vars(MarkRunning(j))
        /\ WF_vars(Checkpoint(j))
        /\ WF_vars(Conclude(j))

ServingSpec == Spec /\ Serving

-----------------------------------------------------------------------------
(***************************************************************************)
(* If databases open, a row says "running" only while the worker has that  *)
(* job: otherwise it "shows as work in progress forever" and cancelling it *)
(* does nothing (fail_interrupted_jobs, registry/jobs.py).                 *)
(***************************************************************************)
RunningHasWorker ==
    opens /\ worker # Down => \A j \in Job : status[j] = "running" => worker.job = j

(***************************************************************************)
(* If handlers end by themselves and databases open, every job that was    *)
(* queued ends, across yields to more urgent work, restarts and            *)
(* cancellations, unless a cancellation caught it while it stood aside:    *)
(* that row waits for a second one (requeue_after_yield).                  *)
(***************************************************************************)
HandlersEnd == \A j \in Job : WF_vars(Complete(j))

EveryJobEnds ==
    HandlersEnd => \A j \in Job : (status[j] \in Unfinished /\ opens) ~>
        (status[j] \in Final \/ (status[j] = "queued" /\ cancel[j]))

(***************************************************************************)
(* A running job that was asked to stop, or lost its library, does not run *)
(* for ever: its next checkpoint ends it.                                  *)
(***************************************************************************)
CancelEndsRun ==
    \A j \in Job : (worker.at = "run" /\ worker.job = j /\ cancel[j]) ~>
        ~(worker.at = "run" /\ worker.job = j)
=============================================================================
