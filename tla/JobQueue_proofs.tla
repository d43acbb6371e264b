--------------------------- MODULE JobQueue_proofs ---------------------------
(***************************************************************************)
(* The queue's rows and the worker agree, for any number of jobs, requests *)
(* and restarts.                                                           *)
(***************************************************************************)
EXTENDS JobQueue, TLAPS

(***************************************************************************)
(* What makes the two inductive: a job the worker has was created, and a   *)
(* worker that stops knows a reason that is not "running".                 *)
(***************************************************************************)
WorkersJob ==
    /\ worker.job \in Job => status[worker.job] # "absent"
    /\ worker.at = "stop" => worker.why \in Final \union {"yield"}
    /\ worker.at \in {"down", "idle"} => worker = [at |-> worker.at, job |-> 0, why |-> "none"]

QInv == TypeOK /\ WorkersJob /\ RunningHasWorker

-----------------------------------------------------------------------------
(***************************************************************************)
(* Before the first process starts there is no row and no worker (Init).   *)
(***************************************************************************)
LEMMA InitQInv == Init => QInv
<1> SUFFICES ASSUME Init PROVE QInv
    OBVIOUS
<1>1. TypeOK
    BY JobAssumption DEF Init, TypeOK, Down, Unfinished, Final
<1>2. WorkersJob
    BY JobAssumption DEF Init, WorkersJob, Down
<1>3. RunningHasWorker
    BY DEF Init, RunningHasWorker
<1> QED
    BY <1>1, <1>2, <1>3 DEF QInv

(***************************************************************************)
(* Requests never make a row running and never touch the worker            *)
(* (create_job, request_cancel, request_cancel_for_library).               *)
(***************************************************************************)
LEMMA RequestsKeepQInv ==
    ASSUME QInv, NEW j \in Job,
           \/ \E k \in {"scan", "sweep"} : Submit(j, k)
           \/ CancelRead(j)
           \/ CancelWrite(j)
           \/ LoseLibrary
    PROVE  QInv'
<1>0. /\ worker' = worker
      /\ opens' = opens
      /\ \A i \in Job : status'[i] = status[i] \/ status'[i] \in {"queued", "cancelled"}
      /\ DOMAIN status' = Job
    BY DEF QInv, TypeOK, Submit, CancelRead, CancelWrite, LoseLibrary, rows
<1>1. TypeOK'
  <2>1. CASE \E k \in {"scan", "sweep"} : Submit(j, k)
      BY <2>1 DEF QInv, TypeOK, Submit, Unfinished
  <2>2. CASE CancelRead(j)
      BY <2>2 DEF QInv, TypeOK, CancelRead, rows
  <2>3. CASE CancelWrite(j)
      BY <2>3 DEF QInv, TypeOK, CancelWrite, Final
  <2>4. CASE LoseLibrary
      BY <2>4 DEF QInv, TypeOK, LoseLibrary, rows
  <2> QED
      BY <2>1, <2>2, <2>3, <2>4
<1>2. WorkersJob'
    BY <1>0 DEF QInv, WorkersJob
<1>3. RunningHasWorker'
    BY <1>0 DEF QInv, RunningHasWorker
<1> QED
    BY <1>1, <1>2, <1>3 DEF QInv

(***************************************************************************)
(* The worker takes a job only when it has none, so that no other row can  *)
(* be running when it writes the claim (claim_next_queued, mark_running).  *)
(***************************************************************************)
LEMMA ClaimsKeepQInv ==
    ASSUME QInv, NEW j \in Job,
           ClaimRead(j) \/ ClaimWrite(j) \/ SetUp(j) \/ MarkRunning(j)
    PROVE  QInv'
<1>1. CASE ClaimRead(j)
  <2>1. TypeOK'
      BY <1>1 DEF QInv, TypeOK, ClaimRead, rows
  <2>2. WorkersJob'
      BY <1>1 DEF QInv, TypeOK, WorkersJob, ClaimRead, Claimable, rows
  <2>3. RunningHasWorker'
      BY <1>1, JobAssumption DEF QInv, RunningHasWorker, ClaimRead, Idle, Down, rows
  <2> QED
      BY <2>1, <2>2, <2>3 DEF QInv
<1>2. CASE ClaimWrite(j)
  <2>1. TypeOK'
      BY <1>2 DEF QInv, TypeOK, ClaimWrite, Unfinished
  <2>2. WorkersJob'
      BY <1>2 DEF QInv, TypeOK, WorkersJob, ClaimWrite
  <2>3. RunningHasWorker'
      BY <1>2 DEF QInv, TypeOK, RunningHasWorker, ClaimWrite, Down
  <2> QED
      BY <2>1, <2>2, <2>3 DEF QInv
<1>3. CASE SetUp(j)
  <2>1. TypeOK'
      BY <1>3 DEF QInv, TypeOK, WorkersJob, SetUp, Unfinished, rows
  <2>2. WorkersJob'
      BY <1>3 DEF QInv, TypeOK, WorkersJob, SetUp, rows
  <2>3. RunningHasWorker'
      BY <1>3 DEF QInv, TypeOK, RunningHasWorker, SetUp, Down, rows
  <2> QED
      BY <2>1, <2>2, <2>3 DEF QInv
<1>4. CASE MarkRunning(j)
  <2>1. TypeOK'
      BY <1>4 DEF QInv, TypeOK, MarkRunning, Unfinished
  <2>2. WorkersJob'
      BY <1>4 DEF QInv, TypeOK, WorkersJob, MarkRunning
  <2>3. RunningHasWorker'
      BY <1>4 DEF QInv, TypeOK, RunningHasWorker, MarkRunning, Down
  <2> QED
      BY <2>1, <2>2, <2>3 DEF QInv
<1> QED
    BY <1>1, <1>2, <1>3, <1>4

(***************************************************************************)
(* A worker lets a job go only with a row that is no longer running, or    *)
(* with a database that did not open (execute_job, mark_finished).         *)
(***************************************************************************)
LEMMA EndsKeepQInv ==
    ASSUME QInv, NEW j \in Job,
           Refuse(j) \/ Raise(j) \/ Checkpoint(j) \/ Complete(j) \/ Conclude(j)
    PROVE  QInv'
<1>1. CASE Refuse(j)
  <2>1. TypeOK'
      BY <1>1 DEF QInv, TypeOK, Refuse, Idle, Final
  <2>2. WorkersJob'
      BY <1>1, JobAssumption DEF QInv, WorkersJob, Refuse, Idle
  <2>3. RunningHasWorker'
      BY <1>1 DEF QInv, TypeOK, RunningHasWorker, Refuse, Down
  <2> QED
      BY <2>1, <2>2, <2>3 DEF QInv
<1>2. CASE Raise(j)
  <2>1. TypeOK'
      BY <1>2 DEF QInv, TypeOK, Raise, Idle, rows
  <2>2. WorkersJob'
      BY <1>2, JobAssumption DEF QInv, WorkersJob, Raise, Idle
  <2>3. RunningHasWorker'
      BY <1>2 DEF RunningHasWorker, Raise
  <2> QED
      BY <2>1, <2>2, <2>3 DEF QInv
<1>3. CASE Checkpoint(j) \/ Complete(j)
  <2>0. \E why \in Final \union {"yield"} :
            /\ worker' = [worker EXCEPT !.at = "stop", !.why = why]
            /\ UNCHANGED <<rows, cancelling, owned, opens, crashes>>
            /\ worker.at = "run"
      BY <1>3 DEF Checkpoint, Complete, Stop, Final
  <2>1. TypeOK'
      BY <2>0 DEF QInv, TypeOK, rows
  <2>2. WorkersJob'
      BY <2>0 DEF QInv, TypeOK, WorkersJob, rows
  <2>3. RunningHasWorker'
      BY <2>0 DEF QInv, TypeOK, RunningHasWorker, Down, rows
  <2> QED
      BY <2>1, <2>2, <2>3 DEF QInv
<1>4. CASE Conclude(j)
  <2>1. TypeOK'
      BY <1>4 DEF QInv, TypeOK, WorkersJob, Conclude, Idle, Unfinished
  <2>2. WorkersJob'
      BY <1>4, JobAssumption DEF QInv, WorkersJob, Conclude, Idle
  <2>3. RunningHasWorker'
      BY <1>4 DEF QInv, TypeOK, WorkersJob, RunningHasWorker, Conclude, Down, Final
  <2> QED
      BY <2>1, <2>2, <2>3 DEF QInv
<1> QED
    BY <1>1, <1>2, <1>3, <1>4

(***************************************************************************)
(* A new process closes out what the last one left running                 *)
(* (fail_interrupted_jobs).                                                *)
(***************************************************************************)
LEMMA RestartsKeepQInv ==
    ASSUME QInv, Start \/ Crash
    PROVE  QInv'
<1>1. CASE Start
  <2>1. TypeOK'
      BY <1>1 DEF QInv, TypeOK, Start, Idle, Final
  <2>2. WorkersJob'
      BY <1>1, JobAssumption DEF QInv, WorkersJob, Start, Idle
  <2>3. RunningHasWorker'
      BY <1>1 DEF QInv, TypeOK, RunningHasWorker, Start
  <2> QED
      BY <2>1, <2>2, <2>3 DEF QInv
<1>2. CASE Crash
  <2>1. TypeOK'
      BY <1>2 DEF QInv, TypeOK, Crash, Down, rows
  <2>2. WorkersJob'
      BY <1>2, JobAssumption DEF QInv, WorkersJob, Crash, Down
  <2>3. RunningHasWorker'
      BY <1>2 DEF RunningHasWorker, Crash
  <2> QED
      BY <2>1, <2>2, <2>3 DEF QInv
<1> QED
    BY <1>1, <1>2

(***************************************************************************)
(* Every step of requests, worker and restarts keeps them.                 *)
(***************************************************************************)
LEMMA StepKeepsQInv == QInv /\ [Next]_vars => QInv'
<1> SUFFICES ASSUME QInv, [Next]_vars PROVE QInv'
    OBVIOUS
<1>1. CASE Start \/ Crash
    BY <1>1, RestartsKeepQInv
<1>2. CASE LoseLibrary
  <2>1. TypeOK'
      BY <1>2 DEF QInv, TypeOK, LoseLibrary, rows
  <2>2. WorkersJob' /\ RunningHasWorker'
      BY <1>2 DEF QInv, WorkersJob, RunningHasWorker, LoseLibrary, rows
  <2> QED
      BY <2>1, <2>2 DEF QInv
<1>3. ASSUME NEW j \in Job,
             (\E k \in {"scan", "sweep"} : Submit(j, k)) \/ CancelRead(j) \/ CancelWrite(j)
      PROVE  QInv'
    BY <1>3, RequestsKeepQInv
<1>4. ASSUME NEW j \in Job, ClaimRead(j) \/ ClaimWrite(j) \/ SetUp(j) \/ MarkRunning(j)
      PROVE  QInv'
    BY <1>4, ClaimsKeepQInv
<1>5. ASSUME NEW j \in Job, Refuse(j) \/ Raise(j) \/ Checkpoint(j) \/ Complete(j) \/ Conclude(j)
      PROVE  QInv'
    BY <1>5, EndsKeepQInv
<1>6. CASE UNCHANGED vars
    BY <1>6 DEF QInv, TypeOK, WorkersJob, RunningHasWorker, vars, rows
<1> QED
    BY <1>1, <1>2, <1>3, <1>4, <1>5, <1>6 DEF Next

(***************************************************************************)
(* For any number of jobs, cancellations and restarts: where databases     *)
(* open, a row says running only while the worker has that job             *)
(* (fail_interrupted_jobs, claim_next_queued, mark_finished).              *)
(***************************************************************************)
THEOREM RunningRowsHaveWorker == Spec => [](TypeOK /\ RunningHasWorker)
<1>1. QInv => TypeOK /\ RunningHasWorker
    BY DEF QInv
<1> QED
    BY <1>1, InitQInv, StepKeepsQInv, PTL DEF Spec
=============================================================================
