----------------------------- MODULE CatalogJobs -----------------------------
(***************************************************************************)
(* The durable jobs through which every catalog save goes.  A handler only *)
(* writes a row; the exchange worker claims the oldest queued one, prepares*)
(* a preview or commits a save in the catalog's own transaction, and then  *)
(* writes the outcome into the row.  The server may die between any two of *)
(* these transactions; when it is back, what was running is queued again.  *)
(***************************************************************************)
EXTENDS Naturals, Sequences, FiniteSets

CONSTANTS
    Job,         \* operation identities, numbered in the order they are queued
    Unit, Value, \* catalog units and what they may hold
    Seed,        \* the value of every unit at first
    MaxRemote,   \* bound: events that arrive from other replicas
    MaxCrashes   \* bound: restarts of the server

ASSUME JobsAssumption ==
    /\ Job \subseteq Nat \ {0}
    /\ Seed \in Value
    /\ {MaxRemote, MaxCrashes} \subseteq Nat

VARIABLES
    row,      \* catalog_jobs
    log,      \* the accepted events in the order of their acceptance; the seed is the first
    blocked,  \* config 'blocked': an invalid artifact arrived, nothing is saved any more
    worker,   \* the job the worker is at, the step, and the outcome it has in memory
    counts    \* [remote, crashes] so far

jobVars == <<row, log, blocked, worker, counts>>

Partial(S) == UNION {[D -> S] : D \in SUBSET Unit}
Change == [value: Partial(Value), basis: Partial(SUBSET DOMAIN log), resolve: BOOLEAN]
Event == [op: Job \union {0}, value: Partial(Value), basis: Partial(SUBSET DOMAIN log)]
NoChange == [value |-> <<>>, basis |-> <<>>, resolve |-> FALSE]

State == {"absent", "queued", "running", "succeeded", "failed", "cancelled"}

\* A save carries its change; a preview the values it is to prepare; a commit the
\* preview it is for and the change its owner reviewed there (the receipt).
Row == [state: State, action: {"save", "preview", "commit"}, ask: Change, of: Job \union {0},
        review: Change, event: Nat]
Absent == [state |-> "absent", action |-> "save", ask |-> NoChange, of |-> 0,
           review |-> NoChange, event |-> 0]
Idle == [op |-> 0, at |-> "idle", review |-> NoChange, event |-> 0, failed |-> FALSE]

\* tips: the events that hold a unit and that no event names as its basis there
On(u) == {i \in DOMAIN log : u \in DOMAIN log[i].value}
Tips(u) == {i \in On(u) : \A k \in On(u) : i \notin log[k].basis[u]}

\* retry_receipt: the event an operation was saved as
Prior(j) == {i \in DOMAIN log : log[i].op = j}

(***************************************************************************)
(* Types; a row says "running" exactly while the worker is at its job      *)
(* (run_one, storage.py line 87).                                          *)
(***************************************************************************)
TypeOK ==
    /\ row \in [Job -> Row]
    /\ log \in Seq(Event)
    /\ blocked \in BOOLEAN
    /\ worker \in [op: Job \union {0}, at: {"idle", "run", "finish"}, review: Change,
                   event: Nat, failed: BOOLEAN]
    /\ counts \in [remote: 0..MaxRemote, crashes: 0..MaxCrashes]
    /\ \A j \in Job : row[j].state = "running" <=> worker.op = j

JobInit ==
    /\ row = [j \in Job |-> Absent]
    /\ log = <<[op |-> 0, value |-> [u \in Unit |-> Seed], basis |-> [u \in Unit |-> {}]]>>
    /\ blocked = FALSE
    /\ worker = Idle
    /\ counts = [remote |-> 0, crashes |-> 0]

-----------------------------------------------------------------------------
(* Requests.  Repeating one with the same intent changes nothing.          *)

Enqueue(j, action, of, ask) ==
    /\ row[j] = Absent
    /\ \A k \in Job : k < j => row[k] # Absent
    /\ row' = [row EXCEPT ![j] = [Absent EXCEPT !.state = "queued", !.action = action,
                                                !.of = of, !.ask = ask]]
    /\ UNCHANGED <<log, blocked, worker, counts>>

\* Only queued work can be cancelled.
Cancel(j) ==
    /\ row[j].state = "queued"
    /\ row' = [row EXCEPT ![j].state = "cancelled"]
    /\ UNCHANGED <<log, blocked, worker, counts>>

-----------------------------------------------------------------------------
(* run_one, transaction by transaction                                     *)

At(j, step) == worker.op = j /\ worker.at = step

Claim(j) ==
    /\ worker = Idle
    /\ row[j].state = "queued"
    /\ \A k \in Job : k < j => row[k].state # "queued"
    /\ row' = [row EXCEPT ![j].state = "running"]
    /\ worker' = [Idle EXCEPT !.op = j, !.at = "run"]
    /\ UNCHANGED <<log, blocked, counts>>

\* the values asked for, over the bases of this moment
Prepare(j) ==
    /\ At(j, "run") /\ row[j].action = "preview"
    /\ worker' = [worker EXCEPT !.at = "finish",
                    !.review = [row[j].ask EXCEPT !.basis = [u \in DOMAIN @ |-> Tips(u)]]]
    /\ UNCHANGED <<row, log, blocked, counts>>

\* the change a job is to save, if its review is still the one that was accepted
Body(j) == row[j].ask
Reviewed(j) ==
    row[j].action = "commit" =>
        row[row[j].of].state = "succeeded" /\ row[row[j].of].review = Body(j)

\* Mutant of Allowed: the receipt of an earlier attempt does not matter.
AllowedUnlessBlocked(j) ==
    /\ Reviewed(j)
    /\ ~blocked
    /\ Body(j).resolve => \A u \in DOMAIN Body(j).value : Body(j).basis[u] = Tips(u)

\* what was saved before is answered with its receipt, whatever happened since
Allowed(j) ==
    /\ Reviewed(j)
    /\ \/ Prior(j) # {}
       \/ /\ ~blocked
          /\ Body(j).resolve => \A u \in DOMAIN Body(j).value : Body(j).basis[u] = Tips(u)

Save(j) ==
    /\ At(j, "run") /\ row[j].action # "preview"
    /\ \/ /\ ~Allowed(j)
          /\ worker' = [worker EXCEPT !.at = "finish", !.failed = TRUE]
          /\ UNCHANGED log
       \/ /\ Allowed(j) /\ Prior(j) # {}
          /\ worker' = [worker EXCEPT !.at = "finish", !.event = CHOOSE i \in Prior(j) : TRUE]
          /\ UNCHANGED log
       \/ /\ Allowed(j) /\ Prior(j) = {}
          /\ log' = Append(log, [op |-> j, value |-> Body(j).value, basis |-> Body(j).basis])
          /\ worker' = [worker EXCEPT !.at = "finish", !.event = Len(log) + 1]
    /\ UNCHANGED <<row, blocked, counts>>

\* the outcome, in a transaction of its own
Finish(j) ==
    /\ At(j, "finish")
    /\ row' = [row EXCEPT ![j].state = IF worker.failed THEN "failed" ELSE "succeeded",
                          ![j].review = worker.review,
                          ![j].event = worker.event]
    /\ worker' = Idle
    /\ UNCHANGED <<log, blocked, counts>>

Run(j) == Claim(j) \/ Prepare(j) \/ Save(j) \/ Finish(j)

-----------------------------------------------------------------------------
(* Around the worker                                                       *)

\* Mutant of Requeued: a restart prepares finished previews once more.
RequeuedPreviews(r) == r.state = "running" \/ (r.state = "succeeded" /\ r.action = "preview")

\* Mutant of Requeued: only what never started is run after a restart.
RequeuedNever(r) == r.state = "queued"

Requeued(r) == r.state = "running"

Crash ==
    /\ counts.crashes < MaxCrashes
    /\ counts' = [counts EXCEPT !.crashes = @ + 1]
    /\ row' = [j \in Job |-> IF Requeued(row[j]) THEN [row[j] EXCEPT !.state = "queued"] ELSE row[j]]
    /\ worker' = Idle
    /\ UNCHANGED <<log, blocked>>

\* an event of another replica that had seen event i
Remote(u, v, i) ==
    /\ counts.remote < MaxRemote
    /\ i \in On(u)
    /\ log' = Append(log, [op |-> 0, value |-> [w \in {u} |-> v], basis |-> [w \in {u} |-> {i}]])
    /\ counts' = [counts EXCEPT !.remote = @ + 1]
    /\ UNCHANGED <<row, blocked, worker>>

\* an invalid artifact arrives
Block ==
    /\ ~blocked
    /\ blocked' = TRUE
    /\ UNCHANGED <<row, log, worker, counts>>

-----------------------------------------------------------------------------
\* what browsers ask for: a save or a resolution over what they see now, a preview,
\* the commit of a preview they have read
Ask(j) ==
    \/ \E u \in Unit, v \in Value :
        \/ Enqueue(j, "save", 0, [value |-> [w \in {u} |-> v], basis |-> [w \in {u} |-> Tips(w)],
                                  resolve |-> FALSE])
        \/ \E resolve \in BOOLEAN :
            Enqueue(j, "preview", 0, [value |-> [w \in {u} |-> v], basis |-> [w \in {u} |-> {}],
                                      resolve |-> resolve])
    \/ \E k \in Job :
        /\ row[k].state = "succeeded" /\ row[k].action = "preview"
        /\ Enqueue(j, "commit", k, row[k].review)

JobNext ==
    \/ \E j \in Job : Ask(j) \/ Cancel(j) \/ Run(j)
    \/ \E u \in Unit, v \in Value, i \in DOMAIN log : Remote(u, v, i)
    \/ Crash
    \/ Block

JobSpec == JobInit /\ [][JobNext]_jobVars

\* the exchange worker asks for the next job on every tick
FairJobSpec == JobSpec /\ \A j \in Job : WF_jobVars(Run(j))

-----------------------------------------------------------------------------
(***************************************************************************)
(* The outcome a row reports is what happened to the catalog: a save that  *)
(* succeeded is the one event of its operation and a failed one left none, *)
(* although row and event are written in different transactions and the    *)
(* job may run again after a restart.  (catalog/jobs.py, run_one.)         *)
(***************************************************************************)
OutcomeIsTrue ==
    \A j \in Job :
        /\ row[j].state = "failed" => Prior(j) = {}
        /\ row[j].state = "succeeded" /\ row[j].action # "preview" => Prior(j) = {row[j].event}

(***************************************************************************)
(* What a commit saved is what its preview's row still shows as the        *)
(* review: nothing prepares a different review after it was accepted.      *)
(***************************************************************************)
CommittedAsReviewed ==
    \A j \in Job, i \in DOMAIN log :
        log[i].op = j /\ row[j].action = "commit" =>
            /\ log[i].value = row[row[j].of].review.value
            /\ log[i].basis = row[row[j].of].review.basis

(***************************************************************************)
(* Every queued job ends, through restarts: "Restart requeues interrupted  *)
(* jobs" (docs/replica-catalog.md).                                        *)
(***************************************************************************)
EveryJobEnds ==
    \A j \in Job :
        row[j].state = "queued" ~> row[j].state \in {"succeeded", "failed", "cancelled"}
=============================================================================
