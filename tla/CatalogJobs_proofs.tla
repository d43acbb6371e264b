-------------------------- MODULE CatalogJobs_proofs --------------------------
(***************************************************************************)
(* What the catalog jobs report is what happened, for any number of jobs,  *)
(* events of other replicas and restarts; and what the bundle inspector    *)
(* types and saves through them is neither lost nor forgotten.             *)
(***************************************************************************)
EXTENDS InspectorDraft, SequenceTheorems, TLAPS

(***************************************************************************)
(* What the worker is about to write into the row is already true of the   *)
(* catalog, and stays true if the server dies before it writes.            *)
(***************************************************************************)
WorkerIsTrue ==
    /\ worker.at = "run" => ~worker.failed
    /\ \A j \in Job : worker.op = j /\ worker.at = "finish" /\ row[j].action # "preview" =>
        /\ worker.failed => Prior(j) = {}
        /\ ~worker.failed => Prior(j) = {worker.event}

(***************************************************************************)
(* A job is saved once.                                                    *)
(***************************************************************************)
SavedOnce == \A j \in Job : \A i, k \in Prior(j) : i = k

(***************************************************************************)
(* A saved job is no preview, its event holds what its row asks for, and   *)
(* if it is a commit its review still stands: what succeeded never changes *)
(* again, so that a repeated attempt finds its receipt.                    *)
(***************************************************************************)
SavedIsAsked ==
    /\ \A j \in Job, i \in DOMAIN log : log[i].op = j =>
        /\ row[j] # Absent
        /\ row[j].action # "preview"
        /\ log[i].value = row[j].ask.value
        /\ log[i].basis = row[j].ask.basis
        /\ row[j].action = "commit" =>
            /\ row[row[j].of].state = "succeeded"
            /\ row[row[j].of].review = row[j].ask
    /\ \A j \in Job : row[j] # Absent /\ row[j].action = "commit" => row[j].of \in Job

WorkerType == [op: Job \union {0}, at: {"idle", "run", "finish"}, review: Change,
               event: Nat, failed: BOOLEAN]

JInv == TypeOK /\ OutcomeIsTrue /\ WorkerIsTrue /\ SavedOnce /\ SavedIsAsked

-----------------------------------------------------------------------------
(***************************************************************************)
(* The empty change is a change over no unit.                              *)
(***************************************************************************)
LEMMA NoChangeIsChange == NoChange \in Change
<1>1. \A S : <<>> \in [{} -> S]
    OBVIOUS
<1>2. \A S : <<>> \in Partial(S)
    BY <1>1 DEF Partial
<1> QED
    BY <1>2 DEF NoChange, Change

(***************************************************************************)
(* A function over a part of the units.                                    *)
(***************************************************************************)
LEMMA PartialIntro ==
    ASSUME NEW S, NEW D \in SUBSET Unit, NEW f \in [D -> S]
    PROVE  f \in Partial(S)
    BY DEF Partial

(***************************************************************************)
(* Such a function is one over its own domain.                             *)
(***************************************************************************)
LEMMA PartialElim ==
    ASSUME NEW S, NEW f \in Partial(S)
    PROVE  DOMAIN f \in SUBSET Unit /\ f \in [DOMAIN f -> S]
    BY DEF Partial

(***************************************************************************)
(* What was well typed stays so when the catalog grows: bases name accepted *)
(* events.                                                                 *)
(***************************************************************************)
LEMMA TypesGrow ==
    ASSUME DOMAIN log \subseteq DOMAIN log'
    PROVE  Change \subseteq Change' /\ Row \subseteq Row' /\ Event \subseteq Event'
<1>1. Partial(SUBSET DOMAIN log) \subseteq Partial(SUBSET DOMAIN log)'
  <2> SUFFICES ASSUME NEW f \in Partial(SUBSET DOMAIN log) PROVE f \in Partial(SUBSET DOMAIN log')
      BY DEF Partial
  <2>1. DOMAIN f \in SUBSET Unit /\ f \in [DOMAIN f -> SUBSET DOMAIN log]
      BY PartialElim
  <2>2. f \in [DOMAIN f -> SUBSET DOMAIN log']
      BY <2>1
  <2> QED
      BY <2>1, <2>2, PartialIntro
<1>2. Partial(Value)' = Partial(Value)
    BY DEF Partial
<1>3. Change \subseteq Change'
    BY <1>1, <1>2 DEF Change
<1> QED
    BY <1>1, <1>2, <1>3 DEF Row, Event

(***************************************************************************)
(* A step that writes well-typed rows and outcomes and takes nothing from  *)
(* the catalog leaves a well-typed state.                                  *)
(***************************************************************************)
LEMMA TypesKept ==
    ASSUME DOMAIN log \subseteq DOMAIN log',
           row' \in [Job -> Row], log' \in Seq(Event) \/ log' \in Seq(Event'), blocked' \in BOOLEAN,
           worker' \in WorkerType, counts' \in [remote: 0..MaxRemote, crashes: 0..MaxCrashes],
           \A k \in Job : row'[k].state = "running" <=> worker'.op = k
    PROVE  TypeOK'
<1>1. Change \subseteq Change' /\ Row \subseteq Row' /\ Event \subseteq Event'
    BY TypesGrow
<1>2. row' \in [Job -> Row']
    BY <1>1
<1>3. log' \in Seq(Event')
    BY <1>1
<1>4. worker' \in WorkerType'
    BY <1>1 DEF WorkerType
<1> QED
    BY <1>2, <1>3, <1>4 DEF TypeOK, WorkerType

(***************************************************************************)
(* A new catalog holds the seed, and no job has a row (JobInit).           *)
(***************************************************************************)
LEMMA InitJInv == JobInit => JInv
<1> SUFFICES ASSUME JobInit PROVE JInv
    OBVIOUS
<1>1. Absent \in Row
    BY NoChangeIsChange DEF Absent, Row, State
<1>2. Idle \in WorkerType
    BY NoChangeIsChange DEF Idle, WorkerType
<1>3. /\ DOMAIN log = {1}
      /\ log[1] = [op |-> 0, value |-> [u \in Unit |-> Seed], basis |-> [u \in Unit |-> {}]]
      /\ Len(log) = 1
    BY DEF JobInit
<1>4. log[1] \in Event
  <2>1. [u \in Unit |-> Seed] \in Partial(Value)
      BY PartialIntro, JobsAssumption
  <2>2. [u \in Unit |-> {}] \in [Unit -> SUBSET DOMAIN log]
      OBVIOUS
  <2>3. [u \in Unit |-> {}] \in Partial(SUBSET DOMAIN log)
      BY <2>2, PartialIntro
  <2> QED
      BY <1>3, <2>1, <2>3 DEF Event
<1>5. TypeOK
  <2>1. log \in Seq(Event)
      BY <1>4 DEF JobInit
  <2>2. worker.op \notin Job /\ \A j \in Job : row[j].state = "absent"
      BY JobsAssumption DEF JobInit, Idle, Absent
  <2>3. counts \in [remote: 0..MaxRemote, crashes: 0..MaxCrashes]
      BY JobsAssumption DEF JobInit
  <2>4. row \in [Job -> Row]
      BY <1>1 DEF JobInit
  <2> QED
      BY <1>2, <2>1, <2>2, <2>3, <2>4 DEF JobInit, TypeOK, WorkerType
<1>6. \A j \in Job : Prior(j) = {}
    BY <1>3, JobsAssumption DEF Prior
<1>7. OutcomeIsTrue
    BY <1>6 DEF JobInit, OutcomeIsTrue, Absent
<1>8. WorkerIsTrue
    BY DEF JobInit, WorkerIsTrue, Idle
<1>9. SavedIsAsked
    BY <1>3, JobsAssumption DEF JobInit, SavedIsAsked
<1>10. SavedOnce
    BY <1>6 DEF SavedOnce
<1> QED
    BY <1>5, <1>7, <1>8, <1>9, <1>10 DEF JInv

-----------------------------------------------------------------------------
(***************************************************************************)
(* A handler writes a new row, or ends a queued one that nothing depends   *)
(* on: the catalog and the worker are not involved (enqueue, cancel).      *)
(***************************************************************************)
LEMMA RequestKeeps ==
    ASSUME JInv, NEW j \in Job,
           NEW r \in Row, row' = [row EXCEPT ![j] = r],
           UNCHANGED <<log, blocked, worker, counts>>,
           \/ row[j] = Absent /\ r.state = "queued" /\ (r.action = "commit" => r.of \in Job)
           \/ row[j].state = "queued" /\ r = [row[j] EXCEPT !.state = "cancelled"]
    PROVE  JInv'
<1>0. /\ row \in [Job -> Row] /\ row'[j] = r
      /\ \A k \in Job \ {j} : row'[k] = row[k]
      /\ DOMAIN row' = Job
    BY DEF JInv, TypeOK
<1>1. /\ row[j].state \in {"absent", "queued"}
      /\ r.state \in {"queued", "cancelled"}
      /\ row[j] = Absent /\ r.action = "commit" => r.of \in Job
      /\ row[j] # Absent => r.action = row[j].action /\ r.ask = row[j].ask /\ r.of = row[j].of
      /\ r # Absent
    BY <1>0 DEF Absent, Row
<1>2. worker.op # j
    BY <1>1 DEF JInv, TypeOK
<1>3. \A k \in Job : Prior(k)' = Prior(k)
    BY DEF Prior
<1>4. TypeOK'
    BY <1>0, <1>1, <1>2, TypesKept DEF JInv, TypeOK, WorkerType
<1>5. OutcomeIsTrue'
    BY <1>0, <1>1, <1>3 DEF JInv, OutcomeIsTrue
<1>6. WorkerIsTrue'
    BY <1>0, <1>2, <1>3 DEF JInv, WorkerIsTrue
<1>7. SavedIsAsked'
  <2>1. ASSUME NEW k \in Job, NEW i \in DOMAIN log, log[i].op = k
        PROVE  /\ row'[k] # Absent
               /\ row'[k].action = row[k].action
               /\ row'[k].ask = row[k].ask
               /\ row'[k].of = row[k].of
               /\ row[k].action = "commit" => row'[row[k].of] = row[row[k].of]
    <3>1. row[k] # Absent
        BY <2>1 DEF JInv, SavedIsAsked
    <3>2. row[k].action = "commit" => row[k].of \in Job \ {j}
        BY <1>1, <2>1, <3>1 DEF JInv, SavedIsAsked
    <3> QED
        BY <1>0, <1>1, <3>1, <3>2
  <2>2. ASSUME NEW k \in Job, row'[k] # Absent, row'[k].action = "commit"
        PROVE  row'[k].of \in Job
    <3>1. CASE k # j
        BY <1>0, <2>2, <3>1 DEF JInv, SavedIsAsked
    <3>2. CASE k = j
        BY <1>0, <1>1, <2>2, <3>2 DEF JInv, SavedIsAsked
    <3> QED
        BY <3>1, <3>2
  <2> QED
      BY <2>1, <2>2 DEF JInv, SavedIsAsked
<1>8. SavedOnce'
    BY <1>3 DEF JInv, SavedOnce
<1> QED
    BY <1>4, <1>5, <1>6, <1>7, <1>8 DEF JInv

(***************************************************************************)
(* Any row a handler may write: a save, a preview or a commit of any       *)
(* change, over any accepted events, whether it was ever on show or not.   *)
(* The jobs under such requests are what every client of the catalog is    *)
(* shown to be an instance of (enqueue, jobs.py).                          *)
(***************************************************************************)
AnyRequest(j) ==
    \E action \in {"save", "preview", "commit"}, of \in Job \union {0}, ask \in Change :
        /\ action = "commit" => of \in Job
        /\ Enqueue(j, action, of, ask)

AnyJobNext ==
    \/ \E j \in Job : AnyRequest(j) \/ Cancel(j) \/ Run(j)
    \/ \E u \in Unit, v \in Value, i \in DOMAIN log : Remote(u, v, i)
    \/ Crash
    \/ Block

AnyJobSpec == JobInit /\ [][AnyJobNext]_jobVars

LEMMA EnqueueKeeps ==
    ASSUME JInv, NEW j \in Job, AnyRequest(j)
    PROVE  JInv'
<1>1. PICK action \in {"save", "preview", "commit"}, of \in Job \union {0}, ask \in Change :
        /\ action = "commit" => of \in Job
        /\ Enqueue(j, action, of, ask)
    BY DEF AnyRequest
<1> DEFINE r == [Absent EXCEPT !.state = "queued", !.action = action, !.of = of, !.ask = ask]
<1>2. r \in Row /\ r.state = "queued" /\ r.action = action /\ r.of = of
    BY NoChangeIsChange DEF Absent, Row, State
<1>3. row' = [row EXCEPT ![j] = r] /\ row[j] = Absent /\ UNCHANGED <<log, blocked, worker, counts>>
    BY <1>1 DEF Enqueue
<1> HIDE DEF r
<1> QED
    BY <1>1, <1>2, <1>3, RequestKeeps

(***************************************************************************)
(* What browsers ask for is a change over known units and events.          *)
(***************************************************************************)
LEMMA AskIsRequest ==
    ASSUME JInv, NEW j \in Job, Ask(j)
    PROVE  AnyRequest(j)
<1>1. ASSUME NEW u \in Unit, NEW v \in Value
      PROVE  /\ [w \in {u} |-> v] \in Partial(Value)
             /\ [w \in {u} |-> {}] \in Partial(SUBSET DOMAIN log)
             /\ [w \in {u} |-> Tips(w)] \in Partial(SUBSET DOMAIN log)
  <2>1. \A w : Tips(w) \in SUBSET DOMAIN log
      BY DEF JInv, TypeOK, Tips, On
  <2>2. /\ [w \in {u} |-> {}] \in [{u} -> SUBSET DOMAIN log]
        /\ [w \in {u} |-> Tips(w)] \in [{u} -> SUBSET DOMAIN log]
      BY <2>1
  <2> QED
      BY <2>2, PartialIntro
<1>2. ASSUME NEW u \in Unit, NEW v \in Value, NEW resolve \in BOOLEAN
      PROVE  /\ [value |-> [w \in {u} |-> v], basis |-> [w \in {u} |-> Tips(w)],
                  resolve |-> resolve] \in Change
             /\ [value |-> [w \in {u} |-> v], basis |-> [w \in {u} |-> {}],
                  resolve |-> resolve] \in Change
    BY <1>1 DEF Change
<1>3. CASE \E u \in Unit, v \in Value :
            Enqueue(j, "save", 0, [value |-> [w \in {u} |-> v], basis |-> [w \in {u} |-> Tips(w)],
                                   resolve |-> FALSE])
    BY <1>2, <1>3 DEF AnyRequest
<1>4. CASE \E u \in Unit, v \in Value, resolve \in BOOLEAN :
            Enqueue(j, "preview", 0, [value |-> [w \in {u} |-> v], basis |-> [w \in {u} |-> {}],
                                      resolve |-> resolve])
    BY <1>2, <1>4 DEF AnyRequest
<1>5. CASE \E k \in Job : Enqueue(j, "commit", k, row[k].review)
  <2>1. PICK k \in Job : Enqueue(j, "commit", k, row[k].review)
      BY <1>5
  <2>2. row[k].review \in Change
      BY DEF JInv, TypeOK, Row
  <2> QED
      BY <2>1, <2>2 DEF AnyRequest
<1> QED
    BY <1>3, <1>4, <1>5 DEF Ask

(***************************************************************************)
(* A queued row is the only one that cancel ends (cancel).                 *)
(***************************************************************************)
LEMMA CancelKeeps ==
    ASSUME JInv, NEW j \in Job, Cancel(j)
    PROVE  JInv'
<1> DEFINE r == [row[j] EXCEPT !.state = "cancelled"]
<1>1. row[j] \in Row /\ row \in [Job -> Row]
    BY DEF JInv, TypeOK
<1>2. r \in Row
    BY <1>1 DEF Row, State
<1>3. row[j].state = "queued" /\ UNCHANGED <<log, blocked, worker, counts>>
    BY DEF Cancel
<1>4. row' = [row EXCEPT ![j] = r]
    BY <1>1 DEF Cancel
<1> QED
    BY <1>2, <1>3, <1>4, RequestKeeps

-----------------------------------------------------------------------------
(***************************************************************************)
(* The worker takes a queued job, of which the catalog knows what an       *)
(* earlier attempt may have saved (run_one, its first transaction).        *)
(***************************************************************************)
LEMMA ClaimKeeps ==
    ASSUME JInv, NEW j \in Job, Claim(j)
    PROVE  JInv'
<1>0. /\ row \in [Job -> Row] /\ row' = [row EXCEPT ![j].state = "running"]
      /\ row[j].state = "queued" /\ row[j] # Absent
      /\ worker = Idle /\ worker' = [Idle EXCEPT !.op = j, !.at = "run"]
      /\ UNCHANGED <<log, blocked, counts>>
    BY DEF JInv, TypeOK, Claim, Absent
<1>1. /\ \A k \in Job \ {j} : row'[k] = row[k]
      /\ row'[j] = [row[j] EXCEPT !.state = "running"]
      /\ row'[j].state = "running"
    BY <1>0 DEF Row
<1>2. /\ row'[j] # Absent /\ row'[j].action = row[j].action
      /\ row'[j].ask = row[j].ask /\ row'[j].of = row[j].of
    BY <1>0, <1>1 DEF Row, Absent
<1>3. \A k \in Job : Prior(k)' = Prior(k)
    BY <1>0 DEF Prior
<1>4. /\ worker'.op = j /\ worker'.at = "run" /\ worker.op = 0 /\ ~worker'.failed
      /\ worker' \in WorkerType
    BY <1>0, NoChangeIsChange DEF Idle, WorkerType
<1>5. TypeOK'
  <2>1. row' \in [Job -> Row]
      BY <1>0 DEF Row, State
  <2>2. \A k \in Job : row'[k].state = "running" <=> worker'.op = k
    <3>1. \A k \in Job : row[k].state # "running"
        BY <1>4, JobsAssumption DEF JInv, TypeOK
    <3>2. row'[j].state = "running" /\ worker'.op = j
        BY <1>1, <1>4
    <3>3. \A k \in Job \ {j} : row'[k].state # "running"
        BY <1>1, <3>1
    <3> QED
        BY <3>2, <3>3
  <2> QED
      BY <1>0, <1>4, <2>1, <2>2, TypesKept DEF JInv, TypeOK, WorkerType
<1>6. OutcomeIsTrue'
    BY <1>1, <1>3 DEF JInv, OutcomeIsTrue
<1>7. WorkerIsTrue'
    BY <1>4 DEF WorkerIsTrue
<1>8. SavedIsAsked'
  <2>1. ASSUME NEW k \in Job, NEW i \in DOMAIN log, log[i].op = k
        PROVE  row[k].action = "commit" => row[k].of \in Job \ {j}
      BY <1>0, <2>1 DEF JInv, SavedIsAsked
  <2> QED
      BY <1>0, <1>1, <1>2, <2>1 DEF JInv, SavedIsAsked
<1>9. SavedOnce'
    BY <1>3 DEF JInv, SavedOnce
<1> QED
    BY <1>5, <1>6, <1>7, <1>8, <1>9 DEF JInv

(***************************************************************************)
(* A preview only has its review in memory (run_one).                      *)
(***************************************************************************)
LEMMA PrepareKeeps ==
    ASSUME JInv, NEW j \in Job, Prepare(j)
    PROVE  JInv'
<1> DEFINE review == [row[j].ask EXCEPT !.basis = [u \in DOMAIN @ |-> Tips(u)]]
<1>0. /\ worker.op = j /\ row[j].action = "preview"
      /\ worker' = [worker EXCEPT !.at = "finish", !.review = review]
      /\ UNCHANGED <<row, log, blocked, counts>>
    BY DEF Prepare, At
<1>1. review \in Change
  <2>1. row[j].ask \in Change /\ row[j].ask.basis \in Partial(SUBSET DOMAIN log)
      BY DEF JInv, TypeOK, Row, Change
  <2>2. DOMAIN row[j].ask.basis \in SUBSET Unit
      BY <2>1, PartialElim
  <2>3. \A u : Tips(u) \in SUBSET DOMAIN log
      BY DEF JInv, TypeOK, Tips, On
  <2>4. [u \in DOMAIN row[j].ask.basis |-> Tips(u)] \in [DOMAIN row[j].ask.basis -> SUBSET DOMAIN log]
      BY <2>3
  <2>5. [u \in DOMAIN row[j].ask.basis |-> Tips(u)] \in Partial(SUBSET DOMAIN log)
      BY <2>2, <2>4, PartialIntro
  <2>6. review = [row[j].ask EXCEPT !.basis = [u \in DOMAIN row[j].ask.basis |-> Tips(u)]]
      BY <2>1 DEF Change
  <2> HIDE DEF review
  <2> QED
      BY <2>1, <2>5, <2>6 DEF Change
<1> HIDE DEF review
<1>2. \A k \in Job : Prior(k)' = Prior(k)
    BY <1>0 DEF Prior
<1>3. TypeOK' /\ worker'.op = j
    BY <1>0, <1>1, TypesKept DEF JInv, TypeOK, WorkerType
<1>4. OutcomeIsTrue'
    BY <1>0, <1>2 DEF JInv, OutcomeIsTrue
<1>5. WorkerIsTrue'
    BY <1>0, <1>3 DEF WorkerIsTrue
<1>6. SavedIsAsked'
    BY <1>0 DEF JInv, SavedIsAsked
<1>7. SavedOnce'
    BY <1>2 DEF JInv, SavedOnce
<1> QED
    BY <1>3, <1>4, <1>5, <1>6, <1>7 DEF JInv

(***************************************************************************)
(* A save is refused without a trace, finds the receipt of an earlier      *)
(* attempt, or leaves one event; and an attempt that was saved before is   *)
(* not refused, because its review still stands (run_one, save_in).        *)
(***************************************************************************)
LEMMA SaveKeeps ==
    ASSUME JInv, NEW j \in Job, Save(j)
    PROVE  JInv'
<1>0. /\ worker.op = j /\ row[j].action # "preview" /\ row[j].state = "running"
      /\ worker \in WorkerType
      /\ worker.at = "run"
      /\ log \in Seq(Event) /\ row \in [Job -> Row]
      /\ UNCHANGED <<row, blocked, counts>>
    BY DEF JInv, TypeOK, Save, At, WorkerType
<1>1. row[j] # Absent
    BY <1>0 DEF Absent
<1>2. CASE ~Allowed(j) /\ worker' = [worker EXCEPT !.at = "finish", !.failed = TRUE] /\ UNCHANGED log
  <2>1. Prior(j) = {}
    <3> SUFFICES ASSUME NEW i \in Prior(j) PROVE FALSE
        OBVIOUS
    <3>1. Reviewed(j)
        BY DEF Prior, Reviewed, Body, JInv, SavedIsAsked
    <3> QED
        BY <1>2, <3>1 DEF Allowed
  <2>2. \A k \in Job : Prior(k)' = Prior(k)
      BY <1>2 DEF Prior
  <2>3. worker'.op = j /\ worker'.failed /\ worker'.at = "finish"
      BY <1>0, <1>2
  <2>4. TypeOK'
      BY <1>0, <1>2, TypesKept DEF JInv, TypeOK, WorkerType
  <2>5. OutcomeIsTrue'
      BY <1>0, <2>2 DEF JInv, OutcomeIsTrue
  <2>6. WorkerIsTrue'
      BY <2>1, <2>2, <2>3 DEF WorkerIsTrue
  <2>7. SavedIsAsked' /\ SavedOnce'
      BY <1>0, <1>2, <2>2 DEF JInv, SavedIsAsked, SavedOnce
  <2> QED
      BY <2>4, <2>5, <2>6, <2>7 DEF JInv
<1>3. CASE /\ Allowed(j) /\ Prior(j) # {} /\ UNCHANGED log
           /\ worker' = [worker EXCEPT !.at = "finish", !.event = CHOOSE i \in Prior(j) : TRUE]
  <2> DEFINE e == CHOOSE i \in Prior(j) : TRUE
  <2>1. e \in Prior(j) /\ e \in Nat
      BY <1>0, <1>3 DEF Prior
  <2>2. Prior(j) = {e}
      BY <2>1 DEF JInv, SavedOnce
  <2>3. \A k \in Job : Prior(k)' = Prior(k)
      BY <1>3 DEF Prior
  <2>4. /\ worker'.op = j /\ ~worker'.failed /\ worker'.event = e /\ worker'.at = "finish"
        /\ worker' \in WorkerType
      BY <1>0, <1>3, <2>1 DEF JInv, WorkerIsTrue, WorkerType
  <2> HIDE DEF e
  <2>5. TypeOK'
      BY <1>0, <1>3, <2>4, TypesKept DEF JInv, TypeOK, WorkerType
  <2>6. OutcomeIsTrue'
      BY <1>0, <2>3 DEF JInv, OutcomeIsTrue
  <2>7. WorkerIsTrue'
      BY <2>2, <2>3, <2>4 DEF WorkerIsTrue
  <2>8. SavedIsAsked' /\ SavedOnce'
      BY <1>0, <1>3, <2>3 DEF JInv, SavedIsAsked, SavedOnce
  <2> QED
      BY <2>5, <2>6, <2>7, <2>8 DEF JInv
<1>4. CASE /\ Allowed(j) /\ Prior(j) = {}
           /\ log' = Append(log, [op |-> j, value |-> Body(j).value, basis |-> Body(j).basis])
           /\ worker' = [worker EXCEPT !.at = "finish", !.event = Len(log) + 1]
  <2> DEFINE e == [op |-> j, value |-> row[j].ask.value, basis |-> row[j].ask.basis]
  <2>1. e \in Event /\ log' = Append(log, e)
      BY <1>0, <1>4 DEF Body, Event, Row, Change
  <2>2. /\ log' \in Seq(Event) /\ Len(log) \in Nat
        /\ DOMAIN log' = DOMAIN log \union {Len(log) + 1}
        /\ Len(log) + 1 \notin DOMAIN log
        /\ log'[Len(log) + 1] = e
        /\ \A i \in DOMAIN log : log'[i] = log[i]
      BY <1>0, <2>1
  <2>3. Prior(j)' = {Len(log) + 1}
      BY <1>4, <2>2 DEF Prior
  <2>4. \A k \in Job \ {j} : Prior(k)' = Prior(k)
      BY <2>2 DEF Prior
  <2>0. ~worker.failed
      BY <1>0 DEF JInv, WorkerIsTrue
  <2>5. /\ worker'.op = j /\ ~worker'.failed /\ worker'.event = Len(log) + 1
        /\ worker'.at = "finish"
        /\ worker' \in WorkerType
    <3>1. worker' = [worker EXCEPT !.at = "finish", !.event = Len(log) + 1]
        BY <1>4
    <3>2. Len(log) + 1 \in Nat
        BY <2>2
    <3> QED
        BY <1>0, <2>0, <3>1, <3>2 DEF WorkerType
  <2>6. TypeOK'
      BY <1>0, <2>2, <2>5, TypesKept DEF JInv, TypeOK, WorkerType
  <2>7. OutcomeIsTrue'
      BY <1>0, <2>4 DEF JInv, OutcomeIsTrue
  <2>8. WorkerIsTrue'
      BY <2>3, <2>5 DEF WorkerIsTrue
  <2>9. SavedOnce'
      BY <2>3, <2>4 DEF JInv, SavedOnce
  <2>10. SavedIsAsked'
    <3>1. Reviewed(j)
        BY <1>4 DEF Allowed
    <3>2. row[j].action = "commit" =>
            row[row[j].of].state = "succeeded" /\ row[row[j].of].review = row[j].ask
        BY <3>1 DEF Reviewed, Body
    <3> QED
        BY <1>0, <1>1, <2>2, <3>2 DEF JInv, SavedIsAsked
  <2> QED
      BY <2>6, <2>7, <2>8, <2>9, <2>10 DEF JInv
<1> QED
    BY <1>2, <1>3, <1>4 DEF Save

(***************************************************************************)
(* The row gets the outcome the worker has in memory (run_one, its last    *)
(* transaction).                                                           *)
(***************************************************************************)
LEMMA FinishKeeps ==
    ASSUME JInv, NEW j \in Job, Finish(j)
    PROVE  JInv'
<1> DEFINE r == [row[j] EXCEPT !.state = IF worker.failed THEN "failed" ELSE "succeeded",
                               !.review = worker.review, !.event = worker.event]
<1>0. /\ worker.op = j /\ worker.at = "finish" /\ row[j].state = "running"
      /\ worker' = Idle
      /\ row \in [Job -> Row] /\ row[j] \in Row
      /\ UNCHANGED <<log, blocked, counts>>
    BY DEF JInv, TypeOK, Finish, At
<1>1. /\ row' = [row EXCEPT ![j] = r]
      /\ r \in Row /\ r.action = row[j].action /\ r.ask = row[j].ask /\ r.of = row[j].of
      /\ r.state \in {"failed", "succeeded"}
      /\ r.state = "failed" <=> worker.failed
      /\ r.event = worker.event
  <2>1. worker.review \in Change /\ worker.event \in Nat /\ worker.failed \in BOOLEAN
      BY DEF JInv, TypeOK
  <2> QED
      BY <1>0, <2>1 DEF Finish, Row, State
<1> HIDE DEF r
<1>2. /\ row'[j] = r /\ row'[j] # Absent /\ row[j] # Absent
      /\ \A k \in Job \ {j} : row'[k] = row[k]
    BY <1>0, <1>1 DEF Absent
<1>3. \A k \in Job : Prior(k)' = Prior(k)
    BY <1>0 DEF Prior
<1>4. TypeOK'
  <2>1. /\ worker' \in WorkerType
        /\ worker'.op = 0
      BY <1>0, NoChangeIsChange DEF Idle, WorkerType
  <2>2. \A k \in Job : row'[k].state = "running" <=> worker'.op = k
      BY <1>0, <1>1, <1>2, <2>1, JobsAssumption DEF JInv, TypeOK
  <2> QED
      BY <1>0, <1>1, <2>1, <2>2, TypesKept DEF JInv, TypeOK, WorkerType
<1>5. OutcomeIsTrue'
  <2>1. row[j].action # "preview" =>
            /\ worker.failed => Prior(j) = {}
            /\ ~worker.failed => Prior(j) = {worker.event}
      BY <1>0 DEF JInv, WorkerIsTrue
  <2>2. row[j].action = "preview" => Prior(j) = {}
      BY DEF Prior, JInv, SavedIsAsked
  <2>3. /\ row'[j].state = "failed" => Prior(j) = {}
        /\ row'[j].state = "succeeded" /\ row'[j].action # "preview" => Prior(j) = {row'[j].event}
      BY <1>1, <1>2, <2>1, <2>2
  <2> QED
      BY <1>2, <1>3, <2>3 DEF JInv, OutcomeIsTrue
<1>6. WorkerIsTrue'
    BY <1>0 DEF WorkerIsTrue, Idle
<1>7. SavedOnce'
    BY <1>3 DEF JInv, SavedOnce
<1>8. SavedIsAsked'
  <2>1. ASSUME NEW k \in Job, NEW i \in DOMAIN log, log[i].op = k
        PROVE  row[k].action = "commit" => row[k].of \in Job \ {j}
      BY <1>0, <2>1 DEF JInv, SavedIsAsked
  <2> QED
      BY <1>0, <1>1, <1>2, <2>1 DEF JInv, SavedIsAsked
<1> QED
    BY <1>4, <1>5, <1>6, <1>7, <1>8 DEF JInv

(***************************************************************************)
(* What a restart queues again is done again from the start: the worker    *)
(* had nothing that the catalog does not know (CatalogStorage.__init__).   *)
(***************************************************************************)
LEMMA CrashKeeps ==
    ASSUME JInv, Crash
    PROVE  JInv'
<1>0. /\ worker' = Idle /\ row \in [Job -> Row]
      /\ UNCHANGED <<log, blocked>>
    BY DEF JInv, TypeOK, Crash
<1>1. /\ DOMAIN row' = Job
      /\ \A k \in Job : /\ row[k] \in Row
                        /\ row'[k] = IF row[k].state = "running"
                                       THEN [row[k] EXCEPT !.state = "queued"] ELSE row[k]
    BY <1>0 DEF Crash, Requeued
<1>2. ASSUME NEW k \in Job
      PROVE  /\ row'[k] \in Row
             /\ row'[k].action = row[k].action /\ row'[k].ask = row[k].ask
             /\ row'[k].of = row[k].of /\ row'[k].event = row[k].event
             /\ row'[k].review = row[k].review
             /\ row'[k] = Absent <=> row[k] = Absent
             /\ row'[k].state # "running"
             /\ row[k].state # "running" => row'[k] = row[k]
             /\ row'[k].state \in {"failed", "succeeded"} => row'[k] = row[k]
  <2>1. CASE row[k].state = "running"
      BY <1>1, <2>1 DEF Row, State, Absent
  <2>2. CASE row[k].state # "running"
      BY <1>1, <2>2
  <2> QED
      BY <2>1, <2>2
<1>3. \A k \in Job : Prior(k)' = Prior(k)
    BY <1>0 DEF Prior
<1>4. TypeOK'
  <2>1. row' \in [Job -> Row]
    <3>1. row' = [k \in Job |-> row'[k]]
        BY DEF Crash
    <3> QED
        BY <1>2, <3>1
  <2>2. worker' \in WorkerType
      BY <1>0, NoChangeIsChange DEF Idle, WorkerType
  <2>3. \A k \in Job : row'[k].state = "running" <=> worker'.op = k
      BY <1>0, <1>2, JobsAssumption DEF Idle
  <2>4. counts' \in [remote: 0..MaxRemote, crashes: 0..MaxCrashes]
    <3>1. MaxRemote \in Nat /\ MaxCrashes \in Nat
        BY JobsAssumption
    <3>2. counts \in [remote: 0..MaxRemote, crashes: 0..MaxCrashes]
        BY DEF JInv, TypeOK
    <3>3. counts.remote \in 0..MaxRemote /\ counts.crashes \in 0..MaxCrashes
        BY <3>2
    <3> QED
        BY <3>1, <3>2, <3>3 DEF Crash
  <2> QED
      BY <1>0, <2>1, <2>2, <2>3, <2>4, TypesKept DEF JInv, TypeOK, WorkerType
<1>5. OutcomeIsTrue'
    BY <1>2, <1>3 DEF JInv, OutcomeIsTrue
<1>6. WorkerIsTrue'
    BY <1>0, JobsAssumption DEF WorkerIsTrue, Idle
<1>7. SavedOnce'
    BY <1>3 DEF JInv, SavedOnce
<1>8. SavedIsAsked'
  <2>1. ASSUME NEW k \in Job, NEW i \in DOMAIN log, log[i].op = k
        PROVE  row[k].action = "commit" =>
                  row[k].of \in Job /\ row'[row[k].of] = row[row[k].of]
    <3>1. row[k].action = "commit" =>
              row[k].of \in Job /\ row[row[k].of].state = "succeeded"
        BY <2>1 DEF JInv, SavedIsAsked
    <3> QED
        BY <1>2, <3>1
  <2> QED
      BY <1>0, <1>2, <2>1 DEF JInv, SavedIsAsked
<1> QED
    BY <1>4, <1>5, <1>6, <1>7, <1>8 DEF JInv

(***************************************************************************)
(* Events of other replicas belong to no job here (accept), and a block    *)
(* only keeps things from happening.                                       *)
(***************************************************************************)
LEMMA RemoteKeeps ==
    ASSUME JInv, NEW u \in Unit, NEW v \in Value, NEW i \in DOMAIN log, Remote(u, v, i)
    PROVE  JInv'
<1> DEFINE e == [op |-> 0, value |-> [w \in {u} |-> v], basis |-> [w \in {u} |-> {i}]]
<1>0. /\ UNCHANGED <<row, blocked, worker>>
      /\ log' = Append(log, e) /\ log \in Seq(Event)
    BY DEF JInv, TypeOK, Remote
<1>1. e \in Event /\ e.op = 0
  <2>1. [w \in {u} |-> v] \in Partial(Value)
      BY PartialIntro
  <2>2. i \in Nat
      BY <1>0
  <2>3. [w \in {u} |-> {i}] \in [{u} -> SUBSET DOMAIN log]
      BY <2>2
  <2>4. [w \in {u} |-> {i}] \in Partial(SUBSET DOMAIN log)
      BY <2>3, PartialIntro
  <2> QED
      BY <2>1, <2>4 DEF Event
<1> HIDE DEF e
<1>2. /\ log' \in Seq(Event)
      /\ DOMAIN log' = DOMAIN log \union {Len(log) + 1}
      /\ Len(log) + 1 \notin DOMAIN log
      /\ log'[Len(log) + 1] = e
      /\ \A k \in DOMAIN log : log'[k] = log[k]
    BY <1>0, <1>1
<1>3. \A k \in Job : Prior(k)' = Prior(k)
    BY <1>1, <1>2, JobsAssumption DEF Prior
<1>4. TypeOK'
  <2>1. counts' \in [remote: 0..MaxRemote, crashes: 0..MaxCrashes]
    <3>1. MaxRemote \in Nat /\ MaxCrashes \in Nat
        BY JobsAssumption
    <3>2. counts \in [remote: 0..MaxRemote, crashes: 0..MaxCrashes]
        BY DEF JInv, TypeOK
    <3>3. counts.remote \in 0..MaxRemote /\ counts.crashes \in 0..MaxCrashes
        BY <3>2
    <3> QED
        BY <3>1, <3>2, <3>3 DEF Remote
  <2> QED
      BY <1>0, <1>2, <2>1, TypesKept DEF JInv, TypeOK, WorkerType
<1>5. OutcomeIsTrue' /\ WorkerIsTrue' /\ SavedOnce'
    BY <1>0, <1>3 DEF JInv, OutcomeIsTrue, WorkerIsTrue, SavedOnce
<1>6. SavedIsAsked'
    BY <1>0, <1>1, <1>2, JobsAssumption DEF JInv, SavedIsAsked
<1> QED
    BY <1>4, <1>5, <1>6 DEF JInv

(***************************************************************************)
(* A block, and a step that changes nothing, leave rows and catalog alone  *)
(* (CatalogStorage.ingest).                                                *)
(***************************************************************************)
LEMMA BlockKeeps ==
    ASSUME JInv, Block \/ UNCHANGED jobVars
    PROVE  JInv'
<1>1. /\ UNCHANGED <<row, log, worker, counts>> /\ blocked' \in BOOLEAN
    BY DEF JInv, TypeOK, Block, jobVars
<1>2. \A k \in Job : Prior(k)' = Prior(k)
    BY <1>1 DEF Prior
<1>3. TypeOK'
    BY <1>1, TypesKept DEF JInv, TypeOK, WorkerType
<1>4. OutcomeIsTrue' /\ WorkerIsTrue' /\ SavedOnce'
    BY <1>1, <1>2 DEF JInv, OutcomeIsTrue, WorkerIsTrue, SavedOnce
<1>5. SavedIsAsked'
    BY <1>1 DEF JInv, SavedIsAsked
<1> QED
    BY <1>3, <1>4, <1>5 DEF JInv

-----------------------------------------------------------------------------
(***************************************************************************)
(* Every step of handlers, worker, other replicas and restarts keeps them. *)
(***************************************************************************)
LEMMA StepKeepsJInv == JInv /\ [AnyJobNext]_jobVars => JInv'
<1> SUFFICES ASSUME JInv, [AnyJobNext]_jobVars PROVE JInv'
    OBVIOUS
<1>1. ASSUME NEW j \in Job, AnyRequest(j) PROVE JInv'
    BY <1>1, EnqueueKeeps
<1>2. ASSUME NEW j \in Job, Cancel(j) PROVE JInv'
    BY <1>2, CancelKeeps
<1>3. ASSUME NEW j \in Job, Run(j) PROVE JInv'
    BY <1>3, ClaimKeeps, PrepareKeeps, SaveKeeps, FinishKeeps DEF Run
<1>4. ASSUME NEW u \in Unit, NEW v \in Value, NEW i \in DOMAIN log, Remote(u, v, i) PROVE JInv'
    BY <1>4, RemoteKeeps
<1>5. CASE Crash
    BY <1>5, CrashKeeps
<1>6. CASE Block \/ UNCHANGED jobVars
    BY <1>6, BlockKeeps
<1> QED
    BY <1>1, <1>2, <1>3, <1>4, <1>5, <1>6 DEF AnyJobNext

(***************************************************************************)
(* What a commit saved is what its row asks for, and that is the review    *)
(* that still stands.                                                      *)
(***************************************************************************)
LEMMA AskedIsReviewed == SavedIsAsked => CommittedAsReviewed
    BY DEF SavedIsAsked, CommittedAsReviewed

(***************************************************************************)
(* The inductive invariant holds in every state, whatever is asked for     *)
(* (run_one).                                                              *)
(***************************************************************************)
LEMMA AnyJobInvariant == AnyJobSpec => []JInv
    BY InitJInv, StepKeepsJInv, PTL DEF AnyJobSpec

LEMMA JobStepIsAnyStep == JInv /\ [JobNext]_jobVars => [AnyJobNext]_jobVars
    BY AskIsRequest DEF JobNext, AnyJobNext

LEMMA SpecJInv == JobSpec => []JInv
    BY InitJInv, StepKeepsJInv, JobStepIsAnyStep, PTL DEF JobSpec

(***************************************************************************)
(* Whatever clients ask for, in any order, over any revisions: rows report *)
(* what happened, and a commit saved what its preview's row still shows as *)
(* the review (run_one, save_in, retry_receipt).                           *)
(***************************************************************************)
THEOREM JobsServeAnyRequest == AnyJobSpec => [](OutcomeIsTrue /\ CommittedAsReviewed)
<1>1. JInv => OutcomeIsTrue /\ CommittedAsReviewed
    BY AskedIsReviewed DEF JInv
<1> QED
    BY <1>1, AnyJobInvariant, PTL

(***************************************************************************)
(* The requests browsers make are such requests (Ask).                     *)
(***************************************************************************)
THEOREM JobsImplementAnyJobs == JobSpec => AnyJobSpec
    BY SpecJInv, JobStepIsAnyStep, PTL DEF JobSpec, AnyJobSpec

(***************************************************************************)
(* For any jobs, values, events of other replicas and restarts: a row that *)
(* reports success names the one event of its operation and a failed one   *)
(* left none (run_one, retry_receipt).                                     *)
(***************************************************************************)
THEOREM JobsReportTheTruth == JobSpec => [](TypeOK /\ OutcomeIsTrue)
<1>1. JInv => TypeOK /\ OutcomeIsTrue
    BY DEF JInv
<1> QED
    BY <1>1, SpecJInv, PTL

(***************************************************************************)
(* A commit saved the review its owner had read (commit and save_in).      *)
(***************************************************************************)
THEOREM CommitsWhatWasRead == JobSpec => []CommittedAsReviewed
<1>1. JInv => CommittedAsReviewed
    BY AskedIsReviewed DEF JInv
<1> QED
    BY <1>1, SpecJInv, PTL

-----------------------------------------------------------------------------
(* The bundle inspector over these jobs                                    *)

Requested == [op : Job \union {0}, inputs : Partial(Value), basis : Partial(SUBSET DOMAIN log)]
EditorDraft == [inputs : Partial(Value), observed : Partial(SUBSET DOMAIN log), pending : Requested,
                begun : Partial(SUBSET DOMAIN log)]

(***************************************************************************)
(* A draft, wherever it is kept, names accepted events only, its request   *)
(* has an identity, and its bases were seen.                               *)
(***************************************************************************)
SoundDraft(d) ==
    /\ d \in EditorDraft /\ DOMAIN d.observed = DOMAIN d.inputs /\ DOMAIN d.begun = DOMAIN d.inputs
    /\ d.pending # None => d.pending.op \in Job
    /\ \A u \in DOMAIN d.inputs : d.observed[u] \subseteq d.begun[u] \union Own

(***************************************************************************)
(* A save is under way only for a request that is retained, and what was   *)
(* acknowledged is an own event.                                           *)
(***************************************************************************)
EditorSound ==
    /\ \A d \in Drafts : SoundDraft(d)
    /\ entity \in [Unit -> SUBSET DOMAIN log]
    /\ call # "idle" => draft.pending # None
    /\ ack # NoAck => ack.event \in Own

(***************************************************************************)
(* An identity stands for one request, whichever drafts retain it.         *)
(***************************************************************************)
OneRequest == \A d, e \in Drafts : d.pending.op = e.pending.op => d.pending = e.pending

(***************************************************************************)
(* Whatever was queued was answered, was lost with its page, or can still  *)
(* be asked about; and the row says what the retained request says.        *)
(***************************************************************************)
RowsAreAsked ==
    \A j \in Job : row[j] # Absent =>
        /\ j \in settled \union forgone \/ \E d \in {draft} \union copies : d.pending.op = j
        /\ \A d \in Drafts : d.pending.op = j =>
                row[j].action = "save" /\ row[j].ask.value = d.pending.inputs

EditorInv == JInv /\ EditorSound /\ OneRequest /\ RowsAreAsked

(***************************************************************************)
(* The catalog only grows, and its own events stay its own.                *)
(***************************************************************************)
LEMMA LogGrows ==
    ASSUME log \in Seq(Event), log' = log \/ \E e : log' = Append(log, e)
    PROVE  DOMAIN log \subseteq DOMAIN log' /\ Own \subseteq Own'
<1>1. DOMAIN log = 1..Len(log) /\ Len(log) \in Nat
    OBVIOUS
<1>2. CASE \E e : log' = Append(log, e)
  <2>1. PICK e : log' = Append(log, e)
      BY <1>2
  <2>2. DOMAIN log' = 1..(Len(log) + 1) /\ \A i \in 1..Len(log) : log'[i] = log[i]
      BY <2>1
  <2> QED
      BY <1>1, <2>2 DEF Own
<1> QED
    BY <1>2 DEF Own

LEMMA BasesGrow ==
    ASSUME DOMAIN log \subseteq DOMAIN log'
    PROVE  Partial(SUBSET DOMAIN log) \subseteq Partial(SUBSET DOMAIN log)' /\ EditorDraft \subseteq EditorDraft'
<1>1. Partial(SUBSET DOMAIN log) \subseteq Partial(SUBSET DOMAIN log)'
  <2> SUFFICES ASSUME NEW f \in Partial(SUBSET DOMAIN log)
               PROVE  f \in Partial(SUBSET DOMAIN log')
      BY DEF Partial
  <2>1. DOMAIN f \in SUBSET Unit /\ f \in [DOMAIN f -> SUBSET DOMAIN log]
      BY PartialElim
  <2>2. f \in [DOMAIN f -> SUBSET DOMAIN log']
      BY <2>1
  <2> QED
      BY <2>1, <2>2, PartialIntro
<1>2. Partial(Value)' = Partial(Value)
    BY DEF Partial
<1> QED
    BY <1>1, <1>2 DEF EditorDraft, Requested

(***************************************************************************)
(* A step of the server or of another computer: rows go on and are still   *)
(* what was asked, and the editor is not involved.                         *)
(***************************************************************************)
LEMMA RowsGoOn ==
    ASSUME JInv, NEW j \in Job, Cancel(j) \/ Run(j)
    PROVE  /\ \A k \in Job : row'[k] # Absent =>
                row[k] # Absent /\ row'[k].action = row[k].action /\ row'[k].ask = row[k].ask
           /\ log' = log \/ \E e : log' = Append(log, e)
<1>1. row \in [Job -> Row] /\ row[j] \in Row /\ (worker.op = j => row[j].state = "running")
    BY DEF JInv, TypeOK
<1>2. CASE row' = row
    BY <1>2 DEF Cancel, Run, Claim, Prepare, Save, Finish
<1>3. CASE Cancel(j) \/ Claim(j) \/ Finish(j)
  <2>1. row[j].state \in {"queued", "running"} /\ UNCHANGED log
      BY <1>1, <1>3 DEF Cancel, Claim, Finish, At
  <2>2. row[j] # Absent
      BY <2>1 DEF Absent
  <2>3. \A k \in Job : row'[k].action = row[k].action /\ row'[k].ask = row[k].ask /\ (k # j => row'[k] = row[k])
      BY <1>1, <1>3 DEF Cancel, Claim, Finish, Row
  <2> QED
      BY <2>1, <2>2, <2>3
<1> QED
    BY <1>2, <1>3 DEF Run, Prepare, Save

LEMMA ServerStepKeeps ==
    ASSUME EditorInv, ServerStep
    PROVE  EditorInv'
<1>1. JInv'
    BY CancelKeeps, ClaimKeeps, PrepareKeeps, SaveKeeps, FinishKeeps, RemoteKeeps DEF EditorInv, ServerStep, Run
<1>2. /\ \A k \in Job : row'[k] # Absent =>
            row[k] # Absent /\ row'[k].action = row[k].action /\ row'[k].ask = row[k].ask
      /\ log' = log \/ \E e : log' = Append(log, e)
      /\ UNCHANGED <<entity, draft, ack, call, written, delivered, copies, settled, forgone>>
  <2>1. CASE \E j \in Job : Cancel(j) \/ Run(j)
      BY <2>1, RowsGoOn DEF EditorInv, ServerStep, draftVars
  <2>2. CASE \E u \in Unit, v \in Value \ {Seed}, i \in DOMAIN log : Remote(u, v, i)
      BY <2>2 DEF ServerStep, draftVars, Remote
  <2> QED
      BY <2>1, <2>2 DEF ServerStep
<1>3. DOMAIN log \subseteq DOMAIN log' /\ Own \subseteq Own' /\ Drafts' = Drafts
    BY <1>2, LogGrows DEF EditorInv, JInv, TypeOK, Drafts
<1>4. EditorSound'
  <2>1. \A d \in Drafts' : SoundDraft(d)'
      BY <1>3, BasesGrow DEF EditorInv, EditorSound, SoundDraft
  <2>2. entity' \in [Unit -> SUBSET DOMAIN log']
      BY <1>2, <1>3 DEF EditorInv, EditorSound
  <2> QED
      BY <1>2, <1>3, <2>1, <2>2 DEF EditorInv, EditorSound
<1>5. OneRequest'
    BY <1>3 DEF EditorInv, OneRequest
<1>6. RowsAreAsked'
    BY <1>2, <1>3 DEF EditorInv, RowsAreAsked
<1> QED
    BY <1>1, <1>4, <1>5, <1>6 DEF EditorInv

(***************************************************************************)
(* A step of the page: at most one draft is new, its request is an old one *)
(* or has a fresh identity, and a request that leaves the page is settled, *)
(* forgone or on offer.                                                    *)
(***************************************************************************)
LEMMA EditorPageKeeps ==
    ASSUME EditorInv, UNCHANGED <<row, log, blocked, worker, counts>>,
           NEW d, SoundDraft(d), Drafts' \subseteq Drafts \union {d},
           \/ \E e \in Drafts : d.pending = e.pending
           \/ d.pending = None
           \/ d.pending.op \in FreshJob,
           entity' \in [Unit -> SUBSET DOMAIN log],
           call' # "idle" => draft'.pending # None,
           ack' # NoAck => ack'.event \in Own,
           settled \subseteq settled', forgone \subseteq forgone', copies \subseteq copies',
           draft.pending.op \in Job /\ row[draft.pending.op] # Absent =>
               \/ draft.pending.op \in settled' \union forgone'
               \/ \E e \in {draft'} \union copies' : e.pending.op = draft.pending.op
    PROVE  EditorInv'
<1>1. JInv'
    BY BlockKeeps DEF EditorInv, jobVars
<1>2. EditorDraft' = EditorDraft /\ Own' = Own
    BY DEF EditorDraft, Requested, Partial, Own
<1>3. \A e : SoundDraft(e) => SoundDraft(e)'
    BY <1>2 DEF SoundDraft
<1>4. EditorSound'
    BY <1>2, <1>3 DEF EditorInv, EditorSound
<1>5. None.op = 0 /\ 0 \notin Job
    BY JobsAssumption DEF None
<1>6. \A e \in Drafts : e.pending.op \notin Job => e.pending = None
    BY DEF EditorInv, EditorSound, SoundDraft
<1>7. \A e \in Drafts : d.pending.op = e.pending.op => d.pending = e.pending
  <2>1. CASE d.pending = None
      BY <1>5, <1>6, <2>1
  <2>2. CASE d.pending.op \in FreshJob
      BY <2>2 DEF FreshJob
  <2> QED
      BY <2>1, <2>2 DEF EditorInv, OneRequest
<1>8. OneRequest'
    BY <1>7 DEF EditorInv, OneRequest
<1>9. \A j \in Job : row[j] # Absent /\ d.pending.op = j =>
          row[j].action = "save" /\ row[j].ask.value = d.pending.inputs
    BY <1>5 DEF EditorInv, RowsAreAsked, FreshJob
<1>10. RowsAreAsked'
    BY <1>9 DEF EditorInv, RowsAreAsked
<1> QED
    BY <1>1, <1>4, <1>8, <1>10 DEF EditorInv

LEMMA EmptyIsSound == SoundDraft(Empty) /\ None \in Requested
<1>1. \A S : <<>> \in [{} -> S] /\ DOMAIN <<>> = {}
    OBVIOUS
<1>2. \A S : <<>> \in Partial(S)
    BY <1>1 DEF Partial
<1>3. None \in Requested
    BY <1>2 DEF None, Requested
<1> QED
    BY <1>1, <1>2, <1>3 DEF SoundDraft, Empty, EditorDraft

\* where a draft may be kept after the page went on with it
LEMMA PersistsInDrafts ==
    ASSUME NEW d, NEW n, Persist(d, n)
    PROVE  Drafts' \subseteq Drafts \union {d} /\ draft' = d /\ copies' = copies
BY DEF Persist, Drafts

(***************************************************************************)
(* What the owner types.                                                   *)
(***************************************************************************)
LEMMA DraftParts ==
    ASSUME EditorInv, NEW d \in Drafts
    PROVE  /\ DOMAIN d.inputs \subseteq Unit /\ d.inputs \in [DOMAIN d.inputs -> Value]
           /\ d.observed \in [DOMAIN d.inputs -> SUBSET DOMAIN log]
           /\ d.begun \in [DOMAIN d.inputs -> SUBSET DOMAIN log] /\ d.pending \in Requested
           /\ d \in EditorDraft /\ SoundDraft(d)
<1>1. d.inputs \in Partial(Value) /\ d.observed \in Partial(SUBSET DOMAIN log)
      /\ d.begun \in Partial(SUBSET DOMAIN log) /\ d.pending \in Requested /\ SoundDraft(d)
      /\ d \in EditorDraft
    BY DEF EditorInv, EditorSound, SoundDraft, EditorDraft
<1>2. DOMAIN d.observed = DOMAIN d.inputs /\ DOMAIN d.begun = DOMAIN d.inputs
    BY <1>1 DEF SoundDraft
<1> QED
    BY <1>1, <1>2, PartialElim

LEMMA PageDraft ==
    ASSUME EditorInv
    PROVE  /\ draft \in Drafts /\ draft \in EditorDraft /\ SoundDraft(draft)
           /\ Typed \subseteq Unit /\ draft.inputs \in [Typed -> Value]
           /\ draft.observed \in [Typed -> SUBSET DOMAIN log]
           /\ draft.begun \in [Typed -> SUBSET DOMAIN log] /\ draft.pending \in Requested
           /\ entity \in [Unit -> SUBSET DOMAIN log]
BY DraftParts DEF EditorInv, EditorSound, Typed, Drafts

LEMMA TypeKeeps ==
    ASSUME EditorInv, NEW u \in Unit, NEW v \in Value, Type(u, v)
    PROVE  EditorInv'
<1> DEFINE units == Typed \union {u}
           inputs == [w \in units |-> IF w = u THEN v ELSE draft.inputs[w]]
           observed == [w \in units |-> Basis(w)]
           begun == [w \in units |-> IF w \in Typed THEN draft.begun[w] ELSE entity[w]]
<1>1. PICK d : d = [draft EXCEPT !.inputs = inputs, !.observed = observed, !.begun = begun]
    OBVIOUS
<1>2. /\ UNCHANGED <<row, log, blocked, worker, counts, entity, ack, call, settled, forgone>>
      /\ Persist(d, 1)
    BY <1>1 DEF Type, jobVars
<1>3. units \subseteq Unit /\ inputs \in [units -> Value]
    BY PageDraft
<1>4. \A w \in units : \/ Basis(w) = {ack.event} /\ ack.event \in Own
                       \/ w \in Typed /\ Basis(w) = draft.observed[w]
                       \/ w \notin Typed /\ Basis(w) = entity[w]
  <2>1. ack = NoAck => DOMAIN ack.basis = {}
      BY DEF NoAck
  <2> QED
      BY <2>1 DEF Basis, Begun, EditorInv, EditorSound
<1>5. observed \in [units -> SUBSET DOMAIN log]
    BY <1>3, <1>4, PageDraft DEF Own
<1>6. begun \in [units -> SUBSET DOMAIN log]
    BY <1>3, PageDraft
<1>7. /\ inputs \in Partial(Value) /\ observed \in Partial(SUBSET DOMAIN log)
      /\ begun \in Partial(SUBSET DOMAIN log)
    BY <1>3, <1>5, <1>6, PartialIntro
<1>8. \A w \in units : observed[w] \subseteq begun[w] \union Own
    BY <1>4, PageDraft DEF SoundDraft, Typed
<1>9. DOMAIN inputs = units /\ DOMAIN observed = units /\ DOMAIN begun = units
    OBVIOUS
<1> HIDE DEF inputs, observed, begun
<1>10. /\ d \in EditorDraft /\ d.inputs = inputs /\ d.observed = observed /\ d.begun = begun
       /\ d.pending = draft.pending
    BY <1>1, <1>7, PageDraft DEF EditorDraft
<1>11. SoundDraft(d)
    BY <1>8, <1>9, <1>10, PageDraft DEF SoundDraft
<1>12. /\ Drafts' \subseteq Drafts \union {d} /\ draft' = d /\ copies' = copies
       /\ draft'.pending = draft.pending
    BY <1>2, <1>10, PersistsInDrafts
<1>13. /\ entity' \in [Unit -> SUBSET DOMAIN log]
       /\ call' # "idle" => draft'.pending # None
       /\ ack' # NoAck => ack'.event \in Own
    BY <1>2, <1>12 DEF EditorInv, EditorSound
<1> QED
    BY <1>2, <1>10, <1>11, <1>12, <1>13, PageDraft, EditorPageKeeps

(***************************************************************************)
(* Saving: the request is retained, sent, and answered about once.         *)
(***************************************************************************)
LEMMA AskingKeeps ==
    ASSUME EditorInv, Request \/ Retry
    PROVE  EditorInv'
<1>1. UNCHANGED <<row, log, blocked, worker, counts, entity, ack, settled, forgone>> /\ call' = "post"
    BY DEF Request, Retry, jobVars
<1>2. entity' \in [Unit -> SUBSET DOMAIN log] /\ (ack' # NoAck => ack'.event \in Own)
    BY <1>1 DEF EditorInv, EditorSound
<1>3. CASE Retry
  <2>1. Drafts' = Drafts /\ draft' = draft /\ copies' = copies /\ draft.pending # None
      BY <1>3 DEF Retry, keptVars, Drafts
  <2> QED
      BY <1>1, <1>2, <2>1, PageDraft, EditorPageKeeps
<1>4. CASE Request
  <2>1. PICK j \in FreshJob : Persist([draft EXCEPT !.pending =
            [op |-> j, inputs |-> draft.inputs, basis |-> draft.observed]], 0)
      BY <1>4 DEF Request
  <2>2. PICK p : p = [op |-> j, inputs |-> draft.inputs, basis |-> draft.observed]
      OBVIOUS
  <2>3. PICK d : d = [draft EXCEPT !.pending = p]
      OBVIOUS
  <2>4. j \in Job /\ draft.pending = None /\ j # 0
      BY <1>4, JobsAssumption DEF Request, FreshJob
  <2>5. p \in Requested /\ p.op = j
      BY <2>2, <2>4, PageDraft DEF Requested, EditorDraft
  <2>6. p # None
      BY <2>4, <2>5 DEF None
  <2>7. /\ d \in EditorDraft /\ d.pending = p /\ d.inputs = draft.inputs
        /\ d.observed = draft.observed /\ d.begun = draft.begun
      BY <2>3, <2>5, PageDraft DEF EditorDraft
  <2>8. SoundDraft(d)
      BY <2>4, <2>5, <2>7, PageDraft DEF SoundDraft
  <2>9. Drafts' \subseteq Drafts \union {d} /\ draft' = d /\ copies' = copies
      BY <2>1, <2>2, <2>3, PersistsInDrafts
  <2>10. draft.pending.op \notin Job
      BY <2>4, JobsAssumption DEF None
  <2> QED
      BY <1>1, <1>2, <2>5, <2>6, <2>7, <2>8, <2>9, <2>10, EditorPageKeeps
<1> QED
    BY <1>3, <1>4

LEMMA PostKeeps ==
    ASSUME EditorInv, Post
    PROVE  EditorInv'
<1>0. PICK p : p = draft.pending
    OBVIOUS
<1>1. /\ UNCHANGED <<log, blocked, worker, counts, entity, draft, ack, settled, forgone, copies>>
      /\ Drafts' = Drafts /\ call' = "wait"
    BY DEF Post, Enqueue, jobVars, keptVars, Drafts
<1>2. p \in Requested /\ p # None /\ p.op \in Job /\ JInv
    BY <1>0, PageDraft DEF Post, EditorInv, EditorSound, SoundDraft
<1>3. EditorDraft' = EditorDraft /\ Own' = Own
    BY <1>1 DEF EditorDraft, Requested, Partial, Own
<1>4. EditorSound' /\ OneRequest'
    BY <1>0, <1>1, <1>2, <1>3 DEF EditorInv, EditorSound, OneRequest, SoundDraft
<1>5. CASE UNCHANGED jobVars
  <2>1. JInv'
      BY <1>2, <1>5, BlockKeeps
  <2>2. RowsAreAsked'
      BY <1>1, <1>5 DEF EditorInv, RowsAreAsked, jobVars
  <2> QED
      BY <1>4, <2>1, <2>2 DEF EditorInv
<1>6. CASE Enqueue(p.op, "save", 0, [value |-> p.inputs, basis |-> p.basis, resolve |-> FALSE])
  <2> DEFINE ask == [value |-> p.inputs, basis |-> p.basis, resolve |-> FALSE]
             r == [Absent EXCEPT !.state = "queued", !.action = "save", !.of = 0, !.ask = ask]
  <2>1. ask \in Change /\ ask.value = p.inputs
      BY <1>2 DEF Change, Requested
  <2>2. row[p.op] = Absent /\ row' = [row EXCEPT ![p.op] = r]
      BY <1>6 DEF Enqueue
  <2> HIDE DEF ask
  <2>3. r \in Row /\ r.state = "queued" /\ r.action = "save" /\ r.ask = ask
      BY <2>1, NoChangeIsChange DEF Row, Absent, State
  <2> HIDE DEF r
  <2>4. JInv'
      BY <1>1, <1>2, <2>2, <2>3, RequestKeeps
  <2>5. row \in [Job -> Row]
      BY <1>2 DEF JInv, TypeOK
  <2>6. \A d \in Drafts : d.pending.op = p.op => d.pending.inputs = p.inputs
      BY <1>0, PageDraft DEF EditorInv, OneRequest
  <2>7. \A j \in Job : row'[j] = IF j = p.op THEN r ELSE row[j]
      BY <2>2, <2>5
  <2>8. RowsAreAsked'
      BY <1>0, <1>1, <2>1, <2>3, <2>6, <2>7 DEF EditorInv, RowsAreAsked
  <2> QED
      BY <1>4, <2>4, <2>8 DEF EditorInv
<1> QED
    BY <1>0, <1>5, <1>6 DEF Post

\* the event a succeeded request names holds what the request asked for
LEMMA SucceededHolds ==
    ASSUME EditorInv, Succeed
    PROVE  LET p == draft.pending IN
           /\ p.op \in Job /\ row[p.op].event \in Own
           /\ log[row[p.op].event].op = p.op
           /\ log[row[p.op].event].value = p.inputs
<1>0. PICK j : j = draft.pending.op
    OBVIOUS
<1>1. j \in Job /\ row[j].state = "succeeded"
    BY <1>0, PageDraft DEF EditorInv, EditorSound, SoundDraft, Succeed
<1>2. row[j] # Absent
    BY <1>1 DEF Absent
<1>3. row[j].action = "save" /\ row[j].ask.value = draft.pending.inputs
    BY <1>0, <1>1, <1>2, PageDraft DEF EditorInv, RowsAreAsked
<1>4. Prior(j) = {row[j].event}
    BY <1>1, <1>3 DEF EditorInv, JInv, OutcomeIsTrue
<1>5. row[j].event \in DOMAIN log /\ log[row[j].event].op = j
    BY <1>4 DEF Prior
<1>6. log[row[j].event].value = row[j].ask.value
    BY <1>1, <1>5 DEF EditorInv, JInv, SavedIsAsked
<1>7. row[j].event \in Own
    BY <1>1, <1>5, JobsAssumption DEF Own
<1> QED
    BY <1>0, <1>1, <1>3, <1>5, <1>6, <1>7

LEMMA SucceedKeeps ==
    ASSUME EditorInv, Succeed
    PROVE  EditorInv'
<1>0. PICK p, e, rest : p = draft.pending /\ e = row[p.op].event /\ rest = Remaining(p)
    OBVIOUS
<1> DEFINE observed == [u \in DOMAIN rest |-> Advanced(p, e, u)]
           begun == [u \in DOMAIN rest |-> draft.begun[u]]
<1>1. PICK d : d = [inputs |-> rest, observed |-> observed, pending |-> None, begun |-> begun]
    OBVIOUS
<1>2. /\ UNCHANGED <<row, log, blocked, worker, counts, entity, forgone>> /\ call' = "idle"
      /\ Persist(d, 0)
      /\ ack' = [basis |-> p.basis, event |-> e] /\ settled' = settled \union {p.op}
    BY <1>0, <1>1 DEF Succeed, jobVars
<1>3. e \in Own /\ e \in DOMAIN log /\ ack'.event = e
    BY <1>0, <1>2, SucceededHolds DEF Own
<1>4. DOMAIN rest \subseteq Typed /\ rest \in [DOMAIN rest -> Value]
    BY <1>0, PageDraft DEF Remaining
<1>5. \A u \in DOMAIN rest : observed[u] = {e} \/ observed[u] = draft.observed[u]
    BY DEF Advanced
<1>6. /\ observed \in [DOMAIN rest -> SUBSET DOMAIN log]
      /\ begun \in [DOMAIN rest -> SUBSET DOMAIN log]
    BY <1>3, <1>4, <1>5, PageDraft
<1>7. /\ rest \in Partial(Value) /\ observed \in Partial(SUBSET DOMAIN log)
      /\ begun \in Partial(SUBSET DOMAIN log)
    BY <1>4, <1>6, PageDraft, PartialIntro
<1>8. \A u \in DOMAIN rest : observed[u] \subseteq begun[u] \union Own
    BY <1>3, <1>4, <1>5, PageDraft DEF SoundDraft, Typed
<1>9. DOMAIN observed = DOMAIN rest /\ DOMAIN begun = DOMAIN rest
    OBVIOUS
<1> HIDE DEF observed, begun
<1>10. /\ d \in EditorDraft /\ d.inputs = rest /\ d.observed = observed /\ d.begun = begun
       /\ d.pending = None
    BY <1>1, <1>7, EmptyIsSound DEF EditorDraft
<1>11. SoundDraft(d)
    BY <1>8, <1>9, <1>10 DEF SoundDraft
<1>12. Drafts' \subseteq Drafts \union {d} /\ draft' = d /\ copies' = copies
    BY <1>2, PersistsInDrafts
<1>13. entity' \in [Unit -> SUBSET DOMAIN log] /\ ack'.event \in Own
    BY <1>2, <1>3, PageDraft
<1>14. settled \subseteq settled' /\ draft.pending.op \in settled'
    BY <1>0, <1>2
<1> QED
    BY <1>2, <1>10, <1>11, <1>12, <1>13, <1>14, EditorPageKeeps

LEMMA FailKeeps ==
    ASSUME EditorInv, Fail
    PROVE  EditorInv'
<1>1. PICK d : d = [draft EXCEPT !.pending = None]
    OBVIOUS
<1>2. /\ UNCHANGED <<row, log, blocked, worker, counts, entity, ack, forgone>> /\ call' = "idle"
      /\ Persist(d, 0)
      /\ settled' = settled \union {draft.pending.op}
    BY <1>1 DEF Fail, jobVars, RefusedDraft
<1>3. /\ d \in EditorDraft /\ d.inputs = draft.inputs /\ d.observed = draft.observed
      /\ d.begun = draft.begun /\ d.pending = None
    BY <1>1, EmptyIsSound, PageDraft DEF EditorDraft
<1>4. SoundDraft(d)
    BY <1>3, PageDraft DEF SoundDraft
<1>5. Drafts' \subseteq Drafts \union {d} /\ draft' = d /\ copies' = copies
    BY <1>2, PersistsInDrafts
<1>6. entity' \in [Unit -> SUBSET DOMAIN log] /\ (ack' # NoAck => ack'.event \in Own)
    BY <1>2 DEF EditorInv, EditorSound
<1>7. settled \subseteq settled' /\ draft.pending.op \in settled'
    BY <1>2
<1> QED
    BY <1>2, <1>3, <1>4, <1>5, <1>6, <1>7, EditorPageKeeps

(***************************************************************************)
(* A request that is given up stays retained; what is read again are the   *)
(* tips of the moment; a page starts over with a draft that was kept; a    *)
(* draft is discarded or replaced only when nothing is asked.              *)
(***************************************************************************)
LEMMA AroundKeeps ==
    ASSUME EditorInv,
           \/ GiveUp \/ Refresh \/ DeliverDraft \/ Reload \/ Reopen \/ DiscardDraft
           \/ \E c \in copies : RecoverCopy(c)
           \/ UNCHANGED inspectorVars
    PROVE  EditorInv'
<1>1. UNCHANGED <<row, log, blocked, worker, counts, settled>> /\ forgone \subseteq forgone'
    BY DEF GiveUp, Refresh, DeliverDraft, Reload, Reopen, StartWith, DiscardDraft, RecoverCopy,
           inspectorVars, draftVars, jobVars
<1>2. [u \in Unit |-> Tips(u)] \in [Unit -> SUBSET DOMAIN log]
    BY DEF Tips, On
<1>3. entity \in [Unit -> SUBSET DOMAIN log] /\ (ack # NoAck => ack.event \in Own)
      /\ (call # "idle" => draft.pending # None) /\ draft \in Drafts
    BY DEF EditorInv, EditorSound, Drafts
<1>4. CASE GiveUp \/ Refresh \/ DeliverDraft \/ UNCHANGED inspectorVars
  <2>1. /\ entity' \in {entity, [u \in Unit |-> Tips(u)]} /\ ack' = ack /\ call' \in {call, "idle"}
        /\ draft' = draft /\ copies' = copies /\ Drafts' \subseteq Drafts
      BY <1>4 DEF GiveUp, Refresh, DeliverDraft, inspectorVars, draftVars, keptVars, Drafts
  <2> QED
      BY <1>1, <1>2, <1>3, <2>1, PageDraft, EditorPageKeeps
<1>5. CASE Reload
  <2>1. /\ entity' = [u \in Unit |-> Tips(u)] /\ ack' = NoAck /\ call' = "idle"
        /\ draft' = written /\ copies' = copies /\ Drafts' \subseteq Drafts
      BY <1>5 DEF Reload, StartWith, keptVars, Drafts
  <2>2. draft.pending.op \in Job /\ row[draft.pending.op] # Absent =>
            \/ draft.pending.op \in settled' \union forgone'
            \/ \E e \in {draft'} \union copies' : e.pending.op = draft.pending.op
      BY <1>5, <2>1 DEF Reload, StartWith
  <2> QED
      BY <1>1, <1>2, <1>3, <2>1, <2>2, PageDraft, EditorPageKeeps
<1>6. CASE Reopen
  <2>1. /\ entity' = [u \in Unit |-> Tips(u)] /\ ack' = NoAck /\ call' = "idle"
        /\ draft' = Empty /\ copies \subseteq copies' /\ Drafts' \subseteq Drafts \union {Empty}
      BY <1>6 DEF Reopen, StartWith, Drafts
  <2>2. draft.pending.op \in Job /\ row[draft.pending.op] # Absent =>
            \/ draft.pending.op \in settled' \union forgone'
            \/ \E e \in {draft'} \union copies' : e.pending.op = draft.pending.op
      BY <1>6, <2>1 DEF Reopen, StartWith
  <2>3. SoundDraft(Empty) /\ Empty.pending = None
      BY EmptyIsSound DEF Empty
  <2> QED
      BY <1>1, <1>2, <1>3, <2>1, <2>2, <2>3, EditorPageKeeps
<1>7. CASE DiscardDraft
  <2>1. /\ UNCHANGED <<entity, ack, call>> /\ draft.pending = None /\ copies' = copies
        /\ Drafts' \subseteq Drafts \union {Empty}
      BY <1>7 DEF DiscardDraft, Drafts
  <2>2. call' = "idle"
      BY <1>3, <2>1 DEF EditorInv, EditorSound
  <2>3. SoundDraft(Empty) /\ Empty.pending = None /\ draft.pending.op \notin Job
      BY <2>1, EmptyIsSound, JobsAssumption DEF Empty, None
  <2> QED
      BY <1>1, <1>3, <2>1, <2>2, <2>3, EditorPageKeeps
<1>8. CASE \E c \in copies : RecoverCopy(c)
  <2>1. PICK c \in copies : RecoverCopy(c)
      BY <1>8
  <2>2. c \in Drafts /\ SoundDraft(c)
      BY DEF EditorInv, EditorSound, Drafts
  <2>3. /\ UNCHANGED <<entity, ack, call>> /\ call = "idle" /\ draft.pending = None
        /\ Persist(c, 0)
      BY <2>1 DEF RecoverCopy
  <2>4. Drafts' \subseteq Drafts \union {c} /\ copies' = copies
      BY <2>3, PersistsInDrafts
  <2>5. draft.pending.op \notin Job
      BY <2>3, JobsAssumption DEF None
  <2> QED
      BY <1>1, <1>3, <2>2, <2>3, <2>4, <2>5, EditorPageKeeps
<1> QED
    BY <1>4, <1>5, <1>6, <1>7, <1>8

LEMMA InspectorInitInv == InspectorInit => EditorInv
<1> SUFFICES ASSUME InspectorInit
             PROVE  EditorInv
    OBVIOUS
<1>1. JInv
    BY InitJInv DEF InspectorInit
<1>2. Drafts = {Empty} /\ draft = Empty
    BY DEF InspectorInit, Drafts
<1>3. entity \in [Unit -> SUBSET DOMAIN log]
    BY DEF InspectorInit, Tips, On
<1>4. EditorSound
    BY <1>2, <1>3, EmptyIsSound DEF InspectorInit, EditorSound
<1>5. OneRequest
    BY <1>2 DEF OneRequest
<1>6. RowsAreAsked
    BY DEF InspectorInit, JobInit, RowsAreAsked
<1> QED
    BY <1>1, <1>4, <1>5, <1>6 DEF EditorInv

LEMMA EditorInvariant == InspectorSpec => []EditorInv
<1>1. EditorInv /\ [InspectorNext]_inspectorVars => EditorInv'
    BY TypeKeeps, AskingKeeps, PostKeeps, SucceedKeeps, FailKeeps, AroundKeeps, ServerStepKeeps
       DEF InspectorNext, Inspector
<1> QED
    BY <1>1, InspectorInitInv, PTL DEF InspectorSpec

(***************************************************************************)
(* For any units, values, saves, retained drafts and edits of others: an   *)
(* input is saved over what was on show when it was begun or over the      *)
(* editor's own saves, wherever the draft was kept in between; and every   *)
(* own event is one the editor was answered about, asks about or can       *)
(* recover, unless the page that asked was left with a draft that was not  *)
(* kept (useCatalogBundleDraft: change, save, discard, recover).           *)
(***************************************************************************)
THEOREM EditorKnowsItsSaves == InspectorSpec => []SavesAreKnown
<1>1. EditorInv => NoHiddenSave
  <2> SUFFICES ASSUME EditorInv, NEW i \in Own
               PROVE  \/ log[i].op \in settled \union forgone
                      \/ \E d \in {draft} \union copies : d.pending.op = log[i].op
      BY DEF NoHiddenSave
  <2>1. i \in DOMAIN log /\ log[i].op # 0
      BY DEF Own
  <2>2. log \in Seq(Event)
      BY DEF EditorInv, JInv, TypeOK
  <2>3. log[i] \in Event
      BY <2>1, <2>2
  <2>4. log[i].op \in Job
      BY <2>1, <2>3 DEF Event
  <2>5. row[log[i].op] # Absent
      BY <2>1, <2>4 DEF EditorInv, JInv, SavedIsAsked
  <2> QED
      BY <2>4, <2>5 DEF EditorInv, RowsAreAsked
<1>2. EditorInv => BasesWereSeen
    BY PageDraft DEF BasesWereSeen, SoundDraft, Typed
<1>3. EditorInv => SavesAreKnown
    BY <1>1, <1>2 DEF SavesAreKnown
<1> QED
    BY <1>3, EditorInvariant, PTL

(***************************************************************************)
(* For any units, values, saves, retained drafts and edits of others: a    *)
(* typed input stays as it is unless its owner types over it, discards it  *)
(* or recovers another draft; the request that is answered saved exactly   *)
(* it; the draft it is in is on offer for recovery; or the page is left    *)
(* and this draft was not kept (useCatalogBundleDraft: change, save,       *)
(* discard, recover).                                                      *)
(***************************************************************************)
THEOREM TypedInputIsKept == InspectorSpec => InputKept
<1> DEFINE Left(u) ==
               \/ u \in DOMAIN draft'.inputs /\ draft'.inputs[u] = draft.inputs[u]
               \/ (\E v \in Value : Type(u, v)) \/ DiscardDraft \/ (\E c \in copies : RecoverCopy(c))
               \/ Succeed /\ SavedAsTyped(u)
               \/ Reload /\ written # draft
               \/ Reopen /\ (draft \in copies' \/ delivered # draft)
           Kept == \A u \in Typed : Left(u)
<1>1. ASSUME EditorInv, Succeed, NEW u \in Typed
      PROVE  Left(u)
  <2>0. PICK p : p = draft.pending
      OBVIOUS
  <2>1. draft'.inputs = Remaining(p)
      BY <1>1, <2>0 DEF Succeed, Persist
  <2>2. CASE u \in DOMAIN p.inputs /\ draft.inputs[u] = p.inputs[u]
    <3>1. SavedAsTyped(u)
        BY <1>1, <2>0, <2>2, SucceededHolds DEF SavedAsTyped
    <3> QED
        BY <1>1, <3>1
  <2>3. CASE u \in DOMAIN p.inputs => draft.inputs[u] # p.inputs[u]
    <3>1. u \in DOMAIN draft'.inputs /\ draft'.inputs[u] = draft.inputs[u]
        BY <2>1, <2>3 DEF Remaining
    <3> QED
        BY <3>1
  <2> QED
      BY <2>2, <2>3
<1>2. ASSUME EditorInv, NEW w \in Unit, NEW v \in Value, Type(w, v), NEW u \in Typed
      PROVE  Left(u)
  <2>1. CASE u = w
      BY <1>2, <2>1
  <2>2. CASE u # w
    <3>1. draft'.inputs = [x \in Typed \union {w} |-> IF x = w THEN v ELSE draft.inputs[x]]
        BY <1>2, PageDraft DEF Type, Persist, EditorDraft
    <3>2. u \in DOMAIN draft'.inputs /\ draft'.inputs[u] = draft.inputs[u]
        BY <2>2, <3>1
    <3> QED
        BY <3>2
  <2> QED
      BY <2>1, <2>2
<1>3. ASSUME EditorInv, NEW u \in Typed, Request \/ Fail
      PROVE  Left(u)
  <2>1. draft'.inputs = draft.inputs
      BY <1>3, PageDraft DEF Request, Fail, RefusedDraft, Persist, EditorDraft
  <2> QED
      BY <2>1 DEF Typed
<1>4. ASSUME EditorInv, NEW u \in Typed, Retry \/ Post \/ GiveUp \/ Refresh \/ DeliverDraft \/ ServerStep
      PROVE  Left(u)
  <2>1. draft' = draft
      BY <1>4 DEF Retry, Post, GiveUp, Refresh, DeliverDraft, ServerStep, draftVars
  <2> QED
      BY <2>1 DEF Typed
<1>5. ASSUME EditorInv, NEW u \in Typed, Reload
      PROVE  Left(u)
  <2>1. draft' = written
      BY <1>5 DEF Reload, StartWith
  <2>2. CASE written = draft
      BY <2>1, <2>2 DEF Typed
  <2>3. CASE written # draft
      BY <1>5, <2>3
  <2> QED
      BY <2>2, <2>3
<1>6. ASSUME EditorInv, NEW u \in Typed, Reopen
      PROVE  Left(u)
  <2>1. CASE delivered = draft
    <3>1. draft.inputs # <<>>
        BY DEF Typed
    <3>2. draft \in copies'
        BY <1>6, <2>1, <3>1 DEF Reopen, Offered
    <3> QED
        BY <1>6, <3>2
  <2>2. CASE delivered # draft
      BY <1>6, <2>2
  <2> QED
      BY <2>1, <2>2
<1>7. ASSUME EditorInv, InspectorNext, NEW u \in Typed
      PROVE  Left(u)
  <2>1. CASE DiscardDraft \/ \E c \in copies : RecoverCopy(c)
      BY <2>1
  <2> HIDE DEF Left
  <2> QED
      BY <1>1, <1>2, <1>3, <1>4, <1>5, <1>6, <1>7, <2>1 DEF InspectorNext, Inspector
<1>8. EditorInv /\ [InspectorNext]_inspectorVars => [Kept]_inspectorVars
  <2> HIDE DEF Left
  <2> QED
      BY <1>7
<1> QED
    BY <1>8, EditorInvariant, PTL DEF InspectorSpec, InputKept

(***************************************************************************)
(* The histories name known operations only, and a save that is under way  *)
(* was posted or is waited for.                                            *)
(***************************************************************************)
EditorForms ==
    /\ UNION {settled, forgone} \subseteq Job
    /\ call \in {"idle", "post", "wait"}
    /\ uses \in 0..MaxUses

LEMMA EditorFormsStay ==
    ASSUME EditorInv, EditorForms, [InspectorNext]_inspectorVars
    PROVE  EditorForms'
<1>1. /\ draft.pending # None => draft.pending.op \in Job
      /\ call # "idle" => draft.pending # None
    BY PageDraft DEF EditorInv, EditorSound, SoundDraft
<1>10. counts.remote \in Nat
  <2>1. counts \in [remote: 0..MaxRemote, crashes: 0..MaxCrashes]
      BY DEF EditorInv, JInv, TypeOK
  <2> QED
      BY <2>1
<1>2. \A d, n : n \in {0, 1} /\ Persist(d, n) => uses' \in 0..MaxUses
    BY <1>10, EditorAssumption DEF EditorForms, Persist
<1>3. CASE \E u \in Unit, v \in Value : Type(u, v)
    BY <1>2, <1>3 DEF Type, EditorForms
<1>4. CASE Request \/ \E c \in copies : RecoverCopy(c)
    BY <1>2, <1>4 DEF Request, RecoverCopy, EditorForms
<1>5. CASE Retry \/ Post \/ GiveUp \/ Refresh \/ DeliverDraft \/ DiscardDraft \/ ServerStep
    BY <1>5 DEF Retry, Post, GiveUp, Refresh, DeliverDraft, DiscardDraft, ServerStep, draftVars,
                keptVars, EditorForms
<1>6. CASE Succeed \/ Fail
  <2>1. uses' \in 0..MaxUses /\ call' = "idle" /\ forgone' = forgone
        /\ settled' = settled \union {draft.pending.op} /\ call = "wait"
      BY <1>2, <1>6 DEF Succeed, Fail
  <2> QED
      BY <1>1, <2>1 DEF EditorForms
<1>7. CASE Reload \/ Reopen
  <2>1. call' = "idle" /\ settled' = settled /\ (forgone \subseteq Job => forgone' \subseteq Job)
      BY <1>7 DEF Reload, Reopen, StartWith
  <2>2. uses' \in 0..MaxUses
      BY <1>7, <1>10, EditorAssumption DEF Reload, Reopen, keptVars, EditorForms
  <2> QED
      BY <2>1, <2>2 DEF EditorForms
<1>8. CASE UNCHANGED inspectorVars
    BY <1>8 DEF inspectorVars, draftVars, EditorForms
<1> QED
    BY <1>3, <1>4, <1>5, <1>6, <1>7, <1>8 DEF InspectorNext, Inspector

(***************************************************************************)
(* For any units, values, saves, retained drafts and edits of others:      *)
(* every draft, wherever it is kept, and the acknowledgement name accepted *)
(* events and known operations only, and a save is on its way only while   *)
(* its request is retained (useCatalogBundleDraft).                        *)
(***************************************************************************)
THEOREM EditorKeepsItsForm == InspectorSpec => []InspectorTypeOK
<1>1. InspectorInit => EditorForms
    BY EditorAssumption DEF InspectorInit, EditorForms
<1>2. EditorInv /\ EditorForms /\ [InspectorNext]_inspectorVars => EditorForms'
    BY EditorFormsStay
<1>3. EditorInv /\ EditorForms => InspectorTypeOK
  <2> SUFFICES ASSUME EditorInv, EditorForms
               PROVE  InspectorTypeOK
      OBVIOUS
  <2>1. ASSUME NEW d \in Drafts
        PROVE  /\ d.inputs \in Partial(Value)
               /\ {d.observed, d.begun} \subseteq [DOMAIN d.inputs -> SUBSET DOMAIN log]
               /\ d.pending.op \in Job \union {0}
               /\ d.pending.inputs \in Partial(Value)
               /\ d.pending.basis \in Partial(SUBSET DOMAIN log)
    <3>1. d.inputs \in Partial(Value) /\ d.pending \in Requested
        BY DraftParts DEF EditorDraft
    <3> QED
        BY <3>1, DraftParts DEF Requested
  <2>2. ack.event \in {0} \union DOMAIN log
      BY DEF EditorInv, EditorSound, NoAck, Own
  <2> QED
      BY <2>1, <2>2 DEF EditorInv, EditorSound, EditorForms, InspectorTypeOK
<1> QED
    BY <1>1, <1>2, <1>3, EditorInvariant, PTL DEF InspectorSpec

(***************************************************************************)
(* The inspector saves through the same jobs: its steps, and those of the  *)
(* server under it, are steps of jobs that serve any request, so that      *)
(* whatever holds of those holds under the inspector                       *)
(* (useCatalogBundleDraft over catalog/jobs.py).                           *)
(***************************************************************************)
THEOREM InspectorImplementsAnyJobs == InspectorSpec => AnyJobSpec
<1>1. ASSUME EditorInv, Post
      PROVE  [AnyJobNext]_jobVars
  <2>1. PICK p : p = draft.pending
      OBVIOUS
  <2>2. p \in Requested /\ p.op \in Job
      BY <1>1, <2>1, PageDraft DEF EditorInv, EditorSound, SoundDraft, Post
  <2>3. [value |-> p.inputs, basis |-> p.basis, resolve |-> FALSE] \in Change
      BY <2>2 DEF Requested, Change
  <2>4. \/ Enqueue(p.op, "save", 0, [value |-> p.inputs, basis |-> p.basis, resolve |-> FALSE])
        \/ UNCHANGED jobVars
      BY <1>1, <2>1 DEF Post
  <2>5. UNCHANGED jobVars \/ AnyRequest(p.op)
      BY <2>3, <2>4 DEF AnyRequest
  <2> QED
      BY <2>2, <2>5 DEF AnyJobNext
<1>2. ServerStep => AnyJobNext
    BY DEF ServerStep, AnyJobNext
<1>3. Inspector => Post \/ UNCHANGED jobVars
    BY DEF Inspector, Type, Request, Retry, Succeed, Fail, GiveUp, Refresh, DeliverDraft, Reload,
           Reopen, StartWith, RecoverCopy, DiscardDraft
<1>4. EditorInv /\ [InspectorNext]_inspectorVars => [AnyJobNext]_jobVars
    BY <1>1, <1>2, <1>3 DEF InspectorNext, inspectorVars
<1>5. InspectorInit => JobInit
    BY DEF InspectorInit
<1> QED
    BY <1>4, <1>5, EditorInvariant, PTL DEF InspectorSpec, AnyJobSpec
=============================================================================
