------------------------ MODULE SourceOperations_proofs ------------------------
(***************************************************************************)
(* Source operations for any number of operations, paths, outside writes,  *)
(* restarts and storage errors: no original is lost, the catalog follows   *)
(* the files, success is true, and a cancelled operation stays cancelled.  *)
(***************************************************************************)
EXTENDS SourceOperations, TLAPS

(***************************************************************************)
(* What a review says hangs together: the versions before are those that   *)
(* were seen, and the catalog will be told nothing but what comes after    *)
(* (prepare, prepare_undo).                                                *)
(***************************************************************************)
ReviewSound(o, v) ==
    /\ DOMAIN v.before = DOMAIN v.after /\ DOMAIN v.say = DOMAIN v.after
    /\ DOMAIN v.after \subseteq DOMAIN v.seen /\ DOMAIN v.after \subseteq DOMAIN v.said
    /\ v.skipped => DOMAIN v.after = {}
    /\ \A p \in DOMAIN v.after :
        /\ v.seen[p].version = v.before[p]
        /\ v.say[p] \in {NoVersion, v.after[p]}
        /\ Intent[o].action # "undo" => v.said[p] \in {NoVersion, v.before[p]}

ReviewsSound == \A o \in Op : ReviewSound(o, review[o])

(***************************************************************************)
(* An application that started keeps its review and is not given up, and   *)
(* its directory holds originals it was to capture (result, checkpoint).   *)
(***************************************************************************)
Unreviewed == {"absent", "queued", "preparing", "prepared"}

ResultSound(o) ==
    /\ state[o] = "accepted" => phase[o] # "prepare"
    /\ result[o].started =>
        /\ phase[o] # "prepare" /\ state[o] \notin Unreviewed /\ ~review[o].skipped
        /\ DOMAIN result[o].outputs = Outputs(o)
        /\ \A p \in Outputs(o) : result[o].outputs[p].version = review[o].after[p]
    /\ ~result[o].started => result[o].captured = {} /\ \A p \in Path : captured[o][p] = NoFile
    /\ \A p \in Path : captured[o][p] # NoFile => p \in Captures(o)
    /\ \A p \in result[o].captured : captured[o][p] = review[o].seen[p]
    /\ state[o] = "succeeded" => Captures(o) \subseteq result[o].captured

ResultsSound == \A o \in Op : ResultSound(o)

(***************************************************************************)
(* What the worker is at, and what the row says of it (run_one, apply).    *)
(***************************************************************************)
Preparing(o) == state[o] \in {"preparing", "cancelled"} /\ ~result[o].started

Applying(o) ==
    /\ phase[o] # "prepare" /\ state[o] \in {"applying", "cancelled"}
    /\ result[o].started => state[o] = "applying"

Moving(o) == state[o] = "applying" /\ result[o].started

WorkerSound ==
    LET o == worker.op IN
    /\ worker.at # "idle" => o \in Op
    /\ worker.at \in {"prepare", "reviewed"} => Preparing(o)
    /\ worker.at = "reviewed" => ReviewSound(o, worker.draft)
    /\ worker.at \in {"apply", "staged"} => Applying(o)
    /\ worker.at = "staged" =>
        /\ ~result[o].started /\ ~review[o].skipped
        /\ \A p \in Outputs(o) : staged[o][p] \in File /\ staged[o][p].version = review[o].after[p]
    /\ worker.at \in {"files", "rename", "mark"} => Moving(o)
    /\ worker.at = "rename" => worker.path \in ToCapture(o) /\ captured[o][worker.path] = NoFile
    /\ worker.at = "mark" =>
        /\ worker.path \in Path
        /\ ToCapture(o) # {} =>
            worker.path \in ToCapture(o) /\ captured[o][worker.path] = review[o].seen[worker.path]

OInv == TypeOK /\ ReviewsSound /\ ResultsSound /\ WorkerSound /\ CatalogFollowsFiles

-----------------------------------------------------------------------------
(***************************************************************************)
(* No path, operation, version or file is taken for its absence.           *)
(***************************************************************************)
LEMMA Absences ==
    /\ 0 \notin Op /\ 0 \notin Path /\ Path \subseteq Nat /\ MaxWrites \in Nat
    /\ NoVersion \notin Version /\ NoFile \notin File /\ NoFile.version = NoVersion
    /\ \A f \in File : f.version \in Version /\ f # NoFile
    /\ \A f \in File \union {NoFile} : f.version \in Version \union {NoVersion}
<1>1. 0 \notin Op /\ 0 \notin Path /\ Path \subseteq Nat /\ MaxWrites \in Nat
    BY SourceAssumption
<1>2. NoVersion \notin Version
    BY <1>1 DEF NoVersion, Version
<1>3. NoFile \notin File /\ NoFile.version = NoVersion
    BY <1>2 DEF NoFile, File
<1>4. \A f \in File : f.version \in Version /\ f # NoFile
    BY <1>3 DEF File
<1> QED
    BY <1>1, <1>2, <1>3, <1>4

LEMMA OriginalIsFile ==
    ASSUME NEW p \in Path, NEW n \in 0..MaxWrites
    PROVE  Original(p, n) \in File
BY DEF Original, File, Version

(***************************************************************************)
(* A review's parts are functions on some of the paths.                    *)
(***************************************************************************)
LEMMA PartialIn ==
    ASSUME NEW S, NEW D \in SUBSET Path, NEW f \in [D -> S]
    PROVE  f \in Partial(S)
BY DEF Partial

LEMMA PartialShape ==
    ASSUME NEW S, NEW f \in Partial(S)
    PROVE  DOMAIN f \subseteq Path /\ f \in [DOMAIN f -> S] /\ \A p \in DOMAIN f : f[p] \in S
BY DEF Partial

LEMMA NoneIn ==
    ASSUME NEW S
    PROVE  None \in Partial(S) /\ DOMAIN None = {}
<1>1. None \in [{} -> S]
    BY DEF None
<1> QED
    BY <1>1, PartialIn

LEMMA NoReviewSound ==
    /\ NoReview \in Review /\ \A o \in Op : ReviewSound(o, NoReview)
    /\ \A v \in {[NoReview EXCEPT !.skipped = TRUE]} : v \in Review /\ \A o \in Op : ReviewSound(o, v)
BY NoneIn DEF NoReview, Review, ReviewSound

LEMMA ReviewShape ==
    ASSUME NEW v \in Review
    PROVE  /\ v.skipped \in BOOLEAN
           /\ v.seen \in Partial(File \union {NoFile})
           /\ v.before \in Partial(Version \union {NoVersion})
           /\ v.after \in Partial(Version \union {NoVersion})
           /\ v.said \in Partial(Version \union {NoVersion})
           /\ v.say \in Partial(Version \union {NoVersion})
BY DEF Review

(***************************************************************************)
(* The reviews a preparation can write are sound (prepare, prepare_undo).  *)
(***************************************************************************)
LEMMA DestinationIn ==
    ASSUME NEW o \in Op, Intent[o].action # "undo"
    PROVE  /\ Intent[o].from \in Path /\ Destination(o) \subseteq Path
           /\ Moved(o) \subseteq {Intent[o].from}
<1>1. Intent[o].action \in {"copy", "move", "trash"} /\ Intent[o].from \in Path
    BY SourceAssumption
<1>2. Intent[o].action \in {"copy", "move"} => Intent[o].to \in Path
    BY SourceAssumption
<1> QED
    BY <1>1, <1>2 DEF Destination, Moved

LEMMA ReviewedSound ==
    ASSUME TypeOK, NEW o \in Op, Intent[o].action # "undo", Reviewable(o)
    PROVE  Reviewed(o) \in Review /\ ReviewSound(o, Reviewed(o))
<1> DEFINE from == Intent[o].from
           paths == Destination(o) \union Moved(o)
           after == [p \in paths |-> IF p = from THEN NoVersion ELSE entry[from].version]
           v == [skipped |-> FALSE,
                 seen    |-> [p \in paths \union {from} |-> entry[p]],
                 before  |-> [p \in paths |-> entry[p].version],
                 after   |-> after,
                 said    |-> [p \in paths \union {from} |-> told[p]],
                 say     |-> [p \in paths |-> IF Intent[o].action # "copy" /\ told[from] = NoVersion
                                                THEN NoVersion ELSE after[p]]]
<1>1. CASE Skipping(o)
    BY <1>1, NoReviewSound DEF Reviewed
<1>2. CASE ~Skipping(o)
  <2>1. Reviewed(o) = v
      BY <1>2 DEF Reviewed
  <2>2. from \in Path /\ paths \subseteq Path /\ paths \subseteq {from} \union Destination(o)
      BY DestinationIn
  <2>3. \A p \in paths : told[p] \in {NoVersion, entry[p].version}
      BY <1>2, <2>2 DEF Reviewable
  <2>4. \A p \in Path : entry[p] \in File \union {NoFile} /\ entry[p].version \in Version \union {NoVersion}
                     /\ told[p] \in Version \union {NoVersion}
      BY Absences DEF TypeOK
  <2> HIDE DEF from, paths
  <2>5. v.seen \in Partial(File \union {NoFile})
    <3>1. v.seen \in [paths \union {from} -> File \union {NoFile}]
        BY <2>2, <2>4
    <3> QED
        BY <2>2, <3>1, PartialIn
  <2>6. v.before \in Partial(Version \union {NoVersion})
    <3>1. v.before \in [paths -> Version \union {NoVersion}]
        BY <2>2, <2>4
    <3> QED
        BY <2>2, <3>1, PartialIn
  <2>7. after \in [paths -> Version \union {NoVersion}]
      BY <2>2, <2>4
  <2>8. v.after \in Partial(Version \union {NoVersion})
      BY <2>2, <2>7, PartialIn
  <2>9. v.said \in Partial(Version \union {NoVersion})
    <3>1. v.said \in [paths \union {from} -> Version \union {NoVersion}]
        BY <2>2, <2>4
    <3> QED
        BY <2>2, <3>1, PartialIn
  <2>10. v.say \in Partial(Version \union {NoVersion})
    <3>1. v.say \in [paths -> Version \union {NoVersion}]
        BY <2>7
    <3> QED
        BY <2>2, <3>1, PartialIn
  <2>11. v \in Review
      BY <2>5, <2>6, <2>8, <2>9, <2>10 DEF Review
  <2>12. ReviewSound(o, v)
      BY <2>2, <2>3 DEF ReviewSound
  <2> QED
      BY <2>1, <2>11, <2>12
<1> QED
    BY <1>1, <1>2

LEMMA InverseSound ==
    ASSUME TypeOK, ReviewsSound, NEW o \in Op, Intent[o].action = "undo", Undoable(o)
    PROVE  InverseReview(o) \in Review /\ ReviewSound(o, InverseReview(o))
<1> DEFINE prior == Intent[o].prior
           done == review[prior]
           paths == DOMAIN done.after
           v == InverseReview(o)
<1>1. prior \in Op /\ Intent[prior].action # "undo"
    BY SourceAssumption
<1>2. done \in Review /\ ReviewSound(prior, done)
    BY <1>1 DEF TypeOK, ReviewsSound
<1>3. \A p \in paths : entry[p].version = done.after[p] /\ told[p] = done.say[p]
    BY DEF Undoable
<1>4. v = [skipped |-> FALSE,
           seen    |-> [p \in paths |-> entry[p]],
           before  |-> done.after,
           after   |-> done.before,
           said    |-> done.say,
           say     |-> [p \in paths |-> done.said[p]]]
    BY DEF InverseReview
<1>5. paths \subseteq Path
    BY <1>2, ReviewShape, PartialShape
<1> HIDE DEF prior, done, v
<1>6. v.seen \in Partial(File \union {NoFile})
  <2>1. v.seen \in [paths -> File \union {NoFile}]
      BY <1>4, <1>5 DEF TypeOK
  <2> QED
      BY <1>5, <2>1, PartialIn
<1>7. v.say \in Partial(Version \union {NoVersion})
  <2>1. \A p \in DOMAIN done.said : done.said[p] \in Version \union {NoVersion}
      BY <1>2, ReviewShape, PartialShape
  <2>2. v.say \in [paths -> Version \union {NoVersion}]
      BY <1>2, <1>4, <2>1 DEF ReviewSound
  <2> QED
      BY <1>5, <2>2, PartialIn
<1>8. v \in Review
    BY <1>2, <1>4, <1>6, <1>7, ReviewShape DEF Review
<1>9. ReviewSound(o, v)
    BY <1>1, <1>2, <1>3, <1>4 DEF ReviewSound
<1> QED
    BY <1>8, <1>9 DEF v

-----------------------------------------------------------------------------
(***************************************************************************)
(* A row takes a state and the other rows keep theirs.                     *)
(***************************************************************************)
LEMMA SetStateIs ==
    ASSUME TypeOK, NEW o \in Op, NEW s \in State, SetState(o, s)
    PROVE  /\ state' \in [Op -> State] /\ state'[o] = s
           /\ \A q \in Op : q # o => state'[q] = state[q]
BY DEF SetState, TypeOK

(***************************************************************************)
(* An idle worker has nothing to be wrong about.                           *)
(***************************************************************************)
LEMMA IdleWorker ==
    ASSUME worker' = Idle
    PROVE  /\ WorkerSound'
           /\ worker' \in [op: Op \union {0}, at: Step, path: Path \union {0}, draft: Review]
<1>1. Idle \in [op: Op \union {0}, at: Step, path: Path \union {0}, draft: Review]
    BY NoReviewSound DEF Idle, Step
<1>2. WorkerSound'
    BY DEF WorkerSound, Idle
<1> QED
    BY <1>1, <1>2

(***************************************************************************)
(* Rows may change their state as long as nothing that started goes back   *)
(* before its acceptance, and nothing succeeds with captures left.         *)
(***************************************************************************)
LegalState(q) ==
    /\ state'[q] = "accepted" => phase'[q] # "prepare"
    /\ result[q].started => phase'[q] # "prepare" /\ state'[q] \notin Unreviewed
    /\ state'[q] = "succeeded" =>
        Captures(q) \subseteq result[q].captured /\ (result[q].started => state[q] = "succeeded")

LEMMA StateStep ==
    ASSUME ReviewsSound, ResultsSound, CatalogFollowsFiles,
           UNCHANGED <<entry, captured, review, result, told, touched>>,
           \A q \in Op : LegalState(q)
    PROVE  ReviewsSound' /\ ResultsSound' /\ CatalogFollowsFiles'
<1>1. ReviewsSound'
    BY DEF ReviewsSound, ReviewSound
<1>2. ResultsSound'
  <2> SUFFICES ASSUME NEW q \in Op
               PROVE  ResultSound(q)'
      BY DEF ResultsSound
  <2>1. Captures(q)' = Captures(q) /\ Outputs(q)' = Outputs(q)
      BY DEF Captures, Outputs
  <2> QED
      BY <2>1 DEF ResultsSound, ResultSound, LegalState
<1>3. CatalogFollowsFiles'
  <2>1. \A q \in Op, p \in Path : UnderWay(q, p) => UnderWay(q, p)'
      BY DEF UnderWay, LegalState
  <2> QED
      BY <2>1 DEF CatalogFollowsFiles
<1> QED
    BY <1>1, <1>2, <1>3

(***************************************************************************)
(* The except clause of run_one keeps everything.                          *)
(***************************************************************************)
Counts == [writes: 0..MaxWrites, crashes: 0..MaxCrashes, stops: 0..MaxStops]

LEMMA FailKeeps ==
    ASSUME OInv, NEW o \in Op, Fail(o), counts' \in Counts,
           UNCHANGED <<files, phase, review, result, told, touched>>
    PROVE  OInv'
<1>1. /\ state' \in [Op -> State] /\ state'[o] \in {"cancelled", "interrupted"}
      /\ \A q \in Op : q # o => state'[q] = state[q]
  <2>1. CASE state[o] = "cancelled"
      BY <2>1, SetStateIs DEF OInv, Fail, State
  <2>2. CASE state[o] # "cancelled"
    <3>1. SetState(o, "interrupted")
        BY <2>2 DEF Fail
    <3> QED
        BY <3>1, SetStateIs DEF OInv, State
  <2> QED
      BY <2>1, <2>2
<1>2. WorkerSound' /\ worker' \in [op: Op \union {0}, at: Step, path: Path \union {0}, draft: Review]
    BY IdleWorker DEF Fail
<1>3. TypeOK'
    BY <1>1, <1>2 DEF OInv, TypeOK, Counts, files
<1>4. \A q \in Op : LegalState(q)
    BY <1>1 DEF LegalState, OInv, ResultsSound, ResultSound, Unreviewed
<1>5. ReviewsSound' /\ ResultsSound' /\ CatalogFollowsFiles'
    BY <1>4, StateStep DEF OInv, files
<1> QED
    BY <1>2, <1>3, <1>5 DEF OInv

LEMMA FailOnlyKeeps ==
    ASSUME OInv, NEW o \in Op, FailOnly(o)
    PROVE  OInv'
<1>1. counts' \in Counts
    BY DEF OInv, TypeOK, Counts, FailOnly
<1> QED
    BY <1>1, FailKeeps DEF FailOnly

LEMMA StopKeeps ==
    ASSUME OInv, NEW o \in Op, Stop(o)
    PROVE  OInv'
<1>1. counts' \in Counts
  <2>1. counts \in Counts /\ MaxStops \in Nat
      BY SourceAssumption DEF OInv, TypeOK, Counts
  <2>2. counts.stops + 1 \in 0..MaxStops
      BY <2>1 DEF Counts, Stop
  <2> QED
      BY <2>1, <2>2 DEF Counts, Stop
<1> QED
    BY <1>1, FailKeeps DEF Stop

-----------------------------------------------------------------------------
(***************************************************************************)
(* The owner's requests pass by what the worker is at: only a cancellation *)
(* reaches an operation in hand, and only before it has started.           *)
(***************************************************************************)
LEMMA RequestPassesBy ==
    ASSUME OInv, NEW o \in Op, UNCHANGED <<files, review, result, worker>>,
           \A q \in Op : q # o => state'[q] = state[q] /\ phase'[q] = phase[q],
           \/ state[o] \notin {"preparing", "applying", "cancelled"}
           \/ state'[o] = "cancelled" /\ phase'[o] = phase[o] /\ ~result[o].started
    PROVE  WorkerSound'
<1> DEFINE w == worker.op
<1>1. CASE worker.at = "idle"
    BY <1>1 DEF WorkerSound
<1>2. CASE worker.at # "idle"
  <2>1. w \in Op /\ worker.at \in Step
      BY <1>2 DEF OInv, WorkerSound, TypeOK
  <2>2. state[w] \in {"preparing", "applying", "cancelled"}
      BY <1>2, <2>1 DEF OInv, WorkerSound, Preparing, Applying, Moving, Step
  <2>3. /\ Preparing(w) => Preparing(w)'
        /\ Applying(w) => Applying(w)'
        /\ Moving(w) => Moving(w)'
      BY <2>1, <2>2 DEF Preparing, Applying, Moving
  <2>4. Outputs(w)' = Outputs(w) /\ ToCapture(w)' = ToCapture(w) /\ worker'.op = w
      BY DEF Outputs, ToCapture, Captures
  <2>5. ReviewSound(w, worker.draft)' <=> ReviewSound(w, worker.draft)
      BY DEF ReviewSound
  <2> QED
      BY <2>1, <2>3, <2>4, <2>5 DEF OInv, WorkerSound, files
<1> QED
    BY <1>1, <1>2

LEMMA EnqueueKeeps ==
    ASSUME OInv, NEW o \in Op, Enqueue(o)
    PROVE  OInv'
<1>1. state' \in [Op -> State] /\ state'[o] = "queued" /\ \A q \in Op : q # o => state'[q] = state[q]
    BY SetStateIs DEF OInv, Enqueue, State
<1>2. ~result[o].started /\ state[o] = "absent"
    BY DEF OInv, ResultsSound, ResultSound, Unreviewed, Enqueue
<1>3. TypeOK'
    BY <1>1 DEF OInv, TypeOK, Enqueue, files
<1>4. \A q \in Op : LegalState(q)
    BY <1>1, <1>2 DEF LegalState, OInv, ResultsSound, ResultSound, Enqueue
<1>5. ReviewsSound' /\ ResultsSound' /\ CatalogFollowsFiles'
    BY <1>4, StateStep DEF OInv, Enqueue, files
<1>6. WorkerSound'
    BY <1>1, <1>2, RequestPassesBy DEF Enqueue
<1> QED
    BY <1>3, <1>5, <1>6 DEF OInv

LEMMA AcceptKeeps ==
    ASSUME OInv, NEW o \in Op, Accept(o)
    PROVE  OInv'
<1>1. state' \in [Op -> State] /\ state'[o] = "accepted" /\ \A q \in Op : q # o => state'[q] = state[q]
    BY SetStateIs DEF OInv, Accept, State
<1>2. /\ phase' \in [Op -> {"prepare", "apply", "complete"}] /\ phase'[o] = "apply"
      /\ \A q \in Op : q # o => phase'[q] = phase[q]
    BY DEF OInv, TypeOK, Accept
<1>3. TypeOK'
    BY <1>1, <1>2 DEF OInv, TypeOK, Accept, files
<1>4. \A q \in Op : LegalState(q)
    BY <1>1, <1>2 DEF LegalState, OInv, ResultsSound, ResultSound, Unreviewed
<1>5. ReviewsSound' /\ ResultsSound' /\ CatalogFollowsFiles'
    BY <1>4, StateStep DEF OInv, Accept, files
<1>6. WorkerSound'
    BY <1>1, <1>2, RequestPassesBy DEF Accept
<1> QED
    BY <1>3, <1>5, <1>6 DEF OInv

LEMMA CancelKeeps ==
    ASSUME OInv, NEW o \in Op, Cancel(o)
    PROVE  OInv'
<1>1. state' \in [Op -> State] /\ state'[o] = "cancelled" /\ \A q \in Op : q # o => state'[q] = state[q]
    BY SetStateIs DEF OInv, Cancel, State
<1>3. TypeOK'
    BY <1>1 DEF OInv, TypeOK, Cancel, files
<1>4. \A q \in Op : LegalState(q)
    BY <1>1 DEF LegalState, OInv, ResultsSound, ResultSound, Unreviewed, Cancel
<1>5. ReviewsSound' /\ ResultsSound' /\ CatalogFollowsFiles'
    BY <1>4, StateStep DEF OInv, Cancel, files
<1>6. state[o] \notin {"preparing", "applying", "cancelled"} \/ ~result[o].started
    BY DEF OInv, ResultsSound, ResultSound, Unreviewed, Cancel
<1>7. WorkerSound'
    BY <1>1, <1>6, RequestPassesBy DEF Cancel
<1> QED
    BY <1>3, <1>5, <1>7 DEF OInv

LEMMA RetryKeeps ==
    ASSUME OInv, NEW o \in Op, Retry(o)
    PROVE  OInv'
<1> DEFINE s == IF phase[o] = "prepare" THEN "queued" ELSE "accepted"
<1>1. s \in State /\ SetState(o, s) /\ state[o] = "interrupted"
    BY DEF State, Retry
<1>2. state' \in [Op -> State] /\ state'[o] = s /\ \A q \in Op : q # o => state'[q] = state[q]
    BY <1>1, SetStateIs DEF OInv
<1>3. TypeOK'
    BY <1>2 DEF OInv, TypeOK, Retry, files
<1>4. \A q \in Op : LegalState(q)
    BY <1>2 DEF LegalState, OInv, ResultsSound, ResultSound, Unreviewed, Retry
<1>5. ReviewsSound' /\ ResultsSound' /\ CatalogFollowsFiles'
    BY <1>4, StateStep DEF OInv, Retry, files
<1>6. WorkerSound'
    BY <1>1, <1>2, RequestPassesBy DEF Retry
<1> QED
    BY <1>3, <1>5, <1>6 DEF OInv

-----------------------------------------------------------------------------
(* The worker's preparation (claim, prepare, save_review)                  *)

LEMMA ClaimKeeps ==
    ASSUME OInv, NEW o \in Op, Claim(o)
    PROVE  OInv'
<1> DEFINE s == IF state[o] = "queued" THEN "preparing" ELSE "applying"
           a == IF state[o] = "queued" THEN "prepare" ELSE "apply"
<1>1. s \in State /\ SetState(o, s) /\ state[o] \in {"queued", "accepted"}
    BY DEF State, Claim
<1>2. state' \in [Op -> State] /\ state'[o] = s /\ \A q \in Op : q # o => state'[q] = state[q]
    BY <1>1, SetStateIs DEF OInv
<1>3. worker' = [op |-> o, at |-> a, path |-> 0, draft |-> NoReview] /\ a \in {"prepare", "apply"}
    BY DEF Claim, Idle
<1>4. TypeOK'
  <2>1. worker' \in [op: Op \union {0}, at: Step, path: Path \union {0}, draft: Review]
      BY <1>3, NoReviewSound DEF Step
  <2> QED
      BY <1>2, <2>1 DEF OInv, TypeOK, Claim, files
<1>5. \A q \in Op : LegalState(q)
    BY <1>1, <1>2 DEF LegalState, OInv, ResultsSound, ResultSound, Unreviewed, Claim
<1>6. ReviewsSound' /\ ResultsSound' /\ CatalogFollowsFiles'
    BY <1>5, StateStep DEF OInv, Claim, files
<1>7. WorkerSound'
  <2>1. state[o] = "queued" => Preparing(o)'
      BY <1>2 DEF OInv, ResultsSound, ResultSound, Unreviewed, Preparing, Claim
  <2>2. state[o] # "queued" => Applying(o)'
      BY <1>1, <1>2 DEF OInv, ResultsSound, ResultSound, Applying, Claim
  <2> QED
      BY <1>3, <2>1, <2>2 DEF WorkerSound
<1> QED
    BY <1>4, <1>6, <1>7 DEF OInv

(***************************************************************************)
(* A step that changes nothing but what the worker is at.                  *)
(***************************************************************************)
LEMMA WorkerOnly ==
    ASSUME OInv, NEW o \in Op, UNCHANGED <<files, rows, told, touched, counts>>,
           worker' \in [op: Op \union {0}, at: Step, path: Path \union {0}, draft: Review],
           WorkerSound'
    PROVE  OInv'
<1>1. TypeOK'
    BY DEF OInv, TypeOK, files, rows
<1>2. \A q \in Op : LegalState(q)
    BY DEF LegalState, OInv, ResultsSound, ResultSound, rows
<1>3. ReviewsSound' /\ ResultsSound' /\ CatalogFollowsFiles'
    BY <1>2, StateStep DEF OInv, files, rows
<1> QED
    BY <1>1, <1>3 DEF OInv

LEMMA PrepareKeeps ==
    ASSUME OInv, NEW o \in Op, Prepare(o)
    PROVE  OInv'
<1> DEFINE undo == Intent[o].action = "undo"
           able == IF undo THEN Undoable(o) ELSE Reviewable(o)
           v == IF undo THEN InverseReview(o) ELSE Reviewed(o)
<1>1. CASE able /\ worker' = [worker EXCEPT !.at = "reviewed", !.draft = v]
                /\ UNCHANGED <<files, rows, told, touched, counts>>
  <2>1. v \in Review /\ ReviewSound(o, v)
      BY <1>1, ReviewedSound, InverseSound DEF OInv
  <2>2. worker.op = o /\ Preparing(o)
      BY DEF OInv, WorkerSound, Prepare, At
  <2>3. worker' \in [op: Op \union {0}, at: Step, path: Path \union {0}, draft: Review]
        /\ worker'.op = o /\ worker'.at = "reviewed" /\ worker'.draft = v
    <3> HIDE DEF v
    <3> QED
        BY <1>1, <2>1, <2>2 DEF OInv, TypeOK, Step
  <2>5. WorkerSound'
    <3>1. Preparing(o)'
        BY <1>1, <2>2 DEF Preparing, rows
    <3>2. ReviewSound(o, worker'.draft)
        BY <2>1, <2>3
    <3>3. worker'.op = o /\ worker'.at = "reviewed"
        BY <2>3
    <3> QED
        BY <3>1, <3>2, <3>3 DEF WorkerSound, ReviewSound
  <2> QED
      BY <1>1, <2>3, <2>5, WorkerOnly
<1>2. CASE FailOnly(o)
    BY <1>2, FailOnlyKeeps
<1> QED
    BY <1>1, <1>2 DEF Prepare

LEMMA SaveReviewKeeps ==
    ASSUME OInv, NEW o \in Op, SaveReview(o)
    PROVE  OInv'
<1> DEFINE v == worker.draft
<1>1. worker.op = o /\ Preparing(o) /\ v \in Review /\ ReviewSound(o, v)
    BY DEF OInv, TypeOK, WorkerSound, SaveReview, At
<1>2. WorkerSound' /\ worker' \in [op: Op \union {0}, at: Step, path: Path \union {0}, draft: Review]
    BY IdleWorker DEF SaveReview
<1>3. CASE state[o] = "preparing"
  <2>1. state' \in [Op -> State] /\ state'[o] = "prepared" /\ \A q \in Op : q # o => state'[q] = state[q]
      BY <1>3, SetStateIs DEF OInv, SaveReview, State
  <2>2. review' \in [Op -> Review] /\ review'[o] = v /\ \A q \in Op : q # o => review'[q] = review[q]
      BY <1>1, <1>3 DEF OInv, TypeOK, SaveReview
  <2>3. TypeOK'
      BY <1>2, <2>1, <2>2 DEF OInv, TypeOK, SaveReview, files
  <2>4. ReviewsSound'
      BY <1>1, <2>2 DEF OInv, ReviewsSound, ReviewSound
  <2>5. \A q \in Op : q # o =>
           Captures(q)' = Captures(q) /\ Outputs(q)' = Outputs(q)
      BY <2>2 DEF Captures, Outputs
  <2>6. ResultsSound'
    <3> SUFFICES ASSUME NEW q \in Op
                 PROVE  ResultSound(q)'
        BY DEF ResultsSound
    <3>1. CASE q = o
        BY <1>1, <2>1, <3>1 DEF OInv, ResultsSound, ResultSound, Preparing, SaveReview, files
    <3>2. CASE q # o
        BY <2>1, <2>2, <2>5, <3>2 DEF OInv, ResultsSound, ResultSound, SaveReview, files
    <3> QED
        BY <3>1, <3>2
  <2>7. CatalogFollowsFiles'
    <3>1. \A q \in Op, p \in Path : UnderWay(q, p) => UnderWay(q, p)'
        BY <1>1, <2>1, <2>2 DEF UnderWay, Preparing, SaveReview
    <3> QED
        BY <3>1 DEF OInv, CatalogFollowsFiles, SaveReview, files
  <2> QED
      BY <1>2, <2>3, <2>4, <2>6, <2>7 DEF OInv
<1>4. CASE state[o] # "preparing"
    BY <1>2, <1>4, WorkerOnly DEF SaveReview, files, rows
<1> QED
    BY <1>3, <1>4

-----------------------------------------------------------------------------
(* The worker's application (apply)                                        *)

LEMMA SkipKeeps ==
    ASSUME OInv, NEW o \in Op, Skip(o)
    PROVE  OInv'
<1>1. state' \in [Op -> State] /\ state'[o] = "succeeded" /\ \A q \in Op : q # o => state'[q] = state[q]
    BY SetStateIs DEF OInv, Skip, State
<1>2. WorkerSound' /\ worker' \in [op: Op \union {0}, at: Step, path: Path \union {0}, draft: Review]
    BY IdleWorker DEF Skip
<1>3. TypeOK'
    BY <1>1, <1>2 DEF OInv, TypeOK, Skip, files
<1>4. Captures(o) = {} /\ ~result[o].started
    BY DEF OInv, ReviewsSound, ReviewSound, ResultsSound, ResultSound, Captures, Skip
<1>5. \A q \in Op : LegalState(q)
    BY <1>1, <1>4 DEF LegalState, OInv, ResultsSound, ResultSound, Skip
<1>6. ReviewsSound' /\ ResultsSound' /\ CatalogFollowsFiles'
    BY <1>5, StateStep DEF OInv, Skip, files
<1> QED
    BY <1>2, <1>3, <1>6 DEF OInv

(***************************************************************************)
(* The worker goes to another step of the operation it is applying.        *)
(***************************************************************************)
LEMMA WorkerGoes ==
    ASSUME OInv, NEW o \in Op, worker.op = o, NEW a \in Step,
           worker' = [worker EXCEPT !.at = a]
    PROVE  /\ worker' \in [op: Op \union {0}, at: Step, path: Path \union {0}, draft: Review]
           /\ worker'.op = o /\ worker'.at = a /\ worker'.path = worker.path
BY DEF OInv, TypeOK

LEMMA WorkerGoesTo ==
    ASSUME OInv, NEW o \in Op, worker.op = o, NEW a \in Step, NEW p \in Path \union {0},
           worker' = [worker EXCEPT !.at = a, !.path = p]
    PROVE  /\ worker' \in [op: Op \union {0}, at: Step, path: Path \union {0}, draft: Review]
           /\ worker'.op = o /\ worker'.at = a /\ worker'.path = p
BY DEF OInv, TypeOK

LEMMA ResumeKeeps ==
    ASSUME OInv, NEW o \in Op, Resume(o)
    PROVE  OInv'
<1>1. worker.op = o /\ worker.at = "apply" /\ "files" \in Step
    BY DEF Resume, At, Step
<1>2. worker' \in [op: Op \union {0}, at: Step, path: Path \union {0}, draft: Review]
      /\ worker'.op = o /\ worker'.at = "files"
    BY <1>1, WorkerGoes DEF Resume
<1>3. Moving(o)
    BY <1>1 DEF OInv, WorkerSound, Applying, Moving, Resume
<1>4. WorkerSound'
    BY <1>2, <1>3 DEF WorkerSound, Moving, Resume, rows
<1> QED
    BY <1>2, <1>4, WorkerOnly DEF Resume

(***************************************************************************)
(* The paths an operation captures and publishes are paths of the library. *)
(***************************************************************************)
LEMMA ReviewPaths ==
    ASSUME OInv, NEW o \in Op
    PROVE  /\ DOMAIN review[o].after \subseteq Path
           /\ Captures(o) \subseteq DOMAIN review[o].after /\ Outputs(o) \subseteq DOMAIN review[o].after
           /\ ToCapture(o) \subseteq Captures(o) /\ ToPublish(o) \subseteq Outputs(o)
           /\ \A p \in Outputs(o) : review[o].after[p] \in Version
           /\ \A p \in Captures(o) : review[o].seen[p] \in File \union {NoFile}
                                  /\ review[o].seen[p] # NoFile
<1>1. review[o] \in Review /\ ReviewSound(o, review[o])
    BY DEF OInv, TypeOK, ReviewsSound
<1>2. DOMAIN review[o].after \subseteq Path
      /\ \A p \in DOMAIN review[o].after : review[o].after[p] \in Version \union {NoVersion}
    BY <1>1, ReviewShape, PartialShape
<1>3. \A p \in DOMAIN review[o].seen : review[o].seen[p] \in File \union {NoFile}
    BY <1>1, ReviewShape, PartialShape
<1>4. Captures(o) \subseteq DOMAIN review[o].after /\ Outputs(o) \subseteq DOMAIN review[o].after
    BY <1>1 DEF ReviewSound, Captures, Outputs
<1>5. \A p \in Outputs(o) : review[o].after[p] \in Version
    BY <1>2 DEF Outputs
<1>6. \A p \in Captures(o) : review[o].seen[p] \in File \union {NoFile} /\ review[o].seen[p] # NoFile
    BY <1>1, <1>3, <1>4, Absences DEF ReviewSound, Captures
<1> QED
    BY <1>2, <1>4, <1>5, <1>6 DEF ToCapture, ToPublish

LEMMA FirstIn ==
    ASSUME NEW o, NEW S, S # {}
    PROVE  First(o, S) \in S
<1>1. \E p \in S : Target(o) \in S => p = Target(o)
    OBVIOUS
<1> QED
    BY <1>1 DEF First

LEMMA StageKeeps ==
    ASSUME OInv, NEW o \in Op, Stage(o)
    PROVE  OInv'
<1> DEFINE out == [p \in Path |-> IF p \in Outputs(o)
                                    THEN [version |-> review[o].after[p], at |-> p, by |-> o]
                                    ELSE NoFile]
<1>1. CASE /\ staged' = [staged EXCEPT ![o] = out]
           /\ worker' = [worker EXCEPT !.at = "staged"]
           /\ UNCHANGED <<entry, captured, rows, told, touched, counts>>
  <2>1. worker.op = o /\ worker.at = "apply" /\ "staged" \in Step
      BY DEF Stage, At, Step
  <2>2. worker' \in [op: Op \union {0}, at: Step, path: Path \union {0}, draft: Review]
        /\ worker'.op = o /\ worker'.at = "staged"
      BY <1>1, <2>1, WorkerGoes
  <2>3. \A p \in Outputs(o) : [version |-> review[o].after[p], at |-> p, by |-> o] \in File
      BY ReviewPaths DEF File
  <2>4. out \in [Path -> File \union {NoFile}]
      BY <2>3
  <2>5. \A p \in Outputs(o) : out[p] \in File /\ out[p].version = review[o].after[p]
      BY <2>3, ReviewPaths
  <2> HIDE DEF out
  <2>6. staged' \in [Op -> [Path -> File \union {NoFile}]] /\ staged'[o] = out
      BY <1>1, <2>4 DEF OInv, TypeOK
  <2>7. TypeOK'
      BY <1>1, <2>2, <2>6 DEF OInv, TypeOK, rows
  <2>8. \A q \in Op : LegalState(q)
      BY <1>1 DEF LegalState, OInv, ResultsSound, ResultSound, rows
  <2>9. ReviewsSound' /\ ResultsSound' /\ CatalogFollowsFiles'
      BY <1>1, <2>8, StateStep DEF OInv, rows
  <2>10. Applying(o) /\ ~result[o].started /\ ~review[o].skipped
      BY <2>1 DEF OInv, WorkerSound, Stage
  <2>11. WorkerSound'
    <3>1. Applying(o)' /\ ~result'[o].started /\ ~review'[o].skipped
        BY <1>1, <2>10 DEF Applying, rows
    <3>2. \A p \in Outputs(o)' : staged'[o][p] \in File /\ staged'[o][p].version = review'[o].after[p]
        BY <1>1, <2>5, <2>6 DEF Outputs, rows
    <3> QED
        BY <2>2, <3>1, <3>2 DEF WorkerSound
  <2> QED
      BY <2>7, <2>9, <2>11 DEF OInv
<1>2. CASE FailOnly(o)
    BY <1>2, FailOnlyKeeps
<1> QED
    BY <1>1, <1>2 DEF Stage

LEMMA BeginKeeps ==
    ASSUME OInv, NEW o \in Op, Begin(o)
    PROVE  OInv'
<1> DEFINE r == [started |-> TRUE, outputs |-> [p \in Outputs(o) |-> staged[o][p]],
                 captured |-> {}, published |-> {}]
<1>1. CASE /\ state[o] = "applying"
           /\ result' = [result EXCEPT ![o] = r]
           /\ worker' = [worker EXCEPT !.at = "files"]
           /\ UNCHANGED <<files, state, phase, review, told, touched, counts>>
  <2>1. worker.op = o /\ worker.at = "staged" /\ "files" \in Step
      BY DEF Begin, At, Step
  <2>2. worker' \in [op: Op \union {0}, at: Step, path: Path \union {0}, draft: Review]
        /\ worker'.op = o /\ worker'.at = "files"
      BY <1>1, <2>1, WorkerGoes
  <2>3. /\ phase[o] # "prepare" /\ ~result[o].started /\ ~review[o].skipped
        /\ \A p \in Outputs(o) : staged[o][p] \in File /\ staged[o][p].version = review[o].after[p]
      BY <2>1 DEF OInv, WorkerSound, Applying
  <2>4. Outputs(o) \subseteq Path
      BY ReviewPaths
  <2>5. [p \in Outputs(o) |-> staged[o][p]] \in Partial(File)
    <3>1. [p \in Outputs(o) |-> staged[o][p]] \in [Outputs(o) -> File]
        BY <2>3
    <3> QED
        BY <2>4, <3>1, PartialIn
  <2>6. r \in Result
      BY <2>5 DEF Result
  <2>7. /\ r.started /\ r.captured = {} /\ DOMAIN r.outputs = Outputs(o)
        /\ \A p \in Outputs(o) : r.outputs[p].version = review[o].after[p]
      BY <2>3
  <2> HIDE DEF r
  <2>8. result' \in [Op -> Result] /\ result'[o] = r /\ \A q \in Op : q # o => result'[q] = result[q]
      BY <1>1, <2>6 DEF OInv, TypeOK
  <2>9. TypeOK'
      BY <1>1, <2>2, <2>8 DEF OInv, TypeOK, files
  <2>10. ReviewsSound'
      BY <1>1 DEF OInv, ReviewsSound, ReviewSound
  <2>11. ResultsSound'
    <3> SUFFICES ASSUME NEW q \in Op
                 PROVE  ResultSound(q)'
        BY DEF ResultsSound
    <3>1. Captures(q)' = Captures(q) /\ Outputs(q)' = Outputs(q)
        BY <1>1 DEF Captures, Outputs
    <3>2. CASE q = o
        BY <1>1, <2>3, <2>7, <2>8, <3>1, <3>2 DEF OInv, ResultsSound, ResultSound, Unreviewed, files
    <3>3. CASE q # o
        BY <1>1, <2>8, <3>1, <3>3 DEF OInv, ResultsSound, ResultSound, files
    <3> QED
        BY <3>2, <3>3
  <2>12. CatalogFollowsFiles'
    <3>1. \A q \in Op, p \in Path : UnderWay(q, p) => UnderWay(q, p)'
        BY <1>1, <2>7, <2>8 DEF UnderWay
    <3> QED
        BY <1>1, <3>1 DEF OInv, CatalogFollowsFiles, files
  <2>13. WorkerSound'
    <3>1. Moving(o)'
        BY <1>1, <2>7, <2>8 DEF Moving
    <3> QED
        BY <2>2, <3>1 DEF WorkerSound
  <2> QED
      BY <2>9, <2>10, <2>11, <2>12, <2>13 DEF OInv
<1>2. CASE FailOnly(o)
    BY <1>2, FailOnlyKeeps
<1> QED
    BY <1>1, <1>2 DEF Begin

(***************************************************************************)
(* The step the worker is at while it moves files.                         *)
(***************************************************************************)
LEMMA CaptureKeeps ==
    ASSUME OInv, NEW o \in Op, Capture(o)
    PROVE  OInv'
<1> DEFINE p == First(o, ToCapture(o))
           expected == review[o].seen[p]
           resumed == captured[o][p] = expected
           vacant == captured[o][p] = NoFile /\ entry[p] = expected
           a == IF resumed THEN "mark" ELSE "rename"
<1>1. CASE /\ resumed \/ vacant
           /\ worker' = [worker EXCEPT !.at = a, !.path = p]
           /\ UNCHANGED <<files, rows, told, touched, counts>>
  <2>1. worker.op = o /\ Moving(o) /\ a \in Step
      BY DEF OInv, WorkerSound, Capture, At, Step
  <2>2. p \in ToCapture(o) /\ p \in Path
      BY FirstIn, ReviewPaths DEF Capture
  <2>3. (a = "rename" => captured[o][p] = NoFile) /\ (a = "mark" => captured[o][p] = review[o].seen[p])
        /\ a \in {"mark", "rename"}
      BY <1>1
  <2> HIDE DEF p, a
  <2>4. worker' \in [op: Op \union {0}, at: Step, path: Path \union {0}, draft: Review]
        /\ worker'.op = o /\ worker'.at = a /\ worker'.path = p
      BY <1>1, <2>1, <2>2, WorkerGoesTo
  <2>5. ToCapture(o)' = ToCapture(o) /\ Moving(o)'
      BY <1>1, <2>1 DEF ToCapture, Captures, Moving, rows
  <2>6. WorkerSound'
      BY <1>1, <2>2, <2>3, <2>4, <2>5 DEF WorkerSound, files, rows
  <2> QED
      BY <1>1, <2>4, <2>6, WorkerOnly
<1>2. CASE FailOnly(o)
    BY <1>2, FailOnlyKeeps
<1> QED
    BY <1>1, <1>2 DEF Capture

(***************************************************************************)
(* A file moves at one path of an operation under way: into its directory, *)
(* where there was none, or out of it.                                     *)
(***************************************************************************)
LEMMA FileMoves ==
    ASSUME OInv, NEW o \in Op, Moving(o), NEW p \in DOMAIN review[o].after,
           \A x \in Path : x # p => entry'[x] = entry[x],
           \A q \in Op, x \in Path : q # o \/ x # p => captured'[q][x] = captured[q][x],
           \/ captured'[o][p] = captured[o][p]
           \/ p \in ToCapture(o),
           state'[o] \in {"applying", "interrupted", "cancelled"},
           \A q \in Op : q # o => state'[q] = state[q],
           UNCHANGED <<phase, review, result, told, touched>>
    PROVE  ReviewsSound' /\ ResultsSound' /\ CatalogFollowsFiles'
<1>1. ReviewsSound'
    BY DEF OInv, ReviewsSound, ReviewSound
<1>2. ResultsSound'
  <2> SUFFICES ASSUME NEW q \in Op
               PROVE  ResultSound(q)'
      BY DEF ResultsSound
  <2>1. Captures(q)' = Captures(q) /\ Outputs(q)' = Outputs(q)
      BY DEF Captures, Outputs
  <2>2. result[q].captured \subseteq Path
      BY DEF OInv, TypeOK, Result
  <2>3. CASE q = o
    <3>1. p \in Path
        BY ReviewPaths
    <3>2. \A x \in Path : captured'[o][x] # NoFile => x \in Captures(o)
        BY <3>1 DEF OInv, ResultsSound, ResultSound, ToCapture
    <3>3. \A x \in result[o].captured : captured'[o][x] = review[o].seen[x]
        BY <2>2, <2>3 DEF OInv, ResultsSound, ResultSound, ToCapture
    <3> QED
        BY <2>1, <2>3, <3>2, <3>3 DEF OInv, ResultsSound, ResultSound, Moving, Unreviewed
  <2>4. CASE q # o
      BY <2>1, <2>2, <2>4 DEF OInv, ResultsSound, ResultSound
  <2> QED
      BY <2>3, <2>4
<1>3. CatalogFollowsFiles'
  <2>1. \A q \in Op, x \in Path : UnderWay(q, x) => UnderWay(q, x)'
      BY DEF UnderWay
  <2>2. UnderWay(o, p)'
      BY DEF UnderWay, Moving
  <2> QED
      BY <2>1, <2>2 DEF OInv, CatalogFollowsFiles
<1> QED
    BY <1>1, <1>2, <1>3

LEMMA RenameKeeps ==
    ASSUME OInv, NEW o \in Op, Rename(o)
    PROVE  OInv'
<1> DEFINE p == worker.path
<1>1. CASE entry[p] = NoFile
    BY <1>1, FailOnlyKeeps DEF Rename
<1>2. CASE entry[p] # NoFile
  <2>1. /\ worker.op = o /\ Moving(o) /\ p \in ToCapture(o) /\ captured[o][p] = NoFile
        /\ p \in Captures(o) /\ p \in Path /\ p \in DOMAIN review[o].after
      BY ReviewPaths DEF OInv, WorkerSound, Rename, At
  <2>2. /\ captured' = [captured EXCEPT ![o][p] = entry[p]]
        /\ entry' = [entry EXCEPT ![p] = NoFile]
        /\ UNCHANGED <<staged, phase, review, result, told, touched, counts>>
      BY <1>2 DEF Rename
  <2> HIDE DEF p
  <2>3. /\ entry' \in [Path -> File \union {NoFile}]
        /\ \A x \in Path : x # p => entry'[x] = entry[x]
      BY <2>1, <2>2 DEF OInv, TypeOK
  <2>4. captured' \in [Op -> [Path -> File \union {NoFile}]] /\ captured'[o][p] = entry[p]
      BY <2>1, <2>2 DEF OInv, TypeOK
  <2>5. \A q \in Op, x \in Path : q # o \/ x # p => captured'[q][x] = captured[q][x]
      BY <2>1, <2>2 DEF OInv, TypeOK
  <2>6. CASE entry[p] = review[o].seen[p]
    <3>1. worker' = [worker EXCEPT !.at = "mark"] /\ UNCHANGED state
        BY <1>2, <2>6 DEF Rename, p
    <3>2. worker' \in [op: Op \union {0}, at: Step, path: Path \union {0}, draft: Review]
          /\ worker'.op = o /\ worker'.at = "mark" /\ worker'.path = p
        BY <2>1, <3>1, WorkerGoes DEF Step, p
    <3>3. TypeOK'
        BY <2>2, <2>3, <2>4, <3>1, <3>2 DEF OInv, TypeOK
    <3>4. state'[o] = "applying"
        BY <2>1, <3>1 DEF Moving
    <3>5. ReviewsSound' /\ ResultsSound' /\ CatalogFollowsFiles'
        BY <2>1, <2>2, <2>3, <2>5, <3>1, <3>4, FileMoves
    <3>6. WorkerSound'
      <4>1. Moving(o)' /\ ToCapture(o)' = ToCapture(o)
          BY <2>1, <2>2, <3>1 DEF Moving, ToCapture, Captures
      <4>2. captured'[o][p] = review'[o].seen[p]
          BY <2>2, <2>4, <2>6
      <4> QED
          BY <2>1, <3>2, <4>1, <4>2 DEF WorkerSound
    <3> QED
        BY <3>3, <3>5, <3>6 DEF OInv
  <2>7. CASE entry[p] # review[o].seen[p]
    <3>1. Fail(o)
        BY <1>2, <2>7 DEF Rename, p
    <3>2. state[o] = "applying" /\ SetState(o, "interrupted")
        BY <2>1, <3>1 DEF Moving, Fail
    <3>3. /\ state' \in [Op -> State] /\ state'[o] = "interrupted"
          /\ \A q \in Op : q # o => state'[q] = state[q]
        BY <3>2, SetStateIs DEF OInv, State
    <3>4. WorkerSound' /\ worker' \in [op: Op \union {0}, at: Step, path: Path \union {0}, draft: Review]
        BY <3>1, IdleWorker DEF Fail
    <3>5. TypeOK'
        BY <2>2, <2>3, <2>4, <3>3, <3>4 DEF OInv, TypeOK
    <3>6. ReviewsSound' /\ ResultsSound' /\ CatalogFollowsFiles'
        BY <2>1, <2>2, <2>3, <2>5, <3>3, FileMoves
    <3> QED
        BY <3>4, <3>5, <3>6 DEF OInv
  <2> QED
      BY <2>6, <2>7
<1> QED
    BY <1>1, <1>2

LEMMA PublishKeeps ==
    ASSUME OInv, NEW o \in Op, Publish(o)
    PROVE  OInv'
<1> DEFINE p == First(o, ToPublish(o))
           movable == staged[o][p] # NoFile /\ Vacant(p)
<1>1. worker.op = o /\ Moving(o) /\ "mark" \in Step /\ ToCapture(o) = {}
    BY DEF OInv, WorkerSound, Publish, At, Step
<1>2. p \in ToPublish(o) /\ p \in Path /\ p \in DOMAIN review[o].after
    BY FirstIn, ReviewPaths DEF Publish
<1>3. CASE ~FailOnly(o)
  <2>1. /\ worker' = [worker EXCEPT !.at = "mark", !.path = p]
        /\ UNCHANGED <<captured, rows, told, touched, counts>>
        /\ \/ /\ entry' = [entry EXCEPT ![p] = staged[o][p]]
              /\ staged' = [staged EXCEPT ![o][p] = NoFile]
           \/ UNCHANGED <<entry, staged>>
      BY <1>3 DEF Publish
  <2> HIDE DEF p
  <2>2. worker' \in [op: Op \union {0}, at: Step, path: Path \union {0}, draft: Review]
        /\ worker'.op = o /\ worker'.at = "mark" /\ worker'.path = p
      BY <1>1, <1>2, <2>1, WorkerGoesTo
  <2>3. /\ entry' \in [Path -> File \union {NoFile}]
        /\ \A x \in Path : x # p => entry'[x] = entry[x]
      BY <1>2, <2>1 DEF OInv, TypeOK
  <2>4. staged' \in [Op -> [Path -> File \union {NoFile}]]
    <3>1. CASE staged' = [staged EXCEPT ![o][p] = NoFile]
        BY <1>2, <3>1 DEF OInv, TypeOK
    <3>2. CASE UNCHANGED staged
        BY <3>2 DEF OInv, TypeOK
    <3> QED
        BY <2>1, <3>1, <3>2
  <2>5. TypeOK'
      BY <2>1, <2>2, <2>3, <2>4 DEF OInv, TypeOK, rows
  <2>6. state'[o] = "applying" /\ UNCHANGED <<captured, state, phase, review, result, told, touched>>
      BY <1>1, <2>1 DEF Moving, rows
  <2>7. ReviewsSound' /\ ResultsSound' /\ CatalogFollowsFiles'
      BY <1>1, <1>2, <2>3, <2>6, FileMoves
  <2>8. WorkerSound'
    <3>1. Moving(o)' /\ ToCapture(o)' = {}
        BY <1>1, <2>6 DEF Moving, ToCapture, Captures
    <3> QED
        BY <1>2, <2>2, <3>1 DEF WorkerSound
  <2> QED
      BY <2>5, <2>7, <2>8 DEF OInv
<1>4. CASE FailOnly(o)
    BY <1>4, FailOnlyKeeps
<1> QED
    BY <1>3, <1>4

LEMMA MarkKeeps ==
    ASSUME OInv, NEW o \in Op, Mark(o)
    PROVE  OInv'
<1> DEFINE p == worker.path
           capturing == ToCapture(o) # {}
           c == IF capturing THEN result[o].captured \union {p} ELSE result[o].captured
           d == IF capturing THEN result[o].published ELSE result[o].published \union {p}
<1>1. CASE ~FailOnly(o)
  <2>1. /\ worker.op = o /\ Moving(o) /\ p \in Path /\ "files" \in Step
        /\ capturing => p \in ToCapture(o) /\ captured[o][p] = review[o].seen[p]
      BY DEF OInv, WorkerSound, Mark, At, Step
  <2>2. /\ result' = [result EXCEPT ![o].captured  = IF capturing THEN @ \union {p} ELSE @,
                                    ![o].published = IF capturing THEN @ ELSE @ \union {p}]
        /\ worker' = [worker EXCEPT !.at = "files", !.path = 0]
        /\ UNCHANGED <<files, state, phase, review, told, touched, counts>>
      BY <1>1 DEF Mark
  <2>3. worker' \in [op: Op \union {0}, at: Step, path: Path \union {0}, draft: Review]
        /\ worker'.op = o /\ worker'.at = "files"
    <3>1. 0 \in Path \union {0}
        OBVIOUS
    <3> QED
        BY <2>1, <2>2, <3>1, WorkerGoesTo
  <2>4. result[o] \in Result
      BY DEF OInv, TypeOK
  <2>5. \A x \in c : captured[o][x] = review[o].seen[x]
      BY <2>1 DEF OInv, ResultsSound, ResultSound
  <2>6. c \subseteq Path /\ d \subseteq Path
      BY <2>1, <2>4 DEF Result
  <2>7. result' = [result EXCEPT ![o].captured = c, ![o].published = d]
      BY <2>2
  <2> HIDE DEF c, d, p
  <2>8. /\ result' \in [Op -> Result] /\ result'[o].captured = c
        /\ result'[o].started = result[o].started /\ result'[o].outputs = result[o].outputs
        /\ \A q \in Op : q # o => result'[q] = result[q]
      BY <2>4, <2>6, <2>7 DEF OInv, TypeOK, Result
  <2>9. TypeOK'
      BY <2>2, <2>3, <2>8 DEF OInv, TypeOK, files
  <2>10. ReviewsSound'
      BY <2>2 DEF OInv, ReviewsSound, ReviewSound
  <2>11. ResultsSound'
    <3> SUFFICES ASSUME NEW q \in Op
                 PROVE  ResultSound(q)'
        BY DEF ResultsSound
    <3>1. Captures(q)' = Captures(q) /\ Outputs(q)' = Outputs(q)
        BY <2>2 DEF Captures, Outputs
    <3>2. CASE q = o
        BY <2>1, <2>2, <2>5, <2>8, <3>1, <3>2 DEF OInv, ResultsSound, ResultSound, Moving, files
    <3>3. CASE q # o
        BY <2>2, <2>8, <3>1, <3>3 DEF OInv, ResultsSound, ResultSound, files
    <3> QED
        BY <3>2, <3>3
  <2>12. CatalogFollowsFiles'
    <3>1. \A q \in Op, x \in Path : UnderWay(q, x) => UnderWay(q, x)'
        BY <2>2, <2>8 DEF UnderWay
    <3> QED
        BY <2>2, <3>1 DEF OInv, CatalogFollowsFiles, files
  <2>13. WorkerSound'
    <3>1. Moving(o)'
        BY <2>1, <2>2, <2>8 DEF Moving
    <3> QED
        BY <2>3, <3>1 DEF WorkerSound
  <2> QED
      BY <2>9, <2>10, <2>11, <2>12, <2>13 DEF OInv
<1>2. CASE FailOnly(o)
    BY <1>2, FailOnlyKeeps
<1> QED
    BY <1>1, <1>2

(***************************************************************************)
(* What the catalog is told at the commit is at the operation's paths.     *)
(***************************************************************************)
LEMMA PromisedVersions ==
    ASSUME OInv, NEW o \in Op, result[o].started, AsPromised(o)
    PROVE  \A p \in DOMAIN review[o].after : entry[p].version = review[o].after[p]
<1> SUFFICES ASSUME NEW p \in DOMAIN review[o].after
             PROVE  entry[p].version = review[o].after[p]
    OBVIOUS
<1>1. CASE review[o].after[p] = NoVersion
    BY <1>1, Absences DEF AsPromised
<1>2. CASE review[o].after[p] # NoVersion
  <2>1. p \in Outputs(o)
      BY <1>2 DEF Outputs
  <2> QED
      BY <1>2, <2>1 DEF AsPromised, OInv, ResultsSound, ResultSound
<1> QED
    BY <1>1, <1>2

LEMMA CommitKeeps ==
    ASSUME OInv, NEW o \in Op, Commit(o)
    PROVE  OInv'
<1>1. CASE ~FailOnly(o)
  <2>1. worker.op = o /\ Moving(o) /\ Captures(o) \subseteq result[o].captured
      BY DEF OInv, WorkerSound, Commit, At, ToCapture
  <2>2. /\ AsPromised(o)
        /\ told' = [p \in Path |-> IF p \in DOMAIN review[o].say THEN review[o].say[p] ELSE told[p]]
        /\ SetState(o, "succeeded")
        /\ phase' = [phase EXCEPT ![o] = "complete"]
        /\ worker' = Idle
        /\ UNCHANGED <<files, review, result, touched, counts>>
      BY <1>1 DEF Commit
  <2>3. /\ state' \in [Op -> State] /\ state'[o] = "succeeded"
        /\ \A q \in Op : q # o => state'[q] = state[q]
      BY <2>2, SetStateIs DEF OInv, State
  <2>4. WorkerSound' /\ worker' \in [op: Op \union {0}, at: Step, path: Path \union {0}, draft: Review]
      BY <2>2, IdleWorker
  <2>5. /\ phase' \in [Op -> {"prepare", "apply", "complete"}] /\ phase'[o] # "prepare"
        /\ \A q \in Op : q # o => phase'[q] = phase[q]
      BY <2>2 DEF OInv, TypeOK
  <2>6. review[o] \in Review /\ ReviewSound(o, review[o])
      BY DEF OInv, TypeOK, ReviewsSound
  <2>7. told' \in [Path -> Version \union {NoVersion}]
    <3>1. \A p \in DOMAIN review[o].say : review[o].say[p] \in Version \union {NoVersion}
        BY <2>6, ReviewShape, PartialShape
    <3> QED
        BY <2>2, <3>1 DEF OInv, TypeOK
  <2>8. TypeOK'
      BY <2>2, <2>3, <2>4, <2>5, <2>7 DEF OInv, TypeOK, files
  <2>9. ReviewsSound'
      BY <2>2 DEF OInv, ReviewsSound, ReviewSound
  <2>10. ResultsSound'
    <3> SUFFICES ASSUME NEW q \in Op
                 PROVE  ResultSound(q)'
        BY DEF ResultsSound
    <3>1. Captures(q)' = Captures(q) /\ Outputs(q)' = Outputs(q)
        BY <2>2 DEF Captures, Outputs
    <3>2. CASE q = o
        BY <2>1, <2>2, <2>3, <2>5, <3>1, <3>2 DEF OInv, ResultsSound, ResultSound, Unreviewed, files
    <3>3. CASE q # o
        BY <2>2, <2>3, <2>5, <3>1, <3>3 DEF OInv, ResultsSound, ResultSound, files
    <3> QED
        BY <3>2, <3>3
  <2>11. CatalogFollowsFiles'
    <3>1. SUFFICES ASSUME NEW p \in Path \ touched
                   PROVE  told'[p] \in {NoVersion, entry[p].version} \/ \E q \in Op : UnderWay(q, p)'
        BY <2>2 DEF CatalogFollowsFiles, files
    <3>2. CASE p \in DOMAIN review[o].after
      <4>1. told'[p] = review[o].say[p]
          BY <2>2, <2>6, <3>2 DEF ReviewSound
      <4>2. entry[p].version = review[o].after[p]
          BY <2>1, <2>2, <3>2, PromisedVersions DEF Moving
      <4> QED
          BY <2>6, <3>2, <4>1, <4>2 DEF ReviewSound
    <3>3. CASE p \notin DOMAIN review[o].after
      <4>1. told'[p] = told[p]
          BY <2>2, <2>6, <3>3 DEF ReviewSound
      <4>2. \A q \in Op : UnderWay(q, p) => UnderWay(q, p)'
          BY <2>2, <2>3, <3>3 DEF UnderWay
      <4> QED
          BY <4>1, <4>2 DEF OInv, CatalogFollowsFiles
    <3> QED
        BY <3>2, <3>3
  <2> QED
      BY <2>4, <2>8, <2>9, <2>10, <2>11 DEF OInv
<1>2. CASE FailOnly(o)
    BY <1>2, FailOnlyKeeps
<1> QED
    BY <1>1, <1>2

-----------------------------------------------------------------------------
(* Around the server                                                       *)

LEMMA CrashKeeps ==
    ASSUME OInv, Crash
    PROVE  OInv'
<1>1. /\ state' \in [Op -> State]
      /\ \A q \in Op : state'[q] = state[q] \/ state'[q] = "interrupted"
    BY DEF OInv, TypeOK, Crash, State
<1>2. counts' \in Counts
  <2>1. counts \in Counts /\ MaxCrashes \in Nat
      BY SourceAssumption DEF OInv, TypeOK, Counts
  <2>2. counts.crashes + 1 \in 0..MaxCrashes
      BY <2>1 DEF Counts, Crash
  <2> QED
      BY <2>1, <2>2 DEF Counts, Crash
<1>3. WorkerSound' /\ worker' \in [op: Op \union {0}, at: Step, path: Path \union {0}, draft: Review]
    BY IdleWorker DEF Crash
<1>4. TypeOK'
    BY <1>1, <1>2, <1>3 DEF OInv, TypeOK, Counts, Crash, files
<1>5. \A q \in Op : LegalState(q)
    BY <1>1 DEF LegalState, OInv, ResultsSound, ResultSound, Unreviewed, Crash
<1>6. ReviewsSound' /\ ResultsSound' /\ CatalogFollowsFiles'
    BY <1>5, StateStep DEF OInv, Crash, files
<1> QED
    BY <1>3, <1>4, <1>6 DEF OInv

LEMMA OutsideKeeps ==
    ASSUME OInv, NEW p \in Path, Outside(p)
    PROVE  OInv'
<1>1. counts' \in Counts /\ counts.writes + 1 \in 0..MaxWrites
  <2>1. counts \in Counts /\ MaxWrites \in Nat
      BY SourceAssumption DEF OInv, TypeOK, Counts
  <2>2. counts.writes + 1 \in 0..MaxWrites
      BY <2>1 DEF Counts, Outside
  <2> QED
      BY <2>1, <2>2 DEF Counts, Outside
<1>2. /\ entry' \in [Path -> File \union {NoFile}]
      /\ \A x \in Path : x # p => entry'[x] = entry[x]
  <2>1. PICK f \in File \union {NoFile} : entry' = [entry EXCEPT ![p] = f]
    <3>1. Original(p, counts.writes + 1) \in File
        BY <1>1, OriginalIsFile
    <3> QED
        BY <3>1 DEF Outside
  <2> QED
      BY <2>1 DEF OInv, TypeOK
<1>3. TypeOK'
    BY <1>1, <1>2 DEF OInv, TypeOK, Counts, Outside, rows
<1>4. ReviewsSound'
    BY DEF OInv, ReviewsSound, ReviewSound, Outside, rows
<1>5. ResultsSound'
    BY DEF OInv, ResultsSound, ResultSound, Captures, Outputs, Outside, rows
<1>6. WorkerSound'
  <2>1. \A q : ReviewSound(q, worker.draft)' <=> ReviewSound(q, worker.draft)
      BY DEF ReviewSound, Outside
  <2> QED
      BY <2>1 DEF OInv, WorkerSound, Preparing, Applying, Moving, ToCapture, Captures, Outputs, Outside, rows
<1>7. CatalogFollowsFiles'
  <2>1. \A q \in Op, x \in Path : UnderWay(q, x) => UnderWay(q, x)'
      BY DEF UnderWay, Outside, rows
  <2> QED
      BY <1>2, <2>1 DEF OInv, CatalogFollowsFiles, Outside
<1> QED
    BY <1>3, <1>4, <1>5, <1>6, <1>7 DEF OInv

-----------------------------------------------------------------------------
(* The whole invariant.                                                    *)

LEMMA InitOInv == Init => OInv
<1> SUFFICES ASSUME Init
             PROVE  OInv
    OBVIOUS
<1>1. MaxWrites \in Nat /\ MaxCrashes \in Nat /\ MaxStops \in Nat /\ Present \subseteq Path
    BY SourceAssumption
<1>2. \A p \in Path : entry[p] \in File \union {NoFile} /\ told[p] = entry[p].version
    BY <1>1, OriginalIsFile DEF Init
<1>3. entry \in [Path -> File \union {NoFile}] /\ told \in [Path -> Version \union {NoVersion}]
  <2>1. entry \in [Path -> File \union {NoFile}]
      BY <1>2 DEF Init
  <2>2. \A p \in Path : entry[p].version \in Version \union {NoVersion}
      BY <1>2, Absences
  <2> QED
      BY <2>1, <2>2 DEF Init
<1>4. NoResult \in Result
    BY NoneIn DEF NoResult, Result
<1>5. counts \in Counts
    BY <1>1 DEF Init, Counts
<1>6. worker \in [op: Op \union {0}, at: Step, path: Path \union {0}, draft: Review]
    BY NoReviewSound DEF Init, Idle, Step
<1>7. TypeOK
    BY <1>3, <1>4, <1>5, <1>6, NoReviewSound DEF Init, TypeOK, Counts, State
<1>8. ReviewsSound
    BY NoReviewSound DEF Init, ReviewsSound
<1>9. ResultsSound
    BY DEF Init, ResultsSound, ResultSound, NoResult
<1>10. WorkerSound
    BY DEF Init, WorkerSound, Idle
<1>11. CatalogFollowsFiles
    BY <1>2 DEF CatalogFollowsFiles
<1> QED
    BY <1>7, <1>8, <1>9, <1>10, <1>11 DEF OInv

LEMMA NextOInv == OInv /\ [Next]_vars => OInv'
<1> SUFFICES ASSUME OInv, [Next]_vars
             PROVE  OInv'
    OBVIOUS
<1>1. ASSUME NEW o \in Op, Work(o)
      PROVE  OInv'
    BY <1>1, ClaimKeeps, PrepareKeeps, SaveReviewKeeps, SkipKeeps, ResumeKeeps, StageKeeps,
       BeginKeeps, CaptureKeeps, RenameKeeps, PublishKeeps, MarkKeeps, CommitKeeps
    DEF Work
<1>2. CASE UNCHANGED vars
    BY <1>2 DEF OInv, TypeOK, ReviewsSound, ReviewSound, ResultsSound, ResultSound, WorkerSound, Preparing,
       Applying, Moving, ToCapture, Captures, Outputs, CatalogFollowsFiles, UnderWay,
       vars, files, rows
<1> QED
    BY <1>1, <1>2, EnqueueKeeps, AcceptKeeps, CancelKeeps, RetryKeeps, StopKeeps, OutsideKeeps,
       CrashKeeps
    DEF Next

LEMMA OInvHolds == Spec => []OInv
BY InitOInv, NextOInv, PTL DEF Spec

(***************************************************************************)
(* The files, the journal's rows and the worker are what their columns say *)
(* (source_journal.py, source_execute.py), and the catalog records the     *)
(* content that is at a path through crashes, cancellations and retries,   *)
(* for every path no outside program touched and no application under way  *)
(* captures or publishes (apply, commit).                                  *)
(***************************************************************************)
THEOREM SourcesFollowed == Spec => [](TypeOK /\ CatalogFollowsFiles)
<1>1. OInv => TypeOK /\ CatalogFollowsFiles
    BY DEF OInv
<1> QED
    BY <1>1, OInvHolds, PTL

-----------------------------------------------------------------------------
(***************************************************************************)
(* An original is at a path or in an operation's directory.                *)
(***************************************************************************)
Placed(f) ==
    (\E p \in Path : entry[p] = f) \/ (\E o \in Op, p \in Path : captured[o][p] = f)

OriginalsArePlaced == \A f \in File : f \in Originals <=> f.by = 0 /\ Placed(f)

LEMMA OriginalsAre == TypeOK => OriginalsArePlaced /\ Originals \subseteq File
<1> SUFFICES ASSUME TypeOK
             PROVE  OriginalsArePlaced /\ Originals \subseteq File
    OBVIOUS
<1>1. \A f : f \in Range(entry) <=> \E p \in Path : entry[p] = f
    BY DEF TypeOK, Range
<1>2. \A o \in Op : \A f : f \in Range(captured[o]) <=> \E p \in Path : captured[o][p] = f
    BY DEF TypeOK, Range
<1>3. \A f : f \in Originals <=> Placed(f) /\ f # NoFile /\ f.by = 0
  <2> SUFFICES ASSUME NEW f
               PROVE  f \in Originals <=> Placed(f) /\ f # NoFile /\ f.by = 0
      OBVIOUS
  <2>1. f \in UNION {Range(captured[o]) : o \in Op} <=> \E o \in Op : f \in Range(captured[o])
      OBVIOUS
  <2>2. f \in UNION {Range(captured[o]) : o \in Op} <=> \E o \in Op, p \in Path : captured[o][p] = f
      BY <1>2, <2>1
  <2> QED
      BY <1>1, <2>2 DEF Originals, Placed
<1>4. OriginalsArePlaced
    BY <1>3, Absences DEF OriginalsArePlaced
<1>5. \A f : Placed(f) => f \in File \union {NoFile}
    BY DEF TypeOK, Placed
<1> QED
    BY <1>3, <1>4, <1>5

(***************************************************************************)
(* A step keeps the originals when each stays where it was or moves into   *)
(* a directory.                                                            *)
(***************************************************************************)
LEMMA KeptInPlace ==
    ASSUME TypeOK, TypeOK',
           \A p \in Path : entry[p] = NoFile \/ entry'[p] = entry[p]
                           \/ \E o \in Op : captured'[o][p] = entry[p],
           \A o \in Op, p \in Path : captured[o][p] = NoFile \/ captured'[o][p] = captured[o][p]
    PROVE  Originals \subseteq Originals'
<1>1. OriginalsArePlaced'
    BY OriginalsAre, PTL
<1> SUFFICES ASSUME NEW f \in Originals
             PROVE  f \in Originals'
    OBVIOUS
<1>2. f \in File /\ f # NoFile /\ f.by = 0 /\ Placed(f)
    BY OriginalsAre, Absences DEF OriginalsArePlaced
<1>3. Placed(f)'
    BY <1>2 DEF Placed
<1> QED
    BY <1>1, <1>2, <1>3 DEF OriginalsArePlaced

LEMMA StepKeepsOriginals ==
    ASSUME OInv, OInv', Next, counts'.writes = counts.writes
    PROVE  Originals \subseteq Originals'
<1>1. CASE UNCHANGED <<entry, captured>>
    BY <1>1 DEF Originals
<1>2. ASSUME NEW o \in Op, Rename(o)
      PROVE  Originals \subseteq Originals'
  <2>1. CASE FailOnly(o)
      BY <1>1, <2>1 DEF FailOnly, files
  <2>2. CASE ~FailOnly(o)
    <3> DEFINE p == worker.path
    <3>1. p \in ToCapture(o) /\ captured[o][p] = NoFile
        BY <1>2 DEF OInv, WorkerSound, Rename, At
    <3>2. p \in Path
        BY <3>1, ReviewPaths
    <3>3. captured' = [captured EXCEPT ![o][p] = entry[p]] /\ entry' = [entry EXCEPT ![p] = NoFile]
        BY <1>2, <2>2 DEF Rename
    <3> HIDE DEF p
    <3>4. captured'[o][p] = entry[p] /\ \A x \in Path : x # p => entry'[x] = entry[x]
        BY <3>2, <3>3 DEF OInv, TypeOK
    <3>5. \A q \in Op, x \in Path : captured[q][x] = NoFile \/ captured'[q][x] = captured[q][x]
        BY <3>1, <3>2, <3>3 DEF OInv, TypeOK
    <3> QED
        BY <3>4, <3>5, KeptInPlace DEF OInv
  <2> QED
      BY <2>1, <2>2
<1>3. ASSUME NEW o \in Op, Publish(o)
      PROVE  Originals \subseteq Originals'
  <2> DEFINE p == First(o, ToPublish(o))
  <2>1. CASE UNCHANGED <<entry, captured>>
      BY <1>1, <2>1
  <2>2. CASE entry' = [entry EXCEPT ![p] = staged[o][p]] /\ Vacant(p) /\ UNCHANGED captured
    <3>1. p \in Path
        BY <1>3, FirstIn, ReviewPaths DEF Publish
    <3> HIDE DEF p
    <3>2. \A x \in Path : entry[x] = NoFile \/ entry'[x] = entry[x]
        BY <2>2, <3>1 DEF OInv, TypeOK, Vacant
    <3> QED
        BY <2>2, <3>2, KeptInPlace DEF OInv
  <2> QED
      BY <1>3, <2>1, <2>2 DEF Publish, FailOnly, files
<1>4. ASSUME NEW p \in Path, Outside(p)
      PROVE  FALSE
  <2>1. counts.writes \in Nat /\ counts'.writes = counts.writes + 1
      BY <1>4, SourceAssumption DEF OInv, TypeOK, Outside
  <2> QED
      BY <2>1
<1>5. ASSUME NEW o \in Op, Work(o), ~Rename(o), ~Publish(o)
      PROVE  UNCHANGED <<entry, captured>>
    BY <1>5 DEF Work, Claim, Prepare, SaveReview, Skip, Resume, Stage, Begin, Capture, Mark, Commit,
       FailOnly, files
<1>6. ASSUME NEW o \in Op, Enqueue(o) \/ Accept(o) \/ Cancel(o) \/ Retry(o) \/ Stop(o)
      PROVE  UNCHANGED <<entry, captured>>
    BY <1>6 DEF Enqueue, Accept, Cancel, Retry, Stop, files
<1>7. CASE Crash
    BY <1>1, <1>7 DEF Crash, files
<1> QED
    BY <1>1, <1>2, <1>3, <1>4, <1>5, <1>6, <1>7 DEF Next

(***************************************************************************)
(* No step of the server makes an original disappear: the capture moves    *)
(* what is at a path into a directory that holds nothing of that path, and *)
(* the publication replaces nothing (capture, relocate).                   *)
(***************************************************************************)
THEOREM SourcesKeepOriginals == Spec => OriginalsKept
<1>1. OInv /\ OInv' /\ [Next]_vars => [counts'.writes = counts.writes => Originals \subseteq Originals']_vars
    BY StepKeepsOriginals
<1> QED
    BY <1>1, OInvHolds, NextOInv, PTL DEF Spec, OriginalsKept

-----------------------------------------------------------------------------
(***************************************************************************)
(* Which rows a step may move: a cancelled one only when there was nothing *)
(* to do, and to success only from the last transaction or likewise.       *)
(***************************************************************************)
RowLegal(q) ==
    /\ state[q] = "cancelled" => state'[q] = "cancelled" \/ review[q].skipped
    /\ state[q] # "succeeded" /\ state'[q] = "succeeded" =>
        review[q].skipped \/ (Moving(q) /\ AsPromised(q))

LEMMA RowMoves ==
    ASSUME OInv, NEW o \in Op, NEW s \in State, SetState(o, s),
           state[o] = "cancelled" => s = "cancelled" \/ review[o].skipped,
           s = "succeeded" => review[o].skipped \/ (Moving(o) /\ AsPromised(o))
    PROVE  \A q \in Op : RowLegal(q)
BY SetStateIs DEF OInv, RowLegal

LEMMA StaysPut ==
    ASSUME UNCHANGED state
    PROVE  \A q \in Op : RowLegal(q)
BY DEF RowLegal

LEMMA FailMoves ==
    ASSUME OInv, NEW o \in Op, Fail(o)
    PROVE  \A q \in Op : RowLegal(q)
<1> DEFINE s == IF state[o] = "cancelled" THEN "cancelled" ELSE "interrupted"
<1>1. s \in State /\ SetState(o, s) /\ (state[o] = "cancelled" => s = "cancelled") /\ s # "succeeded"
    BY DEF Fail, State
<1> HIDE DEF s
<1> QED
    BY <1>1, RowMoves

LEMMA StepMovesRows ==
    ASSUME OInv, Next
    PROVE  \A q \in Op : RowLegal(q)
<1>1. ASSUME NEW o \in Op, FailOnly(o)
      PROVE  \A q \in Op : RowLegal(q)
    BY <1>1, FailMoves DEF FailOnly
<1>2. ASSUME NEW o \in Op, Enqueue(o) \/ Accept(o) \/ Cancel(o) \/ Retry(o) \/ Claim(o)
      PROVE  \A q \in Op : RowLegal(q)
  <2>1. \E s \in State \ {"succeeded"} : SetState(o, s) /\ (state[o] = "cancelled" => s = "cancelled")
      BY <1>2 DEF Enqueue, Accept, Cancel, Retry, Claim, State
  <2> QED
      BY <2>1, RowMoves
<1>3. ASSUME NEW o \in Op, Prepare(o) \/ Resume(o) \/ Stage(o) \/ Begin(o) \/ Capture(o) \/ Publish(o) \/ Mark(o)
      PROVE  \A q \in Op : RowLegal(q)
  <2>1. UNCHANGED state \/ FailOnly(o)
      BY <1>3 DEF Prepare, Resume, Stage, Begin, Capture, Publish, Mark, rows
  <2> QED
      BY <1>1, <2>1, StaysPut
<1>4. ASSUME NEW o \in Op, SaveReview(o)
      PROVE  \A q \in Op : RowLegal(q)
  <2>1. UNCHANGED state \/ (state[o] = "preparing" /\ SetState(o, "prepared"))
      BY <1>4 DEF SaveReview
  <2>2. "prepared" \in State
      BY DEF State
  <2>3. CASE state[o] = "preparing" /\ SetState(o, "prepared")
      BY <2>2, <2>3, RowMoves
  <2> QED
      BY <2>1, <2>3, StaysPut
<1>5. ASSUME NEW o \in Op, Skip(o)
      PROVE  \A q \in Op : RowLegal(q)
  <2>1. SetState(o, "succeeded") /\ review[o].skipped /\ "succeeded" \in State
      BY <1>5 DEF Skip, State
  <2> QED
      BY <2>1, RowMoves
<1>6. ASSUME NEW o \in Op, Rename(o)
      PROVE  \A q \in Op : RowLegal(q)
  <2>1. UNCHANGED state \/ FailOnly(o) \/ Fail(o)
      BY <1>6 DEF Rename
  <2> QED
      BY <1>1, <2>1, FailMoves, StaysPut
<1>7. ASSUME NEW o \in Op, Commit(o)
      PROVE  \A q \in Op : RowLegal(q)
  <2>1. Moving(o)
      BY <1>7 DEF OInv, WorkerSound, Commit, At
  <2>2. FailOnly(o) \/ (AsPromised(o) /\ SetState(o, "succeeded"))
      BY <1>7 DEF Commit
  <2>3. "succeeded" \in State /\ state[o] # "cancelled"
      BY <2>1 DEF Moving, State
  <2>4. CASE AsPromised(o) /\ SetState(o, "succeeded")
      BY <2>1, <2>3, <2>4, RowMoves
  <2> QED
      BY <1>1, <2>2, <2>4
<1>8. ASSUME NEW o \in Op, Stop(o)
      PROVE  \A q \in Op : RowLegal(q)
    BY <1>8, FailMoves DEF Stop
<1>9. ASSUME NEW p \in Path, Outside(p)
      PROVE  \A q \in Op : RowLegal(q)
    BY <1>9, StaysPut DEF Outside, rows
<1>10. CASE Crash
    BY <1>10 DEF Crash, RowLegal, OInv, TypeOK
<1>11. ASSUME NEW o \in Op, Work(o)
       PROVE  \A q \in Op : RowLegal(q)
    BY <1>2, <1>3, <1>4, <1>5, <1>6, <1>7, <1>11 DEF Work
<1> QED
    BY <1>2, <1>8, <1>9, <1>10, <1>11 DEF Next

LEMMA OInvCaptures == OInv => CapturedAsReviewed
BY DEF OInv, ResultsSound, ResultSound, CapturedAsReviewed

LEMMA OInvCommits == OInv /\ Next => CommitIsTrue
BY StepMovesRows, PromisedVersions DEF RowLegal, Moving, CommitIsTrue

(***************************************************************************)
(* Success is true for every interleaving of cancellations, crashes,       *)
(* errors and outside writes: at the last transaction every path holds     *)
(* what was promised, and what was captured is what the owner reviewed     *)
(* (apply, commit).                                                        *)
(***************************************************************************)
THEOREM SourcesSucceedTruly == Spec => SuccessIsTrue
<1>1. OInv /\ [Next]_vars => [CommitIsTrue]_vars
    BY OInvCommits
<1> QED
    BY <1>1, OInvCaptures, OInvHolds, PTL DEF Spec, SuccessIsTrue

(***************************************************************************)
(* A cancellation is never undone by the preparation or the application it *)
(* overtook (cancel, save_review, the checkpoints of apply).               *)
(***************************************************************************)
THEOREM SourcesStayCancelled == Spec => CancelledStays
<1>1. OInv /\ [Next]_vars =>
        [\A o \in Op : state[o] = "cancelled" => state'[o] = "cancelled" \/ review[o].skipped]_vars
    BY StepMovesRows DEF RowLegal
<1> QED
    BY <1>1, OInvHolds, PTL DEF Spec, CancelledStays
==============================================================================
