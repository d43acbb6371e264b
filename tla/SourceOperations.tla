--------------------------- MODULE SourceOperations ---------------------------
(***************************************************************************)
(* Portable source operations: copy, move, trash and undo of library       *)
(* files, as a journal of rows, a directory of artifacts per operation and *)
(* the library's own paths.                                                *)
(*                                                                         *)
(* The exchange worker prepares a review of what it saw, the owner accepts *)
(* it, and the worker applies it: it stages the outputs, captures what     *)
(* stands in the way by renaming it into the operation's directory,        *)
(* publishes the outputs without replacing anything, and tells the         *)
(* catalog.  After each of these it writes down how far it came, so that a *)
(* retry continues from there.  Programs outside the server write to and   *)
(* remove the same paths at any moment, and the server may die at any      *)
(* moment.                                                                 *)
(***************************************************************************)
EXTENDS Naturals, Functions

CONSTANTS
    Op,          \* operations, numbered in the order they are queued
    Path,        \* library paths, numbered from 1
    Intent,      \* the action, source, destination, collision and prior of each operation
    Present,     \* the paths that hold a catalogued file at first
    MaxWrites,   \* bound: files written or removed from outside
    MaxCrashes,  \* bound: restarts of the server
    MaxStops     \* bound: withdrawn permissions and storage errors

ASSUME SourceAssumption ==
    /\ Op \subseteq Nat \ {0}
    /\ Path \subseteq Nat \ {0}
    /\ Intent \in [Op -> [action: {"copy", "move", "trash", "undo"},
                          from: Path \union {0}, to: Path \union {0},
                          collision: {"fail", "skip", "replace"}, prior: Op \union {0}]]
    /\ \A o \in Op : Intent[o].action # "undo" => Intent[o].from \in Path
    /\ \A o \in Op : Intent[o].action \in {"copy", "move"} => Intent[o].to \in Path
    /\ \A o \in Op : Intent[o].action = "undo" =>
          Intent[o].prior \in Op /\ Intent[Intent[o].prior].action # "undo"
    /\ Present \subseteq Path
    /\ {MaxWrites, MaxCrashes, MaxStops} \subseteq Nat

VARIABLES
    entry,     \* the file at each library path
    captured,  \* the originals an operation holds in its directory
    staged,    \* the outputs an operation holds in its directory
    state,     \* the state column of each operation's row
    phase,     \* the phase column
    review,    \* the review column
    result,    \* the result column: how far the application came
    told,      \* the content the catalog records at each path
    worker,    \* the operation the worker has claimed, and the step it is at
    touched,   \* the paths something outside the server wrote or removed
    counts     \* [writes, crashes, stops] so far

rows == <<state, phase, review, result>>
files == <<entry, captured, staged>>
vars == <<files, rows, told, worker, touched, counts>>

\* A content version is named by the path it was first written at and a number.
Version == Path \X (0..MaxWrites)
NoVersion == <<0, 0>>

\* A physical file is a version, the path it was made for and the operation that made it.
File == [version: Version, at: Path, by: Op \union {0}]
NoFile == [version |-> NoVersion, at |-> 0, by |-> 0]

Original(p, n) == [version |-> <<p, n>>, at |-> p, by |-> 0]

None == [p \in {} |-> p]
NoReview == [skipped |-> FALSE, seen |-> None, before |-> None, after |-> None,
             said |-> None, say |-> None]
NoResult == [started |-> FALSE, outputs |-> None, captured |-> {}, published |-> {}]
Idle == [op |-> 0, at |-> "idle", path |-> 0, draft |-> NoReview]

Step == {"idle", "prepare", "reviewed", "apply", "staged", "files", "rename", "mark"}

State == {"absent", "queued", "preparing", "prepared", "accepted", "applying",
          "succeeded", "interrupted", "cancelled"}

Partial(S) == UNION {[D -> S] : D \in SUBSET Path}

Result == [started: BOOLEAN, outputs: Partial(File),
           captured: SUBSET Path, published: SUBSET Path]

Review == [skipped: BOOLEAN, seen: Partial(File \union {NoFile}),
           before: Partial(Version \union {NoVersion}), after: Partial(Version \union {NoVersion}),
           said: Partial(Version \union {NoVersion}), say: Partial(Version \union {NoVersion})]

(***************************************************************************)
(* Types of the files, of the operation rows and of the worker's step      *)
(* (source_journal.py, source_execute.py).                                 *)
(***************************************************************************)
TypeOK ==
    /\ entry \in [Path -> File \union {NoFile}]
    /\ captured \in [Op -> [Path -> File \union {NoFile}]]
    /\ staged \in [Op -> [Path -> File \union {NoFile}]]
    /\ state \in [Op -> State]
    /\ phase \in [Op -> {"prepare", "apply", "complete"}]
    /\ review \in [Op -> Review]
    /\ result \in [Op -> Result]
    /\ told \in [Path -> Version \union {NoVersion}]
    /\ worker \in [op: Op \union {0}, at: Step, path: Path \union {0}, draft: Review]
    /\ touched \subseteq Path
    /\ counts \in [writes: 0..MaxWrites, crashes: 0..MaxCrashes, stops: 0..MaxStops]

Init ==
    /\ entry = [p \in Path |-> IF p \in Present THEN Original(p, 0) ELSE NoFile]
    /\ captured = [o \in Op |-> [p \in Path |-> NoFile]]
    /\ staged = [o \in Op |-> [p \in Path |-> NoFile]]
    /\ state = [o \in Op |-> "absent"]
    /\ phase = [o \in Op |-> "prepare"]
    /\ review = [o \in Op |-> NoReview]
    /\ result = [o \in Op |-> NoResult]
    /\ told = [p \in Path |-> entry[p].version]
    /\ worker = Idle
    /\ touched = {}
    /\ counts = [writes |-> 0, crashes |-> 0, stops |-> 0]

-----------------------------------------------------------------------------
(* The owner's requests                                                    *)

SetState(o, s) == state' = [state EXCEPT ![o] = s]

Enqueue(o) ==
    /\ state[o] = "absent"
    /\ \A q \in Op : q < o => state[q] # "absent"
    /\ SetState(o, "queued")
    /\ UNCHANGED <<files, phase, review, result, told, worker, touched, counts>>

Accept(o) ==
    /\ state[o] = "prepared"
    /\ SetState(o, "accepted")
    /\ phase' = [phase EXCEPT ![o] = "apply"]
    /\ UNCHANGED <<files, review, result, told, worker, touched, counts>>

Cancel(o) ==
    /\ \/ state[o] \in {"queued", "preparing", "prepared", "accepted"}
       \/ state[o] \in {"applying", "interrupted"} /\ ~result[o].started
    /\ SetState(o, "cancelled")
    /\ UNCHANGED <<files, phase, review, result, told, worker, touched, counts>>

Retry(o) ==
    /\ state[o] = "interrupted"
    /\ SetState(o, IF phase[o] = "prepare" THEN "queued" ELSE "accepted")
    /\ UNCHANGED <<files, phase, review, result, told, worker, touched, counts>>

-----------------------------------------------------------------------------
(* run_one: claim, prepare                                                 *)

At(o, step) == worker.op = o /\ worker.at = step

Claim(o) ==
    /\ worker = Idle
    /\ state[o] \in {"queued", "accepted"}
    /\ \A q \in Op : q < o => state[q] \notin {"queued", "accepted"}
    /\ SetState(o, IF state[o] = "queued" THEN "preparing" ELSE "applying")
    /\ worker' = [Idle EXCEPT !.op = o, !.at = IF state[o] = "queued" THEN "prepare" ELSE "apply"]
    /\ UNCHANGED <<files, phase, review, result, told, touched, counts>>

\* the except clause of run_one: a cancellation stays one
Fail(o) ==
    /\ SetState(o, IF state[o] = "cancelled" THEN "cancelled" ELSE "interrupted")
    /\ worker' = Idle

FailOnly(o) ==
    /\ Fail(o)
    /\ UNCHANGED <<files, phase, review, result, told, touched, counts>>

\* prepare for copy, move and trash: what is seen, and the versions before and after
Destination(o) == IF Intent[o].action = "trash" THEN {} ELSE {Intent[o].to}
Moved(o) == IF Intent[o].action = "copy" THEN {} ELSE {Intent[o].from}

\* there is nothing to do when the destination is taken and the owner said to skip it
Skipping(o) ==
    Intent[o].collision = "skip" /\ \E p \in Destination(o) : entry[p] # NoFile

Reviewable(o) ==
    LET from == Intent[o].from IN
    /\ entry[from] # NoFile
    /\ from = Intent[o].to => Intent[o].action = "copy"
    /\ \/ Skipping(o)
       \/ /\ from # Intent[o].to
          /\ \A p \in {from} \union Destination(o) : told[p] \in {NoVersion, entry[p].version}
          /\ \A p \in Destination(o) : entry[p] # NoFile => Intent[o].collision # "fail"

Reviewed(o) ==
    LET from == Intent[o].from
        paths == Destination(o) \union Moved(o)
        after == [p \in paths |-> IF p = from THEN NoVersion ELSE entry[from].version]
    IN IF Skipping(o)
         THEN [NoReview EXCEPT !.skipped = TRUE]
         ELSE [skipped |-> FALSE,
               seen    |-> [p \in paths \union {from} |-> entry[p]],
               before  |-> [p \in paths |-> entry[p].version],
               after   |-> after,
               said    |-> [p \in paths \union {from} |-> told[p]],
               say     |-> [p \in paths |-> IF Intent[o].action # "copy" /\ told[from] = NoVersion
                                              THEN NoVersion ELSE after[p]]]

\* prepare_undo: the prior operation's paths hold exactly what it left there
Undone(prior) ==
    \E o \in Op : Intent[o].action = "undo" /\ Intent[o].prior = prior /\ state[o] = "succeeded"

Undoable(o) ==
    LET prior == Intent[o].prior IN
    /\ state[prior] = "succeeded" /\ ~review[prior].skipped
    /\ ~Undone(prior)
    /\ \A p \in DOMAIN review[prior].after :
        /\ entry[p].version = review[prior].after[p]
        /\ told[p] = review[prior].say[p]

InverseReview(o) ==
    LET done == review[Intent[o].prior]
        paths == DOMAIN done.after
    IN [skipped |-> FALSE,
        seen    |-> [p \in paths |-> entry[p]],
        before  |-> done.after,
        after   |-> done.before,
        said    |-> done.say,
        say     |-> [p \in paths |-> done.said[p]]]

Prepare(o) ==
    /\ At(o, "prepare")
    /\ LET undo == Intent[o].action = "undo"
           able == IF undo THEN Undoable(o) ELSE Reviewable(o)
       IN \/ /\ able
             /\ worker' = [worker EXCEPT !.at = "reviewed",
                                         !.draft = IF undo THEN InverseReview(o) ELSE Reviewed(o)]
             /\ UNCHANGED <<files, rows, told, touched, counts>>
          \/ ~able /\ FailOnly(o)

\* Mutant of SaveReview: the state is not looked at again.
SaveReviewUnguarded(o) ==
    /\ At(o, "reviewed")
    /\ SetState(o, "prepared")
    /\ review' = [review EXCEPT ![o] = worker.draft]
    /\ worker' = Idle
    /\ UNCHANGED <<files, phase, result, told, touched, counts>>

\* the review is kept only if nobody cancelled meanwhile
SaveReview(o) ==
    /\ At(o, "reviewed")
    /\ IF state[o] = "preparing"
         THEN /\ SetState(o, "prepared")
              /\ review' = [review EXCEPT ![o] = worker.draft]
         ELSE UNCHANGED <<state, review>>
    /\ worker' = Idle
    /\ UNCHANGED <<files, phase, result, told, touched, counts>>

-----------------------------------------------------------------------------
(* apply                                                                   *)

Captures(o) == {p \in DOMAIN review[o].before : review[o].before[p] # NoVersion}
Outputs(o) == {p \in DOMAIN review[o].after : review[o].after[p] # NoVersion}

ToCapture(o) == Captures(o) \ result[o].captured
ToPublish(o) == Outputs(o) \ result[o].published

\* the destination comes before the source in every review
Target(o) == IF Intent[o].action = "undo" THEN Intent[Intent[o].prior].to ELSE Intent[o].to
First(o, S) == CHOOSE p \in S : Target(o) \in S => p = Target(o)

\* a skipped operation ends whatever its row says
Skip(o) ==
    /\ At(o, "apply") /\ review[o].skipped
    /\ SetState(o, "succeeded")
    /\ worker' = Idle
    /\ UNCHANGED <<files, phase, review, result, told, touched, counts>>

\* an application that had started goes on where it stopped
Resume(o) ==
    /\ At(o, "apply") /\ ~review[o].skipped /\ result[o].started
    /\ worker' = [worker EXCEPT !.at = "files"]
    /\ UNCHANGED <<files, rows, told, touched, counts>>

\* reviewed_metadata and assert_observation
AsReviewed(o) ==
    /\ \A p \in DOMAIN review[o].seen : entry[p] = review[o].seen[p]
    /\ \A p \in DOMAIN review[o].said : told[p] = review[o].said[p]

Stage(o) ==
    /\ At(o, "apply") /\ ~review[o].skipped /\ ~result[o].started
    /\ LET able == /\ AsReviewed(o)
                   /\ Intent[o].action = "undo" => ~Undone(Intent[o].prior)
                   /\ state[o] # "cancelled"
       IN \/ /\ able
             /\ staged' = [staged EXCEPT ![o] = [p \in Path |->
                             IF p \in Outputs(o)
                               THEN [version |-> review[o].after[p], at |-> p, by |-> o]
                               ELSE NoFile]]
             /\ worker' = [worker EXCEPT !.at = "staged"]
             /\ UNCHANGED <<entry, captured, rows, told, touched, counts>>
          \/ ~able /\ FailOnly(o)

\* the conditions once more, and the first checkpoint: from here on nothing is given up
Begin(o) ==
    /\ At(o, "staged")
    /\ LET able == AsReviewed(o) /\ state[o] = "applying"
       IN \/ /\ able
             /\ result' = [result EXCEPT ![o] =
                             [started   |-> TRUE,
                              outputs   |-> [p \in Outputs(o) |-> staged[o][p]],
                              captured  |-> {},
                              published |-> {}]]
             /\ worker' = [worker EXCEPT !.at = "files"]
             /\ UNCHANGED <<files, state, phase, review, told, touched, counts>>
          \/ ~able /\ FailOnly(o)

\* capture: what is in the directory already was captured before a crash; what is
\* at the path must still be what was reviewed
Capture(o) ==
    /\ At(o, "files") /\ ToCapture(o) # {}
    /\ LET p == First(o, ToCapture(o))
           expected == review[o].seen[p]
           resumed == captured[o][p] = expected
           vacant == captured[o][p] = NoFile /\ entry[p] = expected
       IN \/ /\ resumed \/ vacant
             /\ worker' = [worker EXCEPT !.at = IF resumed THEN "mark" ELSE "rename", !.path = p]
             /\ UNCHANGED <<files, rows, told, touched, counts>>
          \/ ~(resumed \/ vacant) /\ FailOnly(o)

\* the rename itself takes whatever stands there by now; the wrong file is kept, not used
Rename(o) ==
    /\ At(o, "rename")
    /\ LET p == worker.path IN
        IF entry[p] = NoFile
          THEN FailOnly(o)
          ELSE /\ captured' = [captured EXCEPT ![o][p] = entry[p]]
               /\ entry' = [entry EXCEPT ![p] = NoFile]
               /\ IF entry[p] = review[o].seen[p]
                    THEN worker' = [worker EXCEPT !.at = "mark"] /\ UNCHANGED state
                    ELSE Fail(o)
               /\ UNCHANGED <<staged, phase, review, result, told, touched, counts>>

\* Mutant of Vacant: an output is renamed over what stands at its path.
AlwaysVacant(p) == p \in Path

\* relocate replaces nothing
Vacant(p) == entry[p] = NoFile

\* Mutant of Published: a path is published only by the step that renames its output.
PublishedNow(o, p) == FALSE

\* a staged output that is gone has been published before a crash
Published(o, p) == staged[o][p] = NoFile /\ entry[p] = result[o].outputs[p]

Publish(o) ==
    /\ At(o, "files") /\ ToCapture(o) = {} /\ ToPublish(o) # {}
    /\ LET p == First(o, ToPublish(o))
           movable == staged[o][p] # NoFile /\ Vacant(p)
       IN \/ /\ movable \/ Published(o, p)
             /\ worker' = [worker EXCEPT !.at = "mark", !.path = p]
             /\ IF movable
                  THEN /\ entry' = [entry EXCEPT ![p] = staged[o][p]]
                       /\ staged' = [staged EXCEPT ![o][p] = NoFile]
                  ELSE UNCHANGED <<entry, staged>>
             /\ UNCHANGED <<captured, rows, told, touched, counts>>
          \/ ~(movable \/ Published(o, p)) /\ FailOnly(o)

\* checkpoint
Mark(o) ==
    /\ At(o, "mark")
    /\ LET p == worker.path
           capturing == ToCapture(o) # {}
       IN \/ /\ state[o] = "applying"
             /\ result' = [result EXCEPT
                             ![o].captured  = IF capturing THEN @ \union {p} ELSE @,
                             ![o].published = IF capturing THEN @ ELSE @ \union {p}]
             /\ worker' = [worker EXCEPT !.at = "files", !.path = 0]
             /\ UNCHANGED <<files, state, phase, review, told, touched, counts>>
          \/ state[o] # "applying" /\ FailOnly(o)

\* Mutant of AsPromised: nothing is looked at after the last rename.
PromisedAnyway(o) == review[o].after # None

\* no new file where the source was, and every output still in place
AsPromised(o) ==
    \A p \in DOMAIN review[o].after :
        entry[p] = IF review[o].after[p] = NoVersion THEN NoFile ELSE result[o].outputs[p]

\* Mutant of Commit: the catalog still records the source of a move.
CommitWithSource(o) ==
    /\ At(o, "files") /\ ToCapture(o) = {} /\ ToPublish(o) = {}
    /\ \/ /\ AsPromised(o)
          /\ told' = [p \in Path |-> IF p \in DOMAIN review[o].say /\ review[o].say[p] # NoVersion
                                      THEN review[o].say[p] ELSE told[p]]
          /\ SetState(o, "succeeded")
          /\ phase' = [phase EXCEPT ![o] = "complete"]
          /\ worker' = Idle
          /\ UNCHANGED <<files, review, result, touched, counts>>
       \/ ~AsPromised(o) /\ FailOnly(o)

\* the last transaction: the catalog event, the receipt and the end of the operation
Commit(o) ==
    /\ At(o, "files") /\ ToCapture(o) = {} /\ ToPublish(o) = {}
    /\ \/ /\ AsPromised(o)
          /\ told' = [p \in Path |-> IF p \in DOMAIN review[o].say THEN review[o].say[p] ELSE told[p]]
          /\ SetState(o, "succeeded")
          /\ phase' = [phase EXCEPT ![o] = "complete"]
          /\ worker' = Idle
          /\ UNCHANGED <<files, review, result, touched, counts>>
       \/ ~AsPromised(o) /\ FailOnly(o)

\* write permission is withdrawn, or the storage refuses
Stop(o) ==
    /\ worker.op = o
    /\ counts.stops < MaxStops
    /\ counts' = [counts EXCEPT !.stops = @ + 1]
    /\ Fail(o)
    /\ UNCHANGED <<files, phase, review, result, told, touched>>

-----------------------------------------------------------------------------
(* Around the server                                                       *)

\* the process dies; what it was at is interrupted when it is back
Crash ==
    /\ counts.crashes < MaxCrashes
    /\ counts' = [counts EXCEPT !.crashes = @ + 1]
    /\ state' = [o \in Op |-> IF state[o] \in {"preparing", "applying"}
                                THEN "interrupted" ELSE state[o]]
    /\ worker' = Idle
    /\ UNCHANGED <<files, phase, review, result, told, touched>>

\* another program writes a new file at a path, or removes the one that is there
Outside(p) ==
    /\ counts.writes < MaxWrites
    /\ counts' = [counts EXCEPT !.writes = @ + 1]
    /\ touched' = touched \union {p}
    /\ \/ entry' = [entry EXCEPT ![p] = Original(p, counts.writes + 1)]
       \/ entry[p] # NoFile /\ entry' = [entry EXCEPT ![p] = NoFile]
    /\ UNCHANGED <<captured, staged, rows, told, worker>>

-----------------------------------------------------------------------------
Work(o) ==
    \/ Claim(o)
    \/ Prepare(o)
    \/ SaveReview(o)
    \/ Skip(o)
    \/ Resume(o)
    \/ Stage(o)
    \/ Begin(o)
    \/ Capture(o)
    \/ Rename(o)
    \/ Publish(o)
    \/ Mark(o)
    \/ Commit(o)

Next ==
    \/ \E o \in Op :
        \/ Enqueue(o)
        \/ Accept(o)
        \/ Cancel(o)
        \/ Retry(o)
        \/ Work(o)
        \/ Stop(o)
    \/ \E p \in Path : Outside(p)
    \/ Crash

Spec == Init /\ [][Next]_vars

(***************************************************************************)
(* While an application is interrupted another operation may use its       *)
(* paths: take a file it reviewed or made, or fill a path it reviewed.     *)
(***************************************************************************)
Overtaken(o) ==
    \E q \in Op \ {o}, p \in DOMAIN review[o].seen :
        \/ captured[q][p] # NoFile /\ (captured[q][p] = review[o].seen[p] \/ captured[q][p].by = o)
        \/ entry[p].by = q /\ entry[p] # review[o].seen[p]

CanGoOn(o) == result[o].started /\ ~Overtaken(o)

(***************************************************************************)
(* The exchange worker comes back to the queue on every tick.  The owner   *)
(* retries an application that had started and can go on; nothing else has *)
(* to be asked for.                                                        *)
(***************************************************************************)
FairSpec ==
    /\ Spec
    /\ \A o \in Op : WF_vars(Work(o)) /\ WF_vars(CanGoOn(o) /\ Retry(o))

-----------------------------------------------------------------------------
(***************************************************************************)
(* No step of the server makes an original disappear: a file somebody put  *)
(* in the library is at its path or in an operation's directory, until an  *)
(* outside program removes or replaces it.  "An occupied destination is    *)
(* never overwritten" (docs/adr/0036-portable-source-operations.md).       *)
(***************************************************************************)
Originals ==
    {f \in Range(entry) \union UNION {Range(captured[o]) : o \in Op} :
        f # NoFile /\ f.by = 0}

OriginalsKept == [][counts'.writes = counts.writes => Originals \subseteq Originals']_vars

(***************************************************************************)
(* The catalog records the content that is at a path, through crashes and  *)
(* retries, except where an outside program interfered or while an         *)
(* application that captures or publishes there is under way.  One that    *)
(* was cancelled when it had started already is under way for ever: its    *)
(* originals are where it took them (CapturedNotAbandoned).                *)
(***************************************************************************)
UnderWay(o, p) ==
    result[o].started /\ state[o] # "succeeded" /\ p \in DOMAIN review[o].after

CatalogFollowsFiles ==
    \A p \in Path \ touched :
        told[p] \in {NoVersion, entry[p].version} \/ \E o \in Op : UnderWay(o, p)

(***************************************************************************)
(* The catalog learns of an operation only when every one of its paths     *)
(* holds what was reviewed: a file that arrives after the capture, or a    *)
(* replaced output, stops the commit (apply, source_execute.py).           *)
(***************************************************************************)
CommitIsTrue ==
    \A o \in Op :
        state[o] # "succeeded" /\ state'[o] = "succeeded" /\ ~review[o].skipped =>
            \A p \in DOMAIN review[o].after : entry[p].version = review[o].after[p]

(***************************************************************************)
(* "A source replacement between inspection and capture can be retained    *)
(* ... It must not receive the reviewed file identity" (ADR-0036): an      *)
(* operation that succeeded captured what its owner reviewed.              *)
(***************************************************************************)
CapturedAsReviewed ==
    \A o \in Op : state[o] = "succeeded" =>
        \A p \in Path : captured[o][p] # NoFile => captured[o][p] = review[o].seen[p]

(***************************************************************************)
(* An operation reported done was done as reviewed: its paths hold what    *)
(* was promised at the commit and it captured what its owner had seen.     *)
(***************************************************************************)
SuccessIsTrue == [][CommitIsTrue /\ CapturedAsReviewed']_vars

(***************************************************************************)
(* What was cancelled is not prepared or applied any more, whichever step  *)
(* of it the worker was at.  Only an operation with nothing to do is still *)
(* reported as done.                                                       *)
(***************************************************************************)
CancelledStays ==
    [][\A o \in Op : state[o] = "cancelled" => state'[o] = "cancelled" \/ review[o].skipped]_vars

(***************************************************************************)
(* cancel: "Request cancellation before application; never abandon a       *)
(* captured original" (source_journal.py).                                 *)
(***************************************************************************)
CapturedNotAbandoned ==
    \A o \in Op : state[o] = "cancelled" => \A p \in Path : captured[o][p] = NoFile

(***************************************************************************)
(* An application that started comes to its end, through crashes and       *)
(* withdrawn permissions at any step, if nobody interferes from outside    *)
(* and no other operation overtakes it.  The owner may cancel it.  The     *)
(* queue is served oldest first, so the owner must not for ever retry an   *)
(* older operation that cannot go on.                                      *)
(***************************************************************************)
Patient == <>[][\A o \in Op : Retry(o) => CanGoOn(o)]_vars

StartedFinishes ==
    Patient => \A o \in Op :
        result[o].started ~> (state[o] \in {"succeeded", "cancelled"} \/ Overtaken(o))
=============================================================================
