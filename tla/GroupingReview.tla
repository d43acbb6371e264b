--------------------------- MODULE GroupingReview ---------------------------
(***************************************************************************)
(* The grouping review of a portable library: a private draft of grouping  *)
(* suggestions on the server (replicas/grouping), edited by commands that  *)
(* name the revision they were made on and are applied one at a time, and  *)
(* the pages that show the draft and send them (useGroupingWorkspace,      *)
(* useGroupingTree).  A selection is prepared as a review, which freezes   *)
(* the draft until it is cancelled, or accepted, applied to the catalog    *)
(* and its files retired from the draft.  Requests are lost or late, pages *)
(* reload, saved reviews are revived, and a recovery pauses all work.      *)
(*                                                                         *)
(* Contents of the draft are counted: every write of its nodes or files    *)
(* makes a new one.                                                        *)
(***************************************************************************)
EXTENDS Naturals, Sequences, FiniteSets

CONSTANTS
    Page,           \* open grouping dialogs
    MaxOps,         \* bound of the commands
    MaxMishaps,     \* bound of what goes wrong, or is done from the list of saved reviews
    NoView

ASSUME GroupAssumption == MaxOps \in Nat \ {0} /\ MaxMishaps \in Nat

VARIABLES
    workspace,      \* the row of grouping_workspaces, and the content of its nodes
    command,        \* grouping_commands, by operation
    queue,          \* the operations in the order of their sequence
    reviews,        \* discovery_reviews, by operation
    dialog,         \* the state of each dialog
    waiting,        \* the request each dialog awaits
    strays,         \* requests whose page has given them up
    revived,        \* reviews prepared again from the list of saved reviews
    mishaps

groupServerVars == <<workspace, command, queue, reviews>>
groupVars == <<groupServerVars, dialog, waiting, strays, revived, mishaps>>

\* operation ids, in the order they are made
Op == 1..MaxOps
NoOp == 0
NoRequest == [op |-> NoOp, kind |-> "none"]
Content == 0 .. (2 * (Len(queue) + 1))
DraftRevision == 1 .. (Len(queue) + 2)
Action == {"edit", "prepare", "cancel_review"}
Phase == {"edit", "roles", "regroup", "export"}
\* what a page has sent: the intent, the revision it names, the contents on
\* show when it was made, and whether it was made on a row of the tree
Command == [state : {"absent", "queued", "running", "paused", "succeeded", "failed"}, phase : Phase,
            action : Action, revision : DraftRevision, shown : SUBSET Content, rows : BOOLEAN,
            review : Op \union {NoOp}]
Review == [state : {"none", "queued", "ready", "apply_queued", "applied", "retired", "cancelled", "failed"},
           of : Content]    \* the content it was prepared from; retired: applied, and its files gone
View == [revision : DraftRevision, seen : SUBSET Content]
Status == [ready : BOOLEAN, revision : DraftRevision, accepting : Op \union {NoOp}, command : Op \union {NoOp}]
Dialog == [known : Status \union {NoView}, pending : Op \union {NoOp}, handled : Op \union {NoOp},
           settling : SUBSET Op, tree : View \union {NoView}, fetch : View \union {NoView},
           opened : View \union {NoView}]
Sent == [op : Op, kind : {"command", "accept"}]

GroupTypeOK ==
    /\ workspace \in [phase : {"ready", "roles", "regroup", "export", "accepted"}, revision : DraftRevision,
                      accepting : Op \union {NoOp}, content : Content]
    /\ command \in [Op -> Command]
    /\ queue \in Seq(Op)
    /\ reviews \in [Op -> Review]
    /\ dialog \in [Page -> Dialog]
    /\ waiting \in [Page -> Sent \union {NoRequest}]
    /\ strays \subseteq Sent
    /\ revived \subseteq Op

Unopened == [known |-> NoView, pending |-> NoOp, handled |-> NoOp, settling |-> {}, tree |-> NoView,
             fetch |-> NoView, opened |-> NoView]
Unsent == [state |-> "absent", phase |-> "edit", action |-> "edit", revision |-> 1, shown |-> {},
           rows |-> FALSE, review |-> NoOp]

Mishap == mishaps < MaxMishaps /\ mishaps' = mishaps + 1

\* The dialog is opened on a draft whose first selection has been prepared
GroupInit ==
    /\ workspace = [phase |-> "ready", revision |-> 1, accepting |-> 1, content |-> 0]
    /\ command = [o \in Op |-> IF o = 1 THEN [Unsent EXCEPT !.state = "succeeded"] ELSE Unsent]
    /\ queue = <<1>>
    /\ reviews = [o \in Op |-> [state |-> IF o = 1 THEN "queued" ELSE "none", of |-> 0]]
    /\ dialog = [p \in Page |-> Unopened] /\ waiting = [p \in Page |-> NoRequest] /\ strays = {}
    /\ revived = {} /\ mishaps = 0

-----------------------------------------------------------------------------
(* The server's worker: grouping/worker.step                               *)

Ready == workspace.phase = "ready"
\* Mutant of Current: the draft as it is, whatever the command was made on.
CurrentAny(r) == Ready
Current(r) == Ready /\ workspace.revision = r
Live(o) == command[o].state \in {"queued", "running"}
\* the accepted review has been applied and waits to be retired from the draft
Reconciling == workspace.accepting # NoOp /\ reviews[workspace.accepting].state = "applied"
\* the oldest command that may run, once nothing waits to be retired
Turn(o) ==
    /\ ~Reconciling
    /\ \E i \in 1..Len(queue) : queue[i] = o /\ Live(o) /\ \A j \in 1..(i - 1) : ~Live(queue[j])

Phased(ph, written) ==
    workspace' = [workspace EXCEPT !.phase = ph, !.content = IF written THEN @ + 1 ELSE @]
\* finish: the draft is ready at its next revision
Finished(written) ==
    workspace' = [workspace EXCEPT !.phase = "ready", !.revision = @ + 1,
                           !.content = IF written THEN @ + 1 ELSE @]
To(o, ph) == command' = [command EXCEPT ![o].state = "running", ![o].phase = ph]
\* of a command that has ended only its end is told
End(o, st) == command' = [command EXCEPT ![o] = [Unsent EXCEPT !.state = st]]
WorkerLeaves == UNCHANGED <<queue, dialog, waiting, strays, revived, mishaps>>

Cancellable(o) == reviews[o].state \notin {"apply_queued", "applied"}

\* the owner returns to editing: the draft is released
CancelReview(o) ==
    /\ Turn(o) /\ command[o].phase = "edit" /\ Current(command[o].revision)
    /\ command[o].action = "cancel_review"
    /\ workspace.accepting # NoOp /\ command[o].review = workspace.accepting /\ Cancellable(workspace.accepting)
    /\ reviews' = [reviews EXCEPT ![workspace.accepting].state = "cancelled"]
    /\ workspace' = [workspace EXCEPT !.accepting = NoOp, !.revision = @ + 1]
    /\ End(o, "succeeded") /\ WorkerLeaves

\* an edit is done at once, or its roles or its groups take further steps
BeginEdit(o) ==
    /\ Turn(o) /\ command[o].phase = "edit" /\ Current(command[o].revision)
    /\ command[o].action = "edit" /\ workspace.accepting = NoOp
    /\ \/ Finished(TRUE) /\ End(o, "succeeded")
       \/ Phased("roles", TRUE) /\ To(o, "roles")
       \/ Phased("regroup", FALSE) /\ To(o, "regroup")
    /\ UNCHANGED reviews /\ WorkerLeaves

BeginPrepare(o) ==
    /\ Turn(o) /\ command[o].phase = "edit" /\ Current(command[o].revision)
    /\ command[o].action = "prepare" /\ workspace.accepting = NoOp
    /\ Phased("export", FALSE) /\ To(o, "export")
    /\ UNCHANGED reviews /\ WorkerLeaves

\* the last step of the roles, or of rebuilt groups, which replace the draft's
FinishEdit(o) ==
    /\ Turn(o) /\ command[o].phase \in {"roles", "regroup"}
    /\ Finished(command[o].phase = "regroup") /\ End(o, "succeeded")
    /\ UNCHANGED reviews /\ WorkerLeaves

\* queue_review: ready again, at the same revision
QueueReview(o) ==
    /\ Turn(o) /\ command[o].phase = "export"
    /\ workspace' = [workspace EXCEPT !.phase = "ready", !.accepting = o]
    /\ reviews' = [reviews EXCEPT ![o] = [state |-> "queued", of |-> workspace.content]]
    /\ End(o, "succeeded") /\ WorkerLeaves

\* Mutant of Released: rebuilding that stops leaves the draft in its phase.
ReleasedExports(o) == IF command[o].phase = "export" THEN [workspace EXCEPT !.phase = "ready"] ELSE workspace
Released(o) == IF command[o].phase = "edit" THEN workspace ELSE [workspace EXCEPT !.phase = "ready"]
\* refused: its revision is not the draft's, a review is pending, or the edit is
\* invalid as it is; groups and exports that stop give the draft back
RefuseCommand(o) ==
    /\ Turn(o) /\ command[o].phase \in {"edit", "regroup", "export"}
    /\ command[o].action = "cancel_review" =>
           ~ (Current(command[o].revision) /\ workspace.accepting # NoOp
              /\ command[o].review = workspace.accepting /\ Cancellable(workspace.accepting))
    /\ workspace' = Released(o) /\ End(o, "failed")
    /\ UNCHANGED reviews /\ WorkerLeaves

\* reconcile.step: the accepted files leave the draft
Reconcile ==
    /\ Reconciling /\ Ready /\ Phased("accepted", TRUE)
    /\ UNCHANGED <<command, reviews>> /\ WorkerLeaves
Retire ==
    /\ Reconciling /\ workspace.phase = "accepted"
    /\ workspace' = [workspace EXCEPT !.phase = "ready", !.accepting = NoOp, !.revision = @ + 1]
    /\ reviews' = [reviews EXCEPT ![workspace.accepting] = [state |-> "retired", of |-> 0]]
    /\ UNCHANGED command /\ WorkerLeaves

\* discovery_review.step: prepared, revalidated or applied, or a file has changed
ReviewStep(o) ==
    /\ \E st \in {"ready", "applied", "failed"} :
           /\ \/ reviews[o].state = "queued" /\ st # "applied"
              \/ reviews[o].state = "apply_queued" /\ st # "ready"
           /\ reviews' = [reviews EXCEPT ![o].state = st]
    /\ UNCHANGED <<workspace, command>> /\ WorkerLeaves

-----------------------------------------------------------------------------
(* Saved reviews, and a recovery                                           *)

\* the list of saved reviews cancels one, or prepares one again
DeleteReview(o) ==
    /\ Mishap
    /\ reviews[o].state \in {"queued", "ready", "apply_queued"}
    /\ reviews' = [reviews EXCEPT ![o].state = "cancelled"]
    /\ UNCHANGED <<workspace, command, queue, dialog, waiting, strays, revived>>
Revive(o) ==
    /\ Mishap
    /\ reviews[o].state \in {"failed", "cancelled"}
    /\ reviews' = [reviews EXCEPT ![o].state = "queued"]
    /\ revived' = revived \union {o}
    /\ UNCHANGED <<workspace, command, queue, dialog, waiting, strays>>

AcceptReview(o) ==
    reviews' = [reviews EXCEPT ![o].state = IF @ = "ready" THEN "apply_queued" ELSE @]
\* accepted from that list
AcceptSaved(o) ==
    /\ reviews[o].state = "ready" /\ AcceptReview(o)
    /\ UNCHANGED <<workspace, command>> /\ WorkerLeaves

\* a recovered generation resumes nothing of its own accord
Recover ==
    /\ Mishap
    /\ command' = [o \in Op |-> IF Live(o) THEN [command[o] EXCEPT !.state = "paused"] ELSE command[o]]
    /\ reviews' = [o \in Op |-> IF reviews[o].state \in {"queued", "ready", "apply_queued"}
                                  THEN [reviews[o] EXCEPT !.state = "failed"] ELSE reviews[o]]
    /\ UNCHANGED <<workspace, queue, dialog, waiting, strays, revived>>

-----------------------------------------------------------------------------
(* The page: status, command and tree are read by polling                  *)

Unfinished(o) == command[o].state \in {"queued", "running", "paused"}
\* status: the oldest command that has not ended
Oldest ==
    IF \E o \in Op : Unfinished(o)
    THEN queue[CHOOSE i \in 1..Len(queue) :
                   Unfinished(queue[i]) /\ \A j \in 1..(i - 1) : ~Unfinished(queue[j])]
    ELSE NoOp
Served == [ready |-> Ready, revision |-> workspace.revision, accepting |-> workspace.accepting, command |-> Oldest]
PageOnly == UNCHANGED <<groupServerVars, waiting, strays, revived, mishaps>>

Poll(p) ==
    /\ dialog[p].known # Served
    /\ dialog' = [dialog EXCEPT ![p].known = Served] /\ PageOnly

\* the command a page follows: its own edit, or what the status names
Followed(p) ==
    IF dialog[p].pending # NoOp THEN dialog[p].pending
    ELSE IF dialog[p].known = NoView THEN NoOp ELSE dialog[p].known.command

\* Mutant of Over: a command that has begun counts as done.
OverOnceBegun(o) == command[o].state \in {"running", "succeeded", "failed"}
Over(o) == command[o].state \in {"succeeded", "failed"}
\* its end is seen; the status and the lists are read again ...
Handle(p) ==
    /\ Followed(p) # NoOp /\ Over(Followed(p)) /\ dialog[p].handled # Followed(p)
    /\ dialog' = [dialog EXCEPT ![p].handled = Followed(p), ![p].settling = @ \union {Followed(p)}]
    /\ PageOnly
\* ... and then, if they could be read or not, nothing is pending
Settle(p, o) ==
    /\ o \in dialog[p].settling
    /\ \E known \in {Served, dialog[p].known} :
           dialog' = [dialog EXCEPT ![p].known = known, ![p].pending = NoOp, ![p].settling = @ \ {o}]
    /\ PageOnly

Of(view, r) == view # NoView /\ view.revision = r
\* a branch of the tree is read page by page, for the revision of the status
ReadTree(p) ==
    /\ dialog[p].known # NoView /\ dialog[p].known.ready /\ Current(dialog[p].known.revision)
    /\ LET read == [revision |-> workspace.revision, seen |-> {workspace.content}] IN
       IF Of(dialog[p].fetch, workspace.revision)
       THEN dialog' = [dialog EXCEPT ![p].fetch = NoView,
                                 ![p].tree = [read EXCEPT !.seen = @ \union dialog[p].fetch.seen]]
       ELSE /\ ~Of(dialog[p].tree, workspace.revision)
            /\ dialog' = [dialog EXCEPT ![p].fetch = read]
    /\ PageOnly

-----------------------------------------------------------------------------
(* The owner's edits                                                       *)

\* edit(): one at a time, on a ready draft
Editable(p) ==
    /\ dialog[p].known # NoView /\ dialog[p].known.ready
    /\ dialog[p].pending = NoOp /\ waiting[p] = NoRequest
\* what the rows of the tree and the buttons of the dialog add
Unhindered(p) == Editable(p) /\ dialog[p].known.command = NoOp
Unblocked(p) == Unhindered(p) /\ Of(dialog[p].tree, dialog[p].known.revision) /\ dialog[p].known.accepting = NoOp

Unused(o) == command[o] = Unsent /\ \A q \in Op : q < o => command[q] # Unsent
\* the command is made once, with the newest revision the page knows of, and sent
Send(p, o, action, seen, rows, target) ==
    /\ Unused(o)
    /\ command' = [command EXCEPT ![o] =
           [@ EXCEPT !.action = action, !.revision = dialog[p].known.revision, !.shown = seen,
                     !.rows = rows, !.review = target]]
    /\ waiting' = [waiting EXCEPT ![p] = [op |-> o, kind |-> "command"]]
    /\ UNCHANGED <<workspace, queue, reviews, strays, revived, mishaps>>

EditRow(p, o) ==
    /\ Unblocked(p)
    /\ \E action \in {"edit", "prepare"} : Send(p, o, action, dialog[p].tree.seen, TRUE, NoOp)
    /\ dialog' = [dialog EXCEPT ![p].pending = o]
ReturnToEditing(p, o) ==
    /\ Unhindered(p) /\ dialog[p].known.accepting # NoOp
    /\ Send(p, o, "cancel_review", {}, FALSE, dialog[p].known.accepting)
    /\ dialog' = [dialog EXCEPT ![p].pending = o]

\* a title being typed, or the dialog of a move, stays open while the tree changes
OpenEditor(p) ==
    /\ Unblocked(p) /\ dialog[p].opened = NoView
    /\ dialog' = [dialog EXCEPT ![p].opened = dialog[p].tree] /\ PageOnly
CommitEditor(p, o) ==
    /\ dialog[p].opened # NoView /\ Editable(p)
    /\ Send(p, o, "edit", dialog[p].opened.seen, FALSE, NoOp)
    /\ dialog' = [dialog EXCEPT ![p].pending = o, ![p].opened = NoView]
\* closed, or committed while an edit is under way: what it held is dropped
CloseEditor(p) ==
    /\ dialog[p].opened # NoView
    /\ dialog' = [dialog EXCEPT ![p].opened = NoView] /\ PageOnly

\* a dialog on another device: any command, made on the draft as it is (one made
\* on an older revision is refused)
OtherDevice(o) ==
    /\ Unused(o)
    /\ \E action \in Action, target \in {workspace.accepting, NoOp} :
         /\ action = "cancel_review" <=> target # NoOp
         /\ command' = [command EXCEPT ![o] =
                [@ EXCEPT !.state = "queued", !.action = action, !.revision = workspace.revision,
                          !.shown = {workspace.content}, !.review = target]]
    /\ queue' = Append(queue, o)
    /\ UNCHANGED <<workspace, reviews, dialog, waiting, strays, revived, mishaps>>

\* the exact request again
RetryEdit(p) ==
    /\ dialog[p].pending # NoOp /\ waiting[p] = NoRequest
    /\ waiting' = [waiting EXCEPT ![p] = [op |-> dialog[p].pending, kind |-> "command"]]
    /\ UNCHANGED <<groupServerVars, dialog, strays, revived, mishaps>>
\* storage.retry: a paused command is queued where it was
ResumeEdit(p) ==
    /\ Followed(p) # NoOp /\ waiting[p] = NoRequest /\ command[Followed(p)].state = "paused"
    /\ command' = [command EXCEPT ![Followed(p)].state = "queued"]
    /\ UNCHANGED <<workspace, queue, reviews, dialog, waiting, strays, revived, mishaps>>
Accepting(p) ==
    /\ dialog[p].known # NoView /\ dialog[p].known.accepting # NoOp /\ waiting[p] = NoRequest
    /\ reviews[dialog[p].known.accepting].state = "ready"
    /\ waiting' = [waiting EXCEPT ![p] = [op |-> dialog[p].known.accepting, kind |-> "accept"]]
    /\ UNCHANGED <<groupServerVars, dialog, strays, revived, mishaps>>

\* storage.enqueue: a request already known changes nothing; discovery_state.accept
Enqueued(o) ==
    IF command[o].state = "absent"
    THEN command' = [command EXCEPT ![o].state = "queued"] /\ queue' = Append(queue, o)
    ELSE UNCHANGED <<command, queue>>
Arrived(r) ==
    /\ IF r.kind = "command" THEN Enqueued(r.op) /\ UNCHANGED reviews
       ELSE AcceptReview(r.op) /\ UNCHANGED <<command, queue>>
    /\ UNCHANGED workspace

Answered(p) ==
    /\ waiting[p] # NoRequest /\ Arrived(waiting[p]) /\ waiting' = [waiting EXCEPT ![p] = NoRequest]
    /\ UNCHANGED <<dialog, strays, revived, mishaps>>
\* no answer: the request may arrive yet, or never
Break(p) ==
    /\ waiting[p] # NoRequest /\ Mishap
    /\ strays' = strays \union {waiting[p]} /\ waiting' = [waiting EXCEPT ![p] = NoRequest]
    /\ UNCHANGED <<groupServerVars, dialog, revived>>
Stray(r) ==
    /\ r \in strays /\ Arrived(r) /\ strays' = strays \ {r}
    /\ UNCHANGED <<dialog, waiting, revived, mishaps>>
\* the dialog is opened anew: it knows of nothing it sent
ReopenPage(p) ==
    /\ Mishap
    /\ dialog' = [dialog EXCEPT ![p] = Unopened]
    /\ strays' = strays \union ({waiting[p]} \ {NoRequest}) /\ waiting' = [waiting EXCEPT ![p] = NoRequest]
    /\ UNCHANGED <<groupServerVars, revived>>

GroupNext ==
    \/ \E o \in Op :
         \/ CancelReview(o) \/ BeginEdit(o) \/ BeginPrepare(o) \/ FinishEdit(o) \/ QueueReview(o)
         \/ RefuseCommand(o) \/ OtherDevice(o) \/ ReviewStep(o) \/ DeleteReview(o) \/ Revive(o) \/ AcceptSaved(o)
    \/ Reconcile \/ Retire \/ Recover
    \/ \E p \in Page :
         \/ Poll(p) \/ Handle(p) \/ ReadTree(p) \/ OpenEditor(p) \/ CloseEditor(p)
         \/ RetryEdit(p) \/ ResumeEdit(p) \/ Accepting(p) \/ Answered(p) \/ Break(p) \/ ReopenPage(p)
         \/ \E o \in Op : Settle(p, o) \/ EditRow(p, o) \/ ReturnToEditing(p, o) \/ CommitEditor(p, o)
    \/ \E r \in strays : Stray(r)

GroupSpec == GroupInit /\ [][GroupNext]_groupVars

-----------------------------------------------------------------------------
(* An edit made on a row of the tree changes exactly the draft that was on *)
(* show, and changes it once; a review that is applied is of the draft as  *)
(* it is, unless it was revived from the list of saved reviews.  The       *)
(* revision a command names is all the server has to go by (pages.current, *)
(* worker.step, useGroupingTree: stale).                                   *)
AppliedAsShown ==
    [][ /\ \A o \in Op :
             command[o].rows /\ workspace'.content # workspace.content /\ command'[o].state # command[o].state =>
                 command[o].shown = {workspace.content}
        /\ \A o \in Op \ revived :
             reviews[o].state = "apply_queued" /\ reviews'[o].state = "applied" =>
                 reviews[o].of = workspace.content ]_groupVars

\* Not so of this code: an editor that is open while the draft changes is
\* committed with the newest revision, which the server takes
\* (GroupingMoveDialog: Top level, GroupingNodeRow: commit).
EditorAsShown ==
    [][ \A o \in Op :
          command[o].action = "edit" /\ workspace'.content # workspace.content
              /\ command'[o].state # command[o].state =>
              command[o].shown = {workspace.content} ]_groupVars

\* The draft of a pending review does not change under it: what is accepted is
\* what was prepared, it is not cancelled once it is to be applied, and its
\* files leave the draft (worker.step, reconcile.cancel, reconcile.step).  A
\* draft that is not ready has the one command that will make it ready again.
DraftSettles ==
    /\ workspace.accepting # NoOp =>
         /\ workspace.phase \in {"ready", "accepted"}
         /\ workspace.phase = "ready" => reviews[workspace.accepting].of = workspace.content
    /\ \A o \in Op \ revived :
         reviews[o].state \in {"queued", "ready", "apply_queued", "applied"} => workspace.accepting = o
    /\ workspace.phase = "accepted" => Reconciling
    /\ LET begun == {o \in Op : Unfinished(o) /\ command[o].phase # "edit"} IN
       /\ Cardinality(begun) = IF workspace.phase \in {"ready", "accepted"} THEN 0 ELSE 1
       /\ \A o \in begun : command[o].phase = workspace.phase

\* Not so of this code: a review that was cancelled in its draft is revived from
\* the list of saved reviews, and applied: nothing then takes its files out of
\* the draft (ReplicaDiscovery: Revalidate saved review; reconcile.step).
AppliedIsRetired ==
    \A o \in Op : reviews[o].state = "applied" => workspace.accepting = o

\* A page keeps the exact edit it has sent until that edit has ended: whatever
\* answer was lost, it can be sent again.  Except when the dialog is opened
\* anew, or the end of another command is settled meanwhile
\* (useGroupingWorkspace: send, retry, the effect on command.data).
EditRetained ==
    [][ \A p \in Page :
          dialog[p].pending # NoOp /\ dialog'[p].pending # dialog[p].pending =>
              \/ Over(dialog[p].pending)
              \/ dialog'[p] = Unopened
              \/ \E o \in dialog[p].settling \ dialog'[p].settling : o # dialog[p].pending ]_groupVars

\* Not so of this code: the end of a command named by the status is settled
\* after the owner has begun the next edit, which is then forgotten.
ExactlyRetained ==
    [][ \A p \in Page :
          dialog[p].pending # NoOp /\ dialog'[p].pending # dialog[p].pending =>
              Over(dialog[p].pending) \/ dialog'[p] = Unopened ]_groupVars
=============================================================================
