---------------------------- MODULE MetadataEdits ----------------------------
(***************************************************************************)
(* Metadata edits of older libraries (api/metadataEdits.ts): each is kept  *)
(* in memory and in the browser's storage from the first attempt on, sent  *)
(* with an operation id and the basis its editor was opened on, and asked  *)
(* about when the server refuses it or no answer comes.  The server        *)
(* (metadata/session.py) has receipts and refuses an edit of a field that  *)
(* changed since the basis, unless that very revision was reviewed.        *)
(*                                                                         *)
(* The owner may look at another library meanwhile, reload the page, edit  *)
(* from another client; answers and requests are lost or late.             *)
(***************************************************************************)
EXTENDS Naturals, FiniteSets

CONSTANTS
    EditId, Field,  \* edits the owner makes here, and the fields each one sets
    MaxRevision,    \* bound: commits of the server
    MaxSends,       \* bound: requests sent for one edit
    MaxLeaves,      \* bound: reloads and changes of the library on show
    MaxFailures,    \* bound: writes that browser storage refuses
    NoDialog, NoWire

Revision == 1..MaxRevision
NoReview == [f \in Field |-> 0]
Operation == EditId \X (0..MaxSends)    \* the n-th operation id of an edit

\* PendingEdit; conflict and recovery are what its message shows for review, 0 for nothing
Pending == [op : 0..MaxSends, basis : {0} \union Revision, reviewed : [Field -> {0} \union Revision],
            conflict : Field \X Revision \union {<<>>}, recovery : {0} \union Revision]
NoEdit == <<>>

Attempt == [op : Operation, basis : {0} \union Revision, reviewed : [Field -> {0} \union Revision]]
Answer == [saved : BOOLEAN, conflict : Field \X Revision \union {<<>>}, recovery : {0} \union Revision]

ASSUME EditsAssumption ==
    /\ MaxRevision \in Nat \ {0} /\ MaxSends \in Nat /\ MaxLeaves \in Nat /\ MaxFailures \in Nat
    /\ Field # {} /\ NoDialog \notin EditId /\ NoWire \notin Attempt \union Answer

VARIABLES
    retained,       \* retained: the edits the page holds
    onDisk,     \* localStorage
    step,       \* runEdit of each edit: none, sent or waiting for the owner
    executing,    \* what it runs with; the retained edit may be discarded under it
    wire,       \* its request, or the answer to it
    stale,      \* runs that began before the library on show was changed
    review,     \* shown: the edit whose dialog is open
    away,       \* another library is on show
    late,       \* requests nobody waits for any more
    revision,   \* the server's revision of each field
    committed,  \* receipts: the attempts that were committed
    seen,       \* the revisions of each field the owner has been shown with an edit
    dropped,    \* edits the owner discarded
    sends, leaves, failures

pageVars == <<retained, onDisk, step, executing, wire, stale, review, away, late, seen, dropped, sends, leaves, failures>>
editsVars == <<pageVars, revision, committed>>

Clock == CHOOSE n \in Revision : (\E f \in Field : revision[f] = n) /\ \A f \in Field : revision[f] <= n

EditsTypeOK ==
    /\ retained \in [EditId -> Pending \union {NoEdit}]
    /\ onDisk \in [EditId -> Pending \union {NoEdit}]
    /\ step \in [EditId -> {"none", "sent", "waiting"}]
    /\ executing \in [EditId -> Pending \union {NoEdit}]
    /\ wire \in [EditId -> Attempt \union Answer \union {NoWire}]
    /\ stale \subseteq EditId /\ dropped \subseteq EditId
    /\ review \in EditId \union {NoDialog}
    /\ away \in BOOLEAN
    /\ late \subseteq Attempt
    /\ revision \in [Field -> Revision]
    /\ committed \subseteq Attempt
    /\ seen \in [EditId -> [Field -> SUBSET Revision]]
    /\ \A c \in EditId :
        /\ step[c] = "sent" <=> wire[c] # NoWire
        /\ c \in stale => step[c] = "sent"
        /\ step[c] = "none" <=> executing[c] = NoEdit

EditsInit ==
    /\ retained = [c \in EditId |-> NoEdit] /\ onDisk = retained /\ executing = retained
    /\ step = [c \in EditId |-> "none"]
    /\ wire = [c \in EditId |-> NoWire]
    /\ stale = {} /\ dropped = {} /\ late = {}
    /\ review = NoDialog /\ away = FALSE
    /\ revision = [f \in Field |-> 1]
    /\ committed = {}
    /\ seen = [c \in EditId |-> [f \in Field |-> {}]]
    /\ sends = [c \in EditId |-> 0] /\ leaves = 0 /\ failures = 0

-----------------------------------------------------------------------------
(* The page.                                                               *)

\* publish: memory always, storage unless it refuses
Publish(items) ==
    /\ retained' = items
    /\ \/ onDisk' = items /\ UNCHANGED failures
       \/ failures < MaxFailures /\ failures' = failures + 1 /\ UNCHANGED onDisk

EndedRun(c) ==
    step' = [step EXCEPT ![c] = "none"] /\ executing' = [executing EXCEPT ![c] = NoEdit]

AttemptOf(c, p) == [op |-> <<c, p.op>>, basis |-> p.basis, reviewed |-> p.reviewed]

\* one turn of runEdit: the edit is kept before it is sent; with no usable basis what is
\* sent is a read, and while the server is too old for it nothing is
Execute(c, p) ==
    /\ ~away /\ step[c] # "sent"
    /\ Publish([retained EXCEPT ![c] = p])
    /\ \/ /\ sends[c] < MaxSends
          /\ sends' = [sends EXCEPT ![c] = @ + 1]
          /\ step' = [step EXCEPT ![c] = "sent"] /\ executing' = [executing EXCEPT ![c] = p]
          /\ wire' = [wire EXCEPT ![c] = AttemptOf(c, p)]
       \/ EndedRun(c) /\ UNCHANGED <<sends, wire>>
    /\ UNCHANGED <<stale, away, late, dropped, leaves>>

\* sendMetadata for something new, with the basis on show or without one
Make(c) ==
    /\ retained[c] = NoEdit /\ sends[c] = 0 /\ c \notin dropped /\ step[c] = "none"
    /\ \E b \in {0} \union Revision :
        /\ b <= Clock
        /\ Execute(c, [op |-> 0, basis |-> b, reviewed |-> NoReview, conflict |-> <<>>, recovery |-> 0])
        /\ seen' = [seen EXCEPT ![c] = [f \in Field |-> 1..b]]
    /\ UNCHANGED review

\* Mutant of RequestAgain: a retry is a request of its own.
RequestAgainAnew(c) ==
    /\ retained[c] # NoEdit
    /\ LET p == retained[c]
       IN  \/ step[c] = "none" /\ Execute(c, p)
           \/ /\ review = c /\ p.conflict = <<>> /\ p.recovery = 0
              /\ Execute(c, [p EXCEPT !.op = sends[c]])
    /\ UNCHANGED <<seen, review>>

\* the same edit once more, or Retry save in its dialog: the same request
RequestAgain(c) ==
    /\ retained[c] # NoEdit
    /\ LET p == retained[c]
       IN  \/ step[c] = "none" /\ Execute(c, p)
           \/ review = c /\ p.conflict = <<>> /\ p.recovery = 0 /\ Execute(c, p)
    /\ UNCHANGED <<seen, review>>

\* Use my value: a new operation, over exactly the revision that was shown
Acknowledged(p, n) ==
    LET q == IF p.recovery # 0 THEN [p EXCEPT !.basis = p.recovery, !.recovery = 0, !.op = n] ELSE p
    IN  IF p.conflict = <<>> THEN q
        ELSE [q EXCEPT !.reviewed[p.conflict[1]] = p.conflict[2], !.op = n]

UseMine(c) ==
    /\ review = c /\ retained[c] # NoEdit
    /\ retained[c].conflict # <<>> \/ retained[c].recovery # 0
    /\ Execute(c, Acknowledged(retained[c], sends[c]))
    /\ UNCHANGED <<seen, review>>

\* Keep draft, or Discard; a run that waits ends, and one that is under way goes on
Choose(c, choice) ==
    /\ ~away /\ review = c /\ retained[c] # NoEdit
    /\ Publish(IF choice = "discard" THEN [retained EXCEPT ![c] = NoEdit] ELSE retained)
    /\ dropped' = IF choice = "discard" THEN dropped \union {c} ELSE dropped
    /\ review' = NoDialog
    /\ IF step[c] = "waiting" THEN EndedRun(c) ELSE UNCHANGED <<step, executing>>
    /\ UNCHANGED <<wire, stale, away, late, seen, sends, leaves>>

OpenEdit(c) ==
    /\ ~away /\ retained[c] # NoEdit /\ review # c
    /\ review' = c
    /\ UNCHANGED <<retained, onDisk, step, executing, wire, stale, away, late, seen, dropped, sends, leaves, failures>>

-----------------------------------------------------------------------------
(* Answers.  Whoever stops listening leaves a request that may yet arrive. *)

Unheard(c) == late \union {a \in {wire[c]} : a \in Attempt /\ a.basis # 0}

\* assertScope: a run whose library is no longer on show ends without a trace
Abandon(c) ==
    /\ c \in stale
    /\ EndedRun(c) /\ wire' = [wire EXCEPT ![c] = NoWire] /\ late' = Unheard(c)
    /\ stale' = stale \ {c}
    /\ UNCHANGED <<retained, onDisk, review, away, seen, dropped, sends, leaves, failures>>

Saved(c) ==
    /\ c \notin stale /\ wire[c] \in Answer /\ wire[c].saved
    /\ Publish([retained EXCEPT ![c] = NoEdit])
    /\ review' = IF review = c THEN NoDialog ELSE review
    /\ EndedRun(c) /\ wire' = [wire EXCEPT ![c] = NoWire]
    /\ UNCHANGED <<stale, away, late, seen, dropped, sends, leaves>>

\* what failed is kept as the run has it
Retained(c, p) == [retained EXCEPT ![c] = p]

\* the dialog opens and the run waits, if there is a dialog to open
Failed(c, conflict, recovery) ==
    LET p == [executing[c] EXCEPT !.conflict = conflict, !.recovery = recovery]
    IN  /\ c \notin stale
        /\ Publish(Retained(c, p))
        /\ review' = c
        /\ \/ step' = [step EXCEPT ![c] = "waiting"] /\ executing' = [executing EXCEPT ![c] = p]
           \/ EndedRun(c)
        /\ wire' = [wire EXCEPT ![c] = NoWire]
        /\ seen' = [seen EXCEPT ![c] = [f \in Field |->
                        @[f] \union 1..recovery \union {r \in Revision : conflict = <<f, r>>}]]
        /\ UNCHANGED <<stale, away, dropped, sends, leaves>>

Refused(c) ==
    /\ wire[c] \in Answer /\ ~wire[c].saved
    /\ Failed(c, wire[c].conflict, wire[c].recovery)
    /\ UNCHANGED late

Unanswered(c) == wire[c] # NoWire /\ Failed(c, <<>>, 0) /\ late' = Unheard(c)

-----------------------------------------------------------------------------
(* Leaving.                                                                *)

\* retireMetadataRequests: nobody waits in the dialog of a library that is left
Retired == {c \in EditId : step[c] = "waiting"}

SwitchLibrary ==
    /\ leaves < MaxLeaves /\ leaves' = leaves + 1
    /\ away' = ~away
    /\ step' = [c \in EditId |-> IF c \in Retired THEN "none" ELSE step[c]]
    /\ executing' = [c \in EditId |-> IF c \in Retired THEN NoEdit ELSE executing[c]]
    /\ stale' = {c \in EditId : step[c] = "sent"}
    /\ review' = NoDialog
    /\ UNCHANGED <<retained, onDisk, wire, late, seen, dropped, sends, failures>>

\* what was shown of a recovery is not kept
Restored(p) == IF p = NoEdit THEN NoEdit ELSE [p EXCEPT !.recovery = 0]

Restart ==
    /\ leaves < MaxLeaves /\ leaves' = leaves + 1
    /\ retained' = [c \in EditId |-> Restored(onDisk[c])]
    /\ step' = [c \in EditId |-> "none"] /\ executing' = [c \in EditId |-> NoEdit]
    /\ wire' = [c \in EditId |-> NoWire] /\ late' = UNION {Unheard(c) : c \in EditId}
    /\ stale' = {} /\ review' = NoDialog
    /\ UNCHANGED <<onDisk, away, seen, dropped, sends, failures>>

-----------------------------------------------------------------------------
(* The server.                                                             *)

\* Mutant of Unchanged: a review stands for every later revision.
UnchangedSince(a, f) == IF a.reviewed[f] # 0 THEN revision[f] >= a.reviewed[f] ELSE revision[f] <= a.basis

\* EditContext.guard: the field is as it was, or exactly as it was reviewed
Unchanged(a, f) == IF a.reviewed[f] # 0 THEN revision[f] = a.reviewed[f] ELSE revision[f] <= a.basis

Repeated(a) == \E b \in committed : b.op = a.op

CommitEdit(a) ==
    /\ ~Repeated(a) /\ \A f \in Field : Unchanged(a, f)
    /\ Clock < MaxRevision
    /\ revision' = [f \in Field |-> Clock + 1]
    /\ committed' = committed \union {a}

Reply(c, answer) == wire' = [wire EXCEPT ![c] = answer]
Nothing == [saved |-> FALSE, conflict |-> <<>>, recovery |-> 0]

Reach(c) ==
    LET a == wire[c]
    IN  /\ a \in Attempt
        /\ \/ /\ a.basis = 0 /\ UNCHANGED <<revision, committed>>
              /\ \E shown \in {0, Clock} : Reply(c, [Nothing EXCEPT !.recovery = shown])
           \/ a.basis # 0 /\ CommitEdit(a) /\ Reply(c, [Nothing EXCEPT !.saved = TRUE])
           \/ a.basis # 0 /\ Repeated(a) /\ UNCHANGED <<revision, committed>>
              /\ Reply(c, [Nothing EXCEPT !.saved = a \in committed])
           \/ /\ a.basis # 0 /\ ~Repeated(a) /\ UNCHANGED <<revision, committed>>
              /\ \E f \in Field :
                    ~Unchanged(a, f) /\ Reply(c, [Nothing EXCEPT !.conflict = <<f, revision[f]>>])
        /\ UNCHANGED <<retained, onDisk, step, executing, stale, review, away, late, seen, dropped, sends, leaves, failures>>

\* a request whose answer nobody awaits
ReachLate(a) == a \in late /\ CommitEdit(a) /\ UNCHANGED pageVars

Elsewhere(f) ==
    /\ Clock < MaxRevision
    /\ revision' = [revision EXCEPT ![f] = Clock + 1]
    /\ UNCHANGED <<pageVars, committed>>

Here(c) ==
    \/ Make(c) \/ RequestAgain(c) \/ UseMine(c) \/ OpenEdit(c)
    \/ \E choice \in {"keep", "discard"} : Choose(c, choice)
    \/ Abandon(c) \/ Saved(c) \/ Refused(c) \/ Unanswered(c)

EditsNext ==
    \/ ((\E c \in EditId : Here(c)) \/ SwitchLibrary \/ Restart) /\ UNCHANGED <<revision, committed>>
    \/ \E c \in EditId : Reach(c)
    \/ \E a \in late : ReachLate(a)
    \/ \E f \in Field : Elsewhere(f)

EditsSpec == EditsInit /\ [][EditsNext]_editsVars

-----------------------------------------------------------------------------
(***************************************************************************)
(* An edit is committed once, however often it is sent ("Retrying cannot   *)
(* create a duplicate of a committed edit", MetadataReview): over lost     *)
(* answers, late requests and reviews.  Two exceptions: a stored edit that *)
(* storage refused to forget or to renew, and one whose answer a reload or *)
(* another library kept from it, whose old conflict is then on show again, *)
(* so that Use my value makes a second request of it.                      *)
(***************************************************************************)
AppliedOnce ==
    failures = 0 /\ leaves = 0 => \A a, b \in committed : a.op[1] = b.op[1] => a = b

(***************************************************************************)
(* An edit that was sent is held by the page until the server has          *)
(* committed it or the owner has discarded it, and so after a reload if    *)
(* storage took it ("any draft is retained", captureRequestScope).         *)
(***************************************************************************)
RetainedUntilSettled ==
    failures = 0 => \A c \in EditId : sends[c] > 0 /\ retained[c] = NoEdit =>
        c \in dropped \/ \E a \in committed : a.op[1] = c

(***************************************************************************)
(* No edit replaces what its owner was not shown, when the editor was      *)
(* opened or in a review ("Only explicit owner choices resume an           *)
(* overwrite", chooseEdit), however long ago either was.                   *)
(***************************************************************************)
OverwriteReviewed ==
    [][\A a \in committed' \ committed, f \in Field : revision[f] \in seen[a.op[1]][f]]_editsVars

(***************************************************************************)
(* A dialog that is answered is heard: a run that waits belongs to the     *)
(* library on show, and would send what the dialog shows.                  *)
(***************************************************************************)
ChoicesAreHeard == \A c \in EditId : step[c] = "waiting" => ~away /\ executing[c] = retained[c]

(***************************************************************************)
(* Every edit that was sent comes to one end: it is committed once or      *)
(* dropped by its owner, and until then the page holds it and its dialogs  *)
(* are heard (captureRequestScope, chooseEdit and the resend loop).        *)
(***************************************************************************)
EditsSettle == AppliedOnce /\ RetainedUntilSettled /\ ChoicesAreHeard

\* A discarded edit stays away: not so when it is discarded while its request is under way.
DiscardStays == failures = 0 => \A c \in dropped : retained[c] = NoEdit
=============================================================================
