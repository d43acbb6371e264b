---------------------------- MODULE InspectorDraft ----------------------------
(***************************************************************************)
(* The bundle inspector of the browser (useCatalogBundleDraft) over the    *)
(* catalog jobs it saves through.  Input stays editable while a save is on *)
(* its way, so a draft carries three things that age differently: what is  *)
(* typed, the revisions each input replaces, and the request that was sent *)
(* and not answered.  The bundle it shows is a snapshot that is read again *)
(* at some later time.  Other computers edit the same bundle.  The draft   *)
(* of the page is copied to the browser's storage and to the server, each  *)
(* of which may be behind, and the page can be given another retained one. *)
(***************************************************************************)
EXTENDS CatalogJobs

CONSTANTS
    MaxUses      \* bound: inputs typed, editors left, drafts that storage refuses or the
                 \* server does not get at once, and edits of other computers

ASSUME EditorAssumption == MaxUses \in Nat

VARIABLES
    entity,    \* the tips of each unit when the bundle was last read
    draft,     \* the draft of the page: inputs, observed, pending, and the history begun:
               \* for each input, the tips on show when it was begun
    ack,       \* the last acknowledged save of this page, or NoAck
    call,      \* where the save under way is: "idle", "post" or "wait"
    written,   \* the draft in the browser's storage
    delivered, \* the draft the server retains for this editor
    copies,    \* the drafts it retains of the editors before, on offer for recovery
    uses,      \* of MaxUses, but for the edits of others (counts.remote)
    settled,   \* history: the operations that were answered
    forgone    \* history: those lost with a page whose draft was not kept

draftVars == <<entity, draft, ack, call, written, delivered, copies, uses, settled, forgone>>
inspectorVars == <<jobVars, draftVars>>
keptVars == <<written, delivered, copies, uses>>

None == [op |-> 0, inputs |-> <<>>, basis |-> <<>>]
NoAck == [basis |-> <<>>, event |-> 0]
Empty == [inputs |-> <<>>, observed |-> <<>>, pending |-> None, begun |-> <<>>]

Own == {i \in DOMAIN log : log[i].op # 0}
Typed == DOMAIN draft.inputs
Drafts == {draft, written, delivered} \union copies
Disagree(S, u) == \E i, k \in S : log[i].value[u] # log[k].value[u]

(***************************************************************************)
(* Types; a save is on its way only while its request is retained.         *)
(***************************************************************************)
InspectorTypeOK ==
    /\ entity \in [Unit -> SUBSET DOMAIN log]
    /\ \A d \in Drafts :
        /\ d.inputs \in Partial(Value)
        /\ {d.observed, d.begun} \subseteq [DOMAIN d.inputs -> SUBSET DOMAIN log]
        /\ d.pending.op \in Job \union {0}
        /\ d.pending.inputs \in Partial(Value)
        /\ d.pending.basis \in Partial(SUBSET DOMAIN log)
    /\ ack.event \in {0} \union DOMAIN log
    /\ call \in {"idle", "post", "wait"}
    /\ call # "idle" => draft.pending # None
    /\ uses \in 0..MaxUses
    /\ UNION {settled, forgone} \subseteq Job

InspectorInit ==
    /\ JobInit
    /\ entity = [u \in Unit |-> Tips(u)]
    /\ draft = Empty /\ written = Empty /\ delivered = Empty /\ copies = {}
    /\ ack = NoAck
    /\ call = "idle"
    /\ uses = 0
    /\ settled = {} /\ forgone = {}

-----------------------------------------------------------------------------
(* Where a draft is kept.                                                  *)

\* the page goes on with a draft at once: the browser's storage may refuse it, and the
\* server may not be there
Persist(d, typed) ==
    /\ draft' = d
    /\ written' \in {written, d} /\ delivered' \in {delivered, d}
    /\ uses' = uses + typed + (IF written' = d /\ delivered' = d THEN 0 ELSE 1)
    /\ uses' + counts.remote <= MaxUses
    /\ UNCHANGED copies

\* tried again every few seconds (what the server takes of it: PrivateDrafts)
DeliverDraft ==
    /\ delivered # draft
    /\ delivered' = draft
    /\ UNCHANGED <<jobVars, entity, draft, ack, call, written, copies, uses, settled, forgone>>

-----------------------------------------------------------------------------
(* What the owner types.                                                   *)

\* an input keeps the revisions it was begun over (those of other units are kept and
\* never read)
Begun(w) == IF w \in Typed THEN draft.observed[w] ELSE entity[w]

\* a snapshot from before the last acknowledged save counts as that save
Basis(w) ==
    IF w \in DOMAIN ack.basis /\ entity[w] = ack.basis[w] THEN {ack.event} ELSE Begun(w)

Type(u, v) ==
    LET units == Typed \union {u}
    IN  /\ Persist([draft EXCEPT
                !.inputs = [w \in units |-> IF w = u THEN v ELSE @[w]],
                !.observed = [w \in units |-> Basis(w)],
                !.begun = [w \in units |-> IF w \in Typed THEN @[w] ELSE entity[w]]], 1)
        /\ UNCHANGED <<jobVars, entity, ack, call, settled, forgone>>

-----------------------------------------------------------------------------
(* Saving.  The request is retained before it is sent, so that a retry is  *)
(* the same operation with the same content.                               *)

\* what is held on show, is typed over, and was on show when that was begun
ReviewedConflict ==
    \E u \in Typed : Disagree(entity[u], u) /\ entity[u] \subseteq draft.observed[u]

\* an identity nobody has drawn; they are numbered in the order the server takes them
FreshJob == {j \in Job : row[j] = Absent /\ \A d \in Drafts : d.pending.op # j}

Request ==
    /\ call = "idle"
    /\ draft.pending = None /\ Typed # {}
    /\ ~ReviewedConflict
    /\ \E j \in FreshJob : Persist([draft EXCEPT !.pending =
            [op |-> j, inputs |-> draft.inputs, basis |-> draft.observed]], 0)
    /\ call' = "post"
    /\ UNCHANGED <<jobVars, entity, ack, settled, forgone>>

\* Mutant of Retry: the same content under a new operation.
RetryAnew ==
    /\ call = "idle"
    /\ draft.pending # None
    /\ \E j \in FreshJob : Persist([draft EXCEPT !.pending.op = j], 0)
    /\ call' = "post"
    /\ UNCHANGED <<jobVars, entity, ack, settled, forgone>>

Retry ==
    /\ call = "idle"
    /\ draft.pending # None
    /\ call' = "post"
    /\ UNCHANGED <<jobVars, entity, draft, ack, keptVars, settled, forgone>>

\* the handler keeps the row of an operation it already knows
Post ==
    /\ call = "post"
    /\ LET p == draft.pending
       IN  \/ Enqueue(p.op, "save", 0, [value |-> p.inputs, basis |-> p.basis, resolve |-> FALSE])
           \/ row[p.op] # Absent /\ UNCHANGED jobVars
    /\ call' = "wait"
    /\ UNCHANGED <<entity, draft, ack, keptVars, settled, forgone>>

\* Mutant of Remaining: what the request named is saved, whatever was typed since.
RemainingOthers(p) == [u \in Typed \ DOMAIN p.inputs |-> draft.inputs[u]]

\* what was typed after the request was made is still unsaved
Remaining(p) ==
    [u \in {w \in Typed : w \in DOMAIN p.inputs => draft.inputs[w] # p.inputs[w]} |->
        draft.inputs[u]]

\* only the units of the save move on to it
Advanced(p, e, u) == IF u \in DOMAIN p.inputs THEN {e} ELSE draft.observed[u]

Succeed ==
    LET p == draft.pending
        e == row[p.op].event
        rest == Remaining(p)
    IN  /\ call = "wait"
        /\ row[p.op].state = "succeeded"
        /\ Persist([inputs |-> rest, observed |-> [u \in DOMAIN rest |-> Advanced(p, e, u)],
                    pending |-> None, begun |-> [u \in DOMAIN rest |-> draft.begun[u]]], 0)
        /\ ack' = [basis |-> p.basis, event |-> e]
        /\ call' = "idle"
        /\ settled' = settled \union {p.op}
        /\ UNCHANGED <<jobVars, entity, forgone>>

\* a job that failed or was cancelled ends the request and not the input
RefusedDraft == [draft EXCEPT !.pending = None]

Fail ==
    /\ call = "wait"
    /\ row[draft.pending.op].state \in {"failed", "cancelled"}
    /\ Persist(RefusedDraft, 0)
    /\ call' = "idle"
    /\ settled' = settled \union {draft.pending.op}
    /\ UNCHANGED <<jobVars, entity, ack, forgone>>

\* the request or its answer is lost, or the library was switched: the request stays
GiveUp ==
    /\ call # "idle"
    /\ call' = "idle"
    /\ UNCHANGED <<jobVars, entity, draft, ack, keptVars, settled, forgone>>

-----------------------------------------------------------------------------
(* Around a save.                                                          *)

Refresh ==
    /\ entity' = [u \in Unit |-> Tips(u)]
    /\ UNCHANGED <<jobVars, draft, ack, call, keptVars, settled, forgone>>

\* the page starts over with a draft: what is in memory only is gone
StartWith(d) ==
    /\ entity' = [u \in Unit |-> Tips(u)]
    /\ draft' = d
    /\ ack' = NoAck
    /\ call' = "idle"
    /\ forgone' = forgone \union {j \in Job : /\ j = draft.pending.op /\ row[j] # Absent
                                           /\ \A c \in {d} \union copies' : c.pending.op # j}
    /\ UNCHANGED <<jobVars, settled>>

\* the page is left and opened again: it starts from what storage took
Reload ==
    /\ UNCHANGED keptVars
    /\ StartWith(written)

Offered(d) == d.pending # None \/ d.inputs # <<>>

\* the bundle is opened where storage has no draft of it: in another window, or in this
\* one after it refused the first write.  What the server retained is another editor's now
Reopen ==
    /\ copies' = copies \union {d \in {delivered} : Offered(d)}
    /\ uses + counts.remote < MaxUses /\ uses' = uses + 1
    /\ StartWith(Empty)
    /\ written' = Empty /\ delivered' = Empty

\* a retained draft takes the place of what is typed; it may bring its request along
RecoverCopy(c) ==
    /\ call = "idle"
    /\ draft.pending = None
    /\ Persist(c, 0)
    /\ UNCHANGED <<jobVars, entity, ack, call, settled, forgone>>

\* "a lost response can hide a committed save"
DiscardDraft ==
    /\ draft.pending = None /\ Typed # {}
    /\ draft' = Empty /\ written' = Empty /\ delivered' = Empty
    /\ UNCHANGED <<jobVars, entity, ack, call, copies, uses, settled, forgone>>

Inspector ==
    \/ \E u \in Unit, v \in Value : Type(u, v)
    \/ Request \/ Retry \/ Post \/ Succeed \/ Fail \/ GiveUp
    \/ Refresh \/ DeliverDraft \/ Reload \/ Reopen \/ DiscardDraft
    \/ \E c \in copies : RecoverCopy(c)

\* restarts and blocks leave rows and receipts as CatalogJobs says; they are explored there.
\* What another computer writes is not the value of the beginning: the owner may type
\* the same or another
ServerStep ==
    /\ \/ \E j \in Job : Cancel(j) \/ Run(j)
       \/ /\ uses + counts.remote < MaxUses
          /\ \E u \in Unit, v \in Value \ {Seed}, i \in DOMAIN log : Remote(u, v, i)
    /\ UNCHANGED draftVars

InspectorNext == Inspector \/ ServerStep
InspectorSpec == InspectorInit /\ [][InspectorNext]_inspectorVars

-----------------------------------------------------------------------------
\* the request that is answered for is in the catalog, with the input as it is now
SavedAsTyped(u) ==
    \E i \in Own : /\ log[i].op = draft.pending.op
                  /\ u \in DOMAIN log[i].value /\ log[i].value[u] = draft.inputs[u]

(***************************************************************************)
(* An input leaves the draft or changes only                               *)
(*   - by the owner: typed over, discarded, or replaced by a retained      *)
(*     draft that is recovered,                                            *)
(*   - by the receipt of the request that saved exactly this input: what   *)
(*     was typed since stays, if it is the only input too, or              *)
(*   - with a page that is left, and then it is on offer for recovery,     *)
(*     unless storage had refused it or the server was not reached.        *)
(* (save: "newer input ... remain intact", docs/replica-catalog.md.)       *)
(***************************************************************************)
InputKept ==
    [][\A u \in Typed :
        \/ u \in DOMAIN draft'.inputs /\ draft'.inputs[u] = draft.inputs[u]
        \/ (\E v \in Value : Type(u, v)) \/ DiscardDraft \/ (\E c \in copies : RecoverCopy(c))
        \/ Succeed /\ SavedAsTyped(u)
        \/ Reload /\ written # draft
        \/ Reopen /\ (draft \in copies' \/ delivered # draft)]_inspectorVars

(***************************************************************************)
(* An input replaces what was on show when it was begun, or the editor's   *)
(* own saves, and never what arrived in between, be it recovered, retried  *)
(* or reloaded: "Saving a stale draft creates a visible concurrent edit,   *)
(* never an overwrite" (docs/adr/0029-cloud-metadata-replicas.md).         *)
(***************************************************************************)
BasesWereSeen == \A u \in Typed : draft.observed[u] \subseteq draft.begun[u] \union Own

(***************************************************************************)
(* A save that reached the catalog is one the editor was answered about,   *)
(* still asks about or can recover: no retry, discard or recovery leaves a *)
(* committed save behind that nobody knows of.  ("A lost response can hide *)
(* a committed save".)  Excepted are requests of a page that was left with *)
(* a draft that storage had refused or the server not received.            *)
(***************************************************************************)
NoHiddenSave ==
    \A i \in Own : \/ log[i].op \in settled \union forgone
                  \/ \E d \in {draft} \union copies : d.pending.op = log[i].op

(***************************************************************************)
(* What the editor saves is known on both sides: its bases are what the    *)
(* owner was shown, and what the catalog took of it is settled or can still*)
(* be asked about (save, retry, discard and recover in                     *)
(* useCatalogBundleDraft).                                                 *)
(***************************************************************************)
SavesAreKnown == BasesWereSeen /\ NoHiddenSave

(***************************************************************************)
(* Not so of this code: "ordinary save cannot consume an already observed  *)
(* conflict" (useCatalogBundleDraft.test.tsx). prepare refuses only when   *)
(* every revision on show had been observed, so a save replaces revisions  *)
(* that disagree when one arrived after the input was begun.               *)
(***************************************************************************)
ConflictReviewed == \A k \in Own : \A u \in DOMAIN log[k].basis : ~Disagree(log[k].basis[u], u)

(***************************************************************************)
(* Not so of this code: "continued input uses its own receipt"             *)
(* (useCatalogBundleDraft.test.tsx). An entity that is older than two      *)
(* saves of the editor gives a basis the first save has superseded, and    *)
(* the editor competes with itself.                                        *)
(***************************************************************************)
OwnSavesChain == \A u \in Unit : Cardinality(Own \intersect Tips(u)) <= 1
=============================================================================
