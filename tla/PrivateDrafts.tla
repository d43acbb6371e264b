---------------------------- MODULE PrivateDrafts ----------------------------
(***************************************************************************)
(* The private drafts of the web client's editors (useCatalogDraft) and    *)
(* the server's side of them (CatalogStore.draft, dismiss_draft).  A draft *)
(* is an identity, a revision and a body; it is written to the browser's   *)
(* storage at once and sent to the server again and again.  Tabs may be    *)
(* duplicated, closed and reloaded, storage may refuse a write, requests   *)
(* overtake one another and are lost.                                      *)
(***************************************************************************)
EXTENDS Naturals

CONSTANTS
    Tab, Editor,    \* browser tabs, and the editor ids holdEditor draws
    MaxEdits,       \* bound: edits typed
    MaxRefusals,    \* bound: writes that browser storage refuses
    NoEditor, NoDraft

Edit == 1..MaxEdits     \* the n-th edit is its own body, and names a draft it begins
Envelope == [id : Edit, revision : Edit, body : Edit]

ASSUME DraftsAssumption ==
    MaxEdits \in Nat /\ MaxRefusals \in Nat /\ NoEditor \notin Editor /\ NoDraft \notin Envelope

VARIABLES
    session,    \* the editor id in each tab's sessionStorage
    editor,     \* the editor whose lock each tab holds
    page,       \* the draft in each tab's memory (latest)
    stored,     \* localStorage, by editor
    dismissing, \* the draft each tab has asked to dismiss and awaits the answer for
    sent,       \* requests sent so far: each may arrive late, again, or never
    kept,       \* the server's drafts
    receipt,    \* the server's dismissal receipts, 0 for none
    edits, refusals

draftsVars == <<session, editor, page, stored, dismissing, sent, kept, receipt, edits, refusals>>
serverVars == <<kept, receipt>>

Held(e) == \E t \in Tab : editor[t] = e

DraftsTypeOK ==
    /\ session \in [Tab -> Editor \union {NoEditor}]
    /\ editor \in [Tab -> Editor \union {NoEditor}]
    /\ page \in [Tab -> Envelope \union {NoDraft}]
    /\ stored \in [Editor -> Envelope \union {NoDraft}]
    /\ dismissing \in [Tab -> Envelope \union {NoDraft}]
    /\ sent \subseteq {"put", "delete"} \X Envelope
    /\ kept \in [Edit -> Envelope \union {NoDraft}]
    /\ receipt \in [Edit -> {0} \union Edit]
    /\ edits \in 0..MaxEdits /\ refusals \in 0..MaxRefusals
    /\ \A t \in Tab : editor[t] = NoEditor => page[t] = NoDraft

DraftsInit ==
    /\ session = [t \in Tab |-> NoEditor] /\ editor = session
    /\ page = [t \in Tab |-> NoDraft] /\ dismissing = page
    /\ stored = [e \in Editor |-> NoDraft]
    /\ sent = {}
    /\ kept = [i \in Edit |-> NoDraft] /\ receipt = [i \in Edit |-> 0]
    /\ edits = 0 /\ refusals = 0

-----------------------------------------------------------------------------
(* Tabs.                                                                   *)

\* the browser copies sessionStorage into a duplicated tab
Duplicate(t, from) ==
    /\ editor[t] = NoEditor /\ editor[from] # NoEditor
    /\ session' = [session EXCEPT ![t] = session[from]]
    /\ UNCHANGED <<editor, page, stored, dismissing, sent, serverVars, edits, refusals>>

\* Mutant of Admitted: the id of the session is used as it is.
AdmittedAlways(e) == e # NoEditor

\* the lock is asked for if it is available
Admitted(e) == e # NoEditor /\ ~Held(e)

\* the editor loads what the browser has stored for it
Acquire(t) ==
    /\ editor[t] = NoEditor
    /\ \E e \in Editor :
        /\ IF Admitted(session[t])
           THEN e = session[t]
           ELSE ~Held(e) /\ stored[e] = NoDraft /\ \A q \in Tab : session[q] # e
        /\ session' = [session EXCEPT ![t] = e]
        /\ editor' = [editor EXCEPT ![t] = e]
        /\ page' = [page EXCEPT ![t] = stored[e]]
    /\ UNCHANGED <<stored, dismissing, sent, serverVars, edits, refusals>>

\* closed or reloaded: the lock is released with the page
Leave(t) ==
    /\ editor[t] # NoEditor
    /\ editor' = [editor EXCEPT ![t] = NoEditor]
    /\ page' = [page EXCEPT ![t] = NoDraft]
    /\ dismissing' = [dismissing EXCEPT ![t] = NoDraft]
    /\ UNCHANGED <<session, stored, sent, serverVars, edits, refusals>>

-----------------------------------------------------------------------------
(* The editor.                                                             *)

Generation(t, n) ==
    IF page[t] = NoDraft THEN [id |-> n, revision |-> 1, body |-> n]
    ELSE [id |-> page[t].id, revision |-> page[t].revision + 1, body |-> n]

Update(t) ==
    LET e == Generation(t, edits + 1)
    IN  /\ editor[t] # NoEditor /\ edits < MaxEdits
        /\ edits' = edits + 1
        /\ page' = [page EXCEPT ![t] = e]
        /\ \/ stored' = [stored EXCEPT ![editor[t]] = e] /\ UNCHANGED refusals
           \/ refusals < MaxRefusals /\ refusals' = refusals + 1 /\ UNCHANGED stored
        /\ UNCHANGED <<session, editor, dismissing, sent, serverVars>>

\* the generation on show is sent at once and every few seconds
Deliver(t) ==
    /\ page[t] # NoDraft
    /\ sent' = sent \union {<<"put", page[t]>>}
    /\ UNCHANGED <<session, editor, page, stored, dismissing, serverVars, edits, refusals>>

Discard(t) ==
    /\ page[t] # NoDraft /\ dismissing[t] = NoDraft
    /\ dismissing' = [dismissing EXCEPT ![t] = page[t]]
    /\ sent' = sent \union {<<"delete", page[t]>>}
    /\ UNCHANGED <<session, editor, page, stored, serverVars, edits, refusals>>

\* Mutant of Untouched: the answer clears whatever is there by now.
UntouchedOrNot(t) == TRUE

\* nothing was typed since the dismissal was asked for
Untouched(t) == page[t] = dismissing[t]

\* the dismissal is answered: the browser's copy of that generation goes too
Dismissed(t) ==
    LET d == dismissing[t]
    IN  /\ d # NoDraft /\ receipt[d.id] >= d.revision
        /\ IF Untouched(t)
           THEN /\ page' = [page EXCEPT ![t] = NoDraft]
                /\ stored' = [stored EXCEPT ![editor[t]] = NoDraft]
           ELSE UNCHANGED <<page, stored>>
        /\ dismissing' = [dismissing EXCEPT ![t] = NoDraft]
        /\ UNCHANGED <<session, editor, sent, serverVars, edits, refusals>>

\* no answer: the draft stays as it is
DismissLost(t) ==
    /\ dismissing[t] # NoDraft
    /\ dismissing' = [dismissing EXCEPT ![t] = NoDraft]
    /\ UNCHANGED <<session, editor, page, stored, sent, serverVars, edits, refusals>>

-----------------------------------------------------------------------------
(* The server takes requests in any order, more than once, or never.       *)

\* Mutant of Superseded: a receipt counts only for what is there when it is made.
SupersededNever(d) == FALSE

Superseded(d) == d.revision <= receipt[d.id]

\* older generations, and others of the same revision, are refused
Newer(d) ==
    \/ kept[d.id] = NoDraft
    \/ d.revision > kept[d.id].revision
    \/ d = kept[d.id]

Put(d) ==
    /\ <<"put", d>> \in sent
    /\ kept' = IF ~Superseded(d) /\ Newer(d) THEN [kept EXCEPT ![d.id] = d] ELSE kept
    /\ UNCHANGED <<session, editor, page, stored, dismissing, sent, receipt, edits, refusals>>

Clearing(d) == kept[d.id] # NoDraft /\ kept[d.id].revision <= d.revision

Dismiss(d) ==
    /\ <<"delete", d>> \in sent
    /\ receipt' = [receipt EXCEPT ![d.id] = IF @ > d.revision THEN @ ELSE d.revision]
    /\ kept' = IF Clearing(d) THEN [kept EXCEPT ![d.id] = NoDraft] ELSE kept
    /\ UNCHANGED <<session, editor, page, stored, dismissing, sent, edits, refusals>>

DraftsNext ==
    \/ \E t \in Tab :
        \/ Acquire(t) \/ Leave(t) \/ \E q \in Tab : Duplicate(t, q)
        \/ Update(t) \/ Deliver(t) \/ Discard(t) \/ Dismissed(t) \/ DismissLost(t)
    \/ \E r \in sent : Put(r[2]) \/ Dismiss(r[2])

DraftsSpec == DraftsInit /\ [][DraftsNext]_draftsVars

-----------------------------------------------------------------------------
(***************************************************************************)
(* What was dismissed does not come back, however late its requests arrive *)
(* ("Draft receipts prevent delayed requests from resurrecting discarded   *)
(* editor generations", CatalogStore.draft).                               *)
(***************************************************************************)
DismissedStays == \A i \in Edit : kept[i] # NoDraft => kept[i].revision > receipt[i]

(***************************************************************************)
(* The server's copy of a draft goes forward, and leaves only for a        *)
(* dismissal of that generation or a later one.                            *)
(***************************************************************************)
KeptGoesForward ==
    \A i \in Edit : kept[i] # NoDraft /\ kept'[i] # kept[i] =>
        IF kept'[i] = NoDraft THEN receipt'[i] >= kept[i].revision
        ELSE kept'[i].revision > kept[i].revision

(***************************************************************************)
(* The answer to a dismissal removes what was dismissed and not what was   *)
(* typed since (discard: "latest.current === target").                     *)
(***************************************************************************)
OnlyDismissedGoes ==
    \A e \in Editor : stored[e] # NoDraft /\ stored'[e] = NoDraft =>
        receipt[stored[e].id] >= stored[e].revision

(***************************************************************************)
(* The newest typing survives: neither a delayed request on the server nor *)
(* a delayed answer in the page takes a draft newer than what was          *)
(* dismissed (CatalogStore.draft, PrivateDrafts.discard).                  *)
(***************************************************************************)
NewestDraftKept == [][KeptGoesForward /\ OnlyDismissedGoes]_draftsVars

(***************************************************************************)
(* No two tabs write the same draft: a duplicated tab inherits the id of   *)
(* the other, and takes its own ("A browser lock separates duplicated tabs *)
(* that initially inherit the same session storage", holdEditor).          *)
(***************************************************************************)
OneWriter ==
    \A t, q \in Tab : t # q /\ page[t] # NoDraft /\ page[q] # NoDraft => page[t].id # page[q].id
=============================================================================
