----------------------------- MODULE Connections -----------------------------
(***************************************************************************)
(* The desktop client's servers (desktop/connections.ts): the configured   *)
(* connections and the selected one are in memory and in the shell's       *)
(* store; an activation prepares a server, then commits it to the store,   *)
(* the shell's transport and the page, one after the other, and puts the   *)
(* store back if the shell refuses.  Connections are added meanwhile, each *)
(* write may fail, and the program may be quit between any two.            *)
(***************************************************************************)
EXTENDS Naturals

CONSTANTS
    Server,         \* connection ids, the local one among them
    MaxActivations, MaxAdds, MaxLaunches,   \* bounds
    NoServer, NoWork

VARIABLES
    selection,      \* state: the connections in memory and the active one
    store,          \* the same, as the shell has stored it
    relay,          \* what the shell's URL, grant and relay are configured for
    base,           \* where the page sends its requests (setApiBaseUrl)
    scope,          \* session: fences requests and remounts the page
    flight,         \* inFlight
    adding,         \* what each addRemoteConnection is saving
    overlapped,     \* since the launch, two of these writers have worked from one snapshot
    misremembered,  \* putting the store back has failed
    activations, adds, launches

connVars == <<selection, store, relay, base, scope, flight, adding, overlapped, misremembered,
              activations, adds, launches>>
boundVars == <<activations, adds, launches>>

Selection == [list : SUBSET Server, active : Server \union {NoServer}]
Flight == [id : Server, stage : {"preparing", "saving", "configuring", "restoring"},
           aborted : BOOLEAN, before : Selection]

ASSUME ConnAssumption ==
    /\ {MaxActivations, MaxAdds, MaxLaunches} \subseteq Nat
    /\ NoServer \notin Server /\ NoWork \notin Selection \union Flight

ConnTypeOK ==
    /\ selection \in Selection /\ store \in Selection
    /\ relay \in Server \union {NoServer} /\ base \in Server \union {NoServer}
    /\ scope \in 0..MaxActivations
    /\ flight \in Flight \union {NoWork}
    /\ adding \in [Server -> Selection \union {NoWork}]
    /\ overlapped \in BOOLEAN /\ misremembered \in BOOLEAN
    /\ overlapped \/ selection.active \in selection.list \union {NoServer}

\* someone works from a snapshot of the selection
Snapshots ==
    \/ \E c \in Server : adding[c] # NoWork
    \/ flight # NoWork /\ flight.stage # "preparing"

ConnInit ==
    /\ selection = [list |-> {}, active |-> NoServer] /\ store = selection
    /\ relay = NoServer /\ base = NoServer /\ scope = 0
    /\ flight = NoWork /\ adding = [c \in Server |-> NoWork]
    /\ overlapped = FALSE /\ misremembered = FALSE
    /\ activations = 0 /\ adds = 0 /\ launches = 0

-----------------------------------------------------------------------------
(* addRemoteConnection, ensureLocalConnection                              *)

AddServer(c) ==
    /\ adds < MaxAdds /\ adds' = adds + 1
    /\ c \notin selection.list /\ adding[c] = NoWork
    /\ adding' = [adding EXCEPT ![c] = [selection EXCEPT !.list = @ \union {c}]]
    /\ overlapped' = (overlapped \/ Snapshots)
    /\ UNCHANGED <<selection, store, relay, base, scope, flight, misremembered, activations, launches>>

\* saved, and only then known
AddSaved(c) ==
    /\ adding[c] # NoWork
    /\ store' = adding[c] /\ selection' = adding[c]
    /\ adding' = [adding EXCEPT ![c] = NoWork]
    /\ UNCHANGED <<relay, base, scope, flight, overlapped, misremembered, boundVars>>

AddRefused(c) ==
    /\ adding[c] # NoWork
    /\ adding' = [adding EXCEPT ![c] = NoWork]
    /\ UNCHANGED <<selection, store, relay, base, scope, flight, overlapped, misremembered, boundVars>>

-----------------------------------------------------------------------------
(* activateConnection.  A repeated request joins the attempt under way and *)
(* one for another server is refused, so neither is a step.                *)

Activate(c) ==
    /\ activations < MaxActivations /\ activations' = activations + 1
    /\ flight = NoWork /\ c \in selection.list
    /\ flight' = [id |-> c, stage |-> "preparing", aborted |-> FALSE, before |-> selection]
    /\ UNCHANGED <<selection, store, relay, base, scope, adding, overlapped, misremembered, adds, launches>>

InStage(stage) == flight # NoWork /\ flight.stage = stage

CancelActivation ==
    /\ InStage("preparing")
    /\ flight' = [flight EXCEPT !.aborted = TRUE]
    /\ UNCHANGED <<selection, store, relay, base, scope, adding, overlapped, misremembered, boundVars>>

\* the server does not answer, has another version, lists no such library; or was cancelled
PrepareFails ==
    /\ InStage("preparing")
    /\ flight' = NoWork
    /\ UNCHANGED <<selection, store, relay, base, scope, adding, overlapped, misremembered, boundVars>>

\* the last moment at which a cancellation counts
Committing == ~flight.aborted

\* Mutant of Prepared: what to write and to put back is worked out when the attempt begins.
PreparedEarly ==
    /\ InStage("preparing") /\ Committing
    /\ flight' = [flight EXCEPT !.stage = "saving"]
    /\ overlapped' = (overlapped \/ Snapshots)
    /\ UNCHANGED <<selection, store, relay, base, scope, adding, misremembered, boundVars>>

Prepared ==
    /\ InStage("preparing") /\ Committing
    /\ flight' = [flight EXCEPT !.stage = "saving", !.before = selection]
    /\ overlapped' = (overlapped \/ Snapshots)
    /\ UNCHANGED <<selection, store, relay, base, scope, adding, misremembered, boundVars>>

Target == [flight.before EXCEPT !.active = flight.id]

SelectionSaved ==
    /\ InStage("saving")
    /\ store' = Target
    /\ flight' = [flight EXCEPT !.stage = "configuring"]
    /\ UNCHANGED <<selection, relay, base, scope, adding, overlapped, misremembered, boundVars>>

SelectionRefused ==
    /\ InStage("saving")
    /\ flight' = NoWork
    /\ UNCHANGED <<selection, store, relay, base, scope, adding, overlapped, misremembered, boundVars>>

\* the shell commits all of its part or nothing; the page follows without a pause
Configured ==
    /\ InStage("configuring")
    /\ relay' = flight.id /\ base' = flight.id
    /\ selection' = Target /\ scope' = scope + 1
    /\ flight' = NoWork
    /\ UNCHANGED <<store, adding, overlapped, misremembered, boundVars>>

ConfigureFails ==
    /\ InStage("configuring")
    /\ flight' = [flight EXCEPT !.stage = "restoring"]
    /\ UNCHANGED <<selection, store, relay, base, scope, adding, overlapped, misremembered, boundVars>>

\* Mutant of SelectionRestored: the failure is reported, the store keeps the choice.
SelectionRestoredNot ==
    /\ InStage("restoring")
    /\ flight' = NoWork
    /\ UNCHANGED <<selection, store, relay, base, scope, adding, overlapped, misremembered, boundVars>>

SelectionRestored ==
    /\ InStage("restoring")
    /\ store' = flight.before
    /\ flight' = NoWork
    /\ UNCHANGED <<selection, relay, base, scope, adding, overlapped, misremembered, boundVars>>

RestoreFails ==
    /\ InStage("restoring")
    /\ misremembered' = TRUE
    /\ flight' = NoWork
    /\ UNCHANGED <<selection, store, relay, base, scope, adding, overlapped, boundVars>>

\* normalize: an active id that names no connection falls back to one that does
Normalized(s) ==
    IF s.active \in s.list THEN s
    ELSE [s EXCEPT !.active = IF s.list = {} THEN NoServer ELSE CHOOSE c \in s.list : TRUE]

\* the program is quit, or killed, and started again; it then activates what it loaded
Launch ==
    /\ launches < MaxLaunches /\ launches' = launches + 1
    /\ selection' = Normalized(store)
    /\ relay' = NoServer /\ base' = NoServer /\ scope' = 0
    /\ flight' = NoWork /\ adding' = [c \in Server |-> NoWork]
    /\ overlapped' = FALSE
    /\ UNCHANGED <<store, misremembered, activations, adds>>

ConnNext ==
    \/ \E c \in Server : AddServer(c) \/ AddSaved(c) \/ AddRefused(c) \/ Activate(c)
    \/ CancelActivation \/ PrepareFails \/ Prepared
    \/ SelectionSaved \/ SelectionRefused \/ Configured \/ ConfigureFails
    \/ SelectionRestored \/ RestoreFails \/ Launch

ConnSpec == ConnInit /\ [][ConnNext]_connVars

-----------------------------------------------------------------------------
(***************************************************************************)
(* Between activations the server on show, the server the page asks and    *)
(* the one the shell relays to are the same ("Verifies before persisting   *)
(* or changing transport"), and the one the next launch will open is that  *)
(* one too, unless restoring it failed and the owner was told so.  Writers *)
(* that work from one snapshot of the selection are the exception.         *)
(***************************************************************************)
OneServer ==
    flight = NoWork /\ base # NoServer /\ ~overlapped =>
        /\ selection.active = base /\ relay = base
        /\ misremembered \/ store.active = base

(***************************************************************************)
(* A cancelled attempt leaves everything as it was ("Connection cancelled. *)
(* The previous selection is unchanged"), though it goes on until the      *)
(* server it was starting answers.                                         *)
(***************************************************************************)
CancelledChangesNothing ==
    flight # NoWork /\ flight.aborted /\ launches' = launches =>
        /\ relay' = relay /\ base' = base
        /\ flight' # NoWork => flight'.stage = "preparing"
        /\ adding' = adding => store' = store

(***************************************************************************)
(* Whenever the page is pointed at a server, the same one again included,  *)
(* requests made before are fenced off: the scope is a new one             *)
(* ("Reconnecting the same server still creates a fresh request and query  *)
(* scope", getConnectionSession).                                          *)
(***************************************************************************)
NewScope == InStage("configuring") /\ flight' = NoWork /\ launches' = launches => scope' > scope

(***************************************************************************)
(* A connection once saved stays in memory and in the store: one that is   *)
(* added while a server is being prepared survives its commit and its      *)
(* restoration, which take the selection as it is after the preparation    *)
(* (runActivation's `previous`), unless writers overlapped.                *)
(***************************************************************************)
NothingForgotten ==
    ~overlapped /\ ~overlapped' => selection.list \subseteq selection'.list /\ store.list \subseteq store'.list

(***************************************************************************)
(* Activations, cancellations and additions that overlap leave the saved   *)
(* connections whole: nothing is forgotten, a cancelled attempt changes    *)
(* nothing, and a finished one fences off what was asked before            *)
(* (runActivation, cancelActivation).                                      *)
(***************************************************************************)
ConnectionsKept == [][CancelledChangesNothing /\ NewScope /\ NothingForgotten]_connVars

\* Without the exception for writers that work from one snapshot the page may ask one server
\* and name another: addRemoteConnection's and runActivation's `state = next` then undo one another.
AlwaysOneServer == flight = NoWork /\ base # NoServer => selection.active = base
=============================================================================
