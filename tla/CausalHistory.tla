---------------------------- MODULE CausalHistory ----------------------------
(***************************************************************************)
(* What replicas of one portable library promise each other, with no       *)
(* folder, inbox or outbox in sight: every replica keeps a set of          *)
(* immutable events, an author adds an event that names what its editor    *)
(* had observed, and another replica takes an issued event only once it    *)
(* holds everything that event names.                                      *)
(*                                                                         *)
(* ReplicaExchange (objects, provider copies, crashes) and CatalogUnits    *)
(* (revisions, holds, projection) both implement this module.              *)
(***************************************************************************)
EXTENDS FiniteSets

CONSTANTS
    Replica,    \* private stores: config.replica, one incarnation each
    Operation,  \* the operation ids editors attach to their saves
    Digest,     \* content hashes that name events
    Genesis     \* the pinned hash of the seed event

ASSUME GenesisAssumption == Genesis \in Digest

VARIABLES
    body,       \* the content of every event issued after the seed
    history     \* the events each replica has accepted

vars == <<body, history>>

Body == [replica: Replica, operation: Operation, deps: SUBSET Digest]

Issued == DOMAIN body \union {Genesis}

\* parents and bases: everything the author had observed (the seed names nothing)
Deps(e) == IF e = Genesis THEN {} ELSE body[e].deps

(***************************************************************************)
(* Types: what is issued names an author, an operation and ancestry.       *)
(***************************************************************************)
TypeOK ==
    /\ DOMAIN body \subseteq Digest \ {Genesis}
    /\ body \in [DOMAIN body -> Body]
    /\ history \in [Replica -> SUBSET Digest]

-----------------------------------------------------------------------------
Init ==
    /\ body = [e \in {} |-> e]
    /\ history \in [Replica -> {{}, {Genesis}}]

\* Mutant of HasReceipt: a retry does not look for its receipt.
NoReceipt(r, op) == FALSE

\* the retry receipt: this replica already committed an event for this operation
HasReceipt(r, op) ==
    \E e \in DOMAIN body : body[e].replica = r /\ body[e].operation = op

(***************************************************************************)
(* save_in: a new operation on a ready catalog becomes one event naming    *)
(* the observed frontier and bases.  A retry of an operation that has a    *)
(* receipt returns that receipt and changes nothing.                       *)
(***************************************************************************)
Save(r, op, e, deps) ==
    /\ Genesis \in history[r]
    /\ deps \in (SUBSET history[r]) \ {{}}
    /\ e \in Digest \ Issued
    /\ ~HasReceipt(r, op)
    /\ body' = [x \in DOMAIN body \union {e} |->
                    IF x = e THEN [replica |-> r, operation |-> op, deps |-> deps]
                             ELSE body[x]]
    /\ history' = [history EXCEPT ![r] = @ \union {e}]

\* Mutant of Accept: a batch does not wait for missing dependencies.
AcceptEarly(r, e) ==
    /\ e \in Issued \ history[r]
    /\ e = Genesis \/ Genesis \in history[r]
    /\ history' = [history EXCEPT ![r] = @ \union {e}]
    /\ UNCHANGED body

\* accept: the whole ancestry first, and the seed before anything else
Accept(r, e) ==
    /\ e \in Issued \ history[r]
    /\ e = Genesis \/ Genesis \in history[r]
    /\ Deps(e) \subseteq history[r]
    /\ history' = [history EXCEPT ![r] = @ \union {e}]
    /\ UNCHANGED body

Next ==
    \E r \in Replica, e \in Digest :
        \/ Accept(r, e)
        \/ \E op \in Operation, deps \in SUBSET Digest : Save(r, op, e, deps)

Spec == Init /\ [][Next]_vars

-----------------------------------------------------------------------------
(***************************************************************************)
(* A replica never holds an event whose ancestry it lacks: accept          *)
(* (storage.py) returns "pending" while a parent or basis is missing, so   *)
(* every causal version a replica shows can be reconstructed there.        *)
(***************************************************************************)
CausallyClosed ==
    \A r \in Replica : \A e \in history[r] : Deps(e) \subseteq history[r]

(***************************************************************************)
(* Whatever any replica holds, its author holds: save_in commits before    *)
(* anything is published, so a crash of the author never leaves others     *)
(* with work the author has forgotten.                                     *)
(***************************************************************************)
AuthorHolds ==
    \A e \in DOMAIN body : e \in history[body[e].replica]

(***************************************************************************)
(* A stable operation id names at most one event, however often the save   *)
(* was retried (retry_receipt, the UNIQUE(replica,operation) constraint).  *)
(***************************************************************************)
OneEventPerOperation ==
    \A e, f \in DOMAIN body :
        (body[e].replica = body[f].replica /\ body[e].operation = body[f].operation)
            => e = f

(***************************************************************************)
(* Ancestry has no cycle: every nonempty set of events has a member that   *)
(* names none of the others, so waiting for dependencies can end.          *)
(***************************************************************************)
AncestryWellFounded ==
    \A S \in (SUBSET Issued) \ {{}} : \E e \in S : Deps(e) \cap S = {}

(***************************************************************************)
(* The lineage of the whole exchange is sound: retries and crashes at the  *)
(* gap between the commit and the publication never leave two events of    *)
(* one operation, an event its author lost, or ancestry that cannot be     *)
(* completed (retry_receipt and save_in).                                  *)
(***************************************************************************)
LineageHolds == AuthorHolds /\ OneEventPerOperation /\ AncestryWellFounded
=============================================================================
