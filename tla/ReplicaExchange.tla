--------------------------- MODULE ReplicaExchange ---------------------------
(***************************************************************************)
(* The exchange of immutable catalog objects between replicas whose only   *)
(* channel is a folder that a sync provider copies at its own pace.        *)
(*                                                                         *)
(* Each replica has a private SQLite store (events with their local and    *)
(* published flags, and the inbox) and its own copy of                     *)
(* .cairndex/replica/objects.  An event is a root and the linked payload   *)
(* part it names; both are objects, both are published, in hash order, so  *)
(* either may be seen first.  The provider delivers a copy late, first in  *)
(* part or at once, and may lose it; the process may stop between any two  *)
(* transactions.                                                           *)
(***************************************************************************)
EXTENDS Naturals, FiniteSets

CONSTANTS
    Replica, Operation, Digest, Genesis,
    None,       \* no publication is between its file and its receipt
    Segmented,  \* bound: events whose payload part travels apart from the root
    Opened,     \* replicas that imported the seed before the behaviour starts
    MaxFaults   \* bound: partial deliveries and lost copies in one behaviour

ASSUME ExchangeAssumption ==
    /\ Genesis \in Digest
    /\ Segmented \subseteq Digest
    /\ Opened \subseteq Replica
    /\ MaxFaults \in Nat
    /\ None \notin Digest \X {"part", "root"}

Part(e) == <<e, "part">>
Root(e) == <<e, "root">>
ObjectsOf(e) == {Root(e)} \union (IF e \in Segmented THEN {Part(e)} ELSE {})
Object == UNION {ObjectsOf(e) : e \in Digest}

VARIABLES
    body,       \* the content each root hash stands for
    events,     \* rows of the events table: accepted objects
    local,      \* of those, the rows with local = 1
    published,  \* of those, the rows with published = 1
    inbox,      \* state of the inbox row of each object
    folder,     \* each replica's provider copy of each object
    publishing, \* the object linked into the folder whose receipt is not committed
    faults      \* partial deliveries and lost copies so far

storeVars == <<body, events, local, inbox>>
vars == <<body, events, local, published, inbox, folder, publishing, faults>>

Issued == DOMAIN body \union {Genesis}
Deps(e) == IF e = Genesis THEN {} ELSE body[e].deps
Roots(r) == {e \in Digest : Root(e) \in events[r]}

(***************************************************************************)
(* Types of the private store, the provider copies and the publication     *)
(* under way (transport.py).                                               *)
(***************************************************************************)
TypeOK ==
    /\ DOMAIN body \subseteq Digest \ {Genesis}
    /\ body \in [DOMAIN body ->
                    [replica: Replica, operation: Operation, deps: SUBSET Digest]]
    /\ events \in [Replica -> SUBSET Object]
    /\ local \in [Replica -> SUBSET Object]
    /\ published \in [Replica -> SUBSET Object]
    /\ inbox \in [Replica -> [Object -> {"none", "pending", "accepted"}]]
    /\ folder \in [Replica -> [Object -> {"absent", "partial", "complete"}]]
    /\ publishing \in [Replica -> Object \union {None}]
    /\ faults \in Nat

\* The package was created with a complete seed; replicas in Opened imported it.
Init ==
    /\ body = [e \in {} |-> e]
    /\ events = [r \in Replica |-> IF r \in Opened THEN ObjectsOf(Genesis) ELSE {}]
    /\ local = [r \in Replica |-> {}]
    /\ published = [r \in Replica |-> {}]
    /\ inbox = [r \in Replica |-> [o \in Object |->
                    IF r \in Opened /\ o \in ObjectsOf(Genesis) THEN "accepted" ELSE "none"]]
    /\ folder = [r \in Replica |-> [o \in Object |->
                    IF r \in Opened /\ o \in ObjectsOf(Genesis) THEN "complete" ELSE "absent"]]
    /\ publishing = [r \in Replica |-> None]
    /\ faults = 0

-----------------------------------------------------------------------------
(* Local authoring                                                         *)

\* Mutant of HasReceipt: a retry does not look for its receipt.
NoReceipt(r, op) == FALSE

\* retry_receipt: a retried operation finds its event and changes nothing
HasReceipt(r, op) ==
    \E e \in DOMAIN body :
        body[e].replica = r /\ body[e].operation = op /\ Root(e) \in events[r]

\* Mutant of Save: the rows are committed without their local flag.
SaveNotLocal(r, op, e, deps) ==
    /\ Root(Genesis) \in events[r]
    /\ ~HasReceipt(r, op)
    /\ e \in Digest \ Issued
    /\ deps \in (SUBSET Roots(r)) \ {{}}
    /\ body' = [x \in DOMAIN body \union {e} |->
                    IF x = e THEN [replica |-> r, operation |-> op, deps |-> deps]
                             ELSE body[x]]
    /\ events' = [events EXCEPT ![r] = @ \union ObjectsOf(e)]
    /\ UNCHANGED <<local, published, inbox, folder, publishing, faults>>

\* save_in: the part rows and the root row are committed in one transaction
Save(r, op, e, deps) ==
    /\ Root(Genesis) \in events[r]
    /\ ~HasReceipt(r, op)
    /\ e \in Digest \ Issued
    /\ deps \in (SUBSET Roots(r)) \ {{}}
    /\ body' = [x \in DOMAIN body \union {e} |->
                    IF x = e THEN [replica |-> r, operation |-> op, deps |-> deps]
                             ELSE body[x]]
    /\ events' = [events EXCEPT ![r] = @ \union ObjectsOf(e)]
    /\ local' = [local EXCEPT ![r] = @ \union ObjectsOf(e)]
    /\ UNCHANGED <<published, inbox, folder, publishing, faults>>

-----------------------------------------------------------------------------
(* One exchange tick: discovery, dependency retries, publication, repair   *)

\* ingest: a complete object becomes a pending row once; a partial one never does
Scan(r, o) ==
    /\ folder[r][o] = "complete"
    /\ inbox[r][o] = "none"
    /\ inbox' = [inbox EXCEPT ![r][o] = "pending"]
    /\ UNCHANGED <<body, events, local, published, folder, publishing, faults>>

\* Mutant of Ready: the payload chain is not verified before activation.
ReadyWithoutPayload(r, o) ==
    \/ o[2] = "part"
    \/ /\ o[1] = Genesis \/ Root(Genesis) \in events[r]
       /\ \A d \in Deps(o[1]) : Root(d) \in events[r]

\* a root activates only over its complete payload, its ancestry and a ready catalog
Ready(r, o) ==
    \/ o[2] = "part"
    \/ /\ ObjectsOf(o[1]) \ {o} \subseteq events[r]
       /\ o[1] = Genesis \/ Root(Genesis) \in events[r]
       /\ \A d \in Deps(o[1]) : Root(d) \in events[r]

(***************************************************************************)
(* import_batch for one pending row: a duplicate and an acceptance both    *)
(* settle the row; a row that is not ready stays pending for a later       *)
(* rotation.  The rows of a batch commit together under one writer lock,   *)
(* which allows no more than their one-by-one steps do.                    *)
(***************************************************************************)
Import(r, o) ==
    /\ inbox[r][o] = "pending"
    /\ o \in events[r] \/ Ready(r, o)
    /\ events' = [events EXCEPT ![r] = @ \union {o}]
    /\ inbox' = [inbox EXCEPT ![r][o] = "accepted"]
    /\ UNCHANGED <<body, local, published, folder, publishing, faults>>

\* publish: link without replacing; a partial provider copy of the name is refused
Link(r, o) ==
    /\ publishing[r] = None
    /\ folder[r][o] # "partial"
    /\ folder' = [folder EXCEPT ![r][o] = "complete"]

\* Mutant of Publish: a file left by an interrupted publication is not accepted.
PublishOnce(r, o) ==
    /\ o \in local[r] \ published[r]
    /\ publishing[r] = None
    /\ folder[r][o] = "absent"
    /\ folder' = [folder EXCEPT ![r][o] = "complete"]
    /\ publishing' = [publishing EXCEPT ![r] = o]
    /\ UNCHANGED <<storeVars, published, faults>>

\* the outbox: the file first ...
Publish(r, o) ==
    /\ o \in local[r] \ published[r]
    /\ Link(r, o)
    /\ publishing' = [publishing EXCEPT ![r] = o]
    /\ UNCHANGED <<storeVars, published, faults>>

\* ... then the receipt, in a transaction of its own
Receipt(r) ==
    /\ publishing[r] # None
    /\ published' = [published EXCEPT ![r] = @ \union {publishing[r]}]
    /\ publishing' = [publishing EXCEPT ![r] = None]
    /\ UNCHANGED <<storeVars, folder, faults>>

\* Mutant of Repair: the rotation forgets what is already published.
RepairNever(r, o) ==
    /\ o \in local[r] \ published[r]
    /\ folder[r][o] = "absent"
    /\ Link(r, o)
    /\ UNCHANGED <<storeVars, published, publishing, faults>>

\* the repair rotation puts an absent authored object back
Repair(r, o) ==
    /\ o \in published[r]
    /\ folder[r][o] = "absent"
    /\ Link(r, o)
    /\ UNCHANGED <<storeVars, published, publishing, faults>>

\* the process stops; a restart opens the same store and starts a fresh tick
Crash(r) ==
    /\ publishing[r] # None
    /\ publishing' = [publishing EXCEPT ![r] = None]
    /\ UNCHANGED <<storeVars, published, folder, faults>>

-----------------------------------------------------------------------------
(* The sync provider                                                       *)

Deliver(s, r, o) ==
    /\ folder[s][o] = "complete"
    /\ folder[r][o] # "complete"
    /\ folder' = [folder EXCEPT ![r][o] = "complete"]
    /\ UNCHANGED <<storeVars, published, publishing, faults>>

DeliverPart(s, r, o) ==
    /\ faults < MaxFaults
    /\ folder[s][o] = "complete"
    /\ folder[r][o] = "absent"
    /\ folder' = [folder EXCEPT ![r][o] = "partial"]
    /\ faults' = faults + 1
    /\ UNCHANGED <<storeVars, published, publishing>>

Lose(r, o) ==
    /\ faults < MaxFaults
    /\ folder[r][o] # "absent"
    /\ folder' = [folder EXCEPT ![r][o] = "absent"]
    /\ faults' = faults + 1
    /\ UNCHANGED <<storeVars, published, publishing>>

-----------------------------------------------------------------------------
Next ==
    \E r \in Replica :
        \/ \E op \in Operation, e \in Digest, deps \in SUBSET Digest : Save(r, op, e, deps)
        \/ Receipt(r)
        \/ Crash(r)
        \/ \E o \in Object :
            \/ Scan(r, o)
            \/ Import(r, o)
            \/ Publish(r, o)
            \/ Repair(r, o)
            \/ Lose(r, o)
            \/ \E s \in Replica \ {r} : Deliver(s, r, o) \/ DeliverPart(s, r, o)

Spec == Init /\ [][Next]_vars

(***************************************************************************)
(* ReplicaWorker calls the exchange again and again, so every step of the  *)
(* tick that stays possible is taken; a crash does not hit the same gap    *)
(* for ever (strong fairness of Receipt); the provider, which is not this  *)
(* program, is assumed to finish copying what it keeps.                    *)
(***************************************************************************)
Fairness ==
    \A r \in Replica :
        /\ SF_vars(Receipt(r))
        /\ \A o \in Object :
            /\ WF_vars(Scan(r, o))
            /\ WF_vars(Import(r, o))
            /\ SF_vars(Publish(r, o))
            /\ SF_vars(Repair(r, o))
            /\ \A s \in Replica \ {r} : WF_vars(Deliver(s, r, o))

FairSpec == Spec /\ Fairness

-----------------------------------------------------------------------------
(***************************************************************************)
(* An accepted root has its complete payload and its whole ancestry in the *)
(* same store, and nothing but the seed is accepted before the seed:       *)
(* accept (storage.py) decides this although objects arrive in any order.  *)
(***************************************************************************)
CompleteActivation ==
    \A r \in Replica : \A e \in Roots(r) :
        /\ ObjectsOf(e) \subseteq events[r]
        /\ Root(Genesis) \in events[r]
        /\ Deps(e) \subseteq Roots(r)

(***************************************************************************)
(* Nothing is in any folder, inbox or store unless its author has it as a  *)
(* committed local row: a crash never leaves the world with an object the  *)
(* author will not repair (save_in commits before transport publishes).    *)
(***************************************************************************)
AuthorDurable ==
    \A e \in DOMAIN body, r \in Replica : \A o \in ObjectsOf(e) :
        (o \in events[r] \/ inbox[r][o] # "none" \/ folder[r][o] # "absent")
            => o \in local[body[e].replica]

(***************************************************************************)
(* A publication receipt is never ahead of its file: whatever is marked    *)
(* published is in the author's folder, unless the provider lost it.       *)
(***************************************************************************)
ReceiptAfterFile ==
    faults = 0 => \A r \in Replica : \A o \in published[r] : folder[r][o] = "complete"

(***************************************************************************)
(* Committed work is never lost between the store, the receipt and the     *)
(* file: what anybody has, its author has committed, and a receipt has its *)
(* file (save_in commits, publish links, _receipt records, in this order). *)
(***************************************************************************)
AuthoredWorkKept == AuthorDurable /\ ReceiptAfterFile

\* the provider lost every copy of a seed object before s read it; nobody authored it
SeedGone(s) ==
    \E o \in ObjectsOf(Genesis) :
        /\ inbox[s][o] = "none"
        /\ \A r \in Replica : folder[r][o] # "complete"

(***************************************************************************)
(* What one replica saved, every replica accepts, whatever the order of    *)
(* arrival, partial copies, lost copies and crashes: the rotation of       *)
(* import_batch and the repair loop of tick.  The exception is a replica   *)
(* whose seed the provider lost: tick repairs authored objects only.       *)
(***************************************************************************)
SavedWorkArrives ==
    \A r, s \in Replica, e \in Digest :
        (Root(e) \in local[r]) ~> (Root(e) \in events[s] \/ SeedGone(s))

(***************************************************************************)
(* The outbox drains: every committed local object gets its receipt.       *)
(***************************************************************************)
OutboxDrains ==
    \A r \in Replica, o \in Object : (o \in local[r]) ~> (o \in published[r])

(***************************************************************************)
(* The exchange implements the abstract causal history.                    *)
(***************************************************************************)
Causal == INSTANCE CausalHistory WITH history <- [r \in Replica |-> Roots(r)]
ImplementsCausalHistory == Causal!Spec
=============================================================================
