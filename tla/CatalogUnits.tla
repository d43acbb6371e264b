---------------------------- MODULE CatalogUnits ----------------------------
(***************************************************************************)
(* What a replica makes of the events it holds.  A catalog unit (a title,  *)
(* a rating, a complete arrangement) has revisions; a revision stays       *)
(* active until an event that names it as a basis supersedes it.  When the *)
(* active revisions of a unit, and of every unit an atomic cohort ties to  *)
(* it, agree, their values are shown; otherwise the whole group is put on  *)
(* hold and keeps its last good display until somebody chooses.            *)
(*                                                                         *)
(* Every event is one SQLite transaction (CatalogStore.apply_edit inside   *)
(* CatalogStorage.accept), local and remote alike; between a snapshot an   *)
(* editor opened and its save, anything may be accepted.                   *)
(***************************************************************************)
EXTENDS Naturals, FiniteSets

CONSTANTS
    Replica, Digest, Genesis,
    Unit,           \* conflict units of one library, all of them in the seed
    Value,          \* what a unit may hold
    InitialValue,   \* the seed's value of each unit
    Arrangement,    \* units that are complete orders: $members and $forest
    MaxCandidates   \* MAX_CANDIDATES: active revisions one unit may have

ASSUME CatalogAssumption ==
    /\ Genesis \in Digest
    /\ InitialValue \in [Unit -> Value]
    /\ Arrangement \subseteq Unit
    /\ MaxCandidates \in Nat \ {0}

VARIABLES
    body,       \* the content of every event issued after the seed
    history,    \* rows of the events table
    active,     \* rows <<event, unit, value>> of catalog_revisions with active = 1
    frontier,   \* catalog_frontier: accepted events no accepted event names
    shown,      \* catalog_units.value: the projected value of each unit
    holds,      \* catalog_holds: units whose display is frozen
    opened      \* the snapshot each replica's editor or prepared preview relies on

stores == <<history, active, frontier, shown, holds>>
vars == <<body, history, active, frontier, shown, holds, opened>>

Body == [replica: Replica, parents: SUBSET Digest,
         value: UNION {[S -> Value] : S \in SUBSET Unit},
         basis: UNION {[S -> SUBSET Digest] : S \in SUBSET Unit},
         cohort: BOOLEAN, resolve: BOOLEAN]

\* Mutant of Issued: the seed's identity is not taken.
IssuedEdits == DOMAIN body

\* a content hash names one event, and the seed has one too
Issued == DOMAIN body \union {Genesis}

Changed(e) == IF e = Genesis THEN Unit ELSE DOMAIN body[e].value
Basis(e, u) == IF e = Genesis \/ u \notin Changed(e) THEN {} ELSE body[e].basis[u]
DepsOf(c) == c.parents \union UNION {c.basis[u] : u \in DOMAIN c.basis}
Deps(e) == IF e = Genesis THEN {} ELSE DepsOf(body[e])

\* tips: the active revisions of a unit, and the values they propose
Tips(rows, u) == {row[1] : row \in {x \in rows : x[2] = u}}
Candidates(rows, u) == {row[3] : row \in {x \in rows : x[2] = u}}
Agreed(rows, u) == \E v \in Value : Candidates(rows, u) = {v}
AgreedValue(rows, u) == CHOOSE v \in Value : Candidates(rows, u) = {v}

\* what one read transaction returns to an editor or to a preview job
Snapshot(r) == [parents |-> frontier[r], active |-> active[r], shown |-> shown[r]]

(***************************************************************************)
(* Types of the tables and of a snapshot (storage.py, CatalogStorage).     *)
(***************************************************************************)
TypeOK ==
    /\ DOMAIN body \subseteq Digest \ {Genesis}
    /\ body \in [DOMAIN body -> Body]
    /\ \A e \in DOMAIN body : DOMAIN body[e].basis = DOMAIN body[e].value
    /\ history \in [Replica -> SUBSET Digest]
    /\ active \in [Replica -> SUBSET (Digest \X Unit \X Value)]
    /\ frontier \in [Replica -> SUBSET Digest]
    /\ shown \in [Replica -> [Unit -> Value]]
    /\ holds \in [Replica -> SUBSET Unit]
    /\ opened \in [Replica -> [parents: SUBSET Digest, active: SUBSET (Digest \X Unit \X Value),
                               shown: [Unit -> Value]]]

\* every replica has activated the seed and opened it
Init ==
    /\ body = [e \in {} |-> e]
    /\ history = [r \in Replica |-> {Genesis}]
    /\ active = [r \in Replica |-> {<<Genesis, u, InitialValue[u]>> : u \in Unit}]
    /\ frontier = [r \in Replica |-> {Genesis}]
    /\ shown = [r \in Replica |-> InitialValue]
    /\ holds = [r \in Replica |-> {}]
    /\ opened = [r \in Replica |-> Snapshot(r)]

-----------------------------------------------------------------------------
(* Atomic scopes                                                           *)

\* the units on which a cohort's event is still active, while an anchor is among them:
\* the anchors of a command are its arrangements, or else all its units
Block(rows, e) == {row[2] : row \in {x \in rows : x[1] = e}}
Anchors(e) ==
    IF Changed(e) \cap Arrangement = {} THEN Changed(e) ELSE Changed(e) \cap Arrangement
Blocks(rows) ==
    {Block(rows, e) :
        e \in {f \in DOMAIN body : body[f].cohort /\ Block(rows, f) \cap Anchors(f) # {}}}

\* the smallest superset of S that straddles no block
Closure(S, blocks) ==
    {u \in Unit : \A T \in SUBSET Unit :
        (S \subseteq T /\ \A B \in blocks : B \cap T # {} => B \subseteq T) => u \in T}

\* scope: the units a choice about S has to cover
Scope(rows, S) == Closure(S, Blocks(rows))

-----------------------------------------------------------------------------
(* Applying one event, in the transaction that accepts it                  *)

\* Mutant of RowsAfter: a basis is retired on every unit its event changed.
RowsAfterEventWide(rows, e, c) ==
    (rows \ {row \in rows : row[1] \in UNION {c.basis[u] : u \in DOMAIN c.basis}})
        \union {<<e, u, c.value[u]>> : u \in DOMAIN c.value}

\* the bases named by the event stop being active; its own revisions start
RowsAfter(rows, e, c) ==
    (rows \ {row \in rows : row[2] \in DOMAIN c.value /\ row[1] \in c.basis[row[2]]})
        \union {<<e, u, c.value[u]>> : u \in DOMAIN c.value}

\* Mutant of Group: every unit is decided by itself.
GroupAlone(rows, e, c, u) == {u}

\* units already known to one another, before or after the event, move together
Group(rows, e, c, u) ==
    Closure({u}, Blocks(RowsAfter(rows, e, c))
                    \union {Scope(rows, {w}) : w \in DOMAIN c.value}
                    \union (IF c.cohort THEN {DOMAIN c.value} ELSE {}))

\* another branch of a unit waits while the unit has no room for it
Room(rows, c) ==
    \A u \in DOMAIN c.value : Cardinality(Tips(rows, u) \ c.basis[u]) < MaxCandidates

\* an event stands for everything it names
FrontierAfter(was, e, c) == (was \ DepsOf(c)) \union {e}

\* a group that agrees is projected as a whole
ShownAfter(was, rows, c, clear) ==
    [u \in Unit |-> IF u \in clear THEN AgreedValue(rows, u) ELSE was[u]]

\* a group that disagrees is held as a whole
HoldsAfter(was, touched, clear) == (was \union touched) \ clear

\* apply_edit and the end of accept: revisions, projection or hold, frontier
Apply(r, e, c) ==
    LET rows == RowsAfter(active[r], e, c)
        groups == {Group(active[r], e, c, u) : u \in DOMAIN c.value}
        clear == UNION {G \in groups : \A u \in G : Agreed(rows, u)}
    IN  /\ history' = [history EXCEPT ![r] = @ \union {e}]
        /\ active' = [active EXCEPT ![r] = rows]
        /\ frontier' = [frontier EXCEPT ![r] = FrontierAfter(@, e, c)]
        /\ shown' = [shown EXCEPT ![r] = ShownAfter(@, rows, c, clear)]
        /\ holds' = [holds EXCEPT ![r] = HoldsAfter(@, UNION groups, clear)]

\* save_in for a change that its snapshot and the rows at commit allow
Commit(r, e, c) ==
    /\ e \in Digest \ Issued
    /\ Room(active[r], c)
    /\ body' = [x \in DOMAIN body \union {e} |-> IF x = e THEN c ELSE body[x]]
    /\ Apply(r, e, c)

-----------------------------------------------------------------------------
(* What a replica does                                                     *)

\* an editor reads an entity, or a preview job prepares a command
Open(r) ==
    /\ opened[r] # Snapshot(r)
    /\ opened' = [opened EXCEPT ![r] = Snapshot(r)]
    /\ UNCHANGED <<body, stores>>

\* a draft or command saves new values over the bases its snapshot observed; the units
\* of a bulk or order command are one cohort
Edit(r, e, value) ==
    /\ Commit(r, e, [replica |-> r, parents |-> opened[r].parents, value |-> value,
                     basis |-> [u \in DOMAIN value |-> Tips(opened[r].active, u)],
                     cohort |-> Cardinality(DOMAIN value) > 1,
                     resolve |-> FALSE])
    /\ UNCHANGED opened

\* Mutant of Choose: the review may be stale.
ChooseStale(r, e, u, picks) ==
    LET seen == opened[r]
        scope == Scope(seen.active, {u})
        value == [w \in scope |->
                    IF Agreed(seen.active, w) THEN seen.shown[w] ELSE picks[w]]
    IN  /\ u \in holds[r]
        /\ Scope(active[r], scope) \subseteq scope
        /\ Commit(r, e, [replica |-> r, parents |-> seen.parents, value |-> value,
                         basis |-> [w \in scope |-> Tips(seen.active, w)],
                         cohort |-> Cardinality(scope) > 1,
                         resolve |-> TRUE])
        /\ UNCHANGED opened

(***************************************************************************)
(* A reviewed choice about unit u covers the whole scope the preview saw.  *)
(* A unit whose candidates disagree gets the value picked; the others get  *)
(* what the preview displayed (Preview.choose, and the form's default).    *)
(* The commit refuses a review that is stale.                              *)
(***************************************************************************)
Choose(r, e, u, picks) ==
    LET seen == opened[r]
        scope == Scope(seen.active, {u})
        value == [w \in scope |->
                    IF Agreed(seen.active, w) THEN seen.shown[w] ELSE picks[w]]
    IN  /\ u \in holds[r]
        /\ \A w \in scope : Tips(active[r], w) = Tips(seen.active, w)
        /\ Scope(active[r], scope) \subseteq scope
        /\ Commit(r, e, [replica |-> r, parents |-> seen.parents, value |-> value,
                         basis |-> [w \in scope |-> Tips(seen.active, w)],
                         cohort |-> Cardinality(scope) > 1,
                         resolve |-> TRUE])
        /\ UNCHANGED opened

\* Mutant of Accept: an import does not wait for its dependencies.
AcceptEarly(r, e) ==
    /\ e \in DOMAIN body \ history[r]
    /\ Room(active[r], body[e])
    /\ Apply(r, e, body[e])
    /\ UNCHANGED <<body, opened>>

\* import: an event is accepted over its complete dependencies, if there is room
Accept(r, e) ==
    /\ e \in DOMAIN body \ history[r]
    /\ Deps(e) \subseteq history[r]
    /\ Room(active[r], body[e])
    /\ Apply(r, e, body[e])
    /\ UNCHANGED <<body, opened>>

Next ==
    \E r \in Replica :
        \/ Open(r)
        \/ \E e \in Digest :
            \/ Accept(r, e)
            \/ \E S \in (SUBSET Unit) \ {{}} : \E value \in [S -> Value] : Edit(r, e, value)
            \/ \E u \in Unit, picks \in [Unit -> Value] : Choose(r, e, u, picks)

Spec == Init /\ [][Next]_vars

-----------------------------------------------------------------------------
(***************************************************************************)
(* The active revisions of a unit are the accepted ones that no accepted   *)
(* event names as a basis.  They depend on what a replica holds and never  *)
(* on the order of arrival, so concurrent values cannot be lost silently.  *)
(***************************************************************************)
RevisionsExact ==
    \A r \in Replica, u \in Unit :
        Tips(active[r], u) =
            {e \in history[r] : u \in Changed(e) /\ \A f \in history[r] : e \notin Basis(f, u)}

(***************************************************************************)
(* The frontier a new save names as parents stands for all that was        *)
(* accepted: it is exactly the events nothing accepted depends on.         *)
(***************************************************************************)
FrontierExact ==
    \A r \in Replica :
        frontier[r] = {e \in history[r] : \A f \in history[r] : e \notin Deps(f)}

(***************************************************************************)
(* A unit that is not on hold shows the one value its revisions agree on.  *)
(***************************************************************************)
CurrentUnlessHeld ==
    \A r \in Replica, u \in Unit :
        u \notin holds[r] => Candidates(active[r], u) = {shown[r][u]}

(***************************************************************************)
(* A command's units are held together or shown together: while a cohort   *)
(* ties them, a replica never displays one half of it.                     *)
(***************************************************************************)
CohortTogether ==
    \A r \in Replica : \A B \in Blocks(active[r]) : B \subseteq holds[r] \/ B \cap holds[r] = {}

(***************************************************************************)
(* No unit collects more than MAX_CANDIDATES branches.                     *)
(***************************************************************************)
CandidatesBounded ==
    \A r \in Replica, u \in Unit : Cardinality(Tips(active[r], u)) <= MaxCandidates

(***************************************************************************)
(* "Independent scalar conflicts keep their own scope" (store.py, scope):  *)
(* a unit that no accepted cohort ever tied to another is on hold only     *)
(* while its own revisions disagree.                                       *)
(***************************************************************************)
Tied(r) == UNION {Changed(e) : e \in {f \in history[r] \ {Genesis} : body[f].cohort}}

ScalarHoldsJustified ==
    \A r \in Replica : \A u \in holds[r] \ Tied(r) : ~Agreed(active[r], u)

(***************************************************************************)
(* The projection a replica stores is what its accepted events mean: exact *)
(* revisions and frontier, at most MAX_CANDIDATES branches, and the agreed *)
(* value of every unit that is not on hold (write_current, store.py).      *)
(***************************************************************************)
Projection == RevisionsExact /\ FrontierExact /\ CandidatesBounded /\ CurrentUnlessHeld

(***************************************************************************)
(* Holds are neither too small nor too wide: a command's units are held    *)
(* together, and an untied scalar only for its own conflict (_scope).      *)
(***************************************************************************)
HoldsSound == CohortTogether /\ ScalarHoldsJustified

(***************************************************************************)
(* A unit is held only for a reason: something in its scope disagrees.     *)
(* "Superseded anchors release historical coupling; unrelated scalar edits *)
(* remain independent" (docs/replica-catalog.md).                          *)
(***************************************************************************)
HoldsJustified ==
    \A r \in Replica : \A u \in holds[r] :
        \E w \in Scope(active[r], {u}) : ~Agreed(active[r], w)

(***************************************************************************)
(* A resolution consumes exactly the reviewed alternatives: once it is     *)
(* committed nothing it covers is in conflict where it was made.  "A new   *)
(* arrival invalidates that review" (ADR-0029).                            *)
(***************************************************************************)
ChoiceSettles ==
    [][\A e \in DOMAIN body' \ DOMAIN body :
        body'[e].resolve =>
            \A u \in DOMAIN body'[e].value :
                Tips(active'[body'[e].replica], u) = {e} /\ u \notin holds'[body'[e].replica]]_vars

(***************************************************************************)
(* A choice keeps what had merged without conflict: a unit in its scope    *)
(* whose alternatives agree keeps the value they agree on.  "choosing the  *)
(* Blue title retains the Amber note and every unrelated merged edit"      *)
(* (docs/adr/0029-cloud-metadata-replicas.md).                             *)
(***************************************************************************)
ChoiceKeepsMerged ==
    [][\A e \in DOMAIN body' \ DOMAIN body :
        body'[e].resolve =>
            \A u \in DOMAIN body'[e].value :
                Agreed(active[body'[e].replica], u) =>
                    body'[e].value[u] = AgreedValue(active[body'[e].replica], u)]_vars

(***************************************************************************)
(* Catalog saves and imports implement the abstract causal history; the    *)
(* operation of an event is its own.                                       *)
(***************************************************************************)
Causal == INSTANCE CausalHistory WITH
    Operation <- Digest,
    body <- [e \in DOMAIN body |->
                [replica |-> body[e].replica, operation |-> e, deps |-> Deps(e)]]
ImplementsCausalHistory == Causal!Spec
=============================================================================
