------------------------- MODULE CatalogUnits_proofs -------------------------
(***************************************************************************)
(* What a replica shows is what its events mean, for any number of         *)
(* replicas, events, units and values: revisions and frontier are exact,   *)
(* cohorts are shown or held as a whole, choices settle, and saves and     *)
(* imports implement CausalHistory.                                        *)
(***************************************************************************)
EXTENDS CatalogUnits, FiniteSetTheorems, TLAPS

Row == Digest \X Unit \X Value
ValueOf(e, u) == IF e = Genesis THEN InitialValue[u] ELSE body[e].value[u]

\* a set of units that no block straddles
Whole(T, blocks) == \A B \in blocks : B \cap T # {} => B \subseteq T

-----------------------------------------------------------------------------
(***************************************************************************)
(* The closure of a set of units is the least whole set around it (scope). *)
(***************************************************************************)
LEMMA ClosureContains ==
    ASSUME NEW S, S \subseteq Unit, NEW blocks
    PROVE  S \subseteq Closure(S, blocks) /\ Closure(S, blocks) \subseteq Unit
BY DEF Closure

LEMMA ClosureWhole ==
    ASSUME NEW S, NEW blocks, NEW B \in blocks, B \subseteq Unit, B \cap Closure(S, blocks) # {}
    PROVE  B \subseteq Closure(S, blocks)
<1> SUFFICES ASSUME NEW u \in B, NEW T \in SUBSET Unit, S \subseteq T, Whole(T, blocks)
             PROVE  u \in T
    BY DEF Closure, Whole
<1>1. PICK w \in B : w \in Closure(S, blocks)
    OBVIOUS
<1>2. w \in T
    BY <1>1 DEF Closure, Whole
<1> QED
    BY <1>2 DEF Whole

LEMMA ClosureLeast ==
    ASSUME NEW S, NEW blocks, NEW T \in SUBSET Unit, S \subseteq T, Whole(T, blocks)
    PROVE  Closure(S, blocks) \subseteq T
BY DEF Closure, Whole

(***************************************************************************)
(* The parts of an event's content (a body).                               *)
(***************************************************************************)
LEMMA BodyShape ==
    ASSUME NEW c \in Body
    PROVE  /\ DOMAIN c.value \subseteq Unit /\ \A u \in DOMAIN c.value : c.value[u] \in Value
           /\ DOMAIN c.basis \subseteq Unit /\ \A u \in DOMAIN c.basis : c.basis[u] \subseteq Digest
           /\ c.parents \subseteq Digest /\ c.cohort \in BOOLEAN /\ c.resolve \in BOOLEAN
           /\ c.replica \in Replica
<1>1. PICK S \in SUBSET Unit : c.value \in [S -> Value]
    BY DEF Body
<1>2. PICK R \in SUBSET Unit : c.basis \in [R -> SUBSET Digest]
    BY DEF Body
<1> QED
    BY <1>1, <1>2 DEF Body

(***************************************************************************)
(* An event takes its bases from the rows of the units it changes and adds *)
(* its own (apply_edit).                                                   *)
(***************************************************************************)
LEMMA RowIn ==
    ASSUME NEW rows, NEW e, NEW c, NEW x
    PROVE  x \in RowsAfter(rows, e, c) <=>
              \/ x \in rows /\ ~ (x[2] \in DOMAIN c.value /\ x[1] \in c.basis[x[2]])
              \/ \E u \in DOMAIN c.value : x = <<e, u, c.value[u]>>
BY DEF RowsAfter

LEMMA TipIn ==
    ASSUME NEW rows, NEW u, NEW f
    PROVE  f \in Tips(rows, u) <=> \E x \in rows : x[2] = u /\ x[1] = f
BY DEF Tips

LEMMA RowsAfterType ==
    ASSUME NEW rows \in SUBSET Row, NEW e \in Digest, NEW c \in Body
    PROVE  RowsAfter(rows, e, c) \in SUBSET Row
BY BodyShape DEF RowsAfter, Row

LEMMA TipsAfter ==
    ASSUME NEW rows \in SUBSET Row, NEW e \in Digest, NEW c \in Body, NEW u
    PROVE  Tips(RowsAfter(rows, e, c), u) =
              IF u \in DOMAIN c.value THEN (Tips(rows, u) \ c.basis[u]) \union {e} ELSE Tips(rows, u)
<1>1. ASSUME NEW f PROVE f \in Tips(RowsAfter(rows, e, c), u) <=>
          IF u \in DOMAIN c.value THEN f \in Tips(rows, u) \ c.basis[u] \/ f = e ELSE f \in Tips(rows, u)
  <2>1. ASSUME f \in Tips(RowsAfter(rows, e, c), u)
        PROVE  IF u \in DOMAIN c.value THEN f \in Tips(rows, u) \ c.basis[u] \/ f = e ELSE f \in Tips(rows, u)
    <3>1. PICK x \in RowsAfter(rows, e, c) : x[2] = u /\ x[1] = f
        BY <2>1, TipIn
    <3>2. CASE x \in rows /\ ~ (x[2] \in DOMAIN c.value /\ x[1] \in c.basis[x[2]])
        BY <3>1, <3>2, TipIn
    <3>3. CASE \E w \in DOMAIN c.value : x = <<e, w, c.value[w]>>
        BY <3>1, <3>3
    <3> QED
        BY <3>1, <3>2, <3>3, RowIn
  <2>2. ASSUME f \in Tips(rows, u), u \in DOMAIN c.value => f \notin c.basis[u]
        PROVE  f \in Tips(RowsAfter(rows, e, c), u)
    <3>1. PICK x \in rows : x[2] = u /\ x[1] = f
        BY <2>2, TipIn
    <3>2. x \in RowsAfter(rows, e, c)
        BY <2>2, <3>1, RowIn
    <3> QED
        BY <3>1, <3>2, TipIn
  <2>3. ASSUME u \in DOMAIN c.value PROVE e \in Tips(RowsAfter(rows, e, c), u)
    <3>1. <<e, u, c.value[u]>> \in RowsAfter(rows, e, c)
        BY <2>3, RowIn
    <3> QED
        BY <3>1, TipIn
  <2> QED
      BY <2>1, <2>2, <2>3
<1> QED
    BY <1>1

LEMMA CandidatesAfter ==
    ASSUME NEW rows \in SUBSET Row, NEW e \in Digest, NEW c \in Body, NEW u, u \notin DOMAIN c.value
    PROVE  Candidates(RowsAfter(rows, e, c), u) = Candidates(rows, u)
<1>1. ASSUME NEW x, x[2] = u PROVE x \in RowsAfter(rows, e, c) <=> x \in rows
    BY <1>1, RowIn
<1> QED
    BY <1>1 DEF Candidates

LEMMA BlockAfter ==
    ASSUME NEW rows \in SUBSET Row, NEW e \in Digest, NEW c \in Body, NEW f
    PROVE  /\ f # e => Block(RowsAfter(rows, e, c), f) \subseteq Block(rows, f)
           /\ Block(rows, f) \ DOMAIN c.value \subseteq Block(RowsAfter(rows, e, c), f)
           /\ Block(rows, e) = {} => Block(RowsAfter(rows, e, c), e) = DOMAIN c.value
<1>1. ASSUME NEW s, NEW u PROVE u \in Block(s, f) <=> \E x \in s : x[1] = f /\ x[2] = u
    BY DEF Block
<1>2. ASSUME f # e, NEW u \in Block(RowsAfter(rows, e, c), f) PROVE u \in Block(rows, f)
    BY <1>2, RowIn DEF Block
<1>3. ASSUME NEW u \in Block(rows, f), u \notin DOMAIN c.value
      PROVE  u \in Block(RowsAfter(rows, e, c), f)
  <2>1. PICK x \in rows : x[1] = f /\ x[2] = u
      BY <1>3 DEF Block
  <2> QED
      BY <1>3, <2>1, RowIn DEF Block
<1>4. ASSUME Block(rows, e) = {} PROVE Block(RowsAfter(rows, e, c), e) = DOMAIN c.value
  <2>1. ASSUME NEW x \in rows PROVE x[1] # e
      BY <1>4 DEF Block
  <2>2. ASSUME NEW u \in Block(RowsAfter(rows, e, c), e) PROVE u \in DOMAIN c.value
    <3>1. PICK x \in RowsAfter(rows, e, c) : x[1] = e /\ x[2] = u
        BY DEF Block
    <3> QED
        BY <2>1, <3>1, RowIn
  <2>3. ASSUME NEW u \in DOMAIN c.value PROVE u \in Block(RowsAfter(rows, e, c), e)
    <3>1. <<e, u, c.value[u]>> \in RowsAfter(rows, e, c)
        BY RowIn
    <3> QED
        BY <3>1 DEF Block
  <2> QED
      BY <2>2, <2>3
<1> QED
    BY <1>2, <1>3, <1>4

(***************************************************************************)
(* Two closures around single units are the same or apart: complements of  *)
(* whole sets are whole.                                                   *)
(***************************************************************************)
LEMMA ClosurePartition ==
    ASSUME NEW blocks, \A B \in blocks : B \subseteq Unit,
           NEW u \in Unit, NEW v \in Closure({u}, blocks)
    PROVE  Closure({v}, blocks) = Closure({u}, blocks)
<1> DEFINE U == Closure({u}, blocks)
           V == Closure({v}, blocks)
<1>1. U \in SUBSET Unit /\ V \in SUBSET Unit /\ u \in U /\ v \in V
    BY ClosureContains
<1>2. Whole(U, blocks) /\ Whole(V, blocks)
    BY ClosureWhole DEF Whole
<1>3. V \subseteq U
    BY <1>1, <1>2, ClosureLeast
<1>4. u \in V
  <2>1. SUFFICES ASSUME u \notin V PROVE FALSE
      OBVIOUS
  <2>2. Whole(Unit \ V, blocks)
      BY <1>2 DEF Whole
  <2>3. U \subseteq Unit \ V
      BY <2>1, <2>2, ClosureLeast
  <2> QED
      BY <1>1, <2>3
<1>5. U \subseteq V
    BY <1>1, <1>2, <1>4, ClosureLeast
<1> QED
    BY <1>3, <1>5

-----------------------------------------------------------------------------
(***************************************************************************)
(* The inductive invariant: the properties, and what they rest on.         *)
(***************************************************************************)
HistoryClosed ==
    \A r \in Replica :
        /\ Genesis \in history[r] /\ history[r] \subseteq Issued
        /\ \A e \in history[r] : Deps(e) \subseteq history[r]

RowsTrue ==
    \A r \in Replica : \A x \in active[r] :
        x[1] \in history[r] /\ x[2] \in Changed(x[1]) /\ x[3] = ValueOf(x[1], x[2])

SnapshotsOld ==
    \A r \in Replica :
        /\ frontier[r] # {} /\ opened[r].parents # {} /\ opened[r].parents \subseteq history[r]
        /\ \A x \in opened[r].active : x[1] \in history[r]

TipsFinite == \A r \in Replica, u \in Unit : IsFiniteSet(Tips(active[r], u))

CInv ==
    /\ TypeOK
    /\ HistoryClosed /\ RowsTrue /\ SnapshotsOld /\ TipsFinite
    /\ Projection /\ HoldsSound

\* the blocks a group may not straddle, the units an event touches, the groups it clears
GroupBlocks(rows, e, c) ==
    Blocks(RowsAfter(rows, e, c)) \union {Scope(rows, {w}) : w \in DOMAIN c.value}
        \union (IF c.cohort THEN {DOMAIN c.value} ELSE {})
Touched(rows, e, c) == UNION {Group(rows, e, c, u) : u \in DOMAIN c.value}
Clear(rows, e, c) ==
    UNION {G \in {Group(rows, e, c, u) : u \in DOMAIN c.value} :
              \A u \in G : Agreed(RowsAfter(rows, e, c), u)}

\* what a save, a choice and an import have in common
Applied(r, e, c) ==
    /\ e \in Digest \ history[r] /\ e # Genesis
    /\ c \in Body /\ DOMAIN c.basis = DOMAIN c.value /\ DepsOf(c) \subseteq history[r]
    /\ Room(active[r], c)
    /\ Apply(r, e, c)
    /\ body' \in [DOMAIN body \union {e} -> Body] /\ body'[e] = c
    /\ \A x \in DOMAIN body : body'[x] = body[x]
    /\ UNCHANGED opened

-----------------------------------------------------------------------------
(***************************************************************************)
(* A save of an editor's snapshot applies one new event.                   *)
(***************************************************************************)
LEMMA SnapshotTips ==
    ASSUME CInv, NEW r \in Replica, NEW u
    PROVE  Tips(opened[r].active, u) \subseteq history[r] /\ Tips(opened[r].active, u) \subseteq Digest
<1>1. ASSUME NEW f \in Tips(opened[r].active, u) PROVE f \in history[r]
  <2>1. PICK x \in opened[r].active : x[2] = u /\ x[1] = f
      BY <1>1, TipIn
  <2> QED
      BY <2>1 DEF CInv, SnapshotsOld
<1>2. history[r] \subseteq Digest
    BY DEF CInv, TypeOK
<1> QED
    BY <1>1, <1>2

LEMMA CommitApplies ==
    ASSUME CInv, NEW r \in Replica, NEW e \in Digest,
           NEW S \in SUBSET Unit, NEW value \in [S -> Value],
           NEW k \in BOOLEAN, NEW d \in BOOLEAN, NEW c,
           c = [replica |-> r, parents |-> opened[r].parents, value |-> value,
                basis |-> [u \in S |-> Tips(opened[r].active, u)],
                cohort |-> k, resolve |-> d],
           Commit(r, e, c), UNCHANGED opened
    PROVE  Applied(r, e, c) /\ e \notin DOMAIN body /\ c.parents # {}
<1>1. opened[r].parents \subseteq Digest /\ opened[r].parents # {} /\ opened[r].parents \subseteq history[r]
    BY DEF CInv, TypeOK, SnapshotsOld
<1>2. [u \in S |-> Tips(opened[r].active, u)] \in [S -> SUBSET Digest]
    BY SnapshotTips
<1>3. c \in Body
    BY <1>1, <1>2 DEF Body
<1>4. DepsOf(c) \subseteq history[r]
  <2>1. c.parents \subseteq history[r] /\ DOMAIN c.basis = S
      BY <1>1
  <2>2. ASSUME NEW u \in S PROVE c.basis[u] \subseteq history[r]
    <3>1. c.basis[u] = Tips(opened[r].active, u)
        OBVIOUS
    <3> QED
        BY <3>1, SnapshotTips
  <2> QED
      BY <2>1, <2>2 DEF DepsOf
<1>5. e \notin DOMAIN body /\ e # Genesis /\ e \notin history[r]
    BY DEF Commit, Issued, CInv, HistoryClosed
<1>6. body \in [DOMAIN body -> Body]
    BY DEF CInv, TypeOK
<1>7. /\ body' \in [DOMAIN body \union {e} -> Body] /\ body'[e] = c
      /\ \A x \in DOMAIN body : body'[x] = body[x]
    BY <1>3, <1>5, <1>6 DEF Commit
<1>8. Room(active[r], c) /\ Apply(r, e, c)
    BY DEF Commit
<1>9. DOMAIN c.basis = DOMAIN c.value
    OBVIOUS
<1> QED
    BY <1>1, <1>3, <1>4, <1>5, <1>7, <1>8, <1>9 DEF Applied

LEMMA EditApplies ==
    ASSUME CInv, NEW r \in Replica, NEW e \in Digest, NEW S \in SUBSET Unit,
           NEW value \in [S -> Value], Edit(r, e, value)
    PROVE  \E c : Applied(r, e, c) /\ e \notin DOMAIN body /\ c.parents # {}
                  /\ c.replica = r /\ c.resolve = FALSE
<1> DEFINE k == Cardinality(S) > 1
           c == [replica |-> r, parents |-> opened[r].parents, value |-> value,
                 basis |-> [u \in S |-> Tips(opened[r].active, u)],
                 cohort |-> k, resolve |-> FALSE]
<1>1. Commit(r, e, c) /\ UNCHANGED opened
  <2>1. DOMAIN value = S
      OBVIOUS
  <2> QED
      BY <2>1 DEF Edit
<1>2. k \in BOOLEAN
    OBVIOUS
<1> HIDE DEF k
<1>3. Applied(r, e, c) /\ e \notin DOMAIN body /\ c.parents # {}
    BY <1>1, <1>2, CommitApplies
<1> QED
    BY <1>3

\* the content of a choice about u: its scope and the values it settles on
ChosenScope(r, u) == Scope(opened[r].active, {u})
Chosen(r, u, picks) ==
    [w \in ChosenScope(r, u) |->
        IF Agreed(opened[r].active, w) THEN opened[r].shown[w] ELSE picks[w]]
ChoiceBody(r, u, picks) ==
    [replica |-> r, parents |-> opened[r].parents, value |-> Chosen(r, u, picks),
     basis |-> [w \in ChosenScope(r, u) |-> Tips(opened[r].active, w)],
     cohort |-> Cardinality(ChosenScope(r, u)) > 1, resolve |-> TRUE]

LEMMA ChooseApplies ==
    ASSUME CInv, NEW r \in Replica, NEW e \in Digest, NEW u \in Unit,
           NEW picks \in [Unit -> Value], Choose(r, e, u, picks)
    PROVE  /\ Applied(r, e, ChoiceBody(r, u, picks)) /\ e \notin DOMAIN body
           /\ opened[r].parents # {}
           /\ \A w \in ChosenScope(r, u) : Tips(active[r], w) = Tips(opened[r].active, w)
           /\ Scope(active[r], ChosenScope(r, u)) \subseteq ChosenScope(r, u)
<1> DEFINE S == ChosenScope(r, u)
           value == Chosen(r, u, picks)
           k == Cardinality(S) > 1
           c == ChoiceBody(r, u, picks)
<1>1. S \in SUBSET Unit
    BY ClosureContains DEF Scope, ChosenScope
<1>2. value \in [S -> Value]
  <2>1. opened[r].shown \in [Unit -> Value]
      BY DEF CInv, TypeOK
  <2> QED
      BY <1>1, <2>1 DEF Chosen
<1>3. /\ Commit(r, e, c) /\ UNCHANGED opened
      /\ \A w \in S : Tips(active[r], w) = Tips(opened[r].active, w)
      /\ Scope(active[r], S) \subseteq S
    BY DEF Choose, ChoiceBody, Chosen, ChosenScope
<1>4. k \in BOOLEAN
    OBVIOUS
<1>5. c = [replica |-> r, parents |-> opened[r].parents, value |-> value,
           basis |-> [w \in S |-> Tips(opened[r].active, w)],
           cohort |-> k, resolve |-> TRUE]
    BY DEF ChoiceBody
<1> HIDE DEF k, c, S, value
<1>6. Applied(r, e, c) /\ e \notin DOMAIN body /\ c.parents # {}
    BY <1>1, <1>2, <1>3, <1>4, <1>5, CommitApplies
<1> QED
    BY <1>3, <1>5, <1>6 DEF c, S

LEMMA AcceptApplies ==
    ASSUME CInv, NEW r \in Replica, NEW e \in Digest, Accept(r, e)
    PROVE  Applied(r, e, body[e]) /\ e \in DOMAIN body /\ UNCHANGED body
<1>1. e \in DOMAIN body /\ e \notin history[r] /\ e # Genesis /\ body[e] \in Body
      /\ body \in [DOMAIN body -> Body] /\ DOMAIN body \union {e} = DOMAIN body
      /\ DOMAIN body[e].basis = DOMAIN body[e].value
    BY DEF Accept, CInv, TypeOK
<1>2. DepsOf(body[e]) \subseteq history[r]
    BY <1>1 DEF Accept, Deps
<1> QED
    BY <1>1, <1>2 DEF Accept, Applied

LEMMA StepApplies ==
    ASSUME CInv, Next
    PROVE  (\E r \in Replica : Open(r)) \/ (\E r \in Replica, e \in Digest, c \in Body : Applied(r, e, c))
<1>1. PICK r \in Replica :
          \/ Open(r)
          \/ \E e \in Digest :
              \/ Accept(r, e)
              \/ \E S \in (SUBSET Unit) \ {{}} : \E value \in [S -> Value] : Edit(r, e, value)
              \/ \E u \in Unit, picks \in [Unit -> Value] : Choose(r, e, u, picks)
    BY DEF Next
<1>2. ASSUME NEW e, NEW c, Applied(r, e, c) PROVE e \in Digest /\ c \in Body
    BY <1>2 DEF Applied
<1>3. ASSUME NEW e \in Digest, Accept(r, e) PROVE \E c : Applied(r, e, c)
    BY <1>3, AcceptApplies
<1>4. ASSUME NEW e \in Digest, NEW S \in SUBSET Unit, NEW value \in [S -> Value], Edit(r, e, value)
      PROVE  \E c : Applied(r, e, c)
    BY <1>4, EditApplies
<1>5. ASSUME NEW e \in Digest, NEW u \in Unit, NEW picks \in [Unit -> Value], Choose(r, e, u, picks)
      PROVE  \E c : Applied(r, e, c)
    BY <1>5, ChooseApplies
<1>6. ASSUME NEW e \in Digest, \E c : Applied(r, e, c)
      PROVE  \E x \in Digest, c \in Body : Applied(r, x, c)
    BY <1>2, <1>6
<1> QED
    BY <1>1, <1>3, <1>4, <1>5, <1>6

-----------------------------------------------------------------------------
(***************************************************************************)
(* Applying an event rewrites one replica's stores and no earlier event.   *)
(***************************************************************************)
LEMMA ApplyShape ==
    ASSUME CInv, NEW r \in Replica, NEW e \in Digest, NEW c, Applied(r, e, c)
    PROVE  \A q \in Replica :
              /\ history'[q] = IF q = r THEN history[r] \union {e} ELSE history[q]
              /\ active'[q] = IF q = r THEN RowsAfter(active[r], e, c) ELSE active[q]
              /\ frontier'[q] = IF q = r THEN FrontierAfter(frontier[r], e, c) ELSE frontier[q]
              /\ shown'[q] = IF q = r
                    THEN ShownAfter(shown[r], RowsAfter(active[r], e, c), c, Clear(active[r], e, c))
                    ELSE shown[q]
              /\ holds'[q] = IF q = r
                    THEN HoldsAfter(holds[r], Touched(active[r], e, c), Clear(active[r], e, c))
                    ELSE holds[q]
<1>1. Apply(r, e, c)
    BY DEF Applied
<1>2. /\ history \in [Replica -> SUBSET Digest]
      /\ active \in [Replica -> SUBSET (Digest \X Unit \X Value)]
      /\ frontier \in [Replica -> SUBSET Digest]
      /\ shown \in [Replica -> [Unit -> Value]]
      /\ holds \in [Replica -> SUBSET Unit]
    BY DEF CInv, TypeOK
<1> QED
    BY <1>1, <1>2 DEF Apply, Touched, Clear

LEMMA AppliedEvents ==
    ASSUME CInv, NEW r \in Replica, NEW e \in Digest, NEW c, Applied(r, e, c)
    PROVE  /\ DOMAIN body' = DOMAIN body \union {e}
           /\ Issued' = Issued \union {e}
           /\ \A f \in Issued :
                  /\ Changed(f)' = Changed(f) /\ Deps(f)' = Deps(f) /\ Anchors(f)' = Anchors(f)
                  /\ \A u : Basis(f, u)' = Basis(f, u) /\ ValueOf(f, u)' = ValueOf(f, u)
           /\ Changed(e)' = DOMAIN c.value /\ Deps(e)' = DepsOf(c)
           /\ \A u : Basis(e, u)' = IF u \in DOMAIN c.value THEN c.basis[u] ELSE {}
           /\ \A u \in DOMAIN c.value : ValueOf(e, u)' = c.value[u]
<1>1. /\ DOMAIN body' = DOMAIN body \union {e} /\ body'[e] = c /\ e # Genesis
      /\ \A x \in DOMAIN body : body'[x] = body[x]
    BY DEF Applied
<1>2. Issued' = Issued \union {e}
    BY <1>1 DEF Issued
<1>3. ASSUME NEW f \in Issued
      PROVE  /\ Changed(f)' = Changed(f) /\ Deps(f)' = Deps(f)
             /\ \A u : Basis(f, u)' = Basis(f, u) /\ ValueOf(f, u)' = ValueOf(f, u)
    BY <1>1 DEF Issued, Changed, Deps, Basis, ValueOf
<1>4. ASSUME NEW f \in Issued PROVE Anchors(f)' = Anchors(f)
    BY <1>3 DEF Anchors
<1>5. /\ Changed(e)' = DOMAIN c.value /\ Deps(e)' = DepsOf(c)
      /\ \A u : Basis(e, u)' = IF u \in DOMAIN c.value THEN c.basis[u] ELSE {}
      /\ \A u : ValueOf(e, u)' = c.value[u]
    BY <1>1 DEF Changed, Deps, Basis, ValueOf
<1> QED
    BY <1>1, <1>2, <1>3, <1>4, <1>5

LEMMA BasisInDeps ==
    ASSUME CInv, NEW f \in Issued, NEW u
    PROVE  Basis(f, u) \subseteq Deps(f)
<1>1. ASSUME f \in DOMAIN body, u \in DOMAIN body[f].value PROVE body[f].basis[u] \subseteq DepsOf(body[f])
    BY <1>1 DEF CInv, TypeOK, DepsOf
<1> QED
    BY <1>1 DEF Basis, Deps, Changed, Issued

LEMMA AgreedIsValue ==
    ASSUME NEW rows, NEW u, Agreed(rows, u)
    PROVE  AgreedValue(rows, u) \in Value /\ Candidates(rows, u) = {AgreedValue(rows, u)}
BY DEF Agreed, AgreedValue

LEMMA GroupIsClosure ==
    ASSUME NEW rows, NEW e, NEW c, NEW u
    PROVE  Group(rows, e, c, u) = Closure({u}, GroupBlocks(rows, e, c))
BY DEF Group, GroupBlocks

LEMMA GroupContains ==
    ASSUME NEW rows, NEW e, NEW c, NEW u \in Unit
    PROVE  u \in Group(rows, e, c, u) /\ Group(rows, e, c, u) \subseteq Unit
<1>1. {u} \subseteq Unit
    OBVIOUS
<1>2. {u} \subseteq Closure({u}, GroupBlocks(rows, e, c)) /\ Closure({u}, GroupBlocks(rows, e, c)) \subseteq Unit
    BY <1>1, ClosureContains
<1> QED
    BY <1>2, GroupIsClosure

LEMMA ApplyType ==
    ASSUME CInv, NEW r \in Replica, NEW e \in Digest, NEW c, Applied(r, e, c)
    PROVE  TypeOK'
<1> USE BodyShape
<1>1. c \in Body /\ e # Genesis /\ DOMAIN c.value \subseteq Unit /\ e \notin history[r]
    BY DEF Applied
<1>2. TypeOK
    BY DEF CInv
<1>3. /\ DOMAIN body' \subseteq Digest \ {Genesis}
      /\ body' \in [DOMAIN body' -> Body]
      /\ \A x \in DOMAIN body' : DOMAIN body'[x].basis = DOMAIN body'[x].value
  <2>1. DOMAIN body' = DOMAIN body \union {e} /\ body'[e] = c
        /\ \A x \in DOMAIN body : body'[x] = body[x]
      BY DEF Applied
  <2> QED
      BY <1>1, <1>2, <2>1 DEF TypeOK, Applied
<1>4. RowsAfter(active[r], e, c) \in SUBSET Row
    BY <1>1, <1>2, RowsAfterType DEF TypeOK, Row
<1>5. FrontierAfter(frontier[r], e, c) \in SUBSET Digest
    BY <1>2 DEF TypeOK, FrontierAfter
<1>6. ShownAfter(shown[r], RowsAfter(active[r], e, c), c, Clear(active[r], e, c)) \in [Unit -> Value]
  <2>1. ASSUME NEW u \in Clear(active[r], e, c) PROVE Agreed(RowsAfter(active[r], e, c), u)
      BY DEF Clear
  <2>2. shown[r] \in [Unit -> Value]
      BY <1>2 DEF TypeOK
  <2> QED
      BY <2>1, <2>2, AgreedIsValue DEF ShownAfter
<1>7. HoldsAfter(holds[r], Touched(active[r], e, c), Clear(active[r], e, c)) \in SUBSET Unit
  <2>1. Touched(active[r], e, c) \subseteq Unit
      BY <1>1, GroupContains DEF Touched
  <2> QED
      BY <1>2, <2>1 DEF TypeOK, HoldsAfter
<1>8. history' \in [Replica -> SUBSET Digest]
    BY <1>2 DEF Applied, Apply, TypeOK
<1>9. active' \in [Replica -> SUBSET (Digest \X Unit \X Value)]
    BY <1>2, <1>4 DEF Applied, Apply, TypeOK, Row
<1>10. frontier' \in [Replica -> SUBSET Digest]
    BY <1>2, <1>5 DEF Applied, Apply, TypeOK
<1>11. shown' \in [Replica -> [Unit -> Value]]
    BY <1>2, <1>6 DEF Applied, Apply, TypeOK, Clear
<1>12. holds' \in [Replica -> SUBSET Unit]
    BY <1>2, <1>7 DEF Applied, Apply, TypeOK, Clear, Touched
<1>13. opened' = opened
    BY DEF Applied
<1> QED
    BY <1>2, <1>3, <1>8, <1>9, <1>10, <1>11, <1>12, <1>13 DEF TypeOK

(***************************************************************************)
(* The part of the invariant that relates revisions to accepted events     *)
(* (apply_edit and the frontier update of accept).                         *)
(***************************************************************************)
LEMMA ApplyHistory ==
    ASSUME CInv, NEW r \in Replica, NEW e \in Digest, NEW c, Applied(r, e, c)
    PROVE  HistoryClosed'
<1> SUFFICES ASSUME NEW q \in Replica
             PROVE  /\ Genesis \in history'[q] /\ history'[q] \subseteq Issued'
                    /\ \A f \in history'[q] : Deps(f)' \subseteq history'[q]
    BY DEF HistoryClosed
<1>1. /\ Genesis \in history[q] /\ history[q] \subseteq Issued
      /\ \A f \in history[q] : Deps(f) \subseteq history[q]
    BY DEF CInv, HistoryClosed
<1>2. history'[q] = IF q = r THEN history[r] \union {e} ELSE history[q]
    BY ApplyShape
<1>3. DepsOf(c) \subseteq history[r]
    BY DEF Applied
<1>4. Issued' = Issued \union {e} /\ Deps(e)' = DepsOf(c)
      /\ \A f \in Issued : Deps(f)' = Deps(f)
    BY AppliedEvents
<1> QED
    BY <1>1, <1>2, <1>3, <1>4

LEMMA ApplyRows ==
    ASSUME CInv, NEW r \in Replica, NEW e \in Digest, NEW c, Applied(r, e, c)
    PROVE  RowsTrue'
<1> SUFFICES ASSUME NEW q \in Replica, NEW x \in active'[q]
             PROVE  x[1] \in history'[q] /\ x[2] \in Changed(x[1])' /\ x[3] = ValueOf(x[1], x[2])'
    BY DEF RowsTrue
<1>1. /\ history'[q] = IF q = r THEN history[r] \union {e} ELSE history[q]
      /\ active'[q] = IF q = r THEN RowsAfter(active[r], e, c) ELSE active[q]
    BY ApplyShape
<1>2. CASE x \in active[q]
  <2>1. x[1] \in history[q] /\ x[2] \in Changed(x[1]) /\ x[3] = ValueOf(x[1], x[2]) /\ x[1] \in Issued
      BY <1>2 DEF CInv, RowsTrue, HistoryClosed
  <2>2. Changed(x[1])' = Changed(x[1]) /\ ValueOf(x[1], x[2])' = ValueOf(x[1], x[2])
      BY <2>1, AppliedEvents
  <2> QED
      BY <1>1, <2>1, <2>2
<1>3. CASE q = r /\ \E u \in DOMAIN c.value : x = <<e, u, c.value[u]>>
  <2>1. PICK u \in DOMAIN c.value : x = <<e, u, c.value[u]>>
      BY <1>3
  <2>2. x[1] = e /\ x[2] = u /\ x[3] = c.value[u]
      BY <2>1
  <2>3. Changed(e)' = DOMAIN c.value
      BY AppliedEvents
  <2>4. \A w \in DOMAIN c.value : ValueOf(e, w)' = c.value[w]
      BY AppliedEvents
  <2> QED
      BY <1>1, <1>3, <2>2, <2>3, <2>4
<1> QED
    BY <1>1, <1>2, <1>3, RowIn

LEMMA ApplySnapshots ==
    ASSUME CInv, NEW r \in Replica, NEW e \in Digest, NEW c, Applied(r, e, c)
    PROVE  SnapshotsOld'
<1> SUFFICES ASSUME NEW q \in Replica
             PROVE  /\ frontier'[q] # {} /\ opened'[q].parents # {} /\ opened'[q].parents \subseteq history'[q]
                    /\ \A x \in opened'[q].active : x[1] \in history'[q]
    BY DEF SnapshotsOld
<1>1. /\ frontier[q] # {} /\ opened[q].parents # {} /\ opened[q].parents \subseteq history[q]
      /\ \A x \in opened[q].active : x[1] \in history[q]
    BY DEF CInv, SnapshotsOld
<1>2. /\ history'[q] = IF q = r THEN history[r] \union {e} ELSE history[q]
      /\ frontier'[q] = IF q = r THEN FrontierAfter(frontier[r], e, c) ELSE frontier[q]
    BY ApplyShape
<1>3. opened' = opened
    BY DEF Applied
<1> QED
    BY <1>1, <1>2, <1>3 DEF FrontierAfter

LEMMA ApplyTips ==
    ASSUME CInv, NEW r \in Replica, NEW e \in Digest, NEW c, Applied(r, e, c),
           NEW q \in Replica, NEW u \in Unit
    PROVE  /\ q = r /\ u \in DOMAIN c.value =>
                  Tips(active'[q], u) = (Tips(active[r], u) \ c.basis[u]) \union {e}
           /\ ~ (q = r /\ u \in DOMAIN c.value) => Tips(active'[q], u) = Tips(active[q], u)
<1>1. active'[q] = IF q = r THEN RowsAfter(active[r], e, c) ELSE active[q]
    BY ApplyShape
<1>2. c \in Body /\ active[r] \in SUBSET Row
    BY DEF Applied, CInv, TypeOK, Row
<1>3. Tips(RowsAfter(active[r], e, c), u) =
          IF u \in DOMAIN c.value THEN (Tips(active[r], u) \ c.basis[u]) \union {e} ELSE Tips(active[r], u)
    BY <1>2, TipsAfter
<1> QED
    BY <1>1, <1>3

LEMMA ApplyBounded ==
    ASSUME CInv, NEW r \in Replica, NEW e \in Digest, NEW c, Applied(r, e, c)
    PROVE  TipsFinite' /\ CandidatesBounded'
<1> SUFFICES ASSUME NEW q \in Replica, NEW u \in Unit
             PROVE  IsFiniteSet(Tips(active'[q], u)) /\ Cardinality(Tips(active'[q], u)) <= MaxCandidates
    BY DEF TipsFinite, CandidatesBounded
<1>1. IsFiniteSet(Tips(active[q], u)) /\ Cardinality(Tips(active[q], u)) <= MaxCandidates
    BY DEF CInv, TipsFinite, Projection, CandidatesBounded
<1>2. CASE q = r /\ u \in DOMAIN c.value
  <2> DEFINE kept == Tips(active[r], u) \ c.basis[u]
  <2>1. IsFiniteSet(kept)
      BY <1>1, <1>2, FS_Subset
  <2>2. Cardinality(kept) < MaxCandidates /\ Cardinality(kept) \in Nat
      BY <1>2, <2>1, FS_CardinalityType DEF Applied, Room
  <2>3. IsFiniteSet(kept \union {e})
        /\ Cardinality(kept \union {e}) \in {Cardinality(kept), Cardinality(kept) + 1}
      BY <2>1, FS_AddElement
  <2>4. Tips(active'[q], u) = kept \union {e}
      BY <1>2, ApplyTips
  <2>5. MaxCandidates \in Nat
      BY CatalogAssumption
  <2> QED
      BY <2>2, <2>3, <2>4, <2>5
<1>3. CASE ~ (q = r /\ u \in DOMAIN c.value)
  <2>1. Tips(active'[q], u) = Tips(active[q], u)
      BY <1>3, ApplyTips
  <2> QED
      BY <1>1, <2>1
<1> QED
    BY <1>2, <1>3

LEMMA ApplyRevisions ==
    ASSUME CInv, NEW r \in Replica, NEW e \in Digest, NEW c, Applied(r, e, c)
    PROVE  RevisionsExact'
<1> SUFFICES ASSUME NEW q \in Replica, NEW u \in Unit, NEW f
             PROVE  f \in Tips(active'[q], u) <=>
                       f \in history'[q] /\ u \in Changed(f)' /\ \A g \in history'[q] : f \notin Basis(g, u)'
    BY DEF RevisionsExact
<1>1. f \in Tips(active[q], u) <=>
          f \in history[q] /\ u \in Changed(f) /\ \A g \in history[q] : f \notin Basis(g, u)
    BY DEF CInv, Projection, RevisionsExact
<1>2. /\ history[q] \subseteq Issued
      /\ \A g \in history[q] : Deps(g) \subseteq history[q]
    BY DEF CInv, HistoryClosed
<1>3. \A g \in history[q] : Changed(g)' = Changed(g) /\ Basis(g, u)' = Basis(g, u)
    BY <1>2, AppliedEvents
<1>4. history'[q] = IF q = r THEN history[r] \union {e} ELSE history[q]
    BY ApplyShape
<1>5. CASE q # r
    BY <1>1, <1>3, <1>4, <1>5, ApplyTips
<1>6. CASE q = r
  <2>1. e \notin history[r]
      BY DEF Applied
  <2>2. \A g \in history[r] : e \notin Basis(g, u)
      BY <1>2, <1>6, <2>1, BasisInDeps
  <2>3. Changed(e)' = DOMAIN c.value
        /\ Basis(e, u)' = IF u \in DOMAIN c.value THEN c.basis[u] ELSE {}
      BY AppliedEvents
  <2>4. u \in DOMAIN c.value => e \notin c.basis[u]
      BY <2>1 DEF Applied, DepsOf
  <2>5. /\ u \in DOMAIN c.value =>
                Tips(active'[q], u) = (Tips(active[r], u) \ c.basis[u]) \union {e}
        /\ u \notin DOMAIN c.value => Tips(active'[q], u) = Tips(active[q], u)
      BY <1>6, ApplyTips
  <2>6. CASE f = e
      BY <1>1, <1>3, <1>4, <1>6, <2>1, <2>2, <2>3, <2>4, <2>5, <2>6
  <2>7. CASE f # e
      BY <1>1, <1>3, <1>4, <1>6, <2>1, <2>3, <2>5, <2>7
  <2> QED
      BY <2>6, <2>7
<1> QED
    BY <1>5, <1>6

LEMMA ApplyFrontier ==
    ASSUME CInv, NEW r \in Replica, NEW e \in Digest, NEW c, Applied(r, e, c)
    PROVE  FrontierExact'
<1> SUFFICES ASSUME NEW q \in Replica, NEW f
             PROVE  f \in frontier'[q] <=>
                       f \in history'[q] /\ \A g \in history'[q] : f \notin Deps(g)'
    BY DEF FrontierExact
<1>1. f \in frontier[q] <=> f \in history[q] /\ \A g \in history[q] : f \notin Deps(g)
    BY DEF CInv, Projection, FrontierExact
<1>2. /\ history[q] \subseteq Issued
      /\ \A g \in history[q] : Deps(g) \subseteq history[q]
    BY DEF CInv, HistoryClosed
<1>3. \A g \in history[q] : Deps(g)' = Deps(g)
    BY <1>2, AppliedEvents
<1>4. /\ history'[q] = IF q = r THEN history[r] \union {e} ELSE history[q]
      /\ frontier'[q] = IF q = r THEN FrontierAfter(frontier[r], e, c) ELSE frontier[q]
    BY ApplyShape
<1>5. Deps(e)' = DepsOf(c)
    BY AppliedEvents
<1>6. e \notin history[r] /\ DepsOf(c) \subseteq history[r]
    BY DEF Applied
<1>7. CASE f = e
    BY <1>1, <1>2, <1>3, <1>4, <1>5, <1>6, <1>7 DEF FrontierAfter
<1>8. CASE f # e
    BY <1>1, <1>3, <1>4, <1>5, <1>6, <1>8 DEF FrontierAfter
<1> QED
    BY <1>7, <1>8

-----------------------------------------------------------------------------
(***************************************************************************)
(* Groups of one event are the same or apart, and each contains whatever   *)
(* block it meets, so what is cleared and what stays held never mix        *)
(* (apply_edit, _scope).                                                   *)
(***************************************************************************)
LEMMA BlocksInUnit ==
    ASSUME NEW rows \in SUBSET Row, NEW e, NEW c \in Body
    PROVE  \A B \in GroupBlocks(rows, e, c) : B \subseteq Unit
<1>1. ASSUME NEW f PROVE Block(RowsAfter(rows, e, c), f) \subseteq Unit
  <2> SUFFICES ASSUME NEW u \in Block(RowsAfter(rows, e, c), f) PROVE u \in Unit
      OBVIOUS
  <2>1. PICK x \in RowsAfter(rows, e, c) : x[1] = f /\ x[2] = u
      BY DEF Block
  <2>2. CASE x \in rows
      BY <2>1, <2>2 DEF Row
  <2>3. CASE \E w \in DOMAIN c.value : x = <<e, w, c.value[w]>>
      BY <2>1, <2>3, BodyShape
  <2> QED
      BY <2>1, <2>2, <2>3, RowIn
<1>2. \A B \in Blocks(RowsAfter(rows, e, c)) : B \subseteq Unit
    BY <1>1 DEF Blocks
<1>3. ASSUME NEW w PROVE Scope(rows, {w}) \subseteq Unit
    BY DEF Scope, Closure
<1>4. DOMAIN c.value \subseteq Unit
    BY BodyShape
<1> QED
    BY <1>2, <1>3, <1>4 DEF GroupBlocks

LEMMA GroupWhole ==
    ASSUME NEW rows \in SUBSET Row, NEW e, NEW c \in Body, NEW u \in Unit,
           NEW B \in GroupBlocks(rows, e, c), B \cap Group(rows, e, c, u) # {}
    PROVE  B \subseteq Group(rows, e, c, u)
<1>1. B \subseteq Unit
    BY BlocksInUnit
<1>2. B \cap Closure({u}, GroupBlocks(rows, e, c)) # {}
    BY GroupIsClosure
<1>3. B \subseteq Closure({u}, GroupBlocks(rows, e, c))
    BY <1>1, <1>2, ClosureWhole
<1> QED
    BY <1>3, GroupIsClosure

LEMMA GroupPartition ==
    ASSUME NEW rows \in SUBSET Row, NEW e, NEW c \in Body, NEW u \in Unit, NEW v \in Unit,
           Group(rows, e, c, u) \cap Group(rows, e, c, v) # {}
    PROVE  Group(rows, e, c, u) = Group(rows, e, c, v)
<1> DEFINE blocks == GroupBlocks(rows, e, c)
<1>1. \A B \in blocks : B \subseteq Unit
    BY BlocksInUnit
<1>2. PICK w : w \in Closure({u}, blocks) /\ w \in Closure({v}, blocks)
    BY GroupIsClosure
<1> HIDE DEF blocks
<1>3. Closure({w}, blocks) = Closure({u}, blocks)
    BY <1>1, <1>2, ClosurePartition
<1>4. Closure({w}, blocks) = Closure({v}, blocks)
    BY <1>1, <1>2, ClosurePartition
<1> QED
    BY <1>3, <1>4, GroupIsClosure DEF blocks

LEMMA ClearTouched ==
    ASSUME NEW rows, NEW e, NEW c
    PROVE  Clear(rows, e, c) \subseteq Touched(rows, e, c)
BY DEF Clear, Touched

\* a group that is not clear has no unit that another group clears
LEMMA ClearWhole ==
    ASSUME NEW rows \in SUBSET Row, NEW e, NEW c \in Body, NEW u \in DOMAIN c.value,
           Group(rows, e, c, u) \cap Clear(rows, e, c) # {}
    PROVE  Group(rows, e, c, u) \subseteq Clear(rows, e, c)
<1>1. PICK w \in Group(rows, e, c, u) : w \in Clear(rows, e, c)
    OBVIOUS
<1>2. PICK v \in DOMAIN c.value :
          /\ w \in Group(rows, e, c, v)
          /\ \A x \in Group(rows, e, c, v) : Agreed(RowsAfter(rows, e, c), x)
    BY <1>1 DEF Clear
<1>3. u \in Unit /\ v \in Unit
    BY BodyShape
<1>4. Group(rows, e, c, u) = Group(rows, e, c, v)
    BY <1>1, <1>2, <1>3, GroupPartition
<1>5. Group(rows, e, c, v) \subseteq Clear(rows, e, c)
    BY <1>2 DEF Clear
<1> QED
    BY <1>4, <1>5

(***************************************************************************)
(* A unit that is not on hold shows what its revisions agree on.           *)
(***************************************************************************)
LEMMA ApplyCurrent ==
    ASSUME CInv, NEW r \in Replica, NEW e \in Digest, NEW c, Applied(r, e, c)
    PROVE  CurrentUnlessHeld'
<1> SUFFICES ASSUME NEW q \in Replica, NEW u \in Unit, u \notin holds'[q]
             PROVE  Candidates(active'[q], u) = {shown'[q][u]}
    BY DEF CurrentUnlessHeld
<1> DEFINE rows == RowsAfter(active[r], e, c)
<1>1. /\ active'[q] = IF q = r THEN rows ELSE active[q]
      /\ shown'[q] = IF q = r THEN ShownAfter(shown[r], rows, c, Clear(active[r], e, c)) ELSE shown[q]
      /\ holds'[q] = IF q = r
                       THEN HoldsAfter(holds[r], Touched(active[r], e, c), Clear(active[r], e, c))
                       ELSE holds[q]
    BY ApplyShape
<1>2. u \notin holds[q] => Candidates(active[q], u) = {shown[q][u]}
    BY DEF CInv, Projection, CurrentUnlessHeld
<1>3. CASE q # r
    BY <1>1, <1>2, <1>3
<1>4. CASE q = r /\ u \in Clear(active[r], e, c)
  <2>1. Agreed(rows, u)
      BY <1>4 DEF Clear
  <2>2. shown'[q][u] = AgreedValue(rows, u)
      BY <1>1, <1>4 DEF ShownAfter
  <2> QED
      BY <1>1, <1>4, <2>1, <2>2, AgreedIsValue
<1>5. CASE q = r /\ u \notin Clear(active[r], e, c)
  <2>1. u \notin holds[r] /\ u \notin Touched(active[r], e, c)
      BY <1>1, <1>5 DEF HoldsAfter
  <2>2. u \notin DOMAIN c.value
      BY <2>1, GroupContains DEF Touched
  <2>3. c \in Body /\ active[r] \in SUBSET Row
      BY DEF Applied, CInv, TypeOK, Row
  <2>4. Candidates(rows, u) = Candidates(active[r], u)
      BY <2>2, <2>3, CandidatesAfter
  <2>5. shown'[q][u] = shown[r][u]
      BY <1>1, <1>5 DEF ShownAfter
  <2> QED
      BY <1>1, <1>2, <1>5, <2>1, <2>4, <2>5
<1> QED
    BY <1>3, <1>4, <1>5

(***************************************************************************)
(* A cohort's block is held together or shown together: one an event       *)
(* touches lies in a group, any other is what it was.                      *)
(***************************************************************************)
LEMMA BlockEvent ==
    ASSUME CInv, NEW q \in Replica, NEW f, Block(active[q], f) # {}
    PROVE  f \in history[q]
<1>1. PICK x \in active[q] : x[1] = f
    BY DEF Block
<1> QED
    BY <1>1 DEF CInv, RowsTrue

LEMMA BlockOf ==
    ASSUME NEW rows, NEW f \in DOMAIN body, body[f].cohort, Block(rows, f) \cap Anchors(f) # {}
    PROVE  Block(rows, f) \in Blocks(rows)
BY DEF Blocks

LEMMA ApplyCohorts ==
    ASSUME CInv, NEW r \in Replica, NEW e \in Digest, NEW c, Applied(r, e, c)
    PROVE  CohortTogether'
<1> SUFFICES ASSUME NEW q \in Replica, NEW B \in Blocks(active[q])'
             PROVE  B \subseteq holds'[q] \/ B \cap holds'[q] = {}
    BY DEF CohortTogether
<1> DEFINE rows == RowsAfter(active[r], e, c)
<1>1. PICK f \in DOMAIN body' :
          body'[f].cohort /\ B = Block(active'[q], f) /\ B \cap Anchors(f)' # {}
    BY DEF Blocks, Block
<1>2. /\ active'[q] = IF q = r THEN rows ELSE active[q]
      /\ holds'[q] = IF q = r
                       THEN HoldsAfter(holds[r], Touched(active[r], e, c), Clear(active[r], e, c))
                       ELSE holds[q]
    BY ApplyShape
<1>3. /\ c \in Body /\ active[r] \in SUBSET Row /\ DOMAIN c.value \subseteq Unit
      /\ e \notin history[r] /\ body'[e] = c /\ DOMAIN body' = DOMAIN body \union {e}
      /\ \A x \in DOMAIN body : body'[x] = body[x]
    BY BodyShape DEF Applied, CInv, TypeOK, Row
<1>4. ASSUME f \in DOMAIN body PROVE body[f].cohort /\ Anchors(f)' = Anchors(f)
  <2>1. f \in Issued
      BY <1>4 DEF Issued
  <2> QED
      BY <1>1, <1>3, <1>4, <2>1, AppliedEvents
<1>5. ASSUME NEW D \in Blocks(active[q]) PROVE D \subseteq holds[q] \/ D \cap holds[q] = {}
    BY DEF CInv, HoldsSound, CohortTogether
<1>6. CASE q # r
  <2>1. B = Block(active[q], f) /\ f \in history[q]
      BY <1>1, <1>2, <1>6, BlockEvent
  <2>2. f # Genesis
      BY ApplyType DEF TypeOK
  <2>3. f \in DOMAIN body
      BY <2>1, <2>2 DEF CInv, HistoryClosed, Issued
  <2>4. B \in Blocks(active[q])
      BY <1>1, <1>4, <2>1, <2>3, BlockOf
  <2> QED
      BY <1>2, <1>5, <1>6, <2>4
<1>7. CASE q = r
  <2>1. Block(active[r], e) = {}
      BY <1>3, BlockEvent
  <2>2. B = Block(rows, f)
      BY <1>1, <1>2, <1>7
  <2>3. f = e => B = DOMAIN c.value
      BY <1>3, <2>1, <2>2, BlockAfter
  <2>4. B \in GroupBlocks(active[r], e, c)
    <3>1. CASE f \in DOMAIN body
        BY <1>1, <1>4, <2>2, <3>1, BlockOf DEF GroupBlocks
    <3>2. CASE f \notin DOMAIN body
        BY <1>1, <1>3, <2>3, <3>2 DEF GroupBlocks
    <3> QED
        BY <3>1, <3>2
  <2>5. holds'[q] = HoldsAfter(holds[r], Touched(active[r], e, c), Clear(active[r], e, c))
      BY <1>2, <1>7
  <2>6. CASE B \cap Touched(active[r], e, c) # {}
    <3>1. PICK u \in DOMAIN c.value : B \cap Group(active[r], e, c, u) # {}
        BY <2>6 DEF Touched
    <3>2. B \subseteq Group(active[r], e, c, u)
        BY <1>3, <2>4, <3>1, GroupWhole
    <3>3. CASE Group(active[r], e, c, u) \cap Clear(active[r], e, c) # {}
      <4>1. B \subseteq Clear(active[r], e, c)
          BY <1>3, <3>2, <3>3, ClearWhole
      <4> QED
          BY <2>5, <4>1 DEF HoldsAfter
    <3>4. CASE Group(active[r], e, c, u) \cap Clear(active[r], e, c) = {}
      <4>1. Group(active[r], e, c, u) \subseteq Touched(active[r], e, c)
          BY DEF Touched
      <4> QED
          BY <2>5, <3>2, <3>4, <4>1 DEF HoldsAfter
    <3> QED
        BY <3>3, <3>4
  <2>7. CASE B \cap Touched(active[r], e, c) = {}
    <3>1. \A w \in DOMAIN c.value : Group(active[r], e, c, w) \subseteq Touched(active[r], e, c)
        BY DEF Touched
    <3>2. DOMAIN c.value \subseteq Touched(active[r], e, c)
        BY <1>3, <3>1, GroupContains
    <3>3. f # e
        BY <1>1, <2>3, <2>7, <3>2
    <3>4. f \in DOMAIN body
        BY <1>3, <3>3
    <3> DEFINE D == Block(active[r], f)
    <3>5. B \subseteq D /\ D \ DOMAIN c.value \subseteq B
        BY <1>3, <2>2, <3>3, BlockAfter
    <3>6. D \in Blocks(active[r])
        BY <1>1, <1>4, <3>4, <3>5, BlockOf
    <3>7. D \cap DOMAIN c.value = {}
      <4>1. SUFFICES ASSUME NEW w \in DOMAIN c.value, w \in D PROVE FALSE
          OBVIOUS
      <4>2. D \subseteq Unit
        <5>1. ASSUME NEW u \in D PROVE u \in Unit
          <6>1. PICK x \in active[r] : x[2] = u
              BY DEF Block
          <6> QED
              BY <1>3, <6>1 DEF Row
        <5> QED
            BY <5>1
      <4>3. w \in Scope(active[r], {w})
          BY <1>3, ClosureContains DEF Scope
      <4>4. D \subseteq Scope(active[r], {w})
          BY <3>6, <4>1, <4>2, <4>3, ClosureWhole DEF Scope
      <4>5. Scope(active[r], {w}) \in GroupBlocks(active[r], e, c)
          BY DEF GroupBlocks
      <4>6. w \in Group(active[r], e, c, w) /\ w \in Unit
          BY <1>3, GroupContains
      <4>7. Scope(active[r], {w}) \subseteq Group(active[r], e, c, w)
          BY <1>3, <4>3, <4>5, <4>6, GroupWhole
      <4>8. B \subseteq Touched(active[r], e, c)
          BY <3>1, <3>5, <4>4, <4>7
      <4> QED
          BY <1>1, <2>7, <4>8
    <3>8. B = D
        BY <3>5, <3>7
    <3>9. B \subseteq holds[r] \/ B \cap holds[r] = {}
        BY <1>5, <1>7, <3>6, <3>8
    <3> QED
        BY <2>5, <2>7, <3>9, ClearTouched DEF HoldsAfter
  <2> QED
      BY <2>6, <2>7
<1> QED
    BY <1>6, <1>7

(***************************************************************************)
(* A unit no cohort ever tied is a group of its own.                       *)
(***************************************************************************)
LEMMA UntiedAlone ==
    ASSUME CInv, NEW r \in Replica, NEW e \in Digest, NEW c, Applied(r, e, c),
           NEW u \in Unit, u \notin Tied(r)', NEW w \in DOMAIN c.value, u \in Group(active[r], e, c, w)
    PROVE  u = w /\ Group(active[r], e, c, w) = {u}
<1> DEFINE rows == RowsAfter(active[r], e, c)
<1>1. /\ c \in Body /\ active[r] \in SUBSET Row /\ w \in Unit
      /\ e \notin history[r] /\ e # Genesis /\ body'[e] = c
      /\ \A x \in DOMAIN body : body'[x] = body[x]
      /\ DOMAIN body \subseteq Digest \ {Genesis}
    BY BodyShape DEF Applied, CInv, TypeOK, Row
<1>2. history'[r] = history[r] \union {e}
    BY ApplyShape
<1>3. ASSUME NEW f \in history'[r], f # Genesis, body'[f].cohort PROVE u \notin Changed(f)'
    BY <1>3 DEF Tied
<1>4. u \notin DOMAIN c.value \/ ~c.cohort
  <2>1. Changed(e)' = DOMAIN c.value /\ body'[e].cohort = c.cohort
      BY <1>1, AppliedEvents
  <2> QED
      BY <1>1, <1>2, <1>3, <2>1
<1>5. ASSUME NEW f \in DOMAIN body, body[f].cohort, NEW s, s = active[r] \/ s = rows
      PROVE  u \notin Block(s, f)
  <2>1. SUFFICES ASSUME u \in Block(s, f) PROVE FALSE
      OBVIOUS
  <2>2. PICK x \in s : x[1] = f /\ x[2] = u
      BY <2>1 DEF Block
  <2>3. CASE x \in active[r]
    <3>1. f \in history[r] /\ u \in Changed(f)
        BY <2>2, <2>3 DEF CInv, RowsTrue
    <3>2. f \in Issued
        BY DEF Issued
    <3>3. Changed(f)' = Changed(f)
        BY <3>2, AppliedEvents
    <3> QED
        BY <1>1, <1>2, <1>3, <1>5, <3>1, <3>3
  <2>4. CASE \E v \in DOMAIN c.value : x = <<e, v, c.value[v]>>
    <3>1. f = e /\ u \in DOMAIN c.value
        BY <2>2, <2>4
    <3> QED
        BY <1>1, <1>4, <1>5, <3>1
  <2> QED
      BY <1>5, <2>2, <2>3, <2>4, RowIn
<1>6. Whole({u}, Blocks(active[r])) /\ Whole(Unit \ {u}, Blocks(active[r]))
  <2>1. ASSUME NEW B \in Blocks(active[r]) PROVE u \notin B /\ B \subseteq Unit
    <3>1. PICK f \in DOMAIN body : body[f].cohort /\ B = Block(active[r], f)
        BY DEF Blocks
    <3>2. ASSUME NEW v \in B PROVE v \in Unit
      <4>1. PICK x \in active[r] : x[2] = v
          BY <3>1 DEF Block
      <4> QED
          BY <1>1, <4>1 DEF Row
    <3> QED
        BY <1>5, <3>1, <3>2
  <2> QED
      BY <2>1 DEF Whole
<1>7. ASSUME NEW v \in DOMAIN c.value
      PROVE  IF v = u THEN Scope(active[r], {v}) \subseteq {u}
                      ELSE Scope(active[r], {v}) \subseteq Unit \ {u}
  <2>1. v \in Unit
      BY <1>1, BodyShape
  <2>2. CASE v = u
      BY <1>6, <2>2, ClosureLeast DEF Scope
  <2>3. CASE v # u
    <3>1. {v} \subseteq Unit \ {u} /\ Unit \ {u} \in SUBSET Unit
        BY <2>1, <2>3
    <3> QED
        BY <1>6, <2>3, <3>1, ClosureLeast DEF Scope
  <2> QED
      BY <2>2, <2>3
<1>8. ASSUME NEW B \in GroupBlocks(active[r], e, c) PROVE B \subseteq {u} \/ u \notin B
  <2>1. CASE B \in Blocks(rows)
    <3>1. PICK f \in DOMAIN body : body[f].cohort /\ B = Block(rows, f)
        BY <2>1 DEF Blocks
    <3> QED
        BY <1>5, <3>1
  <2>2. CASE \E v \in DOMAIN c.value : B = Scope(active[r], {v})
    <3>1. PICK v \in DOMAIN c.value : B = Scope(active[r], {v})
        BY <2>2
    <3>2. CASE v = u
        BY <1>7, <3>1, <3>2
    <3>3. CASE v # u
        BY <1>7, <3>1, <3>3
    <3> QED
        BY <3>2, <3>3
  <2>3. CASE c.cohort /\ B = DOMAIN c.value
      BY <1>4, <2>3
  <2> QED
      BY <2>1, <2>2, <2>3 DEF GroupBlocks
<1>9. \A B \in GroupBlocks(active[r], e, c) : B \subseteq Unit
    BY <1>1, BlocksInUnit
<1>10. Whole({u}, GroupBlocks(active[r], e, c)) /\ Whole(Unit \ {u}, GroupBlocks(active[r], e, c))
    BY <1>8, <1>9 DEF Whole
<1>11. u = w
  <2>1. SUFFICES ASSUME u # w PROVE FALSE
      OBVIOUS
  <2>2. {w} \subseteq Unit \ {u} /\ Unit \ {u} \in SUBSET Unit
      BY <1>1, <2>1
  <2>3. Closure({w}, GroupBlocks(active[r], e, c)) \subseteq Unit \ {u}
      BY <1>10, <2>2, ClosureLeast
  <2> QED
      BY <2>3, GroupIsClosure
<1>12. Closure({w}, GroupBlocks(active[r], e, c)) \subseteq {u}
    BY <1>10, <1>11, ClosureLeast
<1> QED
    BY <1>11, <1>12, GroupIsClosure

(***************************************************************************)
(* An untied unit stays on hold only for its own conflict.                 *)
(***************************************************************************)
LEMMA TiedGrows ==
    ASSUME CInv, NEW r \in Replica, NEW e \in Digest, NEW c, Applied(r, e, c),
           NEW q \in Replica, NEW u \in Tied(q)
    PROVE  u \in Tied(q)'
<1>1. PICK f \in history[q] \ {Genesis} : body[f].cohort /\ u \in Changed(f)
    BY DEF Tied
<1>2. f \in Issued /\ f \in DOMAIN body
    BY <1>1 DEF CInv, HistoryClosed, Issued
<1>3. body'[f] = body[f] /\ Changed(f)' = Changed(f)
    BY <1>2, AppliedEvents DEF Applied
<1>4. f \in history'[q]
    BY <1>1, ApplyShape
<1> QED
    BY <1>1, <1>3, <1>4 DEF Tied

LEMMA ApplyScalars ==
    ASSUME CInv, NEW r \in Replica, NEW e \in Digest, NEW c, Applied(r, e, c)
    PROVE  ScalarHoldsJustified'
<1> SUFFICES ASSUME NEW q \in Replica, NEW u \in holds'[q], u \notin Tied(q)'
             PROVE  ~Agreed(active'[q], u)
    BY DEF ScalarHoldsJustified
<1> DEFINE rows == RowsAfter(active[r], e, c)
<1>1. /\ active'[q] = IF q = r THEN rows ELSE active[q]
      /\ holds'[q] = IF q = r
                       THEN HoldsAfter(holds[r], Touched(active[r], e, c), Clear(active[r], e, c))
                       ELSE holds[q]
    BY ApplyShape
<1>2. u \in holds[q] => ~Agreed(active[q], u)
    BY TiedGrows DEF CInv, HoldsSound, ScalarHoldsJustified
<1>3. c \in Body /\ active[r] \in SUBSET Row /\ DOMAIN c.value \subseteq Unit /\ u \in Unit
    BY BodyShape, ApplyType DEF Applied, CInv, TypeOK, Row
<1>4. CASE q # r
    BY <1>1, <1>2, <1>4
<1>5. CASE q = r /\ u \in Touched(active[r], e, c)
  <2>1. PICK w \in DOMAIN c.value : u \in Group(active[r], e, c, w)
      BY <1>5 DEF Touched
  <2>2. Group(active[r], e, c, w) = {u}
      BY <1>3, <1>5, <2>1, UntiedAlone
  <2>3. u \notin Clear(active[r], e, c)
      BY <1>1, <1>5 DEF HoldsAfter
  <2>4. ~Agreed(rows, u)
      BY <2>1, <2>2, <2>3 DEF Clear
  <2> QED
      BY <1>1, <1>5, <2>4
<1>6. CASE q = r /\ u \notin Touched(active[r], e, c)
  <2>1. u \in holds[r]
      BY <1>1, <1>6 DEF HoldsAfter
  <2>2. u \notin DOMAIN c.value
      BY <1>3, <1>6, GroupContains DEF Touched
  <2>3. Candidates(rows, u) = Candidates(active[r], u)
      BY <1>3, <2>2, CandidatesAfter
  <2> QED
      BY <1>1, <1>2, <1>6, <2>1, <2>3 DEF Agreed
<1> QED
    BY <1>4, <1>5, <1>6

-----------------------------------------------------------------------------
(***************************************************************************)
(* The invariant holds in the seed and after every step.                   *)
(***************************************************************************)
LEMMA InitCInv == Init => CInv
<1> SUFFICES ASSUME Init PROVE CInv
    OBVIOUS
<1> USE CatalogAssumption
<1>1. /\ DOMAIN body = {} /\ body \in [DOMAIN body -> Body]
      /\ \A r \in Replica :
            /\ history[r] = {Genesis} /\ frontier[r] = {Genesis}
            /\ active[r] = {<<Genesis, u, InitialValue[u]>> : u \in Unit}
            /\ shown[r] = InitialValue /\ holds[r] = {}
            /\ opened[r] = [parents |-> {Genesis}, active |-> active[r], shown |-> InitialValue]
    BY DEF Init, Snapshot
<1>2. TypeOK
    BY <1>1 DEF Init, TypeOK, Snapshot
<1>3. /\ \A u : Basis(Genesis, u) = {}
      /\ Deps(Genesis) = {} /\ Changed(Genesis) = Unit
      /\ \A u : ValueOf(Genesis, u) = InitialValue[u]
    BY DEF Basis, Deps, Changed, ValueOf
<1>4. HistoryClosed
    BY <1>1, <1>3 DEF HistoryClosed, Issued
<1>5. ASSUME NEW r \in Replica, NEW x \in active[r]
      PROVE  x[2] \in Unit /\ x[1] = Genesis /\ x[3] = InitialValue[x[2]]
  <2>1. x \in {<<Genesis, u, InitialValue[u]>> : u \in Unit}
      BY DEF Init
  <2>2. PICK u \in Unit : x = <<Genesis, u, InitialValue[u]>>
      BY <2>1
  <2> QED
      BY <2>2
<1>6. RowsTrue
    BY <1>1, <1>3, <1>5 DEF RowsTrue
<1>7. SnapshotsOld
  <2> SUFFICES ASSUME NEW r \in Replica
               PROVE  /\ frontier[r] # {} /\ opened[r].parents # {} /\ opened[r].parents \subseteq history[r]
                      /\ \A x \in opened[r].active : x[1] \in history[r]
      BY DEF SnapshotsOld
  <2>1. opened[r].parents = frontier[r] /\ opened[r].active = active[r]
      BY DEF Init, Snapshot
  <2>2. history[r] = {Genesis} /\ frontier[r] = {Genesis}
      BY DEF Init
  <2>3. \A x \in active[r] : x[1] = Genesis
      BY <1>5
  <2> QED
      BY <2>1, <2>2, <2>3
<1>8. ASSUME NEW r \in Replica, NEW u \in Unit
      PROVE  Tips(active[r], u) = {Genesis} /\ Candidates(active[r], u) = {InitialValue[u]}
  <2> DEFINE x == <<Genesis, u, InitialValue[u]>>
  <2>1. x \in active[r] /\ x[1] = Genesis /\ x[2] = u /\ x[3] = InitialValue[u]
      BY <1>1
  <2>2. \A y \in active[r] : y[2] = u => y[1] = Genesis /\ y[3] = InitialValue[u]
      BY <1>5
  <2> HIDE DEF x
  <2> QED
      BY <2>1, <2>2 DEF Tips, Candidates
<1>9. TipsFinite /\ CandidatesBounded
  <2>1. IsFiniteSet({Genesis}) /\ Cardinality({Genesis}) = 1
      BY FS_Singleton
  <2>2. 1 <= MaxCandidates
      OBVIOUS
  <2> QED
      BY <1>8, <2>1, <2>2 DEF TipsFinite, CandidatesBounded
<1>10. RevisionsExact /\ FrontierExact
    BY <1>1, <1>3, <1>8 DEF RevisionsExact, FrontierExact
<1>11. CurrentUnlessHeld
    BY <1>1, <1>8 DEF CurrentUnlessHeld
<1>12. HoldsSound
    BY <1>1 DEF HoldsSound, CohortTogether, ScalarHoldsJustified
<1> QED
    BY <1>2, <1>4, <1>6, <1>7, <1>9, <1>10, <1>11, <1>12 DEF CInv, Projection

LEMMA SameStores ==
    ASSUME CInv, UNCHANGED <<body, stores>>
    PROVE  HistoryClosed' /\ RowsTrue' /\ TipsFinite' /\ Projection' /\ HoldsSound'
<1>1. /\ body' = body /\ history' = history /\ active' = active /\ frontier' = frontier
      /\ shown' = shown /\ holds' = holds
    BY DEF stores
<1>2. HistoryClosed' /\ RowsTrue' /\ TipsFinite'
    BY <1>1 DEF CInv, HistoryClosed, RowsTrue, TipsFinite, Issued, Deps, Changed, ValueOf
<1>3. \A f, u : Changed(f)' = Changed(f) /\ Basis(f, u)' = Basis(f, u) /\ Deps(f)' = Deps(f)
    BY <1>1 DEF Changed, Basis, Deps
<1>4. RevisionsExact'
    BY <1>1, <1>3 DEF CInv, Projection, RevisionsExact
<1>5. FrontierExact'
    BY <1>1, <1>3 DEF CInv, Projection, FrontierExact
<1>6. CandidatesBounded' /\ CurrentUnlessHeld'
    BY <1>1 DEF CInv, Projection, CandidatesBounded, CurrentUnlessHeld
<1>7. HoldsSound'
    BY <1>1 DEF CInv, HoldsSound, CohortTogether, ScalarHoldsJustified, Blocks, Anchors, Tied, Changed
<1> QED
    BY <1>2, <1>4, <1>5, <1>6, <1>7 DEF Projection

LEMMA OpenCInv ==
    ASSUME CInv, NEW r \in Replica, Open(r)
    PROVE  CInv'
<1>1. /\ body' = body /\ history' = history /\ active' = active /\ frontier' = frontier
      /\ shown' = shown /\ holds' = holds
    BY DEF Open, stores
<1>2. \A q \in Replica : opened'[q] = IF q = r THEN Snapshot(r) ELSE opened[q]
    BY DEF Open, CInv, TypeOK
<1>3. TypeOK'
  <2>1. Snapshot(r) \in [parents: SUBSET Digest, active: SUBSET (Digest \X Unit \X Value),
                         shown: [Unit -> Value]]
      BY DEF Snapshot, CInv, TypeOK
  <2>2. opened' \in [Replica -> [parents: SUBSET Digest, active: SUBSET (Digest \X Unit \X Value),
                                 shown: [Unit -> Value]]]
      BY <2>1 DEF Open, CInv, TypeOK
  <2> QED
      BY <1>1, <2>2 DEF CInv, TypeOK
<1>4. SnapshotsOld'
  <2>1. frontier[r] \subseteq history[r]
      BY DEF CInv, Projection, FrontierExact
  <2>2. \A x \in active[r] : x[1] \in history[r]
      BY DEF CInv, RowsTrue
  <2> QED
      BY <1>1, <1>2, <2>1, <2>2 DEF Snapshot, CInv, SnapshotsOld
<1> QED
    BY <1>3, <1>4, SameStores DEF Open, CInv

LEMMA NextCInv == CInv /\ [Next]_vars => CInv'
<1> SUFFICES ASSUME CInv, [Next]_vars PROVE CInv'
    OBVIOUS
<1>1. CASE UNCHANGED vars
  <2>1. TypeOK' /\ SnapshotsOld'
      BY <1>1 DEF vars, stores, CInv, TypeOK, SnapshotsOld
  <2> QED
      BY <1>1, <2>1, SameStores DEF vars, stores, CInv
<1>2. CASE \E r \in Replica : Open(r)
    BY <1>2, OpenCInv
<1>3. CASE \E r \in Replica, e \in Digest, c \in Body : Applied(r, e, c)
  <2>1. PICK r \in Replica, e \in Digest, c \in Body : Applied(r, e, c)
      BY <1>3
  <2>2. TypeOK' /\ HistoryClosed' /\ RowsTrue' /\ SnapshotsOld'
      BY <2>1, ApplyType, ApplyHistory, ApplyRows, ApplySnapshots
  <2>3. TipsFinite' /\ CandidatesBounded'
      BY <2>1, ApplyBounded
  <2>4. RevisionsExact' /\ FrontierExact' /\ CurrentUnlessHeld'
      BY <2>1, ApplyRevisions, ApplyFrontier, ApplyCurrent
  <2>5. CohortTogether' /\ ScalarHoldsJustified'
      BY <2>1, ApplyCohorts, ApplyScalars
  <2> QED
      BY <2>2, <2>3, <2>4, <2>5 DEF CInv, Projection, HoldsSound
<1> QED
    BY <1>1, <1>2, <1>3, StepApplies

-----------------------------------------------------------------------------
(***************************************************************************)
(* A choice leaves one revision on every unit of its scope, its own, and   *)
(* the groups of those units stay in the scope and agree (Preview.choose). *)
(***************************************************************************)
LEMMA ChosenSettles ==
    ASSUME CInv, NEW r \in Replica, NEW e \in Digest, NEW c, Applied(r, e, c),
           e \notin DOMAIN body,
           \A w \in DOMAIN c.value : Tips(active[r], w) \subseteq c.basis[w],
           Scope(active[r], DOMAIN c.value) \subseteq DOMAIN c.value,
           NEW u \in DOMAIN c.value
    PROVE  Tips(active'[r], u) = {e} /\ u \notin holds'[r]
<1> DEFINE rows == RowsAfter(active[r], e, c)
           S == DOMAIN c.value
<1>1. c \in Body /\ active[r] \in SUBSET Row /\ S \in SUBSET Unit /\ e \notin history[r]
    BY BodyShape DEF Applied, CInv, TypeOK, Row
<1>2. /\ active'[r] = rows
      /\ holds'[r] = HoldsAfter(holds[r], Touched(active[r], e, c), Clear(active[r], e, c))
  <2>1. ASSUME NEW q \in Replica
        PROVE  /\ active'[q] = IF q = r THEN rows ELSE active[q]
               /\ holds'[q] = IF q = r
                      THEN HoldsAfter(holds[r], Touched(active[r], e, c), Clear(active[r], e, c))
                      ELSE holds[q]
      BY ApplyShape
  <2> QED
      BY <2>1
<1>3. ASSUME NEW w \in S PROVE Tips(rows, w) = {e}
  <2>1. Tips(active'[r], w) = (Tips(active[r], w) \ c.basis[w]) \union {e}
      BY <1>1, <1>3, ApplyTips
  <2> QED
      BY <1>2, <1>3, <2>1
<1>4. ASSUME NEW f \in DOMAIN body PROVE Block(rows, f) \cap S = {}
  <2>1. SUFFICES ASSUME NEW x \in rows, x[1] = f, x[2] \in S PROVE FALSE
      BY DEF Block
  <2>2. f \in Tips(rows, x[2])
      BY <2>1, TipIn
  <2> QED
      BY <1>3, <1>4, <2>1, <2>2
<1>5. Whole(Scope(active[r], S), Blocks(active[r])) /\ S \subseteq Scope(active[r], S)
      /\ Scope(active[r], S) \in SUBSET Unit
  <2>1. ASSUME NEW B \in Blocks(active[r]) PROVE B \subseteq Unit
    <3>1. PICK f : B = Block(active[r], f)
        BY DEF Blocks
    <3>2. ASSUME NEW v \in B PROVE v \in Unit
      <4>1. PICK x \in active[r] : x[2] = v
          BY <3>1 DEF Block
      <4> QED
          BY <1>1, <4>1 DEF Row
    <3> QED
        BY <3>2
  <2> QED
      BY <1>1, <2>1, ClosureWhole, ClosureContains DEF Whole, Scope
<1>6. Scope(active[r], S) = S
    BY <1>5
<1>7. ASSUME NEW w \in S PROVE Scope(active[r], {w}) \subseteq S
  <2>1. {w} \subseteq S /\ Whole(S, Blocks(active[r]))
      BY <1>5, <1>6
  <2> QED
      BY <1>1, <2>1, ClosureLeast DEF Scope
<1>8. Whole(S, GroupBlocks(active[r], e, c))
  <2> SUFFICES ASSUME NEW B \in GroupBlocks(active[r], e, c)
               PROVE  B \cap S = {} \/ B \subseteq S
      BY DEF Whole
  <2>1. CASE B \in Blocks(rows)
    <3>1. PICK f \in DOMAIN body : B = Block(rows, f)
        BY <2>1 DEF Blocks
    <3> QED
        BY <1>4, <3>1
  <2>2. CASE \E w \in S : B = Scope(active[r], {w})
      BY <1>7, <2>2
  <2>3. CASE B = S
      BY <2>3
  <2> QED
      BY <2>1, <2>2, <2>3 DEF GroupBlocks
<1>9. Group(active[r], e, c, u) \subseteq S /\ u \in Group(active[r], e, c, u)
  <2>1. {u} \subseteq S /\ u \in Unit
      BY <1>1
  <2> QED
      BY <1>1, <1>8, <2>1, ClosureLeast, GroupIsClosure, GroupContains
<1>10. ASSUME NEW w \in S PROVE Agreed(rows, w)
  <2>1. ASSUME NEW x \in rows, x[2] = w PROVE x[3] = c.value[w]
    <3>1. x[1] \in Tips(rows, w)
        BY <2>1, TipIn
    <3>2. x[1] = e
        BY <1>3, <1>10, <3>1
    <3>3. x \notin active[r]
        BY <1>1, <3>2 DEF CInv, RowsTrue
    <3>4. PICK v \in S : x = <<e, v, c.value[v]>>
        BY <2>1, <3>3, RowIn
    <3> QED
        BY <2>1, <3>4
  <2> DEFINE y == <<e, w, c.value[w]>>
  <2>2. y \in rows /\ y[2] = w /\ y[3] = c.value[w]
      BY <1>10, RowIn
  <2> HIDE DEF y
  <2>3. Candidates(rows, w) = {c.value[w]}
      BY <2>1, <2>2 DEF Candidates
  <2> QED
      BY <1>1, <1>10, <2>3, BodyShape DEF Agreed
<1>11. u \in Clear(active[r], e, c)
    BY <1>9, <1>10 DEF Clear
<1> QED
    BY <1>2, <1>3, <1>11 DEF HoldsAfter

\* what a step says of the choices it issues
ChoicesSettleNow ==
    \A e \in DOMAIN body' \ DOMAIN body :
        body'[e].resolve =>
            \A u \in DOMAIN body'[e].value :
                Tips(active'[body'[e].replica], u) = {e} /\ u \notin holds'[body'[e].replica]

LEMMA StepSettles == CInv /\ [Next]_vars => [ChoicesSettleNow]_vars
<1> SUFFICES ASSUME CInv, Next PROVE ChoicesSettleNow
    OBVIOUS
<1>1. ASSUME NEW r \in Replica, Open(r) PROVE ChoicesSettleNow
    BY <1>1 DEF Open, ChoicesSettleNow
<1>2. ASSUME NEW r \in Replica, NEW e \in Digest, Accept(r, e) PROVE ChoicesSettleNow
    BY <1>2 DEF Accept, ChoicesSettleNow
<1>3. ASSUME NEW r \in Replica, NEW e \in Digest, NEW S \in SUBSET Unit,
             NEW value \in [S -> Value], Edit(r, e, value)
      PROVE  ChoicesSettleNow
  <2>1. PICK c : Applied(r, e, c) /\ c.resolve = FALSE
      BY <1>3, EditApplies
  <2>2. DOMAIN body' = DOMAIN body \union {e} /\ body'[e] = c
      BY <2>1 DEF Applied
  <2> QED
      BY <2>1, <2>2 DEF ChoicesSettleNow
<1>4. ASSUME NEW r \in Replica, NEW e \in Digest, NEW u \in Unit, NEW picks \in [Unit -> Value],
             Choose(r, e, u, picks)
      PROVE  ChoicesSettleNow
  <2> DEFINE c == ChoiceBody(r, u, picks)
             S == ChosenScope(r, u)
  <2>1. /\ Applied(r, e, c) /\ e \notin DOMAIN body
        /\ \A w \in S : Tips(active[r], w) = Tips(opened[r].active, w)
        /\ Scope(active[r], S) \subseteq S
      BY <1>4, ChooseApplies
  <2>2. /\ DOMAIN c.value = S /\ c.replica = r
        /\ \A w \in S : c.basis[w] = Tips(opened[r].active, w)
      BY DEF ChoiceBody, Chosen
  <2>3. DOMAIN body' = DOMAIN body \union {e} /\ body'[e] = c
      BY <2>1 DEF Applied
  <2> HIDE DEF c, S
  <2>4. \A w \in DOMAIN c.value : Tips(active[r], w) \subseteq c.basis[w]
      BY <2>1, <2>2
  <2>5. Scope(active[r], DOMAIN c.value) \subseteq DOMAIN c.value
      BY <2>1, <2>2
  <2>6. ASSUME NEW w \in DOMAIN c.value PROVE Tips(active'[r], w) = {e} /\ w \notin holds'[r]
      BY <2>1, <2>4, <2>5, ChosenSettles
  <2> QED
      BY <2>2, <2>3, <2>6 DEF ChoicesSettleNow
<1> QED
    BY <1>1, <1>2, <1>3, <1>4 DEF Next

-----------------------------------------------------------------------------
(***************************************************************************)
(* Saves and choices map to the abstract Save, imports to its Accept, and  *)
(* opening an editor to a stutter.                                         *)
(***************************************************************************)
Mapped == [e \in DOMAIN body |-> [replica |-> body[e].replica, operation |-> e, deps |-> Deps(e)]]

LEMMA NewRefines ==
    ASSUME CInv, NEW r \in Replica, NEW e \in Digest, NEW c, Applied(r, e, c),
           e \notin DOMAIN body, c.parents # {}, c.replica = r
    PROVE  Causal!Next
<1>1. Genesis \in history[r] /\ e # Genesis
    BY DEF Applied, CInv, HistoryClosed
<1>2. DepsOf(c) \in (SUBSET history[r]) \ {{}} /\ DepsOf(c) \in SUBSET Digest
    BY DEF Applied, DepsOf, CInv, TypeOK
<1>3. e \in Digest \ Causal!Issued
    BY <1>1 DEF Causal!Issued
<1>4. ~Causal!HasReceipt(r, e)
    BY DEF Causal!HasReceipt
<1>5. /\ DOMAIN body' = DOMAIN body \union {e} /\ body'[e] = c
      /\ \A x \in DOMAIN body : body'[x] = body[x]
    BY DEF Applied
<1>6. Deps(e)' = DepsOf(c) /\ \A x \in DOMAIN body : Deps(x)' = Deps(x)
    BY AppliedEvents DEF Issued
<1>7. Mapped' = [x \in DOMAIN Mapped \union {e} |->
                    IF x = e THEN [replica |-> r, operation |-> e, deps |-> DepsOf(c)] ELSE Mapped[x]]
    BY <1>5, <1>6 DEF Mapped
<1>8. history' = [history EXCEPT ![r] = @ \union {e}]
    BY DEF Applied, Apply
<1>9. Causal!Save(r, e, e, DepsOf(c))
    BY <1>1, <1>2, <1>3, <1>4, <1>7, <1>8 DEF Causal!Save, Mapped
<1> QED
    BY <1>2, <1>9 DEF Causal!Next

LEMMA AcceptRefines ==
    ASSUME CInv, NEW r \in Replica, NEW e \in Digest, Accept(r, e)
    PROVE  Causal!Next
<1>1. e \in DOMAIN body /\ e \notin history[r] /\ Deps(e) \subseteq history[r] /\ e # Genesis
    BY DEF Accept, CInv, TypeOK
<1>2. Genesis \in history[r]
    BY DEF CInv, HistoryClosed
<1>3. e \in Causal!Issued \ history[r]
    BY <1>1 DEF Causal!Issued
<1>4. Causal!Deps(e) \subseteq history[r]
    BY <1>1 DEF Causal!Deps
<1>5. history' = [history EXCEPT ![r] = @ \union {e}]
    BY DEF Accept, Apply
<1>6. Mapped' = Mapped
    BY DEF Accept, Mapped, Deps
<1>7. Causal!Accept(r, e)
    BY <1>2, <1>3, <1>4, <1>5, <1>6 DEF Causal!Accept, Mapped
<1> QED
    BY <1>7 DEF Causal!Next

LEMMA StepRefines == CInv /\ [Next]_vars => [Causal!Next]_(Causal!vars)
<1> SUFFICES ASSUME CInv, [Next]_vars PROVE [Causal!Next]_(Causal!vars)
    OBVIOUS
<1>1. CASE UNCHANGED <<body, history>>
  <2>1. Mapped' = Mapped
      BY <1>1 DEF Mapped, Deps
  <2> QED
      BY <1>1, <2>1 DEF Causal!vars, Mapped
<1>2. ASSUME NEW r \in Replica, NEW e \in Digest, Accept(r, e) PROVE Causal!Next
    BY <1>2, AcceptRefines
<1>3. ASSUME NEW r \in Replica, NEW e \in Digest, NEW S \in SUBSET Unit,
             NEW value \in [S -> Value], Edit(r, e, value)
      PROVE  Causal!Next
  <2>1. PICK c : Applied(r, e, c) /\ e \notin DOMAIN body /\ c.parents # {} /\ c.replica = r
      BY <1>3, EditApplies
  <2> QED
      BY <2>1, NewRefines
<1>4. ASSUME NEW r \in Replica, NEW e \in Digest, NEW u \in Unit, NEW picks \in [Unit -> Value],
             Choose(r, e, u, picks)
      PROVE  Causal!Next
  <2> DEFINE c == ChoiceBody(r, u, picks)
  <2>1. Applied(r, e, c) /\ e \notin DOMAIN body /\ opened[r].parents # {}
      BY <1>4, ChooseApplies
  <2>2. c.parents = opened[r].parents /\ c.replica = r
      BY DEF ChoiceBody
  <2> HIDE DEF c
  <2> QED
      BY <2>1, <2>2, NewRefines
<1>5. (\E r \in Replica : Open(r)) \/ UNCHANGED vars => UNCHANGED <<body, history>>
    BY DEF Open, vars, stores
<1> QED
    BY <1>1, <1>2, <1>3, <1>4, <1>5 DEF Next

LEMMA InitMapped == Init => Causal!Init
<1> SUFFICES ASSUME Init PROVE Causal!Init
    OBVIOUS
<1>1. Mapped = [e \in {} |-> e]
    BY DEF Init, Mapped
<1>2. history \in [Replica -> {{}, {Genesis}}]
    BY DEF Init
<1> QED
    BY <1>1, <1>2 DEF Causal!Init, Mapped

-----------------------------------------------------------------------------
(***************************************************************************)
(* The inductive invariant holds in every state of save, choice and import *)
(* (CatalogStorage.accept).                                                *)
(***************************************************************************)
LEMMA SpecCInv == Spec => []CInv
    BY InitCInv, NextCInv, PTL DEF Spec

(***************************************************************************)
(* The tables and snapshots keep their types (CatalogStorage).             *)
(***************************************************************************)
THEOREM CatalogTypes == Spec => []TypeOK
<1>1. CInv => TypeOK
    BY DEF CInv
<1> QED
    BY <1>1, SpecCInv, PTL

(***************************************************************************)
(* Every replica stores what its accepted events mean (apply_edit and      *)
(* write_current, store.py), in any order of saves and imports.            *)
(***************************************************************************)
THEOREM CatalogSafety == Spec => []Projection
<1>1. CInv => Projection
    BY DEF CInv
<1> QED
    BY <1>1, SpecCInv, PTL

(***************************************************************************)
(* Holds cover a cohort's block wholly or not at all, and a unit nothing   *)
(* was ever tied to only for its own conflict (_scope, store.py).          *)
(***************************************************************************)
THEOREM HoldsStaySound == Spec => []HoldsSound
<1>1. CInv => HoldsSound
    BY DEF CInv
<1> QED
    BY <1>1, SpecCInv, PTL

(***************************************************************************)
(* A committed choice leaves nothing it covers in conflict (commit of      *)
(* preview.py and its stale-review checks).                                *)
(***************************************************************************)
THEOREM ChoicesSettle == Spec => ChoiceSettles
    BY StepSettles, SpecCInv, PTL DEF Spec, ChoiceSettles, ChoicesSettleNow

(***************************************************************************)
(* Catalog saves and imports implement the causal history (save_in and     *)
(* accept, storage.py).                                                    *)
(***************************************************************************)
THEOREM CatalogRefinesHistory == Spec => ImplementsCausalHistory
    BY InitMapped, StepRefines, SpecCInv, PTL DEF Spec, Causal!Spec, ImplementsCausalHistory

(***************************************************************************)
(* Two replicas that hold the same events store the same revisions and     *)
(* frontier whatever order those arrived in, and show the same value of    *)
(* every unit neither has on hold.                                         *)
(***************************************************************************)
Convergence ==
    \A r, q \in Replica :
        history[r] = history[q] =>
            /\ active[r] = active[q] /\ frontier[r] = frontier[q]
            /\ \A u \in Unit \ (holds[r] \union holds[q]) : shown[r][u] = shown[q][u]

LEMMA SameRows ==
    ASSUME CInv, NEW r \in Replica, NEW q \in Replica, history[r] = history[q]
    PROVE  active[r] \subseteq active[q]
<1> SUFFICES ASSUME NEW x \in active[r] PROVE x \in active[q]
    OBVIOUS
<1>1. active[r] \in SUBSET Row /\ active[q] \in SUBSET Row
    BY DEF CInv, TypeOK, Row
<1>2. x[2] \in Unit /\ x[1] \in Tips(active[r], x[2])
    BY <1>1, TipIn DEF Row
<1>3. Tips(active[r], x[2]) = Tips(active[q], x[2])
  <2>1. ASSUME NEW u \in Unit PROVE Tips(active[r], u) = Tips(active[q], u)
    <3> DEFINE exact == {e \in history[r] : u \in Changed(e) /\ \A f \in history[r] : e \notin Basis(f, u)}
    <3>1. RevisionsExact
        BY DEF CInv, Projection
    <3>2. Tips(active[r], u) = exact
        BY <3>1 DEF RevisionsExact
    <3>3. Tips(active[q], u) = exact
        BY <3>1 DEF RevisionsExact
    <3> QED
        BY <3>2, <3>3
  <2> QED
      BY <1>2, <2>1
<1>4. PICK y \in active[q] : y[2] = x[2] /\ y[1] = x[1]
    BY <1>2, <1>3, TipIn
<1>5. x[3] = ValueOf(x[1], x[2]) /\ y[3] = ValueOf(y[1], y[2])
    BY DEF CInv, RowsTrue
<1>6. x = <<x[1], x[2], x[3]>> /\ y = <<y[1], y[2], y[3]>>
    BY <1>1 DEF Row
<1> QED
    BY <1>4, <1>5, <1>6

(***************************************************************************)
(* Replicas converge: what each shows depends on the events it holds and   *)
(* never on their order of arrival (apply_edit), holds apart.              *)
(***************************************************************************)
THEOREM ReplicasConverge == Spec => []Convergence
<1>1. CInv => Convergence
  <2> SUFFICES ASSUME CInv, NEW r \in Replica, NEW q \in Replica, history[r] = history[q]
               PROVE  /\ active[r] = active[q] /\ frontier[r] = frontier[q]
                      /\ \A u \in Unit \ (holds[r] \union holds[q]) : shown[r][u] = shown[q][u]
      BY DEF Convergence
  <2>1. active[r] = active[q]
      BY SameRows
  <2>2. frontier[r] = frontier[q]
      BY DEF CInv, Projection, FrontierExact
  <2>3. ASSUME NEW u \in Unit \ (holds[r] \union holds[q]) PROVE shown[r][u] = shown[q][u]
    <3>1. Candidates(active[r], u) = {shown[r][u]} /\ Candidates(active[q], u) = {shown[q][u]}
        BY <2>3 DEF CInv, Projection, CurrentUnlessHeld
    <3> QED
        BY <2>1, <3>1
  <2> QED
      BY <2>1, <2>2, <2>3
<1> QED
    BY <1>1, SpecCInv, PTL
=============================================================================
