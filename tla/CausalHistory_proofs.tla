------------------------ MODULE CausalHistory_proofs ------------------------
(***************************************************************************)
(* The safety properties of CausalHistory for any number of replicas,      *)
(* operations and events.                                                  *)
(***************************************************************************)
EXTENDS CausalHistory, TLAPS

\* Accepted events were issued, and every event an issued one names was issued.
HistoryIssued ==
    /\ \A r \in Replica : history[r] \subseteq Issued
    /\ \A e \in Issued : Deps(e) \subseteq Issued

\* The inductive invariant: HistoryIssued is what Save needs to stay well founded.
IInv ==
    /\ TypeOK
    /\ HistoryIssued
    /\ CausallyClosed
    /\ AuthorHolds
    /\ OneEventPerOperation
    /\ AncestryWellFounded

-----------------------------------------------------------------------------
\* What a save does to the ancestry relation: the new event is issued with its
\* dependencies, every other event keeps its own.
LEMMA SaveDeps ==
    ASSUME TypeOK, NEW r \in Replica, NEW op \in Operation, NEW e \in Digest,
           NEW deps \in SUBSET Digest, Save(r, op, e, deps)
    PROVE  /\ Issued' = Issued \union {e}
           /\ e \notin Issued
           /\ Deps(e)' = deps
           /\ \A x \in Issued : Deps(x)' = Deps(x)
           /\ deps \subseteq history[r]
           /\ DOMAIN body' = DOMAIN body \union {e}
           /\ body'[e] = [replica |-> r, operation |-> op, deps |-> deps]
           /\ \A x \in DOMAIN body : x # e /\ body'[x] = body[x]
  BY DEF Save, TypeOK, Issued, Deps

LEMMA SaveHistory ==
    ASSUME TypeOK, NEW r \in Replica, NEW op \in Operation, NEW e \in Digest,
           NEW deps \in SUBSET Digest, Save(r, op, e, deps), NEW q \in Replica
    PROVE  history'[q] = IF q = r THEN history[q] \union {e} ELSE history[q]
  BY DEF Save, TypeOK

LEMMA AcceptHistory ==
    ASSUME TypeOK, NEW r \in Replica, NEW e \in Digest, Accept(r, e), NEW q \in Replica
    PROVE  history'[q] = IF q = r THEN history[q] \union {e} ELSE history[q]
  BY DEF Accept, TypeOK

-----------------------------------------------------------------------------
LEMMA InitIInv == Init => IInv
<1> SUFFICES ASSUME Init PROVE IInv
  OBVIOUS
<1>0. DOMAIN body = {} /\ Issued = {Genesis} /\ Deps(Genesis) = {}
  BY DEF Init, Issued, Deps
<1>1. TypeOK
  BY GenesisAssumption DEF Init, TypeOK, Body
<1>2. HistoryIssued
  BY <1>0 DEF Init, HistoryIssued
<1>3. CausallyClosed
  BY <1>0, <1>1, <1>2 DEF Init, CausallyClosed, HistoryIssued
<1>4. AuthorHolds /\ OneEventPerOperation
  BY <1>0 DEF AuthorHolds, OneEventPerOperation
<1>5. AncestryWellFounded
  BY <1>0 DEF AncestryWellFounded
<1> QED BY <1>1, <1>2, <1>3, <1>4, <1>5 DEF IInv

LEMMA SaveIInv ==
    ASSUME IInv, NEW r \in Replica, NEW op \in Operation, NEW e \in Digest,
           NEW deps \in SUBSET Digest, Save(r, op, e, deps)
    PROVE  IInv'
<1> USE DEF IInv
<1>t. TypeOK
  OBVIOUS
<1>i. /\ Issued' = Issued \union {e}
      /\ e \notin Issued
      /\ Deps(e)' = deps
      /\ \A x \in Issued : Deps(x)' = Deps(x)
      /\ deps \subseteq history[r]
  BY <1>t, SaveDeps
<1>b. /\ DOMAIN body' = DOMAIN body \union {e}
      /\ body'[e] = [replica |-> r, operation |-> op, deps |-> deps]
      /\ \A x \in DOMAIN body : x # e /\ body'[x] = body[x]
  BY <1>i DEF Save, Issued
<1>h. \A q \in Replica :
          history'[q] = IF q = r THEN history[q] \union {e} ELSE history[q]
  BY <1>t, SaveHistory
<1>1. TypeOK'
  <2>1. DOMAIN body' \subseteq Digest \ {Genesis}
    BY <1>i, <1>b DEF TypeOK, Issued
  <2>2. body' \in [DOMAIN body' -> Body]
    <3>1. body' = [x \in DOMAIN body \union {e} |->
                      IF x = e THEN [replica |-> r, operation |-> op, deps |-> deps]
                               ELSE body[x]]
      BY DEF Save
    <3> QED BY <3>1 DEF TypeOK, Body
  <2>3. history' \in [Replica -> SUBSET Digest]
    BY DEF Save, TypeOK
  <2> QED BY <2>1, <2>2, <2>3 DEF TypeOK
<1>2. HistoryIssued'
  <2>1. \A q \in Replica : history'[q] \subseteq Issued'
    BY <1>i, <1>b, <1>h DEF HistoryIssued
  <2>2. \A x \in Issued' : Deps(x)' \subseteq Issued'
    BY <1>i, <1>b DEF HistoryIssued
  <2> QED BY <2>1, <2>2 DEF HistoryIssued
<1>3. CausallyClosed'
  <2> SUFFICES ASSUME NEW q \in Replica, NEW x \in history'[q]
               PROVE  Deps(x)' \subseteq history'[q]
    BY DEF CausallyClosed
  <2>1. CASE x \in history[q]
    <3>1. x \in Issued /\ Deps(x)' = Deps(x)
      BY <2>1, <1>i, <1>b DEF HistoryIssued
    <3> QED BY <2>1, <3>1, <1>h DEF CausallyClosed
  <2>2. CASE x \notin history[q]
    <3>1. q = r /\ x = e
      BY <2>2, <1>h
    <3> QED BY <3>1, <1>i, <1>b, <1>h
  <2> QED BY <2>1, <2>2
<1>4. AuthorHolds'
  <2> SUFFICES ASSUME NEW x \in DOMAIN body' PROVE x \in history'[body'[x].replica]
    BY DEF AuthorHolds
  <2>1. CASE x = e
    <3>1. body'[x].replica = r
      BY <2>1, <1>b
    <3> QED BY <2>1, <3>1, <1>h
  <2>2. CASE x # e
    <3>1. x \in DOMAIN body /\ body'[x] = body[x] /\ body[x].replica \in Replica
      BY <2>2, <1>i, <1>b DEF TypeOK, Body
    <3> QED BY <3>1, <1>h DEF AuthorHolds
  <2> QED BY <2>1, <2>2
<1>5. OneEventPerOperation'
  <2> SUFFICES ASSUME NEW x \in DOMAIN body', NEW y \in DOMAIN body',
                      body'[x].replica = body'[y].replica,
                      body'[x].operation = body'[y].operation
               PROVE  x = y
    BY DEF OneEventPerOperation
  <2>1. \A z \in DOMAIN body : ~(body[z].replica = r /\ body[z].operation = op)
    BY DEF Save, HasReceipt
  <2>2. CASE x = e \/ y = e
    BY <2>1, <2>2, <1>i, <1>b
  <2>3. CASE x # e /\ y # e
    BY <2>3, <1>i, <1>b DEF OneEventPerOperation
  <2> QED BY <2>2, <2>3
<1>6. AncestryWellFounded'
  <2> SUFFICES ASSUME NEW S \in (SUBSET Issued') \ {{}}
               PROVE  \E x \in S : Deps(x)' \cap S = {}
    BY DEF AncestryWellFounded
  <2>1. deps \subseteq Issued
    BY <1>i, <1>b DEF HistoryIssued
  <2>2. CASE S \ {e} = {}
    <3>1. S = {e} /\ deps \cap S = {}
      BY <2>1, <2>2, <1>i, <1>b
    <3> QED BY <3>1, <1>i, <1>b
  <2>3. CASE S \ {e} # {}
    <3>1. S \ {e} \subseteq Issued
      BY <1>i, <1>b
    <3>2. PICK x \in S \ {e} : Deps(x) \cap (S \ {e}) = {}
      BY <2>3, <3>1 DEF AncestryWellFounded
    <3>3. e \notin Deps(x) /\ Deps(x)' = Deps(x)
      BY <3>1, <1>i, <1>b DEF HistoryIssued
    <3> QED BY <3>2, <3>3
  <2> QED BY <2>2, <2>3
<1> QED BY <1>1, <1>2, <1>3, <1>4, <1>5, <1>6

LEMMA AcceptIInv ==
    ASSUME IInv, NEW r \in Replica, NEW e \in Digest, Accept(r, e)
    PROVE  IInv'
<1> USE DEF IInv
<1>t. TypeOK
  OBVIOUS
<1>h. \A q \in Replica :
          history'[q] = IF q = r THEN history[q] \union {e} ELSE history[q]
  BY <1>t, AcceptHistory
<1>0. body' = body /\ Issued' = Issued /\ \A x : Deps(x)' = Deps(x)
  BY DEF Accept, Issued, Deps
<1>1. TypeOK'
  BY <1>0 DEF Accept, TypeOK
<1>2. HistoryIssued'
  BY <1>0, <1>h DEF Accept, HistoryIssued
<1>3. CausallyClosed'
  <2> SUFFICES ASSUME NEW q \in Replica, NEW x \in history'[q]
               PROVE  Deps(x) \subseteq history'[q]
    BY <1>0 DEF CausallyClosed
  <2>1. CASE x \in history[q]
    BY <2>1, <1>h DEF CausallyClosed
  <2>2. CASE x \notin history[q]
    <3>1. q = r /\ x = e /\ Deps(e) \subseteq history[r]
      BY <2>2, <1>h DEF Accept
    <3> QED BY <3>1, <1>h
  <2> QED BY <2>1, <2>2
<1>4. AuthorHolds'
  <2> SUFFICES ASSUME NEW x \in DOMAIN body PROVE x \in history'[body[x].replica]
    BY <1>0 DEF AuthorHolds
  <2>1. body[x].replica \in Replica
    BY DEF TypeOK, Body
  <2> QED BY <2>1, <1>h DEF AuthorHolds
<1>5. OneEventPerOperation' /\ AncestryWellFounded'
  BY <1>0 DEF OneEventPerOperation, AncestryWellFounded
<1> QED BY <1>1, <1>2, <1>3, <1>4, <1>5

LEMMA NextIInv == IInv /\ [Next]_vars => IInv'
<1> SUFFICES ASSUME IInv, [Next]_vars PROVE IInv'
  OBVIOUS
<1>1. CASE UNCHANGED vars
  BY <1>1 DEF vars, IInv, TypeOK, HistoryIssued, CausallyClosed, AuthorHolds,
              OneEventPerOperation, AncestryWellFounded, Issued, Deps
<1>2. CASE Next
  BY <1>2, SaveIInv, AcceptIInv DEF Next
<1> QED BY <1>1, <1>2

(***************************************************************************)
(* The inductive invariant holds in every state.                           *)
(***************************************************************************)
THEOREM SpecIInv == Spec => []IInv
  BY InitIInv, NextIInv, PTL DEF Spec

(***************************************************************************)
(* For every instance: the type invariant and the causal closure of every  *)
(* history (accept, storage.py).                                           *)
(***************************************************************************)
THEOREM CausalHistorySafety == Spec => [](TypeOK /\ CausallyClosed)
<1>1. IInv => TypeOK /\ CausallyClosed
  BY DEF IInv
<1> QED BY <1>1, SpecIInv, PTL

(***************************************************************************)
(* For every instance: durability at the author, one event per operation   *)
(* id and an ancestry without cycles (save_in, retry_receipt in store.py). *)
(***************************************************************************)
THEOREM LineageSound == Spec => []LineageHolds
<1>1. IInv => LineageHolds
  BY DEF IInv, LineageHolds
<1> QED BY <1>1, SpecIInv, PTL
=============================================================================
