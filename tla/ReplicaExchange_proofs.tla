----------------------- MODULE ReplicaExchange_proofs -----------------------
(***************************************************************************)
(* For any number of replicas, events, partial deliveries and losses: the  *)
(* exchange keeps its safety properties and implements CausalHistory.      *)
(***************************************************************************)
EXTENDS ReplicaExchange, TLAPS

\* An author keeps every row of what it saved; transport handles local rows only.
AuthorKeeps ==
    /\ \A e \in DOMAIN body : ObjectsOf(e) \subseteq local[body[e].replica]
    /\ \A r \in Replica :
        /\ published[r] \subseteq local[r]
        /\ publishing[r] \in local[r] \union {None}
        /\ local[r] \subseteq events[r]

\* Objects exist only for issued events.
OnlyIssued ==
    \A r \in Replica, o \in Object :
        (o \in events[r] \/ inbox[r][o] # "none" \/ folder[r][o] # "absent")
            => o[1] \in Issued

\* The inductive invariant.
XInv ==
    /\ TypeOK
    /\ AuthorKeeps
    /\ OnlyIssued
    /\ CompleteActivation

-----------------------------------------------------------------------------
\* An object is the root or the part of the event its first component names.
LEMMA ObjectShape ==
    ASSUME NEW o \in Object
    PROVE  /\ o[1] \in Digest
           /\ o \in ObjectsOf(o[1])
           /\ o[2] # "part" => o = Root(o[1])
           /\ o[2] = "part" => \A e : o # Root(e)
<1>1. PICK e \in Digest : o \in ObjectsOf(e)
  BY DEF Object
<1>2. o = Root(e) \/ o = Part(e)
  BY <1>1 DEF ObjectsOf
<1>3. o[1] = e
  BY <1>2 DEF Root, Part
<1>4. CASE o = Root(e)
  <2>1. o[2] = "root"
    BY <1>4 DEF Root
  <2> QED BY <1>1, <1>3, <1>4, <2>1
<1>5. CASE o = Part(e)
  <2>1. o[2] = "part" /\ \A f : Root(f)[2] = "root"
    BY <1>5 DEF Root, Part
  <2> QED BY <1>1, <1>3, <2>1
<1> QED BY <1>2, <1>4, <1>5

LEMMA ObjectsOfShape ==
    ASSUME NEW e \in Digest
    PROVE  /\ ObjectsOf(e) \subseteq Object
           /\ Root(e) \in ObjectsOf(e)
           /\ \A o \in ObjectsOf(e) : o[1] = e
           /\ \A f : Root(f) \in ObjectsOf(e) => f = e
<1>1. ObjectsOf(e) \subseteq Object /\ Root(e) \in ObjectsOf(e)
  BY DEF Object, ObjectsOf
<1>2. \A o \in ObjectsOf(e) : o = Root(e) \/ o = Part(e)
  BY DEF ObjectsOf
<1>3. Root(e)[1] = e /\ Part(e)[1] = e /\ \A f : Root(f)[1] = f
  BY DEF Root, Part
<1> QED BY <1>1, <1>2, <1>3

\* What a save does to the content and to each store.
LEMMA SaveEffect ==
    ASSUME TypeOK, NEW r \in Replica, NEW op \in Operation, NEW e \in Digest,
           NEW deps \in SUBSET Digest, Save(r, op, e, deps)
    PROVE  /\ e \notin Issued
           /\ DOMAIN body' = DOMAIN body \union {e}
           /\ Issued' = Issued \union {e}
           /\ body'[e] = [replica |-> r, operation |-> op, deps |-> deps]
           /\ \A x \in DOMAIN body : x # e /\ body'[x] = body[x]
           /\ Deps(e)' = deps
           /\ \A x \in Issued : Deps(x)' = Deps(x)
           /\ deps \subseteq Roots(r)
<1>1. /\ e \notin Issued
      /\ deps \subseteq Roots(r)
      /\ body' = [x \in DOMAIN body \union {e} |->
                    IF x = e THEN [replica |-> r, operation |-> op, deps |-> deps]
                             ELSE body[x]]
  BY DEF Save
<1>2. /\ DOMAIN body' = DOMAIN body \union {e}
      /\ body'[e] = [replica |-> r, operation |-> op, deps |-> deps]
      /\ \A x \in DOMAIN body : x # e /\ body'[x] = body[x]
  BY <1>1 DEF Issued
<1>3. Issued' = Issued \union {e}
  BY <1>2 DEF Issued
<1>4. Deps(e)' = deps /\ \A x \in Issued : Deps(x)' = Deps(x)
  <2>1. e # Genesis
    BY <1>1 DEF Issued
  <2>2. Deps(e)' = deps
    BY <1>2, <2>1 DEF Deps
  <2>3. \A x \in Issued : Deps(x)' = Deps(x)
    BY <1>1, <1>2 DEF Deps, Issued
  <2> QED BY <2>2, <2>3
<1> QED BY <1>1, <1>2, <1>3, <1>4

-----------------------------------------------------------------------------
LEMMA InitXInv == Init => XInv
<1> SUFFICES ASSUME Init PROVE XInv
  OBVIOUS
<1> USE ExchangeAssumption
<1>0. DOMAIN body = {} /\ Issued = {Genesis} /\ Deps(Genesis) = {}
  BY DEF Init, Issued, Deps
<1>1. ObjectsOf(Genesis) \subseteq Object /\ \A o \in ObjectsOf(Genesis) : o[1] = Genesis
  BY ObjectsOfShape
<1>2. TypeOK
  BY <1>0, <1>1 DEF Init, TypeOK
<1>3. AuthorKeeps
  BY <1>0 DEF Init, AuthorKeeps
<1>4. OnlyIssued
  BY <1>0, <1>1 DEF Init, OnlyIssued
<1>5. CompleteActivation
  <2> SUFFICES ASSUME NEW r \in Replica, NEW e \in Roots(r)
               PROVE  /\ ObjectsOf(e) \subseteq events[r]
                      /\ Root(Genesis) \in events[r]
                      /\ Deps(e) \subseteq Roots(r)
    BY DEF CompleteActivation
  <2>1. e \in Digest /\ Root(e) \in ObjectsOf(Genesis) /\ events[r] = ObjectsOf(Genesis)
    BY DEF Init, Roots
  <2>2. e = Genesis
    BY <2>1, ObjectsOfShape
  <2> QED BY <1>0, <2>1, <2>2, ObjectsOfShape
<1> QED BY <1>2, <1>3, <1>4, <1>5 DEF XInv

LEMMA SaveXInv ==
    ASSUME XInv, NEW r \in Replica, NEW op \in Operation, NEW e \in Digest,
           NEW deps \in SUBSET Digest, Save(r, op, e, deps)
    PROVE  XInv'
<1> USE DEF XInv
<1>t. TypeOK
  OBVIOUS
<1>s. /\ e \notin Issued
      /\ DOMAIN body' = DOMAIN body \union {e}
      /\ Issued' = Issued \union {e}
      /\ body'[e] = [replica |-> r, operation |-> op, deps |-> deps]
      /\ \A x \in DOMAIN body : x # e /\ body'[x] = body[x]
      /\ Deps(e)' = deps
      /\ \A x \in Issued : Deps(x)' = Deps(x)
      /\ deps \subseteq Roots(r)
  BY <1>t, SaveEffect
<1>q. \A q \in Replica :
        /\ events'[q] = IF q = r THEN events[q] \union ObjectsOf(e) ELSE events[q]
        /\ local'[q] = IF q = r THEN local[q] \union ObjectsOf(e) ELSE local[q]
        /\ published'[q] = published[q] /\ publishing'[q] = publishing[q]
  BY DEF Save, TypeOK
<1>o. /\ ObjectsOf(e) \subseteq Object /\ Root(e) \in ObjectsOf(e)
      /\ \A o \in ObjectsOf(e) : o[1] = e
      /\ \A f : Root(f) \in ObjectsOf(e) => f = e
  BY ObjectsOfShape
<1>1. TypeOK'
  <2>1. DOMAIN body' \subseteq Digest \ {Genesis}
    BY <1>s DEF TypeOK, Issued
  <2>2. body' \in [DOMAIN body' ->
                    [replica: Replica, operation: Operation, deps: SUBSET Digest]]
    <3>1. body' = [x \in DOMAIN body \union {e} |->
                    IF x = e THEN [replica |-> r, operation |-> op, deps |-> deps]
                             ELSE body[x]]
      BY DEF Save
    <3> QED BY <3>1 DEF TypeOK
  <2>3. events' \in [Replica -> SUBSET Object] /\ local' \in [Replica -> SUBSET Object]
    BY <1>o DEF Save, TypeOK
  <2> QED BY <2>1, <2>2, <2>3 DEF Save, TypeOK
<1>2. AuthorKeeps'
  <2>1. \A x \in DOMAIN body' : ObjectsOf(x) \subseteq local'[body'[x].replica]
    <3> SUFFICES ASSUME NEW x \in DOMAIN body'
                 PROVE  ObjectsOf(x) \subseteq local'[body'[x].replica]
      OBVIOUS
    <3>1. CASE x = e
      <4>1. body'[x].replica = r
        BY <3>1, <1>s
      <4> QED BY <3>1, <4>1, <1>q
    <3>2. CASE x # e
      <4>1. x \in DOMAIN body /\ body'[x] = body[x] /\ body[x].replica \in Replica
        BY <3>2, <1>s DEF TypeOK
      <4>2. ObjectsOf(x) \subseteq local[body[x].replica]
        BY <4>1 DEF AuthorKeeps
      <4>3. local[body[x].replica] \subseteq local'[body[x].replica]
        BY <4>1, <1>q
      <4> QED BY <4>1, <4>2, <4>3
    <3> QED BY <3>1, <3>2
  <2>2. \A q \in Replica :
            /\ published'[q] \subseteq local'[q]
            /\ publishing'[q] \in local'[q] \union {None}
            /\ local'[q] \subseteq events'[q]
    BY <1>q DEF AuthorKeeps
  <2>3. \A x : ObjectsOf(x)' = ObjectsOf(x)
    BY DEF ObjectsOf, Root, Part
  <2> QED BY <2>1, <2>2, <2>3 DEF AuthorKeeps
<1>3. OnlyIssued'
  <2>1. inbox' = inbox /\ folder' = folder
    BY DEF Save
  <2> QED BY <1>s, <1>q, <1>o, <2>1 DEF OnlyIssued
<1>4. CompleteActivation'
  <2> SUFFICES ASSUME NEW q \in Replica, NEW x \in Roots(q)'
               PROVE  /\ ObjectsOf(x) \subseteq events'[q]
                      /\ Root(Genesis) \in events'[q]
                      /\ Deps(x)' \subseteq Roots(q)'
    BY DEF CompleteActivation
  <2>0. events[q] \subseteq events'[q] /\ Roots(q) \subseteq Roots(q)'
    BY <1>q DEF Roots
  <2>1. CASE x \in Roots(q)
    <3>1. x \in Issued
      <4>1. Root(x) \in Object /\ Root(x)[1] = x
        BY <2>1, ObjectsOfShape DEF Roots
      <4> QED BY <2>1, <4>1 DEF OnlyIssued, Roots
    <3> QED BY <2>0, <2>1, <3>1, <1>s DEF CompleteActivation
  <2>2. CASE x \notin Roots(q)
    <3>1. q = r /\ x = e
      BY <2>2, <1>q, <1>o DEF Roots
    <3>2. Root(Genesis) \in events[r]
      BY DEF Save
    <3> QED BY <2>0, <3>1, <3>2, <1>s, <1>q
  <2> QED BY <2>1, <2>2
<1> QED BY <1>1, <1>2, <1>3, <1>4

\* Transport and provider steps change neither the stores nor the content.
LEMMA FolderStepXInv ==
    ASSUME XInv, TypeOK', UNCHANGED <<body, events, local>>,
           \A r \in Replica :
              /\ published'[r] \subseteq local[r]
              /\ publishing'[r] \in local[r] \union {None},
           \A r \in Replica, o \in Object :
              (inbox'[r][o] # "none" \/ folder'[r][o] # "absent") => o[1] \in Issued
    PROVE  XInv'
<1>1. AuthorKeeps' /\ CompleteActivation' /\ Issued' = Issued
  BY DEF XInv, AuthorKeeps, CompleteActivation, Issued, Deps, Roots, ObjectsOf, Root, Part
<1>2. OnlyIssued'
  BY <1>1 DEF XInv, OnlyIssued
<1> QED BY <1>1, <1>2 DEF XInv

LEMMA ImportXInv ==
    ASSUME XInv, NEW r \in Replica, NEW o \in Object, Import(r, o)
    PROVE  XInv'
<1> USE DEF XInv
<1>d. /\ Issued' = Issued /\ \A x : Deps(x)' = Deps(x)
      /\ body' = body /\ local' = local
      /\ published' = published /\ publishing' = publishing
  BY DEF Import, Issued, Deps
<1>0. /\ folder' = folder
      /\ \A q \in Replica :
            events'[q] = IF q = r THEN events[q] \union {o} ELSE events[q]
      /\ o[1] \in Issued
  BY DEF Import, TypeOK, OnlyIssued
<1>1. TypeOK'
  BY DEF Import, TypeOK
<1>2. AuthorKeeps'
  BY <1>0, <1>d DEF AuthorKeeps, ObjectsOf, Root, Part
<1>3. OnlyIssued'
  <2>1. \A q \in Replica, p \in Object :
            inbox'[q][p] # "none" => inbox[q][p] # "none"
    BY DEF Import, TypeOK
  <2> SUFFICES ASSUME NEW q \in Replica, NEW p \in Object,
                      p \in events'[q] \/ inbox'[q][p] # "none" \/ folder'[q][p] # "absent"
               PROVE  p[1] \in Issued
    BY <1>d DEF OnlyIssued
  <2>2. CASE p \in events'[q]
    <3>1. p \in events[q] \/ p = o
      BY <2>2, <1>0
    <3> QED BY <3>1, <1>0, <1>d DEF OnlyIssued
  <2>3. CASE inbox'[q][p] # "none"
    BY <2>3, <2>1, <1>d DEF OnlyIssued
  <2>4. CASE folder'[q][p] # "absent"
    BY <2>4, <1>0, <1>d DEF OnlyIssued
  <2> QED BY <2>2, <2>3, <2>4
<1>4. CompleteActivation'
  <2> SUFFICES ASSUME NEW q \in Replica, NEW x \in Roots(q)'
               PROVE  /\ ObjectsOf(x) \subseteq events'[q]
                      /\ Root(Genesis) \in events'[q]
                      /\ Deps(x) \subseteq Roots(q)'
    BY <1>d DEF CompleteActivation, ObjectsOf, Root, Part
  <2>0. events[q] \subseteq events'[q] /\ Roots(q) \subseteq Roots(q)'
    BY <1>0 DEF Roots
  <2>1. CASE x \in Roots(q)
    BY <2>0, <2>1 DEF CompleteActivation
  <2>2. CASE x \notin Roots(q)
    <3>0. x \in Digest /\ Root(x) \in events'[q] /\ Root(x) \notin events[q]
      BY <2>2 DEF Roots
    <3>1. q = r /\ o = Root(x) /\ o \notin events[r] /\ x \in Digest
      BY <3>0, <1>0
    <3>2. o[1] = x /\ o[2] # "part"
      BY <3>1, ObjectShape, ObjectsOfShape
    <3>3. /\ ObjectsOf(x) \ {o} \subseteq events[r]
          /\ x = Genesis \/ Root(Genesis) \in events[r]
          /\ \A d \in Deps(x) : Root(d) \in events[r]
      BY <3>1, <3>2 DEF Import, Ready
    <3>4. Deps(x) \subseteq Digest
      BY <1>0, <3>2 DEF Deps, TypeOK, Issued
    <3>5. Deps(x) \subseteq Roots(r)
      BY <3>3, <3>4 DEF Roots
    <3>6. x = Genesis => Root(Genesis) \in events'[q]
      BY <3>1, <1>0
    <3> QED BY <2>0, <3>1, <3>3, <3>5, <3>6, <1>0
  <2> QED BY <2>1, <2>2
<1> QED BY <1>1, <1>2, <1>3, <1>4

\* Only objects of issued events are published, repaired, scanned or delivered.
LEMMA PublishXInv ==
    ASSUME XInv, NEW r \in Replica, NEW o \in Object, Publish(r, o)
    PROVE  XInv'
<1>1. UNCHANGED <<body, events, local, inbox>> /\ TypeOK
  BY DEF Publish, storeVars, XInv
<1>2. folder' = [folder EXCEPT ![r][o] = "complete"]
  BY DEF Publish, Link
<1>3. folder' \in [Replica -> [Object -> {"absent", "partial", "complete"}]]
      /\ \A q \in Replica, p \in Object :
            folder'[q][p] = IF q = r /\ p = o THEN "complete" ELSE folder[q][p]
  BY <1>1, <1>2 DEF TypeOK
<1>4. TypeOK'
  BY <1>1, <1>3 DEF Publish, TypeOK
<1>5. o[1] \in Issued
  BY DEF Publish, XInv, AuthorKeeps, OnlyIssued
<1>6. \A q \in Replica, p \in Object :
        (inbox'[q][p] # "none" \/ folder'[q][p] # "absent") => p[1] \in Issued
  BY <1>1, <1>3, <1>5 DEF XInv, OnlyIssued
<1>7. \A q \in Replica : /\ published'[q] \subseteq local[q]
                         /\ publishing'[q] \in local[q] \union {None}
  BY <1>1 DEF Publish, XInv, AuthorKeeps, TypeOK
<1> QED BY <1>1, <1>4, <1>6, <1>7, FolderStepXInv

LEMMA RepairXInv ==
    ASSUME XInv, NEW r \in Replica, NEW o \in Object, Repair(r, o)
    PROVE  XInv'
<1>1. UNCHANGED <<body, events, local, inbox>> /\ TypeOK
  BY DEF Repair, storeVars, XInv
<1>2. folder' = [folder EXCEPT ![r][o] = "complete"]
  BY DEF Repair, Link
<1>3. folder' \in [Replica -> [Object -> {"absent", "partial", "complete"}]]
      /\ \A q \in Replica, p \in Object :
            folder'[q][p] = IF q = r /\ p = o THEN "complete" ELSE folder[q][p]
  BY <1>1, <1>2 DEF TypeOK
<1>4. TypeOK'
  BY <1>1, <1>3 DEF Repair, TypeOK
<1>5. o[1] \in Issued
  BY DEF Repair, XInv, AuthorKeeps, OnlyIssued
<1>6. \A q \in Replica, p \in Object :
        (inbox'[q][p] # "none" \/ folder'[q][p] # "absent") => p[1] \in Issued
  BY <1>1, <1>3, <1>5 DEF XInv, OnlyIssued
<1>7. \A q \in Replica : /\ published'[q] \subseteq local[q]
                         /\ publishing'[q] \in local[q] \union {None}
  BY <1>1 DEF Repair, XInv, AuthorKeeps, TypeOK
<1> QED BY <1>1, <1>4, <1>6, <1>7, FolderStepXInv

LEMMA LoseXInv ==
    ASSUME XInv, NEW r \in Replica, NEW o \in Object, Lose(r, o)
    PROVE  XInv'
<1>1. UNCHANGED <<body, events, local, inbox>> /\ TypeOK
  BY DEF Lose, storeVars, XInv
<1>2. folder' = [folder EXCEPT ![r][o] = "absent"]
  BY DEF Lose
<1>3. folder' \in [Replica -> [Object -> {"absent", "partial", "complete"}]]
      /\ \A q \in Replica, p \in Object :
            folder'[q][p] = IF q = r /\ p = o THEN "absent" ELSE folder[q][p]
  BY <1>1, <1>2 DEF TypeOK
<1>4. TypeOK'
  BY <1>1, <1>3 DEF Lose, TypeOK
<1>5. o[1] \in Issued
  BY DEF Lose, XInv, OnlyIssued
<1>6. \A q \in Replica, p \in Object :
        (inbox'[q][p] # "none" \/ folder'[q][p] # "absent") => p[1] \in Issued
  BY <1>1, <1>3, <1>5 DEF XInv, OnlyIssued
<1>7. \A q \in Replica : /\ published'[q] \subseteq local[q]
                         /\ publishing'[q] \in local[q] \union {None}
  BY <1>1 DEF Lose, XInv, AuthorKeeps, TypeOK
<1> QED BY <1>1, <1>4, <1>6, <1>7, FolderStepXInv

LEMMA DeliverXInv ==
    ASSUME XInv, NEW r \in Replica, NEW o \in Object, NEW s \in Replica, Deliver(s, r, o)
    PROVE  XInv'
<1>1. UNCHANGED <<body, events, local, inbox>> /\ TypeOK
  BY DEF Deliver, storeVars, XInv
<1>2. folder' = [folder EXCEPT ![r][o] = "complete"]
  BY DEF Deliver
<1>3. folder' \in [Replica -> [Object -> {"absent", "partial", "complete"}]]
      /\ \A q \in Replica, p \in Object :
            folder'[q][p] = IF q = r /\ p = o THEN "complete" ELSE folder[q][p]
  BY <1>1, <1>2 DEF TypeOK
<1>4. TypeOK'
  BY <1>1, <1>3 DEF Deliver, TypeOK
<1>5. o[1] \in Issued
  BY DEF Deliver, XInv, OnlyIssued
<1>6. \A q \in Replica, p \in Object :
        (inbox'[q][p] # "none" \/ folder'[q][p] # "absent") => p[1] \in Issued
  BY <1>1, <1>3, <1>5 DEF XInv, OnlyIssued
<1>7. \A q \in Replica : /\ published'[q] \subseteq local[q]
                         /\ publishing'[q] \in local[q] \union {None}
  BY <1>1 DEF Deliver, XInv, AuthorKeeps, TypeOK
<1> QED BY <1>1, <1>4, <1>6, <1>7, FolderStepXInv

LEMMA DeliverPartXInv ==
    ASSUME XInv, NEW r \in Replica, NEW o \in Object, NEW s \in Replica, DeliverPart(s, r, o)
    PROVE  XInv'
<1>1. UNCHANGED <<body, events, local, inbox>> /\ TypeOK
  BY DEF DeliverPart, storeVars, XInv
<1>2. folder' = [folder EXCEPT ![r][o] = "partial"]
  BY DEF DeliverPart
<1>3. folder' \in [Replica -> [Object -> {"absent", "partial", "complete"}]]
      /\ \A q \in Replica, p \in Object :
            folder'[q][p] = IF q = r /\ p = o THEN "partial" ELSE folder[q][p]
  BY <1>1, <1>2 DEF TypeOK
<1>4. TypeOK'
  BY <1>1, <1>3 DEF DeliverPart, TypeOK
<1>5. o[1] \in Issued
  BY DEF DeliverPart, XInv, OnlyIssued
<1>6. \A q \in Replica, p \in Object :
        (inbox'[q][p] # "none" \/ folder'[q][p] # "absent") => p[1] \in Issued
  BY <1>1, <1>3, <1>5 DEF XInv, OnlyIssued
<1>7. \A q \in Replica : /\ published'[q] \subseteq local[q]
                         /\ publishing'[q] \in local[q] \union {None}
  BY <1>1 DEF DeliverPart, XInv, AuthorKeeps, TypeOK
<1> QED BY <1>1, <1>4, <1>6, <1>7, FolderStepXInv

LEMMA ScanXInv ==
    ASSUME XInv, NEW r \in Replica, NEW o \in Object, Scan(r, o)
    PROVE  XInv'
<1>1. UNCHANGED <<body, events, local, folder>> /\ TypeOK
  BY DEF Scan, storeVars, XInv
<1>4. TypeOK'
  BY <1>1 DEF Scan, TypeOK, storeVars
<1>6. \A q \in Replica, p \in Object :
        (inbox'[q][p] # "none" \/ folder'[q][p] # "absent") => p[1] \in Issued
  BY <1>1 DEF Scan, storeVars, XInv, OnlyIssued, TypeOK
<1>7. \A q \in Replica : /\ published'[q] \subseteq local[q]
                         /\ publishing'[q] \in local[q] \union {None}
  BY <1>1 DEF Scan, storeVars, XInv, AuthorKeeps, TypeOK
<1> QED BY <1>1, <1>4, <1>6, <1>7, FolderStepXInv

LEMMA ReceiptXInv ==
    ASSUME XInv, NEW r \in Replica, Receipt(r)
    PROVE  XInv'
<1>1. UNCHANGED <<body, events, local, folder>> /\ TypeOK
  BY DEF Receipt, storeVars, XInv
<1>4. TypeOK'
  BY <1>1 DEF Receipt, TypeOK, storeVars, XInv, AuthorKeeps
<1>6. \A q \in Replica, p \in Object :
        (inbox'[q][p] # "none" \/ folder'[q][p] # "absent") => p[1] \in Issued
  BY <1>1 DEF Receipt, storeVars, XInv, OnlyIssued, TypeOK
<1>7. \A q \in Replica : /\ published'[q] \subseteq local[q]
                         /\ publishing'[q] \in local[q] \union {None}
  BY <1>1 DEF Receipt, storeVars, XInv, AuthorKeeps, TypeOK
<1> QED BY <1>1, <1>4, <1>6, <1>7, FolderStepXInv

LEMMA CrashXInv ==
    ASSUME XInv, NEW r \in Replica, Crash(r)
    PROVE  XInv'
<1>1. UNCHANGED <<body, events, local, folder>> /\ TypeOK
  BY DEF Crash, storeVars, XInv
<1>4. TypeOK'
  BY <1>1 DEF Crash, TypeOK, storeVars
<1>6. \A q \in Replica, p \in Object :
        (inbox'[q][p] # "none" \/ folder'[q][p] # "absent") => p[1] \in Issued
  BY <1>1 DEF Crash, storeVars, XInv, OnlyIssued, TypeOK
<1>7. \A q \in Replica : /\ published'[q] \subseteq local[q]
                         /\ publishing'[q] \in local[q] \union {None}
  BY <1>1 DEF Crash, storeVars, XInv, AuthorKeeps, TypeOK
<1> QED BY <1>1, <1>4, <1>6, <1>7, FolderStepXInv

LEMMA NextXInv == XInv /\ [Next]_vars => XInv'
<1> SUFFICES ASSUME XInv, [Next]_vars PROVE XInv'
  OBVIOUS
<1>1. CASE UNCHANGED vars
  BY <1>1 DEF vars, XInv, TypeOK, AuthorKeeps, OnlyIssued, CompleteActivation, Issued, Deps,
              Roots, ObjectsOf, Root, Part
<1>2. CASE Next
  <2>1. PICK r \in Replica :
          \/ \E op \in Operation, e \in Digest, deps \in SUBSET Digest : Save(r, op, e, deps)
          \/ Receipt(r)
          \/ Crash(r)
          \/ \E o \in Object :
                \/ Scan(r, o) \/ Import(r, o) \/ Publish(r, o) \/ Repair(r, o) \/ Lose(r, o)
                \/ \E s \in Replica \ {r} : Deliver(s, r, o) \/ DeliverPart(s, r, o)
    BY <1>2 DEF Next
  <2>2. CASE \E op \in Operation, e \in Digest, deps \in SUBSET Digest : Save(r, op, e, deps)
    BY <2>2, SaveXInv
  <2>3. CASE Receipt(r) \/ Crash(r)
    BY <2>3, ReceiptXInv, CrashXInv
  <2>4. CASE \E o \in Object :
                \/ Scan(r, o) \/ Import(r, o) \/ Publish(r, o) \/ Repair(r, o) \/ Lose(r, o)
                \/ \E s \in Replica \ {r} : Deliver(s, r, o) \/ DeliverPart(s, r, o)
    BY <2>4, ScanXInv, ImportXInv, PublishXInv, RepairXInv, LoseXInv, DeliverXInv,
       DeliverPartXInv
  <2> QED BY <2>1, <2>2, <2>3, <2>4
<1> QED BY <1>1, <1>2

-----------------------------------------------------------------------------
(* Receipts                                                                *)

\* While the provider keeps every copy, a receipt and the gap before it have a file.
FileHeld ==
    faults = 0 => \A r \in Replica :
        /\ \A o \in published[r] : folder[r][o] = "complete"
        /\ publishing[r] # None => folder[r][publishing[r]] = "complete"

LEMMA InitFileHeld == Init => FileHeld
  BY DEF Init, FileHeld

\* As long as no copy is lost, a complete copy stays complete.
LEMMA CopiesStay ==
    ASSUME TypeOK, [Next]_vars, faults' = 0, NEW r \in Replica, NEW o \in Object,
           folder[r][o] = "complete"
    PROVE  faults = 0 /\ folder'[r][o] = "complete"
<1>0. /\ \A q \in Replica, p \in Object : ~Lose(q, p)
      /\ \A q, s \in Replica, p \in Object : ~DeliverPart(s, q, p)
  BY DEF TypeOK, Lose, DeliverPart
<1>1. CASE UNCHANGED vars
  BY <1>1 DEF vars
<1>2. CASE \E q \in Replica :
          \/ \E op \in Operation, e \in Digest, deps \in SUBSET Digest : Save(q, op, e, deps)
          \/ Receipt(q) \/ Crash(q)
          \/ \E p \in Object : Scan(q, p) \/ Import(q, p)
  BY <1>2 DEF Save, Receipt, Crash, Scan, Import
<1>3. CASE \E q \in Replica, p \in Object :
          \/ Publish(q, p) \/ Repair(q, p) \/ \E s \in Replica : Deliver(s, q, p)
  <2>1. PICK q \in Replica, p \in Object :
            faults' = faults /\ folder' = [folder EXCEPT ![q][p] = "complete"]
    BY <1>3 DEF Publish, Repair, Link, Deliver
  <2> QED BY <2>1 DEF TypeOK
<1> QED BY <1>0, <1>1, <1>2, <1>3 DEF Next

\* A fault is counted, and only the outbox changes receipts and publications.
LEMMA OutboxStep ==
    ASSUME [Next]_vars
    PROVE  /\ faults' = faults \/ faults' = faults + 1
           /\ \/ \E q \in Replica, o \in Object : Publish(q, o)
              \/ \E q \in Replica : Receipt(q)
              \/ \E q \in Replica : Crash(q)
              \/ UNCHANGED <<published, publishing>>
<1> DEFINE Counted == faults' = faults \/ faults' = faults + 1
           Kept == UNCHANGED <<published, publishing>>
<1>1. ASSUME NEW q \in Replica, NEW op \in Operation, NEW e \in Digest,
             NEW deps \in SUBSET Digest, Save(q, op, e, deps)
      PROVE  Counted /\ Kept
  BY <1>1 DEF Save
<1>2. \A q \in Replica : Receipt(q) \/ Crash(q) => Counted
  BY DEF Receipt, Crash
<1>3. ASSUME NEW q \in Replica, NEW o \in Object, Scan(q, o) \/ Import(q, o) \/ Repair(q, o)
      PROVE  Counted /\ Kept
  BY <1>3 DEF Scan, Import, Repair
<1>4. ASSUME NEW q \in Replica, NEW o \in Object, Lose(q, o)
      PROVE  Counted /\ Kept
  BY <1>4 DEF Lose
<1>5. ASSUME NEW q \in Replica, NEW o \in Object, Publish(q, o)
      PROVE  Counted
  BY <1>5 DEF Publish
<1>6. ASSUME NEW q \in Replica, NEW s \in Replica, NEW o \in Object,
             Deliver(s, q, o) \/ DeliverPart(s, q, o)
      PROVE  Counted /\ Kept
  BY <1>6 DEF Deliver, DeliverPart
<1>7. ASSUME UNCHANGED vars
      PROVE  Counted /\ Kept
  BY <1>7 DEF vars
<1> HIDE DEF Counted, Kept
<1>8. CASE Next
  <2>1. Counted
    BY <1>8, <1>1, <1>2, <1>3, <1>4, <1>5, <1>6 DEF Next
  <2>2. \/ \E q \in Replica, o \in Object : Publish(q, o)
        \/ \E q \in Replica : Receipt(q)
        \/ \E q \in Replica : Crash(q)
        \/ Kept
    BY <1>8, <1>1, <1>3, <1>4, <1>6 DEF Next
  <2> QED BY <2>1, <2>2 DEF Counted, Kept
<1> QED BY <1>7, <1>8 DEF Counted, Kept

LEMMA NextFileHeld ==
    ASSUME XInv, FileHeld, [Next]_vars
    PROVE  FileHeld'
<1> SUFFICES ASSUME faults' = 0, NEW r \in Replica
             PROVE  /\ \A o \in published'[r] : folder'[r][o] = "complete"
                    /\ publishing'[r] # None => folder'[r][publishing'[r]] = "complete"
  BY DEF FileHeld
<1>t. TypeOK /\ TypeOK'
  BY NextXInv DEF XInv
<1>0. faults = 0
  <2> QED BY OutboxStep, <1>t DEF TypeOK
<1>s. \A o \in Object : folder[r][o] = "complete" => folder'[r][o] = "complete"
  BY <1>t, CopiesStay
<1>1. CASE \E o \in Object : Publish(r, o)
  <2>1. PICK o \in Object : Publish(r, o)
    BY <1>1
  <2>2. publishing'[r] = o /\ published' = published /\ folder'[r][o] = "complete"
    BY <2>1, <1>t DEF Publish, Link, TypeOK
  <2>3. \A p \in published[r] : p \in Object /\ folder[r][p] = "complete"
    BY <1>0, <1>t DEF FileHeld, TypeOK
  <2> QED BY <2>2, <2>3, <1>s
<1>2. CASE Receipt(r)
  <2>1. /\ publishing'[r] = None
        /\ published'[r] = published[r] \union {publishing[r]}
        /\ publishing[r] \in Object
    BY <1>2, <1>t DEF Receipt, TypeOK
  <2>2. \A o \in published'[r] : folder[r][o] = "complete"
    BY <2>1, <1>0, <1>2 DEF FileHeld, Receipt
  <2> QED BY <2>1, <2>2, <1>s, <1>t DEF TypeOK
<1>3. CASE published'[r] = published[r] /\ publishing'[r] \in {None, publishing[r]}
  BY <1>3, <1>0, <1>s, <1>t DEF FileHeld, TypeOK
<1>4. \/ \E o \in Object : Publish(r, o)
      \/ Receipt(r)
      \/ published'[r] = published[r] /\ publishing'[r] \in {None, publishing[r]}
  <2>1. CASE \E q \in Replica, o \in Object : Publish(q, o)
    <3>1. PICK q \in Replica, o \in Object : Publish(q, o)
      BY <2>1
    <3>2. published' = published /\ publishing' = [publishing EXCEPT ![q] = o]
      BY <3>1 DEF Publish
    <3>3. q # r => publishing'[r] = publishing[r]
      BY <3>2, <1>t DEF TypeOK
    <3> QED BY <3>1, <3>2, <3>3
  <2>2. CASE \E q \in Replica : Receipt(q)
    BY <2>2, <1>t DEF Receipt, TypeOK
  <2>3. CASE \E q \in Replica : Crash(q)
    BY <2>3, <1>t DEF Crash, TypeOK
  <2>4. CASE UNCHANGED <<published, publishing>>
    BY <2>4
  <2> QED BY <2>1, <2>2, <2>3, <2>4, OutboxStep
<1> QED BY <1>1, <1>2, <1>3, <1>4

-----------------------------------------------------------------------------
(* Refinement                                                              *)

LEMMA InitRefines == Init => Causal!Init
<1> SUFFICES ASSUME Init PROVE Causal!Init
  OBVIOUS
<1>1. \A r \in Replica : Roots(r) = IF r \in Opened THEN {Genesis} ELSE {}
  BY ExchangeAssumption, ObjectsOfShape DEF Init, Roots
<1> QED BY <1>1 DEF Init, Causal!Init

\* A step that keeps the content and every set of roots is a stutter above.
LEMMA SameRoots ==
    ASSUME body' = body, \A q \in Replica : Roots(q)' = Roots(q)
    PROVE  UNCHANGED Causal!vars
  BY DEF Causal!vars

LEMMA SaveRefines ==
    ASSUME XInv, NEW r \in Replica, NEW op \in Operation, NEW e \in Digest,
           NEW deps \in SUBSET Digest, Save(r, op, e, deps)
    PROVE  Causal!Save(r, op, e, deps)
<1>1. \A q \in Replica :
        Roots(q)' = IF q = r THEN Roots(q) \union {e} ELSE Roots(q)
  <2>1. \A q \in Replica :
          events'[q] = IF q = r THEN events[q] \union ObjectsOf(e) ELSE events[q]
    BY DEF Save, XInv, TypeOK
  <2>2. \A x : Root(x) \in ObjectsOf(e) <=> x = e
    BY ObjectsOfShape
  <2> QED BY <2>1, <2>2 DEF Roots
<1>2. Genesis \in Roots(r)
  BY ExchangeAssumption DEF Save, Roots
<1>3. ~Causal!HasReceipt(r, op)
  <2>1. \A x \in DOMAIN body : Root(x) \in events[body[x].replica]
    BY ObjectsOfShape DEF XInv, TypeOK, AuthorKeeps
  <2> QED BY <2>1 DEF Save, HasReceipt, Causal!HasReceipt
<1>4. e \in Digest \ Causal!Issued
  BY DEF Save, Issued, Causal!Issued
<1>5. deps \in (SUBSET Roots(r)) \ {{}}
  BY DEF Save
<1>6. body' = [x \in DOMAIN body \union {e} |->
                    IF x = e THEN [replica |-> r, operation |-> op, deps |-> deps]
                             ELSE body[x]]
  BY DEF Save
<1>7. [q \in Replica |-> Roots(q)]' =
        [[q \in Replica |-> Roots(q)] EXCEPT ![r] = @ \union {e}]
  BY <1>1
<1> QED BY <1>2, <1>3, <1>4, <1>5, <1>6, <1>7 DEF Causal!Save

LEMMA ImportRefines ==
    ASSUME XInv, NEW r \in Replica, NEW o \in Object, Import(r, o)
    PROVE  (\E e \in Digest : Causal!Accept(r, e)) \/ UNCHANGED Causal!vars
<1>0. /\ body' = body
      /\ \A q \in Replica :
            events'[q] = IF q = r THEN events[q] \union {o} ELSE events[q]
      /\ o[1] \in Issued
  BY DEF Import, XInv, TypeOK, OnlyIssued
<1>1. CASE o \in events[r] \/ o[2] = "part"
  <2>1. \A q \in Replica : Roots(q)' = Roots(q)
    BY <1>0, <1>1, ObjectShape DEF Roots
  <2> QED BY <1>0, <2>1, SameRoots
<1>2. CASE o \notin events[r] /\ o[2] # "part"
  <2> DEFINE e == o[1]
  <2>1. o = Root(e) /\ e \in Digest
    BY <1>2, ObjectShape
  <2>2. \A q \in Replica :
          Roots(q)' = IF q = r THEN Roots(q) \union {e} ELSE Roots(q)
    <3>1. \A f \in Digest : Root(f) = o <=> f = e
      BY <2>1 DEF Root
    <3> QED BY <1>0, <2>1, <3>1 DEF Roots
  <2>3. e \in Causal!Issued \ Roots(r)
    BY <1>0, <1>2, <2>1 DEF Issued, Causal!Issued, Roots
  <2>4. e = Genesis \/ Genesis \in Roots(r)
    BY <1>2, ExchangeAssumption DEF Import, Ready, Roots
  <2>5. Causal!Deps(e) \subseteq Roots(r)
    <3>1. Deps(e) \subseteq Digest
      BY <1>0 DEF Deps, XInv, TypeOK, Issued
    <3>2. \A d \in Deps(e) : Root(d) \in events[r]
      BY <1>2 DEF Import, Ready
    <3> QED BY <3>1, <3>2 DEF Roots, Deps, Causal!Deps
  <2>6. [q \in Replica |-> Roots(q)]' =
          [[q \in Replica |-> Roots(q)] EXCEPT ![r] = @ \union {e}]
    BY <2>2
  <2>7. Causal!Accept(r, e)
    BY <1>0, <2>3, <2>4, <2>5, <2>6 DEF Causal!Accept
  <2> QED BY <2>1, <2>7
<1> QED BY <1>1, <1>2

LEMMA NextRefines == XInv /\ [Next]_vars => [Causal!Next]_(Causal!vars)
<1> SUFFICES ASSUME XInv, [Next]_vars PROVE [Causal!Next]_(Causal!vars)
  OBVIOUS
<1>1. CASE UNCHANGED <<body, events>>
  <2>1. \A q \in Replica : Roots(q)' = Roots(q)
    BY <1>1 DEF Roots
  <2> QED BY <1>1, <2>1, SameRoots
<1>2. CASE \E r \in Replica, op \in Operation, e \in Digest, deps \in SUBSET Digest :
              Save(r, op, e, deps)
  BY <1>2, SaveRefines DEF Causal!Next
<1>3. CASE \E r \in Replica, o \in Object : Import(r, o)
  BY <1>3, ImportRefines DEF Causal!Next
<1>4. \/ UNCHANGED <<body, events>>
      \/ \E r \in Replica, op \in Operation, e \in Digest, deps \in SUBSET Digest :
              Save(r, op, e, deps)
      \/ \E r \in Replica, o \in Object : Import(r, o)
  BY DEF Next, vars, storeVars, Receipt, Crash, Scan, Publish, Repair, Lose, Deliver,
         DeliverPart
<1> QED BY <1>1, <1>2, <1>3, <1>4

-----------------------------------------------------------------------------
(***************************************************************************)
(* The inductive invariants hold in every state.                           *)
(***************************************************************************)
THEOREM SpecXInv == Spec => [](XInv /\ FileHeld)
<1>1. Init => XInv /\ FileHeld
  BY InitXInv, InitFileHeld
<1>2. XInv /\ FileHeld /\ [Next]_vars => XInv' /\ FileHeld'
  BY NextXInv, NextFileHeld
<1> QED BY <1>1, <1>2, PTL DEF Spec

(***************************************************************************)
(* No replica takes an event before everything it names is complete        *)
(* (storage.py accept), for any number of replicas, events and faults.     *)
(***************************************************************************)
THEOREM ExchangeSafety == Spec => [](TypeOK /\ CompleteActivation)
<1>1. XInv => TypeOK /\ CompleteActivation
  BY DEF XInv
<1> QED BY <1>1, SpecXInv, PTL

(***************************************************************************)
(* Authors keep what anybody holds, and receipts stand behind files        *)
(* (store.py save_in, transport.py tick), for any number of faults.        *)
(***************************************************************************)
THEOREM AuthorsKeepWork == Spec => []AuthoredWorkKept
<1>1. XInv => AuthorDurable
  BY DEF XInv, AuthorKeeps, AuthorDurable
<1>2. FileHeld => ReceiptAfterFile
  BY DEF FileHeld, ReceiptAfterFile
<1>3. XInv /\ FileHeld => AuthoredWorkKept
  BY <1>1, <1>2 DEF AuthoredWorkKept
<1> QED BY <1>3, SpecXInv, PTL

(***************************************************************************)
(* Exchange through the folder implements the abstract causal history: a   *)
(* scan, a publication, a crash and every provider step are stutters, an   *)
(* import of a root is one Accept.                                         *)
(***************************************************************************)
THEOREM ExchangeRefinesHistory == Spec => ImplementsCausalHistory
  BY InitRefines, NextRefines, SpecXInv, PTL DEF Spec, Causal!Spec, ImplementsCausalHistory
=============================================================================
