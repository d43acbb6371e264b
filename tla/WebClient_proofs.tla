--------------------------- MODULE WebClient_proofs ---------------------------
(***************************************************************************)
(* The parts of the web client for any number of servers, sources, media,  *)
(* pages, edits and requests: the server on show is the one that is asked, *)
(* stream sessions are in hand, the player does what was last asked, a     *)
(* grouping draft is applied as it was shown, an edit comes to one end and *)
(* replaces nothing its owner was not shown, and no dismissed draft comes  *)
(* back, no two tabs write one draft and the newest typing survives, with  *)
(* requests that are sent again, overtaken or lost.                        *)
(***************************************************************************)
EXTENDS Connections, HlsSession, Player, GroupingReview, MetadataEdits, PrivateDrafts,
        FiniteSetTheorems, WellFoundedInduction, TLAPS
-----------------------------------------------------------------------------
(* The player                                                              *)

(***************************************************************************)
(* The attempt that may take the intent back is one of the viewer's last   *)
(* command (the engine and command counters of usePlayer).                 *)
(***************************************************************************)
PlayAttempt == [fresh : BOOLEAN, own : BOOLEAN]
LatestIsOwn == \A a \in attempts : a.fresh => a.own

(***************************************************************************)
(* Where a transport that is not ready will begin is where the viewer is,  *)
(* unless it was given a place that is not the viewer's; the decision the  *)
(* medium opened with takes the place it opened at (carried seek, startAt, *)
(* resume).                                                                *)
(***************************************************************************)
BeginsWhereViewerIs ==
    /\ queued # NoPlace => queued = place
    /\ opening /\ due # Undecided =>
           /\ ~attached /\ due \in {NoPlace, resume}
           /\ queued = NoPlace => resume = place
    /\ attached /\ ~ready /\ ~adrift /\ queued = NoPlace => Beginning = place

PlayerTypes ==
    /\ startAt \in Waiting /\ captured \in Waiting /\ due \in Waiting \union {Playhead, Undecided}
    /\ resume \in Place /\ position \in Place
    /\ open \in BOOLEAN /\ attached \in BOOLEAN /\ answered \in BOOLEAN /\ opening \in BOOLEAN
    /\ ready \in BOOLEAN /\ running \in BOOLEAN /\ intent \in BOOLEAN
    /\ wanted \in BOOLEAN /\ refused \in BOOLEAN /\ adrift \in BOOLEAN
    /\ attempts \subseteq PlayAttempt
    /\ queued \in Waiting /\ pending \in Waiting /\ asked \in Waiting /\ place \in Place
    /\ ready => attached /\ queued = NoPlace
    /\ attached \/ due # Undecided => open

PlayerInv ==
    /\ PlayerTypes /\ LatestIsOwn /\ IntentIsLastCommand
    /\ SeeksLand /\ BeginsWhereViewerIs

LEMMA PlayerFacts ==
    /\ Place \subseteq Nat /\ 0 \in Place
    /\ NoPlace \notin Place /\ Playhead \notin Place /\ Undecided \notin Place
    /\ NoPlace # Playhead /\ Undecided \notin {NoPlace, Playhead}
BY PlayerAssumption

(***************************************************************************)
(* Attempts that are overtaken or disowned are never the latest.           *)
(***************************************************************************)
LEMMA NoneLatest ==
    ASSUME attempts \subseteq PlayAttempt
    PROVE  /\ Overtaken \subseteq PlayAttempt /\ \A a \in Overtaken : a.fresh = FALSE
           /\ Disowned \subseteq PlayAttempt /\ \A a \in Disowned : a.fresh = FALSE
<1>1. \A a \in attempts : LET b == [a EXCEPT !.fresh = FALSE] IN b \in PlayAttempt /\ b.fresh = FALSE
    BY DEF PlayAttempt
<1>2. LET b == [fresh |-> FALSE, own |-> FALSE] IN b \in PlayAttempt /\ b.fresh = FALSE
    BY DEF PlayAttempt
<1>3. \A b \in Overtaken : \E a \in attempts : b = [a EXCEPT !.fresh = FALSE]
    BY DEF Overtaken
<1>4. \A b \in Disowned : b = [fresh |-> FALSE, own |-> FALSE]
    BY DEF Disowned
<1> QED
    BY <1>1, <1>2, <1>3, <1>4

LEMMA LatestAdded ==
    ASSUME NEW A \in SUBSET PlayAttempt, \A a \in A : a.fresh = FALSE,
           NEW B, B = A \union {[fresh |-> TRUE, own |-> TRUE]}
    PROVE  B \subseteq PlayAttempt /\ \A a \in B : a.fresh => a.own
<1> DEFINE b == [fresh |-> TRUE, own |-> TRUE]
<1>1. b \in PlayAttempt /\ b.own = TRUE
    BY DEF PlayAttempt
<1> HIDE DEF b
<1> QED
    BY <1>1 DEF b

LEMMA PlayerInitInv == PlayerInit => PlayerInv
<1> SUFFICES ASSUME PlayerInit
             PROVE  PlayerInv
    OBVIOUS
<1>1. PlayerTypes
  <2>1. attempts \subseteq PlayAttempt
      BY DEF PlayerInit
  <2> QED
      BY <2>1, PlayerFacts DEF PlayerInit, PlayerTypes, Waiting
<1>2. LatestIsOwn /\ IntentIsLastCommand /\ SeeksLand
    BY DEF PlayerInit, LatestIsOwn, IntentIsLastCommand, SeeksLand, SeeksWait, PlaceKept
<1>3. BeginsWhereViewerIs
    BY DEF PlayerInit, BeginsWhereViewerIs
<1> QED
    BY <1>1, <1>2, <1>3 DEF PlayerInv

(***************************************************************************)
(* What play, pause and the element do to attempts and intent.             *)
(***************************************************************************)
LEMMA AttemptsKeep ==
    ASSUME PlayerInv, NEW a \in attempts, PlaySettles(a) \/ PlayRefused(a) \/ PlayAborted(a)
    PROVE  PlayerInv'
<1>1. /\ attempts' \subseteq attempts /\ running' \in BOOLEAN
      /\ intent' \in BOOLEAN /\ refused' \in BOOLEAN
    BY DEF PlayerInv, PlayerTypes, PlaySettles, PlayRefused, PlayAborted, Counts, commandVars
<1>2. UNCHANGED <<sourceVars, ready, position, wanted, seekVars>>
    BY DEF PlaySettles, PlayRefused, PlayAborted, commandVars
<1>3. PlayerTypes' /\ LatestIsOwn'
    BY <1>1, <1>2 DEF PlayerInv, PlayerTypes, LatestIsOwn, sourceVars, decideVars, seekVars, Waiting
<1>4. IntentIsLastCommand'
  <2>1. CASE PlayRefused(a) /\ Counts(a)
    <3>1. a.own
        BY <2>1 DEF PlayerInv, LatestIsOwn, Counts
    <3> QED
        BY <2>1, <3>1 DEF IntentIsLastCommand, PlayRefused
  <2>2. CASE PlayRefused(a) /\ ~Counts(a)
    <3>1. intent' = intent
        BY <2>2 DEF PlayerInv, PlayerTypes, PlayRefused
    <3> QED
        BY <2>2, <3>1 DEF PlayerInv, IntentIsLastCommand, PlayRefused
  <2>3. CASE UNCHANGED commandVars
      BY <2>3 DEF PlayerInv, IntentIsLastCommand, commandVars
  <2> QED
      BY <2>1, <2>2, <2>3 DEF PlaySettles, PlayAborted
<1>5. SeeksLand' /\ BeginsWhereViewerIs'
    BY <1>2 DEF PlayerInv, SeeksLand, SeeksWait, PlaceKept, BeginsWhereViewerIs, Beginning,
       sourceVars, decideVars, seekVars
<1> QED
    BY <1>3, <1>4, <1>5 DEF PlayerInv

LEMMA CommandsKeep ==
    ASSUME PlayerInv, Play \/ Pause \/ Interfere \/ Comply \/ Ended
    PROVE  PlayerInv'
<1>1. UNCHANGED <<sourceVars, ready, position, seekVars>>
    BY DEF Play, Pause, Interfere, Comply, Ended
<1>2. attempts' \subseteq PlayAttempt /\ LatestIsOwn' /\ running' \in BOOLEAN
  <2>1. \/ attempts' = attempts \/ attempts' = Disowned
        \/ attempts' = Disowned \union {[fresh |-> TRUE, own |-> TRUE]}
        \/ attempts' = Overtaken \union {[fresh |-> TRUE, own |-> TRUE]}
      BY DEF Play, Pause, Interfere, Comply, Ended, RequestPlay
  <2>2. attempts' \subseteq PlayAttempt /\ LatestIsOwn'
      BY <2>1, NoneLatest, LatestAdded DEF PlayerInv, PlayerTypes, LatestIsOwn
  <2> QED
      BY <2>2 DEF PlayerInv, PlayerTypes, Play, Pause, Interfere, Comply, Ended, RequestPlay
<1>3. /\ intent' \in BOOLEAN /\ wanted' \in BOOLEAN /\ refused' \in BOOLEAN
      /\ IntentIsLastCommand'
    BY DEF PlayerInv, PlayerTypes, IntentIsLastCommand, Play, Pause, Interfere, Comply, Ended, commandVars
<1>4. PlayerTypes'
    BY <1>1, <1>2, <1>3 DEF PlayerInv, PlayerTypes, sourceVars, decideVars, seekVars, Waiting
<1>5. SeeksLand' /\ BeginsWhereViewerIs'
    BY <1>1 DEF PlayerInv, SeeksLand, SeeksWait, PlaceKept, BeginsWhereViewerIs, Beginning,
       sourceVars, decideVars, seekVars
<1> QED
    BY <1>2, <1>3, <1>4, <1>5 DEF PlayerInv

(***************************************************************************)
(* What seeks and time do to the viewer's place.                           *)
(***************************************************************************)
LEMMA SeeksKeep ==
    ASSUME PlayerInv,
           UNCHANGED <<sourceVars, ready, running, attempts, commandVars>>,
           \/ \E p \in Place : Commit(p)
           \/ \E p \in Place : pending' = p /\ asked' = p /\ UNCHANGED <<position, queued, place>>
    PROVE  PlayerInv'
<1>1. PlayerTypes' /\ SeeksLand' /\ BeginsWhereViewerIs'
    BY PlayerFacts DEF PlayerInv, PlayerTypes, SeeksLand, SeeksWait, PlaceKept, BeginsWhereViewerIs, Beginning,
       Commit, sourceVars, decideVars, commandVars, Waiting
<1>2. LatestIsOwn' /\ IntentIsLastCommand'
    BY DEF PlayerInv, LatestIsOwn, IntentIsLastCommand, commandVars
<1> QED
    BY <1>1, <1>2 DEF PlayerInv

LEMMA ViewerSeeksKeep ==
    ASSUME PlayerInv, (\E p \in Place : Seek(p)) \/ (\E back \in BOOLEAN : SeekBy(back)) \/ Trail
    PROVE  PlayerInv'
<1>1. CASE \E p \in Place : Seek(p)
    BY <1>1, SeeksKeep DEF Seek
<1>2. CASE \E back \in BOOLEAN : SeekBy(back)
    BY <1>2, SeeksKeep DEF SeekBy
<1>3. CASE Trail
    BY <1>3, SeeksKeep DEF Trail, PlayerInv, PlayerTypes, Waiting
<1> QED
    BY <1>1, <1>2, <1>3

LEMMA TicksKeep ==
    ASSUME PlayerInv, Ticks
    PROVE  PlayerInv'
BY PlayerFacts DEF PlayerInv, PlayerTypes, LatestIsOwn, IntentIsLastCommand, SeeksLand, SeeksWait, PlaceKept,
   BeginsWhereViewerIs, Beginning, Ticks, decideVars, commandVars, Waiting

LEMMA LoadedKeeps ==
    ASSUME PlayerInv, Loaded
    PROVE  PlayerInv'
BY PlayerFacts DEF PlayerInv, PlayerTypes, LatestIsOwn, IntentIsLastCommand, SeeksLand, SeeksWait, PlaceKept,
   BeginsWhereViewerIs, Beginning, Entry, Spent, Loaded, decideVars, commandVars, Waiting

(***************************************************************************)
(* What decisions, new media and new or lost transports do.                *)
(***************************************************************************)
LEMMA DecidedAnew ==
    ASSUME PlayerInv, (\E p \in {captured, position} : Decide(p)) \/ NoTransport
    PROVE  PlayerInv'
<1>1. /\ UNCHANGED <<open, attached, startAt, resume, adrift, ready, position, running, attempts>>
      /\ UNCHANGED <<commandVars, seekVars>>
    BY DEF Decide, NoTransport
<1>2. /\ captured' \in Waiting /\ due' \in Waiting \union {Playhead, Undecided}
      /\ answered' \in BOOLEAN /\ opening' \in BOOLEAN
      /\ open /\ (opening' => due' = Undecided)
    BY PlayerFacts DEF PlayerInv, PlayerTypes, Decide, NoTransport, DecisionEnds, Waiting
<1>3. PlayerTypes' /\ LatestIsOwn' /\ IntentIsLastCommand'
    BY <1>1, <1>2 DEF PlayerInv, PlayerTypes, LatestIsOwn, IntentIsLastCommand, commandVars, seekVars, Waiting
<1>4. SeeksLand' /\ BeginsWhereViewerIs'
    BY <1>1, <1>2 DEF PlayerInv, SeeksLand, SeeksWait, PlaceKept, BeginsWhereViewerIs, Beginning, seekVars
<1> QED
    BY <1>3, <1>4 DEF PlayerInv

LEMMA SourcesKeep ==
    ASSUME PlayerInv, Open \/ Attach \/ Detach
    PROVE  PlayerInv'
<1>1. attempts' \subseteq PlayAttempt /\ LatestIsOwn' /\ running' \in BOOLEAN
  <2>1. \/ attempts' = Disowned
        \/ attempts' = Disowned \union {[fresh |-> TRUE, own |-> TRUE]}
      BY DEF Open, Attach, Detach, RequestPlay
  <2>2. attempts' \subseteq PlayAttempt /\ LatestIsOwn'
      BY <2>1, NoneLatest, LatestAdded DEF PlayerInv, PlayerTypes, LatestIsOwn
  <2> QED
      BY <2>2 DEF Open, Attach, Detach, RequestPlay
<1>2. CASE Open
  <2>1. PlayerTypes'
      BY <1>1, <1>2, PlayerFacts DEF PlayerInv, PlayerTypes, Open, Reset, Waiting
  <2>2. IntentIsLastCommand' /\ SeeksLand' /\ BeginsWhereViewerIs'
      BY <1>2, PlayerFacts DEF IntentIsLastCommand, SeeksLand, SeeksWait, PlaceKept, BeginsWhereViewerIs,
         Open, Reset
  <2> QED
      BY <1>1, <2>1, <2>2 DEF PlayerInv
<1>3. CASE Attach
  <2>1. /\ startAt' \in Waiting /\ captured' \in Waiting /\ due' = Undecided /\ answered' \in BOOLEAN
        /\ attached' = TRUE /\ adrift' \in BOOLEAN /\ open
        /\ UNCHANGED <<open, opening, resume, place, queued>> /\ ready' = FALSE
      BY <1>3, PlayerFacts
      DEF PlayerInv, PlayerTypes, Attach, DecisionEnds, Emptied, Reset, Carried, Waiting
  <2>2. /\ position' = 0 /\ pending' = NoPlace /\ asked' = (IF pending = asked THEN NoPlace ELSE asked)
        /\ UNCHANGED commandVars
      BY <1>3 DEF Attach, Emptied, Reset
  <2>3. PlayerTypes'
      BY <1>1, <2>1, <2>2, PlayerFacts DEF PlayerInv, PlayerTypes, commandVars, Waiting
  <2>4. IntentIsLastCommand' /\ SeeksLand'
      BY <2>1, <2>2 DEF PlayerInv, IntentIsLastCommand, SeeksLand, SeeksWait, PlaceKept, commandVars
  <2>5. ASSUME ~adrift', queued' = NoPlace
        PROVE  Beginning' = place
    <3>1. ~adrift /\ ~Adrift /\ queued = NoPlace
        BY <1>3, <2>1, <2>5 DEF Attach
    <3>2. CASE ready
      <4>1. startAt' = position /\ position = place
          BY <1>3, <3>1, <3>2 DEF PlayerInv, SeeksLand, PlaceKept, Attach, Adrift
      <4> QED
          BY <4>1, PlayerFacts DEF PlayerInv, PlayerTypes, Beginning
    <3>3. CASE ~ready
      <4>1. startAt' \in {NoPlace, resume} /\ resume = place
          BY <1>3, <3>1, <3>3, PlayerFacts DEF PlayerInv, PlayerTypes, BeginsWhereViewerIs, Attach, Adrift
      <4> QED
          BY <4>1, <2>1 DEF Beginning
    <3> QED
        BY <3>2, <3>3
  <2>6. BeginsWhereViewerIs'
      BY <2>1, <2>5 DEF PlayerInv, BeginsWhereViewerIs
  <2> QED
      BY <1>1, <2>3, <2>4, <2>6 DEF PlayerInv
<1>4. CASE Detach
  <2>1. /\ startAt' = NoPlace /\ captured' \in Waiting /\ due' = Undecided /\ answered' \in BOOLEAN
        /\ attached' = FALSE /\ ready' = FALSE /\ position' = 0 /\ pending' = NoPlace
        /\ asked' = (IF pending = asked THEN NoPlace ELSE asked)
        /\ UNCHANGED <<open, opening, resume, adrift, commandVars, place, queued>>
      BY <1>4, PlayerFacts
      DEF PlayerInv, PlayerTypes, Detach, DecisionEnds, Emptied, Reset, Carried, Waiting
  <2>2. PlayerTypes'
      BY <1>1, <2>1, PlayerFacts DEF PlayerInv, PlayerTypes, commandVars, Waiting
  <2>3. IntentIsLastCommand' /\ SeeksLand' /\ BeginsWhereViewerIs'
      BY <2>1 DEF PlayerInv, IntentIsLastCommand, SeeksLand, SeeksWait, PlaceKept, BeginsWhereViewerIs,
         commandVars
  <2> QED
      BY <1>1, <2>2, <2>3 DEF PlayerInv
<1> QED
    BY <1>2, <1>3, <1>4

LEMMA PlayerNextInv == PlayerInv /\ [PlayerNext]_playerVars => PlayerInv'
<1> SUFFICES ASSUME PlayerInv, [PlayerNext]_playerVars
             PROVE  PlayerInv'
    OBVIOUS
<1>1. CASE UNCHANGED playerVars
    BY <1>1 DEF PlayerInv, PlayerTypes, LatestIsOwn, IntentIsLastCommand, SeeksLand, SeeksWait, PlaceKept,
       BeginsWhereViewerIs, Beginning, Waiting, playerVars, sourceVars, decideVars, commandVars, seekVars
<1> QED
    BY <1>1, AttemptsKeep, CommandsKeep, ViewerSeeksKeep, TicksKeep, LoadedKeeps, DecidedAnew, SourcesKeep
    DEF PlayerNext

LEMMA PlayerInvHolds == PlayerSpec => []PlayerInv
BY PlayerInitInv, PlayerNextInv, PTL DEF PlayerSpec

(***************************************************************************)
(* For any media, transports and attempts to play: only a refusal of the   *)
(* viewer's last command makes the player want something else (usePlayer's *)
(* engine and command counters).                                           *)
(***************************************************************************)
THEOREM PlayerObeys == PlayerSpec => []IntentIsLastCommand
<1>1. PlayerInv => IntentIsLastCommand
    BY DEF PlayerInv
<1> QED
    BY <1>1, PlayerInvHolds, PTL

(***************************************************************************)
(* For any media, transports and seeks: a seek is done or waits, and a     *)
(* transport begins where the viewer is (usePlayer's carried seek, startAt *)
(* and resume).  Excepted, until the element plays on, is a transport that *)
(* was given a place captured before the element went on, and one given    *)
(* the place of an element that was not ready or had been emptied.         *)
(***************************************************************************)
THEOREM PlayerKeepsPlace == PlayerSpec => []SeeksLand
<1>1. PlayerInv => SeeksLand
    BY DEF PlayerInv
<1> QED
    BY <1>1, PlayerInvHolds, PTL

-----------------------------------------------------------------------------
(* The desktop connections                                                 *)

(***************************************************************************)
(* At most one of addRemoteConnection and runActivation works from a       *)
(* snapshot of the selection, and what it will write extends what is there *)
(* (`state = next`, `previous`).                                           *)
(***************************************************************************)
Saving == flight # NoWork /\ flight.stage # "preparing"

Undisturbed ==
    /\ store.list = selection.list
    /\ base # NoServer => selection.active = base /\ relay = base
    /\ base # NoServer /\ (flight = NoWork \/ flight.stage \in {"preparing", "saving"}) =>
        misremembered \/ store.active = base
    /\ \A c \in Server : adding[c] # NoWork =>
        /\ ~Saving /\ \A d \in Server : adding[d] # NoWork => d = c
        /\ adding[c] = [selection EXCEPT !.list = @ \union {c}]
    /\ flight # NoWork => flight.id \in selection.list
    /\ Saving => flight.before = selection
    /\ flight # NoWork /\ flight.stage \in {"configuring", "restoring"} => store = Target

ConnInv ==
    /\ ConnTypeOK
    /\ activations \in 0..MaxActivations /\ launches \in Nat
    /\ scope <= activations /\ (flight # NoWork => scope < activations)
    /\ flight # NoWork /\ flight.aborted => flight.stage = "preparing"
    /\ ~overlapped => Undisturbed

(***************************************************************************)
(* A selection, a record of it and an attempt are told from nothing.       *)
(***************************************************************************)
LEMMA ConnFacts ==
    /\ MaxActivations \in Nat /\ NoServer \notin Server
    /\ NoWork \notin Selection /\ NoWork \notin Flight
BY ConnAssumption

LEMMA ConnInitInv == ConnInit => ConnInv
<1> SUFFICES ASSUME ConnInit
             PROVE  ConnInv
    OBVIOUS
<1>1. ConnTypeOK
  <2>1. selection \in Selection /\ store \in Selection /\ selection.active = NoServer
      BY DEF ConnInit, Selection
  <2>2. scope \in 0..MaxActivations
      BY ConnFacts DEF ConnInit
  <2> QED
      BY <2>1, <2>2 DEF ConnInit, ConnTypeOK
<1>2. Undisturbed
    BY DEF ConnInit, Undisturbed, Saving
<1> QED
    BY <1>1, <1>2, ConnFacts DEF ConnInit, ConnInv

(***************************************************************************)
(* Adding a connection: the snapshot it extends is the only one, or the    *)
(* writers overlap.                                                        *)
(***************************************************************************)
LEMMA AddsKeep ==
    ASSUME ConnInv, NEW c \in Server, AddServer(c) \/ AddSaved(c) \/ AddRefused(c)
    PROVE  ConnInv'
<1>1. CASE AddServer(c)
  <2> DEFINE s == [selection EXCEPT !.list = @ \union {c}]
  <2>1. s \in Selection
      BY DEF ConnInv, ConnTypeOK, Selection
  <2> HIDE DEF s
  <2>2. /\ adding' \in [Server -> Selection \union {NoWork}] /\ adding'[c] = s
        /\ \A d \in Server : d # c => adding'[d] = adding[d]
      BY <1>1, <2>1 DEF ConnInv, ConnTypeOK, AddServer, s
  <2>3. ConnTypeOK'
      BY <1>1, <2>2 DEF ConnInv, ConnTypeOK, AddServer
  <2>4. ~overlapped' => Undisturbed'
      BY <1>1, <2>2 DEF ConnInv, Undisturbed, Saving, AddServer, Snapshots, Target, s
  <2> QED
      BY <1>1, <2>3, <2>4 DEF ConnInv, AddServer
<1>2. CASE AddSaved(c)
  <2>1. /\ adding[c] \in Selection /\ store' = adding[c] /\ selection' = adding[c]
        /\ UNCHANGED <<relay, base, scope, flight, overlapped, misremembered, boundVars>>
        /\ adding' \in [Server -> Selection \union {NoWork}] /\ adding'[c] = NoWork
        /\ \A d \in Server : d # c => adding'[d] = adding[d]
      BY <1>2 DEF ConnInv, ConnTypeOK, AddSaved
  <2>2. ~overlapped => /\ ~Saving /\ \A d \in Server : d # c => adding[d] = NoWork
                       /\ adding[c].active = selection.active
                       /\ adding[c].list = selection.list \union {c}
    <3>1. selection \in Selection
        BY DEF ConnInv, ConnTypeOK
    <3> QED
        BY <1>2, <3>1 DEF ConnInv, Undisturbed, AddSaved, Selection
  <2>3. ConnTypeOK'
      BY <2>1, <2>2 DEF ConnInv, ConnTypeOK
  <2>4. ~overlapped' => Undisturbed'
      BY <2>1, <2>2 DEF ConnInv, Undisturbed, Saving
  <2> QED
      BY <2>1, <2>3, <2>4 DEF ConnInv, boundVars
<1>3. CASE AddRefused(c)
  <2>1. /\ UNCHANGED <<selection, store, relay, base, scope, flight, overlapped, misremembered, boundVars>>
        /\ adding' \in [Server -> Selection \union {NoWork}] /\ adding'[c] = NoWork
        /\ \A d \in Server : d # c => adding'[d] = adding[d]
      BY <1>3 DEF ConnInv, ConnTypeOK, AddRefused
  <2>2. ConnTypeOK'
      BY <2>1 DEF ConnInv, ConnTypeOK
  <2>3. ~overlapped' => Undisturbed'
      BY <2>1 DEF ConnInv, Undisturbed, Saving, Target
  <2> QED
      BY <2>1, <2>2, <2>3 DEF ConnInv, boundVars
<1> QED
    BY <1>1, <1>2, <1>3

(***************************************************************************)
(* An activation up to its first write.                                    *)
(***************************************************************************)
LEMMA PreparationKeeps ==
    ASSUME ConnInv, (\E c \in Server : Activate(c)) \/ CancelActivation \/ PrepareFails \/ Prepared
    PROVE  ConnInv'
<1> DEFINE rest == UNCHANGED <<selection, store, relay, base, scope, adding, misremembered, launches>>
<1>1. CASE \E c \in Server : Activate(c)
  <2>1. PICK c \in Server : Activate(c)
      BY <1>1
  <2>2. /\ flight' = [id |-> c, stage |-> "preparing", aborted |-> FALSE, before |-> selection]
        /\ flight' \in Flight /\ flight' # NoWork
    <3>1. flight' = [id |-> c, stage |-> "preparing", aborted |-> FALSE, before |-> selection]
          /\ selection \in Selection
        BY <2>1 DEF ConnInv, ConnTypeOK, Activate
    <3>2. flight' \in Flight
        BY <3>1 DEF Flight
    <3> QED
        BY <3>1, <3>2, ConnFacts
  <2>3. ConnTypeOK'
      BY <2>1, <2>2 DEF ConnInv, ConnTypeOK, Activate
  <2>4. ~overlapped' => Undisturbed'
      BY <2>1, <2>2 DEF ConnInv, Undisturbed, Saving, Activate
  <2>5. activations' \in 0..MaxActivations /\ scope' < activations'
      BY <2>1, ConnFacts DEF ConnInv, ConnTypeOK, Activate
  <2> QED
      BY <2>1, <2>2, <2>3, <2>4, <2>5 DEF ConnInv, ConnTypeOK, Activate
<1>2. CASE CancelActivation
  <2>1. /\ flight' \in Flight /\ flight' # NoWork /\ flight'.stage = "preparing" /\ flight'.id = flight.id
        /\ flight # NoWork /\ flight.stage = "preparing"
        /\ UNCHANGED <<selection, store, relay, base, scope, adding, overlapped, misremembered, boundVars>>
      BY <1>2, ConnFacts DEF ConnInv, ConnTypeOK, CancelActivation, InStage, Flight
  <2>2. ConnTypeOK'
      BY <2>1 DEF ConnInv, ConnTypeOK
  <2>3. ~overlapped' => Undisturbed'
      BY <2>1 DEF ConnInv, Undisturbed, Saving
  <2> QED
      BY <2>1, <2>2, <2>3 DEF ConnInv, boundVars
<1>3. CASE PrepareFails
  <2>1. ConnTypeOK'
      BY <1>3 DEF ConnInv, ConnTypeOK, PrepareFails
  <2>2. ~overlapped' => Undisturbed'
      BY <1>3 DEF ConnInv, Undisturbed, Saving, PrepareFails, InStage
  <2> QED
      BY <1>3, <2>1, <2>2 DEF ConnInv, PrepareFails, boundVars
<1>4. CASE Prepared
  <2>1. /\ flight' \in Flight /\ flight' # NoWork /\ flight'.stage = "saving" /\ flight'.id = flight.id
        /\ flight'.before = selection /\ ~flight'.aborted
        /\ flight # NoWork /\ flight.stage = "preparing"
        /\ UNCHANGED <<selection, store, relay, base, scope, adding, misremembered, boundVars>>
      BY <1>4, ConnFacts DEF ConnInv, ConnTypeOK, Prepared, InStage, Flight, Committing
  <2>2. ~overlapped' => ~overlapped /\ \A c \in Server : adding[c] = NoWork
      BY <1>4 DEF Prepared, Snapshots
  <2>3. ConnTypeOK'
      BY <1>4, <2>1 DEF ConnInv, ConnTypeOK, Prepared
  <2>4. ~overlapped' => Undisturbed'
      BY <2>1, <2>2 DEF ConnInv, Undisturbed, Saving
  <2> QED
      BY <2>1, <2>3, <2>4 DEF ConnInv, boundVars
<1> QED
    BY <1>1, <1>2, <1>3, <1>4

(***************************************************************************)
(* What the attempt will have selected.                                    *)
(***************************************************************************)
LEMMA TargetIs ==
    ASSUME ConnInv, flight # NoWork
    PROVE  /\ flight \in Flight /\ Target \in Selection
           /\ Target.active = flight.id /\ Target.list = flight.before.list
BY DEF ConnInv, ConnTypeOK, Flight, Selection, Target

LEMMA WritesKeep ==
    ASSUME ConnInv, SelectionSaved \/ SelectionRefused \/ Configured \/ ConfigureFails
                    \/ SelectionRestored \/ RestoreFails
    PROVE  ConnInv'
<1>1. /\ flight \in Flight /\ flight # NoWork /\ Target \in Selection /\ flight.before \in Selection
      /\ Target.active = flight.id /\ Target.list = flight.before.list /\ flight.id \in Server
  <2>1. flight # NoWork
      BY DEF SelectionSaved, SelectionRefused, Configured, ConfigureFails, SelectionRestored, RestoreFails, InStage
  <2> QED
      BY <2>1, TargetIs DEF Flight
<1>2. CASE SelectionSaved \/ ConfigureFails
  <2>1. /\ flight' \in Flight /\ flight' # NoWork /\ flight'.before = flight.before /\ flight'.id = flight.id
        /\ flight'.aborted = flight.aborted /\ flight'.stage \in {"configuring", "restoring"}
        /\ store' \in {store, Target} /\ (flight.stage = "saving" => store' = Target)
        /\ flight.stage \in {"saving", "configuring"} /\ (flight.stage = "configuring" => store' = store)
        /\ UNCHANGED <<selection, relay, base, scope, adding, overlapped, misremembered, boundVars>>
      BY <1>1, <1>2, ConnFacts DEF SelectionSaved, ConfigureFails, InStage, Flight
  <2>2. Target' = Target
      BY <2>1 DEF Target
  <2>3. ConnTypeOK'
      BY <1>1, <2>1 DEF ConnInv, ConnTypeOK
  <2>4. ~overlapped' => Undisturbed'
      BY <1>1, <2>1, <2>2 DEF ConnInv, Undisturbed, Saving
  <2>5. ~flight'.aborted /\ scope' < activations'
      BY <1>1, <2>1 DEF ConnInv, boundVars
  <2> QED
      BY <2>1, <2>3, <2>4, <2>5 DEF ConnInv, boundVars
<1>3. CASE SelectionRefused
  <2>1. ConnTypeOK'
      BY <1>3 DEF ConnInv, ConnTypeOK, SelectionRefused
  <2>2. ~overlapped' => Undisturbed'
      BY <1>3 DEF ConnInv, Undisturbed, Saving, SelectionRefused, InStage
  <2> QED
      BY <1>3, <2>1, <2>2 DEF ConnInv, SelectionRefused, boundVars
<1>4. CASE Configured
  <2>1. scope' \in 0..MaxActivations /\ scope' <= activations'
      BY <1>1, <1>4, ConnFacts DEF ConnInv, ConnTypeOK, Configured, boundVars
  <2>2. ~overlapped => Saving /\ flight.before = selection /\ store = Target /\ flight.id \in selection.list
                       /\ \A c \in Server : adding[c] = NoWork
      BY <1>1, <1>4 DEF ConnInv, Undisturbed, Saving, Configured, InStage
  <2>3. ConnTypeOK'
      BY <1>1, <1>4, <2>1, <2>2 DEF ConnInv, ConnTypeOK, Configured
  <2>4. ~overlapped' => Undisturbed'
      BY <1>1, <1>4, <2>2 DEF Undisturbed, Saving, Configured
  <2> QED
      BY <1>4, <2>1, <2>3, <2>4 DEF ConnInv, Configured, boundVars
<1>5. CASE SelectionRestored \/ RestoreFails
  <2>1. ~overlapped => /\ flight.before = selection /\ store = Target
                       /\ \A c \in Server : adding[c] = NoWork
      BY <1>1, <1>5 DEF ConnInv, Undisturbed, Saving, SelectionRestored, RestoreFails, InStage
  <2>2. ConnTypeOK'
      BY <1>1, <1>5 DEF ConnInv, ConnTypeOK, SelectionRestored, RestoreFails
  <2>3. ~overlapped' => Undisturbed'
      BY <1>1, <1>5, <2>1 DEF ConnInv, Undisturbed, Saving, SelectionRestored, RestoreFails
  <2> QED
      BY <1>5, <2>2, <2>3 DEF ConnInv, SelectionRestored, RestoreFails, boundVars
<1> QED
    BY <1>2, <1>3, <1>4, <1>5

LEMMA NormalizedIs ==
    ASSUME NEW s \in Selection
    PROVE  /\ Normalized(s) \in Selection /\ Normalized(s).list = s.list
           /\ Normalized(s).active \in s.list \union {NoServer}
<1>1. s.list # {} => (CHOOSE c \in s.list : TRUE) \in s.list
    OBVIOUS
<1> QED
    BY <1>1 DEF Normalized, Selection

LEMMA LaunchKeeps ==
    ASSUME ConnInv, Launch
    PROVE  ConnInv'
<1>1. selection' \in Selection /\ selection'.list = store.list
      /\ selection'.active \in selection'.list \union {NoServer}
    BY NormalizedIs DEF ConnInv, ConnTypeOK, Launch
<1>2. ConnTypeOK'
  <2>1. scope' \in 0..MaxActivations
      BY ConnFacts DEF Launch
  <2> QED
      BY <1>1, <2>1 DEF ConnInv, ConnTypeOK, Launch
<1>3. Undisturbed'
    BY <1>1 DEF Undisturbed, Saving, Launch
<1> QED
    BY <1>2, <1>3 DEF ConnInv, Launch

LEMMA ConnNextInv == ConnInv /\ [ConnNext]_connVars => ConnInv'
<1> SUFFICES ASSUME ConnInv, [ConnNext]_connVars
             PROVE  ConnInv'
    OBVIOUS
<1>1. CASE UNCHANGED connVars
    BY <1>1 DEF ConnInv, ConnTypeOK, Undisturbed, Saving, Target, connVars
<1> QED
    BY <1>1, AddsKeep, PreparationKeeps, WritesKeep, LaunchKeeps DEF ConnNext

LEMMA ConnInvHolds == ConnSpec => []ConnInv
BY ConnInitInv, ConnNextInv, PTL DEF ConnSpec

(***************************************************************************)
(* For any servers, activations, additions and restarts: between           *)
(* activations the server on show, the one the page asks and the one the   *)
(* shell relays to are the same, unless two writers overlapped             *)
(* (runActivation's order of writes).                                      *)
(***************************************************************************)
THEOREM OneServerShown == ConnSpec => []OneServer
<1>1. ConnInv => OneServer
    BY DEF ConnInv, Undisturbed, OneServer
<1> QED
    BY <1>1, ConnInvHolds, PTL

(***************************************************************************)
(* Every step: a cancelled attempt changes nothing, a configured one       *)
(* opens a new scope, and no saved connection is forgotten                 *)
(* (cancelActivation, getConnectionSession, `previous`).                   *)
(***************************************************************************)
LEMMA CancelledStep == ConnInv /\ [ConnNext]_connVars => [CancelledChangesNothing]_connVars
<1> SUFFICES ASSUME ConnInv, ConnNext, flight # NoWork, flight.aborted, launches' = launches
             PROVE  /\ relay' = relay /\ base' = base
                    /\ flight' # NoWork => flight'.stage = "preparing"
                    /\ adding' = adding => store' = store
    BY DEF CancelledChangesNothing
<1>1. flight.stage = "preparing" /\ launches \in Nat
    BY DEF ConnInv
<1>2. ~SelectionSaved /\ ~SelectionRefused /\ ~Configured /\ ~ConfigureFails /\ ~SelectionRestored
      /\ ~RestoreFails /\ ~Prepared /\ ~Launch
    BY <1>1 DEF SelectionSaved, SelectionRefused, Configured, ConfigureFails, SelectionRestored,
       RestoreFails, Prepared, InStage, Committing, Launch
<1>3. ASSUME NEW c \in Server, AddSaved(c)
      PROVE  adding' # adding
    BY <1>3 DEF ConnInv, ConnTypeOK, AddSaved
<1>4. CancelActivation => flight'.stage = "preparing"
    BY <1>1 DEF ConnInv, ConnTypeOK, CancelActivation, InStage, Flight
<1> QED
    BY <1>1, <1>2, <1>3, <1>4 DEF ConnNext, AddServer, AddSaved, AddRefused, Activate, CancelActivation,
       PrepareFails

LEMMA ScopeStep == ConnInv /\ [ConnNext]_connVars => [NewScope]_connVars
<1> SUFFICES ASSUME ConnInv, ConnNext, InStage("configuring"), flight' = NoWork, launches' = launches
             PROVE  scope' > scope
    BY DEF NewScope
<1>1. launches \in Nat /\ scope \in Nat /\ flight # NoWork /\ flight.stage = "configuring"
    BY DEF ConnInv, ConnTypeOK, InStage
<1>2. Configured
  <2>1. flight' # NoWork \/ ~ConfigureFails
      BY ConnFacts DEF ConnInv, ConnTypeOK, ConfigureFails, InStage, Flight
  <2> QED
      BY <1>1, <2>1 DEF ConnNext, AddServer, AddSaved, AddRefused, Activate, CancelActivation, PrepareFails,
         Prepared, SelectionSaved, SelectionRefused, SelectionRestored, RestoreFails, Launch, InStage
<1> QED
    BY <1>1, <1>2 DEF Configured

LEMMA ForgetStep == ConnInv /\ [ConnNext]_connVars => [NothingForgotten]_connVars
<1> SUFFICES ASSUME ConnInv, ConnNext, ~overlapped, ~overlapped'
             PROVE  selection.list \subseteq selection'.list /\ store.list \subseteq store'.list
    BY DEF NothingForgotten
<1>1. store.list = selection.list
    BY DEF ConnInv, Undisturbed
<1>2. ASSUME NEW c \in Server, AddSaved(c)
      PROVE  selection.list \subseteq selection'.list /\ store.list \subseteq store'.list
    BY <1>1, <1>2 DEF ConnInv, ConnTypeOK, Undisturbed, AddSaved, Selection
<1>3. CASE SelectionSaved \/ Configured \/ SelectionRestored
  <2>1. flight.before.list = selection.list /\ Target.list = selection.list
      BY <1>3, TargetIs DEF ConnInv, Undisturbed, Saving, SelectionSaved, Configured, SelectionRestored, InStage
  <2> QED
      BY <1>1, <1>3, <2>1 DEF SelectionSaved, Configured, SelectionRestored
<1>4. CASE Launch
    BY <1>1, <1>4, NormalizedIs DEF ConnInv, ConnTypeOK, Launch
<1> QED
    BY <1>2, <1>3, <1>4 DEF ConnNext, AddServer, AddRefused, Activate, CancelActivation,
       PrepareFails, Prepared, SelectionRefused, ConfigureFails, RestoreFails

(***************************************************************************)
(* For any servers, activations, additions and restarts: no connection is  *)
(* forgotten, a cancelled attempt changes nothing, and a finished one      *)
(* fences off what was asked before (runActivation, cancelActivation).     *)
(***************************************************************************)
THEOREM ConnectionsStayKept == ConnSpec => ConnectionsKept
<1>1. ConnInv /\ [ConnNext]_connVars => [CancelledChangesNothing /\ NewScope /\ NothingForgotten]_connVars
    BY CancelledStep, ScopeStep, ForgetStep
<1> QED
    BY <1>1, ConnInvHolds, PTL DEF ConnSpec, ConnectionsKept

-----------------------------------------------------------------------------
(* Stream sessions                                                         *)

(***************************************************************************)
(* Decisions are numbered in the order they were asked for, and a direct   *)
(* stream is no answer to a forced one (POST /playback).                   *)
(***************************************************************************)
DecisionsSound ==
    /\ Latest \in 0..MaxDecisions /\ DOMAIN decisions = 1..Latest
    /\ \A d \in DOMAIN decisions : decisions[d].video \in Video /\ decisions[d].forced \in BOOLEAN
    /\ reply \in [Decision -> {"none", "direct", "session", "nothing"}]
    /\ \A d \in Decision : reply[d] # "none" => d \in DOMAIN decisions
    /\ \A d \in Decision : reply[d] = "direct" => ~decisions[d].forced

(***************************************************************************)
(* The answer that is awaited is the latest asked for, of the source on    *)
(* stage and forced as it is now (the sequence guard).                     *)
(***************************************************************************)
AwaitedSound ==
    /\ video \in Video \union {NoVideo} /\ enabled \in BOOLEAN /\ forced \in BOOLEAN
    /\ enabled => video \in Video
    /\ current \in {0, Latest}
    /\ status \in {"idle", "deciding", "ready", "error", "unavailable"}
    /\ status = "deciding" <=> current # 0
    /\ current # 0 => decisions[current].video = video /\ decisions[current].forced = forced

(***************************************************************************)
(* What is held and shown (liveSessionRef, keepAliveUrl, release).         *)
(***************************************************************************)
HeldSound ==
    /\ live \in Session \union {NoSession} /\ warm \in Session \union {NoSession}
    /\ shown \in {Native, Blank} \union Session
    /\ gone \subseteq Session /\ heard \subseteq Session /\ released \subseteq Session
    /\ stranded \subseteq Session
    /\ live \in Session => live \in DOMAIN decisions
    /\ shown \in Session => shown \in DOMAIN decisions
    /\ SessionsInHand

(***************************************************************************)
(* Only a source the server decides about is reattached or starves         *)
(* (askAgain), so what is shown without asking never is one of them.       *)
(***************************************************************************)
StreamSound ==
    /\ method \in {"none", "direct", "hls"} /\ reattaching \in BOOLEAN /\ reattaches \in 0..MaxReattach
    /\ reattaching \/ forced => video \notin Rowless
    /\ StreamRecovers

HlsInv == DecisionsSound /\ AwaitedSound /\ HeldSound /\ StreamSound

LEMMA HlsFacts ==
    /\ Direct \subseteq Video /\ Rowless \subseteq Direct /\ MaxReattach \in Nat /\ MaxDecisions \in Nat
    /\ NoVideo \notin Video /\ NoSession \notin Session /\ Native \notin Session /\ Blank \notin Session
    /\ Native # Blank /\ Session = Decision /\ Decision \subseteq Nat /\ 0 \notin Decision
    /\ Decision = 1..MaxDecisions
BY HlsAssumption DEF Session, Decision

LEMMA CountOf ==
    ASSUME NEW n \in Nat
    PROVE  Cardinality(1..n) = n
<1>1. Cardinality(1..n) = IF 1 > n THEN 0 ELSE n - 1 + 1
    BY FS_Interval
<1> QED
    BY <1>1

LEMMA HlsInitInv == HlsInit => HlsInv
<1> SUFFICES ASSUME HlsInit
             PROVE  HlsInv
    OBVIOUS
<1>1. DOMAIN decisions = 1..0 /\ Latest = 0
  <2>1. DOMAIN decisions = 1..0
      BY DEF HlsInit
  <2> QED
      BY <2>1, CountOf DEF Latest
<1>2. DecisionsSound
    BY <1>1, HlsFacts DEF HlsInit, DecisionsSound
<1>3. AwaitedSound
    BY DEF HlsInit, AwaitedSound
<1>4. HeldSound
    BY HlsFacts DEF HlsInit, HeldSound, SessionsInHand, NothingStale, SessionsAccounted, HeldIsWarm
<1>5. StreamSound
  <2>1. reattaches \in 0..MaxReattach
      BY HlsFacts DEF HlsInit
  <2> QED
      BY <2>1 DEF HlsInit, StreamSound, StreamRecovers, ReattachEnds, StarvedStaysHls
<1> QED
    BY <1>2, <1>3, <1>4, <1>5 DEF HlsInv

(***************************************************************************)
(* Another decision is asked for.                                          *)
(***************************************************************************)
LEMMA AskIs ==
    ASSUME DecisionsSound, NEW v \in Video, NEW f \in BOOLEAN, AskServer(v, f), UNCHANGED reply
    PROVE  /\ DecisionsSound' /\ Latest' # 0
           /\ current' = Latest' /\ status' = "deciding"
           /\ decisions'[current'].video = v /\ decisions'[current'].forced = f
           /\ \A d \in DOMAIN decisions : d \in DOMAIN decisions' /\ decisions'[d] = decisions[d]
<1> DEFINE n == Latest + 1
<1>1. n \in Nat /\ n \in 1..MaxDecisions /\ n \notin DOMAIN decisions /\ DOMAIN decisions = 1..Latest
      /\ Latest \in Nat
    BY HlsFacts DEF DecisionsSound, AskServer
<1>2. DOMAIN decisions' = 1..n
    BY DEF AskServer
<1>3. Latest' = n
    BY <1>1, <1>2, CountOf DEF Latest
<1>4. decisions'[n] = [video |-> v, forced |-> f]
    BY <1>1 DEF AskServer
<1>5. \A d \in DOMAIN decisions : d \in DOMAIN decisions' /\ decisions'[d] = decisions[d]
    BY <1>1, <1>2 DEF AskServer
<1>6. current' = n /\ status' = "deciding"
    BY DEF AskServer
<1> HIDE DEF n
<1>7. \A d \in DOMAIN decisions' : d = n \/ d \in DOMAIN decisions
    BY <1>1, <1>2 DEF n
<1>8. DecisionsSound'
  <2>1. \A d \in DOMAIN decisions' : decisions'[d].video \in Video /\ decisions'[d].forced \in BOOLEAN
      BY <1>4, <1>5, <1>7 DEF DecisionsSound
  <2>2. \A d \in Decision : reply'[d] # "none" => d \in DOMAIN decisions'
      BY <1>5 DEF DecisionsSound
  <2>3. \A d \in Decision : reply'[d] = "direct" => ~decisions'[d].forced
      BY <1>5 DEF DecisionsSound
  <2>4. Latest' \in 0..MaxDecisions /\ DOMAIN decisions' = 1..Latest'
      BY <1>1, <1>2, <1>3
  <2> QED
      BY <2>1, <2>2, <2>3, <2>4 DEF DecisionsSound
<1> QED
    BY <1>1, <1>3, <1>4, <1>5, <1>6, <1>8

(***************************************************************************)
(* Sessions that were held and shown of this source stay so when another   *)
(* decision is asked for, and a session that is let go of is accounted for.*)
(***************************************************************************)
LEMMA LetGo ==
    ASSUME HeldSound, UNCHANGED heard,
           live' = NoSession, warm' \in {NoSession, warm},
           gone' \in {gone, gone \union HeldSession},
           \/ released' = released \union HeldSession /\ stranded' = stranded
           \/ released' = released /\ stranded' = stranded \union HeldSession,
           \/ shown' \in {Native, Blank}
           \/ /\ UNCHANGED <<shown, video>>
              /\ \A d \in DOMAIN decisions : d \in DOMAIN decisions' /\ decisions'[d] = decisions[d]
    PROVE  HeldSound'
<1>1. HeldSession \subseteq Session /\ (live \in Session => live \in HeldSession)
    BY HlsFacts DEF HeldSound, HeldSession
<1>2. SessionsInHand'
  <2>1. NothingStale'
      BY HlsFacts DEF HeldSound, SessionsInHand, NothingStale
  <2>2. SessionsAccounted'
      BY <1>1 DEF HeldSound, SessionsInHand, SessionsAccounted
  <2>3. HeldIsWarm'
      BY DEF HeldIsWarm
  <2> QED
      BY <2>1, <2>2, <2>3 DEF SessionsInHand
<1> QED
    BY <1>1, <1>2, HlsFacts DEF HeldSound

LEMMA HeldOn ==
    ASSUME HeldSound, UNCHANGED <<live, warm, shown, video, heard, released, stranded>>, gone' \subseteq Session,
           \A d \in DOMAIN decisions : d \in DOMAIN decisions' /\ decisions'[d] = decisions[d]
    PROVE  HeldSound'
BY DEF HeldSound, SessionsInHand, NothingStale, SessionsAccounted, HeldIsWarm

(***************************************************************************)
(* The same source is decided again (the epoch is bumped).                 *)
(***************************************************************************)
LEMMA AskAgainIs ==
    ASSUME HlsInv, NEW f \in BOOLEAN, AskAgain(f), forced' = f, UNCHANGED <<video, enabled, reply>>
    PROVE  /\ DecisionsSound' /\ AwaitedSound' /\ video \notin Rowless
           /\ current' # 0 /\ status' = "deciding"
           /\ \A d \in DOMAIN decisions : d \in DOMAIN decisions' /\ decisions'[d] = decisions[d]
<1>1. video \in Video /\ AskServer(video, f) /\ video \notin Rowless
    BY DEF HlsInv, AwaitedSound, AskAgain
<1>2. /\ DecisionsSound' /\ Latest' # 0
      /\ current' = Latest' /\ status' = "deciding"
      /\ decisions'[current'].video = video /\ decisions'[current'].forced = f
      /\ \A d \in DOMAIN decisions : d \in DOMAIN decisions' /\ decisions'[d] = decisions[d]
    BY <1>1, AskIs DEF HlsInv
<1>3. AwaitedSound'
    BY <1>1, <1>2 DEF HlsInv, AwaitedSound
<1> QED
    BY <1>1, <1>2, <1>3

LEMMA AsksAgainKeep ==
    ASSUME HlsInv, SwitchStream \/ Reattach \/ FallbackToHls \/ TouchGone
    PROVE  HlsInv'
<1>1. /\ UNCHANGED <<video, enabled, reply, shown, heard, method, gone>>
      /\ forced' \in BOOLEAN /\ AskAgain(forced')
      /\ reattaching' \in BOOLEAN /\ reattaches' \in 0..MaxReattach
  <2>1. UNCHANGED <<video, enabled, reply, shown, heard, method, gone>>
      BY DEF SwitchStream, Reattach, FallbackToHls, TouchGone, fileVars
  <2>2. forced' \in BOOLEAN /\ AskAgain(forced')
    <3>1. CASE FallbackToHls
        BY <3>1 DEF FallbackToHls
    <3>2. CASE SwitchStream \/ Reattach \/ TouchGone
        BY <3>2 DEF HlsInv, AwaitedSound, SwitchStream, Reattach, TouchGone, fileVars
    <3> QED
        BY <3>1, <3>2
  <2>3. reattaching' \in BOOLEAN
      BY DEF HlsInv, StreamSound, SwitchStream, Reattach, FallbackToHls, TouchGone, fileVars
  <2>4. reattaches' \in 0..MaxReattach
    <3>1. CASE Reattach
        BY <3>1, HlsFacts DEF HlsInv, StreamSound, Reattach
    <3>2. CASE SwitchStream \/ FallbackToHls \/ TouchGone
        BY <3>2 DEF HlsInv, StreamSound, SwitchStream, FallbackToHls, TouchGone, fileVars
    <3> QED
        BY <3>1, <3>2
  <2> QED
      BY <2>1, <2>2, <2>3, <2>4
<1>2. /\ DecisionsSound' /\ AwaitedSound' /\ video \notin Rowless
      /\ current' # 0 /\ status' = "deciding"
      /\ \A d \in DOMAIN decisions : d \in DOMAIN decisions' /\ decisions'[d] = decisions[d]
    BY <1>1, AskAgainIs
<1>3. HeldSound'
  <2>1. CASE SwitchStream \/ FallbackToHls
      BY <1>1, <1>2, <2>1, HeldOn DEF HlsInv, HeldSound, SwitchStream, FallbackToHls
  <2>2. CASE Reattach \/ TouchGone
      BY <1>1, <1>2, <2>2, LetGo DEF HlsInv, Reattach, TouchGone
  <2> QED
      BY <2>1, <2>2
<1>4. StreamSound'
    BY <1>1, <1>2 DEF HlsInv, StreamSound, StreamRecovers, ReattachEnds, StarvedStaysHls
<1> QED
    BY <1>2, <1>3, <1>4 DEF HlsInv

(***************************************************************************)
(* Nothing is asked: the decisions stay.                                   *)
(***************************************************************************)
LEMMA DecisionsStay ==
    ASSUME DecisionsSound, UNCHANGED <<decisions, reply>>
    PROVE  /\ DecisionsSound' /\ Latest' = Latest
           /\ \A d \in DOMAIN decisions : d \in DOMAIN decisions' /\ decisions'[d] = decisions[d]
BY DEF DecisionsSound, Latest

LEMMA ServerKeeps ==
    ASSUME HlsInv, NEW d \in Decision, Serve(d) \/ Reap(d)
    PROVE  HlsInv'
<1>1. UNCHANGED <<video, enabled, decisions, current, live, warm, shown, status, fileVars, heard, released,
                  stranded>>
      /\ gone' \subseteq Session
    BY HlsFacts DEF HlsInv, HeldSound, Serve, Reap
<1>2. DecisionsSound'
  <2>1. CASE Serve(d)
    <3>1. PICK a \in {"direct", "session", "nothing"} :
             (decisions[d].forced => a # "direct") /\ reply' = [reply EXCEPT ![d] = a]
        BY <2>1 DEF Serve
    <3>2. d \in DOMAIN decisions
        BY <2>1 DEF Serve
    <3> QED
        BY <1>1, <3>1, <3>2 DEF HlsInv, DecisionsSound, Latest
  <2>2. CASE Reap(d)
      BY <2>2, DecisionsStay DEF HlsInv, Reap
  <2> QED
      BY <2>1, <2>2
<1>3. AwaitedSound' /\ StreamSound'
    BY <1>1 DEF HlsInv, AwaitedSound, StreamSound, StreamRecovers, ReattachEnds, StarvedStaysHls, Latest, fileVars
<1>4. HeldSound'
    BY <1>1, HeldOn DEF HlsInv
<1> QED
    BY <1>2, <1>3, <1>4 DEF HlsInv

(***************************************************************************)
(* The answer that was awaited, or its failure.                            *)
(***************************************************************************)
LEMMA AnswersKeep ==
    ASSUME HlsInv, NEW d \in Decision,
           PlaySession(d) \/ PlayDirect(d) \/ Undeliverable(d) \/ NoAddress(d)
    PROVE  HlsInv'
<1>1. /\ UNCHANGED <<video, enabled, decisions, reply, forced, reattaches>>
      /\ current = d /\ current # 0 /\ d \in Session /\ current' = 0 /\ reattaching' = FALSE
      /\ method' \in {"direct", "hls"} /\ status' \in {"ready", "error"}
    BY HlsFacts DEF PlaySession, PlayDirect, Undeliverable, NoAddress, Awaited
<1>2. DecisionsSound' /\ Latest' = Latest
    BY <1>1, DecisionsStay DEF HlsInv
<1>3. AwaitedSound'
    BY <1>1, <1>2 DEF HlsInv, AwaitedSound
<1>4. HeldSound'
  <2>1. CASE PlaySession(d)
    <3>1. d \in DOMAIN decisions /\ decisions[d].video = video
        BY <1>1, <2>1 DEF HlsInv, AwaitedSound, DecisionsSound, PlaySession
    <3>2. /\ live' = d /\ warm' = d /\ shown' = d /\ heard' = heard \union {d}
          /\ gone' = gone \union HeldSession /\ released' = released \union HeldSession
          /\ stranded' = stranded
        BY <2>1 DEF PlaySession, Touch, Replace, Delete
    <3>3. HeldSession \subseteq Session /\ (live \in Session => live \in HeldSession)
        BY HlsFacts DEF HlsInv, HeldSound, HeldSession
    <3>4. NothingStale' /\ HeldIsWarm'
        BY <1>1, <3>1, <3>2 DEF NothingStale, HeldIsWarm
    <3>5. SessionsAccounted'
        BY <3>2, <3>3 DEF HlsInv, HeldSound, SessionsInHand, SessionsAccounted
    <3> QED
        BY <1>1, <3>1, <3>2, <3>3, <3>4, <3>5 DEF HlsInv, HeldSound, SessionsInHand
  <2>2. CASE PlayDirect(d) \/ Undeliverable(d)
      BY <2>2, LetGo DEF HlsInv, PlayDirect, Undeliverable, Replace, Delete
  <2>3. CASE NoAddress(d)
      BY <1>1, <2>3, LetGo DEF HlsInv, NoAddress, Replace, Delete
  <2> QED
      BY <2>1, <2>2, <2>3
<1>5. forced => shown' # Native
  <2>0. reply[d] = "direct" => ~forced
      BY <1>1 DEF HlsInv, DecisionsSound, AwaitedSound
  <2>1. CASE PlayDirect(d) /\ forced
    <3>1. reply[d] = "direct"
        BY <2>1 DEF PlayDirect
    <3> QED
        BY <2>0, <2>1, <3>1
  <2>2. CASE PlaySession(d) \/ Undeliverable(d)
      BY <1>1, <2>2, HlsFacts DEF PlaySession, Undeliverable
  <2>3. CASE NoAddress(d)
      BY <2>0, <2>3 DEF NoAddress
  <2> QED
      BY <2>1, <2>2, <2>3
<1>6. StreamSound'
    BY <1>1, <1>5 DEF HlsInv, StreamSound, StreamRecovers, ReattachEnds, StarvedStaysHls
<1> QED
    BY <1>2, <1>3, <1>4, <1>6 DEF HlsInv

LEMMA LateKeeps ==
    ASSUME HlsInv, NEW d \in Decision, Late(d)
    PROVE  HlsInv'
<1>1. DecisionsSound' /\ AwaitedSound' /\ StreamSound'
    BY DecisionsStay DEF HlsInv, AwaitedSound, StreamSound, StreamRecovers, ReattachEnds, StarvedStaysHls,
       Late, fileVars
<1>2. HeldSound'
    BY HlsFacts DEF HlsInv, HeldSound, SessionsInHand, NothingStale, SessionsAccounted, HeldIsWarm,
       Late, Delete
<1> QED
    BY <1>1, <1>2 DEF HlsInv

LEMMA FailuresKeep ==
    ASSUME HlsInv, Degrade \/ Unreachable \/ Refuse
    PROVE  HlsInv'
<1>1. /\ UNCHANGED <<video, enabled, decisions, reply, forced, reattaches, method, heard>>
      /\ current' = 0 /\ reattaching' = FALSE /\ status' \in {"ready", "error", "unavailable"}
      /\ forced => shown' = Blank
    BY DEF Degrade, Unreachable, Refuse, Settled, Degradable
<1>2. DecisionsSound' /\ Latest' = Latest
    BY <1>1, DecisionsStay DEF HlsInv
<1>3. AwaitedSound'
    BY <1>1, <1>2 DEF HlsInv, AwaitedSound
<1>4. HeldSound'
  <2>1. CASE Degrade
      BY <1>1, <2>1, LetGo DEF HlsInv, Degrade, Teardown, Delete
  <2>2. CASE Unreachable
      BY <1>1, <2>2, LetGo DEF HlsInv, Unreachable
  <2>3. CASE Refuse
      BY <1>1, <2>3, HlsFacts DEF HlsInv, HeldSound, SessionsInHand, NothingStale, SessionsAccounted, HeldIsWarm,
         Refuse
  <2> QED
      BY <2>1, <2>2, <2>3
<1>5. StreamSound'
    BY <1>1, HlsFacts DEF HlsInv, StreamSound, StreamRecovers, ReattachEnds, StarvedStaysHls
<1> QED
    BY <1>2, <1>3, <1>4, <1>5 DEF HlsInv

(***************************************************************************)
(* The decision effect: a source is opened, disabled, enabled or left.     *)
(***************************************************************************)
LEMMA StageKeeps ==
    ASSUME HlsInv, (\E v \in Video : Show(v)) \/ Disable \/ LeaveStage
    PROVE  HlsInv'
<1>1. HeldSound'
  <2>1. /\ shown' \in {Native, Blank} /\ Teardown /\ UNCHANGED heard
      BY DEF Show, Disable, LeaveStage
  <2>2. UNCHANGED stranded
      BY DEF Show, Disable, LeaveStage
  <2> QED
      BY <2>1, <2>2, LetGo DEF HlsInv, Teardown, Delete
<1>2. CASE Disable
  <2>1. DecisionsSound' /\ Latest' = Latest
      BY <1>2, DecisionsStay DEF HlsInv, Disable
  <2>2. AwaitedSound' /\ StreamSound'
      BY <1>2, <2>1, HlsFacts DEF HlsInv, AwaitedSound, StreamSound, StreamRecovers, ReattachEnds, StarvedStaysHls,
         Disable, fileVars
  <2> QED
      BY <1>1, <2>1, <2>2 DEF HlsInv
<1>3. CASE LeaveStage
  <2>1. DecisionsSound' /\ Latest' = Latest
      BY <1>3, DecisionsStay DEF HlsInv, LeaveStage
  <2>2. AwaitedSound' /\ StreamSound'
    <3>1. reattaches' \in 0..MaxReattach
        BY <1>3, HlsFacts DEF LeaveStage, Fresh
    <3> QED
        BY <1>3, <2>1, <3>1, HlsFacts DEF HlsInv, AwaitedSound, StreamSound, StreamRecovers, ReattachEnds,
           StarvedStaysHls, LeaveStage, Fresh
  <2> QED
      BY <1>1, <2>1, <2>2 DEF HlsInv
<1>4. ASSUME NEW v \in Video, Show(v)
      PROVE  HlsInv'
  <2>1. /\ video' = v /\ enabled' = TRUE /\ method' = "none" /\ forced' = FALSE
        /\ reattaches' = 0 /\ reattaching' = FALSE /\ UNCHANGED reply
      BY <1>4 DEF Show, Fresh
  <2>2. StreamSound'
    <3>1. reattaches' \in 0..MaxReattach
        BY <2>1, HlsFacts
    <3> QED
        BY <2>1, <3>1 DEF StreamSound, StreamRecovers, ReattachEnds, StarvedStaysHls
  <2>3. CASE v \in Rowless
    <3>1. status' = "ready" /\ current' = 0 /\ UNCHANGED decisions
        BY <1>4, <2>3 DEF Show
    <3>2. DecisionsSound' /\ Latest' = Latest
        BY <2>1, <3>1, DecisionsStay DEF HlsInv
    <3>3. AwaitedSound'
        BY <2>1, <3>1, <3>2 DEF AwaitedSound
    <3> QED
        BY <1>1, <2>2, <3>2, <3>3 DEF HlsInv
  <2>4. CASE v \notin Rowless
    <3>1. AskServer(v, FALSE)
        BY <1>4, <2>4 DEF Show
    <3>2. /\ DecisionsSound' /\ Latest' # 0
          /\ current' = Latest' /\ status' = "deciding"
          /\ decisions'[current'].video = v /\ decisions'[current'].forced = FALSE
        BY <2>1, <3>1, AskIs DEF HlsInv
    <3>3. AwaitedSound'
        BY <2>1, <3>2 DEF AwaitedSound
    <3> QED
        BY <1>1, <2>2, <3>2, <3>3 DEF HlsInv
  <2> QED
      BY <2>3, <2>4
<1> QED
    BY <1>2, <1>3, <1>4

LEMMA EnableKeeps ==
    ASSUME HlsInv, Enable
    PROVE  HlsInv'
<1>1. /\ video \in Video /\ enabled' = TRUE /\ UNCHANGED <<video, reply, fileVars, heard, stranded>>
    BY DEF HlsInv, AwaitedSound, Enable
<1>2. CASE video \in Rowless
  <2>1. /\ shown' = Native /\ status' = "ready" /\ current' = 0 /\ Teardown /\ UNCHANGED decisions
      BY <1>2 DEF Enable
  <2>2. DecisionsSound' /\ Latest' = Latest
      BY <1>1, <2>1, DecisionsStay DEF HlsInv
  <2>3. AwaitedSound' /\ StreamSound'
      BY <1>1, <1>2, <2>1, <2>2 DEF HlsInv, AwaitedSound, StreamSound, StreamRecovers, ReattachEnds,
         StarvedStaysHls, fileVars
  <2>4. HeldSound'
      BY <1>1, <2>1, LetGo DEF HlsInv, Teardown, Delete
  <2> QED
      BY <2>2, <2>3, <2>4 DEF HlsInv
<1>3. CASE video \notin Rowless
  <2>1. AskServer(video, forced) /\ UNCHANGED <<shown, live, warm, gone, released>> /\ forced \in BOOLEAN
      BY <1>3 DEF HlsInv, AwaitedSound, Enable
  <2>2. /\ DecisionsSound' /\ Latest' # 0
        /\ current' = Latest' /\ status' = "deciding"
        /\ decisions'[current'].video = video /\ decisions'[current'].forced = forced
        /\ \A d \in DOMAIN decisions : d \in DOMAIN decisions' /\ decisions'[d] = decisions[d]
      BY <1>1, <2>1, AskIs DEF HlsInv
  <2>3. AwaitedSound' /\ StreamSound'
      BY <1>1, <1>3, <2>1, <2>2 DEF HlsInv, AwaitedSound, StreamSound, StreamRecovers, ReattachEnds,
         StarvedStaysHls, fileVars
  <2>4. HeldSound'
      BY <1>1, <2>1, <2>2, HeldOn DEF HlsInv, HeldSound
  <2> QED
      BY <2>2, <2>3, <2>4 DEF HlsInv
<1> QED
    BY <1>2, <1>3

LEMMA NotePlayingKeeps ==
    ASSUME HlsInv, NotePlaying
    PROVE  HlsInv'
<1>1. reattaches' \in 0..MaxReattach
    BY HlsFacts DEF NotePlaying
<1>2. DecisionsSound' /\ Latest' = Latest
    BY DecisionsStay DEF HlsInv, NotePlaying
<1>3. AwaitedSound' /\ StreamSound'
    BY <1>1, <1>2 DEF HlsInv, AwaitedSound, StreamSound, StreamRecovers, ReattachEnds, StarvedStaysHls, NotePlaying
<1>4. HeldSound'
    BY HeldOn DEF HlsInv, HeldSound, NotePlaying
<1> QED
    BY <1>2, <1>3, <1>4 DEF HlsInv

LEMMA ExitTaskKeeps ==
    ASSUME HlsInv, ExitTask
    PROVE  HlsInv'
<1>1. DecisionsSound' /\ Latest' = Latest
    BY DecisionsStay DEF HlsInv, ExitTask
<1>2. AwaitedSound' /\ StreamSound'
    BY <1>1 DEF HlsInv, AwaitedSound, StreamSound, StreamRecovers, ReattachEnds, StarvedStaysHls, ExitTask, fileVars
<1>3. HeldSound'
    BY LetGo DEF HlsInv, ExitTask, Teardown, Delete
<1> QED
    BY <1>1, <1>2, <1>3 DEF HlsInv

LEMMA HlsNextInv == HlsInv /\ [HlsNext]_hlsVars => HlsInv'
<1> SUFFICES ASSUME HlsInv, [HlsNext]_hlsVars
             PROVE  HlsInv'
    OBVIOUS
<1>1. CASE UNCHANGED hlsVars
  <2>1. DecisionsSound' /\ Latest' = Latest
      BY <1>1, DecisionsStay DEF HlsInv, hlsVars
  <2>2. HeldSound'
      BY <1>1, HeldOn DEF HlsInv, HeldSound, hlsVars
  <2>3. AwaitedSound' /\ StreamSound'
      BY <1>1, <2>1 DEF HlsInv, AwaitedSound, StreamSound, StreamRecovers, ReattachEnds, StarvedStaysHls, hlsVars
  <2> QED
      BY <2>1, <2>2, <2>3 DEF HlsInv
<1> QED
    BY <1>1, AsksAgainKeep, ServerKeeps, AnswersKeep, LateKeeps, FailuresKeep, StageKeeps, EnableKeeps,
       NotePlayingKeeps, ExitTaskKeeps
    DEF HlsNext

LEMMA HlsInvHolds == HlsSpec => []HlsInv
BY HlsInitInv, HlsNextInv, PTL DEF HlsSpec

(***************************************************************************)
(* For any sources, decisions and failures: what is held and shown is of   *)
(* the source on stage and kept warm, and a session whose answer reached   *)
(* the page is held, was deleted, or was found gone. Excepted are those    *)
(* dropped when a decision times out or cannot be served, and when an      *)
(* error of the stream is taken for their end (useHlsSession).             *)
(***************************************************************************)
THEOREM SessionsStayInHand == HlsSpec => []SessionsInHand
<1>1. HlsInv => SessionsInHand
    BY DEF HlsInv, HeldSound
<1> QED
    BY <1>1, HlsInvHolds, PTL

(***************************************************************************)
(* For any sources, decisions and failures: a reattachment ends with its   *)
(* decision, and a source that starved is not played directly again        *)
(* (reattach, fallbackToHls).                                              *)
(***************************************************************************)
THEOREM StreamsRecover == HlsSpec => []StreamRecovers
<1>1. HlsInv => StreamRecovers
    BY DEF HlsInv, StreamSound
<1> QED
    BY <1>1, HlsInvHolds, PTL

-----------------------------------------------------------------------------
(* The grouping review                                                     *)

(***************************************************************************)
(* Forms of the draft, its commands and reviews, and of what pages show.   *)
(***************************************************************************)
AnyOp == Op \union {NoOp}
Known == [ready : BOOLEAN, revision : Nat, accepting : AnyOp, command : AnyOp]
Shown == [revision : Nat, seen : SUBSET Nat]
CommandState == {"absent", "queued", "running", "paused", "succeeded", "failed"}
ReviewState == {"none", "queued", "ready", "apply_queued", "applied", "retired", "cancelled", "failed"}
DraftForm == [phase : {"ready", "roles", "regroup", "export", "accepted"}, revision : Nat,
              accepting : AnyOp, content : Nat]
CommandForm == [state : CommandState, phase : Phase, action : Action, revision : Nat,
                shown : SUBSET Nat, rows : BOOLEAN, review : AnyOp]
ReviewForm == [state : ReviewState, of : Nat]
DialogForm == [known : Known \union {NoView}, pending : AnyOp, handled : AnyOp, settling : SUBSET Op,
               tree : Shown \union {NoView}, fetch : Shown \union {NoView},
               opened : Shown \union {NoView}]

GroupForms ==
    /\ workspace \in DraftForm
    /\ command \in [Op -> CommandForm]
    /\ reviews \in [Op -> ReviewForm]
    /\ dialog \in [Page -> DialogForm]
    /\ waiting \in [Page -> Sent \union {NoRequest}]
    /\ strays \subseteq Sent

\* a command that has not ended is in the queue
Enlisted ==
    /\ queue \in Seq(Op)
    /\ \A o \in Op : Unfinished(o) => \E i \in 1..Len(queue) : queue[i] = o

(***************************************************************************)
(* One command at most is under way in the draft (worker.step), and none   *)
(* before it was queued.                                                   *)
(***************************************************************************)
UnderWay(o) == Unfinished(o) /\ command[o].phase # "edit"

OneUnderWay ==
    /\ \A o \in Op :
        /\ command[o].state = "absent" => command[o].phase = "edit"
        /\ UnderWay(o) => command[o].phase = workspace.phase /\ command[o].revision = workspace.revision
    /\ \A o, q \in Op : UnderWay(o) /\ UnderWay(q) => o = q
    /\ workspace.phase \notin {"ready", "accepted"} => \E o \in Op : UnderWay(o)

(***************************************************************************)
(* The pending review is of the draft as it is, and no other review that   *)
(* was not revived waits (reconcile.cancel, reconcile.step).               *)
(***************************************************************************)
Frozen ==
    /\ workspace.accepting # NoOp =>
        /\ workspace.phase \in {"ready", "accepted"}
        /\ workspace.phase = "ready" => reviews[workspace.accepting].of = workspace.content
    /\ \A o \in Op \ revived :
        reviews[o].state \in {"queued", "ready", "apply_queued", "applied"} => workspace.accepting = o
    /\ workspace.phase = "accepted" => Reconciling

(***************************************************************************)
(* A revision tells the content, except while roles or accepted files are  *)
(* being written, which end in the next revision: what was read at the     *)
(* draft's revision is its content (pages.current).                        *)
(***************************************************************************)
Tells(r, viewed) ==
    /\ r <= workspace.revision
    /\ r = workspace.revision /\ workspace.phase \notin {"roles", "accepted"} => viewed = {workspace.content}

SeenTruly ==
    /\ \A o \in Op : command[o].rows => Tells(command[o].revision, command[o].shown)
    /\ \A p \in Page :
        /\ dialog[p].tree # NoView => Tells(dialog[p].tree.revision, dialog[p].tree.seen)
        /\ dialog[p].fetch # NoView => Tells(dialog[p].fetch.revision, dialog[p].fetch.seen)

\* only commands that have ended are being settled
SettlesEnded == \A p \in Page : \A o \in dialog[p].settling : Over(o)

GroupInv == GroupForms /\ Enlisted /\ OneUnderWay /\ Frozen /\ SeenTruly /\ SettlesEnded

(***************************************************************************)
(* The forms, field by field: what the steps below need of them.           *)
(***************************************************************************)
LEMMA OpsAreNumbers == Op \subseteq Nat \ {0} /\ NoOp \notin Op /\ 1 \in Op
BY GroupAssumption DEF Op, NoOp

LEMMA DraftFields ==
    ASSUME workspace \in DraftForm
    PROVE  /\ workspace.revision \in Nat /\ workspace.content \in Nat /\ workspace.accepting \in AnyOp
           /\ workspace.phase \in {"ready", "roles", "regroup", "export", "accepted"}
BY DEF DraftForm

LEMMA DraftMoves ==
    ASSUME NEW w \in DraftForm, NEW ph \in {"ready", "roles", "regroup", "export", "accepted"},
           NEW n \in Nat, NEW c \in Nat, NEW a \in AnyOp
    PROVE  /\ [w EXCEPT !.phase = ph] \in DraftForm
           /\ [w EXCEPT !.phase = ph, !.content = c] \in DraftForm
           /\ [w EXCEPT !.phase = ph, !.revision = n, !.content = c] \in DraftForm
           /\ [w EXCEPT !.phase = ph, !.accepting = a] \in DraftForm
           /\ [w EXCEPT !.accepting = a, !.revision = n] \in DraftForm
           /\ [w EXCEPT !.phase = ph, !.accepting = a, !.revision = n] \in DraftForm
BY DEF DraftForm

LEMMA CommandMoves ==
    ASSUME NEW c \in CommandForm, NEW st \in CommandState, NEW ph \in Phase
    PROVE  /\ [c EXCEPT !.state = st] \in CommandForm
           /\ [c EXCEPT !.state = st, !.phase = ph] \in CommandForm
           /\ [Unsent EXCEPT !.state = st] \in CommandForm
BY DEF CommandForm, Unsent, Phase, Action, AnyOp

LEMMA ReviewMoves ==
    ASSUME NEW v \in ReviewForm, NEW st \in ReviewState, NEW n \in Nat
    PROVE  [v EXCEPT !.state = st] \in ReviewForm /\ [state |-> st, of |-> n] \in ReviewForm
BY DEF ReviewForm

(***************************************************************************)
(* What is told of a revision stays true: the draft goes on to the next    *)
(* revision, or to writing it, or its content is as it was.                *)
(***************************************************************************)
Steadily ==
    \/ workspace' = workspace
    \/ workspace'.revision = workspace.revision + 1
    \/ /\ workspace'.revision = workspace.revision
       /\ \/ workspace'.phase \in {"roles", "accepted"}
          \/ workspace'.content = workspace.content /\ workspace.phase \notin {"roles", "accepted"}

\* ended commands stay ended, and none tells more than when it was made
CommandsGoOn ==
    \A q \in Op :
        /\ Over(q) => Over(q)'
        /\ command'[q].rows =>
            /\ command[q].rows
            /\ command'[q].revision = command[q].revision /\ command'[q].shown = command[q].shown

LEMMA TellsOn ==
    ASSUME workspace \in DraftForm, Steadily, NEW r \in Nat, NEW viewed, Tells(r, viewed)
    PROVE  Tells(r, viewed)'
BY DraftFields DEF Steadily, Tells

LEMMA PagesStayTrue ==
    ASSUME GroupInv, Steadily, CommandsGoOn, UNCHANGED dialog
    PROVE  SeenTruly' /\ SettlesEnded'
<1>1. workspace \in DraftForm /\ command \in [Op -> CommandForm] /\ dialog \in [Page -> DialogForm]
    BY DEF GroupInv, GroupForms
<1>2. ASSUME NEW q \in Op, command'[q].rows
      PROVE  Tells(command[q].revision, command[q].shown)'
  <2>1. command[q].rows /\ command[q].revision \in Nat
      BY <1>1, <1>2 DEF CommandsGoOn, CommandForm
  <2> QED
      BY <1>1, <1>2, <2>1, TellsOn DEF GroupInv, SeenTruly, CommandsGoOn, Tells
<1>3. ASSUME NEW p \in Page, NEW view \in {dialog[p].tree, dialog[p].fetch}, view # NoView
      PROVE  Tells(view.revision, view.seen)'
  <2>1. view.revision \in Nat /\ Tells(view.revision, view.seen)
      BY <1>1, <1>3 DEF GroupInv, SeenTruly, DialogForm, Shown
  <2> QED
      BY <1>1, <2>1, TellsOn DEF Tells
<1>4. SeenTruly'
    BY <1>2, <1>3 DEF SeenTruly, Tells
<1>5. SettlesEnded'
    BY <1>1 DEF GroupInv, SettlesEnded, CommandsGoOn, Over, DialogForm
<1> QED
    BY <1>4, <1>5

(***************************************************************************)
(* A step of the worker for a command: the command goes on or ends, and    *)
(* the others stay (grouping/worker.step).                                 *)
(***************************************************************************)
WorkerStep(o) ==
    CancelReview(o) \/ BeginEdit(o) \/ BeginPrepare(o) \/ FinishEdit(o) \/ QueueReview(o) \/ RefuseCommand(o)

LEMMA Turns ==
    ASSUME NEW o \in Op, WorkerStep(o)
    PROVE  /\ Turn(o) /\ Live(o) /\ Unfinished(o) /\ ~Reconciling
           /\ UNCHANGED <<queue, dialog, waiting, strays, revived>>
BY DEF WorkerStep, CancelReview, BeginEdit, BeginPrepare, FinishEdit, QueueReview, RefuseCommand,
       WorkerLeaves, Turn, Live, Unfinished

LEMMA TurnsForms ==
    ASSUME GroupInv, NEW o \in Op, WorkerStep(o)
    PROVE  /\ workspace' \in DraftForm
           /\ reviews' \in [Op -> ReviewForm]
           /\ \/ \E ph \in Phase \ {"edit"} :
                    command' = [command EXCEPT ![o] = [command[o] EXCEPT !.state = "running", !.phase = ph]]
              \/ \E st \in {"succeeded", "failed"} :
                    command' = [command EXCEPT ![o] = [Unsent EXCEPT !.state = st]]
<1>1. /\ workspace \in DraftForm /\ command \in [Op -> CommandForm] /\ reviews \in [Op -> ReviewForm]
      /\ NoOp \in AnyOp /\ o \in AnyOp
    BY DEF GroupInv, GroupForms, AnyOp
<1>2. /\ workspace.revision + 1 \in Nat /\ workspace.content \in Nat /\ workspace.content + 1 \in Nat
      /\ workspace.phase \in {"ready", "roles", "regroup", "export", "accepted"}
    BY <1>1, DraftFields
<1>3. CASE CancelReview(o)
  <2>1. workspace' \in DraftForm
      BY <1>1, <1>2, <1>3, DraftMoves DEF CancelReview
  <2>2. reviews' \in [Op -> ReviewForm]
      BY <1>1, <1>3, ReviewMoves DEF CancelReview, ReviewState
  <2> QED
      BY <1>3, <2>1, <2>2 DEF CancelReview, End
<1>4. CASE BeginEdit(o)
  <2>1. CASE Finished(TRUE) /\ End(o, "succeeded")
      BY <1>1, <1>2, <1>4, <2>1, DraftMoves DEF BeginEdit, Finished, End
  <2>2. CASE Phased("roles", TRUE) /\ To(o, "roles")
    <3>1. workspace' \in DraftForm
        BY <1>1, <1>2, <2>2, DraftMoves DEF Phased
    <3>2. command' = [command EXCEPT ![o] = [command[o] EXCEPT !.state = "running", !.phase = "roles"]]
        BY <1>1, <2>2 DEF To
    <3> QED
        BY <1>1, <1>4, <3>1, <3>2 DEF BeginEdit, Phase
  <2>3. CASE Phased("regroup", FALSE) /\ To(o, "regroup")
    <3>1. workspace' \in DraftForm
        BY <1>1, <1>2, <2>3, DraftMoves DEF Phased
    <3>2. command' = [command EXCEPT ![o] = [command[o] EXCEPT !.state = "running", !.phase = "regroup"]]
        BY <1>1, <2>3 DEF To
    <3> QED
        BY <1>1, <1>4, <3>1, <3>2 DEF BeginEdit, Phase
  <2> QED
      BY <1>4, <2>1, <2>2, <2>3 DEF BeginEdit
<1>5. CASE BeginPrepare(o)
  <2>1. workspace' \in DraftForm
      BY <1>1, <1>2, <1>5, DraftMoves DEF BeginPrepare, Phased
  <2>2. command' = [command EXCEPT ![o] = [command[o] EXCEPT !.state = "running", !.phase = "export"]]
      BY <1>1, <1>5 DEF BeginPrepare, To
  <2> QED
      BY <1>1, <1>5, <2>1, <2>2 DEF BeginPrepare, Phase
<1>6. CASE FinishEdit(o)
  <2>1. workspace' \in DraftForm
      BY <1>1, <1>2, <1>6, DraftMoves DEF FinishEdit, Finished
  <2> QED
      BY <1>1, <1>6, <2>1 DEF FinishEdit, End
<1>7. CASE QueueReview(o)
  <2>1. workspace' \in DraftForm
      BY <1>1, <1>2, <1>7, DraftMoves DEF QueueReview
  <2>2. [state |-> "queued", of |-> workspace.content] \in ReviewForm
      BY <1>1, <1>2, ReviewMoves DEF ReviewState
  <2> QED
      BY <1>1, <1>7, <2>1, <2>2 DEF QueueReview, End
<1>8. CASE RefuseCommand(o)
  <2>1. workspace' \in DraftForm
      BY <1>1, <1>2, <1>8, DraftMoves DEF RefuseCommand, Released
  <2> QED
      BY <1>1, <1>8, <2>1 DEF RefuseCommand, End
<1> QED
    BY <1>3, <1>4, <1>5, <1>6, <1>7, <1>8 DEF WorkerStep

LEMMA TurnsCommands ==
    ASSUME GroupInv, NEW o \in Op, WorkerStep(o)
    PROVE  /\ command' \in [Op -> CommandForm]
           /\ \A q \in Op \ {o} : command'[q] = command[q]
           /\ command'[o].state \in {"running", "succeeded", "failed"}
           /\ CommandsGoOn
<1>1. command \in [Op -> CommandForm] /\ Live(o)
    BY Turns DEF GroupInv, GroupForms
<1>2. CASE \E ph \in Phase \ {"edit"} :
               command' = [command EXCEPT ![o] = [command[o] EXCEPT !.state = "running", !.phase = ph]]
  <2>1. PICK ph \in Phase \ {"edit"} :
               command' = [command EXCEPT ![o] = [command[o] EXCEPT !.state = "running", !.phase = ph]]
      BY <1>2
  <2>2. [command[o] EXCEPT !.state = "running", !.phase = ph] \in CommandForm
      BY <1>1, CommandMoves DEF CommandState
  <2>3. command' \in [Op -> CommandForm] /\ \A q \in Op \ {o} : command'[q] = command[q]
      BY <1>1, <2>1, <2>2
  <2>4. /\ command'[o].state = "running" /\ command'[o].rows = command[o].rows
        /\ command'[o].revision = command[o].revision /\ command'[o].shown = command[o].shown
      BY <1>1, <2>1 DEF CommandForm
  <2> QED
      BY <1>1, <2>3, <2>4 DEF CommandsGoOn, Over, Live
<1>3. CASE \E st \in {"succeeded", "failed"} :
               command' = [command EXCEPT ![o] = [Unsent EXCEPT !.state = st]]
  <2>1. PICK st \in {"succeeded", "failed"} :
               command' = [command EXCEPT ![o] = [Unsent EXCEPT !.state = st]]
      BY <1>3
  <2>2. [Unsent EXCEPT !.state = st] \in CommandForm
      BY <1>1, CommandMoves DEF CommandState, Phase
  <2>3. command' \in [Op -> CommandForm] /\ \A q \in Op \ {o} : command'[q] = command[q]
      BY <1>1, <2>1, <2>2
  <2>4. command'[o].state \in {"succeeded", "failed"} /\ command'[o].rows = FALSE
      BY <1>1, <2>1 DEF Unsent
  <2> QED
      BY <1>1, <2>3, <2>4 DEF CommandsGoOn, Over, Live
<1> QED
    BY <1>2, <1>3, TurnsForms

(***************************************************************************)
(* The draft after a step: who is under way, and what its phase was.       *)
(***************************************************************************)
LEMMA TurnsSteadily ==
    ASSUME GroupInv, NEW o \in Op, WorkerStep(o)
    PROVE  Steadily
<1>1. workspace \in DraftForm /\ Unfinished(o)
    BY Turns DEF GroupInv, GroupForms
<1>2. UnderWay(o) => command[o].phase = workspace.phase
    BY DEF GroupInv, OneUnderWay
<1>3. CASE CancelReview(o)
    BY <1>1, <1>3 DEF CancelReview, Steadily, DraftForm
<1>4. CASE BeginEdit(o)
    BY <1>1, <1>4 DEF BeginEdit, Finished, Phased, Steadily, DraftForm, Current, Ready
<1>5. CASE BeginPrepare(o)
    BY <1>1, <1>5 DEF BeginPrepare, Phased, Steadily, DraftForm, Current, Ready
<1>6. CASE FinishEdit(o)
    BY <1>1, <1>6 DEF FinishEdit, Finished, Steadily, DraftForm
<1>7. CASE QueueReview(o)
    BY <1>1, <1>2, <1>7 DEF QueueReview, Steadily, DraftForm, UnderWay
<1>8. CASE RefuseCommand(o)
    BY <1>1, <1>2, <1>8 DEF RefuseCommand, Released, Steadily, DraftForm, UnderWay
<1> QED
    BY <1>3, <1>4, <1>5, <1>6, <1>7, <1>8 DEF WorkerStep

LEMMA ReadyIsFree ==
    ASSUME GroupInv, workspace.phase \in {"ready", "accepted"}
    PROVE  \A q \in Op : ~UnderWay(q)
<1>1. \A q \in Op : command[q].phase \in Phase
    BY DEF GroupInv, GroupForms, CommandForm
<1> QED
    BY <1>1 DEF GroupInv, OneUnderWay, Phase

\* one command under way before a step that ends it: none afterwards
LEMMA EndsWork ==
    ASSUME GroupInv, NEW o \in Op, WorkerStep(o), command'[o].state \in {"succeeded", "failed"},
           UnderWay(o) \/ workspace.phase = "ready"
    PROVE  \A q \in Op : ~UnderWay(q)'
<1>1. \A q \in Op \ {o} : command'[q] = command[q]
    BY TurnsCommands
<1>2. \A q \in Op \ {o} : ~UnderWay(q)
    BY ReadyIsFree DEF GroupInv, OneUnderWay
<1> QED
    BY <1>1, <1>2 DEF UnderWay, Unfinished

LEMMA TurnsUnderWay ==
    ASSUME GroupInv, NEW o \in Op, WorkerStep(o)
    PROVE  OneUnderWay'
<1>1. /\ workspace \in DraftForm /\ command \in [Op -> CommandForm] /\ Unfinished(o)
      /\ \A q \in Op \ {o} : command'[q] = command[q]
      /\ command'[o].state \in {"running", "succeeded", "failed"}
    BY Turns, TurnsCommands DEF GroupInv, GroupForms
<1>2. \A q \in Op : command'[q].state = "absent" => command'[q].phase = "edit"
    BY <1>1 DEF GroupInv, OneUnderWay
<1>3. ASSUME \A q \in Op : ~UnderWay(q)', workspace'.phase \in {"ready", "accepted"}
      PROVE  OneUnderWay'
    BY <1>2, <1>3 DEF OneUnderWay
<1>4. ASSUME NEW ph \in {"roles", "regroup", "export"}, Current(command[o].revision),
             command' = [command EXCEPT ![o] = [command[o] EXCEPT !.state = "running", !.phase = ph]],
             workspace'.phase = ph, workspace'.revision = workspace.revision
      PROVE  OneUnderWay'
  <2>1. \A q \in Op : ~UnderWay(q)
      BY <1>4, ReadyIsFree DEF Current, Ready
  <2>2. /\ command'[o].state = "running" /\ command'[o].phase = ph
        /\ command'[o].revision = workspace'.revision
      BY <1>1, <1>4 DEF CommandForm, Current
  <2>3. \A q \in Op : UnderWay(q)' <=> q = o
      BY <1>1, <2>1, <2>2 DEF UnderWay, Unfinished
  <2> QED
      BY <1>2, <1>4, <2>2, <2>3 DEF OneUnderWay
<1>5. CASE CancelReview(o)
  <2>1. command'[o].state = "succeeded" /\ workspace.phase = "ready" /\ workspace'.phase = "ready"
      BY <1>1, <1>5 DEF CancelReview, End, Unsent, Current, Ready, DraftForm
  <2> QED
      BY <1>3, <2>1, EndsWork
<1>6. CASE BeginEdit(o)
  <2>1. CASE Finished(TRUE) /\ End(o, "succeeded")
    <3>1. command'[o].state = "succeeded" /\ workspace.phase = "ready" /\ workspace'.phase = "ready"
        BY <1>1, <1>6, <2>1 DEF BeginEdit, End, Unsent, Current, Ready, DraftForm, Finished
    <3> QED
        BY <1>3, <3>1, EndsWork
  <2>2. ASSUME NEW ph \in {"roles", "regroup"}, NEW w \in BOOLEAN, Phased(ph, w) /\ To(o, ph)
        PROVE  OneUnderWay'
    <3>1. workspace'.phase = ph /\ workspace'.revision = workspace.revision
        BY <1>1, <2>2 DEF Phased, DraftForm
    <3>2. command' = [command EXCEPT ![o] = [command[o] EXCEPT !.state = "running", !.phase = ph]]
        BY <1>1, <2>2 DEF To
    <3> QED
        BY <1>4, <1>6, <3>1, <3>2 DEF BeginEdit
  <2> QED
      BY <1>6, <2>1, <2>2 DEF BeginEdit
<1>7. CASE BeginPrepare(o)
  <2>1. workspace'.phase = "export" /\ workspace'.revision = workspace.revision
      BY <1>1, <1>7 DEF BeginPrepare, Phased, DraftForm
  <2>2. command' = [command EXCEPT ![o] = [command[o] EXCEPT !.state = "running", !.phase = "export"]]
      BY <1>1, <1>7 DEF BeginPrepare, To
  <2> QED
      BY <1>4, <1>7, <2>1, <2>2 DEF BeginPrepare
<1>8. CASE FinishEdit(o) \/ QueueReview(o)
  <2>1. command'[o].state = "succeeded" /\ UnderWay(o) /\ workspace'.phase = "ready"
      BY <1>1, <1>8 DEF FinishEdit, QueueReview, Finished, End, Unsent, DraftForm, UnderWay
  <2> QED
      BY <1>3, <2>1, EndsWork
<1>9. CASE RefuseCommand(o)
  <2>1. command'[o].state = "failed"
      BY <1>1, <1>9 DEF RefuseCommand, End, Unsent
  <2>2. CASE command[o].phase = "edit"
    <3>1. UNCHANGED workspace
        BY <1>9, <2>2 DEF RefuseCommand, Released
    <3>2. \A q \in Op : UnderWay(q)' <=> UnderWay(q)
        BY <1>1, <2>1, <2>2 DEF UnderWay, Unfinished
    <3> QED
        BY <1>1, <1>2, <2>1, <2>2, <3>1, <3>2 DEF GroupInv, OneUnderWay, UnderWay
  <2>3. CASE command[o].phase # "edit"
    <3>1. UnderWay(o) /\ workspace'.phase = "ready"
        BY <1>1, <1>9, <2>3 DEF RefuseCommand, Released, UnderWay, DraftForm
    <3> QED
        BY <1>3, <2>1, <3>1, EndsWork
  <2> QED
      BY <2>2, <2>3
<1> QED
    BY <1>5, <1>6, <1>7, <1>8, <1>9 DEF WorkerStep

LEMMA TurnsFrozen ==
    ASSUME GroupInv, NEW o \in Op, WorkerStep(o)
    PROVE  Frozen'
<1>1. /\ workspace \in DraftForm /\ reviews \in [Op -> ReviewForm] /\ Unfinished(o)
      /\ ~Reconciling /\ revived' = revived
    BY Turns DEF GroupInv, GroupForms
<1>2. workspace.phase # "accepted" /\ (workspace.phase # "ready" => workspace.accepting = NoOp)
    BY <1>1 DEF GroupInv, Frozen
<1>3. UnderWay(o) => workspace.phase = command[o].phase
    BY DEF GroupInv, OneUnderWay
<1>4. ASSUME workspace.accepting = NoOp, workspace'.accepting = NoOp, reviews' = reviews,
             workspace'.phase # "accepted"
      PROVE  Frozen'
    BY <1>1, <1>4 DEF GroupInv, Frozen
<1>5. CASE CancelReview(o)
  <2>1. /\ workspace.phase = "ready" /\ workspace'.phase = "ready" /\ workspace'.accepting = NoOp
        /\ workspace.accepting \in Op
      BY <1>1, <1>5 DEF CancelReview, Current, Ready, DraftForm, AnyOp
  <2>2. /\ reviews'[workspace.accepting].state = "cancelled"
        /\ \A q \in Op \ {workspace.accepting} : reviews'[q] = reviews[q]
      BY <1>1, <1>5, <2>1 DEF CancelReview, ReviewForm
  <2> QED
      BY <1>1, <2>1, <2>2 DEF GroupInv, Frozen
<1>6. CASE BeginEdit(o) \/ BeginPrepare(o)
  <2>1. workspace.accepting = NoOp /\ workspace'.accepting = NoOp
      BY <1>1, <1>6 DEF BeginEdit, BeginPrepare, Finished, Phased, DraftForm
  <2>2. workspace'.phase # "accepted" /\ reviews' = reviews
      BY <1>1, <1>6 DEF BeginEdit, BeginPrepare, Finished, Phased, DraftForm
  <2> QED
      BY <1>4, <2>1, <2>2
<1>7. CASE FinishEdit(o)
  <2>1. workspace.accepting = NoOp
      BY <1>1, <1>2, <1>3, <1>7 DEF FinishEdit, UnderWay
  <2>2. workspace'.accepting = NoOp /\ workspace'.phase # "accepted" /\ reviews' = reviews
      BY <1>1, <1>7, <2>1 DEF FinishEdit, Finished, DraftForm
  <2> QED
      BY <1>4, <2>1, <2>2
<1>8. CASE QueueReview(o)
  <2>1. workspace.accepting = NoOp
      BY <1>1, <1>2, <1>3, <1>8 DEF QueueReview, UnderWay
  <2>2. workspace'.accepting = o /\ workspace'.phase = "ready" /\ workspace'.content = workspace.content
      BY <1>1, <1>8 DEF QueueReview, DraftForm
  <2>3. reviews'[o].of = workspace.content /\ \A q \in Op \ {o} : reviews'[q] = reviews[q]
      BY <1>1, <1>8 DEF QueueReview
  <2>4. \A q \in Op \ revived : reviews[q].state \notin {"queued", "ready", "apply_queued", "applied"}
      BY <2>1, OpsAreNumbers DEF GroupInv, Frozen
  <2> QED
      BY <1>1, <2>2, <2>3, <2>4 DEF Frozen
<1>9. CASE RefuseCommand(o)
  <2>1. CASE command[o].phase = "edit"
    <3>1. UNCHANGED <<workspace, reviews, revived>>
        BY <1>1, <1>9, <2>1 DEF RefuseCommand, Released
    <3> QED
        BY <3>1 DEF GroupInv, Frozen, Reconciling
  <2>2. CASE command[o].phase # "edit"
    <3>1. workspace.accepting = NoOp
        BY <1>1, <1>2, <1>3, <1>9, <2>2 DEF RefuseCommand, UnderWay
    <3>2. workspace'.accepting = NoOp /\ workspace'.phase # "accepted" /\ reviews' = reviews
        BY <1>1, <1>9, <2>2, <3>1 DEF RefuseCommand, Released, DraftForm
    <3> QED
        BY <1>4, <3>1, <3>2
  <2> QED
      BY <2>1, <2>2
<1> QED
    BY <1>5, <1>6, <1>7, <1>8, <1>9 DEF WorkerStep

LEMMA WorkerKeeps ==
    ASSUME GroupInv, NEW o \in Op, WorkerStep(o)
    PROVE  GroupInv'
<1>1. GroupForms'
    BY Turns, TurnsForms, TurnsCommands DEF GroupInv, GroupForms
<1>2. Enlisted'
    BY Turns, TurnsCommands DEF GroupInv, Enlisted, Unfinished
<1>3. SeenTruly' /\ SettlesEnded'
    BY Turns, TurnsCommands, TurnsSteadily, PagesStayTrue
<1> QED
    BY <1>1, <1>2, <1>3, TurnsUnderWay, TurnsFrozen DEF GroupInv

(***************************************************************************)
(* The rest of the server: accepted files are retired, reviews are         *)
(* prepared, applied, cancelled and revived, and a recovery pauses all.    *)
(***************************************************************************)
LEMMA ReconcileKeeps ==
    ASSUME GroupInv, Reconcile \/ Retire
    PROVE  GroupInv'
<1>1. /\ workspace \in DraftForm /\ reviews \in [Op -> ReviewForm] /\ NoOp \in AnyOp
      /\ workspace.accepting \in Op /\ reviews[workspace.accepting].state = "applied"
      /\ workspace.phase \in {"ready", "accepted"}
      /\ UNCHANGED <<command, queue, dialog, waiting, strays, revived>>
    BY DEF GroupInv, GroupForms, AnyOp, Reconcile, Retire, Reconciling, Ready, WorkerLeaves, DraftForm
<1>2. workspace.revision + 1 \in Nat /\ workspace.content + 1 \in Nat
    BY <1>1, DraftFields
<1>3. CommandsGoOn
    BY <1>1 DEF CommandsGoOn, Over
<1>4. Enlisted'
    BY <1>1 DEF GroupInv, Enlisted, Unfinished
<1>5. \A q \in Op : ~UnderWay(q)'
    BY <1>1, ReadyIsFree DEF UnderWay, Unfinished
<1>6. CASE Reconcile
  <2>1. /\ workspace'.phase = "accepted" /\ workspace'.revision = workspace.revision
        /\ workspace'.accepting = workspace.accepting /\ workspace' \in DraftForm
    <3>1. workspace' \in DraftForm
        BY <1>1, <1>2, <1>6, DraftMoves DEF Reconcile, Phased
    <3> QED
        BY <1>1, <1>6, <3>1 DEF Reconcile, Phased, DraftForm
  <2>2. GroupForms' /\ Frozen'
      BY <1>1, <1>6, <2>1 DEF GroupInv, GroupForms, Frozen, Reconcile, Reconciling
  <2>3. OneUnderWay'
      BY <1>1, <1>5, <2>1 DEF GroupInv, OneUnderWay
  <2>4. Steadily
      BY <2>1 DEF Steadily
  <2> QED
      BY <1>1, <1>3, <1>4, <2>2, <2>3, <2>4, PagesStayTrue DEF GroupInv
<1>7. CASE Retire
  <2>1. /\ workspace'.phase = "ready" /\ workspace'.revision = workspace.revision + 1
        /\ workspace'.accepting = NoOp /\ workspace' \in DraftForm
    <3>1. workspace' \in DraftForm
        BY <1>1, <1>2, <1>7, DraftMoves DEF Retire
    <3> QED
        BY <1>1, <1>7, <3>1 DEF Retire, DraftForm
  <2>2. /\ reviews' \in [Op -> ReviewForm] /\ reviews'[workspace.accepting].state = "retired"
        /\ \A q \in Op \ {workspace.accepting} : reviews'[q] = reviews[q]
    <3>1. [state |-> "retired", of |-> 0] \in ReviewForm
        BY DEF ReviewForm, ReviewState
    <3> QED
        BY <1>1, <1>7, <3>1 DEF Retire
  <2>3. GroupForms' /\ Frozen'
      BY <1>1, <2>1, <2>2 DEF GroupInv, GroupForms, Frozen
  <2>4. OneUnderWay'
      BY <1>1, <1>5, <2>1 DEF GroupInv, OneUnderWay
  <2>5. Steadily
      BY <2>1 DEF Steadily
  <2> QED
      BY <1>1, <1>3, <1>4, <2>3, <2>4, <2>5, PagesStayTrue DEF GroupInv
<1> QED
    BY <1>6, <1>7

(***************************************************************************)
(* Reviews alone change: none that is applied is touched, and one that was *)
(* not pending is so only once it is revived.                              *)
(***************************************************************************)
Waits == {"queued", "ready", "apply_queued", "applied"}

LEMMA ReviewsKeep ==
    ASSUME GroupInv, reviews' \in [Op -> ReviewForm], revived \subseteq revived',
           \A q \in Op :
              /\ reviews'[q].of = reviews[q].of
              /\ reviews[q].state = "applied" => reviews'[q].state = "applied"
              /\ reviews'[q].state \in Waits => reviews[q].state \in Waits \/ q \in revived',
           UNCHANGED <<workspace, command, queue, dialog>>,
           waiting' \in [Page -> Sent \union {NoRequest}], strays' \subseteq Sent
    PROVE  GroupInv'
<1>1. GroupForms' /\ Enlisted'
    BY DEF GroupInv, GroupForms, Enlisted, Unfinished
<1>2. OneUnderWay'
    BY DEF GroupInv, OneUnderWay, UnderWay, Unfinished
<1>3. Frozen'
  <2>1. workspace.accepting # NoOp => workspace.accepting \in Op
      BY DEF GroupInv, GroupForms, DraftForm, AnyOp
  <2>2. (workspace.phase = "accepted" => Reconciling)'
      BY <2>1 DEF GroupInv, Frozen, Reconciling
  <2> QED
      BY <2>1, <2>2 DEF GroupInv, Frozen, Waits
<1>4. SeenTruly' /\ SettlesEnded'
    BY PagesStayTrue DEF Steadily, CommandsGoOn, Over
<1> QED
    BY <1>1, <1>2, <1>3, <1>4 DEF GroupInv

ReviewsMove(o) == ReviewStep(o) \/ DeleteReview(o) \/ Revive(o) \/ AcceptSaved(o)

LEMMA ReviewsMoveKeeps ==
    ASSUME GroupInv, NEW o \in Op, ReviewsMove(o)
    PROVE  GroupInv'
<1>1. /\ reviews \in [Op -> ReviewForm] /\ waiting \in [Page -> Sent \union {NoRequest}]
      /\ strays \subseteq Sent /\ UNCHANGED <<workspace, command, queue, dialog, waiting, strays>>
    BY DEF GroupInv, GroupForms, ReviewsMove, ReviewStep, DeleteReview, Revive, AcceptSaved, WorkerLeaves
<1>2. PICK st \in ReviewState :
        /\ reviews' = [reviews EXCEPT ![o].state = st]
        /\ reviews[o].state = "applied" => st = "applied"
        /\ st \in Waits => reviews[o].state \in Waits \/ o \in revived'
        /\ revived \subseteq revived'
  <2>1. CASE ReviewStep(o)
      BY <2>1 DEF ReviewStep, WorkerLeaves, ReviewState, Waits
  <2>2. CASE DeleteReview(o)
      BY <2>2 DEF DeleteReview, ReviewState, Waits
  <2>3. CASE Revive(o)
      BY <2>3 DEF Revive, ReviewState, Waits
  <2>4. CASE AcceptSaved(o)
      BY <1>1, <2>4 DEF AcceptSaved, AcceptReview, WorkerLeaves, ReviewState, Waits
  <2> QED
      BY <2>1, <2>2, <2>3, <2>4 DEF ReviewsMove
<1>3. reviews'[o].state = st /\ reviews'[o].of = reviews[o].of
    BY <1>1, <1>2 DEF ReviewForm
<1>4. reviews' \in [Op -> ReviewForm] /\ \A q \in Op \ {o} : reviews'[q] = reviews[q]
    BY <1>1, <1>2, ReviewMoves
<1> QED
    BY <1>1, <1>2, <1>3, <1>4, ReviewsKeep

LEMMA RecoverKeeps ==
    ASSUME GroupInv, Recover
    PROVE  GroupInv'
<1>1. /\ reviews \in [Op -> ReviewForm] /\ command \in [Op -> CommandForm]
      /\ UNCHANGED <<workspace, queue, dialog, waiting, strays, revived>>
    BY DEF GroupInv, GroupForms, Recover
<1>2. \A q \in Op : command'[q] = IF Live(q) THEN [command[q] EXCEPT !.state = "paused"] ELSE command[q]
    BY DEF Recover
<1>3. \A q \in Op : [command[q] EXCEPT !.state = "paused"] \in CommandForm
    BY <1>1, CommandMoves DEF CommandState, Phase
<1>4. command' \in [Op -> CommandForm]
    BY <1>1, <1>3 DEF Recover
<1>5. \A q \in Op :
        /\ Live(q) => command'[q].state = "paused"
        /\ ~Live(q) => command'[q].state = command[q].state
        /\ command'[q].phase = command[q].phase /\ command'[q].revision = command[q].revision
        /\ command'[q].rows = command[q].rows /\ command'[q].shown = command[q].shown
    BY <1>1, <1>2 DEF CommandForm
<1>6. \A q \in Op : /\ Unfinished(q)' <=> Unfinished(q)
                    /\ UnderWay(q)' <=> UnderWay(q)
                    /\ command'[q].state = "absent" <=> command[q].state = "absent"
    BY <1>5 DEF Unfinished, UnderWay, Live
<1>7. Enlisted' /\ OneUnderWay'
    BY <1>1, <1>5, <1>6 DEF GroupInv, Enlisted, OneUnderWay
<1>8. \A q \in Op : [reviews[q] EXCEPT !.state = "failed"] \in ReviewForm
    BY <1>1, ReviewMoves DEF ReviewState
<1>9. /\ reviews' \in [Op -> ReviewForm]
      /\ \A q \in Op : /\ reviews'[q].of = reviews[q].of
                       /\ reviews'[q].state = reviews[q].state
                          \/ (reviews'[q].state = "failed" /\ reviews[q].state # "applied")
    BY <1>1, <1>8 DEF Recover, ReviewForm
<1>10. Frozen'
  <2>1. workspace.accepting # NoOp => workspace.accepting \in Op
      BY DEF GroupInv, GroupForms, DraftForm, AnyOp
  <2>2. (workspace.phase = "accepted" => Reconciling)'
      BY <1>1, <1>9, <2>1 DEF GroupInv, Frozen, Reconciling
  <2> QED
      BY <1>1, <1>9, <2>1, <2>2 DEF GroupInv, Frozen
<1>11. SeenTruly' /\ SettlesEnded'
  <2>1. CommandsGoOn
      BY <1>5 DEF CommandsGoOn, Over, Live
  <2> QED
      BY <1>1, <2>1, PagesStayTrue DEF Steadily
<1> QED
    BY <1>1, <1>4, <1>7, <1>9, <1>10, <1>11 DEF GroupInv, GroupForms

(***************************************************************************)
(* A command is queued, by a page, another device, a late request or the   *)
(* owner who resumes it where it was (storage.enqueue, storage.retry).     *)
(***************************************************************************)
LEMMA QueuedKeeps ==
    ASSUME GroupInv, NEW o \in Op, command[o].state \in {"absent", "paused"},
           NEW c \in CommandForm, command' = [command EXCEPT ![o] = c],
           c.state = "queued", c.phase = command[o].phase,
           c.revision = command[o].revision \/ command[o].state = "absent",
           c.rows => command[o].rows /\ c.revision = command[o].revision /\ c.shown = command[o].shown,
           queue' = Append(queue, o) \/ (queue' = queue /\ command[o].state = "paused"),
           UNCHANGED <<workspace, reviews, dialog, revived>>,
           waiting' \in [Page -> Sent \union {NoRequest}], strays' \subseteq Sent
    PROVE  GroupInv'
<1>1. /\ command \in [Op -> CommandForm] /\ queue \in Seq(Op)
      /\ \A q \in Op : Unfinished(q) => \E i \in 1..Len(queue) : queue[i] = q
    BY DEF GroupInv, GroupForms, Enlisted
<1>2. /\ command' \in [Op -> CommandForm] /\ command'[o] = c
      /\ \A q \in Op \ {o} : command'[q] = command[q]
    BY <1>1
<1>3. GroupForms'
    BY <1>2 DEF GroupInv, GroupForms
<1>4. Enlisted'
  <2>1. queue' \in Seq(Op)
      BY <1>1
  <2>2. CASE queue' = Append(queue, o)
    <3>1. Len(queue') = Len(queue) + 1 /\ queue'[Len(queue) + 1] = o
          /\ \A i \in 1..Len(queue) : queue'[i] = queue[i]
        BY <1>1, <2>2
    <3>2. Len(queue) \in Nat
        BY <1>1
    <3>3. ASSUME NEW q \in Op, Unfinished(q)'
          PROVE  \E i \in 1..Len(queue') : queue'[i] = q
      <4>1. CASE q = o
        <5>1. Len(queue) + 1 \in 1..Len(queue')
            BY <3>1, <3>2
        <5> QED
            BY <3>1, <4>1, <5>1
      <4>2. CASE q # o
        <5>1. PICK i \in 1..Len(queue) : queue[i] = q
            BY <1>1, <1>2, <3>3, <4>2 DEF Unfinished
        <5>2. i \in 1..Len(queue')
            BY <3>1, <3>2
        <5> QED
            BY <3>1, <5>1, <5>2
      <4> QED
          BY <4>1, <4>2
    <3> QED
        BY <2>1, <3>3 DEF Enlisted
  <2>3. CASE queue' = queue /\ command[o].state = "paused"
      BY <1>1, <1>2, <2>3 DEF Enlisted, Unfinished
  <2> QED
      BY <2>1, <2>2, <2>3
<1>5. OneUnderWay'
  <2>1. command[o].state = "absent" => command[o].phase = "edit"
      BY DEF GroupInv, OneUnderWay
  <2>2. \A q \in Op : UnderWay(q)' <=> UnderWay(q)
      BY <1>2, <2>1 DEF UnderWay, Unfinished
  <2>3. \A q \in Op : UnderWay(q) => /\ command'[q].phase = command[q].phase
                                     /\ command'[q].revision = command[q].revision
      BY <1>2, <2>1 DEF UnderWay
  <2>4. \A q \in Op : command'[q].state = "absent" => command'[q].phase = "edit"
      BY <1>2 DEF GroupInv, OneUnderWay
  <2> QED
      BY <2>2, <2>3, <2>4 DEF GroupInv, OneUnderWay
<1>6. Frozen'
    BY DEF GroupInv, Frozen, Reconciling
<1>7. SeenTruly' /\ SettlesEnded'
  <2>1. CommandsGoOn
      BY <1>2 DEF CommandsGoOn, Over
  <2> QED
      BY <2>1, PagesStayTrue DEF Steadily
<1> QED
    BY <1>3, <1>4, <1>5, <1>6, <1>7 DEF GroupInv

LEMMA ArrivedKeeps ==
    ASSUME GroupInv, NEW r \in Sent, Arrived(r), UNCHANGED <<dialog, revived>>,
           waiting' \in [Page -> Sent \union {NoRequest}], strays' \subseteq Sent
    PROVE  GroupInv'
<1>1. r.op \in Op /\ command \in [Op -> CommandForm] /\ reviews \in [Op -> ReviewForm]
    BY DEF Sent, GroupInv, GroupForms
<1>2. CASE r.kind = "command" /\ command[r.op].state = "absent"
  <2> DEFINE c == [command[r.op] EXCEPT !.state = "queued"]
  <2>1. command' = [command EXCEPT ![r.op] = c] /\ queue' = Append(queue, r.op)
      BY <1>1, <1>2 DEF Arrived, Enqueued
  <2>2. c \in CommandForm
      BY <1>1, CommandMoves DEF CommandState, Phase
  <2>3. /\ c.state = "queued" /\ c.phase = command[r.op].phase /\ c.revision = command[r.op].revision
        /\ c.rows = command[r.op].rows /\ c.shown = command[r.op].shown
      BY <1>1 DEF CommandForm
  <2>4. UNCHANGED <<workspace, reviews>>
      BY <1>2 DEF Arrived
  <2> HIDE DEF c
  <2> QED
      BY <1>1, <1>2, <2>1, <2>2, <2>3, <2>4, QueuedKeeps
<1>3. CASE r.kind = "command" /\ command[r.op].state # "absent"
  <2>1. UNCHANGED <<workspace, command, queue, reviews>>
      BY <1>3 DEF Arrived, Enqueued
  <2> QED
      BY <1>1, <2>1, ReviewsKeep
<1>4. CASE r.kind # "command"
  <2>1. /\ UNCHANGED <<workspace, command, queue>>
        /\ reviews' = [reviews EXCEPT ![r.op].state = IF @ = "ready" THEN "apply_queued" ELSE @]
      BY <1>4 DEF Arrived, AcceptReview
  <2>2. /\ reviews'[r.op].of = reviews[r.op].of
        /\ \/ reviews'[r.op].state = reviews[r.op].state
           \/ reviews'[r.op].state = "apply_queued" /\ reviews[r.op].state = "ready"
      BY <1>1, <2>1 DEF ReviewForm
  <2>3. /\ reviews' \in [Op -> ReviewForm]
        /\ \A q \in Op \ {r.op} : reviews'[q] = reviews[q]
    <3>1. reviews[r.op].state \in ReviewState /\ "apply_queued" \in ReviewState
        BY <1>1 DEF ReviewForm, ReviewState
    <3> QED
        BY <1>1, <2>1, <3>1, ReviewMoves
  <2> QED
      BY <1>1, <2>1, <2>2, <2>3, ReviewsKeep DEF Waits
<1> QED
    BY <1>2, <1>3, <1>4

LEMMA ArrivalsKeep ==
    ASSUME GroupInv, \/ \E p \in Page : Answered(p) \/ ResumeEdit(p)
                     \/ \E r \in strays : Stray(r)
                     \/ \E o \in Op : OtherDevice(o)
    PROVE  GroupInv'
<1>1. /\ waiting \in [Page -> Sent \union {NoRequest}] /\ strays \subseteq Sent
      /\ command \in [Op -> CommandForm] /\ workspace \in DraftForm
    BY DEF GroupInv, GroupForms
<1>2. ASSUME NEW p \in Page, Answered(p)
      PROVE  GroupInv'
  <2>1. waiting[p] \in Sent /\ waiting' \in [Page -> Sent \union {NoRequest}] /\ strays' \subseteq Sent
      BY <1>1, <1>2 DEF Answered
  <2> QED
      BY <1>2, <2>1, ArrivedKeeps DEF Answered
<1>3. ASSUME NEW r \in strays, Stray(r)
      PROVE  GroupInv'
  <2>1. r \in Sent /\ waiting' \in [Page -> Sent \union {NoRequest}] /\ strays' \subseteq Sent
      BY <1>1, <1>3 DEF Stray
  <2> QED
      BY <1>3, <2>1, ArrivedKeeps DEF Stray
<1>4. ASSUME NEW p \in Page, ResumeEdit(p)
      PROVE  GroupInv'
  <2> DEFINE o == Followed(p)
             c == [command[o] EXCEPT !.state = "queued"]
  <2>1. o \in Op
      BY <1>4 DEF ResumeEdit, Followed, GroupInv, GroupForms, DialogForm, Known, AnyOp
  <2>2. /\ command' = [command EXCEPT ![o].state = "queued"] /\ command[o].state = "paused"
        /\ UNCHANGED <<workspace, queue, reviews, dialog, waiting, strays, revived>>
      BY <1>4 DEF ResumeEdit
  <2> HIDE DEF o
  <2>3. command' = [command EXCEPT ![o] = c]
      BY <1>1, <2>1, <2>2
  <2>4. c \in CommandForm
      BY <1>1, <2>1, CommandMoves DEF CommandState, Phase
  <2>5. /\ c.state = "queued" /\ c.phase = command[o].phase /\ c.revision = command[o].revision
        /\ c.rows = command[o].rows /\ c.shown = command[o].shown
      BY <1>1, <2>1 DEF CommandForm
  <2>6. /\ command[o].state \in {"absent", "paused"}
        /\ queue' = Append(queue, o) \/ (queue' = queue /\ command[o].state = "paused")
        /\ waiting' \in [Page -> Sent \union {NoRequest}] /\ strays' \subseteq Sent
      BY <1>1, <2>2
  <2> HIDE DEF c
  <2> QED
      BY <2>1, <2>2, <2>3, <2>4, <2>5, <2>6, QueuedKeeps
<1>5. ASSUME NEW o \in Op, OtherDevice(o)
      PROVE  GroupInv'
  <2>1. PICK action \in Action, target \in {workspace.accepting, NoOp} :
           command' = [command EXCEPT ![o] =
                [@ EXCEPT !.state = "queued", !.action = action, !.revision = workspace.revision,
                          !.shown = {workspace.content}, !.review = target]]
      BY <1>5 DEF OtherDevice
  <2> DEFINE c == [Unsent EXCEPT !.state = "queued", !.action = action, !.revision = workspace.revision,
                                 !.shown = {workspace.content}, !.review = target]
  <2>2. /\ command[o] = Unsent /\ queue' = Append(queue, o)
        /\ UNCHANGED <<workspace, reviews, dialog, waiting, strays, revived>>
      BY <1>5 DEF OtherDevice, Unused
  <2>3. command' = [command EXCEPT ![o] = c]
      BY <1>1, <2>1, <2>2
  <2>4. c \in CommandForm
    <3>1. workspace.revision \in Nat /\ {workspace.content} \in SUBSET Nat /\ target \in AnyOp
        BY <1>1, DraftFields DEF AnyOp
    <3> QED
        BY <3>1 DEF CommandForm, Unsent, CommandState, Phase
  <2>5. c.state = "queued" /\ c.phase = "edit" /\ c.rows = FALSE
      BY DEF Unsent
  <2>6. command[o].state = "absent" /\ command[o].phase = "edit"
      BY <2>2 DEF Unsent
  <2> HIDE DEF c
  <2> QED
      BY <1>1, <2>2, <2>3, <2>4, <2>5, <2>6, QueuedKeeps
<1> QED
    BY <1>2, <1>3, <1>4, <1>5

(***************************************************************************)
(* The status names a command: the first of the queue that has not ended.  *)
(***************************************************************************)
LEMMA SomeLeast ==
    ASSUME NEW T, T \subseteq Nat, T # {}
    PROVE  \E n \in T : \A k \in T : n <= k
<1>1. \E n \in T : \A k \in T : <<k, n>> \notin OpToRel(<, Nat)
    BY NatLessThanWellFounded, WFMin
<1>2. OpToRel(<, Nat) = {ss \in Nat \X Nat : ss[1] < ss[2]}
    BY DEF OpToRel
<1>3. ASSUME NEW n \in Nat, NEW k \in Nat, <<k, n>> \notin OpToRel(<, Nat)
      PROVE  n <= k
  <2>1. <<k, n>> \in Nat \X Nat /\ <<k, n>>[1] = k /\ <<k, n>>[2] = n
      OBVIOUS
  <2>2. ~ (k < n)
      BY <1>2, <1>3, <2>1
  <2> QED
      BY <2>2
<1> QED
    BY <1>1, <1>3

LEMMA ServedForm ==
    ASSUME GroupInv
    PROVE  Served \in Known
<1>1. workspace \in DraftForm /\ queue \in Seq(Op)
    BY DEF GroupInv, GroupForms, Enlisted
<1>2. Oldest \in AnyOp
  <2>1. CASE ~ \E o \in Op : Unfinished(o)
      BY <2>1 DEF Oldest, AnyOp
  <2>2. CASE \E o \in Op : Unfinished(o)
    <3> DEFINE T == {i \in 1..Len(queue) : Unfinished(queue[i])}
               First(i) == Unfinished(queue[i]) /\ \A j \in 1..(i - 1) : ~Unfinished(queue[j])
    <3>1. T # {} /\ T \subseteq Nat
        BY <2>2 DEF GroupInv, Enlisted
    <3>2. PICK n \in T : \A k \in T : n <= k
        BY <3>1, SomeLeast
    <3>3. Len(queue) \in Nat /\ n \in 1..Len(queue)
        BY <1>1
    <3>4. ASSUME NEW j \in 1..(n - 1)
          PROVE  ~Unfinished(queue[j])
      <4>1. j \in 1..Len(queue) /\ ~(n <= j)
          BY <3>3
      <4> QED
          BY <3>2, <4>1
    <3>5. First(n)
        BY <3>2, <3>4
    <3>6. (CHOOSE i \in 1..Len(queue) : First(i)) \in 1..Len(queue)
        BY <3>3, <3>5
    <3>7. Oldest = queue[CHOOSE i \in 1..Len(queue) : First(i)]
        BY <2>2 DEF Oldest
    <3> HIDE DEF First
    <3> QED
        BY <1>1, <3>6, <3>7 DEF AnyOp
  <2> QED
      BY <2>1, <2>2
<1> QED
    BY <1>1, <1>2, DraftFields DEF Served, Known, Ready

(***************************************************************************)
(* A page changes what it shows, or what it waits for.                     *)
(***************************************************************************)
LEMMA PageKeeps ==
    ASSUME GroupInv, UNCHANGED <<groupServerVars, revived>>,
           dialog' \in [Page -> DialogForm], SeenTruly', SettlesEnded',
           waiting' \in [Page -> Sent \union {NoRequest}], strays' \subseteq Sent
    PROVE  GroupInv'
<1>1. UNCHANGED <<workspace, command, queue, reviews>>
    BY DEF groupServerVars
<1>2. GroupForms' /\ Enlisted'
    BY <1>1 DEF GroupInv, GroupForms, Enlisted, Unfinished
<1>3. OneUnderWay'
    BY <1>1 DEF GroupInv, OneUnderWay, UnderWay, Unfinished
<1>4. Frozen'
    BY <1>1 DEF GroupInv, Frozen, Reconciling
<1> QED
    BY <1>2, <1>3, <1>4 DEF GroupInv

\* a dialog d in the place of page p's: it shows what is told, and settles what has ended
LEMMA DialogKeeps ==
    ASSUME GroupInv, UNCHANGED <<groupServerVars, revived>>, NEW p \in Page, NEW d \in DialogForm,
           dialog' = [dialog EXCEPT ![p] = d],
           d.tree # NoView => Tells(d.tree.revision, d.tree.seen),
           d.fetch # NoView => Tells(d.fetch.revision, d.fetch.seen),
           \A o \in d.settling : Over(o),
           waiting' \in [Page -> Sent \union {NoRequest}], strays' \subseteq Sent
    PROVE  GroupInv'
<1>1. dialog \in [Page -> DialogForm] /\ UNCHANGED <<workspace, command>>
    BY DEF GroupInv, GroupForms, groupServerVars
<1>2. dialog' \in [Page -> DialogForm] /\ \A q \in Page : dialog'[q] = IF q = p THEN d ELSE dialog[q]
    BY <1>1
<1>3. SeenTruly'
    BY <1>1, <1>2 DEF GroupInv, SeenTruly, Tells
<1>4. SettlesEnded'
    BY <1>1, <1>2 DEF GroupInv, SettlesEnded, Over
<1> QED
    BY <1>2, <1>3, <1>4, PageKeeps

\* what page p shows and settles now
LEMMA DialogNow ==
    ASSUME GroupInv, NEW p \in Page
    PROVE  /\ dialog[p] \in DialogForm
           /\ dialog[p].tree # NoView => Tells(dialog[p].tree.revision, dialog[p].tree.seen)
           /\ dialog[p].fetch # NoView => Tells(dialog[p].fetch.revision, dialog[p].fetch.seen)
           /\ \A o \in dialog[p].settling : Over(o)
           /\ waiting \in [Page -> Sent \union {NoRequest}] /\ strays \subseteq Sent
BY DEF GroupInv, GroupForms, SeenTruly, SettlesEnded

LEMMA DialogMoves ==
    ASSUME NEW d \in DialogForm, NEW k \in Known \union {NoView}, NEW o \in AnyOp, NEW S \in SUBSET Op,
           NEW v \in Shown \union {NoView}
    PROVE  /\ [d EXCEPT !.known = k] \in DialogForm
           /\ [d EXCEPT !.handled = o, !.settling = S] \in DialogForm
           /\ [d EXCEPT !.known = k, !.pending = NoOp, !.settling = S] \in DialogForm
           /\ [d EXCEPT !.fetch = v] \in DialogForm
           /\ [d EXCEPT !.fetch = NoView, !.tree = v] \in DialogForm
           /\ [d EXCEPT !.opened = v] \in DialogForm
           /\ [d EXCEPT !.pending = o] \in DialogForm
           /\ [d EXCEPT !.pending = o, !.opened = NoView] \in DialogForm
           /\ Unopened \in DialogForm
BY DEF DialogForm, Unopened, AnyOp

(***************************************************************************)
(* The steps of a page that send nothing new.                              *)
(***************************************************************************)
PageStep(p) ==
    \/ Poll(p) \/ Handle(p) \/ ReadTree(p) \/ OpenEditor(p) \/ CloseEditor(p)
    \/ RetryEdit(p) \/ Accepting(p) \/ Break(p) \/ ReopenPage(p)
    \/ \E o \in Op : Settle(p, o)

LEMMA ReadTreeKeeps ==
    ASSUME GroupInv, NEW p \in Page, ReadTree(p)
    PROVE  GroupInv'
<1> DEFINE d == dialog[p]
           read == [revision |-> workspace.revision, seen |-> {workspace.content}]
           whole == [read EXCEPT !.seen = @ \union d.fetch.seen]
<1>1. /\ dialog \in [Page -> DialogForm] /\ workspace \in DraftForm
      /\ UNCHANGED <<groupServerVars, waiting, strays, revived>>
      /\ workspace.phase = "ready"
    BY DEF GroupInv, GroupForms, ReadTree, PageOnly, Current, Ready
<1>2. workspace.revision \in Nat /\ workspace.content \in Nat
    BY <1>1, DraftFields
<1>3. read \in Shown /\ Tells(read.revision, read.seen)
    BY <1>1, <1>2 DEF Shown, Tells
<1>4. CASE Of(d.fetch, workspace.revision)
  <2>1. dialog' = [dialog EXCEPT ![p] = [d EXCEPT !.fetch = NoView, !.tree = whole]]
      BY <1>1, <1>4 DEF ReadTree
  <2>2. d.fetch.seen = {workspace.content}
      BY <1>1, <1>4, DialogNow DEF Of, Tells
  <2>3. whole = read
      BY <2>2
  <2>4. [d EXCEPT !.fetch = NoView, !.tree = read] \in DialogForm
      BY <1>3, DialogNow, DialogMoves DEF AnyOp
  <2>5. /\ [d EXCEPT !.fetch = NoView, !.tree = read].fetch = NoView
        /\ [d EXCEPT !.fetch = NoView, !.tree = read].tree = read
        /\ [d EXCEPT !.fetch = NoView, !.tree = read].settling = d.settling
      BY DialogNow DEF DialogForm
  <2> HIDE DEF read
  <2> QED
      BY <1>1, <1>3, <2>1, <2>3, <2>4, <2>5, DialogNow, DialogKeeps
<1>5. CASE ~Of(d.fetch, workspace.revision)
  <2>1. dialog' = [dialog EXCEPT ![p] = [d EXCEPT !.fetch = read]]
      BY <1>1, <1>5 DEF ReadTree
  <2>2. [d EXCEPT !.fetch = read] \in DialogForm
      BY <1>3, DialogNow, DialogMoves DEF AnyOp
  <2>3. /\ [d EXCEPT !.fetch = read].fetch = read /\ [d EXCEPT !.fetch = read].tree = d.tree
        /\ [d EXCEPT !.fetch = read].settling = d.settling
      BY DialogNow DEF DialogForm
  <2> HIDE DEF read
  <2> QED
      BY <1>1, <1>3, <2>1, <2>2, <2>3, DialogNow, DialogKeeps
<1> QED
    BY <1>4, <1>5

\* what a page shows of the tree stays as it is
LEMMA OtherwiseShown ==
    ASSUME GroupInv, NEW p \in Page, UNCHANGED <<groupServerVars, revived>>, NEW d \in DialogForm,
           dialog' = [dialog EXCEPT ![p] = d],
           d.tree = dialog[p].tree, d.fetch = dialog[p].fetch,
           \A o \in d.settling \ dialog[p].settling : Over(o),
           UNCHANGED <<waiting, strays>>
    PROVE  GroupInv'
BY DialogNow, DialogKeeps

LEMMA PageStepKeeps ==
    ASSUME GroupInv, NEW p \in Page, PageStep(p)
    PROVE  GroupInv'
<1> DEFINE d == dialog[p]
<1>1. /\ dialog \in [Page -> DialogForm] /\ d \in DialogForm
      /\ waiting \in [Page -> Sent \union {NoRequest}] /\ strays \subseteq Sent
      /\ d.pending \in AnyOp /\ d.settling \in SUBSET Op
    BY DEF GroupInv, GroupForms, DialogForm
<1>2. CASE Poll(p)
  <2>1. dialog' = [dialog EXCEPT ![p] = [d EXCEPT !.known = Served]]
      BY <1>1, <1>2 DEF Poll
  <2>2. [d EXCEPT !.known = Served] \in DialogForm
      BY <1>1, ServedForm, DialogMoves DEF AnyOp
  <2>3. /\ [d EXCEPT !.known = Served].tree = d.tree /\ [d EXCEPT !.known = Served].fetch = d.fetch
        /\ [d EXCEPT !.known = Served].settling = d.settling
      BY <1>1 DEF DialogForm
  <2> QED
      BY <1>2, <2>1, <2>2, <2>3, OtherwiseShown DEF Poll, PageOnly
<1>3. CASE Handle(p)
  <2> DEFINE o == Followed(p)
             S == d.settling \union {o}
             e == [d EXCEPT !.handled = o, !.settling = S]
  <2>1. o \in Op /\ Over(o)
      BY <1>1, <1>3 DEF Handle, Followed, DialogForm, Known, AnyOp
  <2>2. dialog' = [dialog EXCEPT ![p].handled = o, ![p].settling = S]
      BY <1>3 DEF Handle
  <2> HIDE DEF o
  <2>3. dialog' = [dialog EXCEPT ![p] = e]
      BY <1>1, <2>2
  <2>4. e \in DialogForm
      BY <1>1, <2>1, DialogMoves DEF AnyOp
  <2>5. e.tree = d.tree /\ e.fetch = d.fetch /\ e.settling = S
      BY <1>1 DEF DialogForm
  <2>6. UNCHANGED <<groupServerVars, waiting, strays, revived>>
      BY <1>3 DEF Handle, PageOnly
  <2> HIDE DEF e
  <2> QED
      BY <2>1, <2>3, <2>4, <2>5, <2>6, OtherwiseShown
<1>4. CASE ReadTree(p)
    BY <1>4, ReadTreeKeeps
<1>5. ASSUME NEW v \in {d.tree, NoView}, dialog' = [dialog EXCEPT ![p].opened = v], PageOnly
      PROVE  GroupInv'
  <2>1. dialog' = [dialog EXCEPT ![p] = [d EXCEPT !.opened = v]]
      BY <1>1, <1>5
  <2>2. v \in Shown \union {NoView}
      BY <1>1, <1>5 DEF DialogForm
  <2>3. [d EXCEPT !.opened = v] \in DialogForm
      BY <1>1, <2>2, DialogMoves DEF AnyOp
  <2>4. /\ [d EXCEPT !.opened = v].tree = d.tree /\ [d EXCEPT !.opened = v].fetch = d.fetch
        /\ [d EXCEPT !.opened = v].settling = d.settling
      BY <1>1 DEF DialogForm
  <2> QED
      BY <1>5, <2>1, <2>3, <2>4, OtherwiseShown DEF PageOnly
<1>6. CASE OpenEditor(p) \/ CloseEditor(p)
    BY <1>5, <1>6 DEF OpenEditor, CloseEditor
<1>7. CASE RetryEdit(p) \/ Accepting(p) \/ Break(p)
  <2>1. waiting' \in [Page -> Sent \union {NoRequest}] /\ strays' \subseteq Sent
    <3>1. CASE RetryEdit(p)
      <4>1. [op |-> d.pending, kind |-> "command"] \in Sent
          BY <1>1, <3>1 DEF RetryEdit, Sent, AnyOp
      <4> QED
          BY <1>1, <3>1, <4>1 DEF RetryEdit
    <3>2. CASE Accepting(p)
      <4>1. d.known.accepting \in Op
          BY <1>1, <3>2 DEF Accepting, DialogForm, Known, AnyOp
      <4>2. [op |-> d.known.accepting, kind |-> "accept"] \in Sent
          BY <4>1 DEF Sent
      <4> QED
          BY <1>1, <3>2, <4>2 DEF Accepting
    <3>3. CASE Break(p)
        BY <1>1, <3>3 DEF Break
    <3> QED
        BY <1>7, <3>1, <3>2, <3>3
  <2>2. UNCHANGED <<groupServerVars, dialog, revived>>
      BY <1>7 DEF RetryEdit, Accepting, Break
  <2>3. SeenTruly' /\ SettlesEnded'
      BY <2>2 DEF GroupInv, SeenTruly, SettlesEnded, Tells, Over, groupServerVars
  <2> QED
      BY <1>1, <2>1, <2>2, <2>3, PageKeeps
<1>8. CASE ReopenPage(p)
  <2>1. /\ waiting' \in [Page -> Sent \union {NoRequest}] /\ strays' \subseteq Sent
        /\ UNCHANGED <<groupServerVars, revived>> /\ dialog' = [dialog EXCEPT ![p] = Unopened]
      BY <1>1, <1>8 DEF ReopenPage
  <2>2. Unopened.tree = NoView /\ Unopened.fetch = NoView /\ Unopened.settling = {}
      BY DEF Unopened
  <2>3. Unopened \in DialogForm
      BY DEF Unopened, DialogForm, AnyOp
  <2> QED
      BY <2>1, <2>2, <2>3, DialogKeeps
<1>9. ASSUME NEW o \in Op, Settle(p, o)
      PROVE  GroupInv'
  <2>1. PICK known \in {Served, d.known} :
            dialog' = [dialog EXCEPT ![p].known = known, ![p].pending = NoOp, ![p].settling = @ \ {o}]
      BY <1>9 DEF Settle
  <2> DEFINE S == d.settling \ {o}
             e == [d EXCEPT !.known = known, !.pending = NoOp, !.settling = S]
  <2>2. dialog' = [dialog EXCEPT ![p] = e]
      BY <1>1, <2>1
  <2>3. known \in Known \union {NoView}
      BY <1>1, <2>1, ServedForm DEF DialogForm
  <2>4. e \in DialogForm
      BY <1>1, <2>3, DialogMoves DEF AnyOp
  <2>5. e.tree = d.tree /\ e.fetch = d.fetch /\ e.settling = S
      BY <1>1 DEF DialogForm
  <2>6. UNCHANGED <<groupServerVars, waiting, strays, revived>>
      BY <1>9 DEF Settle, PageOnly
  <2> HIDE DEF e
  <2> QED
      BY <2>2, <2>4, <2>5, <2>6, OtherwiseShown
<1> QED
    BY <1>2, <1>3, <1>4, <1>6, <1>7, <1>8, <1>9 DEF PageStep

(***************************************************************************)
(* A page makes a command: what it says it was made on is told truly when  *)
(* it is made on a row (useGroupingTree: stale).                           *)
(***************************************************************************)
LEMMA SendKeeps ==
    ASSUME GroupInv, NEW p \in Page, NEW o \in Op, NEW action \in Action, NEW viewed \in SUBSET Nat,
           NEW rows \in BOOLEAN, NEW target \in AnyOp, NEW d \in DialogForm,
           Send(p, o, action, viewed, rows, target), dialog[p].known \in Known,
           rows => Tells(dialog[p].known.revision, viewed),
           dialog' = [dialog EXCEPT ![p] = d],
           d.tree = dialog[p].tree, d.fetch = dialog[p].fetch, d.settling = dialog[p].settling
    PROVE  GroupInv'
<1> DEFINE c == [Unsent EXCEPT !.action = action, !.revision = dialog[p].known.revision, !.shown = viewed,
                               !.rows = rows, !.review = target]
<1>1. /\ command \in [Op -> CommandForm] /\ command[o] = Unsent
      /\ dialog \in [Page -> DialogForm] /\ waiting \in [Page -> Sent \union {NoRequest}]
      /\ UNCHANGED <<workspace, queue, reviews, strays, revived>>
    BY DEF GroupInv, GroupForms, Send, Unused
<1>2. c \in CommandForm
    BY DEF CommandForm, Unsent, CommandState, Phase, Known
<1>3. /\ c.state = "absent" /\ c.phase = "edit" /\ c.rows = rows
      /\ c.revision = dialog[p].known.revision /\ c.shown = viewed
    BY DEF Unsent
<1>4. command' = [command EXCEPT ![o] = c]
    BY <1>1 DEF Send
<1> HIDE DEF c
<1>5. /\ command' \in [Op -> CommandForm] /\ command'[o] = c
      /\ \A q \in Op \ {o} : command'[q] = command[q]
    BY <1>1, <1>2, <1>4
<1>6. [op |-> o, kind |-> "command"] \in Sent
    BY DEF Sent
<1>7. GroupForms'
  <2>1. waiting' \in [Page -> Sent \union {NoRequest}]
      BY <1>1, <1>6 DEF Send
  <2>2. dialog' \in [Page -> DialogForm]
      BY <1>1
  <2> QED
      BY <1>1, <1>5, <2>1, <2>2 DEF GroupInv, GroupForms
<1>8. command[o].state = "absent" /\ command[o].phase = "edit" /\ command[o].rows = FALSE
    BY <1>1 DEF Unsent
<1>9. \A q \in Op : /\ Unfinished(q)' <=> Unfinished(q)
                    /\ UnderWay(q)' <=> UnderWay(q)
                    /\ Over(q)' <=> Over(q)
    BY <1>3, <1>5, <1>8 DEF Unfinished, UnderWay, Over
<1>10. Enlisted'
    BY <1>1, <1>9 DEF GroupInv, Enlisted
<1>11. OneUnderWay'
  <2>1. ~UnderWay(o)
      BY <1>8 DEF UnderWay
  <2> QED
      BY <1>1, <1>3, <1>5, <1>9, <2>1 DEF GroupInv, OneUnderWay
<1>12. Frozen'
    BY <1>1 DEF GroupInv, Frozen, Reconciling
<1>13. \A q \in Page : dialog'[q] = IF q = p THEN d ELSE dialog[q]
    BY <1>1
<1>14. SettlesEnded'
    BY <1>1, <1>9, <1>13 DEF GroupInv, SettlesEnded, DialogForm
<1>15. SeenTruly'
    BY <1>1, <1>3, <1>5, <1>13 DEF GroupInv, SeenTruly, Tells
<1> QED
    BY <1>7, <1>10, <1>11, <1>12, <1>14, <1>15 DEF GroupInv

LEMMA SendsKeep ==
    ASSUME GroupInv, NEW p \in Page, NEW o \in Op,
           EditRow(p, o) \/ ReturnToEditing(p, o) \/ CommitEditor(p, o)
    PROVE  GroupInv'
<1> DEFINE d == dialog[p]
<1>1. /\ dialog \in [Page -> DialogForm] /\ d \in DialogForm
      /\ d.known \in Known \union {NoView} /\ d.tree \in Shown \union {NoView}
      /\ d.opened \in Shown \union {NoView}
    BY DEF GroupInv, GroupForms, DialogForm
<1>2. d.known # NoView
    BY DEF EditRow, ReturnToEditing, CommitEditor, Unblocked, Unhindered, Editable
<1>3. d.known \in Known /\ d.known.accepting \in AnyOp /\ NoOp \in AnyOp
    BY <1>1, <1>2 DEF Known, AnyOp
<1>4. CASE EditRow(p, o) \/ ReturnToEditing(p, o)
  <2>1. dialog' = [dialog EXCEPT ![p] = [d EXCEPT !.pending = o]]
      BY <1>1, <1>4 DEF EditRow, ReturnToEditing
  <2>2. [d EXCEPT !.pending = o] \in DialogForm
      BY <1>1 DEF DialogForm, AnyOp
  <2>3. /\ [d EXCEPT !.pending = o].tree = d.tree /\ [d EXCEPT !.pending = o].fetch = d.fetch
        /\ [d EXCEPT !.pending = o].settling = d.settling
      BY <1>1 DEF DialogForm
  <2>4. CASE EditRow(p, o)
    <3>1. PICK action \in {"edit", "prepare"} : Send(p, o, action, d.tree.seen, TRUE, NoOp)
        BY <2>4 DEF EditRow
    <3>2. d.tree # NoView /\ d.tree.revision = d.known.revision
        BY <2>4 DEF EditRow, Unblocked, Of
    <3>3. d.tree.seen \in SUBSET Nat /\ Tells(d.known.revision, d.tree.seen)
        BY <1>1, <3>2, DialogNow DEF Shown
    <3>4. action \in Action
        BY DEF Action
    <3> QED
        BY <1>3, <2>1, <2>2, <2>3, <3>1, <3>3, <3>4, SendKeeps
  <2>5. CASE ReturnToEditing(p, o)
    <3>1. Send(p, o, "cancel_review", {}, FALSE, d.known.accepting) /\ "cancel_review" \in Action
        BY <2>5 DEF ReturnToEditing, Action
    <3>2. {} \in SUBSET Nat
        OBVIOUS
    <3> QED
        BY <1>3, <2>1, <2>2, <2>3, <3>1, <3>2, SendKeeps
  <2> QED
      BY <1>4, <2>4, <2>5
<1>5. CASE CommitEditor(p, o)
  <2> DEFINE e == [d EXCEPT !.pending = o, !.opened = NoView]
  <2>1. dialog' = [dialog EXCEPT ![p] = e]
      BY <1>1, <1>5 DEF CommitEditor
  <2>2. e \in DialogForm
      BY <1>1 DEF DialogForm, AnyOp
  <2>3. e.tree = d.tree /\ e.fetch = d.fetch /\ e.settling = d.settling
      BY <1>1 DEF DialogForm
  <2>4. Send(p, o, "edit", d.opened.seen, FALSE, NoOp) /\ "edit" \in Action /\ d.opened # NoView
      BY <1>5 DEF CommitEditor, Action
  <2>5. d.opened.seen \in SUBSET Nat
      BY <1>1, <2>4 DEF Shown
  <2> HIDE DEF e
  <2> QED
      BY <1>3, <2>1, <2>2, <2>3, <2>4, <2>5, SendKeeps
<1> QED
    BY <1>4, <1>5

LEMMA GroupInitInv == GroupInit => GroupInv
<1> SUFFICES ASSUME GroupInit
             PROVE  GroupInv
    OBVIOUS
<1>1. workspace \in DraftForm
    BY OpsAreNumbers DEF GroupInit, DraftForm, AnyOp
<1>2. Unsent \in CommandForm /\ [Unsent EXCEPT !.state = "succeeded"] \in CommandForm
    BY DEF CommandForm, Unsent, CommandState, Phase, Action, AnyOp
<1>3. /\ command \in [Op -> CommandForm]
      /\ \A q \in Op : command[q] = IF q = 1 THEN [Unsent EXCEPT !.state = "succeeded"] ELSE Unsent
    BY <1>2 DEF GroupInit
<1>4. \A q \in Op : /\ command[q].state \in {"absent", "succeeded"} /\ command[q].phase = "edit"
                    /\ command[q].rows = FALSE
    BY <1>3 DEF Unsent
<1>5. reviews \in [Op -> ReviewForm]
    BY DEF GroupInit, ReviewForm, ReviewState
<1>6. Unopened \in DialogForm
    BY DEF Unopened, DialogForm, AnyOp
<1>7. GroupForms
    BY <1>1, <1>3, <1>5, <1>6 DEF GroupInit, GroupForms
<1>8. Enlisted
    BY <1>4, OpsAreNumbers DEF GroupInit, Enlisted, Unfinished
<1>9. OneUnderWay
    BY <1>4 DEF GroupInit, OneUnderWay, UnderWay
<1>10. Frozen
    BY OpsAreNumbers DEF GroupInit, Frozen
<1>11. SeenTruly /\ SettlesEnded
    BY <1>4 DEF GroupInit, SeenTruly, SettlesEnded, Unopened
<1> QED
    BY <1>7, <1>8, <1>9, <1>10, <1>11 DEF GroupInv

LEMMA GroupStep == GroupInv /\ [GroupNext]_groupVars => GroupInv'
<1> SUFFICES ASSUME GroupInv, [GroupNext]_groupVars
             PROVE  GroupInv'
    OBVIOUS
<1>1. CASE UNCHANGED groupVars
    BY <1>1 DEF groupVars, groupServerVars, GroupInv, GroupForms, Enlisted, OneUnderWay, UnderWay,
                Unfinished, Frozen, Reconciling, SeenTruly, Tells, SettlesEnded, Over
<1>2. ASSUME NEW o \in Op, WorkerStep(o)
      PROVE  GroupInv'
    BY <1>2, WorkerKeeps
<1>3. ASSUME NEW o \in Op, ReviewsMove(o)
      PROVE  GroupInv'
    BY <1>3, ReviewsMoveKeeps
<1>4. CASE Reconcile \/ Retire \/ Recover
    BY <1>4, ReconcileKeeps, RecoverKeeps
<1>5. ASSUME NEW p \in Page, PageStep(p)
      PROVE  GroupInv'
    BY <1>5, PageStepKeeps
<1>6. ASSUME NEW p \in Page, NEW o \in Op, EditRow(p, o) \/ ReturnToEditing(p, o) \/ CommitEditor(p, o)
      PROVE  GroupInv'
    BY <1>6, SendsKeep
<1>7. CASE \/ \E p \in Page : Answered(p) \/ ResumeEdit(p)
           \/ \E r \in strays : Stray(r)
           \/ \E o \in Op : OtherDevice(o)
    BY <1>7, ArrivalsKeep
<1> QED
    BY <1>1, <1>2, <1>3, <1>4, <1>5, <1>6, <1>7 DEF GroupNext, WorkerStep, ReviewsMove, PageStep

LEMMA GroupInvariant == GroupSpec => []GroupInv
BY GroupInitInv, GroupStep, PTL DEF GroupSpec

LEMMA InvSettles == GroupInv => DraftSettles
<1> SUFFICES ASSUME GroupInv
             PROVE  DraftSettles
    OBVIOUS
<1> DEFINE begun == {o \in Op : Unfinished(o) /\ command[o].phase # "edit"}
<1>1. \A o \in begun : command[o].phase = workspace.phase
    BY DEF GroupInv, OneUnderWay, UnderWay
<1>2. Cardinality(begun) = IF workspace.phase \in {"ready", "accepted"} THEN 0 ELSE 1
  <2>1. CASE workspace.phase \in {"ready", "accepted"}
    <3>1. begun = {}
        BY <2>1, ReadyIsFree DEF UnderWay
    <3> QED
        BY <2>1, <3>1, FS_EmptySet
  <2>2. CASE workspace.phase \notin {"ready", "accepted"}
    <3>1. \E o \in Op : begun = {o}
        BY <2>2 DEF GroupInv, OneUnderWay, UnderWay
    <3> QED
        BY <2>2, <3>1, FS_Singleton
  <2> QED
      BY <2>1, <2>2
<1> HIDE DEF begun
<1>3. /\ workspace.accepting # NoOp =>
          /\ workspace.phase \in {"ready", "accepted"}
          /\ workspace.phase = "ready" => reviews[workspace.accepting].of = workspace.content
      /\ \A o \in Op \ revived :
           reviews[o].state \in {"queued", "ready", "apply_queued", "applied"} => workspace.accepting = o
      /\ workspace.phase = "accepted" => Reconciling
    BY DEF GroupInv, Frozen
<1> QED
    BY <1>1, <1>2, <1>3 DEF DraftSettles, begun

(***************************************************************************)
(* For any pages and commands, lost and late requests, revived reviews and *)
(* recoveries: a pending review is of the draft as it is, no other waits   *)
(* unless it was revived, and a draft that is not ready has exactly the    *)
(* one command that makes it ready (worker.step, reconcile).               *)
(***************************************************************************)
THEOREM DraftsSettle == GroupSpec => []DraftSettles
BY GroupInvariant, InvSettles, PTL

-----------------------------------------------------------------------------

\* the draft is written by a worker's step, which is made on the draft it names
LEMMA WritesAsShown ==
    ASSUME GroupInv, [GroupNext]_groupVars, NEW o \in Op, command[o].rows,
           workspace'.content # workspace.content, command'[o].state # command[o].state
    PROVE  command[o].shown = {workspace.content}
<1>1. workspace \in DraftForm /\ command \in [Op -> CommandForm]
    BY DEF GroupInv, GroupForms
<1>2. workspace' # workspace /\ command' # command
    OBVIOUS
<1>3. PICK q \in Op : WorkerStep(q)
  <2>1. \A q \in Op : ~ (ReviewsMove(q) \/ OtherDevice(q))
      BY <1>2 DEF ReviewsMove, ReviewStep, DeleteReview, Revive, AcceptSaved, OtherDevice
  <2>2. ~ (Reconcile \/ Retire \/ Recover) /\ ~UNCHANGED groupVars
      BY <1>2 DEF Reconcile, Retire, Recover, groupVars, groupServerVars
  <2>3. \A p \in Page : ~ (PageStep(p) \/ Answered(p) \/ ResumeEdit(p))
      BY <1>2 DEF PageStep, Poll, Handle, ReadTree, OpenEditor, CloseEditor, RetryEdit, Accepting, Break,
                  ReopenPage, Settle, PageOnly, Answered, Arrived, ResumeEdit, groupServerVars
  <2>4. \A p \in Page, q \in Op : ~ (EditRow(p, q) \/ ReturnToEditing(p, q) \/ CommitEditor(p, q))
      BY <1>2 DEF EditRow, ReturnToEditing, CommitEditor, Send
  <2>5. \A r \in strays : ~Stray(r)
      BY <1>2 DEF Stray, Arrived
  <2> QED
      BY <2>1, <2>2, <2>3, <2>4, <2>5 DEF GroupNext, WorkerStep, ReviewsMove, PageStep
<1>4. q = o
    BY <1>3, TurnsCommands
<1>5. Tells(command[o].revision, command[o].shown)
    BY DEF GroupInv, SeenTruly
<1>6. Unfinished(o) /\ (UnderWay(o) => /\ command[o].phase = workspace.phase
                                       /\ command[o].revision = workspace.revision)
    BY <1>3, <1>4, Turns DEF GroupInv, OneUnderWay
<1>7. CASE CancelReview(o) \/ BeginPrepare(o) \/ QueueReview(o) \/ RefuseCommand(o)
  <2>1. workspace'.content = workspace.content
      BY <1>1, <1>7 DEF CancelReview, BeginPrepare, QueueReview, RefuseCommand, Released, Phased, DraftForm
  <2> QED
      BY <2>1
<1>8. CASE BeginEdit(o)
    BY <1>5, <1>8 DEF BeginEdit, Current, Ready, Tells
<1>9. CASE FinishEdit(o)
  <2>1. command[o].phase = "regroup"
      BY <1>1, <1>9 DEF FinishEdit, Finished, DraftForm
  <2> QED
      BY <1>5, <1>6, <2>1 DEF UnderWay, Tells
<1> QED
    BY <1>3, <1>4, <1>7, <1>8, <1>9 DEF WorkerStep

LEMMA AppliedNow ==
    ASSUME GroupInv, NEW o \in Op \ revived, reviews[o].state = "apply_queued"
    PROVE  reviews[o].of = workspace.content
<1>1. workspace.accepting = o /\ o # NoOp
    BY OpsAreNumbers DEF GroupInv, Frozen
<1>2. workspace.phase = "ready"
    BY <1>1 DEF GroupInv, Frozen, Reconciling
<1> QED
    BY <1>1, <1>2 DEF GroupInv, Frozen

(***************************************************************************)
(* For any pages and commands: an edit made on a row changes the draft     *)
(* that was on show, once, and a review is applied to the draft it was     *)
(* prepared from, unless it was revived.                                   *)
(***************************************************************************)
THEOREM EditsApplyAsShown == GroupSpec => AppliedAsShown
<1>1. GroupInv /\ [GroupNext]_groupVars =>
        [ /\ \A o \in Op :
               command[o].rows /\ workspace'.content # workspace.content
                   /\ command'[o].state # command[o].state => command[o].shown = {workspace.content}
          /\ \A o \in Op \ revived :
               reviews[o].state = "apply_queued" /\ reviews'[o].state = "applied" =>
                   reviews[o].of = workspace.content ]_groupVars
    BY WritesAsShown, AppliedNow
<1> QED
    BY <1>1, GroupInvariant, PTL DEF GroupSpec, AppliedAsShown

\* what a step does to the edit a page has sent
LEMMA PendingStays ==
    ASSUME GroupInv, [GroupNext]_groupVars, NEW p \in Page,
           dialog[p].pending # NoOp, dialog'[p].pending # dialog[p].pending
    PROVE  \/ Over(dialog[p].pending)
           \/ dialog'[p] = Unopened
           \/ \E o \in dialog[p].settling \ dialog'[p].settling : o # dialog[p].pending
<1>1. dialog \in [Page -> DialogForm]
    BY DEF GroupInv, GroupForms
<1>2. dialog' # dialog
    OBVIOUS
<1>3. ASSUME NEW q \in Page,
             \/ Poll(q) \/ Handle(q) \/ ReadTree(q) \/ OpenEditor(q) \/ CloseEditor(q)
      PROVE  FALSE
    BY <1>1, <1>3 DEF Poll, Handle, ReadTree, OpenEditor, CloseEditor, DialogForm
<1>4. ASSUME NEW q \in Page, NEW o \in Op,
             EditRow(q, o) \/ ReturnToEditing(q, o) \/ CommitEditor(q, o)
      PROVE  FALSE
  <2>1. dialog[q].pending = NoOp
      BY <1>4 DEF EditRow, ReturnToEditing, CommitEditor, Unblocked, Unhindered, Editable
  <2> QED
      BY <1>1, <1>4, <2>1 DEF EditRow, ReturnToEditing, CommitEditor
<1>5. ASSUME NEW q \in Page, ReopenPage(q)
      PROVE  dialog'[p] = Unopened
    BY <1>1, <1>5 DEF ReopenPage
<1>6. ASSUME NEW q \in Page, NEW o \in Op, Settle(q, o)
      PROVE  \/ Over(dialog[p].pending)
             \/ \E s \in dialog[p].settling \ dialog'[p].settling : s # dialog[p].pending
  <2>1. q = p
      BY <1>1, <1>6 DEF Settle
  <2>2. o \in dialog[p].settling /\ dialog'[p].settling = dialog[p].settling \ {o}
      BY <1>1, <1>6, <2>1 DEF Settle, DialogForm
  <2>3. Over(o)
      BY <2>2 DEF GroupInv, SettlesEnded
  <2> QED
      BY <2>2, <2>3
<1>7. ~UNCHANGED groupVars /\ (\A q \in Op : ~ (WorkerStep(q) \/ ReviewsMove(q) \/ OtherDevice(q)))
      /\ ~ (Reconcile \/ Retire \/ Recover)
  <2>1. \A q \in Op : ~WorkerStep(q)
      BY <1>2, Turns
  <2> QED
      BY <1>2, <2>1 DEF groupVars, ReviewsMove, ReviewStep, DeleteReview, Revive, AcceptSaved, OtherDevice,
                        Reconcile, Retire, Recover, WorkerLeaves
<1>8. /\ \A q \in Page : ~ (RetryEdit(q) \/ ResumeEdit(q) \/ Accepting(q) \/ Answered(q) \/ Break(q))
      /\ \A r \in strays : ~Stray(r)
    BY <1>2 DEF RetryEdit, ResumeEdit, Accepting, Answered, Break, Stray
<1> QED
    BY <1>3, <1>4, <1>5, <1>6, <1>7, <1>8 DEF GroupNext, WorkerStep, ReviewsMove

(***************************************************************************)
(* For any pages, commands and mishaps: a page gives up the edit it has    *)
(* sent only when that edit has ended, when the dialog is opened anew, or  *)
(* when the end of another command is settled (useGroupingWorkspace:       *)
(* pending and the effect on command.data).                                *)
(***************************************************************************)
THEOREM EditsStayRetained == GroupSpec => EditRetained
<1>1. GroupInv /\ [GroupNext]_groupVars =>
        [ \A p \in Page :
            dialog[p].pending # NoOp /\ dialog'[p].pending # dialog[p].pending =>
              \/ Over(dialog[p].pending)
              \/ dialog'[p] = Unopened
              \/ \E o \in dialog[p].settling \ dialog'[p].settling : o # dialog[p].pending ]_groupVars
    BY PendingStays
<1> QED
    BY <1>1, GroupInvariant, PTL DEF GroupSpec, EditRetained

-----------------------------------------------------------------------------
(* What the grouping review has of its draft                               *)

(***************************************************************************)
(* Every revision and every content that a command, a review or a page     *)
(* names is one the draft has had.                                         *)
(***************************************************************************)
Past(view) == view.revision \in 1..workspace.revision /\ view.seen \subseteq 0..workspace.content

OnlyPast ==
    /\ revived \subseteq Op
    /\ workspace.revision \in Nat \ {0}
    /\ \A o \in Op :
        /\ command[o].revision \in 1..workspace.revision
        /\ command[o].shown \subseteq 0..workspace.content
        /\ reviews[o].of \in 0..workspace.content
    /\ \A p \in Page :
        /\ dialog[p].known # NoView => dialog[p].known.revision \in 1..workspace.revision
        /\ \A view \in {dialog[p].tree, dialog[p].fetch, dialog[p].opened} : view # NoView => Past(view)

(***************************************************************************)
(* A command that succeeds gives the draft one revision and one content at *)
(* most, a prepared review its own only once it is retired, and the roles  *)
(* are written before their command ends.                                  *)
(***************************************************************************)
Done == {o \in Op : command[o].state = "succeeded"}
WithReview == IF workspace.accepting # NoOp THEN 1 ELSE 0
Unretired == IF workspace.phase = "accepted" THEN 0 ELSE WithReview
InRoles == IF workspace.phase = "roles" THEN 1 ELSE 0

Counted ==
    /\ \A o \in Op : command[o].state # "absent" => \E i \in 1..Len(queue) : queue[i] = o
    /\ workspace.revision + WithReview <= Cardinality(Done) + 1
    /\ workspace.content + Unretired <= Cardinality(Done) + InRoles

LEMMA OpsAreFinite ==
    ASSUME NEW S \in SUBSET Op
    PROVE  IsFiniteSet(S) /\ Cardinality(S) \in Nat
<1>1. IsFiniteSet(Op)
    BY GroupAssumption, FS_Interval DEF Op
<1> QED
    BY <1>1, FS_Subset, FS_CardinalityType

LEMMA MoreOps ==
    ASSUME NEW S \in SUBSET Op, NEW T \in SUBSET Op, S \subseteq T
    PROVE  Cardinality(S) <= Cardinality(T)
BY OpsAreFinite, FS_Subset

\* what a step adds to the two sums
Spends(n) ==
    /\ workspace'.revision + WithReview' <= workspace.revision + WithReview + n
    /\ workspace'.content + Unretired' + InRoles <= workspace.content + Unretired + InRoles' + n

Enqueues ==
    /\ queue' = queue \/ \E q \in Op : queue' = Append(queue, q)
    /\ \A o \in Op : command'[o].state # "absent" => command[o].state # "absent" \/ queue' = Append(queue, o)

LEMMA CountedOn ==
    ASSUME GroupInv, Counted, Enqueues, Done \subseteq Done', NEW n \in {0, 1}, Spends(n),
           n = 1 => Done' # Done,
           workspace' \in DraftForm
    PROVE  Counted'
<1>1. /\ queue \in Seq(Op) /\ workspace.revision \in Nat /\ workspace.content \in Nat
      /\ workspace'.revision \in Nat /\ workspace'.content \in Nat
    BY DEF GroupInv, GroupForms, Enlisted, DraftForm
<1>2. ASSUME NEW o \in Op, command'[o].state # "absent"
      PROVE  \E i \in 1..Len(queue') : queue'[i] = o
  <2>1. CASE queue' = queue
    <3>1. command[o].state # "absent" \/ queue' = Append(queue, o)
        BY <1>2 DEF Enqueues
    <3>2. queue # Append(queue, o)
        BY <1>1
    <3> QED
        BY <2>1, <3>1, <3>2 DEF Counted
  <2>2. CASE \E q \in Op : queue' = Append(queue, q)
    <3>1. PICK q \in Op : queue' = Append(queue, q)
        BY <2>2
    <3>2. /\ Len(queue') = Len(queue) + 1 /\ Len(queue) \in Nat /\ queue'[Len(queue) + 1] = q
          /\ \A i \in 1..Len(queue) : queue'[i] = queue[i]
        BY <1>1, <3>1
    <3>3. CASE command[o].state # "absent"
        BY <3>2, <3>3 DEF Counted
    <3>4. CASE queue' = Append(queue, o)
      <4>1. queue'[Len(queue) + 1] = o
          BY <1>1, <3>4
      <4> QED
          BY <3>2, <4>1
    <3> QED
        BY <1>2, <3>3, <3>4 DEF Enqueues
  <2> QED
      BY <2>1, <2>2 DEF Enqueues
<1>3. Cardinality(Done) \in Nat /\ Cardinality(Done') \in Nat /\ Cardinality(Done) + n <= Cardinality(Done')
  <2>1. Done \subseteq Op /\ Done' \subseteq Op
      BY DEF Done
  <2>2. Cardinality(Done) \in Nat /\ Cardinality(Done') \in Nat /\ Cardinality(Done) <= Cardinality(Done')
      BY <2>1, OpsAreFinite, MoreOps
  <2>3. CASE n = 1
    <3>1. Cardinality(Done) # Cardinality(Done')
        BY <2>1, <2>3, OpsAreFinite, FS_Subset
    <3> QED
        BY <2>2, <2>3, <3>1
  <2> QED
      BY <2>2, <2>3
<1>4. /\ WithReview \in {0, 1} /\ WithReview' \in {0, 1} /\ Unretired \in {0, 1} /\ Unretired' \in {0, 1}
      /\ InRoles \in {0, 1} /\ InRoles' \in {0, 1}
    BY DEF WithReview, Unretired, InRoles
<1>5. workspace'.revision + WithReview' <= Cardinality(Done') + 1
  <2>1. \A a, b, c, d, k, m \in Nat : a + b <= c + d + n /\ c + d <= k + 1 /\ k + n <= m => a + b <= m + 1
      OBVIOUS
  <2>2. workspace'.revision + WithReview' <= workspace.revision + WithReview + n
      BY DEF Spends
  <2>3. workspace.revision + WithReview <= Cardinality(Done) + 1
      BY DEF Counted
  <2> QED
      BY <1>1, <1>3, <1>4, <2>1, <2>2, <2>3
<1>6. workspace'.content + Unretired' <= Cardinality(Done') + InRoles'
  <2>1. PICK a, b, c, d, e, f, k, m :
            /\ a = workspace'.content /\ b = Unretired' /\ c = workspace.content /\ d = Unretired
            /\ e = InRoles /\ f = InRoles' /\ k = Cardinality(Done) /\ m = Cardinality(Done')
      OBVIOUS
  <2>6. {a, b, c, d, e, f, k, m} \subseteq Nat
      BY <1>1, <1>3, <1>4, <2>1
  <2>2. a + b + e <= c + d + f + n
      BY <2>1 DEF Spends
  <2>3. c + d <= k + e
      BY <2>1 DEF Counted
  <2>4. k + n <= m
      BY <1>3, <2>1
  <2>5. a + b <= m + f
      BY <2>2, <2>3, <2>4, <2>6
  <2> QED
      BY <2>1, <2>5
<1>7. Cardinality(Done)' = Cardinality(Done')
    OBVIOUS
<1> QED
    BY <1>2, <1>5, <1>6, <1>7 DEF Counted

(***************************************************************************)
(* What a step leaves in commands, reviews and dialogs was there or is of  *)
(* the draft as it was before the step.                                    *)
(***************************************************************************)
CommandsTell ==
    \A o \in Op :
        \/ command'[o].revision = command[o].revision /\ command'[o].shown = command[o].shown
        \/ command'[o].revision \in 1..workspace.revision /\ command'[o].shown \subseteq 0..workspace.content

ReviewsTell == \A o \in Op : reviews'[o].of \in {reviews[o].of, 0, workspace.content}

PagesTell ==
    \A p \in Page :
        /\ dialog'[p].known # NoView =>
              dialog'[p].known = dialog[p].known \/ dialog'[p].known.revision \in 1..workspace.revision
        /\ \A view \in {dialog'[p].tree, dialog'[p].fetch, dialog'[p].opened} :
              view # NoView => view \in {dialog[p].tree, dialog[p].fetch, dialog[p].opened} \/ Past(view)

LEMMA OnlyPastOn ==
    ASSUME GroupInv, OnlyPast, workspace' \in DraftForm,
           workspace.revision <= workspace'.revision, workspace.content <= workspace'.content,
           revived' \subseteq Op, CommandsTell, ReviewsTell, PagesTell
    PROVE  OnlyPast'
<1>1. /\ workspace.revision \in Nat \ {0} /\ workspace'.revision \in Nat
      /\ workspace.content \in Nat /\ workspace'.content \in Nat
    BY DEF GroupInv, GroupForms, DraftForm, OnlyPast
<1>2. /\ 1..workspace.revision \subseteq 1..workspace'.revision
      /\ 0..workspace.content \subseteq 0..workspace'.content
      /\ 0 \in 0..workspace.content /\ workspace.content \in 0..workspace.content
      /\ workspace'.revision \in Nat \ {0}
    BY <1>1
<1>3. ASSUME NEW view, Past(view)
      PROVE  Past(view)'
    BY <1>2, <1>3 DEF Past
<1>4. ASSUME NEW o \in Op
      PROVE  /\ command'[o].revision \in 1..workspace'.revision
             /\ command'[o].shown \subseteq 0..workspace'.content
             /\ reviews'[o].of \in 0..workspace'.content
  <2>1. reviews'[o].of \in 0..workspace.content
      BY <1>2 DEF ReviewsTell, OnlyPast
  <2>2. command'[o].revision \in 1..workspace.revision /\ command'[o].shown \subseteq 0..workspace.content
      BY DEF CommandsTell, OnlyPast
  <2> QED
      BY <1>2, <2>1, <2>2
<1>5. ASSUME NEW p \in Page
      PROVE  /\ dialog'[p].known # NoView => dialog'[p].known.revision \in 1..workspace'.revision
             /\ \A view \in {dialog'[p].tree, dialog'[p].fetch, dialog'[p].opened} :
                   view # NoView => Past(view)'
  <2>1. dialog'[p].known # NoView => dialog'[p].known.revision \in 1..workspace.revision
      BY DEF PagesTell, OnlyPast
  <2>2. ASSUME NEW view \in {dialog'[p].tree, dialog'[p].fetch, dialog'[p].opened}, view # NoView
        PROVE  Past(view)
      BY <2>2 DEF PagesTell, OnlyPast
  <2> QED
      BY <1>2, <1>3, <2>1, <2>2
<1> QED
    BY <1>2, <1>4, <1>5 DEF OnlyPast

\* most steps leave the draft as it is
LEMMA BoundsStay ==
    ASSUME GroupInv, OnlyPast, Counted, UNCHANGED workspace, Enqueues, Done \subseteq Done',
           revived' \subseteq Op, CommandsTell, ReviewsTell, PagesTell
    PROVE  OnlyPast' /\ Counted'
<1>1. workspace' \in DraftForm /\ workspace.revision \in Nat /\ workspace.content \in Nat
    BY DEF GroupInv, GroupForms, DraftForm
<1>2. Spends(0)
  <2>1. /\ WithReview' = WithReview /\ Unretired' = Unretired /\ InRoles' = InRoles
        /\ WithReview \in Nat /\ Unretired \in Nat /\ InRoles \in Nat
      BY DEF WithReview, Unretired, InRoles
  <2> QED
      BY <1>1, <2>1 DEF Spends
<1> QED
    BY <1>1, <1>2, CountedOn, OnlyPastOn

LEMMA WorkerBounds ==
    ASSUME GroupInv, OnlyPast, Counted, NEW o \in Op, WorkerStep(o)
    PROVE  OnlyPast' /\ Counted'
<1>1. /\ workspace \in DraftForm /\ workspace' \in DraftForm /\ workspace.revision \in Nat /\ workspace.content \in Nat
      /\ command \in [Op -> CommandForm] /\ reviews \in [Op -> ReviewForm]
      /\ UNCHANGED <<queue, dialog, revived>> /\ Unfinished(o)
    BY TurnsForms, Turns DEF GroupInv, GroupForms, DraftForm
<1>2. /\ \A q \in Op \ {o} : command'[q] = command[q]
      /\ command'[o].state \in {"running", "succeeded", "failed"}
      /\ \/ command'[o].revision = command[o].revision /\ command'[o].shown = command[o].shown
         \/ command'[o].revision = 1 /\ command'[o].shown = {}
  <2>1. ASSUME NEW c \in CommandForm, NEW ph
        PROVE  /\ [c EXCEPT !.state = "running", !.phase = ph].revision = c.revision
               /\ [c EXCEPT !.state = "running", !.phase = ph].shown = c.shown
      BY DEF CommandForm
  <2>2. \A st : [Unsent EXCEPT !.state = st].revision = 1 /\ [Unsent EXCEPT !.state = st].shown = {}
      BY DEF Unsent
  <2>3. \/ \E ph \in Phase \ {"edit"} :
              command'[o] = [command[o] EXCEPT !.state = "running", !.phase = ph]
        \/ \E st \in {"succeeded", "failed"} : command'[o] = [Unsent EXCEPT !.state = st]
      BY <1>1, TurnsForms
  <2>4. command[o] \in CommandForm
      BY <1>1
  <2>5. /\ \A q \in Op \ {o} : command'[q] = command[q]
        /\ command'[o].state \in {"running", "succeeded", "failed"}
      BY TurnsCommands
  <2>6. \/ command'[o].revision = command[o].revision /\ command'[o].shown = command[o].shown
        \/ command'[o].revision = 1 /\ command'[o].shown = {}
    <3>1. CASE \E ph \in Phase \ {"edit"} : command'[o] = [command[o] EXCEPT !.state = "running", !.phase = ph]
        BY <2>1, <2>4, <3>1
    <3>2. CASE \E st \in {"succeeded", "failed"} : command'[o] = [Unsent EXCEPT !.state = st]
        BY <2>2, <3>2
    <3> QED
        BY <2>3, <3>1, <3>2
  <2> QED
      BY <2>5, <2>6
<1>3. Enqueues /\ Done \subseteq Done'
  <2>1. command[o].state \in {"queued", "running", "paused"}
      BY <1>1 DEF Unfinished
  <2> QED
      BY <1>1, <1>2, <2>1 DEF Enqueues, Done
<1>4. CommandsTell /\ PagesTell /\ revived' \subseteq Op
  <2>1. 1 \in 1..workspace.revision
      BY <1>1 DEF OnlyPast
  <2> QED
      BY <1>1, <1>2, <2>1 DEF CommandsTell, PagesTell, OnlyPast
<1>5. ReviewsTell
  <2>1. ASSUME NEW v \in ReviewForm, NEW st
        PROVE  [v EXCEPT !.state = st].of = v.of
      BY DEF ReviewForm
  <2>2. CASE CancelReview(o)
      BY <1>1, <2>1, <2>2 DEF CancelReview, ReviewsTell
  <2>3. CASE QueueReview(o)
      BY <1>1, <2>3 DEF QueueReview, ReviewsTell
  <2>4. CASE BeginEdit(o) \/ BeginPrepare(o) \/ FinishEdit(o) \/ RefuseCommand(o)
      BY <2>4 DEF BeginEdit, BeginPrepare, FinishEdit, RefuseCommand, ReviewsTell
  <2> QED
      BY <2>2, <2>3, <2>4 DEF WorkerStep
<1>6. command'[o].state = "succeeded" => Done' # Done
    BY <1>1 DEF Done, Unfinished
<1> DEFINE Grows(n) ==
       /\ workspace.revision <= workspace'.revision /\ workspace.content <= workspace'.content
       /\ Spends(n)
<1>7. \/ Grows(0)
      \/ Grows(1) /\ command'[o].state = "succeeded"
  <2> DEFINE state(st) == command' = [command EXCEPT ![o] = [Unsent EXCEPT !.state = st]]
  <2>1. ASSUME NEW st, state(st)
        PROVE  command'[o].state = st
      BY <1>1, <2>1 DEF Unsent
  <2>2. CASE CancelReview(o)
    <3>1. /\ workspace'.revision = workspace.revision + 1 /\ workspace'.content = workspace.content
          /\ workspace'.accepting = NoOp /\ workspace.accepting # NoOp
          /\ workspace.phase = "ready" /\ workspace'.phase = "ready"
        BY <1>1, <2>2 DEF CancelReview, Current, Ready, DraftForm
    <3>2. Grows(1)
        BY <1>1, <3>1 DEF Spends, WithReview, Unretired, InRoles
    <3>3. command'[o].state = "succeeded"
        BY <2>1, <2>2 DEF CancelReview, End
    <3> QED
        BY <3>2, <3>3
  <2>3. CASE BeginEdit(o) /\ Finished(TRUE) /\ End(o, "succeeded")
    <3>1. /\ workspace'.revision = workspace.revision + 1 /\ workspace'.content = workspace.content + 1
          /\ workspace'.accepting = workspace.accepting
          /\ workspace.phase = "ready" /\ workspace'.phase = "ready"
        BY <1>1, <2>3 DEF BeginEdit, Finished, Current, Ready, DraftForm
    <3>2. Grows(1)
        BY <1>1, <3>1 DEF Spends, WithReview, Unretired, InRoles
    <3>3. command'[o].state = "succeeded"
        BY <2>1, <2>3 DEF End
    <3> QED
        BY <3>2, <3>3
  <2>4. CASE BeginEdit(o) /\ Phased("roles", TRUE)
    <3>1. /\ workspace'.revision = workspace.revision /\ workspace'.content = workspace.content + 1
          /\ workspace'.accepting = workspace.accepting
          /\ workspace.phase = "ready" /\ workspace'.phase = "roles"
        BY <1>1, <2>4 DEF BeginEdit, Phased, Current, Ready, DraftForm
    <3> QED
        BY <1>1, <3>1 DEF Spends, WithReview, Unretired, InRoles
  <2>5. CASE (BeginEdit(o) /\ Phased("regroup", FALSE)) \/ BeginPrepare(o)
    <3>1. /\ workspace'.revision = workspace.revision /\ workspace'.content = workspace.content
          /\ workspace'.accepting = workspace.accepting
          /\ workspace.phase = "ready" /\ workspace'.phase \in {"regroup", "export"}
        BY <1>1, <2>5 DEF BeginEdit, BeginPrepare, Phased, Current, Ready, DraftForm
    <3> QED
        BY <1>1, <3>1 DEF Spends, WithReview, Unretired, InRoles
  <2>6. workspace.phase = command[o].phase \/ command[o].phase = "edit"
      BY <1>1 DEF GroupInv, OneUnderWay, UnderWay
  <2>7. CASE FinishEdit(o)
    <3>1. /\ workspace'.revision = workspace.revision + 1
          /\ workspace'.accepting = workspace.accepting /\ workspace'.phase = "ready"
          /\ \/ workspace.phase = "roles" /\ workspace'.content = workspace.content
             \/ workspace.phase = "regroup" /\ workspace'.content = workspace.content + 1
        BY <1>1, <2>6, <2>7 DEF FinishEdit, Finished, DraftForm
    <3>2. Grows(1)
        BY <1>1, <3>1 DEF Spends, WithReview, Unretired, InRoles
    <3>3. command'[o].state = "succeeded"
        BY <2>1, <2>7 DEF FinishEdit, End
    <3> QED
        BY <3>2, <3>3
  <2>8. CASE QueueReview(o)
    <3>1. /\ workspace'.revision = workspace.revision /\ workspace'.content = workspace.content
          /\ workspace'.phase = "ready" /\ workspace.phase = "export"
        BY <1>1, <2>6, <2>8 DEF QueueReview, DraftForm
    <3>2. Grows(1)
        BY <1>1, <3>1 DEF Spends, WithReview, Unretired, InRoles
    <3>3. command'[o].state = "succeeded"
        BY <2>1, <2>8 DEF QueueReview, End
    <3> QED
        BY <3>2, <3>3
  <2>9. CASE RefuseCommand(o)
    <3>1. /\ workspace'.revision = workspace.revision /\ workspace'.content = workspace.content
          /\ workspace'.accepting = workspace.accepting
          /\ \/ workspace' = workspace
             \/ workspace'.phase = "ready" /\ workspace.phase \in {"regroup", "export"}
        BY <1>1, <2>6, <2>9 DEF RefuseCommand, Released, DraftForm
    <3> QED
        BY <1>1, <3>1 DEF Spends, WithReview, Unretired, InRoles
  <2> HIDE DEF Grows
  <2> QED
      BY <2>2, <2>3, <2>4, <2>5, <2>7, <2>8, <2>9 DEF WorkerStep, BeginEdit
<1>8. OnlyPast'
    BY <1>1, <1>4, <1>5, <1>7, OnlyPastOn
<1>9. Counted'
    BY <1>1, <1>3, <1>6, <1>7, CountedOn
<1> QED
    BY <1>8, <1>9

\* accepted files leave the draft, and the draft is released at its next revision
LEMMA ReconcileBounds ==
    ASSUME GroupInv, OnlyPast, Counted, Reconcile \/ Retire
    PROVE  OnlyPast' /\ Counted'
<1>1. /\ workspace \in DraftForm /\ workspace.revision \in Nat /\ workspace.content \in Nat
      /\ UNCHANGED <<command, queue, dialog, revived>> /\ workspace.accepting # NoOp
    BY DEF GroupInv, GroupForms, DraftForm, Reconcile, Retire, Reconciling, WorkerLeaves
<1>2. CommandsTell /\ PagesTell /\ revived' \subseteq Op /\ Enqueues /\ Done \subseteq Done'
    BY <1>1 DEF CommandsTell, PagesTell, OnlyPast, Enqueues, Done
<1>3. ReviewsTell
  <2>1. CASE Reconcile
      BY <2>1 DEF Reconcile, ReviewsTell
  <2>2. CASE Retire
    <3>1. /\ reviews' = [reviews EXCEPT ![workspace.accepting] = [state |-> "retired", of |-> 0]]
          /\ reviews \in [Op -> ReviewForm]
        BY <2>2 DEF Retire, GroupInv, GroupForms
    <3> QED
        BY <3>1 DEF ReviewsTell
  <2> QED
      BY <2>1, <2>2
<1>4. workspace' \in DraftForm
    BY ReconcileKeeps DEF GroupInv, GroupForms
<1>5. /\ workspace.revision <= workspace'.revision /\ workspace.content <= workspace'.content
      /\ Spends(0)
  <2>1. CASE Reconcile
    <3>1. /\ workspace'.revision = workspace.revision /\ workspace'.content = workspace.content + 1
          /\ workspace'.accepting = workspace.accepting
          /\ workspace.phase = "ready" /\ workspace'.phase = "accepted"
        BY <1>1, <2>1 DEF Reconcile, Phased, Ready, DraftForm
    <3> QED
        BY <1>1, <3>1 DEF Spends, WithReview, Unretired, InRoles
  <2>2. CASE Retire
    <3>1. /\ workspace'.revision = workspace.revision + 1 /\ workspace'.content = workspace.content
          /\ workspace'.accepting = NoOp /\ workspace.phase = "accepted" /\ workspace'.phase = "ready"
        BY <1>1, <2>2 DEF Retire, DraftForm
    <3> QED
        BY <1>1, <3>1 DEF Spends, WithReview, Unretired, InRoles
  <2> QED
      BY <2>1, <2>2
<1> QED
    BY <1>2, <1>3, <1>4, <1>5, CountedOn, OnlyPastOn

\* reviews move, and a recovery pauses what was live
LEMMA ReviewsBounds ==
    ASSUME GroupInv, OnlyPast, Counted, Recover \/ \E o \in Op : ReviewsMove(o)
    PROVE  OnlyPast' /\ Counted'
<1>1. /\ UNCHANGED <<workspace, queue, dialog>> /\ revived' \subseteq Op
      /\ command \in [Op -> CommandForm] /\ reviews \in [Op -> ReviewForm]
    BY DEF GroupInv, GroupForms, Recover, ReviewsMove, ReviewStep, DeleteReview, Revive, AcceptSaved,
           WorkerLeaves, OnlyPast
<1>2. ASSUME NEW v \in ReviewForm, NEW st
      PROVE  [v EXCEPT !.state = st].of = v.of
    BY DEF ReviewForm
<1>3. ASSUME NEW c \in CommandForm, NEW st
      PROVE  /\ [c EXCEPT !.state = st].revision = c.revision /\ [c EXCEPT !.state = st].shown = c.shown
             /\ [c EXCEPT !.state = st].state = st
    BY DEF CommandForm
<1>4. CASE Recover
  <2>1. \A o \in Op : reviews'[o].of = reviews[o].of
      BY <1>1, <1>2, <1>4 DEF Recover
  <2>2. \A o \in Op : \/ command'[o] = command[o]
                      \/ Live(o) /\ command'[o] = [command[o] EXCEPT !.state = "paused"]
      BY <1>4 DEF Recover
  <2>3. ASSUME NEW o \in Op
        PROVE  /\ command'[o].revision = command[o].revision /\ command'[o].shown = command[o].shown
               /\ \/ command'[o].state = command[o].state
                  \/ command[o].state \in {"queued", "running"} /\ command'[o].state = "paused"
    <3>1. CASE command'[o] = command[o]
        BY <3>1
    <3>2. CASE Live(o) /\ command'[o] = [command[o] EXCEPT !.state = "paused"]
      <4>1. command[o] \in CommandForm /\ command[o].state \in {"queued", "running"}
          BY <1>1, <3>2 DEF Live
      <4> QED
          BY <1>3, <3>2, <4>1
    <3> QED
        BY <2>2, <3>1, <3>2
  <2> QED
      BY <1>1, <2>1, <2>3, BoundsStay DEF CommandsTell, ReviewsTell, PagesTell, Enqueues, Done
<1>5. ASSUME NEW o \in Op, ReviewsMove(o)
      PROVE  OnlyPast' /\ Counted'
  <2>1. UNCHANGED command
      BY <1>5 DEF ReviewsMove, ReviewStep, DeleteReview, Revive, AcceptSaved
  <2>2. \E st : reviews' = [reviews EXCEPT ![o] = [reviews[o] EXCEPT !.state = st]]
      BY <1>1, <1>5 DEF ReviewsMove, ReviewStep, DeleteReview, Revive, AcceptSaved, AcceptReview
  <2>3. \A q \in Op : reviews'[q].of = reviews[q].of
      BY <1>1, <1>2, <2>2
  <2> QED
      BY <1>1, <2>1, <2>3, BoundsStay DEF CommandsTell, ReviewsTell, PagesTell, Enqueues, Done
<1> QED
    BY <1>4, <1>5

\* a page shows what it has read now, or what it showed
LEMMA DialogBounds ==
    ASSUME GroupInv, OnlyPast, Counted, UNCHANGED <<groupServerVars, revived>>, NEW p \in Page, NEW d,
           dialog' = [dialog EXCEPT ![p] = d],
           d.known # NoView => d.known = dialog[p].known \/ d.known.revision \in 1..workspace.revision,
           \A view \in {d.tree, d.fetch, d.opened} :
               view # NoView => view \in {dialog[p].tree, dialog[p].fetch, dialog[p].opened} \/ Past(view)
    PROVE  OnlyPast' /\ Counted'
<1>1. dialog \in [Page -> DialogForm]
    BY DEF GroupInv, GroupForms
<1>2. PagesTell
    BY <1>1 DEF PagesTell
<1> QED
    BY <1>2, BoundsStay DEF CommandsTell, ReviewsTell, Enqueues, Done, groupServerVars, OnlyPast

LEMMA ServedIsPast ==
    ASSUME GroupInv, OnlyPast
    PROVE  Served.revision \in 1..workspace.revision
BY DEF Served, OnlyPast

LEMMA PageBounds ==
    ASSUME GroupInv, OnlyPast, Counted, NEW p \in Page, PageStep(p)
    PROVE  OnlyPast' /\ Counted'
<1> DEFINE d == dialog[p]
<1>1. /\ dialog \in [Page -> DialogForm] /\ d \in DialogForm /\ UNCHANGED <<groupServerVars, revived>>
    BY DEF GroupInv, GroupForms, PageStep, Poll, Handle, ReadTree, OpenEditor, CloseEditor, RetryEdit,
           Accepting, Break, ReopenPage, Settle, PageOnly
<1>2. ASSUME NEW e, dialog' = [dialog EXCEPT ![p] = e],
             e.known \in {d.known, Served}, e.tree = d.tree, e.fetch = d.fetch, e.opened \in {d.opened, d.tree, NoView}
      PROVE  OnlyPast' /\ Counted'
    BY <1>1, <1>2, ServedIsPast, DialogBounds
<1>3. CASE Poll(p)
  <2>1. dialog' = [dialog EXCEPT ![p] = [d EXCEPT !.known = Served]]
      BY <1>1, <1>3 DEF Poll
  <2>2. /\ [d EXCEPT !.known = Served].known = Served /\ [d EXCEPT !.known = Served].tree = d.tree
        /\ [d EXCEPT !.known = Served].fetch = d.fetch /\ [d EXCEPT !.known = Served].opened = d.opened
      BY <1>1 DEF DialogForm
  <2> QED
      BY <1>2, <2>1, <2>2
<1>4. CASE Handle(p)
  <2> DEFINE S == d.settling \union {Followed(p)}
             e == [d EXCEPT !.handled = Followed(p), !.settling = S]
  <2>1. dialog' = [dialog EXCEPT ![p] = e]
      BY <1>1, <1>4 DEF Handle
  <2>2. e.known = d.known /\ e.tree = d.tree /\ e.fetch = d.fetch /\ e.opened = d.opened
      BY <1>1 DEF DialogForm
  <2> HIDE DEF e
  <2> QED
      BY <1>2, <2>1, <2>2
<1>5. ASSUME NEW o \in Op, Settle(p, o)
      PROVE  OnlyPast' /\ Counted'
  <2>1. PICK known \in {Served, d.known} :
            dialog' = [dialog EXCEPT ![p].known = known, ![p].pending = NoOp, ![p].settling = @ \ {o}]
      BY <1>5 DEF Settle
  <2> DEFINE S == d.settling \ {o}
             e == [d EXCEPT !.known = known, !.pending = NoOp, !.settling = S]
  <2>2. dialog' = [dialog EXCEPT ![p] = e]
      BY <1>1, <2>1
  <2>3. e.known = known /\ e.tree = d.tree /\ e.fetch = d.fetch /\ e.opened = d.opened
      BY <1>1 DEF DialogForm
  <2> HIDE DEF e
  <2> QED
      BY <1>2, <2>1, <2>2, <2>3
<1>6. CASE OpenEditor(p) \/ CloseEditor(p)
  <2>1. PICK v \in {d.tree, NoView} : dialog' = [dialog EXCEPT ![p] = [d EXCEPT !.opened = v]]
      BY <1>1, <1>6 DEF OpenEditor, CloseEditor
  <2>2. /\ [d EXCEPT !.opened = v].known = d.known /\ [d EXCEPT !.opened = v].tree = d.tree
        /\ [d EXCEPT !.opened = v].fetch = d.fetch /\ [d EXCEPT !.opened = v].opened = v
      BY <1>1 DEF DialogForm
  <2> QED
      BY <1>2, <2>1, <2>2
<1>7. CASE RetryEdit(p) \/ Accepting(p) \/ Break(p)
  <2>1. UNCHANGED dialog
      BY <1>7 DEF RetryEdit, Accepting, Break
  <2>2. dialog' = [dialog EXCEPT ![p] = d]
      BY <1>1, <2>1
  <2> QED
      BY <1>2, <2>2
<1>8. CASE ReopenPage(p)
  <2>1. dialog' = [dialog EXCEPT ![p] = Unopened]
      BY <1>8 DEF ReopenPage
  <2>2. /\ Unopened.known = NoView /\ Unopened.tree = NoView /\ Unopened.fetch = NoView
        /\ Unopened.opened = NoView
      BY DEF Unopened
  <2> QED
      BY <1>1, <2>1, <2>2, DialogBounds
<1>9. CASE ReadTree(p)
  <2> DEFINE read == [revision |-> workspace.revision, seen |-> {workspace.content}]
             whole == [read EXCEPT !.seen = @ \union d.fetch.seen]
             half == [d EXCEPT !.fetch = read]
             full == [d EXCEPT !.fetch = NoView, !.tree = whole]
  <2>0. workspace.revision \in 1..workspace.revision /\ workspace.content \in 0..workspace.content
      BY DEF GroupInv, GroupForms, DraftForm, OnlyPast
  <2>1. Past(read)
      BY <2>0 DEF Past
  <2>2. CASE Of(d.fetch, workspace.revision)
    <3>1. dialog' = [dialog EXCEPT ![p] = full]
        BY <1>1, <1>9, <2>2 DEF ReadTree
    <3>2. Past(d.fetch)
        BY <2>2 DEF Of, OnlyPast
    <3>3. Past(whole)
        BY <2>0, <3>2 DEF Past
    <3>4. full.known = d.known /\ full.tree = whole /\ full.fetch = NoView /\ full.opened = d.opened
        BY <1>1 DEF DialogForm
    <3> HIDE DEF full, whole, read
    <3> QED
        BY <1>1, <3>1, <3>3, <3>4, DialogBounds
  <2>3. CASE ~Of(d.fetch, workspace.revision)
    <3>1. dialog' = [dialog EXCEPT ![p] = half]
        BY <1>1, <1>9, <2>3 DEF ReadTree
    <3>2. half.known = d.known /\ half.tree = d.tree /\ half.fetch = read /\ half.opened = d.opened
        BY <1>1 DEF DialogForm
    <3> HIDE DEF half, read
    <3> QED
        BY <1>1, <2>1, <3>1, <3>2, DialogBounds
  <2> QED
      BY <2>2, <2>3
<1> QED
    BY <1>3, <1>4, <1>5, <1>6, <1>7, <1>8, <1>9 DEF PageStep

(***************************************************************************)
(* A command is queued with what it was made on, by whoever queues it.     *)
(***************************************************************************)
LEMMA QueuedBounds ==
    ASSUME GroupInv, OnlyPast, Counted, UNCHANGED <<workspace, dialog, revived>>, NEW o \in Op, NEW c,
           command' = [command EXCEPT ![o] = c], command[o].state # "succeeded",
           \/ c.revision = command[o].revision /\ c.shown = command[o].shown
           \/ c.revision \in 1..workspace.revision /\ c.shown \subseteq 0..workspace.content,
           \/ queue' = Append(queue, o)
           \/ queue' = queue /\ (c.state = "absent" \/ command[o].state # "absent"),
           ReviewsTell
    PROVE  OnlyPast' /\ Counted'
<1>1. command'[o] = c /\ \A q \in Op \ {o} : command'[q] = command[q]
    BY DEF GroupInv, GroupForms
<1>2. CommandsTell
    BY <1>1 DEF CommandsTell
<1>3. Enqueues
    BY <1>1 DEF Enqueues
<1>4. Done \subseteq Done'
    BY <1>1 DEF Done
<1>5. PagesTell /\ revived' \subseteq Op
    BY DEF PagesTell, OnlyPast
<1> QED
    BY <1>2, <1>3, <1>4, <1>5, BoundsStay

LEMMA ArrivedBounds ==
    ASSUME GroupInv, OnlyPast, Counted, NEW r \in Sent, Arrived(r), UNCHANGED <<dialog, revived>>
    PROVE  OnlyPast' /\ Counted'
<1>1. /\ command \in [Op -> CommandForm] /\ reviews \in [Op -> ReviewForm] /\ r.op \in Op
      /\ UNCHANGED workspace
    BY DEF GroupInv, GroupForms, Sent, Arrived
<1>2. ASSUME NEW q \in Op, command' = [command EXCEPT ![q] = command[q]], UNCHANGED queue, ReviewsTell
      PROVE  OnlyPast' /\ Counted'
  <2>1. UNCHANGED command
      BY <1>1, <1>2
  <2> QED
      BY <1>1, <1>2, <2>1, BoundsStay DEF CommandsTell, PagesTell, Enqueues, Done, OnlyPast
<1>3. CASE UNCHANGED reviews /\ Enqueued(r.op)
  <2>1. ReviewsTell
      BY <1>3 DEF ReviewsTell
  <2>2. CASE command[r.op].state = "absent"
    <3> DEFINE c == [command[r.op] EXCEPT !.state = "queued"]
    <3>1. command' = [command EXCEPT ![r.op] = c] /\ queue' = Append(queue, r.op)
        BY <1>1, <1>3, <2>2 DEF Enqueued
    <3>2. c.revision = command[r.op].revision /\ c.shown = command[r.op].shown
        BY <1>1 DEF CommandForm
    <3> HIDE DEF c
    <3> QED
        BY <1>1, <2>1, <2>2, <3>1, <3>2, QueuedBounds
  <2>3. CASE command[r.op].state # "absent"
    <3>1. UNCHANGED <<command, queue>>
        BY <1>3, <2>3 DEF Enqueued
    <3> QED
        BY <1>1, <1>2, <2>1, <3>1
  <2> QED
      BY <2>2, <2>3
<1>4. CASE AcceptReview(r.op) /\ UNCHANGED <<command, queue>>
  <2>1. ASSUME NEW v \in ReviewForm, NEW st
        PROVE  [v EXCEPT !.state = st].of = v.of
      BY DEF ReviewForm
  <2>2. \E st : reviews' = [reviews EXCEPT ![r.op] = [reviews[r.op] EXCEPT !.state = st]]
      BY <1>1, <1>4 DEF AcceptReview
  <2>3. ReviewsTell
      BY <1>1, <2>1, <2>2 DEF ReviewsTell
  <2> QED
      BY <1>1, <1>2, <1>4, <2>3
<1> QED
    BY <1>3, <1>4 DEF Arrived

LEMMA ArrivalsBounds ==
    ASSUME GroupInv, OnlyPast, Counted,
           \/ \E p \in Page : Answered(p) \/ ResumeEdit(p)
           \/ \E r \in strays : Stray(r)
           \/ \E o \in Op : OtherDevice(o)
    PROVE  OnlyPast' /\ Counted'
<1>1. /\ waiting \in [Page -> Sent \union {NoRequest}] /\ strays \subseteq Sent
      /\ command \in [Op -> CommandForm]
    BY DEF GroupInv, GroupForms
<1>2. ASSUME NEW p \in Page, Answered(p)
      PROVE  OnlyPast' /\ Counted'
  <2>1. waiting[p] \in Sent
      BY <1>1, <1>2 DEF Answered
  <2> QED
      BY <1>2, <2>1, ArrivedBounds DEF Answered
<1>3. ASSUME NEW r \in strays, Stray(r)
      PROVE  OnlyPast' /\ Counted'
    BY <1>1, <1>3, ArrivedBounds DEF Stray
<1>4. ASSUME NEW p \in Page, ResumeEdit(p)
      PROVE  OnlyPast' /\ Counted'
  <2> DEFINE o == Followed(p)
             c == [command[o] EXCEPT !.state = "queued"]
  <2>1. o \in Op
      BY <1>4 DEF ResumeEdit, Followed, GroupInv, GroupForms, DialogForm, Known, AnyOp
  <2>2. /\ command' = [command EXCEPT ![o].state = "queued"] /\ command[o].state = "paused"
        /\ UNCHANGED <<workspace, queue, reviews, dialog, revived>>
      BY <1>4 DEF ResumeEdit
  <2> HIDE DEF o
  <2>3. command' = [command EXCEPT ![o] = c]
      BY <1>1, <2>1, <2>2
  <2>4. c.revision = command[o].revision /\ c.shown = command[o].shown
      BY <1>1, <2>1 DEF CommandForm
  <2> HIDE DEF c
  <2> QED
      BY <2>1, <2>2, <2>3, <2>4, QueuedBounds DEF ReviewsTell
<1>5. ASSUME NEW o \in Op, OtherDevice(o)
      PROVE  OnlyPast' /\ Counted'
  <2>1. PICK action \in Action, target \in {workspace.accepting, NoOp} :
           command' = [command EXCEPT ![o] =
                [@ EXCEPT !.state = "queued", !.action = action, !.revision = workspace.revision,
                          !.shown = {workspace.content}, !.review = target]]
      BY <1>5 DEF OtherDevice
  <2> DEFINE c == [Unsent EXCEPT !.state = "queued", !.action = action, !.revision = workspace.revision,
                                 !.shown = {workspace.content}, !.review = target]
  <2>2. /\ command[o] = Unsent /\ queue' = Append(queue, o)
        /\ UNCHANGED <<workspace, reviews, dialog, revived>>
      BY <1>5 DEF OtherDevice, Unused
  <2>3. command' = [command EXCEPT ![o] = c] /\ command[o].state = "absent"
      BY <1>1, <2>1, <2>2 DEF Unsent
  <2>4. c.revision = workspace.revision /\ c.shown = {workspace.content}
      BY DEF Unsent
  <2>5. c.revision \in 1..workspace.revision /\ c.shown \subseteq 0..workspace.content
      BY <2>4 DEF GroupInv, GroupForms, DraftForm, OnlyPast
  <2> HIDE DEF c
  <2> QED
      BY <2>2, <2>3, <2>5, QueuedBounds DEF ReviewsTell
<1> QED
    BY <1>2, <1>3, <1>4, <1>5

\* what a page sends is made on what it shows
LEMMA SendBounds ==
    ASSUME GroupInv, OnlyPast, Counted, NEW p \in Page, NEW o \in Op,
           EditRow(p, o) \/ ReturnToEditing(p, o) \/ CommitEditor(p, o)
    PROVE  OnlyPast' /\ Counted'
<1> DEFINE d == dialog[p]
<1>1. /\ dialog \in [Page -> DialogForm] /\ d \in DialogForm /\ command \in [Op -> CommandForm]
      /\ d.known # NoView /\ UNCHANGED <<workspace, queue, reviews, revived>>
    BY DEF GroupInv, GroupForms, EditRow, ReturnToEditing, CommitEditor, Unblocked, Unhindered, Editable, Send
<1>2. \E action, viewed, rows, target :
        Send(p, o, action, viewed, rows, target) /\ viewed \subseteq 0..workspace.content
  <2>1. CASE EditRow(p, o)
    <3>1. d.tree.seen \subseteq 0..workspace.content
        BY <2>1 DEF EditRow, Unblocked, Of, OnlyPast, Past
    <3>2. PICK action \in {"edit", "prepare"} : Send(p, o, action, d.tree.seen, TRUE, NoOp)
        BY <2>1 DEF EditRow
    <3> QED
        BY <3>1, <3>2
  <2>2. CASE ReturnToEditing(p, o)
    <3>1. PICK nothing, no, target : nothing = {} /\ no = FALSE /\ target = d.known.accepting
        OBVIOUS
    <3>2. Send(p, o, "cancel_review", nothing, no, target)
        BY <2>2, <3>1 DEF ReturnToEditing
    <3>3. nothing \subseteq 0..workspace.content
        BY <3>1
    <3> HIDE <3>1
    <3> QED
        BY <3>2, <3>3
  <2>3. CASE CommitEditor(p, o)
    <3>1. d.opened.seen \subseteq 0..workspace.content
        BY <2>3 DEF CommitEditor, OnlyPast, Past
    <3>2. Send(p, o, "edit", d.opened.seen, FALSE, NoOp)
        BY <2>3 DEF CommitEditor
    <3> QED
        BY <3>1, <3>2
  <2> QED
      BY <2>1, <2>2, <2>3
<1>3. PICK action, viewed, rows, target :
        Send(p, o, action, viewed, rows, target) /\ viewed \subseteq 0..workspace.content
    BY <1>2
<1>4. /\ command[o] = Unsent
      /\ command' = [command EXCEPT ![o] = [@ EXCEPT !.action = action, !.revision = d.known.revision,
                                                     !.shown = viewed, !.rows = rows, !.review = target]]
    BY <1>3 DEF Send, Unused
<1>5. /\ \A q \in Op \ {o} : command'[q] = command[q]
      /\ command'[o].state = "absent" /\ command[o].state = "absent"
      /\ command'[o].revision = d.known.revision /\ command'[o].shown = viewed
    BY <1>1, <1>4 DEF Unsent
<1>6. CommandsTell
    BY <1>1, <1>3, <1>5 DEF CommandsTell, OnlyPast
<1>7. PagesTell
  <2>1. \/ dialog' = [dialog EXCEPT ![p] = [d EXCEPT !.pending = o]]
        \/ dialog' = [dialog EXCEPT ![p] = [d EXCEPT !.pending = o, !.opened = NoView]]
      BY <1>1 DEF EditRow, ReturnToEditing, CommitEditor
  <2>2. \E e : /\ dialog' = [dialog EXCEPT ![p] = e]
               /\ e.known = d.known /\ e.tree = d.tree /\ e.fetch = d.fetch /\ e.opened \in {d.opened, NoView}
    <3>1. ASSUME NEW c \in DialogForm
          PROVE  /\ LET e == [c EXCEPT !.pending = o]
                    IN  e.known = c.known /\ e.tree = c.tree /\ e.fetch = c.fetch /\ e.opened = c.opened
                 /\ LET e == [c EXCEPT !.pending = o, !.opened = NoView]
                    IN  e.known = c.known /\ e.tree = c.tree /\ e.fetch = c.fetch /\ e.opened = NoView
        BY DEF DialogForm
    <3> QED
        BY <1>1, <2>1, <3>1
  <2> QED
      BY <1>1, <2>2 DEF PagesTell
<1>8. ReviewsTell /\ Enqueues /\ Done \subseteq Done' /\ revived' \subseteq Op
    BY <1>1, <1>5 DEF ReviewsTell, Enqueues, Done, OnlyPast
<1> QED
    BY <1>1, <1>6, <1>7, <1>8, BoundsStay

LEMMA GroupBoundsStep == GroupInv /\ OnlyPast /\ Counted /\ [GroupNext]_groupVars => OnlyPast' /\ Counted'
<1> SUFFICES ASSUME GroupInv, OnlyPast, Counted, [GroupNext]_groupVars
             PROVE  OnlyPast' /\ Counted'
    OBVIOUS
<1>1. CASE UNCHANGED groupVars
  <2>1. UNCHANGED <<workspace, command, queue, reviews, dialog, revived>>
      BY <1>1 DEF groupVars, groupServerVars
  <2>2. Enqueues /\ Done \subseteq Done' /\ revived' \subseteq Op
      BY <2>1 DEF Enqueues, Done, OnlyPast
  <2>3. CommandsTell /\ ReviewsTell /\ PagesTell
      BY <2>1 DEF CommandsTell, ReviewsTell, PagesTell
  <2> QED
      BY <2>1, <2>2, <2>3, BoundsStay
<1>2. ASSUME NEW o \in Op, WorkerStep(o)
      PROVE  OnlyPast' /\ Counted'
    BY <1>2, WorkerBounds
<1>3. CASE \/ \E o \in Op : ReviewsMove(o)
           \/ Recover
    BY <1>3, ReviewsBounds
<1>4. CASE Reconcile \/ Retire
    BY <1>4, ReconcileBounds
<1>5. ASSUME NEW p \in Page, PageStep(p)
      PROVE  OnlyPast' /\ Counted'
    BY <1>5, PageBounds
<1>6. ASSUME NEW p \in Page, NEW o \in Op, EditRow(p, o) \/ ReturnToEditing(p, o) \/ CommitEditor(p, o)
      PROVE  OnlyPast' /\ Counted'
    BY <1>6, SendBounds
<1>7. CASE \/ \E p \in Page : Answered(p) \/ ResumeEdit(p)
           \/ \E r \in strays : Stray(r)
           \/ \E o \in Op : OtherDevice(o)
    BY <1>7, ArrivalsBounds
<1> QED
    BY <1>1, <1>2, <1>3, <1>4, <1>5, <1>6, <1>7 DEF GroupNext, WorkerStep, ReviewsMove, PageStep

LEMMA GroupBoundsInit == GroupInit => OnlyPast /\ Counted
<1> SUFFICES ASSUME GroupInit
             PROVE  OnlyPast /\ Counted
    OBVIOUS
<1>1. 1 \in Op /\ NoOp \notin Op
    BY OpsAreNumbers
<1>2. OnlyPast
  <2>1. \A o \in Op : command[o].revision = 1 /\ command[o].shown = {} /\ reviews[o].of = 0
      BY DEF GroupInit, Unsent
  <2>2. \A p \in Page : /\ dialog[p].known = NoView /\ dialog[p].tree = NoView
                        /\ dialog[p].fetch = NoView /\ dialog[p].opened = NoView
      BY DEF GroupInit, Unopened
  <2>3. workspace.revision = 1 /\ workspace.content = 0 /\ revived = {}
      BY DEF GroupInit
  <2> QED
      BY <2>1, <2>2, <2>3 DEF OnlyPast
<1>3. Cardinality(Done) = 1
  <2>1. \A o \in Op : command[o].state = "succeeded" <=> o = 1
      BY DEF GroupInit, Unsent
  <2>2. Done = {1}
      BY <1>1, <2>1 DEF Done
  <2> QED
      BY <2>2, FS_Singleton
<1>4. Counted
  <2>1. \A o \in Op : command[o].state # "absent" => o = 1
      BY DEF GroupInit, Unsent
  <2>2. Len(queue) = 1 /\ queue[1] = 1
      BY DEF GroupInit
  <2>3. workspace.revision = 1 /\ workspace.content = 0 /\ WithReview = 1 /\ Unretired = 1 /\ InRoles = 0
      BY DEF GroupInit, WithReview, Unretired, InRoles, NoOp
  <2> QED
      BY <1>3, <2>1, <2>2, <2>3 DEF Counted
<1> QED
    BY <1>2, <1>4

(***************************************************************************)
(* As many commands have succeeded, at most, as are in the queue.          *)
(***************************************************************************)
LEMMA DoneWereQueued ==
    ASSUME Counted, queue \in Seq(Op)
    PROVE  Cardinality(Done) \in Nat /\ Cardinality(Done) <= Len(queue)
<1> DEFINE spot == [o \in Done |-> CHOOSE i \in 1..Len(queue) : queue[i] = o]
<1>1. \A o \in Done : spot[o] \in 1..Len(queue) /\ queue[spot[o]] = o
    BY DEF Counted, Done
<1>2. spot \in Injection(Done, 1..Len(queue))
    BY <1>1 DEF Injection, IsInjective
<1>3. Len(queue) \in Nat
    OBVIOUS
<1>4. IsFiniteSet(1..Len(queue)) /\ Cardinality(1..Len(queue)) = Len(queue)
    BY <1>3, FS_Interval
<1>5. Cardinality(Done) <= Cardinality(1..Len(queue))
    BY <1>2, <1>4, FS_Injection
<1>6. Cardinality(Done) \in Nat
    BY OpsAreFinite DEF Done
<1> QED
    BY <1>4, <1>5, <1>6

LEMMA BoundsGiveForm == GroupInv /\ OnlyPast /\ Counted => GroupTypeOK
<1> SUFFICES ASSUME GroupInv, OnlyPast, Counted
             PROVE  GroupTypeOK
    OBVIOUS
<1>1. /\ GroupForms /\ queue \in Seq(Op) /\ Len(queue) \in Nat
      /\ workspace \in DraftForm /\ workspace.revision \in Nat \ {0} /\ workspace.content \in Nat
    BY DEF GroupInv, GroupForms, Enlisted, OnlyPast, DraftForm
<1>2. /\ workspace.revision <= Len(queue) + 1 /\ workspace.content <= Len(queue) + 1
  <2>1. WithReview \in {0, 1} /\ Unretired \in {0, 1} /\ InRoles \in {0, 1}
      BY DEF WithReview, Unretired, InRoles
  <2> QED
      BY <1>1, <2>1, DoneWereQueued DEF Counted
<1>3. /\ 1..workspace.revision \subseteq DraftRevision /\ 0..workspace.content \subseteq Content
      /\ workspace.revision \in DraftRevision /\ workspace.content \in Content
    BY <1>1, <1>2 DEF DraftRevision, Content
<1>4. workspace \in [phase : {"ready", "roles", "regroup", "export", "accepted"}, revision : DraftRevision,
                     accepting : Op \union {NoOp}, content : Content]
    BY <1>1, <1>3 DEF DraftForm, AnyOp
<1>5. command \in [Op -> Command]
  <2>1. ASSUME NEW c \in CommandForm, c.revision \in DraftRevision, c.shown \subseteq Content
        PROVE  c \in Command
      BY <2>1 DEF CommandForm, CommandState, Command, AnyOp
  <2>2. \A o \in Op : command[o] \in Command
      BY <1>1, <1>3, <2>1 DEF GroupForms, OnlyPast
  <2> QED
      BY <1>1, <2>2 DEF GroupForms
<1>6. reviews \in [Op -> Review]
  <2>1. ASSUME NEW v \in ReviewForm, v.of \in Content
        PROVE  v \in Review
      BY <2>1 DEF ReviewForm, ReviewState, Review
  <2>2. \A o \in Op : reviews[o] \in Review
      BY <1>1, <1>3, <2>1 DEF GroupForms, OnlyPast
  <2> QED
      BY <1>1, <2>2 DEF GroupForms
<1>7. dialog \in [Page -> Dialog]
  <2>1. ASSUME NEW view \in Shown, Past(view)
        PROVE  view \in View
      BY <1>3, <2>1 DEF Past, Shown, View
  <2>2. ASSUME NEW known \in Known, known.revision \in 1..workspace.revision
        PROVE  known \in Status
      BY <1>3, <2>2 DEF Known, Status, AnyOp
  <2>3. ASSUME NEW d \in DialogForm, d.known \in Status \union {NoView}, d.tree \in View \union {NoView},
               d.fetch \in View \union {NoView}, d.opened \in View \union {NoView}
        PROVE  d \in Dialog
      BY <2>3 DEF DialogForm, Dialog, AnyOp
  <2>4. ASSUME NEW p \in Page
        PROVE  dialog[p] \in Dialog
    <3>1. dialog[p] \in DialogForm
        BY <1>1 DEF GroupForms
    <3>2. /\ dialog[p].known \in Known \union {NoView} /\ dialog[p].tree \in Shown \union {NoView}
          /\ dialog[p].fetch \in Shown \union {NoView} /\ dialog[p].opened \in Shown \union {NoView}
        BY <3>1 DEF DialogForm
    <3>3. dialog[p].known \in Status \union {NoView}
        BY <2>2, <3>2 DEF OnlyPast
    <3>4. /\ dialog[p].tree \in View \union {NoView} /\ dialog[p].fetch \in View \union {NoView}
          /\ dialog[p].opened \in View \union {NoView}
        BY <2>1, <3>2 DEF OnlyPast
    <3> QED
        BY <2>3, <3>1, <3>3, <3>4
  <2> QED
      BY <1>1, <2>4 DEF GroupForms
<1> QED
    BY <1>1, <1>4, <1>5, <1>6, <1>7 DEF GroupTypeOK, GroupForms, OnlyPast

(***************************************************************************)
(* For any pages, commands, losses and recoveries: no command, review or   *)
(* page names a revision or a content that the draft has not had, and the  *)
(* draft has no more of them than commands were queued (worker.step,       *)
(* pages.current).                                                         *)
(***************************************************************************)
THEOREM GroupKeepsItsForm == GroupSpec => [](GroupTypeOK /\ OnlyPast)
<1>1. GroupSpec => [](OnlyPast /\ Counted)
    BY GroupBoundsInit, GroupBoundsStep, GroupInvariant, PTL DEF GroupSpec
<1>2. GroupInv /\ OnlyPast /\ Counted => GroupTypeOK /\ OnlyPast
    BY BoundsGiveForm
<1> QED
    BY <1>1, <1>2, GroupInvariant, PTL

-----------------------------------------------------------------------------
(* Metadata edits of older libraries                                       *)

EditsForms ==
    /\ EditsTypeOK
    /\ sends \in [EditId -> 0..MaxSends] /\ leaves \in Nat /\ failures \in Nat

(***************************************************************************)
(* What the owner of edit c has been shown: what it is based on, the       *)
(* revisions that were reviewed, and what its message shows.               *)
(***************************************************************************)
Informed(c, basis, reviewed) ==
    \A f \in Field :
        /\ 1..basis \subseteq seen[c][f]
        /\ reviewed[f] # 0 => reviewed[f] \in seen[c][f]
        /\ reviewed[f] <= revision[f]

Told(c, p) ==
    /\ Informed(c, p.basis, p.reviewed)
    /\ \A f \in Field :
        /\ 1..p.recovery \subseteq seen[c][f]
        /\ \A r \in Revision : p.conflict = <<f, r>> => r \in seen[c][f] /\ r <= revision[f]

\* an edit is held by the page, by storage and by its run, and asked for on the
\* wire and by requests nobody waits for: all of it was shown
ShownOf(c) ==
    /\ \A p \in {retained[c], onDisk[c], executing[c]} : p # NoEdit => Told(c, p)
    /\ wire[c] \in Attempt => wire[c].op[1] = c /\ Informed(c, wire[c].basis, wire[c].reviewed)
    /\ \A a \in late : a.op[1] = c => a.basis # 0 /\ Informed(c, a.basis, a.reviewed)
    /\ wire[c] \in Answer =>
         \A f \in Field, r \in Revision : wire[c].conflict = <<f, r>> => r <= revision[f]

\* an edit that was never sent is nowhere but with the page
Unrequested(c) ==
    sends[c] = 0 =>
        /\ wire[c] = NoWire
        /\ \A a \in late \union committed : a.op[1] # c
        /\ retained[c] = NoEdit /\ c \notin dropped => onDisk[c] = NoEdit

(***************************************************************************)
(* An edit the page no longer holds was discarded or committed, and        *)
(* storage forgets with the page; a run that is not stale belongs to the   *)
(* library on show.                                                        *)
(***************************************************************************)
Accounted(c) ==
    /\ failures = 0 =>
        /\ retained[c] = NoEdit <=> onDisk[c] = NoEdit
        /\ sends[c] > 0 /\ retained[c] = NoEdit => c \in dropped \/ \E a \in committed : a.op[1] = c
    /\ wire[c] \in Answer /\ wire[c].saved => \E a \in committed : a.op[1] = c
    /\ step[c] = "sent" /\ c \notin stale => away = FALSE
    /\ step[c] = "waiting" => away = FALSE /\ executing[c] = retained[c]

(***************************************************************************)
(* While the page and the library on show stay: the requests of an edit    *)
(* follow one another, and those before the newest can commit no more.     *)
(***************************************************************************)
Dead(a) ==
    \/ a.basis = 0
    \/ \E f \in Field : revision[f] > (IF a.reviewed[f] # 0 THEN a.reviewed[f] ELSE a.basis)

Requests(c) == {a \in late \union committed \union {wire[c]} : a \in Attempt /\ a.op[1] = c}
Lapsed(a) == Dead(a) /\ a \notin committed

\* p is the newest request of edit c
Newest(c, p) ==
    /\ p.op <= sends[c]
    /\ \A a \in Requests(c) :
        /\ a.op[2] <= p.op
        /\ a.op[2] = p.op => a = AttemptOf(c, p)
        /\ a.op[2] < p.op => Lapsed(a)
    /\ p.recovery # 0 => p.basis = 0

InTurn(c) ==
    /\ \A a \in Requests(c) : a.op[2] < sends[c]
    /\ \A a, b \in Requests(c) :
        /\ a.op = b.op => a = b
        /\ a.op[2] < b.op[2] => Lapsed(a)
    /\ \A p \in {retained[c], executing[c]} : p # NoEdit => Newest(c, p)
    /\ executing[c] # NoEdit /\ retained[c] # NoEdit => AttemptOf(c, executing[c]) = AttemptOf(c, retained[c])
    /\ retained[c] # NoEdit /\ retained[c].conflict # <<>> =>
        step[c] = "sent" \/ retained[c].op = sends[c] \/ Lapsed(AttemptOf(c, retained[c]))
    /\ wire[c] \in Attempt => wire[c] = AttemptOf(c, executing[c])
    /\ wire[c] \in Answer =>
        /\ wire[c].conflict # <<>> => Lapsed(AttemptOf(c, executing[c]))
        /\ wire[c].recovery # 0 => executing[c].basis = 0

EditInv(c) == ShownOf(c) /\ Unrequested(c) /\ Accounted(c) /\ (leaves = 0 => InTurn(c))

EditsInv ==
    /\ EditsForms
    /\ \A a \in committed : a.basis # 0
    /\ leaves = 0 => away = FALSE /\ stale = {}
    /\ \A c \in EditId : EditInv(c)

LEMMA EditFacts ==
    /\ MaxRevision \in Nat \ {0} /\ MaxSends \in Nat /\ Field # {} /\ NoDialog \notin EditId
    /\ NoWire \notin Attempt /\ NoWire \notin Answer
    /\ Revision \subseteq Nat /\ 0 \notin Revision /\ 1 \in Revision
BY EditsAssumption DEF Revision

LEMMA EditIsNoEdit == NoEdit \notin Pending
<1>1. \A p \in Pending : DOMAIN p # {}
    BY DEF Pending
<1>2. DOMAIN NoEdit = {}
    BY DEF NoEdit
<1> QED
    BY <1>1, <1>2

LEMMA AskIsNoAnswer == \A a \in Attempt : a \notin Answer
<1>1. \A a \in Attempt : "saved" \notin DOMAIN a
    BY DEF Attempt
<1>2. \A a \in Answer : "saved" \in DOMAIN a
    BY DEF Answer
<1> QED
    BY <1>1, <1>2

LEMMA ConflictIsPair == \A f, r : <<f, r>> # <<>>
OBVIOUS

LEMMA ClockIsLast ==
    ASSUME revision \in [Field -> Revision]
    PROVE  Clock \in Revision /\ \A f \in Field : revision[f] <= Clock
<1> DEFINE T == {MaxRevision - revision[f] : f \in Field}
           Last(n) == (\E f \in Field : revision[f] = n) /\ \A f \in Field : revision[f] <= n
<1>1. \A f \in Field : revision[f] \in Nat /\ revision[f] <= MaxRevision
    BY EditFacts DEF Revision
<1>2. T \subseteq Nat /\ T # {}
    BY <1>1, EditFacts
<1>3. PICK f \in Field : \A g \in Field : MaxRevision - revision[f] <= MaxRevision - revision[g]
  <2>1. PICK n \in T : \A k \in T : n <= k
      BY <1>2, SomeLeast
  <2> QED
      BY <2>1
<1>4. Last(revision[f])
    BY <1>1, <1>3, EditFacts
<1>5. revision[f] \in Revision
    OBVIOUS
<1>6. Clock = CHOOSE n \in Revision : Last(n)
    BY DEF Clock
<1>7. Last(Clock) /\ Clock \in Revision
    BY <1>4, <1>5, <1>6
<1> QED
    BY <1>7

(***************************************************************************)
(* A step of the page on edit c, and what it leaves alone of the others.   *)
(***************************************************************************)
OthersStay(c) ==
    /\ UNCHANGED <<revision, committed, away, leaves>>
    /\ failures' = 0 => failures = 0
    /\ late \subseteq late' /\ \A a \in late' \ late : a.op[1] = c
    /\ \A e \in EditId \ {c} :
        /\ retained'[e] = retained[e] /\ onDisk'[e] \in {onDisk[e], retained[e]}
        /\ executing'[e] = executing[e] /\ step'[e] = step[e] /\ wire'[e] = wire[e]
        /\ sends'[e] = sends[e] /\ seen'[e] = seen[e]
        /\ e \in stale' <=> e \in stale
        /\ e \in dropped' <=> e \in dropped

LEMMA OthersKeep ==
    ASSUME EditsInv, NEW c \in EditId, OthersStay(c), NEW e \in EditId, e # c
    PROVE  EditInv(e)'
<1>1. /\ UNCHANGED <<revision, committed, away, leaves>>
      /\ retained'[e] = retained[e] /\ onDisk'[e] \in {onDisk[e], retained[e]}
      /\ executing'[e] = executing[e] /\ step'[e] = step[e] /\ wire'[e] = wire[e]
      /\ sends'[e] = sends[e] /\ seen'[e] = seen[e]
      /\ (e \in stale' <=> e \in stale) /\ (e \in dropped' <=> e \in dropped)
      /\ late \subseteq late' /\ \A a \in late' : a.op[1] = e => a \in late
      /\ failures' = 0 => failures = 0
    BY DEF OthersStay
<1>2. EditInv(e)
    BY DEF EditsInv
<1>3. ShownOf(e)'
  <2>1. \A b, v : Informed(e, b, v)' <=> Informed(e, b, v)
      BY <1>1 DEF Informed
  <2>2. \A p : Told(e, p)' <=> Told(e, p)
      BY <1>1, <2>1 DEF Told
  <2> QED
      BY <1>1, <1>2, <2>1, <2>2 DEF EditInv, ShownOf
<1>4. Unrequested(e)'
    BY <1>1, <1>2 DEF EditInv, Unrequested
<1>5. Accounted(e)'
    BY <1>1, <1>2 DEF EditInv, Accounted
<1>6. (leaves = 0 => InTurn(e))'
  <2> SUFFICES ASSUME leaves = 0
               PROVE  InTurn(e)'
      BY <1>1
  <2>1. Requests(e)' = Requests(e)
      BY <1>1 DEF Requests
  <2>2. \A a : Lapsed(a)' <=> Lapsed(a)
      BY <1>1 DEF Lapsed, Dead
  <2>3. \A p : Newest(e, p)' <=> Newest(e, p)
      BY <1>1, <2>1, <2>2 DEF Newest, AttemptOf
  <2> QED
      BY <1>1, <1>2, <2>1, <2>2, <2>3 DEF EditInv, InTurn, AttemptOf
<1> QED
    BY <1>3, <1>4, <1>5, <1>6 DEF EditInv

LEMMA PageStepOn ==
    ASSUME EditsInv, NEW c \in EditId, OthersStay(c), EditsForms', EditInv(c)',
           leaves = 0 => stale' = {}
    PROVE  EditsInv'
<1>1. \A e \in EditId : EditInv(e)'
    BY OthersKeep
<1> QED
    BY <1>1 DEF EditsInv, OthersStay

\* publish: memory, and storage unless it refuses
LEMMA PublishFacts ==
    ASSUME EditsForms, NEW c \in EditId, NEW p \in Pending \union {NoEdit},
           Publish([retained EXCEPT ![c] = p])
    PROVE  /\ retained' \in [EditId -> Pending \union {NoEdit}] /\ retained'[c] = p
           /\ onDisk' \in [EditId -> Pending \union {NoEdit}] /\ onDisk'[c] \in {onDisk[c], p}
           /\ \A e \in EditId \ {c} : retained'[e] = retained[e] /\ onDisk'[e] \in {onDisk[e], retained[e]}
           /\ failures' \in Nat /\ (failures' = 0 => failures = 0 /\ onDisk' = retained')
<1>1. /\ retained \in [EditId -> Pending \union {NoEdit}] /\ onDisk \in [EditId -> Pending \union {NoEdit}]
      /\ failures \in Nat
    BY DEF EditsForms, EditsTypeOK
<1>2. retained' = [retained EXCEPT ![c] = p]
    BY DEF Publish
<1>3. CASE onDisk' = retained' /\ UNCHANGED failures
    BY <1>1, <1>2, <1>3
<1>4. CASE failures' = failures + 1 /\ UNCHANGED onDisk
    BY <1>1, <1>2, <1>4
<1> QED
    BY <1>3, <1>4 DEF Publish

(***************************************************************************)
(* One turn of runEdit: the request p is the newest of edit c, and its     *)
(* owner was shown what it is based on.                                    *)
(***************************************************************************)
LEMMA AttemptForm ==
    ASSUME NEW c \in EditId, NEW p \in Pending
    PROVE  /\ AttemptOf(c, p) \in Attempt /\ AttemptOf(c, p).op = <<c, p.op>>
           /\ AttemptOf(c, p).op[1] = c /\ AttemptOf(c, p).op[2] = p.op
           /\ AttemptOf(c, p).basis = p.basis /\ AttemptOf(c, p).reviewed = p.reviewed
BY DEF AttemptOf, Attempt, Pending, Operation

LEMMA RequestsAreAttempts ==
    ASSUME NEW c \in EditId, NEW a \in Requests(c)
    PROVE  /\ a \in Attempt /\ a.op[1] = c /\ a.op[2] \in Nat /\ a.op = <<c, a.op[2]>>
           /\ a.basis \in Nat /\ a.reviewed \in [Field -> Nat]
<1>1. a \in Attempt /\ a.op[1] = c
    BY DEF Requests
<1>2. a.op \in Operation /\ a.basis \in {0} \union Revision /\ a.reviewed \in [Field -> {0} \union Revision]
    BY <1>1 DEF Attempt
<1>3. 0..MaxSends \subseteq Nat
    BY EditFacts
<1>4. PICK n \in 0..MaxSends : a.op = <<c, n>>
    BY <1>1, <1>2 DEF Operation
<1>5. a.op[2] = n
    BY <1>4
<1>6. {0} \union Revision \subseteq Nat
    BY EditFacts
<1>7. a.reviewed \in [Field -> Nat]
    BY <1>2, <1>6
<1> QED
    BY <1>1, <1>2, <1>3, <1>4, <1>5, <1>6, <1>7

ExecuteHyps(c, p) ==
    /\ UNCHANGED <<revision, committed, review>>
    /\ seen' \in [EditId -> [Field -> SUBSET Revision]]
    /\ \A e \in EditId \ {c} : seen'[e] = seen[e]
    /\ seen' = seen \/ (sends[c] = 0 /\ retained[c] = NoEdit /\ c \notin dropped)
    /\ Told(c, p)'
    /\ leaves = 0 =>
        /\ Newest(c, p)
        /\ p.conflict # <<>> => p.op = sends[c] \/ Lapsed(AttemptOf(c, p))

LEMMA ExecuteKeeps ==
    ASSUME EditsInv, NEW c \in EditId, NEW p \in Pending, Execute(c, p), ExecuteHyps(c, p)
    PROVE  EditsInv'
<1>1. EditsForms /\ EditInv(c)
    BY DEF EditsInv
<1>2. /\ step \in [EditId -> {"none", "sent", "waiting"}] /\ wire \in [EditId -> Attempt \union Answer \union {NoWire}]
      /\ executing \in [EditId -> Pending \union {NoEdit}] /\ sends \in [EditId -> 0..MaxSends]
      /\ step[c] # "sent" /\ wire[c] = NoWire /\ away = FALSE /\ c \notin stale /\ sends[c] \in Nat
      /\ UNCHANGED <<stale, away, late, dropped, leaves, revision, committed, review>>
  <2>1. /\ step \in [EditId -> {"none", "sent", "waiting"}] /\ wire \in [EditId -> Attempt \union Answer \union {NoWire}]
        /\ executing \in [EditId -> Pending \union {NoEdit}] /\ sends \in [EditId -> 0..MaxSends]
        /\ (step[c] = "sent" <=> wire[c] # NoWire) /\ (c \in stale => step[c] = "sent") /\ away \in BOOLEAN
      BY <1>1 DEF EditsForms, EditsTypeOK
  <2>2. sends[c] \in Nat
      BY <2>1, EditFacts
  <2> QED
      BY <2>1, <2>2 DEF Execute, ExecuteHyps
<1>3. /\ retained' \in [EditId -> Pending \union {NoEdit}] /\ retained'[c] = p
      /\ onDisk' \in [EditId -> Pending \union {NoEdit}] /\ onDisk'[c] \in {onDisk[c], p}
      /\ \A e \in EditId \ {c} : retained'[e] = retained[e] /\ onDisk'[e] \in {onDisk[e], retained[e]}
      /\ failures' \in Nat /\ (failures' = 0 => failures = 0 /\ onDisk' = retained')
    BY <1>1, PublishFacts DEF Execute
<1>4. p # NoEdit /\ Told(c, p)'
    BY EditIsNoEdit DEF ExecuteHyps
<1>5. /\ (onDisk[c] # NoEdit => Told(c, onDisk[c]))'
      /\ \A a \in late : a.op[1] = c => a.basis # 0 /\ Informed(c, a.basis, a.reviewed)'
  <2>1. CASE seen' = seen
    <3>1. \A b, v : Informed(c, b, v)' <=> Informed(c, b, v)
        BY <1>2, <2>1 DEF Informed
    <3>2. (onDisk[c] # NoEdit => Told(c, onDisk[c]))'
      <4>1. CASE onDisk'[c] = p
          BY <1>4, <4>1 DEF Told, Informed
      <4>2. CASE onDisk'[c] = onDisk[c]
          BY <1>1, <1>2, <2>1, <3>1, <4>2 DEF EditInv, ShownOf, Told
      <4> QED
          BY <1>3, <4>1, <4>2
    <3> QED
        BY <1>1, <3>1, <3>2 DEF EditInv, ShownOf
  <2>2. CASE sends[c] = 0 /\ retained[c] = NoEdit /\ c \notin dropped
    <3>1. onDisk[c] = NoEdit /\ \A a \in late : a.op[1] # c
        BY <1>1, <2>2 DEF EditInv, Unrequested
    <3>2. onDisk'[c] \in {NoEdit, p}
        BY <1>3, <3>1
    <3> QED
        BY <1>4, <3>1, <3>2 DEF Told, Informed
  <2> QED
      BY <2>1, <2>2 DEF ExecuteHyps
<1>6. leaves = 0 => InTurn(c) /\ Newest(c, p) /\ (p.conflict # <<>> => p.op = sends[c] \/ Lapsed(AttemptOf(c, p)))
    BY <1>1 DEF EditInv, ExecuteHyps
<1>7. \A a : Lapsed(a)' <=> Lapsed(a)
    BY <1>2 DEF Lapsed, Dead
<1>8. CASE /\ sends[c] < MaxSends /\ sends' = [sends EXCEPT ![c] = @ + 1]
           /\ step' = [step EXCEPT ![c] = "sent"] /\ executing' = [executing EXCEPT ![c] = p]
           /\ wire' = [wire EXCEPT ![c] = AttemptOf(c, p)]
  <2> DEFINE A == AttemptOf(c, p)
  <2>1. /\ A \in Attempt /\ A.op = <<c, p.op>> /\ A.op[1] = c /\ A.op[2] = p.op
        /\ A.basis = p.basis /\ A.reviewed = p.reviewed /\ A # NoWire /\ A \notin Answer
      BY AttemptForm, AskIsNoAnswer, EditFacts
  <2> HIDE DEF A
  <2>2. /\ sends'[c] = sends[c] + 1 /\ sends' \in [EditId -> 0..MaxSends]
        /\ step'[c] = "sent" /\ executing'[c] = p /\ wire'[c] = A
        /\ step' \in [EditId -> {"none", "sent", "waiting"}] /\ executing' \in [EditId -> Pending \union {NoEdit}]
        /\ wire' \in [EditId -> Attempt \union Answer \union {NoWire}]
        /\ \A e \in EditId \ {c} : /\ sends'[e] = sends[e] /\ step'[e] = step[e]
                                   /\ executing'[e] = executing[e] /\ wire'[e] = wire[e]
    <3>1. sends[c] + 1 \in 0..MaxSends
        BY <1>2, <1>8, EditFacts
    <3> QED
        BY <1>2, <1>8, <2>1, <3>1 DEF A
  <2>3. OthersStay(c)
      BY <1>2, <1>3, <2>2 DEF OthersStay, ExecuteHyps
  <2>4. EditsForms'
    <3>1. \A e \in EditId :
            /\ step'[e] = "sent" <=> wire'[e] # NoWire
            /\ e \in stale' => step'[e] = "sent"
            /\ step'[e] = "none" <=> executing'[e] = NoEdit
        BY <1>1, <1>2, <1>4, <2>1, <2>2 DEF EditsForms, EditsTypeOK
    <3> QED
        BY <1>1, <1>2, <1>3, <2>2, <3>1 DEF EditsForms, EditsTypeOK, ExecuteHyps
  <2>5. ShownOf(c)'
    <3>1. (wire[c] \in Attempt => wire[c].op[1] = c /\ Informed(c, wire[c].basis, wire[c].reviewed))'
        BY <1>4, <2>1, <2>2 DEF Told, Informed
    <3>2. (\A q \in {retained[c], onDisk[c], executing[c]} : q # NoEdit => Told(c, q))'
        BY <1>3, <1>4, <1>5, <2>2 DEF Told, Informed
    <3> QED
        BY <1>2, <1>5, <2>1, <2>2, <3>1, <3>2 DEF ShownOf
  <2>6. Unrequested(c)'
      BY <1>2, <2>2 DEF Unrequested
  <2>7. Accounted(c)'
      BY <1>2, <1>3, <1>4, <2>1, <2>2 DEF Accounted
  <2>8. ASSUME leaves = 0
        PROVE  InTurn(c)'
    <3>1. Requests(c)' = Requests(c) \union {A}
        BY <1>2, <2>1, <2>2, EditFacts DEF Requests
    <3>2. /\ p.op <= sends[c] /\ (p.recovery # 0 => p.basis = 0)
          /\ \A a \in Requests(c) :
                /\ a.op[2] <= p.op
                /\ a.op[2] = p.op => a = A
                /\ a.op[2] < p.op => Lapsed(a)
        BY <1>6, <2>8 DEF Newest, A
    <3>3. p.op \in Nat
        BY EditFacts DEF Pending
    <3>4. \A a \in Requests(c) : a.op[2] \in Nat /\ a.op = <<c, a.op[2]>>
        BY RequestsAreAttempts
    <3>5. \A a \in Requests(c)' : a.op[2] \in Nat /\ a.op[2] <= p.op /\ a.op[2] < sends'[c]
        BY <1>2, <2>1, <2>2, <3>1, <3>2, <3>3, <3>4
    <3>6. Newest(c, p)'
      <4>1. p.op <= sends'[c]
          BY <1>2, <2>2, <3>2, <3>3
      <4>2. \A a \in Requests(c)' : /\ a.op[2] = p.op => a = A
                                    /\ a.op[2] < p.op => Lapsed(a)
          BY <2>1, <3>1, <3>2, <3>3
      <4> QED
          BY <1>7, <3>2, <3>5, <4>1, <4>2 DEF Newest, A, AttemptOf
    <3>7. ASSUME NEW a \in Requests(c)', NEW b \in Requests(c)'
          PROVE  (a.op = b.op => a = b) /\ (a.op[2] < b.op[2] => Lapsed(a))
      <4>1. CASE a \in Requests(c) /\ b \in Requests(c)
          BY <1>6, <2>8, <4>1 DEF InTurn
      <4>2. CASE a \in Requests(c) /\ b = A
          BY <2>1, <3>2, <4>2
      <4>3. CASE a = A /\ b \in Requests(c)
        <5>1. b.op[2] \in Nat /\ b.op[2] <= p.op /\ (b.op[2] = p.op => b = A)
            BY <3>2, <3>4, <4>3
        <5> QED
            BY <2>1, <3>3, <4>3, <5>1
      <4>4. CASE a = A /\ b = A
          BY <2>1, <3>3, <4>4
      <4> QED
          BY <3>1, <3>7, <4>1, <4>2, <4>3, <4>4
    <3> QED
        BY <1>3, <1>4, <1>7, <2>1, <2>2, <3>5, <3>6, <3>7 DEF InTurn, A, AttemptOf
  <2>9. EditInv(c)'
      BY <1>2, <2>5, <2>6, <2>7, <2>8 DEF EditInv
  <2> QED
      BY <1>2, <2>3, <2>4, <2>9, PageStepOn DEF EditsInv
<1>9. CASE EndedRun(c) /\ UNCHANGED <<sends, wire>>
  <2>1. /\ step'[c] = "none" /\ executing'[c] = NoEdit
        /\ step' \in [EditId -> {"none", "sent", "waiting"}] /\ executing' \in [EditId -> Pending \union {NoEdit}]
        /\ \A e \in EditId \ {c} : step'[e] = step[e] /\ executing'[e] = executing[e]
        /\ UNCHANGED <<sends, wire>>
      BY <1>2, <1>9 DEF EndedRun
  <2>2. OthersStay(c)
      BY <1>2, <1>3, <2>1 DEF OthersStay, ExecuteHyps
  <2>3. EditsForms'
    <3>1. \A e \in EditId :
            /\ step'[e] = "sent" <=> wire'[e] # NoWire
            /\ e \in stale' => step'[e] = "sent"
            /\ step'[e] = "none" <=> executing'[e] = NoEdit
        BY <1>1, <1>2, <2>1 DEF EditsForms, EditsTypeOK
    <3> QED
        BY <1>1, <1>2, <1>3, <2>1, <3>1 DEF EditsForms, EditsTypeOK, ExecuteHyps
  <2>4. ShownOf(c)'
    <3>1. (\A q \in {retained[c], onDisk[c], executing[c]} : q # NoEdit => Told(c, q))'
        BY <1>3, <1>4, <1>5, <2>1 DEF Told, Informed
    <3> QED
        BY <1>2, <1>5, <2>1, <3>1, EditFacts DEF ShownOf
  <2>5. Unrequested(c)'
      BY <1>1, <1>2, <1>3, <1>4, <2>1 DEF EditInv, Unrequested
  <2>6. Accounted(c)'
      BY <1>2, <1>3, <1>4, <2>1, EditFacts DEF Accounted
  <2>7. ASSUME leaves = 0
        PROVE  InTurn(c)'
    <3>1. Requests(c)' = Requests(c)
        BY <1>2, <2>1 DEF Requests
    <3>2. Newest(c, p)'
        BY <1>6, <1>7, <2>1, <2>7, <3>1 DEF Newest, AttemptOf
    <3> QED
        BY <1>2, <1>3, <1>4, <1>6, <1>7, <2>1, <2>7, <3>1, <3>2, EditFacts DEF InTurn, AttemptOf
  <2>8. EditInv(c)'
      BY <1>2, <2>4, <2>5, <2>6, <2>7 DEF EditInv
  <2> QED
      BY <1>2, <2>2, <2>3, <2>8, PageStepOn DEF EditsInv
<1> QED
    BY <1>8, <1>9 DEF Execute

LEMMA MakeKeeps ==
    ASSUME EditsInv, NEW c \in EditId, Make(c), UNCHANGED <<revision, committed>>
    PROVE  EditsInv'
<1>1. PICK b \in {0} \union Revision :
        /\ Execute(c, [op |-> 0, basis |-> b, reviewed |-> NoReview, conflict |-> <<>>, recovery |-> 0])
        /\ seen' = [seen EXCEPT ![c] = [f \in Field |-> 1..b]]
    BY DEF Make
<1> DEFINE p == [op |-> 0, basis |-> b, reviewed |-> NoReview, conflict |-> <<>>, recovery |-> 0]
<1>2. /\ sends[c] = 0 /\ retained[c] = NoEdit /\ c \notin dropped /\ UNCHANGED review
      /\ EditsForms /\ EditInv(c)
    BY DEF Make, EditsInv
<1>3. /\ seen \in [EditId -> [Field -> SUBSET Revision]] /\ revision \in [Field -> Revision]
    BY <1>2 DEF EditsForms, EditsTypeOK
<1>4. 1..b \subseteq Revision
    BY EditFacts DEF Revision
<1>5. [f \in Field |-> 1..b] \in [Field -> SUBSET Revision]
    BY <1>4
<1>6. p \in Pending
    BY EditFacts DEF Pending, NoReview
<1>7. /\ seen' \in [EditId -> [Field -> SUBSET Revision]] /\ \A e \in EditId \ {c} : seen'[e] = seen[e]
      /\ \A f \in Field : seen'[c][f] = 1..b
    BY <1>1, <1>3, <1>5
<1>8. Told(c, p)'
  <2>1. \A f \in Field : NoReview[f] = 0 /\ revision'[f] \in Nat
      BY <1>3, EditFacts DEF NoReview
  <2>2. Informed(c, b, NoReview)'
      BY <1>7, <2>1 DEF Informed
  <2>3. \A f, r : <<>> # <<f, r>>
      BY ConflictIsPair
  <2>4. 1..0 = {}
      OBVIOUS
  <2> QED
      BY <2>2, <2>3, <2>4 DEF Told
<1>9. Requests(c) = {}
    BY <1>2, EditFacts DEF EditInv, Unrequested, Requests
<1>10. Newest(c, p)
    BY <1>2, <1>9 DEF Newest
<1>11. Execute(c, p)
    BY <1>1
<1>12. p.conflict = <<>>
    OBVIOUS
<1> HIDE DEF p
<1>13. ExecuteHyps(c, p)
    BY <1>2, <1>7, <1>8, <1>10, <1>12 DEF ExecuteHyps
<1> QED
    BY <1>6, <1>11, <1>13, ExecuteKeeps

LEMMA RequestAgainKeeps ==
    ASSUME EditsInv, NEW c \in EditId, RequestAgain(c), UNCHANGED <<revision, committed>>
    PROVE  EditsInv'
<1>0. PICK p : p = retained[c]
    OBVIOUS
<1>1. /\ p # NoEdit /\ Execute(c, p) /\ UNCHANGED <<seen, review>> /\ step[c] # "sent"
      /\ EditsForms /\ EditInv(c)
    BY <1>0 DEF RequestAgain, Execute, EditsInv
<1>2. p \in Pending /\ seen \in [EditId -> [Field -> SUBSET Revision]]
    BY <1>0, <1>1 DEF EditsForms, EditsTypeOK
<1>3. Told(c, p)'
  <2>1. Told(c, p)
      BY <1>0, <1>1 DEF EditInv, ShownOf
  <2> QED
      BY <1>1, <2>1 DEF Told, Informed
<1>4. leaves = 0 => /\ Newest(c, p)
                    /\ p.conflict # <<>> => p.op = sends[c] \/ Lapsed(AttemptOf(c, p))
    BY <1>0, <1>1 DEF EditInv, InTurn
<1> QED
    BY <1>1, <1>2, <1>3, <1>4, ExecuteKeeps DEF ExecuteHyps

LEMMA UseMineKeeps ==
    ASSUME EditsInv, NEW c \in EditId, UseMine(c), UNCHANGED <<revision, committed>>
    PROVE  EditsInv'
<1>0. PICK p, n, q : p = retained[c] /\ n = sends[c] /\ q = Acknowledged(p, n)
    OBVIOUS
<1>1. /\ p # NoEdit /\ Execute(c, q) /\ UNCHANGED <<seen, review>> /\ step[c] # "sent"
      /\ p.conflict # <<>> \/ p.recovery # 0
      /\ EditsForms /\ EditInv(c)
    BY <1>0 DEF UseMine, Execute, EditsInv
<1>2. /\ p \in Pending /\ n \in 0..MaxSends /\ seen \in [EditId -> [Field -> SUBSET Revision]]
      /\ Told(c, p)
    BY <1>0, <1>1 DEF EditsForms, EditsTypeOK, EditInv, ShownOf
<1>3. /\ p.basis \in {0} \union Revision /\ p.recovery \in {0} \union Revision
      /\ p.reviewed \in [Field -> {0} \union Revision] /\ p.op \in 0..MaxSends
      /\ p.conflict \in Field \X Revision \union {<<>>}
    BY <1>2 DEF Pending
\* the basis and the reviews of the new request
<1>4. PICK b, v :
        /\ b = IF p.recovery # 0 THEN p.recovery ELSE p.basis
        /\ v = IF p.conflict = <<>> THEN p.reviewed
               ELSE [p.reviewed EXCEPT ![p.conflict[1]] = p.conflict[2]]
    OBVIOUS
<1>5. q = [op |-> n, basis |-> b, reviewed |-> v, conflict |-> p.conflict, recovery |-> 0]
  <2>1. CASE p.recovery # 0 /\ p.conflict = <<>>
      BY <1>0, <1>2, <1>4, <2>1 DEF Acknowledged, Pending
  <2>2. CASE p.recovery # 0 /\ p.conflict # <<>>
      BY <1>0, <1>2, <1>4, <2>2 DEF Acknowledged, Pending
  <2>3. CASE p.recovery = 0 /\ p.conflict # <<>>
      BY <1>0, <1>2, <1>4, <2>3 DEF Acknowledged, Pending
  <2> QED
      BY <1>1, <2>1, <2>2, <2>3
<1>6. b \in {0} \union Revision
    BY <1>3, <1>4
<1>7. /\ v \in [Field -> {0} \union Revision]
      /\ \A f \in Field : \/ v[f] = p.reviewed[f]
                          \/ \E r \in Revision : v[f] = r /\ p.conflict = <<f, r>>
  <2>1. CASE p.conflict = <<>>
      BY <1>3, <1>4, <2>1
  <2>2. CASE p.conflict # <<>>
    <3>1. PICK g \in Field, r \in Revision : p.conflict = <<g, r>>
        BY <1>3, <2>2
    <3>2. p.conflict[1] = g /\ p.conflict[2] = r
        BY <3>1
    <3>3. v = [p.reviewed EXCEPT ![g] = r]
        BY <1>4, <2>2, <3>2
    <3> QED
        BY <1>3, <3>1, <3>3
  <2> QED
      BY <2>1, <2>2
<1>8. q \in Pending
    BY <1>2, <1>3, <1>5, <1>6, <1>7, EditFacts DEF Pending
<1>9. Told(c, q)
  <2>1. Informed(c, b, v)
    <3> SUFFICES ASSUME NEW f \in Field
                 PROVE  /\ 1..b \subseteq seen[c][f]
                        /\ v[f] # 0 => v[f] \in seen[c][f]
                        /\ v[f] <= revision[f]
        BY DEF Informed
    <3>1. 1..b \subseteq seen[c][f]
        BY <1>2, <1>4 DEF Told, Informed
    <3>2. (v[f] # 0 => v[f] \in seen[c][f]) /\ v[f] <= revision[f]
        BY <1>2, <1>7 DEF Told, Informed
    <3> QED
        BY <3>1, <3>2
  <2>2. 1..0 = {}
      OBVIOUS
  <2>3. /\ q.basis = b /\ q.reviewed = v /\ q.conflict = p.conflict /\ q.recovery = 0
      BY <1>5
  <2> QED
      BY <1>2, <2>1, <2>2, <2>3 DEF Told
<1>10. Told(c, q)'
    BY <1>1, <1>9 DEF Told, Informed
<1>11. ASSUME leaves = 0
       PROVE  Newest(c, q) /\ q.op = sends[c]
  <2>1. InTurn(c) /\ Newest(c, p)
      BY <1>0, <1>1, <1>11 DEF EditInv, InTurn
  <2>2. q.op = n /\ q.recovery = 0
      BY <1>5
  <2>3. ASSUME NEW a \in Requests(c)
        PROVE  a.op[2] < n /\ Lapsed(a)
    <3>1. /\ a.op[2] < n /\ a.op[2] <= p.op /\ (a.op[2] = p.op => a = AttemptOf(c, p))
          /\ a.op[2] < p.op => Lapsed(a)
        BY <1>0, <2>1 DEF InTurn, Newest
    <3>2. a.op[2] \in Nat /\ p.op \in Nat /\ n \in Nat
        BY <1>2, <1>3, RequestsAreAttempts, EditFacts
    <3>3. CASE a.op[2] = p.op
      <4>1. a = AttemptOf(c, p) /\ p.op # n
          BY <3>1, <3>2, <3>3
      <4>2. CASE p.conflict # <<>>
          BY <1>0, <1>1, <2>1, <4>1, <4>2 DEF InTurn
      <4>3. CASE p.recovery # 0
        <5>1. p.basis = 0
            BY <2>1, <4>3 DEF Newest
        <5>2. a.basis = 0
            BY <1>2, <4>1, <5>1, AttemptForm
        <5>3. a \notin committed
            BY <5>2 DEF EditsInv
        <5>4. Dead(a)
            BY <5>2 DEF Dead
        <5> QED
            BY <3>1, <5>3, <5>4 DEF Lapsed
      <4> QED
          BY <1>1, <4>2, <4>3
    <3> QED
        BY <3>1, <3>2, <3>3
  <2>4. n \in Nat
      BY <1>2, EditFacts
  <2> QED
      BY <1>0, <2>2, <2>3, <2>4, RequestsAreAttempts DEF Newest
<1> QED
    BY <1>1, <1>2, <1>8, <1>10, <1>11, ExecuteKeeps DEF ExecuteHyps

(***************************************************************************)
(* The owner's choices in the dialog, and the answers.                     *)
(***************************************************************************)
LEMMA EditForms ==
    ASSUME EditsInv
    PROVE  /\ retained \in [EditId -> Pending \union {NoEdit}] /\ onDisk \in [EditId -> Pending \union {NoEdit}]
           /\ step \in [EditId -> {"none", "sent", "waiting"}] /\ executing \in [EditId -> Pending \union {NoEdit}]
           /\ wire \in [EditId -> Attempt \union Answer \union {NoWire}] /\ late \subseteq Attempt
           /\ sends \in [EditId -> 0..MaxSends] /\ seen \in [EditId -> [Field -> SUBSET Revision]]
           /\ revision \in [Field -> Revision] /\ committed \subseteq Attempt
           /\ review \in EditId \union {NoDialog} /\ stale \subseteq EditId /\ dropped \subseteq EditId
           /\ away \in BOOLEAN /\ leaves \in Nat /\ failures \in Nat
           /\ \A c \in EditId : /\ step[c] = "sent" <=> wire[c] # NoWire
                                /\ c \in stale => step[c] = "sent"
                                /\ step[c] = "none" <=> executing[c] = NoEdit
BY DEF EditsInv, EditsForms, EditsTypeOK

\* the run of c ends, or c stops being on the wire
LEMMA InformedStays ==
    ASSUME UNCHANGED <<seen, revision>>, NEW c
    PROVE  /\ \A b, v : Informed(c, b, v)' <=> Informed(c, b, v)
           /\ \A p : Told(c, p)' <=> Told(c, p)
<1>1. \A b, v : Informed(c, b, v)' <=> Informed(c, b, v)
    BY DEF Informed
<1> QED
    BY <1>1 DEF Told

LEMMA ChooseKeeps ==
    ASSUME EditsInv, NEW c \in EditId, NEW choice \in {"keep", "discard"}, Choose(c, choice),
           UNCHANGED <<revision, committed>>
    PROVE  EditsInv'
<1>0. PICK p : p = IF choice = "discard" THEN NoEdit ELSE retained[c]
    OBVIOUS
<1>1. /\ p \in Pending \union {NoEdit} /\ Publish([retained EXCEPT ![c] = p])
      /\ EditsForms /\ EditInv(c) /\ retained[c] # NoEdit
    BY <1>0, EditForms DEF Choose, EditsInv
<1>2. /\ retained' \in [EditId -> Pending \union {NoEdit}] /\ retained'[c] = p
      /\ onDisk' \in [EditId -> Pending \union {NoEdit}] /\ onDisk'[c] \in {onDisk[c], p}
      /\ \A e \in EditId \ {c} : retained'[e] = retained[e] /\ onDisk'[e] \in {onDisk[e], retained[e]}
      /\ failures' \in Nat /\ (failures' = 0 => failures = 0 /\ onDisk' = retained')
    BY <1>1, PublishFacts
<1>3. /\ UNCHANGED <<wire, stale, away, late, seen, sends, leaves, revision, committed>>
      /\ review' = NoDialog /\ dropped \subseteq dropped' /\ dropped' \subseteq EditId
      /\ \A e \in EditId \ {c} : e \in dropped' <=> e \in dropped
      /\ p = NoEdit => c \in dropped'
    BY <1>0, <1>1, EditForms DEF Choose
<1>4. /\ step' \in [EditId -> {"none", "sent", "waiting"}] /\ executing' \in [EditId -> Pending \union {NoEdit}]
      /\ \A e \in EditId \ {c} : step'[e] = step[e] /\ executing'[e] = executing[e]
      /\ \/ step[c] = "waiting" /\ step'[c] = "none" /\ executing'[c] = NoEdit
         \/ step[c] # "waiting" /\ step'[c] = step[c] /\ executing'[c] = executing[c]
    BY EditForms DEF Choose, EndedRun
<1>5. OthersStay(c)
    BY <1>2, <1>3, <1>4 DEF OthersStay
<1>6. EditsForms'
  <2>1. \A e \in EditId :
            /\ step'[e] = "sent" <=> wire'[e] # NoWire
            /\ e \in stale' => step'[e] = "sent"
            /\ step'[e] = "none" <=> executing'[e] = NoEdit
      BY <1>3, <1>4, EditForms
  <2> QED
      BY <1>2, <1>3, <1>4, <2>1, EditForms DEF EditsForms, EditsTypeOK
<1>7. ShownOf(c)'
  <2>1. (\A q \in {retained[c], onDisk[c], executing[c]} : q # NoEdit => Told(c, q))'
      BY <1>0, <1>1, <1>2, <1>3, <1>4, InformedStays DEF EditInv, ShownOf
  <2> QED
      BY <1>1, <1>3, <2>1, InformedStays DEF EditInv, ShownOf
<1>8. Unrequested(c)'
    BY <1>0, <1>1, <1>2, <1>3 DEF EditInv, Unrequested
<1>9. Accounted(c)'
    BY <1>1, <1>2, <1>3, <1>4 DEF EditInv, Accounted
<1>10. ASSUME leaves = 0
       PROVE  InTurn(c)'
  <2>1. InTurn(c) /\ Requests(c)' = Requests(c)
      BY <1>1, <1>3, <1>10 DEF EditInv, Requests
  <2>2. \A a : Lapsed(a)' <=> Lapsed(a)
      BY <1>3 DEF Lapsed, Dead
  <2>3. \A q : Newest(c, q)' <=> Newest(c, q)
      BY <1>3, <2>1, <2>2 DEF Newest, AttemptOf
  <2>4. wire[c] \in Attempt \union Answer => executing'[c] = executing[c] /\ step'[c] = "sent"
      BY <1>4, EditForms, EditFacts
  <2>5. (retained[c] # NoEdit /\ retained[c].conflict # <<>> =>
            step[c] = "sent" \/ retained[c].op = sends[c] \/ Lapsed(AttemptOf(c, retained[c])))'
    <3> SUFFICES ASSUME p # NoEdit, p.conflict # <<>>
                 PROVE  step'[c] = "sent" \/ p.op = sends[c] \/ Lapsed(AttemptOf(c, p))'
        BY <1>2, <1>3 DEF AttemptOf
    <3>1. p = retained[c]
        BY <1>0
    <3>2. step[c] = "sent" \/ p.op = sends[c] \/ Lapsed(AttemptOf(c, p))
        BY <2>1, <3>1 DEF InTurn
    <3> QED
        BY <1>4, <2>2, <3>2 DEF AttemptOf
  <2>6. (\A q \in {retained[c], executing[c]} : q # NoEdit => Newest(c, q))'
      BY <1>0, <1>2, <1>4, <2>1, <2>3 DEF InTurn
  <2>7. (executing[c] # NoEdit /\ retained[c] # NoEdit => AttemptOf(c, executing[c]) = AttemptOf(c, retained[c]))'
      BY <1>0, <1>2, <1>4, <2>1 DEF InTurn, AttemptOf
  <2>8. (wire[c] \in Attempt => wire[c] = AttemptOf(c, executing[c]))'
      BY <1>3, <2>1, <2>4 DEF InTurn, AttemptOf
  <2>9. (wire[c] \in Answer =>
            /\ wire[c].conflict # <<>> => Lapsed(AttemptOf(c, executing[c]))
            /\ wire[c].recovery # 0 => executing[c].basis = 0)'
      BY <1>3, <2>1, <2>2, <2>4 DEF InTurn, AttemptOf
  <2> QED
      BY <1>3, <2>1, <2>2, <2>5, <2>6, <2>7, <2>8, <2>9 DEF InTurn
<1>11. EditInv(c)'
    BY <1>3, <1>7, <1>8, <1>9, <1>10 DEF EditInv
<1> QED
    BY <1>3, <1>5, <1>6, <1>11, PageStepOn DEF EditsInv

LEMMA AbandonKeeps ==
    ASSUME EditsInv, NEW c \in EditId, Abandon(c), UNCHANGED <<revision, committed>>
    PROVE  EditsInv'
<1>1. /\ EditInv(c) /\ c \in stale
      /\ UNCHANGED <<retained, onDisk, review, away, seen, dropped, sends, leaves, failures, revision, committed>>
      /\ stale' = stale \ {c} /\ late \subseteq late'
      /\ \A a \in late' \ late : a = wire[c] /\ a \in Attempt /\ a.basis # 0
    BY DEF Abandon, EditsInv, Unheard
<1>2. /\ step' \in [EditId -> {"none", "sent", "waiting"}] /\ step'[c] = "none"
      /\ executing' \in [EditId -> Pending \union {NoEdit}] /\ executing'[c] = NoEdit
      /\ wire' \in [EditId -> Attempt \union Answer \union {NoWire}] /\ wire'[c] = NoWire
      /\ \A e \in EditId \ {c} : step'[e] = step[e] /\ executing'[e] = executing[e] /\ wire'[e] = wire[e]
    BY EditForms DEF Abandon, EndedRun
<1>3. OthersStay(c)
    BY <1>1, <1>2 DEF OthersStay, EditInv, ShownOf
<1>4. EditsForms'
  <2>1. \A e \in EditId :
            /\ step'[e] = "sent" <=> wire'[e] # NoWire
            /\ e \in stale' => step'[e] = "sent"
            /\ step'[e] = "none" <=> executing'[e] = NoEdit
      BY <1>1, <1>2, EditForms
  <2>2. late' \subseteq Attempt /\ stale' \subseteq EditId
      BY <1>1, EditForms
  <2> QED
      BY <1>1, <1>2, <2>1, <2>2, EditForms DEF EditsForms, EditsTypeOK
<1>5. ShownOf(c)'
  <2>1. (\A q \in {retained[c], onDisk[c], executing[c]} : q # NoEdit => Told(c, q))'
      BY <1>1, <1>2, InformedStays DEF EditInv, ShownOf
  <2> QED
      BY <1>1, <1>2, <2>1, InformedStays, EditFacts DEF EditInv, ShownOf
<1>6. Unrequested(c)'
    BY <1>1, <1>2, EditFacts DEF EditInv, Unrequested
<1>7. Accounted(c)'
    BY <1>1, <1>2, EditFacts DEF EditInv, Accounted
<1>8. leaves' # 0
    BY <1>1 DEF EditsInv
<1> QED
    BY <1>1, <1>3, <1>4, <1>5, <1>6, <1>7, <1>8, PageStepOn DEF EditInv

LEMMA SavedKeeps ==
    ASSUME EditsInv, NEW c \in EditId, Saved(c), UNCHANGED <<revision, committed>>
    PROVE  EditsInv'
<1>1. /\ EditsForms /\ EditInv(c) /\ wire[c] \in Answer /\ wire[c].saved
      /\ UNCHANGED <<stale, away, late, seen, dropped, sends, leaves, revision, committed>>
      /\ c \notin stale /\ review' \in {review, NoDialog}
    BY DEF Saved, EditsInv
<1>2. /\ retained' \in [EditId -> Pending \union {NoEdit}] /\ retained'[c] = NoEdit
      /\ onDisk' \in [EditId -> Pending \union {NoEdit}] /\ onDisk'[c] \in {onDisk[c], NoEdit}
      /\ \A e \in EditId \ {c} : retained'[e] = retained[e] /\ onDisk'[e] \in {onDisk[e], retained[e]}
      /\ failures' \in Nat /\ (failures' = 0 => failures = 0 /\ onDisk' = retained')
    BY <1>1, PublishFacts DEF Saved
<1>3. /\ step' \in [EditId -> {"none", "sent", "waiting"}] /\ step'[c] = "none"
      /\ executing' \in [EditId -> Pending \union {NoEdit}] /\ executing'[c] = NoEdit
      /\ wire' \in [EditId -> Attempt \union Answer \union {NoWire}] /\ wire'[c] = NoWire
      /\ \A e \in EditId \ {c} : step'[e] = step[e] /\ executing'[e] = executing[e] /\ wire'[e] = wire[e]
    BY EditForms DEF Saved, EndedRun
<1>4. OthersStay(c)
    BY <1>1, <1>2, <1>3 DEF OthersStay
<1>5. EditsForms'
  <2>1. \A e \in EditId :
            /\ step'[e] = "sent" <=> wire'[e] # NoWire
            /\ e \in stale' => step'[e] = "sent"
            /\ step'[e] = "none" <=> executing'[e] = NoEdit
      BY <1>1, <1>3, EditForms
  <2> QED
      BY <1>1, <1>2, <1>3, <2>1, EditForms DEF EditsForms, EditsTypeOK
<1>6. ShownOf(c)'
  <2>1. (\A q \in {retained[c], onDisk[c], executing[c]} : q # NoEdit => Told(c, q))'
      BY <1>1, <1>2, <1>3, InformedStays DEF EditInv, ShownOf
  <2> QED
      BY <1>1, <1>3, <2>1, InformedStays, EditFacts DEF EditInv, ShownOf
<1>7. sends[c] # 0 /\ \E a \in committed : a.op[1] = c
    BY <1>1, EditFacts DEF EditInv, Unrequested, Accounted
<1>8. Unrequested(c)' /\ Accounted(c)'
    BY <1>1, <1>2, <1>3, <1>7, EditFacts DEF Unrequested, Accounted
<1>9. ASSUME leaves = 0
      PROVE  InTurn(c)'
  <2>1. InTurn(c) /\ Requests(c)' = Requests(c)
    <3>1. wire[c] \notin Attempt /\ wire'[c] \notin Attempt
        BY <1>1, <1>3, AskIsNoAnswer, EditFacts
    <3> QED
        BY <1>1, <1>9, <3>1 DEF EditInv, Requests
  <2>2. \A a : Lapsed(a)' <=> Lapsed(a)
      BY <1>1 DEF Lapsed, Dead
  <2> QED
      BY <1>1, <1>2, <1>3, <2>1, <2>2, EditFacts DEF InTurn
<1> QED
    BY <1>1, <1>4, <1>5, <1>6, <1>8, <1>9, PageStepOn DEF EditInv, EditsInv

\* what failed is kept as the run has it, with what the answer shows
LEMMA FailedKeeps ==
    ASSUME EditsInv, NEW c \in EditId, wire[c] # NoWire, UNCHANGED <<revision, committed>>,
           NEW conflict \in Field \X Revision \union {<<>>}, NEW recovery \in {0} \union Revision,
           Failed(c, conflict, recovery), late' \in {late, Unheard(c)},
           \A f \in Field, r \in Revision : conflict = <<f, r>> => r <= revision[f],
           leaves = 0 => /\ conflict # <<>> => Lapsed(AttemptOf(c, executing[c]))
                         /\ recovery # 0 => executing[c].basis = 0
    PROVE  EditsInv'
<1>0. PICK x, p : x = executing[c] /\ p = [x EXCEPT !.conflict = conflict, !.recovery = recovery]
    OBVIOUS
<1>1. /\ EditsForms /\ EditInv(c) /\ c \notin stale /\ step[c] = "sent" /\ away = FALSE /\ x \in Pending
      /\ Publish([retained EXCEPT ![c] = p]) /\ review' = c
      /\ UNCHANGED <<stale, away, dropped, sends, leaves, revision, committed>>
  <2>1. EditsForms /\ EditInv(c) /\ step[c] = "sent" /\ x \in Pending
      BY <1>0, EditForms DEF EditsInv
  <2>2. /\ c \notin stale /\ Publish([retained EXCEPT ![c] = p]) /\ review' = c
        /\ UNCHANGED <<stale, away, dropped, sends, leaves>>
      BY <1>0 DEF Failed, Retained
  <2> QED
      BY <2>1, <2>2 DEF EditInv, Accounted
<1>2. /\ p \in Pending /\ p.op = x.op /\ p.basis = x.basis /\ p.reviewed = x.reviewed
      /\ p.conflict = conflict /\ p.recovery = recovery /\ p # NoEdit
  <2>1. p \in Pending
      BY <1>0, <1>1 DEF Pending
  <2> QED
      BY <1>0, <1>1, <2>1, EditIsNoEdit DEF Pending
<1>3. /\ retained' \in [EditId -> Pending \union {NoEdit}] /\ retained'[c] = p
      /\ onDisk' \in [EditId -> Pending \union {NoEdit}] /\ onDisk'[c] \in {onDisk[c], p}
      /\ \A e \in EditId \ {c} : retained'[e] = retained[e] /\ onDisk'[e] \in {onDisk[e], retained[e]}
      /\ failures' \in Nat /\ (failures' = 0 => failures = 0 /\ onDisk' = retained')
    BY <1>1, <1>2, PublishFacts
<1>4. /\ wire' = [wire EXCEPT ![c] = NoWire]
      /\ seen' = [seen EXCEPT ![c] = [f \in Field |->
                     seen[c][f] \union 1..recovery \union {r \in Revision : conflict = <<f, r>>}]]
      /\ \/ step' = [step EXCEPT ![c] = "waiting"] /\ executing' = [executing EXCEPT ![c] = p]
         \/ EndedRun(c)
    BY <1>0, EditForms DEF Failed
<1>5. /\ step' \in [EditId -> {"none", "sent", "waiting"}] /\ executing' \in [EditId -> Pending \union {NoEdit}]
      /\ \A e \in EditId \ {c} : step'[e] = step[e] /\ executing'[e] = executing[e]
      /\ \/ step'[c] = "waiting" /\ executing'[c] = p
         \/ step'[c] = "none" /\ executing'[c] = NoEdit
  <2>1. CASE step' = [step EXCEPT ![c] = "waiting"] /\ executing' = [executing EXCEPT ![c] = p]
      BY <1>2, <2>1, EditForms
  <2>2. CASE EndedRun(c)
      BY <2>2, EditForms DEF EndedRun
  <2> QED
      BY <1>4, <2>1, <2>2
<1>6. /\ wire' \in [EditId -> Attempt \union Answer \union {NoWire}] /\ wire'[c] = NoWire
      /\ \A e \in EditId \ {c} : wire'[e] = wire[e]
    BY <1>4, EditForms
<1>7. /\ seen' \in [EditId -> [Field -> SUBSET Revision]]
      /\ \A f \in Field :
            seen'[c][f] = seen[c][f] \union 1..recovery \union {r \in Revision : conflict = <<f, r>>}
      /\ \A e \in EditId \ {c} : seen'[e] = seen[e]
  <2>1. 1..recovery \subseteq Revision
      BY EditFacts DEF Revision
  <2>2. [f \in Field |-> seen[c][f] \union 1..recovery \union {r \in Revision : conflict = <<f, r>>}]
            \in [Field -> SUBSET Revision]
      BY <2>1, EditForms
  <2> QED
      BY <1>4, <2>2, EditForms
<1>8. late \subseteq late' /\ \A a \in late' \ late : a = wire[c] /\ a \in Attempt /\ a.basis # 0
    BY DEF Unheard
<1>9. OthersStay(c)
    BY <1>1, <1>3, <1>5, <1>6, <1>7, <1>8 DEF OthersStay, EditInv, ShownOf
<1>10. EditsForms'
  <2>1. \A e \in EditId :
            /\ step'[e] = "sent" <=> wire'[e] # NoWire
            /\ e \in stale' => step'[e] = "sent"
            /\ step'[e] = "none" <=> executing'[e] = NoEdit
      BY <1>1, <1>2, <1>5, <1>6, EditForms
  <2>2. late' \subseteq Attempt
      BY <1>8, EditForms
  <2> QED
      BY <1>1, <1>3, <1>5, <1>6, <1>7, <2>1, <2>2, EditForms DEF EditsForms, EditsTypeOK
<1>11. /\ \A b, v : Informed(c, b, v) => Informed(c, b, v)'
       /\ \A q : Told(c, q) => Told(c, q)'
  <2>1. \A f \in Field : seen[c][f] \subseteq seen'[c][f]
      BY <1>7
  <2>2. \A b, v : Informed(c, b, v) => Informed(c, b, v)'
      BY <1>1, <2>1 DEF Informed
  <2> QED
      BY <1>1, <2>1, <2>2 DEF Told
<1>12. Told(c, p)'
  <2>1. Informed(c, x.basis, x.reviewed)'
      BY <1>0, <1>1, <1>11, EditIsNoEdit DEF EditInv, ShownOf, Told
  <2>2. Informed(c, p.basis, p.reviewed)'
      BY <1>2, <2>1
  <2>3. \A f \in Field :
            /\ 1..p.recovery \subseteq seen'[c][f]
            /\ \A r \in Revision : p.conflict = <<f, r>> => r \in seen'[c][f] /\ r <= revision'[f]
      BY <1>1, <1>2, <1>7
  <2> QED
      BY <2>2, <2>3 DEF Told
<1>13. ShownOf(c)'
  <2>1. (onDisk[c] # NoEdit => Told(c, onDisk[c]))'
    <3>1. CASE onDisk'[c] = p
        BY <1>12, <3>1 DEF Told, Informed
    <3>2. CASE onDisk'[c] = onDisk[c]
      <4>1. PICK q : q = onDisk[c]
          OBVIOUS
      <4>2. q # NoEdit => Told(c, q)'
          BY <1>1, <1>11, <4>1 DEF EditInv, ShownOf
      <4> QED
          BY <3>2, <4>1, <4>2 DEF Told, Informed
    <3> QED
        BY <1>3, <3>1, <3>2
  <2>2. (\A q \in {retained[c], onDisk[c], executing[c]} : q # NoEdit => Told(c, q))'
      BY <1>3, <1>5, <1>12, <2>1 DEF Told, Informed
  <2> QED
      BY <1>1, <1>6, <1>8, <1>11, <2>2, EditFacts DEF EditInv, ShownOf
<1>14. sends[c] # 0
    BY <1>1 DEF EditInv, Unrequested
<1>15. Unrequested(c)' /\ Accounted(c)'
    BY <1>1, <1>2, <1>3, <1>5, <1>6, <1>14, EditFacts DEF Unrequested, Accounted
<1>16. ASSUME leaves = 0
       PROVE  InTurn(c)'
  <2>1. InTurn(c) /\ Newest(c, x)
      BY <1>0, <1>1, <1>16, EditIsNoEdit DEF EditInv, InTurn
  <2>2. Requests(c)' \subseteq Requests(c)
      BY <1>1, <1>6, <1>8, EditFacts DEF Requests
  <2>3. \A a : Lapsed(a)' <=> Lapsed(a)
      BY <1>1 DEF Lapsed, Dead
  <2>4. AttemptOf(c, p) = AttemptOf(c, x)
      BY <1>2 DEF AttemptOf
  <2>5. Newest(c, p)'
      BY <1>0, <1>1, <1>2, <1>16, <2>1, <2>2, <2>3, <2>4 DEF Newest, AttemptOf
  <2>6. p.conflict # <<>> => Lapsed(AttemptOf(c, p))
      BY <1>0, <1>2, <1>16, <2>4
  <2>7. \A a \in Requests(c)' : a.op[2] < sends'[c]
      BY <1>1, <2>1, <2>2 DEF InTurn
  <2>8. \A a, b \in Requests(c)' : (a.op = b.op => a = b) /\ (a.op[2] < b.op[2] => Lapsed(a))
      BY <2>1, <2>2 DEF InTurn
  <2> QED
      BY <1>3, <1>5, <1>6, <2>3, <2>5, <2>6, <2>7, <2>8, EditFacts DEF InTurn, AttemptOf
<1> QED
    BY <1>1, <1>9, <1>10, <1>13, <1>15, <1>16, PageStepOn DEF EditInv, EditsInv

LEMMA EditAnswersKeep ==
    ASSUME EditsInv, NEW c \in EditId, Refused(c) \/ Unanswered(c), UNCHANGED <<revision, committed>>
    PROVE  EditsInv'
<1>1. EditInv(c)
    BY DEF EditsInv
<1>2. CASE Refused(c)
  <2>1. PICK w : w = wire[c]
      OBVIOUS
  <2>2. /\ w \in Answer /\ w # NoWire /\ Failed(c, w.conflict, w.recovery) /\ late' = late
      BY <1>2, <2>1, EditFacts DEF Refused
  <2>3. w.conflict \in Field \X Revision \union {<<>>} /\ w.recovery \in {0} \union Revision
      BY <2>2 DEF Answer
  <2>4. \A f \in Field, r \in Revision : w.conflict = <<f, r>> => r <= revision[f]
      BY <1>1, <2>1, <2>2 DEF EditInv, ShownOf
  <2>5. leaves = 0 => /\ w.conflict # <<>> => Lapsed(AttemptOf(c, executing[c]))
                      /\ w.recovery # 0 => executing[c].basis = 0
      BY <1>1, <2>1, <2>2 DEF EditInv, InTurn
  <2> QED
      BY <2>1, <2>2, <2>3, <2>4, <2>5, FailedKeeps
<1>3. CASE Unanswered(c)
  <2>1. wire[c] # NoWire /\ Failed(c, <<>>, 0) /\ late' = Unheard(c)
      BY <1>3 DEF Unanswered
  <2>2. <<>> \in Field \X Revision \union {<<>>} /\ 0 \in {0} \union Revision
      OBVIOUS
  <2>3. \A f \in Field, r \in Revision : <<>> = <<f, r>> => r <= revision[f]
      BY ConflictIsPair
  <2> QED
      BY <2>1, <2>2, <2>3, FailedKeeps
<1> QED
    BY <1>2, <1>3

(***************************************************************************)
(* Another library is shown, or the page is loaded again.                  *)
(***************************************************************************)
LEMMA LeavingKeeps ==
    ASSUME EditsInv, UNCHANGED <<revision, committed, onDisk, seen, dropped, sends, failures>>,
           EditsForms', leaves' # 0,
           \A c \in EditId :
              /\ \/ retained'[c] = retained[c] /\ wire'[c] = wire[c] /\ executing'[c] \in {executing[c], NoEdit}
                 \/ retained'[c] = Restored(onDisk[c]) /\ wire'[c] = NoWire /\ executing'[c] = NoEdit
              /\ step'[c] # "waiting" /\ (step'[c] = "sent" => c \in stale')
              /\ \A a \in late' : a.op[1] = c => a \in late \/ (a = wire[c] /\ a \in Attempt /\ a.basis # 0)
    PROVE  EditsInv'
<1> SUFFICES ASSUME NEW c \in EditId
             PROVE  EditInv(c)'
    BY DEF EditsInv
<1>1. EditInv(c)
    BY DEF EditsInv
<1>2. PICK d : d = onDisk[c]
    OBVIOUS
<1>3. /\ Restored(d) = NoEdit <=> d = NoEdit
      /\ d # NoEdit => Told(c, Restored(d))
  <2>1. CASE d = NoEdit
      BY <2>1 DEF Restored
  <2>2. CASE d # NoEdit
    <3>1. d \in Pending /\ Told(c, d)
        BY <1>1, <1>2, <2>2, EditForms DEF EditInv, ShownOf
    <3>2. Restored(d) = [d EXCEPT !.recovery = 0]
        BY <2>2 DEF Restored
    <3>3. Restored(d) \in Pending
        BY <3>1, <3>2 DEF Pending
    <3>4. /\ Restored(d).basis = d.basis /\ Restored(d).reviewed = d.reviewed
          /\ Restored(d).conflict = d.conflict /\ Restored(d).recovery = 0
        BY <3>1, <3>2 DEF Pending
    <3>5. 1..0 = {}
        OBVIOUS
    <3> QED
        BY <2>2, <3>1, <3>3, <3>4, <3>5, EditIsNoEdit DEF Told
  <2> QED
      BY <2>1, <2>2
<1>4. ShownOf(c)'
  <2>1. PICK e : e = retained'[c]
      OBVIOUS
  <2>2. e # NoEdit => Told(c, e)
      BY <1>1, <1>2, <1>3, <2>1 DEF EditInv, ShownOf
  <2>3. (\A q \in {retained[c], onDisk[c], executing[c]} : q # NoEdit => Told(c, q))'
      BY <1>1, <2>1, <2>2, InformedStays DEF EditInv, ShownOf
  <2> QED
      BY <1>1, <2>3, InformedStays, EditFacts DEF EditInv, ShownOf
<1>5. Unrequested(c)'
    BY <1>1, <1>2, <1>3, EditFacts DEF EditInv, Unrequested
<1>6. Accounted(c)'
    BY <1>1, <1>2, <1>3, EditFacts DEF EditInv, Accounted
<1> QED
    BY <1>4, <1>5, <1>6 DEF EditInv

LEMMA SwitchKeeps ==
    ASSUME EditsInv, SwitchLibrary, UNCHANGED <<revision, committed>>
    PROVE  EditsInv'
<1>1. /\ UNCHANGED <<revision, committed, onDisk, seen, dropped, sends, failures, retained, wire, late>>
      /\ leaves' \in Nat /\ leaves' # 0 /\ away' \in BOOLEAN /\ review' = NoDialog
      /\ stale' = {c \in EditId : step[c] = "sent"}
      /\ \A c \in EditId :
            \/ step[c] = "waiting" /\ step'[c] = "none" /\ executing'[c] = NoEdit
            \/ step[c] # "waiting" /\ step'[c] = step[c] /\ executing'[c] = executing[c]
    BY EditForms DEF SwitchLibrary, Retired
<1>2. step' \in [EditId -> {"none", "sent", "waiting"}]
    BY EditForms DEF SwitchLibrary
<1>3. executing' \in [EditId -> Pending \union {NoEdit}]
    BY EditForms DEF SwitchLibrary
<1>4. \A c \in EditId :
        /\ step'[c] = "sent" <=> wire'[c] # NoWire
        /\ c \in stale' => step'[c] = "sent"
        /\ step'[c] = "none" <=> executing'[c] = NoEdit
    BY <1>1, EditForms
<1>5. EditsForms'
    BY <1>1, <1>2, <1>3, <1>4, EditForms DEF EditsForms, EditsTypeOK
<1> QED
    BY <1>1, <1>2, <1>5, LeavingKeeps

LEMMA RestartKeeps ==
    ASSUME EditsInv, Restart, UNCHANGED <<revision, committed>>
    PROVE  EditsInv'
<1>1. /\ UNCHANGED <<revision, committed, onDisk, seen, dropped, sends, failures, away>>
      /\ leaves' \in Nat /\ leaves' # 0 /\ review' = NoDialog /\ stale' = {}
      /\ late' = UNION {Unheard(c) : c \in EditId}
      /\ \A c \in EditId : step'[c] = "none" /\ executing'[c] = NoEdit /\ wire'[c] = NoWire
      /\ \A c \in EditId : retained'[c] = Restored(onDisk[c])
      /\ step' \in [EditId -> {"none", "sent", "waiting"}]
      /\ executing' \in [EditId -> Pending \union {NoEdit}]
      /\ wire' \in [EditId -> Attempt \union Answer \union {NoWire}]
    BY EditForms DEF Restart
<1>2. \A e \in EditId : \A a \in Unheard(e) : a \in late \/ (a = wire[e] /\ a \in Attempt /\ a.basis # 0)
    BY DEF Unheard
<1>3. \A c \in EditId, a \in late' :
        a.op[1] = c => a \in late \/ (a = wire[c] /\ a \in Attempt /\ a.basis # 0)
  <2>1. \A e \in EditId : wire[e] \in Attempt => wire[e].op[1] = e
      BY DEF EditsInv, EditInv, ShownOf
  <2> QED
      BY <1>1, <1>2, <2>1
<1>4. late' \subseteq Attempt
    BY <1>1, <1>2, EditForms
<1>5. retained' \in [EditId -> Pending \union {NoEdit}]
  <2>1. \A d \in Pending \union {NoEdit} : Restored(d) \in Pending \union {NoEdit}
    <3> SUFFICES ASSUME NEW d \in Pending \union {NoEdit}, d # NoEdit
                 PROVE  Restored(d) \in Pending
        BY DEF Restored
    <3> QED
        BY DEF Restored, Pending
  <2> QED
      BY <2>1, EditForms DEF Restart
<1>6. EditsForms'
    BY <1>1, <1>4, <1>5, EditForms DEF EditsForms, EditsTypeOK
<1> QED
    BY <1>1, <1>3, <1>6, LeavingKeeps

(***************************************************************************)
(* The server commits and answers: fields move on, one that has lapsed     *)
(* stays so, and what is committed is a request that was not.              *)
(***************************************************************************)
LEMMA EditServerKeeps ==
    ASSUME EditsInv, EditsForms',
           UNCHANGED <<retained, onDisk, step, executing, stale, away, late, seen, dropped, sends, leaves, failures>>,
           \A f \in Field : revision[f] <= revision'[f],
           \/ committed' = committed
           \/ \E a \in Attempt : /\ committed' = committed \union {a} /\ a.basis # 0 /\ ~Dead(a)
                                 /\ a \in late \/ \E e \in EditId : a = wire[e],
           \A e \in EditId :
              \/ wire'[e] = wire[e]
              \/ /\ wire'[e] \in Answer /\ wire[e] \in Attempt
                 /\ wire'[e].saved => \E a \in committed' : a.op[1] = e
                 /\ \A f \in Field, r \in Revision : wire'[e].conflict = <<f, r>> => r <= revision[f]
                 /\ wire'[e].conflict # <<>> => Lapsed(wire[e])
                 /\ wire'[e].recovery # 0 => wire[e].basis = 0
    PROVE  EditsInv'
<1>1. committed \subseteq committed' /\ \A a \in committed' : a.basis # 0
    BY DEF EditsInv
<1>2. /\ \A f \in Field : revision[f] \in Nat /\ revision'[f] \in Nat
      /\ \A f \in Field, r \in Revision : r <= revision[f] => r <= revision'[f]
  <2>1. revision \in [Field -> Revision] /\ revision' \in [Field -> Revision]
      BY EditForms DEF EditsForms, EditsTypeOK
  <2>2. \A f \in Field : revision[f] \in Nat /\ revision'[f] \in Nat
      BY <2>1, EditFacts
  <2>3. ASSUME NEW f \in Field, NEW r \in Revision, r <= revision[f]
        PROVE  r <= revision'[f]
    <3>1. r \in Nat /\ revision[f] \in Nat /\ revision'[f] \in Nat /\ revision[f] <= revision'[f]
        BY <2>2, EditFacts
    <3> QED
        BY <2>3, <3>1
  <2> QED
      BY <2>2, <2>3
<1>3. ASSUME NEW a \in Attempt, Lapsed(a)
      PROVE  Lapsed(a)'
  <2>1. a.basis \in Nat /\ \A f \in Field : a.reviewed[f] \in Nat
    <3>1. a.basis \in {0} \union Revision /\ a.reviewed \in [Field -> {0} \union Revision]
        BY DEF Attempt
    <3>2. {0} \union Revision \subseteq Nat
        BY EditFacts
    <3> QED
        BY <3>1, <3>2
  <2>2. Dead(a)'
      BY <1>2, <1>3, <2>1 DEF Lapsed, Dead
  <2>3. a \notin committed'
      BY <1>3 DEF Lapsed
  <2> QED
      BY <2>2, <2>3 DEF Lapsed
<1> SUFFICES ASSUME NEW c \in EditId
             PROVE  EditInv(c)'
    BY <1>1 DEF EditsInv
<1>4. EditInv(c) /\ retained[c] \in Pending \union {NoEdit} /\ executing[c] \in Pending \union {NoEdit}
    BY EditForms DEF EditsInv
<1>5. \A b, v : v \in [Field -> Nat] /\ Informed(c, b, v) => Informed(c, b, v)'
    BY <1>2 DEF Informed
<1>6. \A p \in Pending : Told(c, p) => Told(c, p)'
  <2>1. ASSUME NEW p \in Pending, Told(c, p)
        PROVE  Told(c, p)'
    <3>1. p.reviewed \in [Field -> {0} \union Revision]
        BY DEF Pending
    <3>2. {0} \union Revision \subseteq Nat
        BY EditFacts
    <3>3. p.reviewed \in [Field -> Nat]
        BY <3>1, <3>2
    <3>4. Informed(c, p.basis, p.reviewed)'
        BY <1>5, <2>1, <3>3 DEF Told
    <3> QED
        BY <1>2, <2>1, <3>4 DEF Told
  <2> QED
      BY <2>1
<1>7. \A a \in Attempt : Informed(c, a.basis, a.reviewed) => Informed(c, a.basis, a.reviewed)'
  <2>1. ASSUME NEW a \in Attempt, Informed(c, a.basis, a.reviewed)
        PROVE  Informed(c, a.basis, a.reviewed)'
    <3>1. a.reviewed \in [Field -> {0} \union Revision]
        BY DEF Attempt
    <3>2. {0} \union Revision \subseteq Nat
        BY EditFacts
    <3>3. a.reviewed \in [Field -> Nat]
        BY <3>1, <3>2
    <3> QED
        BY <1>5, <2>1, <3>3
  <2> QED
      BY <2>1
<1>8. /\ wire'[c] \in Attempt => wire'[c] = wire[c]
      /\ wire'[c] = NoWire <=> wire[c] = NoWire
    BY AskIsNoAnswer, EditFacts
<1>9. ShownOf(c)'
  <2>1. (\A p \in {retained[c], onDisk[c], executing[c]} : p # NoEdit => Told(c, p))'
      BY <1>4, <1>6, EditForms DEF EditInv, ShownOf
  <2>2. (wire[c] \in Attempt => wire[c].op[1] = c /\ Informed(c, wire[c].basis, wire[c].reviewed))'
    <3> SUFFICES ASSUME wire'[c] \in Attempt
                 PROVE  wire'[c].op[1] = c /\ Informed(c, wire[c].basis, wire[c].reviewed)'
        OBVIOUS
    <3>1. PICK a : a = wire[c]
        OBVIOUS
    <3>2. a \in Attempt /\ a.op[1] = c /\ Informed(c, a.basis, a.reviewed) /\ wire'[c] = a
        BY <1>4, <1>8, <3>1 DEF EditInv, ShownOf
    <3>3. Informed(c, a.basis, a.reviewed)'
        BY <1>7, <3>2
    <3> QED
        BY <3>2, <3>3
  <2>3. \A a \in late' : a.op[1] = c => a.basis # 0 /\ Informed(c, a.basis, a.reviewed)'
      BY <1>4, <1>7, EditForms DEF EditInv, ShownOf
  <2>5. wire'[c] \in Answer => \A f \in Field, r \in Revision : wire'[c].conflict = <<f, r>> => r <= revision'[f]
      BY <1>2, <1>4 DEF EditInv, ShownOf
  <2> QED
      BY <2>1, <2>2, <2>3, <2>5 DEF ShownOf
<1>10. \A a \in committed' \ committed : a.op[1] = c => a \in Requests(c)
    BY DEF Requests, EditsInv, EditInv, ShownOf
<1>11. Unrequested(c)'
  <2>1. sends[c] = 0 => Requests(c) = {}
      BY <1>4, EditFacts DEF EditInv, Unrequested, Requests
  <2> QED
      BY <1>4, <1>8, <1>10, <2>1 DEF EditInv, Unrequested
<1>12. Accounted(c)'
    BY <1>1, <1>4 DEF EditInv, Accounted
<1>13. ASSUME leaves = 0
       PROVE  InTurn(c)'
  <2>1. InTurn(c)
      BY <1>4, <1>13 DEF EditInv
  <2>2. Requests(c)' \subseteq Requests(c)
      BY <1>8, <1>10 DEF Requests
  <2>3. \A a \in Requests(c) : Lapsed(a) => Lapsed(a)'
      BY <1>3 DEF Requests
  <2>4. \A p \in Pending : Lapsed(AttemptOf(c, p)) => Lapsed(AttemptOf(c, p))'
      BY <1>3, AttemptForm DEF AttemptOf
  <2>5. \A p \in Pending : Newest(c, p) => Newest(c, p)'
      BY <2>2, <2>3 DEF Newest, AttemptOf
  <2>6. (\A p \in {retained[c], executing[c]} : p # NoEdit => Newest(c, p))'
      BY <1>4, <2>1, <2>5 DEF InTurn
  <2>7. (retained[c] # NoEdit /\ retained[c].conflict # <<>> =>
            step[c] = "sent" \/ retained[c].op = sends[c] \/ Lapsed(AttemptOf(c, retained[c])))'
      BY <1>4, <2>1, <2>4 DEF InTurn, AttemptOf
  <2>8. (wire[c] \in Attempt => wire[c] = AttemptOf(c, executing[c]))'
      BY <1>8, <2>1 DEF InTurn, AttemptOf
  <2>9. ASSUME wire'[c] \in Answer
        PROVE  /\ wire'[c].conflict # <<>> => Lapsed(AttemptOf(c, executing[c]))'
               /\ wire'[c].recovery # 0 => executing'[c].basis = 0
    <3>1. executing[c] \in Pending
        BY <1>4, <1>8, <2>9, EditForms, EditFacts
    <3>2. CASE wire'[c] = wire[c]
        BY <2>1, <2>4, <2>9, <3>1, <3>2 DEF InTurn, AttemptOf
    <3>3. CASE /\ wire[c] \in Attempt
               /\ wire'[c].conflict # <<>> => Lapsed(wire[c])
               /\ wire'[c].recovery # 0 => wire[c].basis = 0
      <4>1. wire[c] = AttemptOf(c, executing[c])
          BY <2>1, <3>3 DEF InTurn
      <4>2. wire[c].basis = executing[c].basis
          BY <3>1, <4>1, AttemptForm
      <4> QED
          BY <2>4, <3>1, <3>3, <4>1, <4>2 DEF AttemptOf
    <3> QED
        BY <3>2, <3>3
  <2>10. \A a \in Requests(c)' : a.op[2] < sends'[c]
      BY <2>1, <2>2 DEF InTurn
  <2>11. \A a, b \in Requests(c)' : (a.op = b.op => a = b) /\ (a.op[2] < b.op[2] => Lapsed(a)')
      BY <2>1, <2>2, <2>3 DEF InTurn
  <2>12. (executing[c] # NoEdit /\ retained[c] # NoEdit => AttemptOf(c, executing[c]) = AttemptOf(c, retained[c]))'
      BY <2>1 DEF InTurn, AttemptOf
  <2> QED
      BY <2>6, <2>7, <2>8, <2>9, <2>10, <2>11, <2>12 DEF InTurn
<1> QED
    BY <1>9, <1>11, <1>12, <1>13 DEF EditInv

LEMMA AttemptNumbers == \A a \in Attempt : a.basis \in Nat /\ \A f \in Field : a.reviewed[f] \in Nat
<1>1. {0} \union Revision \subseteq Nat
    BY EditFacts
<1>2. \A a \in Attempt : a.basis \in {0} \union Revision /\ a.reviewed \in [Field -> {0} \union Revision]
    BY DEF Attempt
<1> QED
    BY <1>1, <1>2

\* a request the server commits: it has not lapsed, and the clock goes on
LEMMA CommitForm ==
    ASSUME EditsInv, NEW a \in Attempt, CommitEdit(a), a.basis # 0
    PROVE  /\ revision' \in [Field -> Revision] /\ \A f \in Field : revision[f] <= revision'[f]
           /\ committed' = committed \union {a} /\ ~Dead(a)
<1>1. Clock \in Revision /\ (\A f \in Field : revision[f] <= Clock) /\ Clock < MaxRevision
    BY EditForms, ClockIsLast DEF CommitEdit
<1>2. Clock \in Nat /\ Clock + 1 \in Revision /\ \A f \in Field : revision[f] \in Nat
    BY <1>1, EditForms, EditFacts DEF Revision
<1>3. \A f \in Field : revision[f] <= Clock + 1
    BY <1>1, <1>2
<1>4. revision' = [f \in Field |-> Clock + 1]
    BY DEF CommitEdit
<1>5. a.basis \in Nat /\ \A f \in Field : a.reviewed[f] \in Nat
    BY AttemptNumbers
<1>6. ~Dead(a)
  <2>1. \A f \in Field : Unchanged(a, f)
      BY DEF CommitEdit
  <2> QED
      BY <1>2, <1>5, <2>1 DEF Unchanged, Dead
<1> QED
    BY <1>2, <1>3, <1>4, <1>6 DEF CommitEdit

LEMMA ReplyForm ==
    /\ Nothing \in Answer
    /\ \A s \in BOOLEAN : /\ [Nothing EXCEPT !.saved = s] \in Answer /\ [Nothing EXCEPT !.saved = s].saved = s
                          /\ [Nothing EXCEPT !.saved = s].conflict = <<>> /\ [Nothing EXCEPT !.saved = s].recovery = 0
    /\ \A r \in {0} \union Revision :
          /\ [Nothing EXCEPT !.recovery = r] \in Answer /\ [Nothing EXCEPT !.recovery = r].saved = FALSE
          /\ [Nothing EXCEPT !.recovery = r].conflict = <<>>
    /\ \A x \in Field \X Revision :
          /\ [Nothing EXCEPT !.conflict = x] \in Answer /\ [Nothing EXCEPT !.conflict = x].saved = FALSE
          /\ [Nothing EXCEPT !.conflict = x].conflict = x /\ [Nothing EXCEPT !.conflict = x].recovery = 0
BY DEF Nothing, Answer

\* the server's answer w to the request of edit c
LEMMA ReplyKeeps ==
    ASSUME EditsInv, NEW c \in EditId, NEW w \in Answer, wire[c] \in Attempt, Reply(c, w),
           UNCHANGED <<retained, onDisk, step, executing, stale, review, away, late, seen, dropped, sends, leaves, failures>>,
           revision' \in [Field -> Revision], \A f \in Field : revision[f] <= revision'[f],
           \/ committed' = committed
           \/ committed' = committed \union {wire[c]} /\ wire[c].basis # 0 /\ ~Dead(wire[c]),
           w.saved => \E a \in committed' : a.op[1] = c,
           \A f \in Field, r \in Revision : w.conflict = <<f, r>> => r <= revision[f],
           w.conflict # <<>> => Lapsed(wire[c]),
           w.recovery # 0 => wire[c].basis = 0
    PROVE  EditsInv'
<1>1. wire' \in [EditId -> Attempt \union Answer \union {NoWire}] /\ wire'[c] = w
      /\ \A e \in EditId \ {c} : wire'[e] = wire[e]
    BY EditForms DEF Reply
<1>2. committed' \subseteq Attempt
    BY EditForms
<1>3. \A e \in EditId : wire'[e] = NoWire <=> wire[e] = NoWire
    BY <1>1, EditFacts
<1>4. EditsForms'
    BY <1>1, <1>2, <1>3, EditForms DEF EditsForms, EditsTypeOK
<1>5. \A e \in EditId :
        \/ wire'[e] = wire[e]
        \/ /\ wire'[e] \in Answer /\ wire[e] \in Attempt
           /\ wire'[e].saved => \E a \in committed' : a.op[1] = e
           /\ \A f \in Field, r \in Revision : wire'[e].conflict = <<f, r>> => r <= revision[f]
           /\ wire'[e].conflict # <<>> => Lapsed(wire[e])
           /\ wire'[e].recovery # 0 => wire[e].basis = 0
    BY <1>1
<1>6. \/ committed' = committed
      \/ \E a \in Attempt : /\ committed' = committed \union {a} /\ a.basis # 0 /\ ~Dead(a)
                            /\ a \in late \/ \E e \in EditId : a = wire[e]
    OBVIOUS
<1> QED
    BY <1>4, <1>5, <1>6, EditServerKeeps

LEMMA ReachKeeps ==
    ASSUME EditsInv, NEW c \in EditId, Reach(c)
    PROVE  EditsInv'
<1>0. PICK a : a = wire[c]
    OBVIOUS
<1>1. /\ a \in Attempt /\ a.op[1] = c /\ Informed(c, a.basis, a.reviewed)
      /\ UNCHANGED <<retained, onDisk, step, executing, stale, review, away, late, seen, dropped, sends, leaves, failures>>
    BY <1>0 DEF Reach, EditsInv, EditInv, ShownOf
<1>2. /\ revision \in [Field -> Revision] /\ \A f \in Field : revision[f] \in Nat /\ revision[f] <= revision[f]
      /\ \A f, r : <<f, r>> # <<>>
  <2>1. \A f \in Field : revision[f] \in Nat
      BY EditForms, EditFacts
  <2> QED
      BY <2>1, EditForms, ConflictIsPair
<1>3. CASE a.basis = 0 /\ UNCHANGED <<revision, committed>>
           /\ \E r \in {0, Clock} : Reply(c, [Nothing EXCEPT !.recovery = r])
  <2>1. PICK r \in {0, Clock} : Reply(c, [Nothing EXCEPT !.recovery = r])
      BY <1>3
  <2>2. r \in {0} \union Revision
      BY <1>2, <2>1, ClockIsLast
  <2>3. PICK w : w = [Nothing EXCEPT !.recovery = r]
      OBVIOUS
  <2>4. w \in Answer /\ w.saved = FALSE /\ w.conflict = <<>> /\ Reply(c, w)
      BY <2>1, <2>2, <2>3, ReplyForm
  <2> QED
      BY <1>0, <1>1, <1>2, <1>3, <2>4, ReplyKeeps
<1>4. CASE a.basis # 0 /\ CommitEdit(a) /\ Reply(c, [Nothing EXCEPT !.saved = TRUE])
  <2>1. PICK w : w = [Nothing EXCEPT !.saved = TRUE]
      OBVIOUS
  <2>2. w \in Answer /\ w.conflict = <<>> /\ w.recovery = 0 /\ Reply(c, w)
      BY <1>4, <2>1, ReplyForm
  <2>3. /\ revision' \in [Field -> Revision] /\ \A f \in Field : revision[f] <= revision'[f]
        /\ committed' = committed \union {a} /\ ~Dead(a)
      BY <1>1, <1>4, CommitForm
  <2>4. \E b \in committed' : b.op[1] = c
      BY <1>1, <2>3
  <2> QED
      BY <1>0, <1>1, <1>2, <1>4, <2>2, <2>3, <2>4, ReplyKeeps
<1>5. CASE a.basis # 0 /\ Repeated(a) /\ UNCHANGED <<revision, committed>>
           /\ Reply(c, [Nothing EXCEPT !.saved = a \in committed])
  <2>1. PICK w : w = [Nothing EXCEPT !.saved = a \in committed]
      OBVIOUS
  <2>2. (a \in committed) \in BOOLEAN
      OBVIOUS
  <2>3. w \in Answer /\ (w.saved = (a \in committed)) /\ w.conflict = <<>> /\ w.recovery = 0
      BY <2>1, <2>2, ReplyForm
  <2>4. w.saved => \E b \in committed' : b.op[1] = c
      BY <1>1, <1>5, <2>3
  <2>5. w \in Answer /\ w.conflict = <<>> /\ w.recovery = 0 /\ Reply(c, w)
      BY <1>5, <2>1, <2>3
  <2>6. UNCHANGED <<revision, committed>>
      BY <1>5
  <2> QED
      BY <1>0, <1>1, <1>2, <2>4, <2>5, <2>6, ReplyKeeps
<1>6. CASE /\ a.basis # 0 /\ ~Repeated(a) /\ UNCHANGED <<revision, committed>>
           /\ \E f \in Field : ~Unchanged(a, f) /\ Reply(c, [Nothing EXCEPT !.conflict = <<f, revision[f]>>])
  <2>1. PICK f \in Field : ~Unchanged(a, f) /\ Reply(c, [Nothing EXCEPT !.conflict = <<f, revision[f]>>])
      BY <1>6
  <2>2. PICK w : w = [Nothing EXCEPT !.conflict = <<f, revision[f]>>]
      OBVIOUS
  <2>3. <<f, revision[f]>> \in Field \X Revision
      BY <1>2
  <2>4. w \in Answer /\ w.saved = FALSE /\ w.conflict = <<f, revision[f]>> /\ w.recovery = 0 /\ Reply(c, w)
      BY <2>1, <2>2, <2>3, ReplyForm
  <2>5. a.basis \in Nat /\ a.reviewed[f] \in Nat
      BY <1>1, AttemptNumbers
  <2>6. Dead(a)
    <3>1. a.reviewed[f] <= revision[f]
        BY <1>1 DEF Informed
    <3> QED
        BY <1>2, <2>1, <2>5, <3>1 DEF Unchanged, Dead
  <2>7. Lapsed(a)
      BY <1>6, <2>6 DEF Repeated, Lapsed
  <2>8. \A g \in Field, r \in Revision : w.conflict = <<g, r>> => r <= revision[g]
      BY <1>2, <2>4
  <2> QED
      BY <1>0, <1>1, <1>2, <1>6, <2>4, <2>7, <2>8, ReplyKeeps
<1> QED
    BY <1>0, <1>3, <1>4, <1>5, <1>6 DEF Reach

\* a request nobody waits for, the owner elsewhere, a dialog that is opened, and nothing at all
LEMMA UnheardKeeps ==
    ASSUME EditsInv,
           \/ \E a \in late : ReachLate(a)
           \/ \E f \in Field : Elsewhere(f)
           \/ \E c \in EditId : OpenEdit(c) /\ UNCHANGED <<revision, committed>>
           \/ UNCHANGED editsVars
    PROVE  EditsInv'
<1>1. /\ UNCHANGED <<retained, onDisk, step, executing, stale, away, late, seen, dropped, sends, leaves, failures, wire>>
      /\ review' \in EditId \union {NoDialog}
    BY EditForms DEF ReachLate, Elsewhere, OpenEdit, pageVars, editsVars
<1>2. \A f \in Field : revision[f] \in Nat
    BY EditForms, EditFacts
<1>3. /\ revision' \in [Field -> Revision] /\ \A f \in Field : revision[f] <= revision'[f]
      /\ \/ committed' = committed
         \/ \E a \in Attempt : /\ committed' = committed \union {a} /\ a.basis # 0 /\ ~Dead(a)
                               /\ a \in late \/ \E e \in EditId : a = wire[e]
  <2>1. CASE \E a \in late : ReachLate(a)
    <3>1. PICK a \in late : ReachLate(a)
        BY <2>1
    <3>2. a \in Attempt /\ a.op[1] \in EditId
        BY EditForms DEF Attempt, Operation
    <3>3. a.basis # 0
        BY <3>2 DEF EditsInv, EditInv, ShownOf
    <3>4. CommitEdit(a)
        BY <3>1 DEF ReachLate
    <3> QED
        BY <3>2, <3>3, <3>4, CommitForm
  <2>2. CASE \E f \in Field : Elsewhere(f)
    <3>1. PICK f \in Field : Elsewhere(f)
        BY <2>2
    <3>2. Clock \in Revision /\ (\A g \in Field : revision[g] <= Clock) /\ Clock < MaxRevision
        BY <3>1, EditForms, ClockIsLast DEF Elsewhere
    <3>3. Clock \in Nat /\ Clock + 1 \in Revision /\ \A g \in Field : revision[g] <= Clock + 1
        BY <1>2, <3>2, EditFacts DEF Revision
    <3>4. revision' = [revision EXCEPT ![f] = Clock + 1] /\ committed' = committed
        BY <3>1 DEF Elsewhere
    <3> QED
        BY <1>2, <3>3, <3>4, EditForms
  <2>3. CASE UNCHANGED <<revision, committed>>
      BY <1>2, <2>3, EditForms
  <2> QED
      BY <2>1, <2>2, <2>3 DEF editsVars
<1>4. EditsForms'
  <2>1. committed' \subseteq Attempt
      BY <1>3, EditForms
  <2> QED
      BY <1>1, <1>3, <2>1, EditForms DEF EditsForms, EditsTypeOK
<1> QED
    BY <1>1, <1>3, <1>4, EditServerKeeps

LEMMA EditsInitInv == EditsInit => EditsInv
<1> SUFFICES ASSUME EditsInit
             PROVE  EditsInv
    OBVIOUS
<1>1. EditsForms
  <2>1. seen \in [EditId -> [Field -> SUBSET Revision]]
    <3>1. [f \in Field |-> {}] \in [Field -> SUBSET Revision]
        OBVIOUS
    <3> QED
        BY <3>1 DEF EditsInit
  <2>2. revision \in [Field -> Revision] /\ sends \in [EditId -> 0..MaxSends]
      BY EditFacts DEF EditsInit
  <2>3. /\ retained \in [EditId -> Pending \union {NoEdit}] /\ onDisk \in [EditId -> Pending \union {NoEdit}]
        /\ executing \in [EditId -> Pending \union {NoEdit}] /\ step \in [EditId -> {"none", "sent", "waiting"}]
        /\ wire \in [EditId -> Attempt \union Answer \union {NoWire}]
        /\ \A c \in EditId : step[c] = "none" /\ wire[c] = NoWire /\ executing[c] = NoEdit
      BY DEF EditsInit
  <2> QED
      BY <2>1, <2>2, <2>3 DEF EditsInit, EditsForms, EditsTypeOK
<1>2. \A c \in EditId : EditInv(c)
  <2> SUFFICES ASSUME NEW c \in EditId
               PROVE  EditInv(c)
      OBVIOUS
  <2>1. /\ retained[c] = NoEdit /\ onDisk[c] = NoEdit /\ executing[c] = NoEdit /\ step[c] = "none"
        /\ wire[c] = NoWire /\ wire[c] \notin Attempt /\ wire[c] \notin Answer /\ late = {} /\ committed = {}
        /\ sends[c] = 0 /\ Requests(c) = {}
      BY EditFacts DEF EditsInit, Requests
  <2> QED
      BY <2>1 DEF EditInv, ShownOf, Unrequested, Accounted, InTurn
<1> QED
    BY <1>1, <1>2 DEF EditsInit, EditsInv

LEMMA EditsStep == EditsInv /\ [EditsNext]_editsVars => EditsInv'
<1> SUFFICES ASSUME EditsInv, [EditsNext]_editsVars
             PROVE  EditsInv'
    OBVIOUS
<1>1. ASSUME NEW c \in EditId, Here(c), UNCHANGED <<revision, committed>>
      PROVE  EditsInv'
  <2>1. CASE Make(c)
      BY <1>1, <2>1, MakeKeeps
  <2>2. CASE RequestAgain(c)
      BY <1>1, <2>2, RequestAgainKeeps
  <2>3. CASE UseMine(c)
      BY <1>1, <2>3, UseMineKeeps
  <2>4. CASE OpenEdit(c)
      BY <1>1, <2>4, UnheardKeeps
  <2>5. CASE \E choice \in {"keep", "discard"} : Choose(c, choice)
      BY <1>1, <2>5, ChooseKeeps
  <2>6. CASE Abandon(c)
      BY <1>1, <2>6, AbandonKeeps
  <2>7. CASE Saved(c)
      BY <1>1, <2>7, SavedKeeps
  <2>8. CASE Refused(c) \/ Unanswered(c)
      BY <1>1, <2>8, EditAnswersKeep
  <2> QED
      BY <1>1, <2>1, <2>2, <2>3, <2>4, <2>5, <2>6, <2>7, <2>8 DEF Here
<1>2. CASE SwitchLibrary /\ UNCHANGED <<revision, committed>>
    BY <1>2, SwitchKeeps
<1>3. CASE Restart /\ UNCHANGED <<revision, committed>>
    BY <1>3, RestartKeeps
<1>4. CASE \E c \in EditId : Reach(c)
    BY <1>4, ReachKeeps
<1>5. CASE (\E a \in late : ReachLate(a)) \/ (\E f \in Field : Elsewhere(f)) \/ UNCHANGED editsVars
    BY <1>5, UnheardKeeps
<1> QED
    BY <1>1, <1>2, <1>3, <1>4, <1>5 DEF EditsNext

LEMMA EditsInvariant == EditsSpec => []EditsInv
BY EditsInitInv, EditsStep, PTL DEF EditsSpec

(***************************************************************************)
(* An edit is committed at most once while its page and library stay on    *)
(* show, is held until it is committed or discarded, and its dialogs are   *)
(* heard (runEdit, chooseEdit and the server's receipts).                  *)
(***************************************************************************)
THEOREM EditsComeToOneEnd == EditsSpec => []EditsSettle
<1>1. EditsInv => EditsSettle
  <2> SUFFICES ASSUME EditsInv
               PROVE  EditsSettle
      OBVIOUS
  <2>1. AppliedOnce
    <3> SUFFICES ASSUME leaves = 0, NEW a \in committed, NEW b \in committed, a.op[1] = b.op[1]
                 PROVE  a = b
        BY DEF AppliedOnce
    <3>1. PICK c : c = a.op[1]
        OBVIOUS
    <3>2. a \in Attempt /\ b \in Attempt /\ a.op \in EditId \X (0..MaxSends) /\ b.op \in EditId \X (0..MaxSends)
        BY EditForms DEF Attempt, Operation
    <3>3. c \in EditId /\ a \in Requests(c) /\ b \in Requests(c) /\ a.op[2] \in Nat /\ b.op[2] \in Nat
        BY <3>1, <3>2, EditFacts DEF Requests
    <3>4. InTurn(c)
        BY <3>3 DEF EditsInv, EditInv
    <3>5. ~(a.op[2] < b.op[2]) /\ ~(b.op[2] < a.op[2])
        BY <3>3, <3>4 DEF InTurn, Lapsed
    <3>6. a.op[2] = b.op[2]
        BY <3>3, <3>5
    <3>7. a.op = b.op
        BY <3>2, <3>6
    <3> QED
        BY <3>3, <3>4, <3>7 DEF InTurn
  <2>2. RetainedUntilSettled
      BY DEF EditsInv, EditInv, Accounted, RetainedUntilSettled
  <2>3. ChoicesAreHeard
      BY DEF EditsInv, EditInv, Accounted, ChoicesAreHeard
  <2> QED
      BY <2>1, <2>2, <2>3 DEF EditsSettle
<1> QED
    BY <1>1, EditsInvariant, PTL

(***************************************************************************)
(* Whatever an edit replaces, its owner was shown: the server commits it   *)
(* over what it was based on or over exactly what was reviewed, and both   *)
(* were on show, however late the request arrives (EditContext.guard,      *)
(* chooseEdit's acknowledged revision).                                    *)
(***************************************************************************)
THEOREM EditsReplaceWhatWasShown == EditsSpec => OverwriteReviewed
<1> DEFINE Replaces == \A a \in committed' \ committed, f \in Field : revision[f] \in seen[a.op[1]][f]
<1>1. ASSUME EditsInv, [EditsNext]_editsVars, NEW a \in committed' \ committed
      PROVE  CommitEdit(a) /\ (a \in late \/ \E e \in EditId : a = wire[e] /\ a \in Attempt)
  <2>1. ~UNCHANGED committed
      OBVIOUS
  <2>2. CASE \E c \in EditId : Reach(c)
      BY <2>1, <2>2 DEF Reach, CommitEdit
  <2>3. CASE \E b \in late : ReachLate(b)
      BY <2>3 DEF ReachLate, CommitEdit
  <2> QED
      BY <1>1, <2>1, <2>2, <2>3 DEF EditsNext, editsVars, Elsewhere
<1>2. EditsInv /\ [EditsNext]_editsVars => [Replaces]_editsVars
  <2> SUFFICES ASSUME EditsInv, [EditsNext]_editsVars, NEW a \in committed' \ committed, NEW f \in Field
               PROVE  revision[f] \in seen[a.op[1]][f]
      OBVIOUS
  <2>1. CommitEdit(a) /\ (a \in late \/ \E e \in EditId : a = wire[e] /\ a \in Attempt)
      BY <1>1
  <2>2. a \in Attempt /\ a.op[1] \in EditId
      BY <2>1, EditForms DEF Attempt, Operation
  <2>3. PICK c \in EditId : c = a.op[1]
      BY <2>2
  <2>4. Informed(c, a.basis, a.reviewed)
      BY <2>1, <2>3 DEF EditsInv, EditInv, ShownOf
  <2>5. 1..a.basis \subseteq seen[c][f] /\ (a.reviewed[f] # 0 => a.reviewed[f] \in seen[c][f])
      BY <2>4 DEF Informed
  <2>6. Unchanged(a, f)
      BY <2>1 DEF CommitEdit
  <2>7. revision[f] \in Nat /\ 1 <= revision[f]
      BY EditForms DEF Revision
  <2>8. a.basis \in Nat
      BY <2>2, AttemptNumbers
  <2> QED
      BY <2>3, <2>5, <2>6, <2>7, <2>8 DEF Unchanged
<1> QED
    BY <1>2, EditsInvariant, PTL DEF EditsSpec, OverwriteReviewed

-----------------------------------------------------------------------------
(* Private drafts                                                          *)

Dated(d) == d # NoDraft => d.id <= edits /\ d.revision <= edits

(***************************************************************************)
(* What makes the three inductive: an edit gives a draft an id that no     *)
(* draft has yet; an editor has one tab; and what the browser has stored   *)
(* for an editor in use is an earlier generation of the draft on its page, *)
(* which storage may have refused since (update, holdEditor).              *)
(***************************************************************************)
AllKnown ==
    /\ \A t \in Tab : Dated(page[t])
    /\ \A e \in Editor : Dated(stored[e])
OneTab == \A t, q \in Tab : editor[t] # NoEditor /\ editor[t] = editor[q] => t = q
OneEditor ==
    \A e, f \in Editor : stored[e] # NoDraft /\ stored[f] # NoDraft /\ stored[e].id = stored[f].id => e = f
PageIsNewer ==
    \A t \in Tab, e \in Editor :
        editor[t] = e /\ stored[e] # NoDraft =>
            page[t] # NoDraft /\ page[t].id = stored[e].id /\ stored[e].revision <= page[t].revision
PageOfEditor ==
    \A t \in Tab, e \in Editor :
        page[t] # NoDraft /\ stored[e] # NoDraft /\ page[t].id = stored[e].id => editor[t] = e

DInv == DraftsTypeOK /\ AllKnown /\ OneTab /\ OneEditor /\ PageIsNewer /\ PageOfEditor /\ OneWriter /\ DismissedStays

\* the tabs' side of the invariant
TabsInv == AllKnown /\ OneTab /\ OneEditor /\ PageIsNewer /\ PageOfEditor /\ OneWriter
tabVars == <<editor, page, stored, edits>>

-----------------------------------------------------------------------------
(***************************************************************************)
(* A browser that was never used holds no draft (useCatalogDraft).         *)
(***************************************************************************)
LEMMA InitDInv == DraftsInit => DInv
BY DraftsAssumption
DEF DraftsInit, DInv, DraftsTypeOK, AllKnown, Dated, OneTab, OneEditor, PageIsNewer, PageOfEditor,
    OneWriter, DismissedStays

(***************************************************************************)
(* The tabs' side depends on what tabs and storage hold only.              *)
(***************************************************************************)
LEMMA TabsUntouched ==
    ASSUME TabsInv, UNCHANGED tabVars
    PROVE  TabsInv'
BY DEF TabsInv, tabVars, AllKnown, Dated, OneTab, OneEditor, PageIsNewer, PageOfEditor, OneWriter

(***************************************************************************)
(* A generation of a draft is a draft (update: next).                      *)
(***************************************************************************)
LEMMA GenerationType ==
    ASSUME DInv, NEW t \in Tab, edits < MaxEdits
    PROVE  LET d == Generation(t, edits + 1) IN
           /\ d \in Envelope /\ d # NoDraft /\ d.id <= edits + 1 /\ d.revision <= edits + 1
           /\ page[t] # NoDraft => d.id = page[t].id /\ d.revision = page[t].revision + 1
           /\ page[t] = NoDraft => d.id = edits + 1
<1>0. edits \in Nat /\ MaxEdits \in Nat /\ edits + 1 \in Edit /\ 1 \in Edit
    BY DraftsAssumption DEF DInv, DraftsTypeOK, Edit
<1>1. CASE page[t] = NoDraft
    BY <1>0, <1>1, DraftsAssumption DEF Generation, Envelope
<1>2. CASE page[t] # NoDraft
  <2>1. page[t] \in Envelope /\ page[t].id <= edits /\ page[t].revision <= edits
      BY <1>2 DEF DInv, DraftsTypeOK, AllKnown, Dated
  <2>2. page[t].revision + 1 \in Edit
      BY <1>0, <2>1 DEF Envelope, Edit
  <2> QED
      BY <1>0, <1>2, <2>1, <2>2, DraftsAssumption DEF Generation, Envelope, Edit
<1> QED
    BY <1>1, <1>2

-----------------------------------------------------------------------------
(***************************************************************************)
(* No step takes a variable out of its type.                               *)
(***************************************************************************)
LEMMA TypeKept ==
    ASSUME DInv, DraftsNext
    PROVE  DraftsTypeOK'
<1> USE DraftsAssumption
<1>1. ASSUME NEW t \in Tab, Acquire(t) PROVE DraftsTypeOK'
    BY <1>1 DEF DInv, DraftsTypeOK, Acquire, serverVars
<1>2. ASSUME NEW t \in Tab, Leave(t) PROVE DraftsTypeOK'
    BY <1>2 DEF DInv, DraftsTypeOK, Leave, serverVars
<1>3. ASSUME NEW t \in Tab, NEW q \in Tab, Duplicate(t, q) PROVE DraftsTypeOK'
    BY <1>3 DEF DInv, DraftsTypeOK, Duplicate, serverVars
<1>4. ASSUME NEW t \in Tab, Update(t) PROVE DraftsTypeOK'
  <2>1. Generation(t, edits + 1) \in Envelope
      BY <1>4, GenerationType DEF Update
  <2>2. edits' \in 0..MaxEdits /\ refusals' \in 0..MaxRefusals
      BY <1>4 DEF DInv, DraftsTypeOK, Update
  <2>3. page' \in [Tab -> Envelope \union {NoDraft}] /\ stored' \in [Editor -> Envelope \union {NoDraft}]
      BY <1>4, <2>1 DEF DInv, DraftsTypeOK, Update
  <2>4. \A q \in Tab : editor'[q] = NoEditor => page'[q] = NoDraft
      BY <1>4 DEF DInv, DraftsTypeOK, Update
  <2> QED
      BY <1>4, <2>2, <2>3, <2>4 DEF DInv, DraftsTypeOK, Update, serverVars
<1>5. ASSUME NEW t \in Tab, Deliver(t) PROVE DraftsTypeOK'
    BY <1>5 DEF DInv, DraftsTypeOK, Deliver, serverVars
<1>6. ASSUME NEW t \in Tab, Discard(t) PROVE DraftsTypeOK'
    BY <1>6 DEF DInv, DraftsTypeOK, Discard, serverVars
<1>7. ASSUME NEW t \in Tab, Dismissed(t) PROVE DraftsTypeOK'
    BY <1>7 DEF DInv, DraftsTypeOK, Dismissed, serverVars
<1>8. ASSUME NEW t \in Tab, DismissLost(t) PROVE DraftsTypeOK'
    BY <1>8 DEF DInv, DraftsTypeOK, DismissLost, serverVars
<1>9. ASSUME NEW r \in sent, Put(r[2]) PROVE DraftsTypeOK'
  <2>1. r[2] \in Envelope
      BY DEF DInv, DraftsTypeOK
  <2> QED
      BY <1>9, <2>1 DEF DInv, DraftsTypeOK, Put, Envelope
<1>10. ASSUME NEW r \in sent, Dismiss(r[2]) PROVE DraftsTypeOK'
  <2>1. r[2] \in Envelope
      BY DEF DInv, DraftsTypeOK
  <2>2. receipt' \in [Edit -> {0} \union Edit] /\ kept' \in [Edit -> Envelope \union {NoDraft}]
      BY <1>10, <2>1 DEF DInv, DraftsTypeOK, Dismiss, Envelope
  <2> QED
      BY <1>10, <2>2 DEF DInv, DraftsTypeOK, Dismiss
<1> QED
    BY <1>1, <1>2, <1>3, <1>4, <1>5, <1>6, <1>7, <1>8, <1>9, <1>10 DEF DraftsNext

(***************************************************************************)
(* A tab takes an editor nobody has, and loads what is stored for it: a    *)
(* duplicated session is refused, and a new id has no draft (holdEditor).  *)
(***************************************************************************)
LEMMA AcquireKeepsTabs ==
    ASSUME DInv, NEW t \in Tab, Acquire(t)
    PROVE  TabsInv'
<1>1. PICK e \in Editor :
        /\ \A q \in Tab : editor[q] # e
        /\ editor' = [editor EXCEPT ![t] = e]
        /\ page' = [page EXCEPT ![t] = stored[e]]
    BY DEF Acquire, Admitted, Held
<1>2. /\ editor[t] = NoEditor /\ page[t] = NoDraft /\ e # NoEditor
      /\ stored' = stored /\ edits' = edits
    BY DraftsAssumption DEF Acquire, DInv, DraftsTypeOK
<1>3. /\ \A q \in Tab : editor'[q] = IF q = t THEN e ELSE editor[q]
      /\ \A q \in Tab : page'[q] = IF q = t THEN stored[e] ELSE page[q]
    BY <1>1 DEF DInv, DraftsTypeOK
<1>4. AllKnown'
    BY <1>2, <1>3 DEF DInv, AllKnown, Dated
<1>5. OneTab' /\ OneEditor'
    BY <1>1, <1>2, <1>3 DEF DInv, OneTab, OneEditor
<1>6. PageIsNewer'
  <2> SUFFICES ASSUME NEW q \in Tab, NEW f \in Editor, editor'[q] = f, stored[f] # NoDraft
               PROVE  page'[q] # NoDraft /\ page'[q].id = stored[f].id
                      /\ stored[f].revision <= page'[q].revision
      BY <1>2 DEF PageIsNewer
  <2>1. CASE q = t
    <3>1. f = e /\ page'[q] = stored[f]
        BY <1>3, <2>1
    <3>2. stored[f].revision \in Nat
        BY DEF DInv, DraftsTypeOK, Envelope, Edit
    <3> QED
        BY <3>1, <3>2
  <2>2. CASE q # t
      BY <1>3, <2>2 DEF DInv, PageIsNewer
  <2> QED
      BY <2>1, <2>2
<1>7. PageOfEditor'
    BY <1>2, <1>3 DEF DInv, PageOfEditor, OneEditor
<1>8. OneWriter'
    BY <1>1, <1>2, <1>3 DEF DInv, OneWriter, PageOfEditor
<1> QED
    BY <1>4, <1>5, <1>6, <1>7, <1>8 DEF TabsInv

(***************************************************************************)
(* A closed tab leaves its draft in storage (holdEditor: release).         *)
(***************************************************************************)
LEMMA LeaveKeepsTabs ==
    ASSUME DInv, NEW t \in Tab, Leave(t)
    PROVE  TabsInv'
<1>1. /\ \A q \in Tab : editor'[q] = IF q = t THEN NoEditor ELSE editor[q]
      /\ \A q \in Tab : page'[q] = IF q = t THEN NoDraft ELSE page[q]
      /\ stored' = stored /\ edits' = edits
    BY DEF Leave, DInv, DraftsTypeOK
<1> QED
    BY <1>1, DraftsAssumption
    DEF DInv, TabsInv, AllKnown, Dated, OneTab, OneEditor, PageIsNewer, PageOfEditor, OneWriter

(***************************************************************************)
(* An edit makes the next generation of the page's draft, or one of a new  *)
(* draft, and storage takes it or has the one before (update).             *)
(***************************************************************************)
LEMMA UpdateKeepsTabs ==
    ASSUME DInv, NEW t \in Tab, Update(t)
    PROVE  TabsInv'
<1> DEFINE d == Generation(t, edits + 1)
           g == editor[t]
<1>1. /\ d # NoDraft /\ d \in Envelope /\ d.id <= edits + 1 /\ d.revision <= edits + 1
      /\ page[t] # NoDraft => d.id = page[t].id /\ d.revision = page[t].revision + 1
      /\ page[t] = NoDraft => d.id = edits + 1
    BY GenerationType DEF Update
<1>2. /\ g \in Editor /\ g # NoEditor /\ editor' = editor /\ edits' = edits + 1 /\ edits \in Nat
      /\ \A q \in Tab : page'[q] = IF q = t THEN d ELSE page[q]
      /\ \/ \A e \in Editor : stored'[e] = IF e = g THEN d ELSE stored[e]
         \/ stored' = stored
    BY DEF Update, DInv, DraftsTypeOK
<1> HIDE DEF d, g
<1>3. /\ \A q \in Tab : page[q] # NoDraft => page[q].id \in Nat /\ page[q].revision \in Nat
                                       /\ page[q].id <= edits /\ page[q].revision <= edits
      /\ \A e \in Editor : stored[e] # NoDraft => stored[e].id \in Nat /\ stored[e].revision \in Nat
                                       /\ stored[e].id <= edits /\ stored[e].revision <= edits
      /\ d.id \in Nat /\ d.revision \in Nat
    BY <1>1 DEF DInv, DraftsTypeOK, AllKnown, Dated, Envelope, Edit
<1>4. AllKnown'
    BY <1>1, <1>2, <1>3 DEF AllKnown, Dated
<1>5. OneTab'
    BY <1>2 DEF DInv, OneTab
<1>6. \A e \in Editor : stored[e] # NoDraft /\ stored[e].id = d.id => e = g
    BY <1>1, <1>2, <1>3 DEF DInv, PageOfEditor, g
<1>7. \A q \in Tab : page[q] # NoDraft /\ page[q].id = d.id => q = t
    BY <1>1, <1>2, <1>3 DEF DInv, OneWriter
<1>8. OneEditor'
    BY <1>2, <1>6 DEF DInv, OneEditor
<1>9. \A q \in Tab : editor[q] = g => q = t
    BY <1>2 DEF DInv, OneTab, g
<1>10. stored[g] # NoDraft => stored[g].id = d.id /\ stored[g].revision <= d.revision
  <2> SUFFICES ASSUME stored[g] # NoDraft
               PROVE  stored[g].id = d.id /\ stored[g].revision <= d.revision
      OBVIOUS
  <2>1. page[t] # NoDraft /\ page[t].id = stored[g].id /\ stored[g].revision <= page[t].revision
      BY <1>2 DEF DInv, PageIsNewer, g
  <2> QED
      BY <1>1, <1>2, <1>3, <2>1
<1>11. PageIsNewer'
  <2> SUFFICES ASSUME NEW q \in Tab, NEW f \in Editor, editor[q] = f, stored'[f] # NoDraft
               PROVE  page'[q] # NoDraft /\ page'[q].id = stored'[f].id
                      /\ stored'[f].revision <= page'[q].revision
      BY <1>2 DEF PageIsNewer
  <2>1. CASE q = t
    <3>1. f = g /\ page'[q] = d
        BY <1>2, <2>1 DEF g
    <3> QED
        BY <1>1, <1>2, <1>3, <1>10, <3>1
  <2>2. CASE q # t
    <3>1. f # g /\ page'[q] = page[q] /\ stored'[f] = stored[f]
        BY <1>2, <1>9, <2>2
    <3> QED
        BY <3>1 DEF DInv, PageIsNewer
  <2> QED
      BY <2>1, <2>2
<1>12. PageOfEditor'
  <2> SUFFICES ASSUME NEW q \in Tab, NEW f \in Editor, page'[q] # NoDraft, stored'[f] # NoDraft,
                      page'[q].id = stored'[f].id
               PROVE  editor[q] = f
      BY <1>2 DEF PageOfEditor
  <2>1. CASE q = t
    <3>1. f = g
        BY <1>2, <1>6, <2>1
    <3> QED
        BY <3>1, <2>1 DEF g
  <2>2. CASE q # t
    <3>1. page'[q] = page[q] /\ page[q].id # d.id
        BY <1>2, <1>7, <2>2
    <3>2. stored'[f] = stored[f]
        BY <1>2, <3>1
    <3> QED
        BY <3>1, <3>2 DEF DInv, PageOfEditor
  <2> QED
      BY <2>1, <2>2
<1>13. OneWriter'
    BY <1>2, <1>7 DEF DInv, OneWriter
<1> QED
    BY <1>4, <1>5, <1>8, <1>11, <1>12, <1>13 DEF TabsInv

(***************************************************************************)
(* What the answer to a dismissal removes, it removes from the page and    *)
(* from storage (discard).                                                 *)
(***************************************************************************)
LEMMA DismissedKeepsTabs ==
    ASSUME DInv, NEW t \in Tab, Dismissed(t)
    PROVE  TabsInv'
<1>1. editor' = editor /\ edits' = edits
    BY DEF Dismissed
<1>2. CASE ~Untouched(t)
    BY <1>1, <1>2, TabsUntouched DEF Dismissed, DInv, TabsInv, tabVars
<1>3. CASE Untouched(t)
  <2>1. /\ \A q \in Tab : page'[q] = IF q = t THEN NoDraft ELSE page[q]
        /\ \A e \in Editor : stored'[e] = IF e = editor[t] THEN NoDraft ELSE stored[e]
      BY <1>3 DEF Dismissed, DInv, DraftsTypeOK
  <2> QED
      BY <1>1, <2>1
      DEF DInv, TabsInv, AllKnown, Dated, OneTab, OneEditor, PageIsNewer, PageOfEditor, OneWriter
<1> QED
    BY <1>2, <1>3

-----------------------------------------------------------------------------
(***************************************************************************)
(* A request that arrives late brings back nothing that has a receipt, and *)
(* a receipt only goes forward (CatalogStore.draft, dismiss_draft).        *)
(***************************************************************************)
LEMMA PutKeepsDismissed ==
    ASSUME DInv, NEW d \in Envelope, Put(d)
    PROVE  DismissedStays'
<1>1. d.id \in Edit /\ d.revision \in Nat /\ receipt[d.id] \in Nat /\ receipt' = receipt
    BY DEF Put, DInv, DraftsTypeOK, Envelope, Edit
<1>2. CASE kept' = kept
    BY <1>1, <1>2 DEF DInv, DismissedStays
<1>3. CASE ~Superseded(d) /\ kept' = [kept EXCEPT ![d.id] = d]
  <2>1. d.revision > receipt[d.id]
      BY <1>1, <1>3 DEF Superseded
  <2>2. \A i \in Edit : kept'[i] = IF i = d.id THEN d ELSE kept[i]
      BY <1>1, <1>3 DEF DInv, DraftsTypeOK
  <2> QED
      BY <1>1, <2>1, <2>2 DEF DInv, DismissedStays
<1> QED
    BY <1>2, <1>3 DEF Put

LEMMA DismissKeepsDismissed ==
    ASSUME DInv, NEW d \in Envelope, Dismiss(d)
    PROVE  DismissedStays'
<1>1. /\ d.id \in Edit /\ d.revision \in Nat
      /\ \A i \in Edit : receipt[i] \in Nat /\ (kept[i] # NoDraft => kept[i].revision \in Nat)
  <2>1. \A c \in Envelope : c.id \in Edit /\ c.revision \in Nat
      BY DEF Envelope, Edit
  <2>2. \A i \in Edit : receipt[i] \in Nat /\ (kept[i] # NoDraft => kept[i] \in Envelope)
      BY DEF DInv, DraftsTypeOK, Edit
  <2> QED
      BY <2>1, <2>2
<1>2. \A i \in Edit : i # d.id => receipt'[i] = receipt[i] /\ kept'[i] = kept[i]
    BY <1>1 DEF Dismiss, DInv, DraftsTypeOK
<1>3. receipt'[d.id] = IF receipt[d.id] > d.revision THEN receipt[d.id] ELSE d.revision
    BY <1>1 DEF Dismiss, DInv, DraftsTypeOK
<1>4. kept'[d.id] # NoDraft => kept'[d.id] = kept[d.id] /\ kept[d.id].revision > d.revision
    BY <1>1 DEF Dismiss, Clearing, DInv, DraftsTypeOK
<1>5. kept'[d.id] # NoDraft => kept'[d.id].revision > receipt'[d.id]
    BY <1>1, <1>3, <1>4 DEF DInv, DismissedStays
<1> QED
    BY <1>2, <1>5 DEF DInv, DismissedStays

(***************************************************************************)
(* Every step keeps the invariant (DraftsNext).                            *)
(***************************************************************************)
LEMMA NextDInv == DInv /\ [DraftsNext]_draftsVars => DInv'
<1> SUFFICES ASSUME DInv, [DraftsNext]_draftsVars PROVE DInv'
    OBVIOUS
<1>1. CASE UNCHANGED draftsVars
    BY <1>1 DEF draftsVars, DInv, DraftsTypeOK, AllKnown, Dated, OneTab, OneEditor, PageIsNewer,
               PageOfEditor, OneWriter, DismissedStays
<1>2. CASE DraftsNext
  <2>1. DraftsTypeOK'
      BY <1>2, TypeKept
  <2>2. TabsInv
      BY DEF DInv, TabsInv
  <2>3. ASSUME UNCHANGED serverVars PROVE DismissedStays'
      BY <2>3 DEF serverVars, DInv, DismissedStays
  <2>4. ASSUME NEW t \in Tab, Acquire(t) PROVE TabsInv' /\ DismissedStays'
      BY <2>3, <2>4, AcquireKeepsTabs DEF Acquire
  <2>5. ASSUME NEW t \in Tab, Leave(t) PROVE TabsInv' /\ DismissedStays'
      BY <2>3, <2>5, LeaveKeepsTabs DEF Leave
  <2>6. ASSUME NEW t \in Tab, NEW q \in Tab, Duplicate(t, q) PROVE TabsInv' /\ DismissedStays'
      BY <2>2, <2>3, <2>6, TabsUntouched DEF Duplicate, tabVars
  <2>7. ASSUME NEW t \in Tab, Update(t) PROVE TabsInv' /\ DismissedStays'
      BY <2>3, <2>7, UpdateKeepsTabs DEF Update
  <2>8. ASSUME NEW t \in Tab, Deliver(t) \/ Discard(t) \/ DismissLost(t)
        PROVE  TabsInv' /\ DismissedStays'
      BY <2>2, <2>3, <2>8, TabsUntouched DEF Deliver, Discard, DismissLost, tabVars
  <2>9. ASSUME NEW t \in Tab, Dismissed(t) PROVE TabsInv' /\ DismissedStays'
      BY <2>3, <2>9, DismissedKeepsTabs DEF Dismissed
  <2>10. ASSUME NEW r \in sent, Put(r[2]) \/ Dismiss(r[2]) PROVE TabsInv' /\ DismissedStays'
    <3>1. r[2] \in Envelope
        BY DEF DInv, DraftsTypeOK
    <3>2. TabsInv'
        BY <2>2, <2>10, TabsUntouched DEF Put, Dismiss, tabVars
    <3>3. DismissedStays'
        BY <2>10, <3>1, PutKeepsDismissed, DismissKeepsDismissed
    <3> QED
        BY <3>2, <3>3
  <2>11. TabsInv' /\ DismissedStays'
      BY <1>2, <2>4, <2>5, <2>6, <2>7, <2>8, <2>9, <2>10 DEF DraftsNext
  <2> QED
      BY <2>1, <2>11 DEF DInv, TabsInv
<1> QED
    BY <1>1, <1>2

(***************************************************************************)
(* The inductive invariant holds in every state (useCatalogDraft).         *)
(***************************************************************************)
LEMMA SpecDInv == DraftsSpec => []DInv
    BY InitDInv, NextDInv, PTL DEF DraftsSpec

(***************************************************************************)
(* No two tabs write one draft, duplicated ones included (holdEditor).     *)
(***************************************************************************)
THEOREM PrivateDraftsSafety == DraftsSpec => [](DraftsTypeOK /\ OneWriter)
<1>1. DInv => DraftsTypeOK /\ OneWriter
    BY DEF DInv
<1> QED
    BY <1>1, SpecDInv, PTL

(***************************************************************************)
(* A dismissed draft does not come back however late its requests arrive   *)
(* (CatalogStore.draft, dismiss_draft).                                    *)
(***************************************************************************)
THEOREM DismissedStaysGone == DraftsSpec => []DismissedStays
<1>1. DInv => DismissedStays
    BY DEF DInv
<1> QED
    BY <1>1, SpecDInv, PTL

-----------------------------------------------------------------------------
(***************************************************************************)
(* The server's copy of a draft goes forward or is dismissed               *)
(* (CatalogStore.draft, dismiss_draft).                                    *)
(***************************************************************************)
LEMMA KeptForward ==
    ASSUME DInv, DraftsNext
    PROVE  KeptGoesForward
<1>1. ASSUME kept' = kept PROVE KeptGoesForward
    BY <1>1 DEF KeptGoesForward
<1>2. ASSUME NEW r \in sent, Put(r[2]) PROVE KeptGoesForward
  <2> DEFINE d == r[2]
  <2>1. d \in Envelope /\ d.id \in Edit /\ d # NoDraft
      BY DraftsAssumption DEF DInv, DraftsTypeOK, Envelope
  <2>2. CASE kept' = kept
      BY <1>1, <2>2
  <2>3. CASE Newer(d) /\ kept' = [kept EXCEPT ![d.id] = d]
    <3>1. \A i \in Edit : kept'[i] = IF i = d.id THEN d ELSE kept[i]
        BY <2>1, <2>3 DEF DInv, DraftsTypeOK
    <3> QED
        BY <2>1, <2>3, <3>1 DEF Newer, KeptGoesForward
  <2> QED
      BY <1>2, <2>2, <2>3 DEF Put
<1>3. ASSUME NEW r \in sent, Dismiss(r[2]) PROVE KeptGoesForward
  <2> DEFINE d == r[2]
  <2>1. d \in Envelope /\ d.id \in Edit /\ d.revision \in Nat /\ receipt[d.id] \in Nat
      BY DEF DInv, DraftsTypeOK, Envelope, Edit
  <2>2. \A i \in Edit : i # d.id => kept'[i] = kept[i]
      BY <1>3, <2>1 DEF Dismiss, DInv, DraftsTypeOK
  <2>3. receipt'[d.id] >= d.revision
      BY <1>3, <2>1 DEF Dismiss, DInv, DraftsTypeOK
  <2>4. kept'[d.id] # kept[d.id] => kept'[d.id] = NoDraft /\ kept[d.id].revision <= d.revision
      BY <1>3, <2>1 DEF Dismiss, Clearing, DInv, DraftsTypeOK
  <2>5. /\ receipt'[d.id] \in Nat
        /\ kept[d.id] # NoDraft => kept[d.id].revision \in Nat
      BY <1>3, <2>1 DEF Dismiss, DInv, DraftsTypeOK, Envelope, Edit
  <2> QED
      BY <2>1, <2>2, <2>3, <2>4, <2>5 DEF KeptGoesForward
<1> QED
    BY <1>1, <1>2, <1>3
    DEF DraftsNext, Acquire, Leave, Duplicate, Update, Deliver, Discard, Dismissed, DismissLost, serverVars

(***************************************************************************)
(* Storage forgets a draft only for a receipt of it or of a later          *)
(* generation: the page that asks has the newest one (discard).            *)
(***************************************************************************)
LEMMA StoredForgets ==
    ASSUME DInv, DraftsNext
    PROVE  OnlyDismissedGoes
<1>1. ASSUME stored' = stored PROVE OnlyDismissedGoes
    BY <1>1 DEF OnlyDismissedGoes
<1>2. ASSUME NEW t \in Tab, Update(t) PROVE OnlyDismissedGoes
  <2>1. Generation(t, edits + 1) # NoDraft
      BY <1>2, GenerationType DEF Update
  <2> QED
      BY <1>2, <2>1 DEF Update, OnlyDismissedGoes, DInv, DraftsTypeOK
<1>3. ASSUME NEW t \in Tab, Dismissed(t) PROVE OnlyDismissedGoes
  <2>1. CASE ~Untouched(t)
      BY <1>1, <1>3, <2>1 DEF Dismissed
  <2>2. CASE Untouched(t)
    <3>1. page[t] # NoDraft /\ receipt[page[t].id] >= page[t].revision
        BY <1>3, <2>2 DEF Dismissed, Untouched
    <3>2. \A e \in Editor : stored'[e] = IF e = editor[t] THEN NoDraft ELSE stored[e]
        BY <1>3, <2>2 DEF Dismissed, DInv, DraftsTypeOK
    <3>3. ASSUME NEW e \in Editor, e = editor[t], stored[e] # NoDraft
          PROVE  receipt[stored[e].id] >= stored[e].revision
      <4>1. page[t].id = stored[e].id /\ stored[e].revision <= page[t].revision
          BY <3>3 DEF DInv, PageIsNewer
      <4>2. page[t].revision \in Nat /\ stored[e].revision \in Nat /\ receipt[stored[e].id] \in Nat
          BY <3>1, <3>3 DEF DInv, DraftsTypeOK, Envelope, Edit
      <4> QED
          BY <3>1, <4>1, <4>2
    <3> QED
        BY <3>2, <3>3 DEF OnlyDismissedGoes
  <2> QED
      BY <2>1, <2>2
<1> QED
    BY <1>1, <1>2, <1>3
    DEF DraftsNext, Acquire, Leave, Duplicate, Deliver, Discard, DismissLost, Put, Dismiss

(***************************************************************************)
(* Neither a delayed request on the server nor a delayed answer in the     *)
(* page takes a draft newer than what was dismissed.                       *)
(***************************************************************************)
THEOREM NewestSurvives == DraftsSpec => NewestDraftKept
<1>1. DInv /\ [DraftsNext]_draftsVars => [KeptGoesForward /\ OnlyDismissedGoes]_draftsVars
    BY KeptForward, StoredForgets
<1> QED
    BY InitDInv, NextDInv, <1>1, PTL DEF DraftsSpec, NewestDraftKept
=============================================================================
