-------------------------- MODULE MCWebClient_proofs --------------------------
(***************************************************************************)
(* What is checked of the parts of the web client when one of them moves   *)
(* and the others rest is what is proved of each of them on its own.       *)
(***************************************************************************)
EXTENDS MCWebClient, CatalogJobs_proofs, WebClient_proofs

(***************************************************************************)
(* A step of the client is a step of the part it is about, and leaves the  *)
(* others as they are.                                                     *)
(***************************************************************************)
LEMMA PartsMoveAlone ==
    ASSUME [ClientNext]_clientVars
    PROVE  /\ [InspectorNext]_inspectorVars /\ [DraftsNext]_draftsVars /\ [EditsNext]_editsVars
           /\ [ConnNext]_connVars /\ [HlsNext]_hlsVars /\ [PlayerNext]_playerVars
           /\ [GroupNext]_groupVars
<1>1. CASE UNCHANGED clientVars
    BY <1>1 DEF clientVars
<1>2. CASE InspectorPart
    BY <1>2 DEF InspectorPart
<1>3. CASE DraftsPart
    BY <1>3 DEF DraftsPart
<1>4. CASE EditsPart
    BY <1>4 DEF EditsPart
<1>5. CASE ConnectionsPart
    BY <1>5 DEF ConnectionsPart
<1>6. CASE SessionPart
    BY <1>6 DEF SessionPart
<1>7. CASE PlayerPart
    BY <1>7 DEF PlayerPart
<1>8. CASE GroupingPart
    BY <1>8 DEF GroupingPart
<1> QED
    BY <1>1, <1>2, <1>3, <1>4, <1>5, <1>6, <1>7, <1>8 DEF ClientNext

(***************************************************************************)
(* The client behaves as the specification of every one of its parts asks. *)
(***************************************************************************)
THEOREM ClientImplementsParts ==
    ClientSpec => /\ InspectorSpec /\ DraftsSpec /\ EditsSpec /\ ConnSpec /\ HlsSpec /\ PlayerSpec
                  /\ GroupSpec
<1>1. ClientInit => /\ InspectorInit /\ DraftsInit /\ EditsInit /\ ConnInit /\ HlsInit /\ PlayerInit
                    /\ GroupInit
    BY DEF ClientInit
<1>2. [ClientNext]_clientVars =>
          /\ [InspectorNext]_inspectorVars /\ [DraftsNext]_draftsVars /\ [EditsNext]_editsVars
          /\ [ConnNext]_connVars /\ [HlsNext]_hlsVars /\ [PlayerNext]_playerVars
          /\ [GroupNext]_groupVars
    BY PartsMoveAlone
<1> QED
    BY <1>1, <1>2, PTL
       DEF ClientSpec, InspectorSpec, DraftsSpec, EditsSpec, ConnSpec, HlsSpec, PlayerSpec, GroupSpec

-----------------------------------------------------------------------------
(* Forms                                                                   *)

PartChosen ==
    part \in {"inspector", "drafts", "edits", "connections", "session", "player", "grouping"}

LEMMA PartStaysChosen == ClientSpec => []PartChosen
<1>1. ClientInit => PartChosen
    BY DEF ClientInit, PartChosen
<1>2. PartChosen /\ [ClientNext]_clientVars => PartChosen'
    BY DEF PartChosen, ClientNext, clientVars
<1> QED
    BY <1>1, <1>2, PTL DEF ClientSpec

LEMMA EditsKeepForm == EditsInv => EditsTypeOK
BY DEF EditsInv, EditsForms

LEMMA ConnectionsKeepForm == ConnInv => ConnTypeOK
BY DEF ConnInv

LEMMA SessionKeepsForm == HlsInv => HlsTypeOK
<1> SUFFICES ASSUME HlsInv
             PROVE  HlsTypeOK
    OBVIOUS
<1>1. /\ DOMAIN decisions = 1..Latest /\ \A d \in DOMAIN decisions : decisions[d].video \in Video
      /\ reply \in [Decision -> {"none", "direct", "session", "nothing"}]
    BY DEF HlsInv, DecisionsSound
<1>2. /\ video \in Video \union {NoVideo} /\ enabled \in BOOLEAN /\ forced \in BOOLEAN
      /\ current \in {0, Latest} /\ status \in {"idle", "deciding", "ready", "error", "unavailable"}
      /\ status = "deciding" <=> current # 0
    BY DEF HlsInv, AwaitedSound
<1>3. /\ live \in Session \union {NoSession} /\ warm \in Session \union {NoSession}
      /\ shown \in {Native, Blank} \union Session /\ UNION {gone, heard, released, stranded} \subseteq Session
    BY DEF HlsInv, HeldSound
<1>4. method \in {"none", "direct", "hls"} /\ reattaching \in BOOLEAN /\ reattaches \in 0..MaxReattach
    BY DEF HlsInv, StreamSound
<1> QED
    BY <1>1, <1>2, <1>3, <1>4 DEF HlsTypeOK

\* one attempt at most is the latest, and it is the player's own
LEMMA PlayerKeepsForm == PlayerInv => PlayerTypeOK
<1> SUFFICES ASSUME PlayerInv
             PROVE  PlayerTypeOK
    OBVIOUS
<1> DEFINE latest == {a \in attempts : a.fresh}
           mine == [fresh |-> TRUE, own |-> TRUE]
<1>1. attempts \subseteq PlayAttempt /\ \A a \in attempts : a.fresh => a.own
    BY DEF PlayerInv, PlayerTypes, LatestIsOwn
<1>2. latest \subseteq {mine}
  <2>1. ASSUME NEW a \in PlayAttempt, a.fresh, a.own
        PROVE  a = mine
      BY <2>1 DEF PlayAttempt
  <2> QED
      BY <1>1, <2>1
<1>3. IsFiniteSet({mine}) /\ Cardinality({mine}) = 1
    BY FS_Singleton
<1>4. Cardinality(latest) \in Nat /\ Cardinality(latest) <= 1
  <2> HIDE DEF latest, mine
  <2> QED
      BY <1>2, <1>3, FS_Subset, FS_CardinalityType
<1>5. /\ startAt \in Waiting /\ captured \in Waiting /\ due \in Waiting \union {Playhead, Undecided}
      /\ resume \in Place /\ position \in Place
      /\ {open, attached, answered, ready, running, intent, wanted, refused, opening, adrift}
         \subseteq BOOLEAN
      /\ {queued, pending, asked} \subseteq Waiting /\ place \in Place
      /\ ready => attached /\ queued = NoPlace
      /\ attached \/ due # Undecided => open
    BY DEF PlayerInv, PlayerTypes
<1>6. attempts \subseteq [fresh : BOOLEAN, own : BOOLEAN]
    BY <1>1 DEF PlayAttempt
<1> QED
    BY <1>4, <1>5, <1>6 DEF PlayerTypeOK

(***************************************************************************)
(* For any numbers of pages, tabs, servers, sources, media and requests:   *)
(* the state of the part that moves keeps its form, whatever is refused,   *)
(* lost or interrupted (each part's own type invariant).                   *)
(***************************************************************************)
THEOREM ClientKeepsItsForm == ClientSpec => []ClientTypeOK
<1>1. ClientSpec => []PartChosen
    BY PartStaysChosen
<1>2. ClientSpec => []InspectorTypeOK
    BY ClientImplementsParts, EditorKeepsItsForm
<1>3. ClientSpec => []DraftsTypeOK
  <2>1. DraftsTypeOK /\ OneWriter => DraftsTypeOK
      OBVIOUS
  <2> QED
      BY <2>1, ClientImplementsParts, PrivateDraftsSafety, PTL
<1>4. ClientSpec => []EditsTypeOK
    BY ClientImplementsParts, EditsInvariant, EditsKeepForm, PTL
<1>5. ClientSpec => []ConnTypeOK
    BY ClientImplementsParts, ConnInvHolds, ConnectionsKeepForm, PTL
<1>6. ClientSpec => []HlsTypeOK
    BY ClientImplementsParts, HlsInvHolds, SessionKeepsForm, PTL
<1>7. ClientSpec => []PlayerTypeOK
    BY ClientImplementsParts, PlayerInvHolds, PlayerKeepsForm, PTL
<1>8. ClientSpec => []GroupTypeOK
    BY ClientImplementsParts, GroupKeepsItsForm, PTL
<1>9. /\ PartChosen /\ InspectorTypeOK /\ DraftsTypeOK /\ EditsTypeOK /\ ConnTypeOK /\ HlsTypeOK
      /\ PlayerTypeOK /\ GroupTypeOK
      => ClientTypeOK
    BY DEF PartChosen, ClientTypeOK
<1> QED
    BY <1>1, <1>2, <1>3, <1>4, <1>5, <1>6, <1>7, <1>8, <1>9, PTL

-----------------------------------------------------------------------------
(* What the run checks of the client                                       *)

(***************************************************************************)
(* For any numbers of them: at every moment, saves are known, dismissed    *)
(* drafts gone and drafts written by one tab, edits and grouping drafts    *)
(* settle, one server is on show, stream sessions are in hand and recover, *)
(* and the player does what was last asked of it, where it was asked.      *)
(***************************************************************************)
THEOREM ClientIsSafe ==
    ClientSpec => [](/\ SavesAreKnown /\ DismissedStays /\ OneWriter /\ EditsSettle /\ OneServer
                     /\ SessionsInHand /\ StreamRecovers /\ IntentIsLastCommand /\ SeeksLand
                     /\ DraftSettles)
<1>1. ClientSpec => []OneWriter
  <2>1. DraftsTypeOK /\ OneWriter => OneWriter
      OBVIOUS
  <2> QED
      BY <2>1, ClientImplementsParts, PrivateDraftsSafety, PTL
<1> QED
    BY <1>1, ClientImplementsParts, EditorKnowsItsSaves, DismissedStaysGone, EditsComeToOneEnd, OneServerShown,
       SessionsStayInHand, StreamsRecover, PlayerObeys, PlayerKeepsPlace, DraftsSettle, PTL

(***************************************************************************)
(* For any numbers of them, no step loses what was typed or the newest     *)
(* draft, replaces what its owner was not shown, forgets a connection,     *)
(* applies a grouping edit to another draft, or gives one up unended.      *)
(***************************************************************************)
THEOREM ClientStepsAreSafe ==
    ClientSpec => /\ InputKept /\ NewestDraftKept /\ OverwriteReviewed /\ ConnectionsKept
                  /\ AppliedAsShown /\ EditRetained
BY ClientImplementsParts, TypedInputIsKept, NewestSurvives, EditsReplaceWhatWasShown, ConnectionsStayKept,
   EditsApplyAsShown, EditsStayRetained
=============================================================================
