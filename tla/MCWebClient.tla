----------------------------- MODULE MCWebClient -----------------------------
(***************************************************************************)
(* Small instances of the parts of the web client, each on its own: which  *)
(* part a behaviour is about is chosen at the start, and the others rest   *)
(* in their initial states.                                                *)
(***************************************************************************)
EXTENDS InspectorDraft, PrivateDrafts, MetadataEdits, Connections, HlsSession, Player,
        GroupingReview, TLC

VARIABLE part

clientVars == <<part, inspectorVars, draftsVars, editsVars, connVars, hlsVars, playerVars,
                groupVars>>

ClientInit ==
    /\ part \in {"inspector", "drafts", "edits", "connections", "session", "player", "grouping"}
    /\ InspectorInit /\ DraftsInit /\ EditsInit /\ ConnInit /\ HlsInit /\ PlayerInit
    /\ GroupInit

InspectorPart ==
    /\ part = "inspector" /\ InspectorNext
    /\ UNCHANGED <<draftsVars, editsVars, connVars, hlsVars, playerVars, groupVars>>

DraftsPart ==
    /\ part = "drafts" /\ DraftsNext
    /\ UNCHANGED <<inspectorVars, editsVars, connVars, hlsVars, playerVars, groupVars>>

EditsPart ==
    /\ part = "edits" /\ EditsNext
    /\ UNCHANGED <<inspectorVars, draftsVars, connVars, hlsVars, playerVars, groupVars>>

ConnectionsPart ==
    /\ part = "connections" /\ ConnNext
    /\ UNCHANGED <<inspectorVars, draftsVars, editsVars, hlsVars, playerVars, groupVars>>

SessionPart ==
    /\ part = "session" /\ HlsNext
    /\ UNCHANGED <<inspectorVars, draftsVars, editsVars, connVars, playerVars, groupVars>>

PlayerPart ==
    /\ part = "player" /\ PlayerNext
    /\ UNCHANGED <<inspectorVars, draftsVars, editsVars, connVars, hlsVars, groupVars>>

GroupingPart ==
    /\ part = "grouping" /\ GroupNext
    /\ UNCHANGED <<inspectorVars, draftsVars, editsVars, connVars, hlsVars, playerVars>>

ClientNext ==
    /\ \/ InspectorPart \/ DraftsPart \/ EditsPart \/ ConnectionsPart \/ SessionPart \/ PlayerPart
       \/ GroupingPart
    /\ UNCHANGED part

ClientSpec == ClientInit /\ [][ClientNext]_clientVars

(***************************************************************************)
(* The parts' state keeps its form, whatever was refused or interrupted    *)
(* (each part's own type invariant).                                       *)
(***************************************************************************)
ClientTypeOK ==
    CASE part = "inspector" -> InspectorTypeOK
      [] part = "drafts" -> DraftsTypeOK
      [] part = "edits" -> EditsTypeOK
      [] part = "connections" -> ConnTypeOK
      [] part = "session" -> HlsTypeOK
      [] part = "player" -> PlayerTypeOK
      [] part = "grouping" -> GroupTypeOK

\* no metadata unit of the inspector is named by the model
Units == Permutations(Unit)
=============================================================================
