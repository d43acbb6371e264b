------------------------------ MODULE HlsSession ------------------------------
(***************************************************************************)
(* One video stage of the web client (useHlsSession): what it asked the    *)
(* server, which streaming session it holds, which it keeps warm, and what *)
(* it shows.  Decisions take their time: the file, the quality and the     *)
(* player's troubles move on while one is under way, and a session the     *)
(* server started must not be forgotten.  A React commit is taken to be    *)
(* one step with the call that asked for it; answers, timers and touches   *)
(* come at any later time.                                                 *)
(***************************************************************************)
EXTENDS Naturals, FiniteSets

CONSTANTS
    Video,          \* sources the stage may be given
    Direct,         \* those with a stream the browser can play as it is
    Rowless,        \* those without a row or path the server could decide about
    MaxReattach,    \* attempts a failing stream gets (MAX_REATTACH)
    MaxDecisions,   \* bound: decisions asked for
    NoVideo, NoSession,
    Native, Blank   \* what a stage shows that is no session: the direct stream, nothing

Decision == 1..MaxDecisions
Session == Decision     \* the session a decision started, by the decision's number

ASSUME HlsAssumption ==
    /\ Direct \subseteq Video /\ Rowless \subseteq Direct
    /\ MaxReattach \in Nat /\ MaxDecisions \in Nat
    /\ NoVideo \notin Video /\ Session \intersect {NoSession, Native, Blank} = {}
    /\ Native # Blank

VARIABLES
    video,       \* the source of the last effect that ran (lastSourceRef), or NoVideo
    enabled,     \* the source can be played
    decisions,       \* the source of each decision asked for so far
    current,     \* the decision whose answer is awaited, or 0
    reply,       \* what the server answered to each: "none", "direct", "session", "nothing"
    live,        \* the session held (liveSessionRef)
    warm,        \* the session whose playlist is touched (keepAliveUrl)
    method,      \* how the last answer delivers: "none", "direct" or "hls"
    shown,       \* what the player is fed: Blank, Native or a session
    status,      \* idle, deciding, ready, error or unavailable
    forced,      \* direct playback starved: HLS only (forceHlsRef)
    reattaches, reattaching,
    gone,        \* sessions the server has no more
    heard,       \* history: sessions whose answer reached the page
    released,    \* history: sessions it deleted, or that a touch found gone
    stranded     \* history: sessions it dropped and never asks the server to end

hlsVars == <<video, enabled, decisions, current, reply, live, warm, method, shown, status,
             forced, reattaches, reattaching, gone, heard, released, stranded>>
fileVars == <<method, forced, reattaches, reattaching>>

\* decisions are numbered in the order they were asked for
Latest == Cardinality(DOMAIN decisions)

HlsTypeOK ==
    /\ video \in Video \union {NoVideo} /\ enabled \in BOOLEAN
    /\ DOMAIN decisions = 1..Latest /\ \A d \in DOMAIN decisions : decisions[d].video \in Video
    /\ current \in {0, Latest}
    /\ reply \in [Decision -> {"none", "direct", "session", "nothing"}]
    /\ live \in Session \union {NoSession} /\ warm \in Session \union {NoSession}
    /\ method \in {"none", "direct", "hls"}
    /\ shown \in {Native, Blank} \union Session
    /\ status \in {"idle", "deciding", "ready", "error", "unavailable"}
    /\ status = "deciding" <=> current # 0
    /\ forced \in BOOLEAN /\ reattaching \in BOOLEAN /\ reattaches \in 0..MaxReattach
    /\ UNION {gone, heard, released, stranded} \subseteq Session

HlsInit ==
    /\ video = NoVideo /\ enabled = FALSE
    /\ decisions = <<>> /\ current = 0 /\ reply = [d \in Decision |-> "none"]
    /\ live = NoSession /\ warm = NoSession
    /\ method = "none" /\ shown = Blank /\ status = "idle"
    /\ forced = FALSE /\ reattaches = 0 /\ reattaching = FALSE
    /\ gone = {} /\ heard = {} /\ released = {} /\ stranded = {}

-----------------------------------------------------------------------------
(* The decision effect.  Whatever it does, the decision before is aborted. *)

Delete(S) == gone' = gone \union S /\ released' = released \union S

HeldSession == {live} \ {NoSession}

Teardown ==
    /\ live' = NoSession /\ warm' = NoSession
    /\ Delete(HeldSession)

AskServer(v, f) ==
    /\ Latest < MaxDecisions
    /\ decisions' = [d \in 1..(Latest + 1) |->
                    IF d \in DOMAIN decisions THEN decisions[d] ELSE [video |-> v, forced |-> f]]
    /\ current' = Latest + 1
    /\ status' = "deciding"

Fresh == method' = "none" /\ forced' = FALSE /\ reattaches' = 0 /\ reattaching' = FALSE

\* a source is opened: nothing of the one before is kept
Show(v) ==
    /\ v # video
    /\ video' = v /\ enabled' = TRUE
    /\ Fresh
    /\ Teardown
    /\ IF v \in Rowless
       THEN /\ shown' = Native /\ status' = "ready" /\ current' = 0
            /\ UNCHANGED decisions
       ELSE shown' = Blank /\ AskServer(v, FALSE)
    /\ UNCHANGED <<reply, heard, stranded>>

\* the file is no longer available, or the stage moves on to something that is no video
Disable ==
    /\ enabled
    /\ enabled' = FALSE
    /\ Teardown
    /\ shown' = Blank /\ status' = "idle" /\ current' = 0
    /\ UNCHANGED <<video, decisions, reply, fileVars, heard, stranded>>

Enable ==
    /\ video # NoVideo /\ ~enabled
    /\ enabled' = TRUE
    /\ IF video \in Rowless
       THEN /\ shown' = Native /\ status' = "ready" /\ current' = 0
            /\ Teardown
            /\ UNCHANGED decisions
       ELSE AskServer(video, forced) /\ UNCHANGED <<shown, live, warm, gone, released>>
    /\ UNCHANGED <<video, reply, fileVars, heard, stranded>>

\* the epoch is bumped: the same source is decided again
AskAgain(f) == enabled /\ video \notin Rowless /\ AskServer(video, f)

-----------------------------------------------------------------------------
(* The server.                                                             *)

Serve(d) ==
    /\ d \in DOMAIN decisions /\ reply[d] = "none"
    /\ \E a \in {"direct", "session", "nothing"} :
        /\ decisions[d].forced => a # "direct"
        /\ reply' = [reply EXCEPT ![d] = a]
    /\ UNCHANGED <<video, enabled, decisions, current, live, warm, shown, status, fileVars,
                   gone, heard, released, stranded>>

\* the idle reaper, a restart, or the beacon of a page that was hidden
Reap(s) ==
    /\ s \in DOMAIN decisions /\ reply[s] = "session" /\ s \notin gone
    /\ gone' = gone \union {s}
    /\ UNCHANGED <<video, enabled, decisions, current, reply, live, warm, shown, status, fileVars,
                   heard, released, stranded>>

-----------------------------------------------------------------------------
(* Answers.                                                                *)

Awaited(d) == d = current

\* Mutant of Replace: the session that is replaced is not deleted.
ReplaceOnly == UNCHANGED <<gone, released>>

Replace == Delete(HeldSession)

Touch(d) == warm' = d

\* a session: it is held, kept warm and shown, and the one it replaces is deleted
PlaySession(d) ==
    /\ Awaited(d) /\ reply[d] = "session"
    /\ live' = d /\ Touch(d) /\ shown' = d /\ method' = "hls" /\ status' = "ready"
    /\ current' = 0 /\ reattaching' = FALSE /\ heard' = heard \union {d}
    /\ Replace
    /\ UNCHANGED <<video, enabled, decisions, reply, forced, reattaches, stranded>>

\* direct, or no session for a source that plays directly
PlayDirect(d) ==
    /\ Awaited(d)
    /\ \/ reply[d] = "direct" /\ method' = "direct"
       \/ reply[d] = "nothing" /\ video \in Direct /\ ~forced /\ method' = "hls"
    /\ shown' = Native /\ status' = "ready"
    /\ live' = NoSession
    /\ current' = 0 /\ reattaching' = FALSE
    /\ Replace
    /\ UNCHANGED <<video, enabled, decisions, reply, warm, forced, reattaches, heard, stranded>>

Undeliverable(d) ==
    /\ Awaited(d) /\ reply[d] = "nothing"
    /\ video \notin Direct \/ forced
    /\ shown' = Blank /\ status' = "error" /\ method' = "hls"
    /\ live' = NoSession
    /\ current' = 0 /\ reattaching' = FALSE
    /\ Replace
    /\ UNCHANGED <<video, enabled, decisions, reply, warm, forced, reattaches, heard, stranded>>

\* direct, but nobody knows the address of a stream: what is shown stays
NoAddress(d) ==
    /\ Awaited(d) /\ reply[d] = "direct"
    /\ video \notin Direct
    /\ status' = "error" /\ method' = "direct"
    /\ live' = NoSession
    /\ current' = 0 /\ reattaching' = FALSE
    /\ Replace
    /\ UNCHANGED <<video, enabled, decisions, reply, warm, shown, forced, reattaches, heard, stranded>>

\* the answer of a decision nobody waits for any more: its session is reaped
Late(d) ==
    /\ d \in DOMAIN decisions /\ d # current /\ reply[d] = "session" /\ d \notin heard
    /\ heard' = heard \union {d}
    /\ Delete({d})
    /\ UNCHANGED <<video, enabled, decisions, current, reply, live, warm, shown, status, fileVars,
                   stranded>>

Degradable == video \in Direct /\ ~forced

\* Mutant of Settled: the attempt to re-attach is not over.
SettledNot == UNCHANGED reattaching

Settled == reattaching' = FALSE

\* the request fails: the direct stream takes over where there is one
Degrade ==
    /\ current # 0 /\ Degradable
    /\ Teardown
    /\ shown' = Native /\ status' = "ready"
    /\ current' = 0 /\ reattaching' = FALSE
    /\ UNCHANGED <<video, enabled, decisions, reply, method, forced, reattaches, heard, stranded>>

\* no answer in time, or the server cannot serve: the session that plays is dropped,
\* and the server is not asked to end it
Unreachable ==
    /\ current # 0 /\ ~Degradable
    /\ live' = NoSession
    /\ stranded' = stranded \union HeldSession
    /\ shown' = (IF forced THEN Blank ELSE shown)
    /\ status' = "unavailable"
    /\ current' = 0 /\ Settled
    /\ UNCHANGED <<video, enabled, decisions, reply, warm, method, forced, reattaches,
                   gone, heard, released>>

\* any other refusal: the session that plays is kept
Refuse ==
    /\ current # 0 /\ ~Degradable
    /\ shown' = (IF forced THEN Blank ELSE shown)
    /\ status' = "error"
    /\ current' = 0 /\ reattaching' = FALSE
    /\ UNCHANGED <<video, enabled, decisions, reply, live, warm, method, forced, reattaches,
                   gone, heard, released, stranded>>

-----------------------------------------------------------------------------
(* What the viewer and the player ask for.                                 *)

\* a quality or audio switch, or the retry of the card that says unavailable
SwitchStream ==
    /\ AskAgain(forced)
    /\ \/ UNCHANGED reattaching
       \/ reattaching' = FALSE
    /\ UNCHANGED <<video, enabled, reply, live, warm, method, shown, forced, reattaches,
                   gone, heard, released, stranded>>

\* an error of the stream: the session is taken to be gone, whether it is or not
Reattach ==
    /\ ~reattaching /\ live # NoSession /\ reattaches < MaxReattach
    /\ AskAgain(forced)
    /\ reattaches' = reattaches + 1 /\ reattaching' = TRUE
    /\ live' = NoSession
    /\ stranded' = stranded \union HeldSession
    /\ UNCHANGED <<video, enabled, reply, warm, method, shown, forced, gone, heard, released>>

\* playback went well past the point of the last attempt
NotePlaying ==
    /\ reattaches > 0 /\ reattaches' = 0
    /\ UNCHANGED <<video, enabled, decisions, current, reply, live, warm, method, shown, status,
                   forced, reattaching, gone, heard, released, stranded>>

\* a direct source that starves
FallbackToHls ==
    /\ ~forced /\ method = "direct"
    /\ AskAgain(TRUE)
    /\ forced' = TRUE
    /\ UNCHANGED <<video, enabled, reply, live, warm, method, shown, reattaches, reattaching,
                   gone, heard, released, stranded>>

\* a touch finds the session gone: there is nothing to delete, decide again
TouchGone ==
    /\ warm # NoSession /\ warm \in gone
    /\ AskAgain(forced)
    /\ live' = NoSession /\ warm' = NoSession
    /\ released' = released \union HeldSession
    /\ UNCHANGED <<video, enabled, reply, shown, fileVars, gone, heard, stranded>>

\* the stage is left
LeaveStage ==
    /\ video # NoVideo
    /\ Teardown
    /\ video' = NoVideo /\ enabled' = FALSE
    /\ Fresh
    /\ current' = 0 /\ shown' = Blank /\ status' = "idle"
    /\ UNCHANGED <<decisions, reply, heard, stranded>>

\* the desktop application is about to exit: a decision under way goes on
ExitTask ==
    /\ live # NoSession
    /\ Teardown
    /\ UNCHANGED <<video, enabled, decisions, current, reply, shown, status, fileVars, heard, stranded>>

HlsNext ==
    \/ \E v \in Video : Show(v)
    \/ Disable \/ Enable
    \/ \E d \in Decision : Serve(d) \/ Reap(d) \/ PlaySession(d) \/ PlayDirect(d)
                         \/ Undeliverable(d) \/ NoAddress(d) \/ Late(d)
    \/ Degrade \/ Unreachable \/ Refuse
    \/ SwitchStream \/ Reattach \/ NotePlaying \/ FallbackToHls \/ TouchGone \/ LeaveStage \/ ExitTask

HlsSpec == HlsInit /\ [][HlsNext]_hlsVars

-----------------------------------------------------------------------------
(***************************************************************************)
(* What is held and shown is of the source on stage, whatever was asked    *)
(* before it: "this also reaps a session the server started for a request  *)
(* the client already abandoned".                                          *)
(***************************************************************************)
NothingStale ==
    \A s \in ({live, shown} \intersect Session) : decisions[s].video = video

(***************************************************************************)
(* A session whose answer reached the page is held, was deleted, or was    *)
(* found gone: no switch, degradation, late answer or step to another file *)
(* forgets one.  Excepted are those the page drops while the server may    *)
(* still run them: when a decision times out or the server cannot serve    *)
(* it, and when an error of the stream is taken for the end of its session *)
(* (NothingStranded says what would hold without the two).                 *)
(***************************************************************************)
SessionsAccounted == heard \subseteq released \union stranded \union {live}

(***************************************************************************)
(* The session that is held is the one that is kept warm: a paused video   *)
(* fetches nothing and would be reaped (SESSION_KEEPALIVE_MS).             *)
(***************************************************************************)
HeldIsWarm == live # NoSession => warm = live

(***************************************************************************)
(* The page has its stream sessions in hand: what is held is of the source *)
(* on show and is kept warm, and what is not held was deleted or found     *)
(* gone, or dropped as SessionsAccounted excepts (useHlsSession's sequence *)
(* guard, release and keep-alive).                                         *)
(***************************************************************************)
SessionsInHand == NothingStale /\ SessionsAccounted /\ HeldIsWarm

(***************************************************************************)
(* Stream errors are swallowed only while a fresh decision is on its way.  *)
(* Were reattaching left set, every later error would be taken for part of *)
(* a burst and the frame would stay dead (reattach).                       *)
(***************************************************************************)
ReattachEnds == reattaching /\ enabled => current # 0

(***************************************************************************)
(* A source that starved when played directly is not played directly       *)
(* again, whether the forced decision is answered or fails (fallbackToHls).*)
(***************************************************************************)
StarvedStaysHls == forced /\ status \in {"ready", "error", "unavailable"} => shown # Native

(***************************************************************************)
(* A stream that broke recovers: a reattachment ends with its decision,    *)
(* and what starved is not tried again the same way (reattach,             *)
(* fallbackToHls).                                                         *)
(***************************************************************************)
StreamRecovers == ReattachEnds /\ StarvedStaysHls

(***************************************************************************)
(* Not so of this code: "The live session's playlist URL, or null when     *)
(* nothing needs keeping warm" (keepAliveUrl). A switch to the direct      *)
(* stream, or a failure, leaves the address of a session that was let go.  *)
(***************************************************************************)
WarmIsHeld == warm # NoSession => live = warm \/ reattaching

(***************************************************************************)
(* Not so of this code: "A non-degradable file keeps its live session      *)
(* tracked (torn down on close/switch/idle) rather than orphaning a        *)
(* working stream on a transient blip" (useHlsSession, where the decision  *)
(* is caught). A decision that times out, or that the server answers with  *)
(* a 5xx, drops the session without ending it; so does an error of the     *)
(* stream, which need not mean that the session is gone.                   *)
(***************************************************************************)
NothingStranded == stranded \subseteq gone
=============================================================================
