-------------------------------- MODULE Player --------------------------------
(***************************************************************************)
(* The player of the web client (usePlayer) over the media element it      *)
(* drives.  The viewer's commands outlive the transport that carries them: *)
(* the stream is replaced or taken away under them, attempts to play are   *)
(* answered late or refused, and seeks arrive before there is anything to  *)
(* seek in.  Of the decision that yields a transport (HlsSession) it       *)
(* matters here where the transport is to begin.                           *)
(***************************************************************************)
EXTENDS Naturals, FiniteSets

CONSTANTS
    Place,          \* positions of a medium, 0..n
    NoPlace,
    Playhead,       \* a decision under way takes the place when it is answered
    Undecided       \* there is none under way

ASSUME PlayerAssumption ==
    /\ Place \in SUBSET Nat /\ 0 \in Place
    /\ Place \intersect {NoPlace, Playhead, Undecided} = {}
    /\ NoPlace # Playhead /\ Undecided \notin {NoPlace, Playhead}

VARIABLES
    open,               \* a medium was opened
    attached,           \* the element has a transport of it (engineRef)
    startAt,            \* where that transport is to begin once it is ready, or NoPlace
    captured,           \* startAtRef: where the next is to begin; not read after an answer
    answered,           \* a decision about this medium was answered (methodRef is set)
    due,                \* the place of the decision under way: fixed, Playhead or Undecided
    resume,             \* the saved position of the medium, 0 for none
    ready,              \* the element knows the duration
    position,           \* its currentTime
    running,            \* it is not paused
    intent,             \* intentRef
    attempts,           \* outstanding calls of play(): [fresh, own]
    queued,             \* queuedSeek: waits for the duration
    pending,            \* pendingSeek: the throttle's trailing value
    wanted,             \* history: the viewer's last command is to play
    refused,            \* history: the browser refused that command
    place,              \* history: where the viewer is
    asked,              \* history: the last seek, until the element has done it
    opening,            \* history: nothing was decided but what the medium opened with
    adrift              \* history: a transport was given a place that was not the viewer's

playerVars == <<open, attached, startAt, captured, answered, due, resume, ready,
                position, running, intent, attempts, queued, pending, wanted, refused, place,
                asked, opening, adrift>>
commandVars == <<intent, wanted, refused>>
seekVars == <<queued, pending, place, asked>>
decideVars == <<captured, answered, due, opening>>
sourceVars == <<open, attached, startAt, decideVars, resume, adrift>>

Waiting == Place \union {NoPlace}

PlayerTypeOK ==
    /\ startAt \in Waiting /\ captured \in Waiting /\ due \in Waiting \union {Playhead, Undecided}
    /\ resume \in Place /\ position \in Place
    /\ {open, attached, answered, ready, running, intent, wanted, refused, opening, adrift} \subseteq BOOLEAN
    /\ attempts \subseteq [fresh : BOOLEAN, own : BOOLEAN]
    /\ {queued, pending, asked} \subseteq Waiting /\ place \in Place
    /\ Cardinality({a \in attempts : a.fresh}) <= 1
    /\ ready => attached /\ queued = NoPlace
    /\ attached \/ due # Undecided => open

PlayerInit ==
    /\ open = FALSE /\ attached = FALSE /\ startAt = NoPlace /\ resume = 0
    /\ captured = NoPlace /\ answered = FALSE /\ due = Undecided /\ opening = TRUE
    /\ ready = FALSE /\ position = 0 /\ running = FALSE
    /\ intent = TRUE /\ wanted = TRUE /\ refused = FALSE
    /\ attempts = {}
    /\ queued = NoPlace /\ pending = NoPlace /\ asked = NoPlace /\ place = 0
    /\ adrift = FALSE

-----------------------------------------------------------------------------
(* Attempts to play.  Each one gets a number, and only the latest of the   *)
(* engine that is attached may take the intent back.                       *)

\* the attempts there are, none of them the latest any more
Overtaken == {[a EXCEPT !.fresh = FALSE] : a \in attempts}

\* and none of them of the latest command
Disowned == {[fresh |-> FALSE, own |-> FALSE] : a \in attempts}

RequestPlay(others) ==
    /\ attempts' = others \union {[fresh |-> TRUE, own |-> TRUE]}
    /\ running' = TRUE

\* Mutant of Counts: whichever attempt is refused, the viewer wants no playback.
CountsAny(a) == intent

Counts(a) == a.fresh /\ intent

PlaySettles(a) ==
    /\ a \in attempts
    /\ attempts' = attempts \ {a}
    /\ UNCHANGED <<sourceVars, ready, position, running, commandVars, seekVars>>

\* refused: autoplay needs a gesture, or the source cannot be played
PlayRefused(a) ==
    /\ a \in attempts
    /\ attempts' = attempts \ {a}
    /\ intent' = (intent /\ ~Counts(a))
    /\ refused' = (refused \/ a.own)
    /\ running' = (running /\ ~Counts(a))
    /\ UNCHANGED <<sourceVars, ready, position, wanted, seekVars>>

\* interrupted by a seek or a load: the intent stays, the element is paused
PlayAborted(a) ==
    /\ a \in attempts
    /\ attempts' = attempts \ {a}
    /\ running' \in (IF a.fresh THEN {FALSE} ELSE {running})
    /\ UNCHANGED <<sourceVars, ready, position, commandVars, seekVars>>

-----------------------------------------------------------------------------
(* Media and transports.                                                   *)

\* what every new source resets
Reset ==
    /\ ready' = FALSE
    /\ position' = 0
    /\ pending' = NoPlace

\* another item is selected: its transport is still to be decided
Open ==
    /\ open' = TRUE /\ attached' = FALSE /\ startAt' = NoPlace
    /\ resume' \in Place
    /\ captured' \in {NoPlace, resume'} /\ due' = captured' /\ answered' = FALSE /\ opening' = TRUE
    /\ place' = resume'
    /\ Reset /\ running' = FALSE
    /\ intent' = TRUE /\ wanted' = TRUE /\ refused' = FALSE
    /\ attempts' = Disowned
    /\ queued' = NoPlace /\ asked' = NoPlace
    /\ adrift' = FALSE

\* the transport is decided again: asked for by the viewer or by an error (from where the
\* element is), or because something else about the source changed (from where it was).
\* Once a decision was answered, the place is taken when this one is
Decide(p) ==
    /\ open
    /\ captured' = (IF answered THEN NoPlace ELSE p)
    /\ due' = (IF answered THEN Playhead ELSE p)
    /\ opening' = FALSE
    /\ UNCHANGED <<open, attached, startAt, answered, resume, adrift, ready, position,
                   running, attempts, commandVars, seekVars>>

\* Mutant of Carried: a new transport starts with nothing on its mind.
CarriedNot == queued' = NoPlace

\* only another medium makes a waiting seek pointless
Carried == UNCHANGED queued

\* the element is emptied: a step of a held arrow key goes with what it was made on
Emptied ==
    /\ Reset
    /\ asked' = (IF pending = asked THEN NoPlace ELSE asked)
    /\ Carried

\* the decision under way is over; it may fail and tell nothing about the medium
DecisionEnds ==
    /\ due' = Undecided
    /\ answered' \in {answered, answered \/ due # Undecided}
    /\ captured' = (IF answered' THEN NoPlace ELSE captured)

\* the decision takes a place the viewer need not be at: one captured before the element
\* went on, or what an element reads that is not ready, 0
Adrift == IF ready THEN due \notin {Playhead, position} ELSE ~opening

\* the decision is answered, or failed over to the direct stream
Attach ==
    /\ due # Undecided
    /\ attached' = TRUE
    /\ startAt' = (IF due = Playhead THEN position ELSE due)
    /\ DecisionEnds
    /\ adrift' = (adrift \/ (queued = NoPlace /\ Adrift))
    /\ Emptied
    /\ IF intent THEN RequestPlay(Disowned) ELSE attempts' = Disowned /\ running' = FALSE
    /\ UNCHANGED <<open, opening, resume, commandVars, place>>

\* the decision ends without a transport: what the element has stays
NoTransport ==
    /\ due # Undecided
    /\ DecisionEnds
    /\ UNCHANGED <<open, attached, startAt, opening, resume, adrift, ready,
                   position, running, attempts, commandVars, seekVars>>

\* or the element loses what it has, with the decision or when the stage is disabled
Detach ==
    /\ attached
    /\ attached' = FALSE /\ startAt' = NoPlace
    /\ DecisionEnds
    /\ Emptied
    /\ running' = FALSE /\ attempts' = Disowned
    /\ UNCHANGED <<open, opening, resume, adrift, commandVars, place>>

\* where the viewer does not say, the source does, and else the saved progress
Beginning == IF startAt # NoPlace THEN startAt ELSE resume

Entry == IF queued # NoPlace THEN queued ELSE Beginning

\* Mutant of Spent: the seek that waited is done again later.
SpentNot == UNCHANGED queued

Spent == queued' = NoPlace

\* the metadata is there; the place to begin at is read once
Loaded ==
    /\ attached /\ ~ready
    /\ ready' = TRUE
    /\ position' = Entry /\ startAt' = NoPlace
    /\ Spent
    /\ asked' = (IF queued # NoPlace /\ asked = queued THEN NoPlace ELSE asked)
    /\ UNCHANGED <<open, attached, decideVars, resume, adrift, running, attempts, commandVars,
                   pending, place>>

-----------------------------------------------------------------------------
(* The viewer.                                                             *)

Play ==
    /\ open
    /\ intent' = TRUE /\ wanted' = TRUE /\ refused' = FALSE
    /\ IF attached THEN RequestPlay(Disowned) ELSE attempts' = Disowned /\ UNCHANGED running
    /\ UNCHANGED <<sourceVars, ready, position, seekVars>>

Pause ==
    /\ open
    /\ intent' = FALSE /\ wanted' = FALSE /\ refused' = FALSE
    /\ attempts' = Disowned
    /\ running' = FALSE
    /\ UNCHANGED <<sourceVars, ready, position, seekVars>>

\* a seek reaches the element, or waits until there is something to seek in
Commit(p) ==
    /\ pending' = NoPlace
    /\ IF ready
       THEN position' = p /\ asked' = NoPlace /\ UNCHANGED queued
       ELSE queued' = p /\ asked' = p /\ UNCHANGED position
    /\ place' = p

Seek(p) ==
    /\ open
    /\ Commit(p)
    /\ UNCHANGED <<sourceVars, ready, running, attempts, commandVars>>

\* an arrow key held down: the first step goes through, the rest wait for the throttle
SeekBy(back) ==
    LET from == IF pending # NoPlace THEN pending ELSE IF queued # NoPlace THEN queued ELSE position
        p == IF back THEN from - 1 ELSE from + 1
    IN  /\ open /\ p \in Place
        /\ \/ Commit(p)
           \/ pending' = p /\ asked' = p /\ UNCHANGED <<position, queued, place>>
        /\ UNCHANGED <<sourceVars, ready, running, attempts, commandVars>>

Trail ==
    /\ pending # NoPlace
    /\ Commit(pending)
    /\ UNCHANGED <<sourceVars, ready, running, attempts, commandVars>>

-----------------------------------------------------------------------------
(* The element.                                                            *)

Ticks ==
    /\ ready /\ running /\ position + 1 \in Place
    /\ position' = position + 1 /\ place' = position'
    /\ adrift' = FALSE
    /\ UNCHANGED <<open, attached, startAt, decideVars, resume, ready, running, attempts, commandVars,
                   queued, pending, asked>>

\* playback was stopped or started by something that is not this player
Interfere ==
    /\ attached
    /\ running' = ~running
    /\ UNCHANGED <<sourceVars, ready, position, attempts, commandVars, seekVars>>

\* canplay, seeked, play: the element is made to do what the viewer wants
Comply ==
    /\ attached /\ running # intent
    /\ IF intent THEN ready /\ RequestPlay(Overtaken) ELSE running' = FALSE /\ UNCHANGED attempts
    /\ UNCHANGED <<sourceVars, ready, position, commandVars, seekVars>>

Ended ==
    /\ ready /\ running /\ position + 1 \notin Place
    /\ intent' = FALSE /\ wanted' = FALSE /\ refused' = FALSE
    /\ running' = FALSE
    /\ UNCHANGED <<sourceVars, ready, position, attempts, seekVars>>

PlayerNext ==
    \/ Open \/ Attach \/ NoTransport \/ Detach \/ Loaded \/ Play \/ Pause
    \/ \E p \in {captured, position} : Decide(p)
    \/ \E p \in Place : Seek(p)
    \/ \E back \in BOOLEAN : SeekBy(back)
    \/ Trail \/ Ticks \/ Interfere \/ Comply \/ Ended
    \/ \E a \in attempts : PlaySettles(a) \/ PlayRefused(a) \/ PlayAborted(a)

PlayerSpec == PlayerInit /\ [][PlayerNext]_playerVars

-----------------------------------------------------------------------------
(***************************************************************************)
(* The player wants what the viewer last asked for, unless that very       *)
(* command was refused: the refusal of an earlier one, or of a transport   *)
(* that was replaced, changes nothing ("Only the current engine and latest *)
(* command may settle an asynchronous play attempt").                      *)
(***************************************************************************)
IntentIsLastCommand == intent # wanted => refused

(***************************************************************************)
(* A seek is done, or it waits: the transport may be replaced and loaded   *)
(* in between.  (A trailing step of a held arrow key goes with the         *)
(* transport it was made on.)                                              *)
(***************************************************************************)
SeeksWait == asked # NoPlace => asked \in {queued, pending}

(***************************************************************************)
(* A transport that replaces another picks up where the viewer is, even at *)
(* the very beginning of a medium with saved progress ("the new stream     *)
(* must pick up at the live playhead"), and the first where the medium was *)
(* opened.  Excepted, until the element plays on, is a transport that was  *)
(* decided while the element was not ready, or had been emptied, and reads *)
(* 0 (usePlayer.ts:145), and one whose place was captured when it was      *)
(* asked for, before any decision was answered, if the element went on in  *)
(* between (useHlsSession.ts:287-292).                                     *)
(***************************************************************************)
PlaceKept == ready /\ ~adrift => position = place

(***************************************************************************)
(* The viewer's place is kept over the replacement of a transport: a seek  *)
(* made on the old one lands on the new one, which else starts where the   *)
(* old one stood (usePlayer's carried seek and resume position).           *)
(***************************************************************************)
SeeksLand == SeeksWait /\ PlaceKept

(***************************************************************************)
(* Not so of this code: "the new stream must pick up at the live playhead" *)
(* without the exceptions of PlaceKept. The retry of a medium that could   *)
(* not be decided about starts at 0 and not at the saved progress; so does *)
(* a stream after one that was taken away.                                 *)
(***************************************************************************)
AlwaysAtPlayhead == ready => position = place
=============================================================================
