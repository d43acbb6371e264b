# Cairndex: a TLA+ verification development

Cairndex keeps a media library in a folder. In the current *portable* format the
folder may be copied between computers by a sync provider; every computer has a
private SQLite store, catalog edits are immutable events that travel through the
folder, and files in the folder are changed through a journal of source
operations. The web client, in a browser or the desktop shell, edits the catalog
through drafts and durable jobs, and plays media over streaming sessions. This
directory models the parts in which that can go wrong, checks them with TLC on
small instances, and proves with TLAPS, for every instance, the safety properties
those runs check.

Paths below are relative to `apps/server/src/cairndex/`, unless they start with
`docs/` or `apps/`; those of the web client are relative to `apps/web/src/`.

## 1. The system

| Component | State | Operations | Talks to |
| --- | --- | --- | --- |
| **Catalog exchange** `replicas/transport.py`, `replicas/catalog/storage.py` | `events` (with `local`, `published`), `inbox`, `catalog_parts`, the folder's `objects/`, a repair cursor | `save_in` (author), `ingest`, `import_batch`/`accept`, `publish`, the receipt, the repair rotation | the sync provider (through the folder), catalog storage (in the accepting transaction) |
| **Catalog storage** `replicas/catalog/store.py`, `constraints.py`, `commands.py` | `catalog_revisions`, `catalog_frontier`, `catalog_parents`, `catalog_cohorts`, `catalog_holds`, the projected `catalog_units` | `apply_edit`, `scope`, `entity_in`, `Preview.choose`/`receipt` | called by `accept` for local and remote events alike |
| **Catalog jobs** `replicas/catalog/jobs.py` | `catalog_jobs` | `enqueue`, `cancel`, `run_one` | HTTP handlers write rows, the exchange worker runs them, restart requeues them |
| **Source operations** `replicas/source_*.py` | `source_operations` (state, phase, review, result), one artifact directory per operation, the library's files | `enqueue`, `accept`, `cancel`, `retry`, `run_one` (prepare; stage, capture, publish, commit) | the library folder, which other programs write to; the catalog, in its last transaction |
| **Registry job queue** `registry/jobs.py`, `jobs/worker.py` | `jobs` rows, one worker thread | submit, cancel, claim, checkpoint, yield, finish, reconcile | libraries of the older format; the lease heartbeat cancels |
| **Grouping review** `replicas/grouping/`, client `app/grouping/` | one draft with a revision, its commands, the review it awaits; per dialog the status, tree and pending edit | edit, prepare, cancel, accept, retire, resume | discovery reviews, the list of saved reviews, recovery |
| **Bundle inspector** client `app/useCatalogBundleDraft.ts` | inputs, the revisions each replaces, the pending request, the last acknowledgement | type, save, retry, discard, recover a retained draft | catalog jobs, private drafts |
| **Private drafts** client `app/useCatalogDraft.ts`, `api/replicas.ts`; `drafts`, `draft_receipts` of `replicas/catalog/store.py` | editor ids and browser locks, the draft in memory, browser storage and on the server | type, deliver, dismiss, duplicate a tab | other tabs, the server |
| **Metadata edits of older libraries** client `api/metadataEdits.ts`, `metadata/session.py` | edits retained in memory and browser storage; receipts and field revisions | send, review a conflict, retry, discard, leave the library | the server of the library |
| **Desktop connections** client `desktop/connections.ts` | saved servers, the selected one, the shell's transport, the page's address | add, activate, cancel, restore, launch | the shell's store and relay |
| **Playback** client `viewer/player/useHlsSession.ts`, `usePlayer.ts` | the decision awaited, the session held, what is shown; intent, seeks and place | decide, switch, reattach, fall back; play, pause, seek | the server's playback sessions, the video element |
| **Replica service** `replicas/service.py`, `replicas/store.py` | open handles, one exchange lock per library, pending source work | open, close, `exchange`, `ReplicaWorker` | runs all of the above, under lifecycle admission |
| **Library lifecycle** `ownership/lifecycle.py` | work counts and blocked libraries | `work`, release | every worker and handler |
| **Discovery / update review** `replicas/discovery_*.py` | runs, entries, proposals, choices | walk, propose, choose, commit in batches | source files, catalog jobs |
| **Recovery** `replicas/recovery*.py` | archives, generations, recovered authors | archive, restore, activate | replaces a private store under open handles |
| **Conversion** `replicas/conversion_tasks.py` | one task row per library | prepare, convert, activate | closes the library first |
| **Ownership lease** `ownership/lease.py`, `manager.py` | a lease file, held leases | acquire, heartbeat, release, takeover | libraries of the older format only |
| **Views, forms, media, search, filters, auth, desktop shell** | component state, caches, read-only queries, device tokens, child processes | | |

How they interact. A browser never writes the catalog: it enqueues a catalog
job. The exchange worker of the library, on every tick and under the library's
exchange lock, runs the oldest catalog job, then one source operation, then the
transport tick (scan, import, publish, repair). A save is one SQLite transaction
that writes the event and applies it; import applies remote events through the
same code. A source operation ends with a save of its own. What an owner types is
kept in the page, in browser storage and on the server until a job's answer says it
is in the catalog. The grouping worker changes one private draft, one command at a
time, and hands a selection to a discovery review, whose application authors the
catalog changes.

What is hard. *Concurrency*: handlers change rows (cancel, accept, enqueue)
between the worker's transactions; other programs change the library's files
between the server's system calls; two replicas edit the same unit; two tabs, or
two dialogs, edit the same draft. *Failure*: the process may stop between any two
transactions or renames; provider copies may be late, partial, or lost; browser
storage and the shell may refuse a write; a page is reloaded with requests on
their way. *Ordering*: objects are found in hash order, so an event may come
before its payload, its parents or the seed; events of different authors, and
answers to a page's requests, arrive in different orders. *Staleness*: editors save
over a snapshot they opened some time ago, previews are committed after the catalog
moved, reviews are applied after the files changed, effects and callbacks run with
what a page knew earlier. *Timeouts and retries*: an answer is lost and the same
operation is asked for again.

What makes each part correct:

- *exchange*: nothing is accepted without its payload and whole ancestry; what
  anybody holds its author has durably; an operation id is one event; what is
  saved arrives everywhere;
- *storage*: active revisions and frontier are functions of the accepted events
  and not of their order; a unit that is not on hold shows the value its
  revisions agree on; a cohort is shown or held as a whole; a hold has a reason;
  a choice settles what it covers and reverts nothing else;
- *catalog jobs*: the reported outcome is what happened; a commit saves the
  review that was read; every job ends;
- *source operations*: no original file is lost; the catalog is told the truth;
  only the reviewed file gets the reviewed identity; what was cancelled is not
  carried on; what was started can be finished;
- *registry queue*: running means somebody runs it; cancelled means it does not
  run; every job ends;
- *editors* (inspector, drafts, older metadata): no input is lost or saved twice;
  nothing replaces what its owner was not shown; what was dismissed stays away;
- *grouping review*: an edit changes the draft that was on show; what is applied is
  what was prepared; a command that stops gives the draft back;
- *connections and playback*: one server, one session, one intention, whatever
  overtakes whatever.

## 2. Modules

```
CausalHistory            abstract: who may hold which events
  ^            ^
  | implements | implements
ReplicaExchange CatalogUnits        CatalogJobs   SourceOperations   JobQueue
(objects, folder, (revisions, holds, (rows, restarts) (files, journal) (older queue)
 receipts, crashes) cohorts, choices)    ^
                                         | extends
MCWebClient = InspectorDraft + PrivateDrafts + MetadataEdits + Connections
              + HlsSession + Player + GroupingReview, each on its own

CausalHistory_proofs   ReplicaExchange_proofs   CatalogUnits_proofs   JobQueue_proofs
SourceOperations_proofs
CatalogJobs_proofs   also InspectorDraft
WebClient_proofs     Connections, HlsSession, Player, GroupingReview, MetadataEdits, PrivateDrafts
MCWebClient_proofs   the client's parts together: CatalogJobs_proofs + WebClient_proofs
```

Each `MC<Module>` extends its module with definitions for the configurations.
`Mutant of X` definitions are variants of an action or operator with one plausible
bug; each property was seen to fail when the variant takes the place of `X`, so no
property holds by the shape of its model.

### CausalHistory
`history[r]` is the set of event hashes replica `r` has accepted, `body` the
content of every issued event. `Save` is `CatalogStore.save_in` (`retry_receipt`
included), `Accept` is `CatalogStorage.accept` reduced to what one replica may
assume of another: an event is taken once everything it names is there, the
seed first. Transport, SQLite and values are not in it.

### ReplicaExchange
`events`, `local`, `published`, `inbox` are columns of the private store,
`folder[r]` the provider copy at replica `r`, `publishing` the object whose file
is linked and whose receipt is not committed. `Scan` = `ingest`, `Import` = one
row of `import_batch` (guard `Ready`: `payload_records`, `stage`, the parents),
`Publish` and `Receipt` = the two halves of the outbox loop, `Repair` = the
rotation over published rows, `Crash` = the process stops in between. `Deliver`,
`DeliverPart` and `Lose` are the provider. An event is a root and, in `Segmented`,
a payload part that travels separately. Its refinement mapping is
`history <- [r |-> Roots(r)]`.

Left out: source names (an object renamed or replaced under its name), corrupt
or foreign artifacts and the block they set, recovered authors, byte limits, and
the refusal of an event by `apply_edit` at `MAX_CANDIDATES`, which leaves it pending:
that is `Room` in `CatalogUnits`.

### CatalogUnits
The catalog side of the same transaction. `active[r]` is the set of rows
`<<event, unit, value>>` with `active = 1`, `frontier`, `shown`, `holds` the tables
`catalog_frontier`, `catalog_units.value`, `catalog_holds`; `opened[r]` is the
snapshot an editor or a prepared preview relies on, so an edit's bases may be
older than the tables. `Apply` is `apply_edit`: `RowsAfter` retires the bases and
inserts, `Group` is the grouping loop over `scope`, before and after the event,
`ShownAfter` and `HoldsAfter` its last loop. `Blocks`/`Closure`/`Scope` are the part
of `scope` that follows atomic cohorts, `Anchors` is `constraints.cohorts`.
`Choose` is `Preview.choose` followed by its save, `Room` is `MAX_CANDIDATES`.

`HoldsJustified` is what the documents say of a hold and what the code does not keep
(run `units_stale_hold`); `ScalarHoldsJustified` is the part of it that it does keep: a unit
that no accepted cohort ever tied to another is held only while its own revisions
disagree. `Projection` collects what the tables are as functions of the accepted events,
`HoldsSound` what a hold may and must be.

Left out: identities that are created and deleted (`$alive`, guards, claims),
projection failures, the ancestry check of file contents, the structural
commands that compute a value (every value is a model value).

### CatalogJobs
`row` is `catalog_jobs`; `log` the catalog's events in the order they were accepted
on this replica, each naming its bases; `worker` what `run_one` has in memory.
`Claim`, `Prepare` or `Save`, `Finish` are its three transactions. `Crash` is what
`CatalogStorage.__init__` does to running rows. `Ask` says what browsers send: a
save over what they see now, a preview, the commit of a preview they have read.

Left out: `recover` (a preview by another name), file selections, the media pass.

### SourceOperations
`entry` is the file at each path, `captured[o]` and `staged[o]` the artifact
directory of operation `o`, `state`, `phase`, `review`, `result` its row, `told` the
content the catalog records at each path, `worker` the step of `run_one`. A file is
a content version plus who made it, so that two files with equal content are
still two files. `Prepare`/`SaveReview`, `Stage`, `Begin`, `Capture` then `Rename`,
`Publish`, `Mark` and `Commit` follow `source_execute.apply` system call by system
call: the inspection of a path and its rename are separate steps, as are a rename
and the checkpoint after it. `Outside` is another program. `Stop` is a withdrawn
permission or a storage error at any step.

A preparation is refused when nothing is at `from`, when source or destination is not
what the catalog was told, when the destination is taken and the intent says to fail, and
when the two are one path, unless a copy is to skip what it finds there (`Reviewable`).
`ToCapture` and `ToPublish` are sets, and `First` the next path of them, the target's before
any other.

Abstractions: the catalog basis of a review is compared by value; the catalog is
changed by operations only; outside programs write new content each time; the
staged copy is written in one step. Left out: directory trees, Keep Both names,
uploads, restore copies, byte budgets, the root identity, `claim` and `probe` of
the storage, and receipts that reach other replicas. An error that is neither
`OSError` nor `DomainError` leaves the row `applying`; it is not in the model.

`CatalogFollowsFiles` excepts the paths of an application that is under way (`UnderWay`).
An operation cancelled after its capture stays under way for ever, so that the property
says nothing of its paths: the run `source_abandon` is about that case.

### JobQueue
`registry/jobs.py` reads a row and writes columns back without a version check, so
`CancelRead`/`CancelWrite` and `ClaimRead`/`ClaimWrite` are separate steps. `SetUp`,
`Refuse` and `Raise` are the outcomes of the first half of `execute_job`;
`Checkpoint` is `_raise_if_interrupted`; `Conclude` is `mark_finished` or
`requeue_after_yield`; `Start` is `fail_interrupted_jobs`. `opens` is chosen at the start: a
library's database that may fail to open makes `Raise` possible. The properties name
two things the code does not prevent. A database that does not open leaves a claimed
row `running` without a worker, because `execute_job` opens it outside its `try`
(`worker.py:330`). And a cancellation that reaches a job between its last checkpoint and
its requeue leaves a row that is queued and cancelled: no claim takes it, nothing
closes it, until somebody cancels it again (`registry/jobs.py:329`). A third is visible
in the model and excepted by no property: a cancellation committed between the read
and the write of a claim is overwritten, so that the job starts and is stopped at its
first checkpoint (`registry/jobs.py:159`). This queue serves libraries of the older
format: the API still writes its rows, while `main.py` starts the replica, recovery and
conversion workers and only tests start this one.

### InspectorDraft
The inspector of one bundle, over the rows, events and worker of `CatalogJobs`, which it
extends: `Post` is `runJob`'s first request, which creates the row or finds it.
`draft` is what `useCatalogDraft` keeps (`inputs`, `observed`, `pending`), `entity` the tips
when the bundle was last read, `ack` the state `acknowledged`, `call` the point `save` is
waiting at. `Type` is `change` (`Basis` is its choice between the snapshot, the retained
basis and the acknowledged save), `Request` and `Retry` the two ways into `save`,
`Succeed`, `Fail` and `GiveUp` the ways out, `DiscardDraft` is `discard`, `RecoverCopy` is
`recover`. `Refresh` reads the bundle at any time.

`written` is what browser storage took of the draft and `delivered` what the server did:
either may lag behind what is on the page (`Persist`, which every change of the draft goes
through, and `DeliverDraft`, the next attempt). `Reload` starts from `written`; `Reopen` opens
the bundle under another draft id, and what the server retained of the old one is then on
offer (`copies`). `draft.begun`, `settled` and `forgone` are history: what was on show when an
input was begun, the requests that were answered, and those that went with a page whose
draft was neither written nor delivered. Remote events write the other value than the
seed's, which halves the instance and leaves values to agree and to disagree.

`InputKept` names every way for an input to go: typed over, discarded or replaced by a
recovery, each by the owner's own act; answered by the receipt of the request that saved
exactly this input; left with a page, and then it is on offer unless the server had not
received it; or lost in a reload with a draft that storage had refused.

Left out: references to covers and the `$alive` cells they guard, what other open windows
type meanwhile (only what they retained is on offer), and the exchange of a dismissal with
the server, which is `PrivateDrafts`.

### PrivateDrafts
`session`, `editor`, `page` are a tab's `sessionStorage`, browser lock and memory, `stored`
is `localStorage`, `kept` and `receipt` the server's `drafts` and `draft_receipts`. `sent`
only grows: every request may arrive late, again, or never. `Acquire` is `holdEditor`
(`Admitted` asks for the lock `ifAvailable`), `Update` may find storage refusing,
`Put` and `Dismiss` are `CatalogStore.draft` and `dismiss_draft`. An edit is its own
body and names the draft it begins.

### MetadataEdits
One module-level `retained` map per page, `onDisk` its copy in storage, `step` and `executing`
the run of each edit (`runEdit`), `wire` its request or answer. The server is
`committed` with the revision of each field: `CommitEdit` is `begin_edit`, the
`EditContext` guard and `save_receipt` in one transaction. `Make` is `sendMetadata`,
`Choose`, `UseMine`, `RequestAgain` the review, `Abandon` a run whose library is no
longer on show, `Restart` a reload. `seen` is history: the revisions of a field its
owner was shown.

### Connections
`selection` and `store` are the list and active server in memory and in the shell's
store, `relay` the shell's transport, `base` and `scope` what the page asks, and
`flight` the activation under way, in the stages of `runActivation`: each `await` is a
step, as is each write that the shell may refuse. `overlapped` records writers that
worked from one snapshot of `state`.

### HlsSession
`decisions` numbers what was asked of the server and `reply` what it did,
`current` is the sequence guard, `live` and `warm` the session held and the playlist
touched, `shown` what the player is fed. `Show`, `Enable`, `Disable`, `SwitchStream`, `Reattach`,
`FallbackToHls` ask; `PlaySession`, `PlayDirect`, `NoAddress`, `Undeliverable`, `Late`, `Degrade`,
`Unreachable`, `Refuse` are the branches of `decide`; `LeaveStage` is the unmount and `ExitTask` what
the desktop awaits before it exits; `Serve` is the server's decision, reduced to its kind, and
`Reap` whatever ends a session there. A React commit is one
step with the call that asked for it; answers, timers and touches come at any time.

`released` and `stranded` are history. A session is released when the page asks the server
to end it or a touch finds it gone, and stranded when the page drops it without either:
`Unreachable` (a time-out or a 5xx where no direct stream can take over) and `Reattach` do so. `SessionsAccounted`
excepts the stranded ones; that there should be none alive is `NothingStranded`, which does not hold.

### Player
`intent` is `intentRef`, `attempts` the unanswered `play()` calls, each with whether a
later command or another transport has overtaken it, `queued` and `pending` the two
places a seek waits in, `place` and `asked` history of where the viewer is and asked to
be. `Attach` and `Loaded` are the effects of a new transport, `Commit` the throttle's
write, `Interfere` the media keys and policies of the browser.

Where a transport begins is decided in `useHlsSession` and belongs to this module:
`captured` is `startAtRef`, written when a decision is asked for (`Decide`), and `due` what the
decision under way will use, which is the captured place as long as no decision about the
medium was answered (`methodRef` is null, and a direct stream took over from a failed one), and
the element's place at the answer afterwards (`Playhead`). A decision ends in `Attach`, in an error that
leaves what is there (`NoTransport`), or in `source` becoming null (`Detach`), which
empties the element: `currentTime` is 0 then, for the next decision too. `adrift` is history:
a transport was given a place that was not the viewer's, for one of these two reasons.
`PlaceKept` excepts it until the element plays on, and `AlwaysAtPlayhead`, without the
exception, does not hold.

Left out: volume, rate and full screen, and the cards of a failed stage, which unmount the
element while its source stays (listed as a hazard).

### GroupingReview
`workspace` is the row of `grouping_workspaces` (phase, revision, `accepting`) with a
count for its content: each write of nodes or files is a new one. `command` and `queue`
are `grouping_commands` by operation and sequence, `reviews` the `discovery_reviews`.
`BeginEdit`, `BeginPrepare`, `FinishEdit`, `QueueReview`, `CancelReview`, `RefuseCommand` are the
branches of `worker.step`, `Reconcile` and `Retire` the first and last of
`reconcile.step`, `ReviewStep` the outcomes of the discovery worker, `DeleteReview`, `Revive` and
`AcceptSaved` what the list of saved reviews can do, `Recover` what a recovered generation
does to all of it. A dialog is `known` (status, read by polling), `pending`, `handled` and
`settling` (the effect on the command's end and its `.then`), `fetch` and `tree` (a branch
read page by page), `opened` (a title or move begun on an earlier tree).

Abstractions: the steps of a rebuild or an export between its first and its last are one,
as are those of a retirement; a review is prepared, revalidated and applied in one step
each. Left out: building a draft, choosing another one, the verification of file
contents (a longer export), what an edit does to nodes and files, drag and drop.

### MCWebClient
The seven modules above share no state but `InspectorDraft`'s with `CatalogJobs`. `part`
chooses at the start which of them runs while the others rest in their initial states, so
that one run checks each on its own instance. An invariant of a part holds trivially
where another one runs; its mutants show that it is not trivial where it does.

## 3. Runs

Passing runs:

| Run | Instance | Shows |
| --- | --- | --- |
| `causal_history` | 3 replicas, 2 operation ids, 3 edits | `CausallyClosed`; `LineageHolds`: durability at the author, one event per operation, acyclic ancestry |
| `exchange_edits` | 2 ready replicas, 2 edits, one of them in two objects, crashes anywhere | `CompleteActivation`: no root is active without payload and ancestry; `AuthoredWorkKept`: what anybody has its author holds, receipts behind files; refinement of `CausalHistory` |
| `exchange_delivery` | a replica with only the folder; seed and edit, 1 partial or lost copy, fair | saved work arrives; the outbox drains |
| `units_events` | 2 replicas, 3 events, 2 units of which one is an arrangement, 2 values, limit 2 | `Projection`: revisions and frontier exact, shown values current unless held; `HoldsSound`: cohorts whole, limit kept, scalar holds justified; choices settle; refinement of `CausalHistory` |
| `catalog_restarts` | 2 jobs, 1 remote event, 2 restarts, fair | outcomes true, commits as reviewed, every job ends |
| `source_moves` | replacing move, trash, undo; cancellations, 2 outside writes, 1 crash, 1 error | originals kept, catalog follows files, `SuccessIsTrue`: the reviewed file captured and the commit true, cancelled stays cancelled |
| `source_resumes` | move, copy back unless taken, trash; 2 crashes, 2 errors, fair | what started finishes |
| `jobs` | 2 jobs, 1 restart, a lost library, a database that opens or not, fair | running has a worker, every job ends, a cancellation ends a run |
| `web` | each part of the client on its own | the table below |

| Part of `web` | Instance | Shows |
| --- | --- | --- |
| inspector | 2 jobs, 2 units, 3 uses: inputs, pages left, refused or undelivered drafts, and at most 1 remote event | `SavesAreKnown`: an input replaces only what its owner was shown, and no committed save is unknown to the page; `InputKept`: nothing typed goes but by its owner or a receipt, or with a page whose draft was not retained |
| drafts | 2 tabs, 2 editors, 2 edits, 1 refused write | `DismissedStays`, `NewestDraftKept`, `OneWriter` |
| edits | 1 edit of 1 field, 4 revisions, 4 sends, 1 leave, 1 refused write | `EditsSettle`: committed once, retained until then, its dialogs heard; `OverwriteReviewed` |
| connections | 3 servers, 2 activations, 3 additions, 2 launches | `OneServer`, `ConnectionsKept` |
| session | 3 sources, 1 reattachment, 3 decisions | `SessionsInHand`, `StreamRecovers` |
| player | any number of media, decisions and transports, 2 places | `IntentIsLastCommand`, `SeeksLand` |
| grouping | 1 dialog and other devices, 3 commands of which the first is a prepared review, 1 mishap | `AppliedAsShown`: an edit changes the draft on show, once, and what is applied is what was prepared; `DraftSettles`: a pending review's draft rests and a stopped command gives it back; `EditRetained` |

Why these bounds. Three events are the least with a conflict and its resolution, or a
bulk edit with one half superseded; two values the least that disagree; two units the
least that a cohort ties. `exchange_edits` runs without provider faults and
`exchange_delivery` with one: objects do not interact beyond `Ready`, and the proofs
below lift the safety properties to any number of objects, replicas and faults. Two
paths and three operations are the least with a replacement, a capture on each side and
an undo that meets a later operation. One outside write before and one after a capture
are two writes. A crash or error that hits a resumed application again needs two of
each. Two jobs are the least with a running pass and the more urgent work it stands
aside for, and with a save whose basis another one has superseded; a second restart hits
a job that was requeued by the first. In the client, two saves are the least of which
the second may rest on the first, two tabs the least that share a session, four requests
let an edit be refused, reviewed, lost and sent again; three decisions are a switch and
a late answer on each side of it; three uses of the inspector are two inputs and an edit
of another computer, an input whose draft is refused and a page that is left, or an
input, a page that is left and an input that a recovery replaces; the player needs no
bound but its places, of which the properties compare two. Three commands of a grouping
draft are the review, an edit of the owner and one of another device; its mishaps (a
lost answer, a reopened dialog, a deleted or revived review, a recovery) share one
bound, so that a behaviour has one of them at any place. No bound cuts a behaviour
short: a bounded action is merely no longer possible. Where TLC needs `CHECK_DEADLOCK
FALSE` the system comes to rest with nothing asked of it.

Runs that TLC must find violated, each a disagreement between the code and what
the repository says of it (quoted in `PROJECT.json`, `findings`):

| Run | What happens |
| --- | --- |
| `units_stale_hold` | bundles A and B are rated in bulk, A's rating is in conflict; B is rated again on its own. B's only revision agrees, yet the hold it got with A is never lifted |
| `units_choice` | the choice that settles A saves the displayed, held value of B and so reverts B's merged rating |
| `source_abandon` | an application is interrupted after its capture, retried and cancelled: `cancel` accepts the state `accepted`, and the captured original is abandoned in the operation's directory |

### What the code does not keep

Besides these, the models hold definitions that no run checks because the code does not keep
them; TLC finds each violated on the instance of its part (`ConflictReviewed` with two
remote events and four uses). The properties that are checked name them as exceptions.

| Definition | What happens |
| --- | --- |
| `InspectorDraft!ConflictReviewed` | a revision that arrives after an input was begun lets an ordinary save replace revisions that disagree |
| `InspectorDraft!OwnSavesChain` | typing over a snapshot older than the last two saves takes a basis the first of them superseded: the owner conflicts with themselves |
| `MetadataEdits!DiscardStays` | an edit discarded while its retry is under way is put back when the retry fails |
| `Connections!AlwaysOneServer` | an addition and an activation that work from one snapshot undo one another |
| `HlsSession!NothingStranded` | a decision that times out or meets a 5xx drops the session that plays, without ending it and against the comment on that branch (`useHlsSession.ts:386`); so does a stream error while the session lives |
| `Player!AlwaysAtPlayhead` | a transport decided while the element is not ready, or was emptied, starts at 0, and one decided before any answer where the medium was when it was asked for |
| `HlsSession!WarmIsHeld` | after a switch to the direct stream the deleted session's playlist is still touched |
| `GroupingReview!ExactlyRetained` | the end of a command named by the status clears an edit begun meanwhile: its exact operation is forgotten before it is answered |
| `GroupingReview!EditorAsShown` | a title or a move begun on one tree is committed with the newest revision, which the server takes although the draft changed in between |
| `GroupingReview!AppliedIsRetired` | a review cancelled in its draft is revalidated from the list of saved reviews and applied; its files stay in the draft |

Three more are visible in a model and stated in none: a catalog job whose save is committed
when the server dies is requeued, and a cancellation then closes it as cancelled with the
event saved; an edit that a retained draft could not store before a reload is numbered
again by the next one, so that the server meets two bodies of one generation and keeps the
first; and several tabs that edit older metadata write one key of browser storage, each
over the other's list (a second tab is not in the model).

### Fairness

`ReplicaWorker.run` calls the exchange on every tick for every open
library, so steps of a tick that stay possible are taken (weak fairness of
`Scan`, `Import`, `Run`, `Work`). A crash disables a publication's receipt and a
partial copy its publication, so `Publish`, `Receipt` and `Repair` get strong
fairness: crashes are assumed not to hit the same gap for ever. The provider is
assumed to finish what it keeps. The job worker's loop does not sleep while it can
claim; `ServingSpec` lets handlers run for ever, and `EveryJobEnds` asks for nothing but
that they end (`HandlersEnd`). No request
of a user is ever assumed, but in `StartedFinishes` the retry of an application
that can go on, by an owner who does not for ever retry an older one that cannot
(the queue is served oldest first). The parts of the client state safety only: what
would have to happen there is for the owner to ask again, or for a network and a
browser to answer.

## 4. Proofs

`tlapm` on the eight `_proofs` modules proves, for all values of the constants and from
the named assumptions of the modules only, every safety property of the passing runs. Per module, what is proved and the inductive
invariant that carries it:

**CausalHistory_proofs.** `CausalHistorySafety` (types and `CausallyClosed`), `LineageSound`
(`LineageHolds`). `IInv` adds what they need to be inductive: accepted events are issued, and
the seed came first. That every set of events has a member that names none of the others
is preserved because a new event is named by nothing issued before it.

**ReplicaExchange_proofs.** `ExchangeSafety` (types and `CompleteActivation`),
`AuthorsKeepWork` (`AuthoredWorkKept`). `XInv` says where an object can be (whatever is in a folder,
inbox or store is of an issued event and local to its author), and `FileHeld` ties receipts
and the publication under way to files. `ExchangeRefinesHistory`: `Spec =>
ImplementsCausalHistory`; only `Save` and the import of a root change the mapped variables,
`Ready` provides the guard of `Accept`, `XInv` the rest.

**CatalogUnits_proofs.** `CatalogTypes`, `CatalogSafety` (`Projection`), `HoldsStaySound`
(`HoldsSound`). `CInv` adds that the accepted events are closed under what they name, that every
row carries the value its event gave that unit, and that snapshots are older than the
tables. Saves, choices and imports are one step in the proof, `Applied`. The heart is
`GroupPartition`: the groups of an event are the same or apart, because the complement of a
set that straddles no block straddles none either; so what is cleared and what stays held
never mix, and a block that an event does not reach is the block it was. A unit no cohort
tied is a group of its own (`UntiedAlone`). `ChoicesSettle` (`ChoiceSettles`): a choice retires every
row on its scope, so no earlier cohort has a block that straddles the scope's edge, and the
groups of its units stay inside it and agree. `CatalogRefinesHistory`: saves and choices map to
`Save` with the event as its own operation, imports to `Accept`. `ReplicasConverge`: two replicas
with the same events have the same revisions and frontier and show the same value of every
unit neither holds, whatever the orders of arrival. Held units are outside it: a hold keeps
the last display of its replica.

**CatalogJobs_proofs.** `JobsReportTheTruth` (types and `OutcomeIsTrue`), `CommitsWhatWasRead`
(`CommittedAsReviewed`). `JInv` adds that what the worker holds in memory is already true of the
catalog (the process may stop before it is written into the row), that an operation is saved
at most once, and that what was saved is what was asked: an attempt that is repeated after a
restart finds its receipt and reports the first one. Nothing of this depends on what browsers
ask for: `AnyJobSpec` has the same worker under requests of any form (`AnyRequest`: a save, a preview
or a commit of any change, over any accepted events), `JobsServeAnyRequest` is proved of it, and
both `JobSpec` and `InspectorSpec` implement it (`JobsImplementAnyJobs`, `InspectorImplementsAnyJobs`). On
the jobs rests `InspectorDraft`: `EditorKnowsItsSaves` (`SavesAreKnown`), `TypedInputIsKept` (`InputKept`)
and `EditorKeepsItsForm` (its types). `EditorInv` adds that whatever row was queued was answered
about or is still asked for, and that the row of the retained request says what the request
says (`RowsAreAsked`); so the event that a succeeded row names, by `JInv` the only one of its
operation, holds exactly the input that leaves the draft.

**JobQueue_proofs.** `RunningRowsHaveWorker` (types and `RunningHasWorker`). `QInv` adds that the
worker's job was created and that a worker about to close a row closes it with a state other
than running.

**SourceOperations_proofs.** `SourcesFollowed` (`CatalogFollowsFiles`), `SourcesKeepOriginals`
(`OriginalsKept`), `SourcesSucceedTruly` (`SuccessIsTrue`) and `SourcesStayCancelled` (`CancelledStays`). `OInv` has
three parts beside the types and `CatalogFollowsFiles`: a review hangs together, its versions before are those
that were seen and the catalog will be told nothing but what comes after (`ReviewsSound`); an
application that started keeps its review, its directory holds only what it was to capture,
and what is checkpointed as captured is what was reviewed (`ResultsSound`); and the worker is at a step
the row allows, one rename ahead of its checkpoint at most (`WorkerSound`). A capture moves what
is at a path into a directory that holds nothing of that path, and a publication replaces
nothing, so no original is lost.

**WebClient_proofs.** Six modules, each with an invariant of its own.
- `Player`: `PlayerObeys` (`IntentIsLastCommand`) and `PlayerKeepsPlace` (`SeeksLand`). `PlayerInv` adds that an
  attempt to play that may still take the intent back is of the viewer's last command, that
  the decision a medium opened with takes the place it was opened at, and that a transport that
  is not ready will begin where the viewer is, unless it is adrift.
- `Connections`: `OneServerShown` (`OneServer`) and `ConnectionsStayKept` (`ConnectionsKept`). `ConnInv`: unless
  two writers overlapped, at most one of them works from a snapshot of the selection, and what
  it will write extends what is there (`Undisturbed`).
- `HlsSession`: `SessionsStayInHand` (`SessionsInHand`) and `StreamsRecover` (`StreamRecovers`). `HlsInv`:
  decisions are numbered as they are asked for, the one awaited is the latest, of the source on
  stage and forced as it is now, and a source the server does not decide about is neither
  reattached nor starved.
- `GroupingReview`: `DraftsSettle` (`DraftSettles`), `EditsApplyAsShown` (`AppliedAsShown`) and `EditsStayRetained`
  (`EditRetained`). `GroupInv`: a command that has not ended is in the queue (`Enlisted`); at most one is
  under way in the draft, in the draft's phase and at its revision (`OneUnderWay`); a pending review
  is of the draft as it is (`Frozen`); and a revision tells the content, but while roles or accepted
  files are being written, which ends in the next revision (`SeenTruly`). `GroupKeepsItsForm` (its types):
  nothing names a revision or a content that the draft has not had (`OnlyPast`), and a command that
  succeeds makes one of each at most, a prepared review its own only once it is retired
  (`Counted`); so the draft has no more of them than commands were queued.
- `MetadataEdits`: `EditsComeToOneEnd` (`EditsSettle`) and `EditsReplaceWhatWasShown` (`OverwriteReviewed`).
  `EditsInv`: whatever the page, storage, a run, the wire or a late request says of an edit, its
  owner was shown (`ShownOf`); an edit that is no longer held was committed or discarded (`Accounted`);
  and, while the page and the library stay, the requests of an edit follow one another and all
  before the newest have lapsed: their field has moved on, so they can commit no more (`InTurn`).
  The last is why a new operation id after a review cannot save an edit twice.
- `PrivateDrafts`: `PrivateDraftsSafety` (types and `OneWriter`), `DismissedStaysGone` (`DismissedStays`),
  `NewestSurvives` (`NewestDraftKept`). `DInv`: every id on a page or in storage was given by an edit
  already made, an editor has one tab, an id is stored for one editor only, and what is stored
  for an editor in use is an earlier generation of the draft on its page, because storage may
  have refused the later ones. The answer to a dismissal removes from storage a generation no
  newer than the dismissed one.

**MCWebClient_proofs.** `ClientImplementsParts`: with one part moving at a time, the client implements the
specification of each. So what is proved of a part holds of `ClientSpec`, which is what the run `web`
checks: `ClientKeepsItsForm` (`ClientTypeOK`), `ClientIsSafe` and `ClientStepsAreSafe` (the run's other
invariants and its action properties).

Only model-checked: the liveness properties (`SavedWorkArrives`, `OutboxDrains`, `EveryJobEnds`,
`CancelEndsRun`, `StartedFinishes`: fairness and `ENABLED` are outside what TLAPS's backends prove),
and the runs that end in a violation.

## 5. Not modelled, and why

- *Replica service, lifecycle*: the models take the exchange lock and the order of
  a tick as given.
- *Views, forms, queries of the client* (`FileBrowser`, `Sidebar`, `Inspector`,
  `api/hooks.ts`, the viewer's shell and most of the rest of `apps/web`): they render what the
  server answered and keep their state in React and the query library. They are most of
  the client's lines; what is left of them after layout, wording and query keys is
  nothing a model could be wrong about. `useBrowse` and `useBatchUpdate`, which do carry
  state, have no callers.
- *Discovery*: its reviews are in `GroupingReview` as far as a grouping draft sees them; the
  walk and the proposals are not.
- *Recovery, conversion, uploads and source transport*: see the plan; conversion is a
  sequential transformation of data.
- *Ownership lease*: its takeover, heartbeat and release have no caller in this
  version of the server outside tests.
- *Media derivatives, search, filters, authentication, desktop shell*: child
  processes, caches, read-only queries and single-row checks.

## 6. Plan

Done, in this order: `CausalHistory` and its proofs; `ReplicaExchange`, its
refinement and proofs; `CatalogUnits`; `JobQueue`; `SourceOperations`; `CatalogJobs`; the
client's editors, connections and playback; `GroupingReview`; the proofs of
`CatalogUnits`, `SourceOperations` and the parts of the client; the client as a whole, and the
inspector's jobs as an instance of jobs under any request.

Next, by what a failure would cost:

1. `ReplicaService`: handles, the exchange lock, lifecycle admission, release while
   work is under way, a descriptor or root that changes; the order of the steps in
   one tick.
2. `ObjectIntake`: source names, superseded and invalid artifacts, the block, as a
   refinement of the `Scan` of `ReplicaExchange`.
3. identities in `CatalogUnits`: creation, deletion, guards and recovery of deleted
   entities; projection failures.
4. `SourceOperations`: uploads, directory trees, receipts of other replicas.
5. `Discovery`: the resumable walk and the review committed in batches.
6. `Recovery`: generations, retired handles, recovered authors and the identity fork.

Proofs planned: that `ObjectIntake` and identities, once modelled, keep the refinement of
`CausalHistory`; the liveness properties when a prover of `ENABLED` is at hand.

