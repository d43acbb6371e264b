\* The parts of the web client, each on a small instance of its own.
SPECIFICATION ClientSpec
CONSTANTS
    \* InspectorDraft: two saves of one editor, two units, an edit from elsewhere in three uses
    Job = {1, 2}
    Unit = {u1, u2}
    Value = {a, b}
    Seed = a
    MaxRemote = 1
    MaxCrashes = 0
    MaxUses = 3
    \* PrivateDrafts: two tabs, the second editor a takeover or a reload
    Tab = {t1, t2}
    Editor = {e1, e2}
    MaxEdits = 2
    MaxRefusals = 1
    NoEditor = NoEditor
    NoDraft = NoDraft
    \* MetadataEdits: one edit of one field, sent up to four times
    EditId = {c1}
    Field = {title}
    MaxRevision = 4
    MaxSends = 4
    MaxLeaves = 1
    MaxFailures = 1
    NoDialog = NoDialog
    NoWire = NoWire
    \* Connections: the local server and two others
    Server = {s1, s2, s3}
    MaxActivations = 2
    MaxAdds = 3
    MaxLaunches = 2
    NoServer = NoServer
    NoWork = NoWork
    \* HlsSession: a source of each kind
    Video = {v1, v2, v3}
    Direct = {v2, v3}
    Rowless = {v3}
    MaxReattach = 1
    MaxDecisions = 3
    NoVideo = NoVideo
    NoSession = NoSession
    Native = Native
    Blank = Blank
    \* Player: any number of media and transports
    Place = {0, 1}
    NoPlace = NoPlace
    Playhead = Playhead
    Undecided = Undecided
    \* GroupingReview: a page and other devices, three commands, the first a prepared review
    Page = {p1}
    MaxOps = 3
    MaxMishaps = 1
    NoView = NoView
INVARIANTS
    ClientTypeOK
    SavesAreKnown DismissedStays OneWriter EditsSettle OneServer
    SessionsInHand StreamRecovers IntentIsLastCommand SeeksLand DraftSettles
PROPERTIES
    InputKept NewestDraftKept OverwriteReviewed ConnectionsKept AppliedAsShown EditRetained
SYMMETRY Units
CHECK_DEADLOCK FALSE
