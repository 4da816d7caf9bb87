\* Every planner budget, with two sessions or any harness that holds the token; two
\* writers of one record that retain it twice; two modes of a proof.
SPECIFICATION Spec
CONSTANTS
    Budgets <- MCBudgets
    MaxSessions = 2
    MaxAdmitted = 4
    Nothing = Nothing
    Writers = {w1, w2}
    Tries = 2
    NoFile = NoFile
    Modes = 2
    Unset = Unset
    Attempts = {a1, a2, a3}
    First = a1
    Second = a2
    Primary = "continuity"
    RegistrationLists <- MCRegistrationLists
    RunsOf <- MCRunsOf
    Null = Null
    MaxPhysical = 1
    MaxElapsed = 9
    FollowUpWindow = 7
    Finest = 3
    Calls = {c1, c2, c3}
    PortOutputs <- MCPortOutputs
    RequestIds = {i1, i2}
    Absent = Absent
    Transcripts <- MCTranscripts
    NoRun = NoRun
    Misrecorded <- MCMisrecorded
    MaxWrong = 2
    Prompt <- MCPrompt
    MaxSpent = 4
    HarnessEvents <- MCHarnessEvents
    MaxPrinted = 3
    ArchiveEntries <- MCArchiveEntries
    MaxEntries = 5
    NoSnapshot = NoSnapshot
    Folded <- MCFolded
    BaseTree <- MCBaseTree
    WritePaths <- MCWritePaths
    WireMessages <- MCWireMessages
    Identities <- MCIdentities
    NoReceipt = NoReceipt
    ChatBudgets <- MCChatBudgets
    ReplyLimit = 4
    MaxChanges = 2
    MaxReads = 2
    NoSnapshotRead = NoSnapshotRead
INVARIANTS
    AllowanceIsExact
    DurableIsWhole
    RunRecordsAreTrue
    TransitionIsKnown
    DatasetTellsTheTruth
    TransportTellsOneStory
    BelievedTranscriptsAreRuns
    BundlesAreTwoEdits
    CustodyIsExact
    OutcomesAreHonest
    PageShowsLatestRead
PROPERTIES
    CandidatesWereLeftAlone
CHECK_DEADLOCK FALSE
