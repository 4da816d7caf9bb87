-------------------------------- MODULE WebRead --------------------------------
(***************************************************************************)
(* The page (web/src/App.tsx) and its one bounded read (web/src/read.ts) of *)
(* a daemon that changes, restarts, refuses, stalls, or is something else.  *)
(* The daemon's store is a count of its changes; a snapshot is the store as *)
(* it was when the daemon answered.  Nothing in the page cancels a read, or *)
(* tells the answer of one from the answer of another: whatever comes is    *)
(* shown.                                                                   *)
(***************************************************************************)
EXTENDS Naturals, Sequences

CONSTANTS MaxChanges, \* bound of the store's changes
          MaxReads,   \* bound of the reads of one page
          NoSnapshotRead

VARIABLES pageState, \* ReadState: [kind, snapshot]
          reads,     \* the reads of the page in order: [at, answer, since, held]
          store      \* external: the daemon's store

webVars == <<pageState, reads, store>>

State(kind) == [kind |-> kind, snapshot |-> NoSnapshotRead]

-----------------------------------------------------------------------------
(* App *)

\* Slip: the button stays enabled while a read is under way.
CanRefreshAlways == Len(reads) < MaxReads
\* The first read is the page's own; the button is disabled while it loads.
CanRefresh == Len(reads) < MaxReads /\ (reads = <<>> \/ pageState.kind # "loading")

Refresh ==
    /\ CanRefresh
    /\ pageState' = State("loading")
    /\ reads' = Append(reads, [at |-> "asked", answer |-> "none", since |-> store, held |-> store])
    /\ UNCHANGED store

Shows(r, state) == /\ pageState' = state /\ reads' = [reads EXCEPT ![r].at = "over"]
                   /\ UNCHANGED store

-----------------------------------------------------------------------------
(* readSnapshot *)

Answers == {"snapshot", "empty", "refused", "strange", "damaged", "huge"}

\* External: the daemon, or whatever listens there, answers; the answer travels.
DaemonAnswers(r, answer) ==
    /\ reads[r].at = "asked"
    /\ reads' = [reads EXCEPT ![r].at = "answered", ![r].answer = answer, ![r].held = store]
    /\ UNCHANGED <<pageState, store>>

\* errorCode: a refusal is one the daemon's own read API states.
Read(r) ==
    LET it == reads[r]
    IN  CASE it.answer = "snapshot" -> [kind |-> "ready", snapshot |-> it.held]
          [] it.answer = "empty" -> [kind |-> "empty", snapshot |-> it.held]
          [] it.answer = "refused" -> State("server-error")
          [] OTHER -> State("malformed")

ReadEnds(r) == reads[r].at = "answered" /\ Shows(r, Read(r))

\* The deadline passes before the whole body is read: the state of the daemon is unknown.
ReadTimesOut(r) == reads[r].at \in {"asked", "answered"} /\ Shows(r, State("unknown"))

ReadFails(r) == reads[r].at \in {"asked", "answered"} /\ Shows(r, State("unavailable"))

\* External: something changes in the store.
StoreChanges == store < MaxChanges /\ store' = store + 1 /\ UNCHANGED <<pageState, reads>>

WebInit == pageState = State("loading") /\ reads = <<>> /\ store = 0

WebNext ==
    \/ Refresh \/ StoreChanges
    \/ \E r \in DOMAIN reads :
          \/ ReadEnds(r) \/ ReadTimesOut(r) \/ ReadFails(r)
          \/ \E answer \in Answers : DaemonAnswers(r, answer)

-----------------------------------------------------------------------------

(***************************************************************************)
(* What the page shows is the outcome of its latest read, as the daemon was *)
(* after the user asked for it: although answers may overtake each other,   *)
(* no late one replaces what a later read found, and while anything is on   *)
(* its way the page says so.                                                *)
(***************************************************************************)
PageShowsLatestRead ==
    LET latest == reads[Len(reads)]
    IN  reads # <<>> =>
            /\ \A r \in DOMAIN reads : reads[r].at # "over" => pageState.kind = "loading"
            /\ pageState.kind \in {"ready", "empty"} =>
                   latest.at = "over" /\ pageState.snapshot = latest.held
                   /\ latest.since <= pageState.snapshot
=============================================================================
