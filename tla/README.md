# Verification of letmecook (gaffer)

TLA+ modules of the parts of letmecook whose correctness depends on the order in which
things happen: who holds authority over a task, which attempt holds the only execution
slot, who may prove an identity, what a model request was allowed, sent and told, and
whether the records that the experiments keep of a run are true of it. The modules are
translated from the Go and TypeScript sources; paths below are relative to the repository
(`src/`).

Run a model with `tlc -config MCGrants.cfg MCGrants.tla` (each `.cfg` names its module in
the table of runs), check a proof with `tlapm StoreProofs.tla`.

## The system

`gafferd` is a daemon over one SQLite store that it opens exclusively. Owners and runners
talk to it over mutual TLS. An owner approves the *execution envelope* of a task (which
runners, routes, budgets, times), the daemon *admits* one attempt at a time, a runner
supervisor picks the assignment up from an outbox and acknowledges it, and an owner
reconciles the attempt when it is over. Beside the daemon the repository holds experiments
around an inference gateway: a *boundary* that admits, accounts for and stops model
requests, an *authority* inside the router behind it that records what was really sent, and
programs that run planners and coding harnesses over both and keep evidence of it.

| component | state it keeps | operations | what is hard about it | what makes it correct |
|---|---|---|---|---|
| **Grants and authority** `internal/authority/grant.go`, `store/grants.go` | per task a head and a chain of grants, one invalidation per ended grant in a global sequence | approve, restrict, invalidate, check, page invalidations | replacement, revocation and expiry compete; the wall clock may be set back; history must bind what is approved later; a check may itself write (it latches an expiry) | only the head is without an end; a restriction never leaves its approval; a number or route revision never changes content; lost authority comes back only by approval |
| **Admission and dispatch** `store/dispatch.go` | attempts, dispatches (with the facts and profile they were decided on), acknowledgements, releases, stops, eligibility | publish eligibility, dispatch, deliver, acknowledge, stop, reconcile | requests repeated after lost answers; delivery at any time between admission and release; facts, profiles, runners and grants that change in between; restarts; charges that accumulate over grants with different ceilings | one unresolved attempt; no two runners hold work; nothing handed out on authority or facts that ended; stop is final; charges stay within every ceiling they were admitted under |
| **Eligibility and decisions** `internal/scheduler/eligibility.go` | none: pure checks of a decision against eligibility records and an envelope | `Validate`, `CheckDispatch`, `Evaluate` | facts are compared by exact identity, and the checks run again at delivery | a decision is only usable on the record it was taken on |
| **Store core** `store/store.go`, `recovery.go`, `paths.go` | schema version, boot number, tasks, attempts, event log, retained messages | open and migrate, recover attempts, record events, assign, transition | a crash at any point; recovery of attempts of the previous start | recovery marks each attempt once; events are the attempt's history; the task row follows the attempt |
| **Execution protocol** `schemas/execution/protocol.go`, `.ts` | none: codecs, the attempt state machine, lease timing, replay and acknowledgement checks | `CheckTransition`, `CheckLease`, `checkReplay`, `checkResultAck` | renewal answers at the cutoff, nonces used twice, messages repeated or contradicted over a change of session | work ends with its lease; a message is applied once; nothing is given away before its receipt is durable |
| **Identity** `store/identity.go`, `httpapi/identity.go`, `internal/identity` | principals, credential pins, invitations | bootstrap and recover the owner, invite, enrol, enable, disable, revoke, rotate, authenticate | a request authenticates in one transaction and acts in another; invitations, rotations and recovery compete for pins | a pin proves one identity for ever; one live key each; only a current owner changes anything; recovery fences everything |
| **Repositories** `store/repositories.go`, `internal/repositories` | repository profiles by revision, selections; a checkout on disk | register, select, prepare and verify a checkout | a profile registered again while a selection of the previous one is used | a checkout is of the selected revision and profile |
| **HTTP surface and daemon** `httpapi/api.go`, `cmd/gafferd`, `schemas/readapi` | none besides the store | read endpoints, start, stop | requests under way at a stop | reads are of one transaction |
| **Web client** `web/src` | the last answer of the page's reads | mount, refresh, two fetches, timeout | reads and answers that overlap; a daemon that is replaced between them | the page shows what the latest read found |
| **Inference boundary** `experiments/inference-boundary` | the journal of requests, decisions and policies; scopes, tokens and running handlers | activate and revoke an attempt, admit, mark the send, finalise, finish, drain and replace the policy, close | every operation awaits storage or the router between its check and its use; stops, deadlines and revocations in between; a crash between reservation and send; a replacement that times out while its writer still runs | no more requests than the attempt's count and concurrency, even those that ended only locally; nothing leaves under another policy; nothing is told before it is recorded; everything ends |
| **Router authority** `experiments/router-authority-extension/overlay` | policy and generation, receipts, operations, scopes in the router's tables; handlers, transports and writers of the process | boot, fence, replace the policy, select a profile, prepare, admit, fetch, observe the end, close a scope | mutation callbacks that outlive their fence; transports lost while the provider goes on; boots that lose every clock | a receipt tells what the provider did; one operation at a time; the scope is spent once; the policy does not change under work |
| **Stream observers** `overlay/chat-terminal.mjs`, `responses-terminal.mjs`, `inference-boundary/protocol.ts` | what was read so far | read an event, judge the end | two processes parse one stream independently; items are repeated on several levels | they agree on success, and a success is the whole stream in one reading |
| **Router bridge** `experiments/router-boundary-bridge` | none | ask for receipts and quiescence | an answer that is lost or of another policy | a failure is never read as an answer |
| **Router status** `experiments/router-status` | none: projection of one snapshot | snapshot | a slow read, denials of several connections that age meanwhile | a route is reported unavailable only while it recently was |
| **Planner probe** `experiments/planner-probe`, `overlay/native-planner.mjs` | a session's usage and conversation; a transport's retained request and output | execute, complete, read, repair | the gate derives the phase again from the request's history alone; sessions are lost and restarted; callers abort while completions are under way | the allowance is spent once, by whatever party sends; the honest session is never refused |
| **Harness experiments** `experiments/harness` | a child process, its output and the repository it works on | start, cancel, terminate, take output, classify; verify evidence | deadline, cancellation, refused output and the child's own end race each other | a candidate is a tree nobody could still write to, of a child that did what was asked |
| **Baseline** `experiments/baseline` | records on disk, archives, a case's report and journals, a dataset | run a case, check a candidate, retain, export, replay, collect | power loss between two syncs; containers whose creation was never answered; signals at any await; archives a container writes | what is acknowledged is whole, what a record says was so, a bundle is the two edits asked for |
| **Isolation, continuity, native evaluation** `experiments/isolation`, `router-continuity`, `native-evaluation` | containers, a control socket, a deployment record with its lock | prove isolation, run the control transition, run the suite | the same, and command-line programs killed with their lock held | cleanup that is recorded happened; later work knows whether it runs after the transition |

How they meet: `Dispatch` (store) reads grants through the same transaction that may latch
an expiry, reads eligibility records and repository profiles, and reads whether a runner
is enabled from the identity tables. Deliveries reach runner supervisors, which the store
knows only by their messages. Restarting the daemon runs migration and recovery on the same
store. `Identity` and `Repositories` influence dispatch only through the enablement of a
runner and the profile revision.

The boundary's handlers call its policy gate, whose operations run one after the other and
await storage, the router's authority (through the bridge) or an operator's writer. The
router's authority admits what the boundary forwards, and its observers decide what goes
into the receipt that the gate asks for. A planner's session sends through the boundary, a
harness through a relay to it. The daemon and the boundary do not call each other yet.

Every write of the daemon is one SQLite transaction under the store's mutex, so one action
per operation is the real grain of atomicity there. What interleaves is whole operations,
the runner, the clock, and the two transactions of an owner request (authentication, then
action). An operation that fails rolls back, with one exception: an expiry that a check
finds is committed although the operation itself is refused. In the TypeScript programs an
action is what runs from one `await` to the next.

## Modules

| module | models | state and actions |
|---|---|---|
| `Authority` | `authority/grant.go`: envelopes, `Valid`, `Replacement`, `Within`, `Check` | operators only |
| `Grants` | `store/grants.go` over `Authority` | `heads`, `grants`, `ends`, `now`; `ApproveFirst`, `ApproveNext`, `RestrictExecution`, `InvalidateExecution`, `LatchExpiry` (a check that finds an elapsed grant), `ClockMoves` |
| `AttemptProtocol` | the attempt state machine of `protocol.go` | operators only |
| `AdmissionSlot` | nothing in the code: the abstract promise of admission, one execution slot, taken at most once by an intent, handed to its holder, given back by its holder | `slot`, `spent`, `handed`, `stopped`; `Admit`, `Hand`, `Release`, `Stop` |
| `Dispatch` | `store/dispatch.go`, `store/recovery.go` and `migrate` at start, extending `Grants` | rows of attempts, dispatches, acknowledgements, releases, events and stops; `Admit`, `Delivery`, `AcknowledgeAssignment`, `StopDispatch`, `ReconcileDispatch`, `Restart`, `PublishEligibility`, `UpdateRunner`, `RegisterRepository`, with `RunnerStep` and `Fence` for what happens outside the store |
| `Identity` | `store/identity.go`, the two-step requests of `httpapi/identity.go`, start and stop of `cmd/gafferd` | `principals`, `credentials`, `invites`, `requests` in flight; one action per operation |
| `PolicyGate` | `inference-boundary/policy.ts`, `wait.ts`, `router-policy.ts` and what the bridge tells it | the journal in memory and on disk, the queue of operations and the step the first of them is at, scopes, the provider, the policy the router is frozen to and its late writer; one action per step (`AdmitTurn`, `MarkSendTurn`, `Persist`, `ReceiptArrives`, `ReplaceTurn`, `Drain`, ...) |
| `Boundary` | the handlers of `inference-boundary/boundary.ts` over `PolicyGate` | where each request's handler is, what was released to its caller; one action per await, `Abort` for a client that leaves, a deadline, a revocation or a close |
| `RequestLedger` | nothing in the code: what the boundary promises of the requests of an attempt | `work`, `delivered`, `stopped`; `Allow`, `Start`, `End`, `Deliver`, `Stop` |
| `RouterAuthority` | `overlay/authority.mjs`, `evaluation-scope.mjs` | the tables, which outlive the process, and its handlers, transports, writers and clocks, which do not; `Boot`, `Fence`, `Replace`, `WriterWrites`, `SelectNativeProfile`, `PrepareNative`, `Admission`, `Fetch`, `OriginalEof`, ... |
| `ChatTerminal` | `overlay/chat-terminal.mjs` and the `ChatStream` of `inference-boundary/protocol.ts`, over one stream | each reader's state; one frame per step |
| `ResponsesTerminal` | `overlay/responses-terminal.mjs`, `native-responses.mjs` | items, their contents and channels; one event per step |
| `Lease` | the lease and issuance checks of `schemas/execution/protocol.ts` between a runner, its watchdog and the daemon | two clocks, the outstanding request, issuances, replies; `Ask`, `Issue`, `Reply`, `Watchdog`, `Reboot`, `Tick` |
| `RouterStatus` | `router-status/status.ts` | the router's rows, the read, the observation; `StartRead`, `RouterWrites`, `Respond`, `Complete`, `FailRead`, `Passes` |
| `Planner` | `planner-probe/planner.ts`, `native-boundary-port.ts` and `overlay/native-planner.mjs` over one revision | the session's stage, rounds and usage; the gate's reservation and decisions |
| `Transport` | `planner-probe/native-transport.ts` under any caller | the conversation, its retained request and output, calls under way |
| `ChatSession` | `PlannerSession.execute` over `planner-probe/transport.ts`, and `validateRequest` of the boundary | messages, usage, the answer being read; `SendRequest`, `ReplyFrame`, `ReplyEnds`, `ResponseFails`, `RequestFails`, `StopSession`, `Continue` |
| `HarnessWorker` | `harness/adapter.ts`, `native/client.ts`, `native/run.ts` | the child, its output, the supervisor's timers and verdict, the tree |
| `Transcript` | `baseline/native/transcript.ts`, `harness/native/evidence.ts`, `classifyReceipt` | the evidence of a run, up to `MaxWrong` fields of which are misrecorded; `Verify` |
| `EvidenceRecords`, `Export` | `baseline/artifacts/store.ts`, `native-evaluation/durable-records.mjs`; `writeExport` of `baseline/collect.ts` | names and bytes, as they are and as they were last synced; one action per system call, `PowerLoss`, `LosePower` |
| `ProofRun` | `isolation/run.ts`, `harness/run.ts` | what the run made, what the daemon may still make, the record on disk |
| `BaselineRun` | `baseline/run-case.ts`, `retained.ts` | the stage, the report, its journals and pointer; containers that may land late |
| `BaselineCheck` | `baseline/checks/` | two containers and the check's verdict |
| `Artifacts` | `baseline/artifacts/archive.ts`, `manifest.ts`, `index.ts` | the archive parser, both snapshots, the bundle |
| `Dataset` | `baseline/collect.ts`, `observations.ts`, `decimal.ts` | registrations, supplied records, the report |
| `EvaluationControl` | the control socket of `native-evaluation/gateway.mjs` and `router-continuity/control.mjs` | the gateway's phases, attempts, the transition |
| `SuiteRun` | `router-continuity/suite-run.ts`, `suite-observation.ts`, `overlay/initial-suite.mjs`, `native-evaluation/deployment.ts` | the coordinator, the deployment and its lock, workers, the scope |
| `Custody` | `checkReplay`, `checkTransition`, `checkResultAck` of `schemas/execution/protocol.ts` between two parties | what each party kept, applied and released |
| `WebRead` | `web/src/read.ts`, `App.tsx` | the reads under way and what is shown |
| `MCGrants`, `MCDispatch`, `MCIdentity`, `MCBoundary` | values for the constants, symmetry sets | |
| `MCRouter`, `MCStreams`, `MCClocks`, `MCPrograms` | several modules that share no state, one of which a behaviour follows | |
| `StoreProofs`, `ValidityProofs`, `BoundaryProofs`, `RouterProofs`, `StreamProofs`, `ProgramsProofs`, `RecordsProofs` | theorems and proofs | |
| `FoldFacts` | what a fold over a sequence comes to, for any step; lemmas only | |

`Dispatch` extends `Grants`, so grants change under admitted attempts in every run; its
steps on the grant tables are shown to be grant steps. `Dispatch` instantiates
`AdmissionSlot` with a refinement mapping (the occupant of the slot is the one active
attempt). `Boundary` extends `PolicyGate` and instantiates `RequestLedger`: a request is
live while the provider has it, delivered once anything was released to its caller, and an
attempt is stopped unless its scope is live and the boundary open. The ledger says nothing
of journals, locks or processes, so a request that ended only locally still counts in it.
`Identity` stands alone: `Dispatch` uses only a runner's state from it, and models a
recovery that revokes several runners as several `UpdateRunner` steps.

Operators whose comment starts with "Slip" are plausible mistakes in the operator that
follows them. Replacing the operator by its slip must break a property, which shows that
the property depends on that part of the code.

### How the data was abstracted

In general, identifiers, digests, routes, scopes and texts are members of small sets; a
digest is equal to another exactly when the contents are, or is the content itself.

The daemon:

- `Authority!Envelope` keeps the fields that some check compares, `Budgets` those that are
  compared or charged. An eligibility record is identified by its runner, as there is one
  repository. `eligible` stands for the checks that only read the record.
- A message that repeats a retained one gets the retained answer and changes nothing, so
  it is a stuttering step. Conflicting reuse of a message id is refused and changes
  nothing. Message ids of acknowledgements are taken to be disjoint from event ids.
- `LaunchFenced` is what the owner has verified before submitting a reconciliation; the
  store can only check that the proof is well formed. The model lets an owner submit it
  only when the runner's launch is indeed fenced. That is an assumption on the owner, and
  the mutant that drops it breaks `OneWorker`.
- A transaction reads the clock once. The clock moves freely in both directions.
- Paths that only fixtures use (`assign`, `transition`, seeding) are not in `Dispatch`: an
  admitted attempt goes from assigned to acknowledged, or to a terminal state by
  reconciliation.
- In `Identity` an invitation names its runner (the code preallocates the id) and its token
  (known to whoever was given it), and an owner request carries the certificate pin it was
  authenticated by across its two transactions. Runners' own requests only read.

The boundary and the router:

- The journal's schemas are the constants `Receipts`, `Serial` and `Planner`. Provider,
  policy writer, client and operator are external and may do anything at any time; a late
  writer may still write after its process died.
- `assertCurrent` of a router with receipts may refuse at any time; without, the gate knows
  only whether the router is quiet. Failures of HTTP calls are failures of the operation.
- In `RouterAuthority` a policy revision changes only with the generation, which stands for
  both. SQLite transactions are single steps; a boot loses everything volatile.
- Frames and events are records of what the parsers compare; "bad" is everything that both
  refuse for its form alone. Times in `RouterStatus` are ticks, one snapshot per behaviour.
- The runner, watchdog and daemon of `Lease`, and both parties of `Custody`, are not written
  yet. They are external and use the checks as their comments ask; every message ever sent
  may arrive at any time, any number of times.

The programs:

- `Planner`: a history is its rounds (what the model put out, what was answered); a text is
  valid, valid once the file was read, or invalid. `Transport`: an output is the kinds of
  its items, and any caller may call in any order. `ChatSession`: a message is role, text
  kind and call ids; of the stream parser only what it does to the caller is kept. A call
  comes with its arguments or as an opening part without any, which is not heard
  (`protocol.ts:175`), and its arguments later. The two error handlers of a request differ:
  `transport.ts:106`, of the response, asks what was heard; `transport.ts:110`, of the
  request, does not, and Node calls it also after the response began. So `route_unavailable`
  says nothing of what was heard, and the property claims nothing of it.
- `EvidenceRecords`: power loss keeps any mixture of what a directory names now and what it
  named when last synced, and loses unsynced bytes. `Export`: until the parent is synced
  (`collect.ts:198`) the export's directory may be lost whole. Elsewhere a record is one step.
- The Docker daemon may finish a creation whose caller was given up on, at any later time.
  What a container is asked and answers is one step that succeeds or fails.
- `Transcript`: a run as it went, with up to two fields that one of its five writers got
  wrong (a time, a record missing or doubled, a count). `HarnessWorker`: output lines are
  kinds of events; a line that is refused does what too much standard error does, so the
  instance leaves it out.
- `Artifacts`: an archive entry is type, path, mode and content, its length among it, also
  one that a pax record gives; a path is the sequence of
  its parts, `Folded` what a file system that ignores case makes of one. `Dataset`: times
  are ticks, the seven days of a label's follow-up `FollowUpWindow` of them, decimals are units and a scale of up to `Finest` digits (3 in the run; the amounts
  of its records have two).
- `SuiteRun`: a command of the deployment is one step that succeeds, fails and fences, or
  is killed with its lock left behind; receipts are counted. A kill does not reach the
  command's docker client, so a transient container may start at any time after it; and
  `fence()` swallows a failure to read the record again (`suite-run.ts:34`), so it may miss
  what the record has named since it was prepared. A failed run therefore promises nothing
  of transient containers; the gateway and its relay are in the prepared record, and fenced.
  A worker's start lands at any time before its docker client has ended. `EvaluationControl`: an attempt
  makes one request.
- `WebRead`: the store is a count of its changes. React's double effect of development
  builds is left out; the page is what the production build runs.

## Runs

Bounds are named constants.

| run | question | bounds | why they suffice |
|---|---|---|---|
| `mc_grants` | Does a chain of grants keep its history and its limits? | one task, four grants, five envelopes, two actors, clock 0..3 | a route can be dropped, and come back changed two grants later; a decision number can be reused; an expiry can be latched or undone by the clock at each of them |
| `mc_retries` | What is charged, recorded and given back over retries? | one task, three attempts, one grant, two envelopes, two allowances (one uncapped in cost), daemon starts 1..3 | three attempts exceed every ceiling in some order; each attempt can be stopped, found by a restart and reconciled |
| `mc_regrant` | Is anything handed out on what has changed? | one task, two attempts, two grants, two envelopes, two eligibility records, two profile revisions, clock 0..2, daemon starts 1..2 | each of grant, facts, profile and runner can change before and after each admission, delivery and receipt |
| `mc_two_tasks` | Do two tasks ever share the slot? | two tasks, two attempts, two grants, daemon starts 1..2 | either attempt may be of either task; both may be admitted, stopped and reconciled in either order while the other's runner still runs |
| `mc_identity` | Who can prove an identity and who can change one? | two invitations, four keys, two owner requests, revisions to 4, clock 0..2 | enrolment, rotation and recovery of one identity with a key left for a competing one; a request authenticated before each of them acts after it |
| `receipts` | Is the journal true, and does anything run ahead of it? | `Receipts`, `Serial` and `Planner`; two requests of one chain, two decisions kept, two policies, any number of process deaths | the first request can be sent, lost, recorded or not before the second asks; the process can die at each await and start again |
| `replace` | Does a request leave under the policy it was admitted under, and within the attempt's count? | schema 1; two requests, concurrency 1, two policies, any number of process deaths | a replacement can time out, be retried by the next process, and its first writer write late, before or between both requests |
| `boundary_ends` | Does everything end? | as `receipts`, one process that does not die | provider and router may stall at every await of either request |
| `router` | Do receipts and scopes agree with what providers did? Does a suite over a router tell the truth of what it leaves? | native profile; two requests, two policies, two scopes, two operations per request, generations to 4; suite: four phases, an allowance of six operations, one operation a phase, any two of signal, killed command, refusal and failing storage | three mutations of the policy or profile can fall between two operations of one request, with a boot among them; every phase of a suite can end in each way, and a second interference can meet what the first one left |
| `streams` | Do independent readers agree? | 13 chat frames, streams of up to 5, seven modes; 24 response events of two pieces, streams of up to 7 | a call can be opened, continued, closed and followed by an end and one event more; an item can be announced, streamed, closed and repeated, with a second item among it |
| `clocks` | Does anything outlive what a clock granted? | lease: three requests, validity 4, drift 1, one reboot, time to 7; status: a route of two connections and one foreign, freshness 2, timeout 1, time to 3 | a renewal can be asked, issued late and arrive after the previous lease's end; each denial can age out on its own during a read |
| `programs` | Do the experiments' programs tell the truth? | per program, below | |

The bounds of `programs`: planner budgets with up to one file, one repair and three
requests, two sessions or a harness that sends four times (more than any budget allows); two
writers that retain one record twice; two modes of a proof; a case with its three
containers and a check with its two; three attempts around one transition; lists of three
registrations in one cohort or two, whose runs touch, overlap or contain one another; three calls
and two request ids of a transport, so that two wait while one answers; transcripts of two
and three requests with two wrong fields; three printed events; archives of five entries
(two edits, an alias and metadata before each); two sessions of an attempt; chat answers of up to four
frames; two reads of a page and two changes under them.

Deadlock is checked in the runs of the daemon and in `receipts` and `replace`, where the
clock, a crash or a restart can always move. It is not checked in `boundary_ends` (the
system is done when its requests are), `router` (its generations are bounded, a suite ends), `streams`
(a stream ends), `clocks` (time is bounded), `programs` (programs end).

Properties by run:

- `mc_grants`: `ChainIsWhole` (revisions contiguous, all but the head ended, each once),
  `RestrictionsStayApproved`, `HistoryNeverRewritten`, `AuthorityReturnsByApproval`.
- `mc_retries`: `RowsAgree` (terminal exactly if released, events are the attempt's history,
  a fourth revision is the last, receipts are of the admitting start), `CeilingsHold`,
  `TaskStateFollowsAttempt`.
- `mc_regrant`: `EpochsFollowGrants`, `NothingStaleHanded` (grant, facts, profile, runner).
- `mc_two_tasks`: `OneWorker` (over what runners really hold, not what the store has seen),
  `StopIsSticky`, and `SlotSpec`, the refinement of `AdmissionSlot`.
- `mc_identity`: `KeysAreExclusive`, `NothingSurvivesRecovery`, `RevocationHolds`,
  `ChangesAreTheOwners`.
- `receipts`: `JournalIsTruthful` (a journal never says less than was sent, and any process
  accepts it), `NothingRunsAhead` (a completion is on disk before it is told; a planner's
  chain does not fork).
- `replace`: `SentUnderBoundPolicy`, and `LedgerSpec`, the refinement of `RequestLedger`.
- `boundary_ends`: `EverythingEnds`, liveness of requests and of a close.
- `router`: `OperationsAreAccounted` (receipts tell what the provider did, one operation at
  a time, a scope is spent once over any boots), `PolicyIsHeld`, `SuiteTellsTheTruth`.
- `streams`: `ReadersAgree`, `CompletedHasOneReading`.
- `clocks`: `NoWorkOutlivesItsLease`, `NotReadyIsRecent`.
- `programs`: `AllowanceIsExact` (never exceeded by anybody, never denied to the honest
  session), `DurableIsWhole`, `RunRecordsAreTrue`, `TransitionIsKnown`,
  `DatasetTellsTheTruth`, `TransportTellsOneStory`, `BelievedTranscriptsAreRuns`,
  `BundlesAreTwoEdits`, `CandidatesWereLeftAlone`, `CustodyIsExact`, `OutcomesAreHonest`,
  `PageShowsLatestRead`; the comment before each says what it means.

Properties that several facts make up (`RowsAgree`, `NothingRunsAhead`, ...) are conjunctions
of named parts, each with a comment of its own. The type invariants `GrantTypeOK`,
`DispatchTypeOK` and `IdentityTypeOK` are theorems, and are not run as well.

### Fairness

The daemon's runs assume none: the store has no timer, a stopped or unknown attempt keeps
the slot until an owner proves its end, and nothing obliges an owner to.

`boundary_ends` assumes weak fairness (`Boundary!FairSpec`) of exactly this: the steps of the
gate, because storage answers, every call to the authority runs under a timer of
`wait.ts`, and a caller's abort ends its wait; the steps of each handler, because an `await`
that is settled continues; each request's `Abort`, because its deadline is a timer; and
`CloseLast`, by which a closed boundary closes the gate after its last handler. Nothing is
assumed of providers, clients, operators, the receipts the router gives or writers that
were given up on. The process does not die in that run: a dead process ends nothing.

The other runs check safety only. Their programs wait for external programs under timers of
the same kind, and what matters of them is what they say when those fire.

## Proofs

All proofs hold for every value of the constants under the named assumptions of the
modules, which TLC evaluates in every run: bounds are positive naturals, the values that
stand for "nothing" (`None`, `Unset`, `NoFile`) are none of the things they are compared with,
envelopes pass validation, there are finitely many requests, a planner's scope is serial and
a serial one has receipts (as the boundary builds them).

**Grants** (`StoreProofs`). `Within` is transitive, and what is within an envelope that
respects a retained one respects it too. The inductive invariant `GrantInv` joins types,
contiguous revisions, one end per replaced grant, and that every restriction lies within
the approval it descends from. The last is not inductive on the head alone: each new
restriction is compared only with the head, and transitivity carries it to the approval.
From it follow `GrantTypes`, `ReplacedGrantsEnd` and `RevisionsAreContiguous` (joined in
`ChainKept`), `RestrictionsApproved`, `HistoryKept` and the action property
`AuthorityReturns`.

**Dispatch** (`StoreProofs`). Every dispatch step is a grant step on the shared tables
(`DispatchImplementsGrants`), so the grant theorems hold there. Attempts satisfy
`AttemptInv`: the possible combinations of state, revision, acknowledgement and release
(`Stages`), `EventsAreHistory`, `TerminalIffReleased`, `OneActiveAttempt`. A state with
only `OneActiveAttempt` could move to a second active attempt by reviving a released one;
`Stages` excludes it. What runners hold needs `HandInv`: work that is held belongs to an
active attempt, that was assigned in this daemon start if it is deliverable, receipts are
of the admitting start, and a stopped task has no assigned attempt. From these follow the
parts `SlotIsSingle` and `WorkNeverOverlaps` of `WorkersAreSingle`; `ReleaseIsTerminal`,
`EventsRecorded`, `RevisionsAreBounded` and `ReceiptsOfThisBoot` of `RowsTell`;
`InvalidationStops` and `StaleFactsStop` of `StaleNeverHanded`; `StopsStick`; and
`DispatchImplementsSlot`: initial states map to initial states of `AdmissionSlot` and each
step to a step of it or a stutter.

**Identity** (`ValidityProofs`). `IdentityInv` joins the types with facts that support each
other: every key belongs to an existing identity and every runner to a consumed invitation
(`RowsRefer`), no two invitations reserve one pin (`PinsReservedOnce`), reserved pins are
kept, an identity has one live key and none once revoked (`KeysProve`, from which
`OneLiveCredential` follows), and what the last recovery found stays fenced. None of these
is inductive alone: that a reserved pin is kept needs, at an enrolment, that no other
invitation reserves it; that one key is live needs, at an enrolment, that the new runner has
no keys yet. All four properties of the run are theorems (`KeysExclude`, `RecoveryFences`,
`RevocationKept`, `ChangesAreOwned`); the action properties use two lemmas on what a step
does to one key (`KeyStep`) and to one identity (`IdentityStep`).

The accounts of a task are in `StoreProofs` as well. `EpochInv` says that every dispatched row names
a retained grant of its task, that a task has finitely many rows, and that their epochs
are 1 .. n in the order of their grants (`EpochsAreInOrder`). `TasksFollowTheirLast` reads the
row with the greatest epoch, of which `Stages` says what its state can be. `CeilingsAreHeld`
is about sums over sets of rows, in no order, so a sum is
characterised by what adding one element does to it (`Adds`), and that the folds satisfy
this is proved by taking the least size at which they would not (`LeastNatural`, from
well-foundedness). The invariant `Covers(i, U)` says of each row that everything charged up to
it fits the ceilings of its grant; a later row only adds to later sums.

**Clocks** (`ValidityProofs`). `WorkEndsWithItsLease` says, for any validities, drift, delays and
number of reboots, that running work is within a validity the daemon issued, by the
daemon's clock. The invariant `LeaseInv` relates the two clocks: only what was asked was issued
(`IssuedWasAsked`), a request of this boot was sent, by the runner's clock, no later than it
was issued by the daemon's plus the drift (`SentBeforeIssued`), and work that runs has an
issuance its cutoff lies within (`WorkIsCovered`), which an accepted reply establishes from
the former two. `NotReadyWasDenied` is the same kind of argument for a snapshot of the
router: no row of a table that was read denies later than the router did (`RowsAreHeld`), and an
observation that says not ready ends within a freshness of every denial, with the time of one
read added for legacy rows, which carry no time of their own (`ObservationIsHeld`).

**Transcripts** (`ValidityProofs`). `TheBelievedTranscriptsAreRuns` is about one verification, so
its invariant only carries it on: what is believed was verified of the evidence as it is
(`Verified`). The work is in what follows from the checks, for any number of requests, events and
operations. `FlattenSeq` is taken one sequence at a time (`FlatTrace`, `FlatOfTrace`), from which
follow where each of the sequences lies in what they come to (`FlatPlaces`), that tables are read
over sequences of sequences one by one (`ReadFlat`), and that what is printed in steps which only go
up is the steps one after the other (`StepAfterStep`, `StepsClimb`). So the tools that ran are the
released calls (`CallsAreCarriedOut`), and as no call is printed twice each ran in the step of the
request that released it (`RunsAreInStep`), which with the requests' times puts the work in order;
each request carries the results of the one before it and its own (`ResultsOfRequest`); and every
physical request has a place of its own, of which the last one of each request is its output
(`UnitsAreRequests`, `OutputsAreDecisions`).

**Boundary** (`BoundaryProofs`). A process can die at any await, so the journal in memory, the
copy on disk and what happened outside differ at times. `Good(j, p, o)` says of one journal what
makes it a journal that the next process accepts and true of what the provider was sent, `p`,
and the callers were given, `o`. `BoundaryInv` says that the disk's copy and, in a process that
lives, the gate's are good (`GoodJournals`), that the queue holds what waiting handlers asked
for, that an answer nobody has read is of the request it is for (`AnswersHold`), and what the
policy in force is (`PolicyInForce`). Steps fall into those the gate takes (`GateMove`) and those of
one handler, which leave the journals alone (`HandlerMove`); the lemmas say what a class of
steps may change, and the classes keep the invariant. From it follow `TheJournalTellsTheTruth`,
`NothingRanAhead`, `SentUnderItsPolicy` and `TheLedgerIsKept`, the refinement of `RequestLedger`.

**Router** (`RouterProofs`). `RouterInv` joins what the tables tell: a receipt claims of its
operations what was seen of what was sent (`OperationsTell`), handlers run on receipts that are
not done (`HandlersKnown`) and, those of this generation, by the policy on record
(`HandlersCurrent`); a mutation finds every request quiet (`MutatesAlone`) and is the only writer of
its generation (`WritersInOrder`); with a native profile all requests but one are quiet
(`OthersQuiet`) and each was prepared (`PreparedFirst`); and what was sent under a scope is
counted, pair by pair of a request and an ordinal, by what the scope paid (`ScopesSpend`).
`OperationsKeptInAccount` and `PolicyWasHeld` follow; a policy changes under `MutatesAlone`, and a
late writer of an older generation finds its lease gone.

**Streams** (`StreamProofs`, `FoldFacts`). Each reader takes a frame by a fold over its parts, and
the frames one after the other. The prover cannot take the step of a fold as the parameter of a
theorem, but it can as the parameter of a module: `FoldFacts` has `CONSTANT Op(_, _)`, proves by the
least position at which it would fail that `FoldLeft(Op, base, s)` is what taking the elements in
turn gives (`FoldTrace`, `FoldOfTrace`, `FoldAppend`), and is instantiated with each step.
`ReadersStayAgreed` is both halves of `ReadersAgree`. `ReaderInv` says that what the boundary's
reader has, if it refuses nothing, is what the frames say: of each call the fragments sent for its
index in their order, one finish, which is the last choice's, and the texts counted
(`TellsFrames`). `Agree` relates the two readers: while the observer takes what comes and its calls
are the boundary's business, the boundary has the same calls and the same finish, has refused
nothing, and has completed nothing before the end marker and exactly that after it. A part is
taken by both or by neither only if it carries an identity the boundary knows, which the
calls of a later state tell (`KeepsIds`), so the invariant is stated of the calls as they are and
carried forward through the parts of a frame (`PartsAreReadAlike`).

`CompletionsAreReadOnce` is `CompletedHasOneReading`. `ResponsesInv` says of the observer's records
what the events told of each item (`ItemsRead`): its channels hold the pieces streamed for them and
what full texts said, its index and whether it is done are as it was announced, and of an item
without a record nothing was told (`Untold`); once there was a terminal event it is the only
one, and if it completed the response then its output has one reading (`Ended`). That a
repetition agrees with what was streamed is a guard of the event, not of the end, so a
repetition before the first piece must be carried as a prefix until then. Texts are sequences of
`Pieces` (`ResponsesAssumption`).

**Programs** (`ProgramsProofs`). `TheLatestReadIsShown`: a read that is not over is the latest, and
what is shown is of a read that was over when no later one had begun (`WebInv`).
`TheTransitionIsKnown`: a transition under way keeps admission shut, and an intent is on disk
before the connection can have been marked (`ControlInv`). `CustodyIsKept`: what one party keeps
agrees with what the other applied under the same identity, whatever is repeated.
`TheAllowanceIsExact`: the n-th admitted request carries n - 1 rounds, each history a prefix of
the next (`GateInv`), so a fork or a repeat is refused; and the only session is where the
gate's last decision left it (`SessionInv`), so an honest one is never refused.
`TheTransportTellsOneStory`: one call is under way at most (`CallsInv`), what was sent was sent by
a call of its own and all but the last are completed (`SentInv`), and the conversation is at one
point that tells on what was sent (`StoryInv`).
`CandidatesWereAlone`: what the worker accepted is what it has read, of one session and of calls
that ran once (`ValuesAreRead`), and whoever killed the child has said so to the verdict
(`WorkerInv`). `TheOutcomesAreHonest`: a conversation is whole between requests, its calls are of
answers before the one under way (`Working`), and it grows by a call with its answer
(`CallFollows`) or by words (`WordsFollow`); so no request is refused, for any budget that is not
above the default one (`ChatBudgetAssumption`) and any response.

**Records** (`RecordsProofs`). `TheDurableIsWhole`: before an acknowledgement the writer had synced
the very file that has the name and the directory that holds it (`WriterHolds`), and the name
is never taken twice (`NameIsTaken`, `AcknowledgedIsKept`); an export's files
are whole before its last one appears (`ExportInv`). `TheRecordsOfRunsAreTrue` has three parts.
A containment proof remembers a name before it asks for it and claims cleanup only of names
it found gone with no creation unanswered (`CleanupKnows`, `ClaimsAreTrue`). A check knows, phase by
phase, what the daemon may have of its container (`ContainerKnown`). A run has what the stages
before it made (`StagesAreDone`) and destroys the repository last (`ReportsFollow`), so a passed
journal that no later one takes back is of a run that ended as it says (`JournalsFollow`).
`TheSuiteTellsTheTruth`: phases begin in order, and a worker lives past its phase only where
Docker refused (`PhasesInOrder`); the evidence has counted no more than what ended
(`ReceiptsTell`, `PassedTells`); a transient container is left only by a command after which
the run can no longer pass, and nothing is swept before the deployment was stopped or fenced
(`DeploymentTells`), so what the suite writes at its end is so (`OutputTells`).
`TheBundlesAreTwoEdits`: the parser's table has the folded name of every file and of every
directory below the root (`EntriesKnown`), a pending name is of the entry just read (`NamePends`), so
no two files share a name and none lies under another (`EntriesApart`), and what was collected is
what extraction leaves (`ParsedIsExtracted`). That two trees which compare so are one tree with
those texts edited is `ComparedIsEdited`. It assumes that names are sequences of known parts
(`ArchiveAssumption`).
`DatasetsTellTheTruth`: what was collected is a refusal or the report of records that were each
valid, for a registered case, and whose operators worked serially (`DatasetInv`). Its totals are
folds: `SumTrace` and `PowerFacts` say what they come to, by `FoldFacts` again, so bringing
amounts to one scale changes no amount (`ScaledTwice`), a sum of decimals is exact (`SumIsExact`),
measured and estimated effort add up to what was worked in a phase (`EffortIsExact`), phases to
what a case cost and cases to what the cohort did (`PhasesAdd`, `CohortAdds`). It
assumes of an amount that its digits after the point are bounded (`Finest`, any natural: an amount
is a number of JSON as JavaScript prints it) and of a record the types its parser
establishes (`DatasetAssumption`).

Only model-checked is `EverythingEnds`: liveness under fairness and `ENABLED` are beyond the
prover.

No module that a proof uses declares a `RECURSIVE` operator.

## Not modelled

- Schema migration between versions: a fresh store and a migrated one have the same tables,
  and migration runs under the exclusive lock before anything else. File locks, path checks.
- `assign` and `transition` of the store: only fixtures of the tests call them.
- Paging of invalidations: one transaction at a time draws the sequence, and the repository
  has no consumer that keeps a cursor.
- Repository selections and checkouts: a selection is one idempotent insert; a checkout is
  the behaviour of git and of the file system.
- Codecs, certificates and TLS, HTTP routing and read endpoints, markup: they keep no state
  and their inputs do not interact. `observe` of `protocol.ts` only reads.
- `planner-plan-schema.mjs`, the bodies that `translate` produces, validators of documents
  and tables and the projection of the router's tables: pure functions of one input, which
  the models take as a verdict.
- The credential refresh of the router's own connections outside the native profile: code of
  the router that the overlay calls.
- Fixture gateways (`planner-probe/router-gateway.ts`, `router-boundary-bridge/gateway.ts`,
  `harness/router-gateway.ts`), the byte relay `harness/native/relay.ts`, the integration,
  regression and probe scripts: they drive the programs above in one fixed order.
- Vendored and generated data.

## Plan

Every safety property that a run checks is proved; `EverythingEnds` stays with TLC. What could
be added is more of the parts listed above as not modelled or partly modelled.
