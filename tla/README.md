# Kineto in TLA+

Specifications of the parts of Kineto that spend the director's money, and of
what must stay true of the project's files while requests, crashes and late
answers cross each other. Modules are translated from the Rust sources;
`PROJECT.json` maps every definition to the lines it stands for.

- [The system](#the-system)
- [The modules](#the-modules)
- [The runs](#the-runs)
- [What is proved](#what-is-proved)
- [What the code does not keep](#what-the-code-does-not-keep)
- [What is not modelled](#what-is-not-modelled)
- [Plan](#plan)

## The system

Kineto is a desktop application for directing films shot by shot. A project is
a directory of JSON documents and media. The engine is a set of Rust crates
inside the application's process; a Dart interface sends it commands over FFI,
and agents over MCP. Providers make images, videos, speech and documents for
money. Most of the engine's difficulty is in these calls: they are slow, may be
charged without an answer arriving, and must not be made twice by mistake.

| Component | State | Operations | Interacts with | Module |
| --- | --- | --- | --- | --- |
| Paid job runtime, `kineto-job-runtime` (3 400 lines, tests included) | intent and reservation files under `.kineto/jobs`; process-wide store lock, per-job locks, claims, permits | `prepare`, `invoke_prepared`, `acknowledge_result`, `retire_*`, `reconcile_startup` | adapters of the providers (callbacks); every paid request | `JobLedger`, `JobRuntime` |
| Its limiters and job locks | two registries of weak references | register, acquire, release, sweep | every runtime of the process | `LiveRegistries` |
| Session, `kineto-core/src/session.rs`, `turn.rs` | inbox, queue of waiting commands, requests under way, loaded shots, followed videos; the turn | submit, arrive, begin, take in, finish videos, close | interface (messages), request threads, watchers | `SessionDispatch` |
| Keyframe generation, `generation.rs`, `minimax.rs` | receipts and refusals under `.kineto/generation`, intents, the shot's files | generate, recover, attach, acknowledge, release | job runtime, shot files, provider | `KeyframeGeneration` |
| Shot files, `kineto-project/src/shot.rs` | `shot.json`, `artifacts.json`, `selection.json` of each shot | direction, attach, select, lock, reset, videos; load and reconcile | generation, video, session | `ShotApproval`, `ShotPublication` |
| Shot video, `video.rs` | receipts, remote tasks, watchers | submit, watch, finish, recover | job runtime, shot files, session | `ShotVideo` |
| Paid documents, `documents.rs`, and their revisions | revisions of analysis, screenplay, bible, shot plan | request, settle an earlier attempt, record, edit, lock | job runtime, language models | `PaidDocument` |
| Shot plan, `shot_plan.rs` of core and project | the plan's revisions, each shot's `shot.json` | plan, plan a scene again, edit, lock, write the shots | screenplay, bible, shot files | `ShotPlan` |
| Speech and voices, `speech.rs`, `voice.rs` | audition logs, audio, receipts | speak, recover, choose, lock | job runtime, speech providers | `SpokenTakes` |
| Style, cast, voice, dubbing records and stored media, `media.rs` | a log and a lock of each kind, media files | make from what is locked, choose, lock; dry run, collect, reconcile | paid images and speech | `MediaCollection` |
| Agents' desk, `kineto-mcp-server/src/desk.rs` | the book of requests, the open session | an agent's command, the director's word, lapse, withdraw | session, application, MCP | `AgentDesk` |
| Agents' grants, `oauth.rs` | agents and grants in a file, authorizations and codes in memory | register, authorize, exchange, turn over, disconnect | desk, HTTP threads | `AgentGrants` |
| Project files, `fs.rs`, `manifest.rs` | manifest, directories, temporary files, writer lock | atomic replace, create, open, upgrade | all of them | `DurableFiles`, `ProjectFiles` |
| Casting images, `paid_image.rs`, `cast.rs`, with the generators `minimax.rs`, `plugin.rs` | casting log, plans, receipts, sent calls, proofs of refusal | audition, recover, import, reject | job runtime, a provider or a plugin | `PaidImages` |
| Export, `export.rs` | the package's folder and two beside it, outside the project | export, restore what was interrupted | session, file system | `PackageExport` |
| Workflow, recipe, timeline, prompts | none of their own | computed from the files | interface | none |
| Plugins, tools' servers, agents' command lines, `host.rs`, `mcp.rs`, `acp.rs`, `process.rs` | a child process, its pipes and reader threads, for one call | start, write, read, give up, close | adapters | `ProcessCalls` |
| Provider clients | a connection for one call | one request and answer | adapters | none |
| FFI and desktop app | handles, what is published | calls and callbacks | session | none |

`PROJECT.json` lists all of them with their sources and says of each whether it
is modelled.

**What is hard.** The process may stop between any two files, and an operation
of the runtime replaces up to three per record. A provider's answer, charged,
may be lost before it is written down. A request keeps its shot while it
waits outside the turn and records into it afterwards. A shot plan locked in
between changes which shot a queued command means. Candidates of one generation
fail one by one, are kept under IDs that a later generation uses again, and the
shot's intent may have changed by then. A video's task is known to its receipt
and to nobody else until the job says so. An answer, an edit and a recovered
answer write to one numbering of revisions. Closing waits for threads that need
what the closing thread holds.

**What makes the components correct.** The runtime: work paid for leaves a
trace until someone gives it up; acknowledged work is never offered again; a
record is never written over from an older read; whatever a crash leaves, the
next lookup repairs. The session: commands about one thing run in order and
one at a time; nothing waits needlessly; closing ends, and nothing writes after
it. Keyframes: no candidate is paid for twice unless the director risks it;
what was answered is kept until it is in the shot, and gets there. Shot files:
every crash between two files is one that loading brings forward. Videos: one
remote task per submission, followed or found again. Documents: an earlier
attempt is settled before the next, and what is recorded keeps its bytes. The
shot plan: an ID is one shot for ever, and what is in play is what is written.
Speech: a number is paid for once and its audio is in the log or at hand. Media:
what is locked, or needed by what is, is never let go. Agents: what costs money
is sent, and an agent connected, on the director's word only. The registries: all
that are at one provider share one limiter, all at one job one lock. Casting: an
image is paid for once, and an answer is recorded or at hand. Export: a package
under the director's name is whole, and is given up only for a whole new one.
Processes: what one said before it ended is heard to the end, and none runs on
when its call is over. Project files: each is a whole version, and not older than
what a write returned for.

## The modules

### JobLedger

What the runtime promises, without files or locks: one line per piece of paid
work, which is *new*, *open*, *invoked* or *settled*, and the set of work a
provider is being called for. Work opens in a slot that no other unfinished
work holds; only open work is called for; settled work stays settled; work is
given up only while no call for it runs; a crash ends calls and nothing else.

### JobRuntime

`crates/kineto-job-runtime/src/lib.rs`. A step is one atomic replacement or
removal of a file, because that is what `fs.rs` makes atomic and what a crash
can fall between.

| Variable | Code |
| --- | --- |
| `intent` | `.kineto/jobs/intents/<job>.json` (`RuntimeIntent`) |
| `reservation` | the reservation of each provider and idempotency key |
| `live`, `claims` | the `JobRuntime` values that exist, `LIVE_JOBS` |
| `txn` | the store operation under way, who holds `lock_intent_store()`, and what it has yet to write |
| `op` | who holds a job's operation lock, and how far the call it holds it for has come |
| `waiting` | calls that wait for a job's lock |
| `sweep` | acknowledgements whose retention pass is still to come |
| `paid`, `acked` | history, for the properties |

`Prepare*` with `SaveReserved`, `SaveNewIntent` and `SaveActive` are `prepare`
and `create_with_reservation`; `BeginInvoke`, `ProviderAccepts`,
`ProviderAnswers`, `RecordAnswer` and `LoseAnswer` are `invoke_prepared`, with
the answer saved or its save failing; `Retire` with `UnlinkIntent` and
`RemoveReservation` is `retire_where` for all four callers;
`PruneReconciled` with `SavePruning`, `DiscardIntent` and `SavePruned` is
retention; `BeginReconcile`, `ProviderReports` and `RecordReport` are
`reconcile_startup`. `FailTxn` is a write that fails, `Crash` a process that
stops.

Simplifications: a runtime has one call waiting at a time; a permit a refused
invocation holds for an instant, and the passes of two overlapping
acknowledgements, are merged; the scan of `reconcile_startup` and its claim
check are one step, since the record is read again under the job's lock; a
failed first write changes nothing and is no step; a report whose save fails
reads as one that found nothing. Any Reconciled record may be the oldest one
retention removes.

### SessionDispatch

`session.rs` with `turn.rs`, and from `video.rs` the watcher. The worker's
iteration is modelled step by step while it holds the turn: it takes a message
(`Arrive`, `TakeIn`) or wakes (`WakeUp`), begins what need wait no longer
(`StartWaiting`, `StartedAll`), attaches finished videos (`FinishVideo`), and
rests. Each stretch of a request's thread with the turn is one step
(`Prepare`, `Record`); its provider answers without the turn
(`ProviderAnswers`). `waiting`, `running` and `scope` are the `Dispatch`,
`shots` is the worker's map of loaded shots, `copy` the `ShotWorkflow` a
request took with it, `disk` what is in a shot's files.

`MustWait` is `must_wait`: overlap with a request under way, with one that is
ahead in the queue, or the cap. Scopes are worked out again each time from the
shots now in play (`KeyOf`). Commands are modelled by class: keyframes,
videos, lock, reset, a locked shot plan, a paid document, a local edit. A shot
is reduced to the generations and videos its files record and to whether its
keyframe is locked. Left out: the open and its recoveries, snapshots
and sinks, thread spawn failures, panics except of a keyframe request, several
videos of one request.

### KeyframeGeneration

`generation.rs` with the MiniMax adapter `minimax.rs`, for one shot. `Generate`
is `generate_noted` up to its first write; `RetireUnresolved` the consented
retirement; `RetireFailed`, `Prepare` and `Begin` are `complete_inner`;
`CountAttempt` to `RecordFailure` are the calls, each on a thread of its own,
interleaved; `CallsEnd` attaches all candidates or none; `AcknowledgeResult`
and `Release` follow in order. After `Crash`, `Open` is `reconcile_startup` and
`unfinished_with`, and `Complete` runs the recovery of each plan found.

It stands on the two modules before it. Operations of the runtime on an intent
are single steps here, as LedgerImplemented and NoDanglingMapping justify: an
interrupted operation reads as one that did or did not take place. The director's
commands do not interleave with a generation, as `OneAtATimeInOrder` has it of
commands about one shot. The publication of the shot's three files is one step
here, as `ImplementsApproval` has it.

The input hash of a candidate covers its shot's direction and not the rest of
the intent, so `Brief` has both. `charged` counts what a provider accepted and
`consented` how often the director risked paying again.

### ShotApproval

What a shot's three files promise together: one record of where each keyframe
and each video stands, what it was made for and from, changed at once. A
generation comes whole, under IDs never used, and never over a lock; only the
chosen keyframe is locked, and only while the shot is directed as it was made
for; a video is locked only when made from the locked keyframe for the direction
in force; a locked video gives way to nothing but a reset; a record never goes.

`MakeWayForKeyframes` takes the candidates of a generation out of play before those of
the next are there, and only while none of them is chosen. It takes three generations
to see: the second is stopped before `selection.json`, so that loading recovers it from
its records, and the third counts the revision on first; until its records are written,
what a load finds is a selection of the first generation, all superseded.

### ShotPublication

`kineto-project/src/shot.rs`, with what calls it in `video.rs`, `session.rs`
and `shot_plan.rs`, for one shot.

| Variable | Code |
| --- | --- |
| `disk` | `shot.json` (`shot`), `artifacts.json` (`keyframes`, `videos`), `selection.json` |
| `memory` | the `ShotWorkflow` the worker's map holds between commands, or none |
| `pending` | the operation under way: the files it has still to write, and the copy it writes them from |
| `planned` | the direction the locked shot plan gives the shot |
| `plans`, `jobs` | keyframe generations planned and videos asked for, whose results may still arrive |
| `left` | videos whose attachment failed, which the session no longer follows |
| `astray` | history: an operation was interrupted over the mixture an earlier interruption left, or a session went on with an older copy than the files |

An operation checks the copy in memory, works out the next one and leaves its
files in `pending`; each `WriteNext` replaces one, and the last makes the copy
the session's. `Reopen` at any point is a crash. `FailWrite` fails before or after
the rename (`write_atomic` may fail syncing the directory): the copy in memory
stays as it was, except that of a video, which is read again. `Load` is
`load_alone` with the three recoveries: `RecoverGeneration`, `RecoverCleared` and
`ReconcileStatuses`, refused where `Reconcilable` or `Valid` fails. `Materialized`
is a locked plan written over `shot.json`, by `LockPlan` and at every open.

A direction stands for the shot's whole intent. `made` of a keyframe has both
directions staleness compares, that of the input hash, from the plan, and that
noted when it is attached. Any write may fail and the process stop at any point, as
often as it likes; nothing of it is assumed away. But loading repairs a mixture in memory
only, and a failed write leaves the session the copy it had, so not everything the
repository says of recovery holds then. `astray` notes when that has happened:
`Interrupted` sets it when a write is cut short while the files held something other than
the session's copy as the operation began (`settled`), or when the session keeps a copy
the files no longer match; so does a plan that is not written out. What the module
promises of a shot's recovery it promises until then, and `EveryBoundaryLoads`, which is
stated without it, is refuted (below). Copies of the shot that a
keyframe request takes with it are `SessionDispatch`'s matter.

### ShotVideo

`video.rs` with the session's watchers, for one shot. `takeRecord` and
`videoRevision` are in the shot's files, `videoIntent` is the job, `videoReceipt`
the receipt, `task` the provider's tasks; `ask` with `started` is the request
under way, `watch` the threads that follow takes, `finishing` the take the worker
is at. `AskVideos` is the preparation of a request; the steps on `ask` are
`submit_one`, write by write: the refusal or attempt found in the receipt, the
retirement of a job risked or refused, the receipt before the call, the call, the
task in the receipt, the job invoked. `StopAsking` ends a request at the first take
that fails; `FollowStarted` hands those submitted to watchers. `FetchClip`,
`NoteClip` and `StopWatching` are `watch`, `AttachTake` to `RemoveReceipt` are
`finish`, `OpenVideos` what an open finds in flight. Every write may fail and
the process stop between any two.

### PaidDocument

`documents.rs` over `revisions.rs`, for one kind of document: its log, its files,
the job, receipt and refusal of each revision. A request runs as `generate` has
it: which revision is next (`NextRev`), what an earlier attempt under it came to
(`UnresolvedAttempt`, giving it up or refusing), `ForgetRefusal`,
`PrepareDocument`, `ReadReceipt`, `CountTry`, the call, then file, receipt, job,
log, acknowledgement and removal, each a step of its own. `SaveEdit` is the
director's edit, `LockRevision` a lock, `OpenDocuments` and `RecoverDocument`
what an open does. Models are charged per call (`PaidModels`) or are agents
that are not. A job that was reconciled by an earlier answer may have another
input's hash than the log; `DocumentIsPaidOnceAndKept` allows for it.

### ShotPlan

`shot_plan.rs` of both crates. `planLog` has of each revision its shots by scene,
what its scenes and entries were when it was asked for (`read`, `entry`), the
plan it was made from (`base`), and, as history, what each scene's shots were
really planned from (`from`). `PlanAnswered` and `ReplanAnswered` number the
shots of an answer that came while the screenplay, the bible or the plan may have
changed; `EditScene` is the director's edit; `FreshIdFor` is the rule for an
added shot's ID. `LockPlanRevision` marks the revision and leaves in
`writing` the shots `WriteShot` writes one by one; `OpenPlans` writes them
again.

### SpokenTakes

`speech.rs` with `voice.rs`: auditions, numbered per character. Requests for
different characters run at once and hold the turn but around a call, after which
they wait for it to record the answer or to end; a session has one speech provider
and a later one may have another, while jobs are kept apart by provider.
`ChooseNumber` to `RecordSpeech` and `EndSpeech` are one request;
`Retires` is which of the jobs left over opening for new speech gives up;
`OpenSpeech`, `RecoverAgain` and `RecoverAnswer` record what earlier calls left.

### MediaCollection

What is made of each kind, style sample, portrait, audition and line, from what is
locked of the kind before, and how it is let go. `StartMaking` and `FinishMaking`
are a paid request, between which the director may lock something else;
`LockMedia` has the four locks' checks of what an item was made from.
`PlanCollection` is the dry run, `CollectMedia` with `MarkEvicted` and `RemoveMedia`
the collection, owner by owner and file by file, whose rule is worked out again
when it runs (`StillCollectable`); `Meddle` is a file changed from outside,
`OpenMedia` the reconciliation.

### AgentDesk

`desk.rs` with the application's `mcp_server.rs`. A tool call looks at the open session
twice: `Tools::call` takes it to work out what the command costs (`TakeCall`, `Free`), and
`Desk::run` takes it again (`TakeAgain`), refusing when none is open, to send a free
command to it (`RunFree`) or to note one that costs in `book` (`NotePaid`). The two may be
different sessions: `session` and `to` of a call. `Decide` is the director's word,
`LapseWaiting` and `DropSession` the application's closing after `TakeSession`,
`LookAtRequest` every look that may find an entry lapsed, `AskToConnect` and `Withdraw`
the requests of `oauth.rs`. Each stretch under a lock is a step. `sentTo`, `word` and `toldNever` are history.

### AgentGrants

`oauth.rs`: agents on the internet register, ask to be allowed, get a code, a
grant of tokens for the code, and new tokens for the old. The three mutexes
are let go of one before the next is taken, so a request that is between two is
in `atWork`. `stored` is the list in memory, `agentsFile` the file that each
change replaces, or fails to. A grant is told by its authorization and by how
often it was turned over, which stands for its tokens; `holds` is what the agent
was last given, if the answer reached it.

### LiveRegistries

The two registries of `job-runtime`: limiters by provider and locks by job, both
of weak references, so that an object lives while someone holds it (`limiter`,
`heldBy`) and the registry may name one that is gone. `NewRuntime`, `DropRuntime`
and `ReleaseLimiter` come and go with runtimes; `ComeToJob`, `EnterJob`,
`AcquirePermit`, `ReleasePermit` and `LeaveJob` are a call. What `JobRuntime`
takes for granted of locks and permits is shown here.

### PaidImages

An audition of one character, `generate_all` over the log of its casting. First
what earlier ones left is finished: `KeptAnswer` to `PluginAnswers` are
`reconcile_startup` for a job, `FinishImage` what it found, and a fault of asking
a plugin passes the job over (`PluginUnheard`). `OpenRefused` and `RetireImage`
settle jobs without an answer, `NumberImages` chooses numbers and looks,
`PrepareImage` writes plan and intent. Then all are called at once
(`BeginCall` to `SaveInvokedImage`), and recorded in order (`AttachImage`).
MiniMax's answer is known from its receipt only; a plugin's call is in `sentCall` before it is
made, so it can be asked again. `generator` changes from session to session.
The writes of one answer are one step that may be cut short, since nothing else
touches that number's files meanwhile.

### PackageExport

`folder` has what is under the director's name, in the folder the package is made in
and in the one an earlier package is set aside in. `Restore` to `MoveIn`
and `PutBack` are `export`'s steps; writing and removing a folder can be
cut short and leave part of it. `exchanges` is whether the file system exchanges
two folders in one step. Every step may fail (`StepFails`) and the process stop, and the director
may take the package at the name away (`TakeAway`).

### ProcessCalls

One call of one process, of four kinds, told apart by `asking.kind`: an operation of a
plugin (`host.rs`), a use of a tool's server (`mcp.rs`), a completion by an agent
(`acp.rs`), an agent's command run to its end (`process.rs`).

| Variable | Code |
| --- | --- |
| `asking` | the calling thread: where it is in `run`, `request`, `call` or `run_to_end`, and what it will return |
| `unsent`, `inPipe` | what `write_all` has still to write, and what lies in the process's input |
| `outPipe`, `reader`, `heard` | the process's output, the thread that reads it, what came over the channel |
| `child`, `heir`, `said` | the process, a process it left behind with its pipes, all that was written |
| `late`, `cancel` | the deadline, the caller's flag |

`SendPiece` is the calling thread's `write_all`, `WriterPiece` that of a command's own
thread; either waits while the pipe is full. `TakeMessage` and `StopWaiting` are a
conversation, whose `NextStage` is the next request and, with an agent, to forget the
session whatever came of it; `Close` is its end. `StopLate`, `StopCancelled`,
`TakeLine` and `SeeExit` are the polling loops, `JoinReader` and `DrainOutput` what
follows the exit. Everything the process does is its own affair.

### DurableFiles

What the other modules take for granted when they take the write of a file as one
step: each file is replaced as a whole, one version after another, and a version
that was put there by a write that returned outlives a loss of power. A version of
which the write has not returned may go or stay.

### ProjectFiles

`write_atomic` with `ensure_directory` (`fs.rs`), step by step and for several
threads in one new directory, and `create_with_files` (`manifest.rs`).
`inPlace` is what one finds under a name, `mayStay` what a loss of power may leave
there: bytes not flushed are `Torn`, and a name not flushed may be the former one.
`dirNamed` is whether the directory's own name was flushed above. `WriteFails` and
`CreateFails` are a failure at any step with the removal of what was put beside,
`StopProcess` a stop, `LoseThePower` a loss of power. The project that is created
is one thing with three values, absent, `Torn` and there.

### How they compose

`JobRuntime` implements `JobLedger` by the instance `Ledger` at its end: what
an intent file and a reservation amount to is `StandingOf`, and the calls under
way are those that hold a job's lock for an invocation. `KeyframeGeneration`
uses the ledger's promises for its candidates: its intents are the lines of the
ledger for the candidates' slots. `SessionDispatch` is what decides when a
generation may run and which copy of the shot it attaches to. `ShotPublication`
implements `ShotApproval`: its instance `Approval` maps the files to what a load
would find in them, so that each write is a step of the abstract record or none.
`ShotVideo`, `PaidDocument`, `SpokenTakes` and `PaidImages` take an operation of the runtime on an
intent as one step, as `KeyframeGeneration` does, and `ShotVideo` takes attaching a
video to the shot's files as one. `AgentGrants` asks the desk and waits for its
verdict; `AgentDesk` sends commands to the session `SessionDispatch` models.
`ProjectFiles` implements `DurableFiles` by its instance `Durable`, which is what all
modules with files in them stand on; `ProcessCalls` is the inside of one call of a
plugin or an agent, which `PaidImages` and `PaidDocument` take as a call that answers, fails
or is lost.

`MCParts` puts the parts that share no state at this
grain, behind one variable `part` that says which of them runs; the others stay as
they begin. Its states are the sum of theirs. Their product would show nothing
more, since no action of one reads what another writes.

## The runs

| Run | Question | Bounds |
| --- | --- | --- |
| `runtime_keys` | safety and the ledger, with crashes and failed writes anywhere | 2 runtimes, 1 provider, 1 job with 2 keys, 2 attempts, retention keeps none |
| `runtime_locks` | locks come free and waiting ends | 2 runtimes, 1 job, fair threads |
| `session` | order, cap, one video, commands answered and closing ended, videos settled, quiet after the end | 3 commands of every class, 2 shots, 2 plans, 2 requests at once, fair threads |
| `session_late_video` | a finding, below | 3 commands on 1 shot |
| `keyframes_paid` | money and answers across partial failures | 2 candidates, 2 revisions, 3 generations asked for, 2 attempts, a change of direction, a crash |
| `keyframes_blocked` | a finding, below | 1 revision, 2 generations, no crash |
| `publication_crash` | what every mixture of the files amounts to | 2 candidates, 2 generations of keyframes and 1 of videos with 2 directions, 3 and 2 where all is for one (`MoreInOneDirection`), stops and failed writes anywhere, followed until the shot goes astray (`StillKept`) |
| `publication_boundary` | a finding, below | 2 candidates, 1 direction, 2 generations of keyframes, 1 of videos, stops and failed writes anywhere |
| `publication_late_video` | a finding, below | 1 candidate, 2 generations of videos |
| `parts` | what each of thirteen parts promises, whatever stops or fails | below |
| `video_paid_again` | a finding, below | 1 take, 2 requests |
| `plugin_hangs` | a finding, below | 1 operation of a plugin, a request and an answer of one piece each, fair threads and clock |

**Why the bounds are enough.** The runtime's interference is between two calls
for one job, or between one call and a store operation on another; a third
runtime adds no new pair, and the theorems below hold for any number. Two keys
of one job are two input hashes of one artifact, the case `prepare` refuses.
With retention keeping none, each acknowledgement prunes; passes over several
records (the second branch of `NextPruning`) are beyond the run and covered by
the proof. In the session, overtaking needs
three commands: one under way, one that waits for it and a third; a plan among
them moves the third's place. A generation has three candidates in the code
and two in the runs, since a candidate concerns its siblings only as all, one
or none of them; three generations are what a third attempt of one intent
takes with a limit of two, which is the only way past the limit. What a load finds in
a shot depends on the latest generation and on the one the selection names, hence two
of keyframes, and a third, with a second of videos, where all is for one direction; two candidates are the least a choice can move between. Crashes,
loads and plans are not counted: a shot may be interrupted any number of times.
The theorems of `JobRuntime` also cover what no run has, runtimes of different
providers among it.

In `parts`:

| Part | Bounds |
| --- | --- |
| `ShotVideo` | 2 takes, 2 inputs, 2 tasks and 2 attempts of each, 2 requests, 1 generation attached, 1 stop: a failed take behind a submitted one, and a retry under another input |
| `PaidDocument` | a model charged per call and an agent, 1 input, 2 revisions, 3 requests, 1 stop, 3 texts: an edit between two answers |
| `ShotPlan` | 2 scenes of which one comes, goes or changes, 3 revisions, 3 added shots, at most one in each scene of an answer, numbers up to 2, 1 change of screenplay or bible, 1 stop; an answer says every kept shot anew. IDs that come with an added shot are the first one's or the next: the ones that collide |
| `SpokenTakes` | a built-in provider and a plugin, 2 characters, 1 audition each, 3 requests, 2 answers, 1 stop |
| `MediaCollection` | 2 samples, 2 portraits, 1 audition, 1 line; the least window of recent takes, 1 stop; files outside change to the first sample's |
| `AgentDesk` | 2 commands, 1 request to connect, 2 sessions, a book that remembers one answered request |
| `AgentGrants` | room for one agent, two that register, 2 authorizations, 1 turn, 1 stop |
| `LiveRegistries` | 2 threads, 2 runtimes of one provider made and dropped any number of times, ceilings 1 and 2, 2 jobs, 3 objects to use again |
| `PaidImages` | MiniMax and a plugin, 2 images, 2 looks, 2 auditions, 3 answers, 2 attempts, 1 import or rejection, 1 fault: a failed write or question, or a stop |
| `PackageExport` | 4 exports, with and without an exchange of folders, 2 packages taken away; every step may fail, any number of stops |
| `ProcessCalls` | all four kinds, a request of up to 2 pieces in a pipe of 1, up to 3 pieces said, of which a plugin's answer may have 2: the least at which each side can wait for the other and an answer be too long |
| `ProjectFiles` | 2 threads, 2 files of one new directory, 2 versions of each; 2 who create one project; any number of stops and losses of power |
| `ShotPublication` | 2 candidates, 2 clips, one direction, 1 generation of each; every write may fail, any number of crashes at any time |

One stop is what a half-done operation and its recovery need; where a second
one would matter, in a shot's files, stops are not counted. Two takes, two
characters, two authorizations are the least at which one is mistaken for
another or displaces it.

Symmetry is used where only invariants and step properties are checked and the
constants are interchangeable: runtimes of one provider, keys of one job,
candidates of one shot. `parts` declares none: sorting its states costs more than
the states it saves. Its two inputs of videos and its two characters are interchangeable
as well, so one of each is taken to come first (`FirstInput`, `FirstCharacter`).

**Deadlock.** `SessionDispatch`, `KeyframeGeneration` and the parts of `MCParts` stop
when the bounds are spent, hence `CHECK_DEADLOCK FALSE`; in their place stand
`CommandsAreAnswered` and `AnsweredIsAttached`, and the parts' requests may end at
every point anyway, since every write may fail. The other
runs check it.

**Fairness.** `JobRuntime`: a thread that holds the store lock runs on, and an
HTTP call has a time limit (weak); a thread waiting for a mutex gets it although
others take it in between (strong), since every caller makes finitely many
calls. `SessionDispatch`: weak fairness of the worker, each request's thread
and each watcher. A thread that waits for the turn could be overtaken without
end only by endless commands, and the commands given are bounded; a watched
task ends by the provider's word or by its time limit. `KeyframeGeneration`:
weak fairness of the run's own steps and of opening again after a crash.
`ProcessCalls`:
weak fairness of the calling thread, of the reader and the writer, and of the
passing of the deadline; the process owes nothing.
Nowhere is the director obliged to ask for anything, nor a provider to succeed.

**Mutants.** Each property has a change of the code it must catch, defined just
before the definition it alters with the comment `Mutant:`.

## What is proved

Each theorem holds for every value of the constants that the module's assumption
allows (any numbers of runtimes, jobs, keys, threads, files, shots, commands, agents,
candidates, attempts, crashes and so on), with TLC's instance as one of them.
A proof module has the invariant that is inductive, checked by TLC before it was proved,
one lemma per action that it is kept, and the properties that follow from it.
`SharedLemmas` has what several of them need of numbers and sequences.

| Module | Theorem | Property |
| --- | --- | --- |
| `JobRuntime_proofs` | `Invariance` | the inductive invariant `IInv` |
| | `TypeCorrect` | `TypeOK`, the attempt limit included |
| | `PaidWorkKept` | `PaidWorkIsRecorded` |
| | `AcknowledgedKept` | `AcknowledgedForever` |
| | `SnapshotsFresh` | `SnapshotIsFresh` |
| | `NoMappingDangles` | `NoDanglingMapping` |
| | `PremisesKept` | `TxnPremises` |
| | `LedgerImplemented` | `ImplementsLedger`: the refinement of `JobLedger` |
| `KeyframeGeneration_proofs` | `GenerationInvariance` | the inductive invariant `GenIInv` |
| | `GenerationTypeCorrect` | `TypeOK` |
| | `CandidatesPaidOnce` | `PaidOnceUnlessConsented` |
| | `CandidatesAreKept` | `AnswersAreKept` |
| | `RecordedForItsHash` | `MadeForItsHash` |
| `SessionDispatch_proofs` | `SessionInvariance` | the inductive invariant `SessionIInv` |
| | `SessionTypeCorrect` | `TypeOK`, the cap on requests at work included |
| | `OneVideo` | `OneVideoAtATime` |
| | `NoneWaitsNeedlessly` | `NothingWaitsNeedlessly` |
| | `EndIsFinal` | `NothingAfterTheEnd` |
| | `CommandsRunInOrder` | `OneAtATimeInOrder` |
| `Parts_proofs` | `ShotInvariance` | the inductive invariant `ShotIInv` |
| | `ShotTypeCorrect` | `ShotPublication`'s `TypeOK` |
| | `PaidVideosAreKept` | `VideosAreKept` |
| | `RecoveryInvariance` | the inductive invariant `RecoveryIInv`, until the shot goes astray |
| | `BoundariesAreRecoverable` | `OneMixtureIsRecovered` |
| | `CopiesAreCurrent` | `CopyIsCurrent` |
| | `ApprovalInvariance` | the inductive invariant `ApprovalIInv`, until the shot goes astray |
| | `ApprovalIsImplemented` | `ImplementsApproval`: the refinement of `ShotApproval`, which promises nothing once the shot goes astray |
| | `ExportInvariance` | the inductive invariant `ExportIInv` |
| | `PackagesAreKept` | `PackageIsKept` |
| | `PlanInvariance` | the inductive invariant `PlanIInv` |
| | `PlanTypeCorrect` | `PlanTypeOK` |
| | `IdsAreForever` | `AnIdIsOneShot` |
| | `PlayFollowsThePlan` | `PlayIsWritten` |
| | `MediaInvariance` | the inductive invariant `MediaIInv` |
| | `LockedStaysWhole` | `LockedIsWhole` |
| | `PinnedStays` | `PinnedIsNeverLetGo` |
| `PaidCalls_proofs` | `DocInvariance` | the inductive invariant `DocIInv` |
| | `DocumentsArePaidOnce` | `DocumentIsPaidOnceAndKept` |
| | `VideoInvariance` | the inductive invariant `VideoIInv` |
| | `VideosArePaidOnce` | `VideoIsPaidOnceAndFollowed` |
| | `SpeechInvariance` | the inductive invariant `SpeechIInv` |
| | `SpeechIsPaidOnce` | `SpeechIsPaidOnceAndKept` |
| | `ImageInvariance` | the inductive invariant `ImageIInv` |
| | `ImagesArePaidOnce` | `ImagesArePaidOnceAndKept` |
| `Agents_proofs` | `DeskInvariance` | the inductive invariant `DeskIInv` |
| | `DeskTypeCorrect` | `DeskTypeOK` |
| | `PaidOnTheWord` | `SentOnTheWord` |
| | `GrantsInvariance` | the inductive invariant `GrantsIInv` |
| | `GrantsTheDirectors` | `GrantsAreTheDirectors` |
| | `ProcessInvariance` | the inductive invariant `ProcessIInv` |
| | `CallsEndWhole` | `CallsEndWholeAndStopped` |
| `Foundations_proofs` | `RegistriesAreExact` | the inductive invariant `RegistryIInv` |
| | `RegistryTypeCorrect` | `RegistryTypeOK` |
| | `LimitsAlwaysHold` | `LimitsHold` |
| | `FilesInvariance` | the inductive invariant `FilesIInv` |
| | `FilesTypeCorrect` | `FilesTypeOK`, where there is a file |
| | `DurableFilesImplemented` | `ImplementsDurableFiles`: the refinement of `DurableFiles` |

**The runtime.** No property is inductive alone. That a retirement loses no
paid work rests on what it checked before its first file still holding at its
later ones (`TxnPremises`); that rests on nobody starting a call in between
(the job's lock), on calls writing back the very record they read
(`SnapshotIsFresh`), and on records and mappings agreeing (`NoDanglingMapping`).
`OpPremises` adds what a call under way knows of its own record. `IInv` is the
conjunction of the five invariants, the types and `OpPremises`; the runs check
all but the last. Each lemma takes the invariant
apart (`TakeApart`) into one fact per job and per piece of work, shows those the
action disturbs, and puts them together again (`PutTogether`); `Frame` handles
actions that touch only claims, runtimes and waiting calls. The same lemma shows the
step of the ledger the action takes, so refinement costs no second pass.

**Keyframes.** A candidate is not paid for twice because a charge that the director
has not risked again leaves a trace on disk (`LeavesTrace`): an answer, or an attempt
counted with no refusal known. `CandidateOK` says so of each candidate, with what ties
record, revision and hashes together; `RunOK` says what a run relies on at each phase
for each candidate (`SlotOK`, `CallOK`): one that is to be called for was `Cleared`,
and its intent is the plan's. TLC: 1 874 929 states with 2 candidates and 2
crashes, 561 613 with 1 candidate, 2 changes and 3 crashes.

**The session.** `SessionIInv` counts every command once, as a message, as waiting, as
running or as done (`MessagesOK`, `QueueOK`, `NoneIsLost`), ties the threads and
watchers to what is told of them (`ThreadsOK`), keeps what runs apart (`AllApart`) and
says that a queue that was gone through has nothing that could begin (`LoopOK`).
`OneAtATimeInOrder` follows because a command overtakes only those it does not overlap.
TLC: 299 267 states with 3 requests, 7 331 235 with 4.

**A shot's files.** A paid video stays because the copy being written has the videos of
the files, and the copy in memory has those of both unless it is dropped should the
write fail (`Keeps`); `ShotIInv` needs no more, and holds whatever fails.
The other theorems assume nothing of what fails or stops, and have `~astray` in the
property itself: that every boundary is recoverable holds until an interruption comes on
top of another, or a failed write leaves an older copy in use, and neither can be left out
(`publication_boundary` and `NextGenerationIsNew`, below). Until then files that loading makes
whole are `Sound`: the candidates in play are
those of the selection, or none, or a whole generation freshly published. Loading gives
a copy that is `Coherent`, and writing part of a coherent copy over the files it was
loaded from gives sound files again (`WrittenOver`). `RecoveryIInv` says of the operation
under way that at each boundary still to come (`Boundary`) the files load, and are sound
if they were settled when it began, and that its last one loads as the copy (`Ends`).
One lemma per operation shows it as the operation begins; writing a file
only moves along the boundaries (`MixtureFurther`, `WrittenFurther`); a write that fails, or a stop, that does not lead
astray was one of an operation begun on settled files, and leaves one of its boundaries.
TLC: `ShotIInv` and, while not astray, `RecoveryIInv` 7 109 298 states with 1 candidate, 2
generations and 2 directions, those gone astray included.

That the files implement `ShotApproval` adds one thing to `RecoveryIInv`: each file an
operation has still to write takes what a reader finds one step of the record further,
or leaves it (`StepsOf`); and a video of a generation the shot has not come to is kept
aside (`Behind`). One lemma per operation shows what its files are steps
of as it begins (`AttachGenerationSteps`: making way, or the new generation, at the
revision or at the records; `SelectSteps`, `ResetSteps` and so on), `WriteNextApproves`
takes one and leaves the rest ahead, and `Approved` turns a step between two copies into an
action of `ShotApproval`. TLC: `ApprovalIInv` 970 349 states with the bounds of the run.

**Exports.** `ExportIInv` says what an export knows at each step (`PlacesOK`): what is
staged is whole once it is written, what was set aside has its successor in place before
it is removed. TLC: 1 742 states with 4 exports and 2 packages taken.

**The shot plan.** An answer is awaited with the IDs that were used when it was asked
for, and no revision comes in between but one that ends the waiting (`PlanSessionOK`);
so each ID of the next revision is new or of a shot kept in its scene (`NewOrKept`), and
is there once (`IdsApart`), also when a director's edit, or a model, names an added shot as
a removed one. At most one revision is locked (`OneLockedPlan`), and each of its shots is
written or among those still to be, unless a write failed (`PlayIsReached`): marking a
revision and noting its shots as to be written is one step, and opening notes all of
them again. TLC: 126 827 states.

**Media.** What a collection has in hand stays rejected, unneeded and untouched because
it runs alone (`LettingOK`), though it may be interrupted anywhere and was asked for on an
older dry run: what is needed does not change while it runs (`NeedsStay`, of all that
leaves the locks and what things were made from). What is let go was rejected and stays
so, and only what is selected is locked; so what is locked is kept, and a voice or a line
locked while fresh is of something locked then, with all it was made from (`LogsOK`,
`LockMediaKeeps`). TLC: 220 545 states with 2 samples, 2 portraits, 1 audition and 1 line,
115 590 with 1, 2, 2 and 1.

**Documents.** A revision paid for more often than the director risked leaves a trace
(`LeavesDocTrace`): it is in the log, or its intent says it was answered, or was tried by a
model charged per call with no refusal of that very input on the disk; the first two
`PrepareDocument` does not call again, the last `SettleEarlier` refuses. `DocCallOK` says
what a command relies on at each of its steps: which of these is ruled out, that the
intent is its own, and what its file and its receipt hold. TLC: `DocIInv` 161 392 states.

**Shot videos.** A task that may be charged is traced whatever is interrupted
(`TaskTraced`): the take's record has its clip, its intent past the call names it, or the
intent counts an attempt and the receipt of that input names the task or holds no refusal
of that attempt. So a prepared take whose last attempt is resolved is charged for no more
than the task its receipt holds (`ChargedOfPrepared`), and a request that goes on with it
follows that task instead of paying. `AskedTakeOK` says what a request knows of its take
at each step; a watcher holds the task of an invoked intent (`VideoWatchOK`), so one that
stops has given up the only task charged, and retiring the intent loses nothing. Nothing
is followed while a request runs (`VideoAskOK`), which is what lets a request end by
following what it submitted. TLC: 749 503 states with 2 takes, 2 tasks and 2 requests,
1 008 940 with 1 take, 3 tasks, 3 requests and 2 generations.

**Speech.** A number paid for once more than was risked was answered, or its intent
counts a call that the receipt does not prove refused (`SpokenOK`): what opening for
speech gives up is clear of charges, or of the character whose director took the risk. At
most one request has the turn, and none while the session recovers (`TurnOK`). One out of
the turn is alone at its number (`SpeaksOK`): what another request or a recovery records
or retires is claimed by no live one (`SayingOK`), and so no step with the turn changes
what a call is about to write. TLC: 467 700 states with 2 providers, 2 characters, 1
audition each and 3 requests, 603 564 with 1 character, 2 auditions and 2 lines.

**Casting images.** A number paid for once more than was risked has a job that counts an
attempt, with no proof of a refusal beside it (`ImagePaidOK`), unless its plugin could not
be asked. So an audition that looked through its generator's jobs has each one that is
prepared and silent among those that wait (`ImageDrawnOK`), refuses when one of these may
have been charged (`Refused`), or gives it up with the director's risk: from then on no
silent job it calls for is spent. `ImageCallOK` says what each of the calls knows, all of
them under way at once: the job is its own and its number is not in the log. What is kept
(`ImageKeptOK`) is disturbed by an import alone, which takes the number after the last whether
or not a call is unsettled there (`overtaken`). The looks are chosen as a sequence of
which each is the next look after the former ones, without recursion. TLC: `ImageIInv`
134 509 states with the bounds of the run, 6 449 735 with 3 auditions, 4 answers and 2 faults.

**Agents.** The desk's book is in the order of its numbers and a number is one call's
(`NumbersOK`); an entry that waits, was declined or lapsed was not sent (`EntriesOK`).
An authorization is at one stage of its way to a grant (`OneWayEach`), is past the
director only when allowed (`WaysOK`), and each agent in memory and in the file holds
grants of its own (`ClientsOK`), the ones it was given last among them (`TokensKept`). TLC:
`DeskIInv` 199 223 states, `GrantsIInv` 864 025 and, with two agents, 67 102.

**Calls of processes.** Every piece the process wrote is in the pipe or was read
(`PiecesOK`), and a plugin's or a command's reader that has stopped leaves an empty pipe
nobody can write to, unless a plugin's answer was too long (`ReaderOK`). So a plugin's answer
taken after the reader was joined, and a command's after the grace, is all that was written,
although the exit may be seen before the last pieces are; a process seen to have ended stays
so (`ChildOK`). So the reader of a command whose process has ended has a piece to read, or
comes to the end, or what the process left behind holds the pipe open and writes nothing, and
then the command is over (`NoOutputIsWaitedFor`). TLC: 28 532 states with a pipe of 2 and an answer of 1.

**Registries.** A limiter counts exactly the live runtimes and calls that hold it
(`CountsAreExact`), a provider's entry names the limiter its runtimes hold and a job's
the lock its threads hold (`OneLimiterEach`, `OneLockEach`), whatever a sweep of dead
references takes. TLC: 7 083 325 states with 2 threads and 3 runtimes.

**Files.** What may be left of a file is a whole version, no older than the last write
that returned (`VersionsStay`), because a rename follows a flush (`WritersReady`).
TLC: 207 706 states. `FilesTypeCorrect` supposes that there is a file, since an idle
thread is noted with one.

**Only model-checked.** Liveness (`LocksComeFree`, `CommandsAreAnswered`,
`VideosSettle`, `AnsweredIsAttached`) is beyond the prover, as is induction over data.
That no call waits for ever is stated without ENABLED, by what the wait is for
(`CallsEndWholeAndStopped`). `PartsTypeOK`, of `MCParts`, says of
the part at work what its own type invariant says, and nothing of the parts together; each
of these invariants is proved as part of its module's inductive invariant.

## What the code does not keep

Six statements of the repository are not kept by the code; each has a run that
ends in a counterexample.

- `PaidIsKept` (`session_late_video`). A keyframe request takes its shot out of
  the worker's map. A video of that shot finishing meanwhile is attached to a
  second copy read from disk. When the request ends, its older copy is written
  over it, and the video's record is gone while its job is acknowledged.
- `SomeDirectionGenerates` (`keyframes_blocked`). A generation of which one
  candidate failed leaves the other candidates' intents under the IDs that the next
  generation uses. After a change of direction the next generation gives up the
  failed one, prepares it anew and is refused at the other; now the intents are
  for two different inputs, and no direction can be generated any more.
- `EveryBoundaryLoads` (`publication_boundary`). "Writers therefore publish in an order
  where every completed file boundary is recoverable" (`docs/workflow/state-machine.md`
  43, and `shot.rs` 2253). Loading repairs a mixture in memory and writes nothing back. A
  first generation stopped before `selection.json` leaves the selection empty; a choice that
  is cut short after `artifacts.json` then leaves a selected candidate no selection
  names; and a second generation stopped after `shot.json` hides the first one from
  the recovery. `reconcile_selection_statuses` (2490) refuses the files, and the shot opens
  no more.
- `NextVideoIsNew` (`publication_late_video`). A video of a newer generation
  that finishes after the director has locked one is kept as superseded, and
  `video_revision` stays behind it. Once the shot is reset, the next request
  plans the ID that video has; its job is acknowledged, so the request is refused,
  and so is every later one.
- `PaidIsNeverSubmittedAgain` (`video_paid_again`). Any error of watching a task
  that is not to be retried, such as a key refused meanwhile, is taken for the
  task's failure: its job is retired and its receipt removed while the provider goes
  on, and the next request pays for the take again.
- `EveryCallEnds` (`plugin_hangs`). ADR 0006 has it that each operation of a plugin
  has a deadline past which the process is killed. The deadline is watched only
  between the end of the request's write and the exit: a plugin that does not read a
  request larger than the pipe, or exits and leaves a process behind that holds its
  output, keeps the calling thread for ever (`host.rs` 252 and 279). `process.rs`
  provides for both.

The following were met while modelling and are stated beside the modules'
properties, but no run checks them; TLC refutes each when it is asked.

- `RecordedAsMade` (`KeyframeGeneration`). Attaching notes the shot's intent of
  that moment with each candidate (`shot.rs` 1380). One that was answered before the rest of the
  intent changed is recorded as made for the new intent and never counts as
  stale.
- `NextGenerationIsNew` (`ShotPublication`). Loading "never relies on reusing an
  already-published generation ID, so the next generation remains possible"
  (`docs/workflow/state-machine.md` 49). A generation whose write fails after
  `artifacts.json` leaves the session the copy from before it; setting the direction, or a
  reset, then writes `shot.json` with the older revision, and after the next open a new
  generation plans IDs that have records.
- `PaidOnlyOnTheWord` (`AgentDesk`). ADR 0011 has it that "a paid request is sent only on
  the director's decision" (13). What a command costs is worked out with the session
  `Tools::call` took (`tools.rs` 172), and it is sent to the one `Desk::run` takes after
  that (`desk.rs` 310). When a project whose providers are free is closed in between, and
  one whose providers charge is opened, a command found free goes to the second
  without the word. `SentOnTheWord` speaks of the first session.
- `StaleOnlyWhenChanged` (`ShotPlan`). A plan with a scene planned again depends on
  the plan it was made from (`shot_plan.rs` 287 to 293), which `staleness` counts as
  an entry that changed, so it is stale from the start.
- `FreshIsFollowed` (`ShotPlan`). Planning one scene again notes what *all* scenes say
  now, although the other scenes' shots are carried over; once an edit has dropped the
  cause above, such a plan counts as fresh.
- `AnotherProviderMaySpeak` (`SpokenTakes`). After a call one provider refused,
  opening with another one does not retire the job, and preparing under the same
  number is refused, even when the director accepts the risk. `paid_image.rs` 250
  to 290 does the same.
- `LapsesWhenClosed` (`AgentDesk`). A tool call that took its session for the second time
  before the project was closed may note its request after the waiting ones were lapsed.
- `BeingAllowedIsKept` (`AgentGrants`). ADR 0011 and `register` have it that a
  registration never pushes out an agent being allowed. Between the removal of the
  authorization and the code, and between the code and the grant, the agent is in
  neither list, and a registration at the limit may take its place.
- `ImagesPaidOnce` (`PaidImages`). `paid_image.rs` 19 to 23 has it that an image
  whose call may have been accepted is never paid for again unasked. When a plugin cannot
  be asked, or its answer not be kept, the job *needs attention* and is
  counted as such only (207 to 210): it is neither unresolved nor retired. The next
  audition finds it as its own and calls again, unasked.
  `ImagesArePaidOnceAndKept` leaves these numbers out.
- `PicturesAreKept` (`PaidImages`). An import takes the number after the last
  recorded one, though a call under that number may be unsettled. A plugin's late
  answer is then written over the imported portrait's file, against "accepted media
  is never silently overwritten" (`docs/workflow/state-machine.md` 37).
- `NoneIsPassedOver` (`PaidImages`). Of a batch, the first call is lost and the
  second recorded; the plugin then answers for the first. Recording asks for
  a number after the last (project `cast.rs` 456 to 463), so the answer, paid for,
  is never recorded, against `paid_image.rs` 9 to 13.
- `WrittenIsKept` (`ProjectFiles`). `ensure_directory` flushes the directory above "so a
  file later published inside this directory cannot outlive the directory's own name
  after a crash" (460), and so does a writer that lost the race to make it. One
  that finds it made, but not yet flushed by its maker, does not flush: its write
  returns, and a loss of power then takes the directory with the file in it.
  `ImplementsDurableFiles` counts a file as settled once the directory's name is flushed.
- `NoneIsNone` (`AgentGrants`). A disconnection whose file cannot be written says so,
  but has removed the agent from memory; the director who tries again is told there
  is none, and the agent is back at the next start unless something else was saved.

And these are in the code the modules are translated from, without a property:

- `LockedIsWhole` leaves out what a portrait was made from, because `cast::lock` does
  not ask whether its portrait is stale, as the locks of voices and lines do; the
  sample a locked portrait needs may have been rejected and collected before.
- `PackageIsKept` leaves out a package taken away while another is set aside.
  Where folders cannot be exchanged, the removal of what was set aside may be
  cut short; if the director then takes the new package away, the next export puts
  the half that is left back under the name, against `export.rs` 35 to 41.
- `Claims::claim` (job-runtime `lib.rs` 962) goes on without a claim when another
  runtime holds it and never claims later, against "A runtime claims every job it
  prepares or invokes until it is dropped" (298). The job's lock keeps calls apart.
- A stop, or a failed write, between noting a refused speech call in its receipt
  and the job leaves a job that opening for speech does not retire; its number
  stays taken.
- A `write_atomic` whose last flush fails has replaced the file and says it failed, and
  a `create_with_files` likewise leaves the project it says it could not create.
  `ShotPublication` has both outcomes of a failed write; the other modules take a failed
  write as one that changed nothing.
- `send` of `acp.rs` and of `mcp.rs` writes with no deadline and without looking at the
  caller's flag, so an agent or a tool's server that stops reading can keep its caller, and
  closing a project with it, as `AtItsMercy` has it.
- `run_to_end` (`process.rs` 188) returns when asking for the exit fails, and leaves the
  process running; a plugin's is killed.
- Writing the shots of a locked plan stops without a word at a scene the
  screenplay no longer has (`session.rs` 3517).

## What is not modelled

Prompts, likeness, the timeline and the workflow's steps are computed from
files and change nothing. Provider clients are one
request and one answer; what they and the processes of `ProcessCalls` may answer is the
adapters' part in the modules of paid work. The operating system's file locks,
secure storage, pipes and renames are taken as they are documented: a rename is one
step, and what is flushed stays. JSON,
hashes and paths are abstracted to equality. The interface, FFI and MCP's
HTTP sessions send commands, which `SessionDispatch` takes from an arbitrary
director. Within what is modelled: stores of an older format, tampered files,
read-only projects and backoff delays, which only advise the caller. What the
other documents' contents must be, and what makes them stale, is left out, as are
the suggestions of learned preferences. Style samples are paid for
through the same `paid_image.rs` as casting images, and only the latter are
modelled; of these the reference pack, other characters, and a bible entry or style
that changes during an audition are left out. Of plugins, only the process and an image
generator's calls are modelled; of a command, what it says of its errors is not. Of an export, what makes a shot ready and the package's
files are left out. Of stored media, shots'
keyframes and videos are left out of `MediaCollection`, and so are files joined by
hard links.

## Plan

Done: every module above, and the proofs listed.

Every safety property the runs check is a theorem but `PartsTypeOK`, which only gathers what
is proved part by part. Each module is
written without recursive operators and with its assumptions named, so that what is added
can be proved about as well.

Further modelling: the workflow's steps as a function of the files, the staleness
of the screenplay and the bible, and shots' media in `MediaCollection`.

The hazard without a property in `PROJECT.json`, what a shot plan says it was made
from, is described above.
