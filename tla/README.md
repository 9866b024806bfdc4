# Brikko Studio: a TLA+ verification project

Brikko Studio lets an operator chat with hosted language models without sending
them personal data.  A **sidecar** (`anonymizer/`, Python, FastAPI) replaces the
personal data in a text by placeholders such as `<NAME_1>`, keeps the mapping
in an encrypted store, and puts the originals back into the model's answer.  A
**plugin** (`packages/privacy-plugin`, TypeScript) calls the sidecar from the
hooks of the agent runtime (`packages/core`, a vendored fork of OpenClaw).
Around them are two tool servers, an OAuth client and a web UI.

This directory models the sidecar, where the state that must not go wrong is
kept (rows, keys, audit files, the mode, the carry buffer of a stream); the
plugin's hooks and client in front of it; the chat page of the web UI; and the
two queues of the core that every turn and every outgoing message goes through.

## 1. Inventory

| Part | State | Operations | What is hard |
|---|---|---|---|
| PII masking (`pipeline.py`, `policy.py`, `pii/masker.py`, `pii/ru_person.py`) | none beyond a call | neutralise, detect, filter, number | pattern priority, two degraded modes, declensions of one name |
| Pipeline and API (`pipeline.py`, `api.py`) | cache of open stores, running handlers, open streams | `/anonymize`, `/restore`, `/restore_stream`, `/tool_call/deanonymize`, `/purge`, `/stats`, `/audit`, `/backup` | several durable writes in one handler, crashes and exceptions between them, streams interleaved with purges |
| Mapping store (`mapping_store.py`) | rows by placeholder | put (INSERT OR REPLACE), get, purge in three scopes | placeholders reused by later calls, rows re-tagged |
| Streaming unmasker (`pii/streaming.py`) | carry buffer | feed, flush | chunks cut anywhere |
| Load watcher (`degraded_mode.py`) | mode, three markers, a thread | tick, start, stop | timers at their limits, failing probe, stop in a pause |
| Audit log (`audit_log.py`, boot in `main.py`) | a file per date, plain or gzipped | write, run_retention, query | torn lines, sweep that dies or raises, local and UTC dates |
| Workspace keys (`workspace_key.py`, `workspace_key_fallback.py`) | keychain entry, `key.enc` | get, set, get_or_create | a keychain that comes and goes, environment that changes |
| Privacy plugin (`packages/privacy-plugin`) | policy table, requests and streams in flight | seven hooks, client with timeout and retry | retries of executed calls, parallel re-masking, fail-open and fail-closed paths |
| Chat page (`web-ui/src/chat`) | sessions, messages, busy flag, a socket per send | send by socket, REST fallback, switch of session | closures of an older render, frames after an error, sockets that close early |
| Command queue (`core/src/process/command-queue.ts`, `agents/pi-embedded-runner`, `cli/gateway-cli/run-loop.ts`) | lanes: queue, slots, limit, generation; registries of runs and replies; the waits of a restart | enqueue, pump, complete, time out, clear, reset, reconfigure, drain and restart | nested lanes, tasks that outlive their slot, resets under a running task, waiting for tasks that hang |
| Delivery queue (`core/src/infra/outbound`) | a file per message, markers, `failed/`, claims in memory | enqueue, claim, send, two-phase acknowledge, fail, recover, drain, defer | crashes between file operations, stale snapshots, writers without a claim |
| Tool servers (`skills-bitrix24`, `skills-1c`) | credentials | REST and OData calls | retry of a call that created something |
| OAuth client (`oauth-client`) | verifier, tokens | start, callback, refresh, revoke | callback racing its timeout |
| Rest of the web UI (`web-ui`) | fields of forms | wizard, settings | nothing interleaves |
| Rest of the core (`packages/core`) | vendored | | |

How they interact: the runtime calls the plugin's hooks; the plugin calls the
sidecar over HTTP; the sidecar's handlers run on one event loop and read the
mode that the watcher's thread maintains; `/anonymize`, `/restore` and tool
calls write the audit log; opening a workspace's store asks for its key.
Handlers await nothing while they work, so they exclude each other; only the
generator of `/restore_stream` gives the loop away, at every chunk.  In the
gateway a turn is a task of its session's lane whose body enqueues the model run
in a global lane; its answer is put into the delivery queue before it is sent.

The list of hazards, each at its line, is in `PROJECT.json`.

## 2. Modules

| Module | Models | Correspondence |
|---|---|---|
| `Masking` | `_mask_with_policy` on one text | a text is a sequence of tokens: spans a detector may report, placeholders, defanged placeholders. Which patterns match a span, with which verdict of the checksum, whether Natasha reports it and its lemma are constants. `Leaders` are the first occurrences, which get a number and a row |
| `Anonymizer` | `Pipeline`, `MappingStore`, the endpoints | `job` is the handler on the loop; every `store.put` and `audit_log.write` is a step of its own, followed possibly by `HandlerFails` or `Crash`. `stream` holds the generators. `owners`, `forgotten`, `replies`, `delivered`, `aborted`, `purged` are history |
| `RestoredStream` | the promise of a streamed restore | abstract specification |
| `StreamUnmasker` | `StreamUnmasker` and `_gen` | `sent` and `fed` delimit the carry buffer in the answer; `Boundary` is the choice of `feed` |
| `DegradedWatcher` | the watcher | `Sample` (probe and clock, outside the lock) and `Advance` (the branches of `tick`, under it) are two steps; `log` is history |
| `AuditLog` | the files | a file is its lines and whether the last one has its newline; an archive is its lines and whether it has its trailer. `Boot` .. `SweepDone` are the steps of `run_retention`; what `query` reports is a set of lines, each known by its file and its place in it, and `ReadBefore` is its order |
| `WorkspaceKey` | the two backends | `Open` is `get`, `SetInRing`/`SetInFile`/`SetFails` is `set`; the keychain may flip between them |
| `RestoreStream` | `stream-restorer.ts` in front of `StreamUnmasker` | the plugin's carry buffer decides at which positions (`cuts`) the posted chunks end; the sidecar's then takes those chunks. A "direct" response cuts anywhere |
| `ToolPolicies` | `tool-policies.ts` | a table in every order its sort may leave it in; `Says` is the reading of the file that does not depend on the order |
| `PrivacyPlugin` | the hooks and `anonymizer-client.ts`, over `Masking` and `ToolPolicies` | `pc` of a turn is the hook it is in, `call[t][i]` the request in slot i; an attempt succeeds, fails before or after it was executed, or is executed later (`late`). `seen`, `kept`, `given`, `shown` are what model, memory, tools and user got |
| `ChatClient` | `ChatLayout.tsx`, `ws-client.ts`, `api/chat.ts` | `closure[r]` is the `messages` of the render whose callback runs; a task of the event loop is an action; the server is external |
| `AgentLanes` | which lanes work goes through (`lanes.ts`, `run.ts`, the cron service) | a caller's tasks are the stages of its nesting |
| `CommandQueue` | `command-queue.ts` and the restart loop | `queue`, `active`, `maxConcurrent`, `generation` are a lane's fields; `Pump` is `drainLane`; `body` is what the task really does, `promise` what its caller sees; `activeRuns` and `replyRuns` are the registries of runs and replies, `waiter` and `runsAwaited` the two waits of a restart |
| `DeliveryQueue` | the delivery queue | every file operation is a step; `json`, `delivered`, `failed` survive a crash, `claimed` and the processes do not |
| `MCAnonymizer`, `MCStreamUnmasker`, `MCPrivacyPlugin`, `MCCommandQueue` | instances for TLC | |
| `MaskingProofs`, `AnonymizerProofs`, `StreamUnmaskerProofs` (of `RestoreStream` too), `AuditLogProofs`, `SidecarProofs` (of `WorkspaceKey` and `DegradedWatcher`), `PrivacyPluginProofs` (of `ToolPolicies` too), `ChatClientProofs`, `StudioCoreProofs` (of `CommandQueue`, `AgentLanes` and `DeliveryQueue`) | proofs | |

Operators whose comment begins with "Mutant" are deliberately wrong variants of
the definition that follows them.  No specification uses them: they stand for
plausible bugs, and replacing the definition by the variant makes the property
named in `PROJECT.json` fail.

`Anonymizer` lets the mode change to any value at any time (`ModeChange`), which
over-approximates `DegradedWatcher`; what the properties say of the mode holds
for every watcher.  `StreamUnmasker` takes one stream and one moment's rows
(`Known`); the interleaving of streams with purges is `Anonymizer`'s, which in
turn takes a chunk as one token.  `AuditLog` and `WorkspaceKey` likewise refine
what `Anonymizer` takes as one set of events and as readable rows.
`PrivacyPlugin` takes a request to the sidecar as one step, which is what its
event loop makes of it, and leaves crashes of the sidecar to `Anonymizer`.

## 3. Runs

Passing runs (TLC explores the whole state space of the instance):

* **anonymizer** (`MCAnonymizer.cfg`): 2 workspaces, 2 sessions, 3 calls of
  which the first 2 may be `/anonymize`, one stream, four spans (a name in two
  cases, another name, a number that is an invalid INN and a valid passport),
  three texts in two profiles, a tool that deanonymizes one key and one that
  forwards masked.  Two storing calls suffice for every collision of
  placeholders, the third call for a restore, a purge or a tool call after
  them; workspaces and sessions are symmetric.
  - `LatestRoundTrip`: the last reply of a workspace restores to the user's text;
  - `UnauditedOnlyIfAborted`, `DeliveredAudited`: rows and deliveries against the audit;
  - `WorkspaceIsolation`: originals only come back where they were sent;
  - `ForgottenGone`, `ForgottenNotDelivered`: erasure, in the rows and in what leaves;
  - `ModeTruthful`: the reported mode is the mode that was used.
* **watcher** (`MCDegradedWatcher.cfg`): sustain times 1, 2 and 3 polls, clock
  up to 7: long enough to enter both modes, leave them and enter again.
  `PromptSwitch` and `JustifiedSwitch` state the state machine over the log of
  readings and not over its markers; `StopEndsThread` is the liveness of stop.
* **stream** (`MCStreamUnmasker.cfg`): all answers of up to 6 characters over the
  instance's alphabet, carry of 3, placeholders of 3 and 4 characters, that is up to one
  more than the carry, which is the longest the algorithm supports; the plugin's
  buffer and the sidecar's in series, and the sidecar's alone.  `WireCutsClean`
  says that the plugin never cuts a placeholder, `SourceComplete` that nothing
  of the source is missing from the wire, `EndComplete`, `BoundedCarry` and
  `Implements` what comes out.
* **audit_log** (`MCAuditLog.cfg`): 5 dates, limits of 1 and 2 days, 3 events: a
  file can be written, compressed, found half compressed, repaired and deleted.
* **workspace_key** (`MCWorkspaceKey.cfg`): 2 workspaces, 2 passphrases, 3 keys:
  enough for a key in each backend and one that replaces either.
* **plugin** (`MCPrivacyPlugin.cfg`): one turn through all hooks with a tool call,
  three originals (one too short to be re-masked), two attempts per request, one
  failed attempt that may be executed at any later time, every profile, every
  trust of the tool, and a policy file with a catch-all, a family and an exact
  name inside it, in all orders or unreadable.  One turn is enough for these
  properties, which never compare turns; the two-turn instance is the
  counterexample below.
  - `ModelSeesNoOriginal`, `MemoryHoldsNoOriginal`: with the one exception of a reply
    masked in a degraded mode, which no hook looks at.  They speak of the originals
    that the detectors recognise in the full mode (`Known`);
  - `OriginalsOnlyToTrusted`: against the order-free reading of the policy file, and
    against a compliance document that says the opposite (below);
  - `EveryTurnEnds`: whatever the sidecar does.
* **chat** (`MCChatClient.cfg`): two sends, two sessions, two frames per socket: a
  delta and a frame after it, an error followed by a late delta, a "done"
  followed by anything.  The same properties hold with three frames (1,170,073
  states), which takes too long for every check.
* **command_queue** (`MCCommandQueue.cfg`): three callers of which any two call
  (`MaxCalls`): two turns of different sessions that compete for the main lane, or a
  turn and a cron run on one session; one reset or restart, limits of one
  (configured as 0) and two slots.  The cron run nests three lanes deep, so every
  way of holding one lane while waiting for another occurs.  Two larger instances,
  too slow for every check, pass as well: all three callers without the liveness
  properties (`MaxCalls = 3`, 1,478,010 states), and one turn and one cron run with
  two resets or restarts, a reset during a drain among them, with all properties
  (`ChatTurn = {a1}`, `MaxResets = 2`, 207,316 states).  The proofs cover the
  invariants for all bounds.
* **delivery_queue** (`MCDeliveryQueue.cfg`): one live message under bestEffort and one
  restart notice, recovery, drain, one retry and one crash.  With two retries
  (6.3 million states) the properties hold too, and the proofs cover all bounds.

Runs that end in a counterexample, each against a sentence of the repository:

* **workspace_key_fresh**: with the fallback on, a workspace can get a second key.
* **plugin_foreign_answer**: placeholders are numbered from 1 on every call and rows
  are replaced by placeholder, so the answer of one turn shows the original of
  another turn of the workspace.
* **chat_fallback**: the REST fallback posts the history of the render before the
  click, without the message that was typed.

Where the code differs from what one might expect, and a property names the
exception instead of a run of its own:

* the event after a torn line is lost with it (`OnlyNextLost`), although
  `audit_log.py:17-18` says that a crash "loses at most the in-flight line";
* only the latest reply of a workspace is sure to restore (`LatestRoundTrip`);
* `/restore_stream` writes no audit event (`DeliveredAudited` is about the other
  endpoints), although `docs/compliance/152fz-checklist.md:21` lists an "Audit log of
  every anonymize / restore / tool-call / memory-write event";
* an untrusted tool never gets originals (`OriginalsOnlyToTrusted`), as
  `docs/plugin-architecture.md:96` says too, but `docs/compliance/152fz-checklist.md:32`
  says the opposite: "Untrusted servers receive deanonymized arguments; trusted
  servers can bypass deanonymization on a per-arg basis".  The code is the stricter
  one, so this is an error of that document;
* the purge by the hash of a normalised name does not find rows that hold a
  declined form (`ForgottenGone` takes the form of the name that was asked for);
* load that ends above 95 % does not count towards `degraded` (`PromptSwitch`);
* a deferral reads and writes files without a claim and can put the file of an
  acknowledged message back, which is then sent again (`ResentOnlyIfRevived`);
* the restart notice is sent without a claim (`SingleSender`);
* an answer whose socket closes early leaves the page busy (`EverySendEnds`);
* a restart without a deadline waits for ever when a run hangs: the timer of its
  lane frees the slot, but the run stays registered, `waitForActiveEmbeddedRuns`
  has no limit (`runs.ts:254`), and the watchdog of the close is armed only after
  the drain (`run-loop.ts:422`).  `RestartCompletes` excepts exactly these restarts
  (`HeldByRuns`); only the recovery of a stuck session can release them;
* a session task queued before a restart may start during the drain; its model
  run is then rejected and the turn fails, although queued work is meant to
  survive (`command-queue.ts:448`).  `RejectedNeverRuns` holds: the caller can
  submit it again;
* the generation check of `completeTask` guards no slot that the identity of the
  task does not guard already: a stale task is in no set of active tasks.

Deadlock is not checked where the bounds end the behaviours (calls, clock,
answer, events, turns, sends); `workspace_key` has no such end and checks it.

`TypeOK` is an invariant of its own in the `anonymizer` run.  For the watcher, the stream,
the audit log and the keys it is part of what the proofs establish; for the
plugin, the chat page and the queues it is the first conjunct of
`ModelSeesNoOriginal`, `AnswersWhole`, `SlotsTruthful` and `ClaimTruthful` (there
it is called `DeliveryTypeOK`, since the proofs about both queues share a module).

**Fairness.**
* `watcher`: the thread finishes a tick it has begun and `wait()` returns once the
  event is set (`WF(Advance)`, `WF(Exit)`): the operating system's scheduling of a
  runnable thread.  Nothing is assumed of the probe, the clock or of samples being taken.
* `plugin`: the hooks' continuations run and every attempt settles, which
  `AbortSignal.timeout` guarantees for a request that hangs; late executions are not fair.
* `chat`: the page's event loop runs its tasks, a handshake and a fetch settle,
  and a server that took a request ends its answer or closes.  A server that keeps a
  socket open in silence would leave the page busy: there is no timeout in `ws-client.ts`.
* `command_queue`: promise callbacks run, the timers of model runs fire, the poll
  for registered runs comes round, the drain's timer fires if it has one, and the
  server closes (a watchdog, armed at the latest when the drain is over, ends the
  process otherwise).  Nothing is assumed of model runs and replies: they may hang
  for ever, registered or not, and no recovery need come.

## 4. Proofs

All are invariance or step-simulation proofs, for every value of the constants
that satisfies the named assumptions.

* `MaskingProofs!PlaceholderInjective`: two detected positions of a text share a
  placeholder iff they share a key.  The number of a leader is the cardinality
  of a set that grows strictly from one leader of the type to the next.
* `AnonymizerProofs`: `TypeCorrect` strengthens `TypeOK` by `JobInv` (the leaders
  still to be stored are leaders of the job's text, a tool job's keys have
  rows), without which storing would not preserve the type of the rows.
  `IsolationAndErasure` adds that a row's original is owned by the row's session
  and that no forgotten original has a row; `ErasedStaysIn` is the action
  property on deliveries, by the fact that every delivery reads a row of the
  same step; `AuditTrail` carries the audited part of each running job.
  `ModeReported` adds that the events of the running request carry the mode it
  started with and that requests are told apart by their numbers.
  `LatestRestores`, the round trip, carries for every reply that its leaders have
  rows of its own number or of a later one; that the rows of one request do not
  replace each other is `PlaceholderInjective`.  It needs `NamesAreWords`: the
  de-duplication looks a lemma and a surface up in one table, so a name whose
  nominative form a pattern matched could be merged with a number; every
  pattern needs a digit or an "@".
* `SidecarProofs`, the watcher: the invariant ties each marker to the log: it is
  set iff the last readings fall in its bands, and then equals the time of the
  first of them.  `NeverLate` and `NeverUnjustified` follow for all thresholds.
* `StreamUnmaskerProofs`: the invariant is that what was sent ends at a clean cut
  and is restored as a whole; `StreamCorrect` and the refinement `StreamRefines`
  follow.  The step that needs thought is that a `<` outside the window cannot
  open a placeholder that is still incomplete.  For the plugin's buffer in front
  (`RestoreStream`) the same lemma on cuts is used a second time; the invariant
  adds that the posted chunks grow within what the source delivered (`CutsInv`)
  and that the sidecar is fed nothing before the body is complete, then exactly
  the posts (`DuplexInv`).  `WireClean` and `NothingSwallowed` follow, and
  `PluginRefines`: the pair takes only steps of the sidecar's specification, so
  all that is proved of that, the abstract stream included, holds of the pair.
* `AuditLogProofs`: `NothingElseLost` and `TypeOK`.  The invariant says, for every
  acknowledged young event, that the plain file holds it if there is one and
  the whole archive otherwise; that only an old date has an archive; and that
  an unended file of today ends in an event that was not acknowledged.
  `SweepRepairs` is about what a sweep that ends has repaired.  `SweptClean` says
  nothing while the sweep runs; the invariant adds that everything over age,
  doubled or torn is among the entries still to do (`Covered`), and that an event
  is in the files of one day only and in none of them twice (`OneDay`), without
  which the removal of an original would not leave its events in one place.
  `PagingIsSound` is an action property: the only steps between two readings of a
  process that is up are writes and midnights.  A write adds its line behind
  all others of the file in use, and that no other file comes after it is what
  the invariant gives: no file is of a date to come, and an archive is of a date
  before the one in use.  A file and an archive of one date come in the order the
  directory lists them, which `ReadBefore` leaves open.
* `SidecarProofs`, the keys: `KeyAlwaysPersisted` and `NoRowOrphaned`.  A `set` replaces what
  its backend holds; the invariant adds that the store is not open while its
  key is being created, and that a backend that alone has been asked is still
  empty at that point, so that what is replaced was under no row.
* `StudioCoreProofs`, the delivery queue: `NoMessageLost`, `ClaimsExact`, `OneSender` and `NoStaleResend`,
  for any messages, retries and crashes.  The invariant has two halves.
  `ClaimInv`: a process at work holds its claim, every claim has such a process,
  and no two of them have the same entry; the third is what makes releasing a
  claim safe.  `FileInv`: a message that was not enqueued has left no trace in
  files, snapshots or deferrals, so that enqueueing cannot revive an
  acknowledged one; a live send that has not resumed is not acknowledged by an
  owner that overtook it; only sent or excused messages are acknowledged; and
  an acknowledged message that was not revived has no file and no sender.
* `StudioCoreProofs`, the lanes: `SlotsHeld`, `WakeupsKept`, `RejectionFinal`, `DrainHasReason` and
  `SessionsExclude`, for any callers, sessions, limits and resets.  Every operation
  ends by pumping lanes, and the properties hold after the pump only, so the
  invariant is stated of values: `Sound(queue, active, ..)` is asked of the state
  an operation has put together, and `PumpSound` carries it over the pump and adds
  that no lane is left with queued work and a free slot.  `Sound` adds to the
  properties that a queue holds tasks that have not begun, each once; that a
  session's lane has one slot; and how far a task's code and its promise can be
  apart (`TaskInv`).  `SessionsExclude` needs the last: work whose model run sits in
  a global lane still holds its session's slot, unless a timer or a reset gave it up.
  `DrainHasReason` is of two parts that need each other: the wait for tasks keeps a
  task that holds a slot, and the loop drains exactly while one of its two waits is
  open, which is why a lane that is reset or settles can end the one and leave the
  other (`StillAwaitedReason`, `NotifyReason`).
* `PrivacyPluginProofs`: `ModelBlind`, `MemoryMasked` and `ToolsTrusted`, for any turns,
  texts, tools, policy files, retries and late executions.  The properties speak
  of what was sent, kept and given; the invariant says why a hook that goes on may
  do so: the call of a hook that checks a text has sent that very text, through
  all retries, and a reply of the full mode says what was found in it
  (`CheckInv`); the model's prompt is what it was sent, and the originals are
  fetched only for a tool whose policy is to get them (`ModelInv`); texts stay
  within the bound (`SizeInv`).  That the masked text holds no original the
  detectors know is `FullReply`, over `Masking`.  `ResolvesNarrowest` shows of
  `resolvePolicy` that the order of the file does not matter: of two prefixes of a
  name the one with more characters continues the other, so the first match in
  the sorted table is the narrowest.  It needs that a name has more characters
  than its proper prefixes and that no pattern occurs twice, as in a YAML map
  (`TableAssumption`).
* `ChatClientProofs`: `AnswersAreWhole`, `HistoryIsFinished` and `FinalMessagesStay`, for any
  sends, sessions and frames.  The page never says which send a frame belongs
  to; the invariant says why none goes astray.  `PageInv`: one send at most is
  under way and the page is busy exactly then; a socket is open only for a send
  that waits on it; the frames such a send has handled end nothing.  `TextInv`:
  every message belongs to a request sent in that session, an answer that is
  being streamed holds exactly the deltas among the frames handled so far, one
  whose send is over is whole; what a click saw are finished messages of
  earlier requests of its session, and what the fallback carries is part of it.
  `OneSendAtATime` states the first part by itself.  `FallbackLacksText` follows from
  the last: the typed message is in no fallback at all, so the counterexample of
  `chat_fallback` is the rule and not a matter of timing.

Assumptions on constants: durations, limits and bounds are naturals; the marker
for "nothing" is no value; `NamesAreWords` (above); `TableAssumption` (above); a
user's text is not empty and `MaxText`, which bounds the texts of the model, leaves
room for the three tokens that a turn can add (`PluginAssumption`).

Only model-checked is liveness (`StopEndsThread`, `EveryTurnEnds`, `EverySendEnds`,
`EveryCallSettles` and `RestartCompletes`), which the prover does not handle.  The
properties of the three runs that end in a counterexample are false and have no
theorem.

## 5. Plan

Modelled first was what keeps personal data (sidecar), then what carries it
(plugin, stream, chat), then the two queues of the core.  Every invariant, every
action property on safety and both refinements that the passing runs check are
proved.  What could be added:

1. a restore command, once the repository has one, to go with `/backup`;
2. the subagent and compaction callers of the command queue;
3. turns composed with the delivery queue: `PrivacyPlugin` shows an answer to the
   user, `DeliveryQueue` sends it.

## 6. Not modelled

* Regular expressions, checksums and Natasha: what they recognise is a constant.
  Overlapping spans are resolved before a text becomes tokens.
* Cryptography: a row or a file is readable with the key it was written with.
* SQLite: a statement is durable and atomic (WAL, `synchronous=FULL`).  Power loss
  that reorders writes of other files (the archive is not synced before the
  original is unlinked) and clocks that are set back are outside the model.
* `rotate` and `delete` of workspace keys: nothing calls them.
* `pii/integration.py` and `pii/store.py`: nothing calls them.
* `/backup` changes nothing; that its archive lacks the workspace key is noted in
  the hazards.
* Of the plugin: only `pre_user_message` sends a session id, which is a matter of
  how the rows are tagged (`Anonymizer` has the sessions); the wording of prompts.
* Of the stream: the timeout covers the whole streamed request, so a long answer
  is lost; how long an answer takes is not modelled.  Since the sidecar reads the
  whole body before it answers, nothing is shown before the source has ended.
* Of the chat page: unmounting, and that a message whose socket failed after the
  server took it is executed a second time by the REST request (the server is external).
* Of the command queue: the deferred-maintenance, subagent and nested lanes and
  compaction, which use the same operations on lanes of their own; `onWait`
  callbacks that call the queue again; what a run or a reply does when it is
  aborted (it ends in its own time or never; only a reply that is still queued
  leaves the registry at once), and the abort of compacting runs at the start of a
  drain, which changes no registry.
* Of the delivery queue: the write of a temporary file and its rename are one step
  (the temporary file is never listed); the order of `enqueuedAt` is left open; a
  backoff has or has not run out; the migration of files of older versions; the
  number of attempts at a restart notice; payloads and their rendering.
* The rest of `packages/core`: a vendored fork of OpenClaw.  It makes up nearly all of
  the repository's 1.5 million lines of TypeScript (extensions, generated schemas,
  release scripts), so the lines this project maps, about 3,500 of the code that
  is Brikko's own or that its turns and messages pass through, are a small
  share of the whole.
* OAuth client: a single sequential flow that no source file imports.
* Tool servers: stateless clients.  Whether a retried call that was answered by a
  5xx took effect is decided by a server outside the repository.
* Installation scripts, layout and forms of the UI.
