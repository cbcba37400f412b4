# TLA+ specifications of Turbo Build

Turbo Build is a terminal coding agent: about 3600 files of Rust in some
eighty crates. Most of it is user interface, wire formats and I/O. This
directory models the parts whose correctness depends on the order in which
things happen, checks them with TLC on small instances and proves the most
important of the properties with TLAPS for every value of the constants.

`PROJECT.json` has the machine-readable side: which definition stands for
which source lines, the runs, the seeded faults that show each property can
fail, the hazards and the findings.

## 1. Inventory

| Component | State | Operations | Works with | What is hard, and what makes it correct |
|---|---|---|---|---|
| Subagent coordinator (`xai-grok-tools`, `grok_build/task/coordinator*`) | tables of queued, pending, active and completed children; reply channels, deadlines, blocking waiters; parked delete and workflow-cancel responders; sessions whose admission is closed; buffered completions | spawn, cancel (by id, prompt, session, workflow run, loop task), teardown, open admission, query, drain completions; start and end of a run; timers; exit | the Task tool and the workflow host through `ChannelBackend`; the runner that executes children; the session actor that polls it | mailbox commands, ended runs and timers in any order; callers that leave at any moment; a sweep of the queue that re-enters itself. The limit holds and no slot is wasted, nobody waits for ever, no result is lost or delivered twice, Stop holds |
| Circuit breaker (`xai-circuit-breaker`) | an atomic state, the time it opened, probe slots and a probe claim, a lock-free mirror, a sliding window | check, record, error_rate | storage client and upload queue (many threads share one breaker) | decisions made on unlocked reads; abandoned probes. Slots belong to one half-open generation, the mirror agrees, probes are rationed, nobody is stranded |
| Storage client, upload queue (`xai-file-utils`) | queued uploads on disk | enqueue, upload, retry | the breaker | retries of what was already done, a crash between upload and removal |
| Leader election (`xai-grok-shell/leader`) | lock, pid and socket files; one leader process | connect or spawn, evict, release, drop | every client process | unlinked lock files, stale inodes, hung or dying leaders, two clients that replace a leader at once. One process is the leader and owns the socket; a client does not stay in its loop |
| Session actor, prompt queue (`xai-grok-shell/session`) | pending prompts, the running turn, whether its message is committed, the interjection buffer, notifications held back | queue, send now, interject, remove, reorder, clear, wake, cancel, complete | pager, coordinator, chat state | a completion and a cancellation of the same turn; edits of a queue whose front is running; a second task that starts turns. No caller is dropped, one turn runs at a time, what was typed is not lost, Stop holds |
| Workflow engine and journal (`xai-workflow`) | append-only journal, replay position | record, load, replay, cancel | coordinator (workflow children) | torn tails, partial appends. Replay returns what was recorded, in order |
| Scheduler (`grok_build/scheduler`) | tasks, versions, a pending durable removal, an occurrence journal | create, delete, fire, reconcile at start | coordinator (loop children), notification sinks | persist, publish, commit with a failure between any two. An occurrence fires at most once; a removal is not forgotten |
| Session storage and relocation (`session/storage/relocation`) | session and staging directories, a relocation journal, a lease | stage and publish, commit, roll back, recover, finalize, recover all | session listing | process death, power loss and I/O errors between any two file operations. The session always lives in exactly one place, with all of its files |
| Memory consolidation lock (`xai-grok-memory/dream_lock.rs`) | one file: holder pid, and its mtime as the time of the last consolidation | acquire, rollback | several processes | check-then-write; a rollback that undoes another's acquisition |
| Chat-state actor, compaction, hunk tracker | conversation and file data | many | session actor | data rather than control |
| Authentication | credentials | stamp, refresh after 401 | every HTTP client | concurrent refreshes |
| Sampler, MCP clients, hooks, hub SDK, worktrees, file watching, sandbox, updater, telemetry, voice, pager | – | – | – | external protocols, I/O and rendering; not modelled |

The hazards list in `PROJECT.json` places each difficulty at its line.

## 2. Plan

The order is by how much depends on the part and by how little a test can
reach. Steps 1 to 5 are done.

1. `CircuitBreaker`: the shared breaker, at the granularity of atomic accesses.
2. `SubagentCoordinator`: the actor that owns all subagents.
3. `LeaderElection`: processes, inodes, descriptors and paths as separate
   things.
4. `SessionRelocation`, and `SessionHome` as the abstract specification it
   implements.
5. `PromptQueue`: the session's pending inputs against turns, their
   completions and their cancellation.
6. `WorkflowJournal`: appends with torn tails and failed writes, load, replay;
   an abstract log as the specification it refines.
7. `Scheduler`: the removal protocol and the occurrence journal under crashes.
   The consolidation lock, a second and weaker lock-file protocol.
8. An abstract admission queue (a bag of waiting spawns and `MaxConcurrent`
   slots) that `SubagentCoordinator` refines; the usage flags and steering of
   the coordinator; the session's end-of-turn wait on its `Outstanding`.

Every safety property that a run checks is also proved (section 5), for the
modules of steps 1 to 5; the modules of steps 6 to 8 bring their own.

## 3. Modules

### CircuitBreaker

Any number of `Callers` share a breaker. `pc[c]` says where a caller is inside
`check()` or `record()`. A step is one atomic access without a lock (`Check`,
`LoadOpened`, `CompareElapsed`, `Reevaluate`, `RecordStart`,
`RecordReadState`), or a critical section. `trip()`, `close()` and the
compare-exchange of `check_open()` are two steps each, up to the store of
`state` and from there to the store of the mirror, because `state` and
`is_open_fast` are read without the lock and can be seen between the two.
What a caller read stays with it (`opened`, `stamp`, `failed`, `pc`) and is
used later, as in the code.

`Abandon` is a request that ends without `record()`: its future was dropped.
The window is the sequence of samples in push order, with the incremental
failure count kept separately as in `window.rs`; times are in units of the
clock, the claim is encoded as time + 1 with 0 for "none". `genStart` and
`admits` are history variables. `force_half_open` is compiled for tests only
and left out; observer callbacks are left out.

### SubagentCoordinator

The actor handles one thing at a time, so a step is one turn of its loop: a
command of the mailbox, a child that reports its start, a run that ends, a
timer, or the exit. Around it are environment steps: a caller that drops its
receiver, a host that cancels a token, a querier that leaves.

A handler that calls other handlers (cancel one, remove it from the queue,
finish it, sweep the queue, resolve who waits) is a chain of functions on a
record `m` of the actor's state: `Reaped` is the state after
`reap_abandoned_callers`, which precedes every command and every timer,
`Finished` is `finish_child` with the sweep it ends in, `RemoveQueued`,
`Cancelled`, `LetGo`, `HandOff` and so on are the helpers, and `Becomes`
assigns the result, with the completed table and the completion buffer cut to
their caps.

| Model | Code |
|---|---|
| `phase` | which of the tables holds the id, and what became of it |
| `ticket`, `arrivals` | the order of the `VecDeque` in `SpawnQueue` |
| `reply`, `caller` | the two ends of a spawn's `oneshot` channel |
| `handleOnly`, `deadline`, `muted`, `killed`, `token` | the flags of a child: `handle_only`, the armed foreground deadline, `surface_completion` being off, `explicitly_killed`, the cancelled token |
| `watch` | blocking waiters (`blocked`, or `closed` once the querier has left) and progress futures (`progress`) |
| `blocked`, `drains`, `wfWaits` | `spawn_blocked_sessions`, `teardown_drains`, `workflow_cancel_waiters` |
| `outcome`, `root`, `launched` | history: whom a completion reached, the session at the root of a spawn's lineage, which children could have spawned |

Abstractions: time is a timer that may fire whenever it is armed; which entry
a full table drops is left open, which allows more than the code does; a
child's session id is its request id; several responders parked for one
session or run are one; a request id is used once (they are UUIDs, so the
"already exists" branch of `handle_spawn` is not reached). Left out: the
`usage_not_applied_prompts` flags, steering, `ListRunning`'s aggregation, type
validations and descriptions. None of these reads or writes the tables above,
except that outstanding validations, descriptions and listings delay the exit.

### LeaderElection

A lock file is not its path: a process opens the path, then locks the inode
it got, and the `Drop` of a leader's lock unlinks the path before the
descriptor closes. So `path` is the inode at the lock path, `flock[i]` the
process that holds inode `i`, `sock` the leader whose `bind` made the socket
file, and each system call on them is a step.

| Model | Code |
|---|---|
| `leader[l].pc`: `Open`, `TryLock`, `WritePid`, `CleanupSocket`, `Bind`, `Ready`, `Stop`, `DropLock`, `DropSock`, `Close`, `Exit` | `run_leader` in `agent/app.rs` and the `Drop` of `LeaderLock` |
| `leader[l].srv`, `ServerEnds` | the server task, which outlives a cancelled `run_leader` by its shutdown work and then removes the socket path |
| `FastPath`, `ClientOpen`, `ClientTryLock`, `Held`, `EvictLeader`, `Replace`, `Connect`, `Vacate`, `PollFails`, `SpawnDeadline`, `WaitDeadline`, `EvictTerm`, `EvictKill` | `connect_or_spawn`: the fast path, the attempt at the lock, what is done under it, the wait for another's leader, and the zombie net |
| `client[c].spawns`, `evicts`, `rounds` | its retry counters |
| `Hang`, `Stop`, `ClientDies`, signals without effect | faults, bounded by `MaxFaults` |

`raced` marks three windows of the code, and `OneLeader` is claimed outside
them: a `Drop` unlinks the lock file while another process has it open (that
process may then lock an inode nobody will find); a process opens the path
between the unlink and the close; and a cancelled server removes the socket
path after the lock has gone to a successor. In each of them two leaders can
exist for a time, contrary to what `lock.rs:669` and `leader/mod.rs:2043` say
of the lock. `NobodyUnderLock` and `ClientsReturn` are claimed without that
proviso.

Seen while modelling: `request_leader_vacate` is given a pid read after the
version was judged, so a client can signal the successor of the leader it
meant; a client that waits for the leader it spawned adopts whatever answers,
without a version check; a leader that accepts and never registers clients
makes the client fail, and is not caught by the zombie net; `evict_leader`,
which runs under the flock, can only meet a leader whose lock file was
unlinked.

Abstractions: Linux (`/proc/locks` names the holder, the listener is a socket
file); an exit closes all descriptors in one step; pids are not reused; the
pid sidecar file and the reconnect loop of a connected client are left out.

### SessionRelocation and SessionHome

`SessionHome` is the promise: a session lives in one working directory and
moves to another in one step that advances its cwd generation.
`SessionRelocation` is the protocol: journal `Prepared`, copy to a staging
directory, rewrite its summary, journal `Staged`, rename to the target,
journal `TargetPublished`, journal `Ready` (the commit point), remove the
source, journal `Committed`, remove the journal; and the rollback and the
recovery from any of these. A step is one file operation, which may fail.

`journal` and `dirs` are what a reader sees, `journalDisk` and `dirsDisk` the
sets of states a power loss may leave: an operation adds to them and a sync
of the parent directory reduces them to the present state. `PowerLoss`
chooses one. `remove_dir_all` may be seen, or survive, half done, with or
without `summary.json` (`Torn`). `Crash` ends one process and frees its lease.
`select` is the view's choice of directory, and the refinement mapping of
`Home == INSTANCE SessionHome` is the least-advanced home that any surviving
disk state would show: a move happens at the moment it is certain.

`Careful` says that callers use a `StagedRelocation` only under the lease it
was staged with and not after a failed rollback of it. The runs assume it.
The types do not enforce it: a rollback that failed while it removed the
published target can leave that target with its `summary.json` and without
other files, and `mark_ready_and_commit` with the retained transaction would
then commit it and remove the source, because `validate_target` looks at the
summary alone. No code in the repository calls `stage_and_publish` outside
the module and its tests yet, so the assumption is one on code to come.

A rollback cut short after the target lost its `summary.json` stays open for
good: `finish_rollback` refuses a target it cannot validate, so `recover_all`
and with it `list_summaries` fail until someone removes the directory.
`RecoveryEnds` names this case (`TornTarget`) as the only exception.

Left out: the reminder and `.cwd` marker files, the view's two separate reads
of journal and directories, `recover_all` over more than one session (leases
and journals are per session, but an error of one ends the loop).

### PromptQueue

The session actor and its turns run on one thread, so a step is what happens
between two points where the code may yield. `actor.at` says where the loop
is inside a handler that awaits with the state lock released: promoting,
completing, flushing, cancelling for a send-now, or in one of the stages of
`cancel_running_task`. Turns (`turn[t]`) and the MCP-init task (`mcp`) step in
between.

| Model | Code |
|---|---|
| `pending`, `running_task`, `front_message_committed`, `rewindable`, `notifications` | fields of `State` |
| `current_prompt_id` | the pin, under its own mutex, reset by a guard that a turn drops |
| `suppressed` | `notifications_suppressed`. The task-wake gate is set only together with it and cleared no later (a user turn's start, `turn.rs:718-727`, clears the gate alone), so the admission's "gate or flag" is the flag |
| `interjections`, `completions` | the interjection buffer and the channel of finished turns |
| `answer` | the `respond_to` of each prompt |
| `Promote`, `StartChecks`, `StartPromotes`, `McpChecks`, `McpPromotes` | `maybe_start_running_task`: a check, an await, a check again under the lock |
| `CancelRewinds`, `CancelTearsDown`, `CancelTakesFront`, `CancelResponds` | the stages of `cancel_running_task` |
| `Prompt`, `admit_task_completion_wake`, `SubagentCompleted` | `SessionCommand::Prompt` by origin: a user, a terminal task (with an admission), a background subagent (without one) |
| `InjectNotification`, `consume_deferred_completions`, `maybe_drain_notifications` | completions that are held instead of waking the session, and the two ways they are reported |
| `SetGoal`, and `goal'` in `flush_stranded_interjections` and `CancelResponds` | the goal tracker: set or resumed by a user's command before the turn's message, over or paused later in the turn, at its end (`handle_turn_end`) or by a cancel |
| `settled`, `lost`, `dropped`, `overlapped` | ghosts |

`overlapped` marks the one interleaving in which two turns run: the MCP-init
task (`run_loop.rs:312-318`) promotes the next prompt while a cancel has taken
`running_task` and has not yet aborted it. The old turn's late
`mark_front_message_committed` then flags the new front, and the cancel clears
the new turn's pin. It can happen once in a session's life, at its start.
`OneTurn` and `SendNowSpares` are not claimed then; everything else is.

An interjection that a turn has taken out of the buffer and not yet shown to
the model goes with the turn when that is aborted. A Cancel means that; a
send-now does not, and the code loses the text there all the same (finding 4).
The ghost `dropped` holds it: `InterjectionKept` names it as its exception, and
`SendNowFlushes`, that there is none, is violated.

A terminal task's wake asks for admission. After a stop it is stored as a
notification instead. It is stored too when the bridge, which waits 250 ms, has
gone by the time the actor answers (`run_loop.rs:136-139`); the handler then
ends without starting or draining anything, so in an idle session the
completion waits for the next event, which is why `BuffersDrain` is not claimed
of an idle session. A subagent's completion has no admission: it is queued and
runs after a stop as before it, and a turn it starts leaves the barrier up.
`StopHolds` is about terminal tasks and reports only.

`Only(q, S)` is the filter behind `sweep_pending_inputs`, the reordering and the
clearing of rows. It is written with the rank of each entry that stays (the
j-th is the one with j of them up to its place) and not with `SelectSeq`, which
is recursive and about which nothing can be proved. Prompts, texts, tasks,
subagents and report turns are different things, so their ids differ
(`PromptAssumption`).

Abstractions: a queue edit whose version or owner does not match does
nothing, so only effective edits are actions; how many prompts a turn combines
and whether goal mode drops a notification are left open; automatic send-now
during a blocking wait is a prompt with `now`; a flush inserts all its rows in
one step, and a turn puts what it has taken into the conversation in one step
(the code does so one by one, so a send-now may also drop only some of it).
Left out: edits of queued text, the plan-approval resume task, `Shutdown`,
monitor events and their mid-turn buffer, the reminder that tool results carry
(the gate's other reader, `task_completion.rs:734` in `xai-grok-tools`), turns
of the scheduler, of goal continuation, goal summaries and workflow
completions (queued without an admission, as subagents' are), queue
reservations and the replay buffer.

### Proof and MC modules

`CircuitBreakerProofs`, `SubagentCoordinatorProofs`, `SubagentDeliveryProofs`,
`LeaderElectionProofs`, `SessionRelocationProofs` and `PromptQueueProofs` hold
the theorems.
`SubagentDeliveryProofs` extends `SubagentCoordinatorProofs`: it needs the
invariant proved there.
`MCCircuitBreaker` and `MCSubagentCoordinator` give symmetry sets and, for the
coordinator, the requests that the spawns of each run may carry.
`MCLeaderElection` gives the clients their versions.

## 4. Runs

| Run | Checks | Instance | States |
|---|---|---|---|
| `breaker` | `TypeOK`, `ProbeAccounting`, `MirrorAgrees`, `LeaseBound`, `WindowCount`, `NoStranding` | 2 callers, one slot, a window of 2, times 0..2 | 114 000 |
| `breaker_window` | `ErrorRateSeesLiveSamples` is violated | times 0..3 | – |
| `breaker_cooldown` | `CoolDownHonoured` is violated | times 0..3 | – |
| `coordinator_queue` | `TypeOK`, `CapAndQueue`, `ExitIsClean`, `CallersServed`, `NoOvertaking` | 3 spawns of one session, limit 1 | 139 000 |
| `coordinator_owners` | `StopHolds`, `ParkedHaveCause`, `CompletionsDelivered`, `DeleteIsQuiet` | 2 spawns: workflow, loop, prompt or nested; 1 querier | 117 000 |
| `coordinator_timers` | `ForegroundAnswered`, `HoldsEnd`, `QueriesAnswered`, `CancelledQueuedLeave` | 2 foreground spawns, 1 querier | 15 000 |
| `coordinator_runs` | `QueueServed` | 2 spawns, background or workflow | 25 000 |
| `coordinator_lineage` | `StopReachesLineage` is violated | 2 spawns, one nested | – |
| `leader` | `TypeOK`, `OneLeader`, `NobodyUnderLock`, `ClientsReturn` | 2 clients of versions 1 and 2, 2 leaders, 4 inodes, 1 fault | 305 000 |
| `relocation` | `TypeOK`, `SurvivesPowerLoss`, `EndedIsClean`, `ImplementsHome`, `RecoveryEnds` | 1 relocator, 1 lister, 2 working directories, 2 nonces, 3 faults | 161 000 |
| `prompts` | `TypeOK`, `RunningIsFront`, `NoPromptLost`, `OneTurn`, `SendNowSpares`, `InterjectionKept`, `StopHolds`, `PromptsAnswered`, `BuffersDrain` | 2 prompts, 1 interjection, 1 task, 1 subagent, 1 cancel, any 3 of these | 608 000 |
| `prompts_send_now` | `SendNowFlushes` is violated | 2 prompts, 1 interjection | – |

**Bounds.** A breaker race needs a caller with a stale reading and another
that completes a whole cycle meanwhile: two callers do that, since one caller
can trip, probe and close by itself over and over. One slot, a window of two
and a minimum of two samples put every limit within reach; time 2 is two open
durations, enough for a lease to be taken over and to expire again; the window
finding needs one unit more than the window. At a limit of one, three spawns
are the smallest number with two in the queue, which order and sweep need;
the other coordinator runs need one child that runs and one that waits. The
completed table and the buffer are given caps below the number of children
where the run is about completions. All of these runs let spawns queue at the
limit; that a limit which fails instead keeps `CapAndQueue` and
`CompletionsDelivered`, with any number of sessions, is proved
(`LimitHolds`, `CompletionsReachOne`). `MaxTime`, `Ids` and the caps are the only
bounds of these runs.

Two clients are what a replacement race needs, one of them newer than the
old leader and one not; the old leader may be too old to be asked to relaunch
(`Legacy`). Four inodes suffice because a lock file is re-created only after
an unlink, and there are two leaders to unlink. A relocation there and one
back (`MaxGen` 2) let the second meet what the first left; three faults are
an error, a crash during the rollback it causes, and a power loss during the
recovery. For the queue, two prompts are a running one and one to promote;
the third input is the interjection, the completion or the cancel that races
them. More inputs than three are left to the proofs.

**Deadlock** is not checked in the coordinator runs, because the actor exits
and the system then rests, nor in `leader`, where clients return and a leader
goes on serving. The liveness properties speak of everything that waits before
that. It is checked for the breaker, for relocation and for the prompt queue.

**Symmetry** of ids is used in safety runs only.

**Fairness.** `FairSpec` of the breaker: the clock advances and each caller is
scheduled, so requests keep coming; a caller may still abandon each of its
requests. `TimerSpec` of the coordinator: an armed timer fires and a progress
future that the loop polls completes, which `select!` in `run()` gives as long
as the runtime polls the actor; nothing is assumed about commands, callers or
runs, so these properties hold with children that never finish. `RunSpec` adds
that every run ends. The code bounds neither a child's work nor the time a
cancelled child takes, so only `QueueServed` assumes that; what must not
depend on it is checked under `TimerSpec`. Of the election: processes run and
timeouts fire; a client that polls the socket for its whole deadline does not
miss a leader it could reach again and again (strong fairness of `Connect`).
Hung leaders are hung for good. Of relocation: a call goes on, a caller drops
its lease in the end, sessions are listed again and again, and such a listing
does not find the lease busy every single time. Of the prompt queue: the loop
runs, and while some turn has something left to do one of the turns proceeds
(one condition for all turns, so a turn that overlaps another may starve);
nothing is assumed of commands, of tasks or of the MCP task. That completions come before commands is the code's biased `select!`.

### Findings

1. *Expired samples in the window* (`breaker_window`). `record()` reads the
   clock before it takes the window lock. Two records that overtake each other
   push a young sample before an old one; `evict` pops from the front and
   stops at the young one. The comment of `error_rate` promises that samples
   older than the window are evicted. The effect is bounded: the old sample
   goes when the young one does.
2. *A cool-down cut short* (`breaker_cooldown`). A `check_open` that was
   delayed between its comparison and the lock wins the compare-exchange
   against an `Open` state that a later trip has published, and the new
   cool-down ends at once.
3. *A late nested spawn escapes Stop* (`coordinator_lineage`). A nested spawn
   is re-keyed to its root session through the *active* table. When the
   spawning child has finished in the meantime the request keeps the child's
   id as its session, for which nothing is blocked and which no later Stop of
   the root reaches. `StopHolds`, which is proved, is about the session a
   child is filed under; this is the part it cannot give.
4. *An interjection dropped by a send-now* (`prompts_send_now`).
   `cancel_turn_for_send_now` flushes the buffer into the queue ("Flush, don't
   clear: the pager already painted the text") and then has the turn aborted,
   some awaits later. The turn drains the same buffer into a local and awaits
   before each entry reaches the conversation. A text that the turn has taken
   is not there to flush and is gone with the abort, whether the turn took it
   before the send-now or between the command and the flush.

## 5. Proofs

All proofs are for arbitrary constants under the named assumptions of the
modules. `BreakerConstants` and `CoordinatorConstants`: configuration values
are naturals, the limit and the number of slots are at least one (the code
clamps them), the set of ids is finite, session ids are not request ids.
`LeaderConstants`: clients and leaders are different processes, there is a
leader binary to spawn and an inode to create, versions and budgets are
naturals. `RelocationConstants` and `NoneIsNothing`: budgets are naturals, and
the mark for "nothing there" is neither a process nor a journal nor a
directory. `PromptAssumption`: prompts, texts, tasks, subagents and report
turns have different ids, none of them `None`, and the bounds are naturals.

**CircuitBreakerProofs.** The inductive invariant `IInv` strengthens the five
properties with what the lock protects: only a caller inside a mirror step
holds `lock`, and the state it has published is the one its program counter
stands for. Without that `MirrorAgrees` is not inductive, since the second
step of a critical section sets the mirror without looking at the state. For
`LeaseBound` it adds `LeaseInv`: each admission beyond the slots taken was paid
for with one open duration between the start of the generation and the latest
claim, so that a takeover, which comes a whole lease after that claim, may add
one. `WindowCount` is inductive as it stands, given what push and evict do to
the window: a window that is one piece followed by another has the failures of
both (`CountSplit`, by a bijection between the indices of the second piece and
the upper indices of the whole), so a sample appended, the oldest one dropped at
the cap and a prefix evicted each change the number of failures by what the code
adds to or takes from its counter. Theorems: `TypeCorrect`, `ProbesAccounted`,
`MirrorCorrect`, `WindowIsExact`, `AdmissionsRationed`.

**SubagentCoordinatorProofs.** The invariant `Good(m)` is stated of the record
a handler works on, so that each helper has its lemma and an action is a
composition of them. `CapAndQueue` alone is not inductive: one must know that
queued spawns are Task spawns (workflow spawns bypass the limit), that their
arrival numbers differ, and that none is queued when the limit fails. The core
is the sweep in `Finished` at the end of a run: a session with a queue was at
the limit, so exactly one slot is free and the sweep starts the spawn with the
least arrival number and no other, which fills it again. `StopOK` survives the sweep because a stopped session has
nothing queued, and survives a spawn because `SpawnRefused` looks at the
session after re-keying. Theorems: `LimitHolds`, `StopIsFinal`.

**SubagentDeliveryProofs.** The coordinator's other promises: to callers, to
whoever is parked, and about completions. They depend on one another, so there
is one invariant for them, again of the record a handler works on and on top of
`Good`: `Kept` (types, deliveries, the quiet of a deleted session) holds always,
`Serving` (callers and parked responders) until the actor exits and drops them
all. Four strengthenings make it inductive.
- `CallersServed`: a child that ends takes its reply and its deadline with it,
  because both are tied to live ids; the two stay together through the moments
  at which a handler has answered one caller and not yet the next.
- `DeleteIsQuiet`: that nothing of a draining session is buffered now does not
  keep a child from ending later. The invariant adds that its Task children
  are muted and, because admission is closed while the delete waits, that
  nobody joins them (`QuietAt`, with `drains` among the blocked sessions).
  Only ids that have ended are buffered, so a re-keyed or a new id brings
  nothing into the buffer.
- `ParkedHaveCause`: the resolution of drains and of workflow cancels at the
  end of each handler leaves exactly those with something still to wait for.
- `ExitIsClean`: the exit condition looks at the runs in flight and at progress
  queries, not at the queue. A session with a spawn queued is at its limit
  (`CapAndQueue`), the limit is at least one, so somebody is in flight; and
  whoever else is parked waits for a live id.

`FirstComeFirstServed` is about steps. Only the end of a run starts queued
spawns (one frame lemma per action for the others); there the sweep starts a
spawn when the spawns ahead of it leave a slot, and those ahead of an earlier
arrival are among those ahead of a later one, so the earlier one starts too.
The invariant was model-checked on the configurations of `coordinator_queue` and
`coordinator_owners`, and with a limit that fails, before it was proved. Theorems:
`CoordinatorTypes`, `CallersAreServed`, `NobodyParkedInVain`,
`CompletionsReachOne`, `DeleteStaysQuiet`, `ExitLeavesNobody`,
`FirstComeFirstServed`.

**LeaderElectionProofs.** `OneLeader` counts the leaders that hold any flock,
and a step of the code only ever looks at one inode, so it is not inductive.
`IInv` ties four things together that the code keeps apart. A process holds a
flock exactly where its program counter says so, and then of the inode it has
open (`LeaderHolds`, `ClientHolds`). The pid in the file at the path is that of
a process that locked this very file, as long as the process lives (`PidInv`).
Without a race, whoever holds a flock holds that of the file at the path, or
has just unlinked it, alone, and no file is there (`LinkInv`): two leaders would
then hold one inode. And without a race a server that is up owns the socket
(`SockInv`), which is why the cleanup of the next leader cannot take it away:
it needs the lock first. `NobodyUnderLock` follows from `PidInv` and the flock,
with no proviso about races. The retry budgets in `TypeOK` follow from the
tests before each increment. Theorems: `LeaderTypes`, `OneLeaderAtATime`,
`LockMeansNobody`.

**SessionRelocationProofs.** The theorems have the hypothesis `Careful`
(section 3), as the run has. The properties speak of every combination of a
journal and of directories that a power loss may leave, so the invariant does
too. `JournalOk(j)`, for each journal that may survive, says what the
directories must then hold in every surviving state: a journal with target
authority has a sound target, any other a sound source; one that has ended, or
none at all, has one copy and nothing staged; one that has not ended confines
all else to its own source, target and staging directory. That alone is not
inductive. `Agree` adds that while there is anything to clean up, all the
journals that may be found are of one relocation and none is beyond the visible
one. `Known(pc, j)` adds what the process inside a call has established, step
by step: a directory is removed only when the other copy is certain, because
the journal that says so has been synced (`journalDisk = {j}`). `TxnOk` carries
the knowledge that the published target is intact between `stage_and_publish`
and `mark_ready_and_commit`; this is the part that fails without `Careful`.

`RelocationIsAtomic` is the refinement of `SessionHome`. By `JournalOk`, the
home that a surviving state shows depends on its journal alone; by `Agree`,
the surviving journals show at most the old and the new home of one move. The
mapping takes the older, so it changes only at the step at which the last
journal without target authority can no longer survive: the sync of `Ready`, or
a power loss that kept `Ready`. That step is one move of `SessionHome`, and
every other step of the protocol a stutter. Theorems: `RelocationTypes`,
`PowerLossSurvived`, `EndsClean`, `RelocationIsAtomic`.

**PromptQueueProofs.** First, what each edit leaves in a queue: `OnlyRows`
(a filter keeps the entries, their order and the front if it stays),
`WithoutRow`, `InsertNowRow`, `FallbackRows`, `MergedRows`. `OnlyPlaces` is the
hard one: the ranks of the places that stay are an injection into as many
numbers, so every number is the rank of one; and `InsertNowRow` needs that there
is a place to insert at, the least that is not behind a send-now. Then one
lemma per action, for an invariant with a part for each kind of mistake.
- `Fronts`: `RunningIsFront` says nothing of the loop between two awaits. The
  invariant adds that a queue may have no running front only where the loop is
  about to start one or has just taken one away, and that a send-now on its way
  to cancel found a committed front, which stays committed and in front.
- `Places`: a message is queued or in the buffer, never both, never twice, and
  was sent before; so a new prompt, text or completion can collide with nothing.
- `Turning`: a live turn is the running one or the one a cancel is tearing
  down, and carries the messages of its row. The id of a turn whose completion
  is still in the channel, or which a cancel holds, comes back in no other row;
  this is why a late completion finds either its own front or nothing.
- `Answers`: who waits has a row. `NoPromptLost` needs it with the rows of the
  queue and of a cancel kept apart, to count exactly one.
- `Commits`: while nothing overlapped, the messages of a committed front are in
  the conversation. `mark_front_message_committed` flags whoever is in front, so
  this rests on `Turning`: there is only one turn that could call it.
- `Barrier` and `Reports`: a stop arms the barrier before it sweeps, so
  `StopHolds` fails between the two as a state predicate and the invariant
  excepts just that place; a report of notifications is only ever the front,
  so the sweep of wakes behind the front misses nothing. Rows of subagents may
  stand behind the barrier, and promoting one does not lift it.
- `Kept`: what was said, with the turn or the cancel that has it in hand, and
  with `dropped` for what a send-now took from a turn.

`EditKeeps` carries the invariant over every edit of the queue at once, given
that the running front stays and that no id comes in that a turn on its way out
still has; `FrontTaken` does so for the three forms of a cancel under the lock,
`FallbackKeeps` for the three ways an interjection gets a turn of its own, and
`PromoteKeeps` for the loop and the MCP task alike. Before it was
proved the invariant was model-checked, without subagents, on an instance
larger than that of the run (two cancels, four inputs, two report turns). Theorems: `QueueTypes`,
`TheFrontRuns`, `EveryPromptIsAnswerable`, `TurnsAreSingle`,
`SendNowSparesTheUnseen`, `InterjectionsAreKept`, `StopsHold`.

**Only model-checked**: every liveness property (fairness is out of the
prover's reach): `NoStranding`, the four of `coordinator_timers`, `QueueServed`,
`ClientsReturn`, `RecoveryEnds`, `PromptsAnswered` and `BuffersDrain`.

## 6. Not modelled

Everything in section 1 beyond the components of section 3, for the
reasons `PROJECT.json` gives component by component: parts that are planned,
parts whose behaviour is that of an external service or the operating system,
and parts that are data formats, text or rendering.
