------------------------ MODULE SubagentCoordinator ------------------------
(***************************************************************************)
(* The subagent coordinator of xai-grok-tools (grok_build/task): the actor *)
(* that owns every subagent of a Turbo Build process.                      *)
(*                                                                         *)
(* One step of the model is one turn of the actor's select loop (a command *)
(* of its mailbox, a run that ended, a child that reported its start, a    *)
(* timer) or one step of its environment: a caller that stops listening, a *)
(* host that cancels a request's token.  Children are identified by their  *)
(* request id, which is also the session id of the child.                  *)
(*                                                                         *)
(* Time is abstracted: a timer that is armed may fire at any moment.  The  *)
(* admission queue is the set of queued children with their arrival        *)
(* numbers; which entry a full completed table or completion buffer drops  *)
(* is left open.                                                           *)
(***************************************************************************)
EXTENDS Naturals, FiniteSets

CONSTANTS
  Ids,                \* request ids; each is spawned at most once (UUID v7)
  Sessions,           \* root sessions
  Runs,               \* workflow runs
  Queriers,           \* clients that block on a subagent's completion
  Requests,           \* the requests spawns may carry
  None,               \* an absent parent, run, prompt or loop task
  MaxConcurrent,      \* admission limit, already clamped to 1 or more
  LimitBehavior,      \* "Queue" or "Fail"
  BufferCompletions,  \* CoordinatorConfig::buffer_completions
  MaxCompleted,       \* MAX_COMPLETED_ENTRIES
  MaxBuffered         \* MAX_PENDING_COMPLETIONS

\* What a spawn request says, as far as the coordinator looks at it.
RequestShape(r) ==
  /\ DOMAIN r = {"parent", "run", "prompt", "loop", "background",
                 "toCompletion", "surface"}
  /\ r.parent \in Sessions \cup Ids
  /\ r.run \in Runs \cup {None}
  /\ r.background \in BOOLEAN /\ r.toCompletion \in BOOLEAN
  /\ r.surface \in BOOLEAN

ASSUME CoordinatorConstants ==
  /\ IsFiniteSet(Ids)
  /\ MaxConcurrent \in Nat \ {0}
  /\ MaxCompleted \in Nat /\ MaxBuffered \in Nat
  /\ LimitBehavior \in {"Queue", "Fail"}
  /\ BufferCompletions \in BOOLEAN
  /\ Sessions \cap Ids = {}
  /\ None \notin Sessions \cup Ids \cup Runs
  /\ \A r \in Requests : RequestShape(r)

VARIABLES
  phase,      \* which table holds each id
  parent,     \* parent_session_id, after reparenting
  run,        \* owner: the workflow run, or None for a Task spawn
  loop,       \* loop_task_id, after reparenting
  kind,       \* the request of a live id as it was sent
  ticket,     \* arrival number of a queued id
  arrivals,   \* spawns queued since the queue was last empty
  token,      \* live ids whose cancel token is cancelled
  killed,     \* live ids with explicitly_killed
  muted,      \* live ids whose surface_completion is false
  reply,      \* ids whose spawn_reply (result_tx) the coordinator still holds
  handleOnly, \* live ids with handle_only
  deadline,   \* live ids with an armed foreground deadline
  caller,     \* what each spawn caller has seen
  watch,      \* the query of each querier
  buffer,     \* pending_completions
  blocked,    \* spawn_blocked_sessions
  drains,     \* sessions with a teardown drain
  wfWaits,    \* runs with a parked workflow-cancel responder
  open,       \* the mailbox still has senders
  exited,     \* the actor is gone
  launched,   \* history: the possible spawners that were ever active
  root,       \* history: the session at the root of each id's lineage
  outcome     \* history: what became of each completion

tables == <<phase, parent, run, loop, kind, root, ticket, arrivals>>
flags == <<token, killed, muted, reply, handleOnly, deadline, caller>>
parked == <<watch, buffer, blocked, drains, wfWaits>>
vars == <<tables, flags, parked, outcome, launched, open, exited>>

InFlightPhases == {"pending", "active"}
LivePhases == {"queued", "pending", "active"}
Phases == LivePhases \cup {"unknown", "refused", "completed", "evicted"}
Outcomes == {"none", "told", "surfaced", "silenced", "dropped", "twice"}
CallerStates == {"none", "waiting", "gone", "interim", "final", "lost"}
Keys == Sessions \cup Ids

Idle == [mode |-> "idle", id |-> None]

Init ==
  /\ phase = [i \in Ids |-> "unknown"]
  /\ parent = [i \in Ids |-> None]
  /\ run = [i \in Ids |-> None]
  /\ loop = [i \in Ids |-> None]
  /\ kind = [i \in Ids |-> None]
  /\ root = [i \in Ids |-> None]
  /\ ticket = [i \in Ids |-> 0] /\ arrivals = 0
  /\ token = {} /\ killed = {} /\ muted = {}
  /\ reply = {} /\ handleOnly = {} /\ deadline = {}
  /\ caller = [i \in Ids |-> "none"]
  /\ watch = [q \in Queriers |-> Idle]
  /\ buffer = {} /\ blocked = {} /\ drains = {} /\ wfWaits = {}
  /\ open = TRUE /\ exited = FALSE
  /\ launched = {}
  /\ outcome = [i \in Ids |-> "none"]

-----------------------------------------------------------------------------
(***************************************************************************)
(* A handler runs without interleaving, so it is a chain of functions on   *)
(* the actor's state m, from Now or Reaped to what Becomes assigns.        *)
(***************************************************************************)
Now ==
  [phase |-> phase, parent |-> parent, run |-> run, loop |-> loop,
   kind |-> kind, ticket |-> ticket, arrivals |-> arrivals,
   token |-> token, killed |-> killed, muted |-> muted,
   reply |-> reply, handleOnly |-> handleOnly, deadline |-> deadline,
   caller |-> caller, watch |-> watch, buffer |-> buffer,
   blocked |-> blocked, drains |-> drains, wfWaits |-> wfWaits,
   outcome |-> outcome]

Queued(m) == {i \in Ids : m.phase[i] = "queued"}
InFlight(m) == {i \in Ids : m.phase[i] \in InFlightPhases}
Live(m) == {i \in Ids : m.phase[i] \in LivePhases}
OfSession(m, s) == {i \in Live(m) : m.parent[i] = s}
Workflow(m) == {i \in Ids : m.run[i] # None}

\* session_running_count: workflow children draw from their run's pool.
Running(m, s) == {i \in InFlight(m) : m.parent[i] = s /\ m.run[i] = None}

\* Mutant: the comparison with the limit is off by one.
HasCapacityOffByOne(m, s) == Cardinality(Running(m, s)) <= MaxConcurrent

HasCapacity(m, s) == Cardinality(Running(m, s)) < MaxConcurrent

\* workflow_outstanding
Outstanding(m, r) == {i \in InFlight(m) : m.run[i] = r}

AwaitsInForeground(r) == ~r.background /\ ~r.toCompletion

-----------------------------------------------------------------------------
(* finish_child, and the sweep of the queue that ends it.                  *)

\* Mutant: the queue is served from the back.
AheadLastFirst(m, done, i) ==
  {j \in Queued(m) \ done : /\ m.parent[j] = m.parent[i]
                            /\ m.ticket[j] > m.ticket[i]}

\* Queue order: a spawn starts when its session has a slot left after the
\* earlier arrivals of that session.
Ahead(m, done, i) ==
  {j \in Queued(m) \ done : /\ m.parent[j] = m.parent[i]
                            /\ m.ticket[j] < m.ticket[i]}

\* Mutant: the sweep runs before the finished child leaves the active table.
StartsCountFinished(m, done) ==
  {i \in Queued(m) \ done :
     Cardinality(Running(m, m.parent[i])) + Cardinality(Ahead(m, done, i))
       < MaxConcurrent}

Starts(m, done) ==
  {i \in Queued(m) \ done :
     Cardinality(Running(m, m.parent[i]) \ done) + Cardinality(Ahead(m, done, i))
       < MaxConcurrent}

\* A teardown drain resolves when the last child of its session ends.
DrainsResolved(m, done) ==
  {s \in m.drains : /\ \E i \in done : m.parent[i] = s
                    /\ OfSession(m, s) \subseteq done}

\* Mutant: the run is looked at before the finished child leaves its table.
WaitsResolvedTooSoon(m, done) ==
  {r \in m.wfWaits : (\E i \in done : m.run[i] = r) /\ Outstanding(m, r) = {}}

\* A workflow cancel is answered when the run has nothing outstanding.
WaitsResolved(m, done) ==
  {r \in m.wfWaits : /\ \E i \in done : m.run[i] = r
                     /\ Outstanding(m, r) \subseteq done}

\* spawn_reply.send is_ok, and a blocking waiter that is still there.
Sent(m, i) == i \in m.reply /\ m.caller[i] = "waiting"
Heard(m, i) == \E q \in Queriers : m.watch[q] = [mode |-> "blocked", id |-> i]

\* handle_only as finish_child leaves it, and the disposition built on it.
Backgrounded(m, i) == i \in m.handleOnly \/ ~Sent(m, i)

\* Mutant: the result of the send to the spawn caller is ignored.
SurfacesIfHandleOnly(m, i, cut) ==
  /\ i \notin m.muted /\ i \notin m.killed /\ i \notin cut
  /\ i \in m.handleOnly /\ ~Heard(m, i)

Surfaces(m, i, cut) ==
  /\ i \notin m.muted /\ i \notin m.killed /\ i \notin cut
  /\ Backgrounded(m, i) /\ ~Heard(m, i)

\* Mutant: a muted completion is buffered all the same.
BuffersMuted(m, i, cut) ==
  /\ BufferCompletions /\ i \notin Workflow(m)
  /\ i \notin m.killed /\ i \notin cut

Buffers(m, i, cut) ==
  /\ BufferCompletions /\ i \notin Workflow(m)
  /\ i \notin m.muted /\ i \notin m.killed /\ i \notin cut

\* Whom the completion reached: somebody who waited for it, the host's
\* surface, or nobody by intent.
Reached(m, i, cut) ==
  LET heard    == Heard(m, i) \/ ~Backgrounded(m, i)
      surfaces == Surfaces(m, i, cut)
  IN  IF heard /\ surfaces THEN "twice"
      ELSE IF heard THEN "told"
      ELSE IF surfaces THEN "surfaced"
      ELSE IF i \in m.muted \/ i \in m.killed \/ i \in cut THEN "silenced"
      ELSE "dropped"

(***************************************************************************)
(* finish_child for each id of `over', whose result is cancelled if it is  *)
(* in `cut'.  The sweep also ends every queued id whose token is           *)
(* cancelled.                                                              *)
(***************************************************************************)
Finished(m, over, cut) ==
  LET swept   == Queued(m) \cap m.token
      done    == over \cup swept
      failed  == cut \cup (swept \ over)
      starts  == Starts(m, done)
      cleared == DrainsResolved(m, done)
  IN  [phase |-> [i \in Ids |-> IF i \in done THEN "completed"
                                ELSE IF i \in starts THEN "pending"
                                ELSE m.phase[i]],
       parent |-> m.parent, run |-> m.run, loop |-> m.loop,
       kind |-> [i \in Ids |-> IF i \in done THEN None ELSE m.kind[i]],
       ticket |-> [i \in Ids |-> IF i \in done \cup starts THEN 0
                                 ELSE m.ticket[i]],
       arrivals |-> m.arrivals,
       token |-> m.token \ done, killed |-> m.killed \ done,
       muted |-> m.muted \ done, reply |-> m.reply \ done,
       handleOnly |-> (m.handleOnly \cup (starts \ m.reply)) \ done,
       deadline |-> m.deadline \ done,
       caller |-> [i \in Ids |->
                     IF i \in done /\ (m.caller[i] = "waiting" => Sent(m, i))
                     THEN "final" ELSE m.caller[i]],
       watch |-> [q \in Queriers |->
                    IF m.watch[q].mode \in {"blocked", "closed"}
                         /\ m.watch[q].id \in done
                    THEN Idle ELSE m.watch[q]],
       buffer |-> m.buffer \cup {i \in done : Buffers(m, i, failed)},
       blocked |-> m.blocked \ cleared, drains |-> m.drains \ cleared,
       wfWaits |-> m.wfWaits \ WaitsResolved(m, done),
       outcome |-> [i \in Ids |-> IF i \in done THEN Reached(m, i, failed)
                                  ELSE m.outcome[i]]]

\* remove_queued: what matches ends as cancelled; nothing matched, nothing done.
RemoveQueued(m, matched) ==
  LET removed == Queued(m) \cap matched
  IN  IF removed = {} THEN m ELSE Finished(m, removed, removed)

(***************************************************************************)
(* reap_abandoned_callers: a spawn caller dropped its receiver while the   *)
(* turn still waits for the child.  A Task child goes to the background, a *)
(* workflow child is cancelled, a queued child keeps its place; then the   *)
(* queued ids with a cancelled token are removed.                          *)
(***************************************************************************)
Abandoned(m) ==
  {i \in m.reply : /\ m.caller[i] = "gone"
                   /\ i \in Queued(m) \/ (i \in InFlight(m) /\ i \notin m.handleOnly)}

\* Mutant: the reply is taken and the turn keeps waiting for the child.
LetGoKeepsTurn(m) ==
  [m EXCEPT !.reply = m.reply \ Abandoned(m),
            !.token = m.token \cup (Abandoned(m) \cap Workflow(m))]

LetGo(m) ==
  LET lost == Abandoned(m)
      stop == lost \cap Workflow(m)
  IN  [m EXCEPT !.reply = m.reply \ lost,
                !.token = m.token \cup stop,
                !.deadline = m.deadline \ (lost \ stop),
                !.handleOnly = m.handleOnly \cup ((lost \cap InFlight(m)) \ stop)]

\* Mutant: queued spawns whose token is cancelled are not looked at.
ReapedCallersOnly == {LetGo(Now)}

\* The state after the reap, as a singleton.  (Binding m to each stage makes
\* TLC compute it once.)
Reaped == {RemoveQueued(m, m.token) : m \in {LetGo(Now)}}

\* A full table or buffer drops entries until it is back at its cap.
Overflow(full, cap) ==
  IF Cardinality(full) <= cap THEN {{}}
  ELSE {x \in SUBSET full : Cardinality(full \ x) = cap}

\* The end of a turn of the loop that computed `result': the completed table
\* is cut to its cap.
Becomes(result) ==
  \E m \in {result} :
    /\ \E old \in Overflow({i \in Ids : m.phase[i] = "completed"}, MaxCompleted) :
         phase' = [i \in Ids |-> IF i \in old THEN "evicted" ELSE m.phase[i]]
    /\ \E old \in Overflow(m.buffer, MaxBuffered) : buffer' = m.buffer \ old
    /\ parent' = m.parent /\ run' = m.run /\ loop' = m.loop
    /\ kind' = m.kind /\ ticket' = m.ticket
    /\ arrivals' = IF Queued(m) = {} THEN 0 ELSE m.arrivals
    /\ token' = m.token
    /\ killed' = m.killed /\ muted' = m.muted /\ reply' = m.reply
    /\ handleOnly' = m.handleOnly /\ deadline' = m.deadline
    /\ caller' = m.caller /\ watch' = m.watch
    /\ blocked' = m.blocked /\ drains' = m.drains /\ wfWaits' = m.wfWaits
    /\ outcome' = m.outcome
    /\ UNCHANGED exited

-----------------------------------------------------------------------------
(* handle_spawn                                                            *)

\* reparent_nested_spawn looks for the spawner among the active children.
Nested(m, r) == r.parent \in Ids /\ m.phase[r.parent] = "active"
SpawnerTornDown(m, r) == Nested(m, r) /\ r.parent \in m.token
RootParent(m, r) == IF Nested(m, r) THEN m.parent[r.parent] ELSE r.parent
OwnerRun(m, r) == IF r.run = None /\ Nested(m, r) THEN m.run[r.parent] ELSE r.run
LoopTask(m, r) == IF r.loop = None /\ Nested(m, r) THEN m.loop[r.parent] ELSE r.loop

\* Mutant: spawn_blocked_sessions is not consulted.
SpawnRefusedByTearDown(m, r) == SpawnerTornDown(m, r)

\* "parent subagent is being torn down", "parent session is stopped"
SpawnRefused(m, r) ==
  \/ SpawnerTornDown(m, r)
  \/ OwnerRun(m, r) = None /\ RootParent(m, r) \in m.blocked

\* Mutant: a background spawn skips the limit.
StartsNowInBackground(m, r) ==
  OwnerRun(m, r) # None \/ r.background \/ HasCapacity(m, RootParent(m, r))

\* Admission::admit; workflow spawns bypass the limit.
StartsNow(m, r) == OwnerRun(m, r) # None \/ HasCapacity(m, RootParent(m, r))

\* Mutant: the queue is numbered downwards.
NextTicketDown(m) == m.arrivals - 1

\* Arrival number of the next queued spawn (push_back).
NextTicket(m) == m.arrivals + 1

\* The spawn as it is entered in a table, its receiver `c' still there or
\* already gone; ChannelBackend cancels the token of a workflow request
\* whose receiver is dropped.
Entered(m, i, r, c, table) ==
  LET new == {i}
  IN  [m EXCEPT
         !.phase[i] = table,
         !.parent[i] = RootParent(m, r),
         !.run[i] = OwnerRun(m, r),
         !.loop[i] = LoopTask(m, r),
         !.kind[i] = r,
         !.ticket[i] = IF table = "queued" THEN NextTicket(m) ELSE 0,
         !.arrivals = IF table = "queued" THEN NextTicket(m) ELSE m.arrivals,
         !.muted = IF r.surface /\ ~Nested(m, r) THEN m.muted ELSE m.muted \cup new,
         !.reply = m.reply \cup new,
         !.handleOnly = IF r.background THEN m.handleOnly \cup new ELSE m.handleOnly,
         !.deadline = IF AwaitsInForeground(r) THEN m.deadline \cup new ELSE m.deadline,
         !.token = IF r.run # None /\ c = "gone" THEN m.token \cup new ELSE m.token,
         !.caller[i] = c]

\* What handle_spawn leaves: refused, started, queued or failed at the limit.
Spawned(m, i, r, c) ==
  IF SpawnRefused(m, r)
  THEN [m EXCEPT !.phase[i] = "refused", !.caller[i] = "final"]
  ELSE IF StartsNow(m, r) THEN Entered(m, i, r, c, "pending")
  ELSE IF LimitBehavior = "Queue" THEN Entered(m, i, r, c, "queued")
  ELSE Finished(Entered(m, i, r, c, "pending"), {i}, {})

\* A nested request comes from a child that ran, perhaps one that is over.
Spawn(i, r, c) ==
  /\ ~exited /\ open
  /\ phase[i] = "unknown"
  /\ r.parent \in Ids => r.parent \in launched
  /\ root' = [root EXCEPT ![i] = IF r.parent \in Ids THEN root[r.parent] ELSE r.parent]
  /\ \E m \in Reaped : Becomes(Spawned(m, i, r, c))
  /\ UNCHANGED <<launched, open>>

-----------------------------------------------------------------------------
(* The runner: InternalEvent::Started and the end of a run.                *)

\* The reporter's Started is refused once the token is cancelled.
Started(i) ==
  /\ ~exited
  /\ phase[i] = "pending" /\ i \notin token
  /\ Becomes([Now EXCEPT !.phase[i] = "active"])
  /\ launched' = launched \cup ({i} \cap {r.parent : r \in Requests})
  /\ UNCHANGED <<root, open>>

\* The run ends by itself, by a panic or because it was cancelled.
FinishRun(i, cut) ==
  /\ ~exited
  /\ i \in InFlight(Now)
  /\ \E m \in {Now} : Becomes(Finished(m, {i}, cut))
  /\ UNCHANGED <<root, launched, open>>

-----------------------------------------------------------------------------
(* The other commands.  Each is preceded by the reap.                      *)

Command(m) ==
  /\ ~exited /\ open
  /\ Becomes(m)
  /\ UNCHANGED <<root, launched, open>>

\* belongs_to_session; None is an unbound caller.
Scope(m, s) == IF s = None THEN Live(m) ELSE OfSession(m, s)

\* Cancel tokens of the in-flight ids of a set and drop its queued ids.
Cancelled(m, ids) ==
  RemoveQueued([m EXCEPT !.token = m.token \cup (ids \cap InFlight(m))], ids)

\* cancel_one, always explicit
CancelOne(i) ==
  \E m \in Reaped :
    Command(Cancelled([m EXCEPT !.killed = m.killed \cup ({i} \cap InFlight(m))],
                      {i} \cap Live(m)))

\* cancel_parent_prompt
CancelPrompt(p, s) ==
  \E m \in Reaped :
    Command(Cancelled(m, {i \in Scope(m, s) : m.kind[i].prompt = p}))

\* cancel_parent_session: the user's Stop
StopSession(s) ==
  \E m \in Reaped :
    Command(Cancelled([m EXCEPT !.blocked = m.blocked \cup {s}],
                      OfSession(m, s) \ Workflow(m)))

\* cancel_workflow_children; the responder waits for what is outstanding.
CancelWorkflow(r, s) ==
  \E m \in Reaped :
    Command([m EXCEPT
        !.token = m.token \cup (Outstanding(m, r) \cap Scope(m, s)),
        !.wfWaits = IF Outstanding(m, r) = {} THEN m.wfWaits ELSE m.wfWaits \cup {r}])

\* cancel_loop_task_children
CancelLoop(l, s) ==
  \E m \in Reaped :
    LET ids == {i \in Scope(m, s) : m.loop[i] = l}
        hit == ids \cap InFlight(m)
    IN  Command(Cancelled([m EXCEPT !.killed = m.killed \cup hit,
                                    !.muted = m.muted \cup hit], ids))

\* TeardownSession; with a responder (delete) it closes admission and waits
\* for the children that remain.
Teardown(s, responder) ==
  \E m \in Reaped :
    LET ids  == OfSession(m, s)
        left == Cancelled([m EXCEPT !.muted = m.muted \cup ids,
                                    !.buffer = {i \in m.buffer : m.parent[i] # s}],
                          ids)
        hold == IF responder /\ OfSession(left, s) # {} THEN {s} ELSE {}
    IN  Command([left EXCEPT !.blocked = left.blocked \cup hold,
                             !.drains = left.drains \cup hold])

\* OpenSpawnAdmission: the next turn, unless a delete is draining.
OpenAdmission(s) ==
  \E m \in Reaped :
    Command([m EXCEPT !.blocked = IF s \in m.drains THEN m.blocked
                                  ELSE m.blocked \ {s}])

\* Completions: the session, or an unbound host, takes what is buffered.
Completions(s) ==
  \E m \in Reaped :
    Command([m EXCEPT !.buffer = {i \in m.buffer : s # None /\ m.parent[i] # s}])

\* handle_query: a blocking one is parked on a live Task child, a polling one
\* of an active child waits for its progress; the rest is answered at once.
Query(q, i, block) ==
  \E m \in Reaped :
    /\ watch[q] = Idle
    /\ i \notin Workflow(m)
    /\ IF block THEN i \in Live(m) ELSE m.phase[i] = "active"
    /\ Command([m EXCEPT !.watch[q] = [mode |-> IF block THEN "blocked" ELSE "progress",
                                       id |-> i]])

\* Every command that leaves this state alone: listings, snapshots, Outstanding,
\* the usage flags of a prompt, a steer of a running child.
Observe == \E m \in Reaped : Command(m)

-----------------------------------------------------------------------------
(* Timers, progress and the end of the actor.                              *)

\* Mutant: only children in flight are handed off at the deadline.
HandOffInFlight(m, due) ==
  LET over == due \cap m.deadline \cap InFlight(m)
  IN  [m EXCEPT
         !.caller = [i \in Ids |-> IF i \in over /\ Sent(m, i) THEN "interim"
                                   ELSE m.caller[i]],
         !.reply = m.reply \ over,
         !.deadline = m.deadline \ over,
         !.handleOnly = m.handleOnly \cup over]

(***************************************************************************)
(* process_deadlines, with the foreground deadlines, the waiters and the   *)
(* drains that are due.  With none due it is the queue's reap tick.        *)
(***************************************************************************)
HandOff(m, due) ==
  LET over == due \cap m.deadline
  IN  [m EXCEPT
         !.caller = [i \in Ids |-> IF i \in over /\ Sent(m, i) THEN "interim"
                                   ELSE m.caller[i]],
         !.reply = m.reply \ over,
         !.deadline = m.deadline \ over,
         !.handleOnly = m.handleOnly \cup (over \cap InFlight(m))]

\* Mutant: only waiters of active children are answered at their timeout.
AnswerWaitersOfActive(m, due) ==
  [m EXCEPT
     !.watch = [q \in Queriers |->
                  IF q \in due /\ m.watch[q].mode = "blocked"
                       /\ m.phase[m.watch[q].id] = "active"
                  THEN [m.watch[q] EXCEPT !.mode = "progress"] ELSE m.watch[q]]]

AnswerWaiters(m, due) ==
  [m EXCEPT
     !.watch = [q \in Queriers |->
                  IF q \notin due \/ m.watch[q].mode \notin {"blocked", "closed"}
                  THEN m.watch[q]
                  ELSE IF m.watch[q].mode = "blocked"
                            /\ m.phase[m.watch[q].id] = "active"
                  THEN [m.watch[q] EXCEPT !.mode = "progress"] ELSE Idle]]

\* Mutant: admission reopens at the drain's deadline but the drain stays.
ReopenDrainedKeeps(m, due) ==
  [m EXCEPT !.blocked = m.blocked \ (due \cap m.drains)]

ReopenDrained(m, due) ==
  [m EXCEPT !.blocked = m.blocked \ (due \cap m.drains),
            !.drains = m.drains \ due]

ProcessDeadlines(due, dueWaiters, dueDrains) ==
  \E m \in Reaped :
    /\ ~exited
    /\ due \subseteq deadline /\ dueDrains \subseteq drains
    /\ \A q \in dueWaiters : watch[q].mode \in {"blocked", "closed"}
    /\ Becomes(AnswerWaiters(HandOff(ReopenDrained(m, dueDrains), due), dueWaiters))
    /\ UNCHANGED <<root, launched, open>>

Timers ==
  \E due \in SUBSET deadline, dueWaiters \in SUBSET Queriers,
     dueDrains \in SUBSET drains :
       /\ due # {} \/ dueWaiters # {} \/ dueDrains # {} \/ Queued(Now) # {}
       /\ ProcessDeadlines(due, dueWaiters, dueDrains)

\* finish_progress answers, whether the child is still active or not.
FinishProgress(q) ==
  /\ ~exited
  /\ watch[q].mode = "progress"
  /\ Becomes([Now EXCEPT !.watch[q] = Idle])
  /\ UNCHANGED <<root, launched, open>>

\* The last sender is dropped.
CloseMailbox ==
  /\ ~exited /\ open
  /\ open' = FALSE
  /\ UNCHANGED <<tables, flags, parked, outcome, launched, exited>>

\* The loop leaves when the mailbox is closed and no future is left.  (Type
\* validations and descriptions, futures that touch no table, are left out:
\* they only delay the exit.)
MayExit ==
  /\ ~open
  /\ InFlight(Now) = {}
  /\ \A q \in Queriers : watch[q].mode # "progress"

\* Drop, after a clean exit or of the future itself: queued callers are told,
\* every other channel the coordinator holds closes.
Drop ==
  /\ exited' = TRUE /\ open' = FALSE
  /\ phase' = [i \in Ids |-> IF i \in Queued(Now) THEN "evicted" ELSE phase[i]]
  /\ token' = token \cup Live(Now)
  /\ caller' = [i \in Ids |->
                  IF ~Sent(Now, i) THEN caller[i]
                  ELSE IF i \in Queued(Now) THEN "final" ELSE "lost"]
  /\ reply' = {} /\ deadline' = {}
  /\ watch' = [q \in Queriers |-> Idle]
  /\ drains' = {} /\ wfWaits' = {}
  /\ UNCHANGED <<parent, run, loop, kind, root, ticket, arrivals, killed, muted,
                 handleOnly, buffer, blocked, outcome, launched>>

Exit == ~exited /\ MayExit /\ Drop
Abort == ~exited /\ ~MayExit /\ Drop

-----------------------------------------------------------------------------
(* The environment.                                                        *)

\* The caller of a live spawn stops listening.
CallerDrops(i) ==
  /\ ~exited
  /\ caller[i] = "waiting"
  /\ caller' = [caller EXCEPT ![i] = "gone"]
  /\ token' = IF kind[i].run # None THEN token \cup {i} ELSE token
  /\ UNCHANGED <<tables, killed, muted, reply, handleOnly, deadline, parked,
                 outcome, launched, open, exited>>

\* The host cancels the token it passed with the request.
CancelToken(i) ==
  /\ ~exited
  /\ i \in Live(Now) \ token
  /\ token' = token \cup {i}
  /\ UNCHANGED <<tables, killed, muted, reply, handleOnly, deadline, caller,
                 parked, outcome, launched, open, exited>>

QuerierDrops(q) ==
  /\ ~exited
  /\ watch[q].mode = "blocked"
  /\ watch' = [watch EXCEPT ![q].mode = "closed"]
  /\ UNCHANGED <<tables, flags, buffer, blocked, drains, wfWaits, outcome,
                 launched, open, exited>>

-----------------------------------------------------------------------------
Prompts == {r.prompt : r \in Requests} \ {None}
Loops == {r.loop : r \in Requests} \ {None}

Commands ==
  \/ \E i \in Ids, r \in Requests, c \in {"waiting", "gone"} : Spawn(i, r, c)
  \/ \E i \in Ids : CancelOne(i)
  \/ \E p \in Prompts, s \in Sessions \cup {None} : CancelPrompt(p, s)
  \/ \E s \in Sessions : StopSession(s)
  \/ \E r \in Runs, s \in Sessions \cup {None} : CancelWorkflow(r, s)
  \/ \E l \in Loops, s \in Sessions \cup {None} : CancelLoop(l, s)
  \/ \E s \in Sessions, responder \in BOOLEAN : Teardown(s, responder)
  \/ \E s \in Sessions : OpenAdmission(s)
  \/ \E s \in Sessions \cup {None} : Completions(s)
  \/ \E q \in Queriers, i \in Ids, block \in BOOLEAN : Query(q, i, block)
  \/ Observe

Actor ==
  \/ Commands
  \/ \E i \in Ids : Started(i)
  \/ \E i \in Ids, cut \in SUBSET Ids : cut \subseteq {i} /\ FinishRun(i, cut)
  \/ Timers
  \/ \E q \in Queriers : FinishProgress(q)
  \/ CloseMailbox \/ Exit \/ Abort

Environment ==
  \/ \E i \in Ids : CallerDrops(i) \/ CancelToken(i)
  \/ \E q \in Queriers : QuerierDrops(q)

Next == Actor \/ Environment

Spec == Init /\ [][Next]_vars

(***************************************************************************)
(* Fairness.  The runtime polls the loop, so an armed timer fires and a    *)
(* finished future is taken.  Runs are assumed to end only in RunSpec.     *)
(***************************************************************************)
DeadlineFires(i) == i \in deadline /\ ProcessDeadlines({i}, {}, {})
WaiterFires(q) == watch[q].mode \in {"blocked", "closed"} /\ ProcessDeadlines({}, {q}, {})
DrainFires(s) == s \in drains /\ ProcessDeadlines({}, {}, {s})
ReapTick == Queued(Now) # {} /\ ProcessDeadlines({}, {}, {})
RunEnds(i) == \E cut \in SUBSET {i} : FinishRun(i, cut)

TimerSpec ==
  /\ Spec
  /\ WF_vars(ReapTick)
  /\ \A i \in Ids : WF_vars(DeadlineFires(i))
  /\ \A q \in Queriers : WF_vars(WaiterFires(q)) /\ WF_vars(FinishProgress(q))
  /\ \A s \in Sessions : WF_vars(DrainFires(s))

\* Every run ends, by its own budget or by its cancellation.
RunSpec == TimerSpec /\ \A i \in Ids : WF_vars(RunEnds(i))

-----------------------------------------------------------------------------
\* Every variable has its type.
TypeOK ==
  /\ phase \in [Ids -> Phases]
  /\ parent \in [Ids -> Keys \cup {None}]
  /\ run \in [Ids -> Runs \cup {None}]
  /\ ticket \in [Ids -> Nat] /\ arrivals \in Nat
  /\ kind \in [Ids -> Requests \cup {None}]
  /\ root \in [Ids -> Keys \cup {None}]
  /\ DOMAIN loop = Ids
  /\ caller \in [Ids -> CallerStates]
  /\ token \subseteq Ids /\ killed \subseteq Ids /\ muted \subseteq Ids
  /\ reply \subseteq Ids /\ handleOnly \subseteq Ids /\ deadline \subseteq Ids
  /\ buffer \subseteq Ids /\ launched \subseteq Ids
  /\ outcome \in [Ids -> Outcomes]
  /\ watch \in [Queriers -> [mode : {"idle", "blocked", "closed", "progress"},
                             id : Ids \cup {None}]]
  /\ blocked \subseteq Sessions /\ drains \subseteq Sessions
  /\ wfWaits \subseteq Runs
  /\ open \in BOOLEAN /\ exited \in BOOLEAN

\* The limit holds and no slot is wasted: a session never runs more than
\* max_concurrent Task children, and it runs exactly that many while one of
\* its spawns waits in the queue.
CapAndQueue ==
  \A s \in Keys :
    /\ Cardinality(Running(Now, s)) <= MaxConcurrent
    /\ (\E i \in Queued(Now) : parent[i] = s)
         => ~HasCapacity(Now, s)

\* The loop's exit condition does not look at the queue, and need not: where
\* it holds nothing is queued and nobody is parked on a reply.
ExitIsClean ==
  ~exited /\ MayExit =>
    /\ Queued(Now) = {} /\ reply = {} /\ drains = {} /\ wfWaits = {}
    /\ \A q \in Queriers : watch[q] = Idle

\* While a session is stopped or being deleted no Task child of it is queued
\* and every one that still runs has been told to stop.
StopHolds ==
  \A s \in blocked : \A i \in OfSession(Now, s) \ Workflow(Now) :
    i \in InFlight(Now) \cap token

\* A delete that waits has closed admission and waits for a child that is
\* still there; a workflow cancel that waits has an outstanding child; a
\* blocked query has a live child.
ParkedHaveCause ==
  ~exited =>
    /\ \A s \in drains : s \in blocked /\ OfSession(Now, s) # {}
    /\ \A r \in wfWaits : Outstanding(Now, r) # {}
    /\ \A q \in Queriers : watch[q].mode \in {"blocked", "closed"}
                             => watch[q].id \in Live(Now)

\* A caller that waits is known to the coordinator: its child is live and the
\* reply is held.  A held reply is never for a caller that was answered, and
\* a turn waits only for children whose reply is held or that were cancelled.
CallersServed ==
  ~exited =>
    /\ \A i \in Ids : caller[i] = "waiting" => i \in reply
    /\ \A i \in reply : i \in Live(Now) /\ caller[i] \in {"waiting", "gone"}
    /\ \A i \in InFlight(Now) \ (handleOnly \cup token) : i \in reply
    /\ deadline \subseteq Live(Now)

\* Every completion reaches somebody exactly once: a caller or a waiter that
\* listens, or else the host's surface, unless it was cancelled, killed or
\* muted.  In particular a caller that leaves at the last moment, before any
\* reap has noticed, does not take the result with it.
CompletionsDelivered ==
  \A i \in Ids : phase[i] \in {"completed", "evicted"} =>
    outcome[i] \notin {"dropped", "twice"}

\* While a delete waits, no completion of the session is buffered for a later
\* session of the same id.
DeleteIsQuiet == \A i \in buffer : parent[i] \notin drains

\* First come, first served within a session: a queued spawn starts only
\* when every earlier one of its session has left the queue.
NoOvertaking ==
  [][\A i, j \in Queued(Now) :
       parent[i] = parent[j] /\ ticket[i] < ticket[j] /\ phase'[j] = "pending"
         => phase'[i] # "queued"]_vars

\* A foreground caller gets an answer within its await budget, whether its
\* child is queued, pending or active and whether any run ever ends.
ForegroundAnswered ==
  \A i \in Ids : (i \in Live(Now) /\ caller[i] = "waiting" /\ AwaitsInForeground(kind[i]))
                   ~> caller[i] # "waiting"

\* A delete's hold on admission ends even if a child never finishes.
HoldsEnd == \A s \in Sessions : s \in drains ~> s \notin drains

\* A query is answered even if its child never finishes.
QueriesAnswered == \A q \in Queriers : watch[q] # Idle ~> watch[q] = Idle

\* A queued spawn whose token is cancelled leaves the queue though the
\* cancellation itself wakes nobody.
CancelledQueuedLeave ==
  \A i \in Ids : (i \in Queued(Now) \cap token) ~> i \notin Queued(Now)

\* Once runs end, every queued spawn leaves the queue, and every workflow
\* cancel and every caller is answered.
QueueServed ==
  /\ \A i \in Ids : i \in Queued(Now) ~> i \notin Queued(Now)
  /\ \A r \in Runs : r \in wfWaits ~> r \notin wfWaits
  /\ \A i \in Ids : caller[i] = "waiting" ~> caller[i] # "waiting"

\* What the comment on spawn_blocked_sessions promises: a late spawn of the
\* stopped session's own tree cannot outrun the Stop.
StopReachesLineage ==
  \A s \in blocked : \A i \in Live(Now) \ Workflow(Now) :
    root[i] = s => i \in token
=============================================================================
