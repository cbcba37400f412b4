----------------------------- MODULE PromptQueue -----------------------------
(***************************************************************************)
(* The prompt queue of a session actor (xai-grok-shell, session/           *)
(* acp_session_impl): the actor loop that serialises commands and turn     *)
(* completions, the queue pending_inputs whose front is the running turn,  *)
(* the turn tasks spawned beside the loop, the interjection buffer, the    *)
(* notifications held back after a stop, and the one-shot task that tries  *)
(* to start a turn when the MCP servers have come up.                      *)
(*                                                                         *)
(* Everything runs on one thread, so a step here is what happens between   *)
(* two points where the code may yield: a handler of the loop that awaits  *)
(* with the state lock released is split there (actor.at says where the    *)
(* loop is), and turns and the MCP task step in between.                   *)
(***************************************************************************)
EXTENDS Naturals, FiniteSets, Sequences

CONSTANTS
    Prompts,      \* prompts a client submits, each with an RPC to answer
    Bash,         \* those that are shell commands (never merged)
    Texts,        \* mid-turn interjections a client sends
    Wakes,        \* background terminal tasks whose completion wakes the session
    Children,     \* background subagents whose completion wakes the session
    Drains,       \* ids of turns that report held notifications
    None,
    MaxCancels,   \* bound: cancel commands of a behaviour
    MaxInputs     \* bound: prompts, texts, completions and cancels of a behaviour

ASSUME PromptAssumption ==
    /\ Bash \subseteq Prompts
    /\ None \notin Prompts \cup Texts \cup Wakes \cup Children \cup Drains
    /\ Prompts \cap (Texts \cup Wakes \cup Children \cup Drains) = {}
    /\ Texts \cap (Wakes \cup Children \cup Drains) = {}
    /\ Wakes \cap (Children \cup Drains) = {} /\ Children \cap Drains = {}
    /\ MaxCancels \in Nat /\ MaxInputs \in Nat

Ids == Prompts \cup Texts \cup Wakes \cup Children \cup Drains

VARIABLES
    pending,        \* State::pending_inputs
    running_task,   \* the id in State::running_task
    current_prompt_id,  \* the pin, under a mutex of its own
    front_message_committed, rewindable,
    suppressed,     \* State::notifications_suppressed (it covers the gate)
    notifications,  \* State::pending_notifications (tasks to report)
    interjections,  \* pending_interjections
    goal,           \* the goal tracker says Active
    completions,    \* the channel of finished turns
    turn,           \* the spawned tasks
    actor,          \* where the loop is, and what its handler still holds
    mcp,            \* the MCP-init task: "waits", "checked", "done"
    answer,         \* what each prompt's RPC was answered
    said, raised, cancels,  \* inputs used up
    settled,        \* ghost: messages the model was shown, or whose turn
                    \* ended or was stopped by a Cancel
    lost,           \* ghost: messages a send-now cancelled unseen
    dropped,        \* ghost: texts in the hands of a turn a send-now aborted
    overlapped      \* ghost: MCP task promoted beside a turn being torn down

queueVars == <<pending, running_task, current_prompt_id, front_message_committed, rewindable, suppressed, notifications>>
ghosts    == <<settled, lost, dropped, overlapped>>
inputs    == <<said, raised, cancels>>
vars      == <<queueVars, interjections, goal, completions, turn, actor, mcp, answer, inputs, ghosts>>

-----------------------------------------------------------------------------
(* Items, turns and the loop's position *)

Item(i, k) == [id |-> i, kind |-> k, now |-> FALSE, msgs |-> {i}]
Synthetic(item) == item.kind \in {"wake", "child", "drain"}

\* PromptOrigin::completion_id: the item announces a task or a subagent.
Announces(item) == item.kind \in {"wake", "child"}

\* AgentTask: a spawned turn, the messages it carries, and the interjections
\* it has taken from the buffer but not yet put in the conversation.
NoTurn == [phase |-> "none", msgs |-> {}, taken |-> <<>>]
Alive(t) == turn[t].phase \in {"fresh", "recorded", "live", "ending"}

Elements(q) == {q[k] : k \in 1..Len(q)}

\* The entries of q that are in S, in their order: the j-th is the one with j
\* of them up to its place.
Only(q, S) ==
    LET K == {k \in 1..Len(q) : q[k] \in S}
    IN  [j \in 1..Cardinality(K) |-> q[CHOOSE k \in K : Cardinality({i \in K : i <= k}) = j]]

\* Mutant: only a turn that the model has been called for is aborted.
AbortedLive(t) == IF t # None /\ turn[t].phase = "live" THEN [turn EXCEPT ![t] = NoTurn] ELSE turn

\* AgentTask::abort, a no-op on a finished task. What the turn had taken from
\* the interjection buffer and not yet injected goes with it.
Aborted(t) == IF t # None /\ Alive(t) THEN [turn EXCEPT ![t] = NoTurn] ELSE turn
Dropped(t) == IF t # None THEN Elements(turn[t].taken) ELSE {}

\* Clearing the pin, if it is still this turn's.
PinAfter(t) == IF current_prompt_id = t THEN None ELSE current_prompt_id

At(where) == [at |-> where, id |-> None, how |-> "none", held |-> <<>>, then |-> "select"]
Starting(then) == [At("start") EXCEPT !.then = then]
AtSelect == actor.at = "select"

\* The select! of the loop is biased: completions come before commands.
TakesCommand == AtSelect /\ completions = <<>>

\* A new input arrives (the bound on a behaviour).
TakesInput ==
    /\ TakesCommand
    /\ cancels + Cardinality(raised) + Cardinality(said \cap Texts)
         + Cardinality({p \in Prompts : answer[p] # "unsent"}) < MaxInputs

FrontIsTheRunningTurn == pending # <<>> /\ Head(pending).id = running_task

\* front_awaiting_commit
front_awaiting_commit == ~front_message_committed /\ FrontIsTheRunningTurn

\* Mutant: the guard for an uncommitted front is missing.
send_now_cancels_always == running_task # None /\ ~goal

\* send_now_cancels_running_turn
send_now_cancels_running_turn == running_task # None /\ ~goal /\ ~front_awaiting_commit

\* send_now_insert_index: behind the running front and earlier send-nows.
InsertNow(q, item) ==
    LET first == IF q # <<>> /\ Head(q).id = running_task THEN 1 ELSE 0
        at == CHOOSE n \in first..Len(q) :
                /\ \A k \in (first + 1)..n : q[k].now
                /\ n < Len(q) => ~q[n + 1].now
    IN  SubSeq(q, 1, at) \o <<[item EXCEPT !.now = TRUE]>> \o SubSeq(q, at + 1, Len(q))

\* queue_interjection_fallback_prompt for each text: ahead of the queue, but
\* never ahead of the running front.
InsertFallbacks(q, texts) ==
    LET items == [k \in 1..Len(texts) |-> [Item(texts[k], "fallback") EXCEPT !.now = TRUE]]
    IN  IF q # <<>> /\ Head(q).id = running_task THEN <<Head(q)>> \o items \o Tail(q)
        ELSE items \o q

\* sweep_pending_inputs of the items in drop: the running turn's slot is exempt.
Sweep(q, drop) == Only(q, {i \in Elements(q) : i.id = running_task \/ i \notin drop})

\* respond_to.send, on those of the items that have a client waiting: the turn's
\* result, Cancelled, Rewound or RemovedFromQueue.
Respond(items) ==
    answer' = [p \in Prompts |->
                 IF \E k \in 1..Len(items) : items[k].id = p /\ items[k].kind = "user"
                 THEN "answered" ELSE answer[p]]

Queued(i) == {k \in 1..Len(pending) : pending[k].id = i}
Without(q, k) == SubSeq(q, 1, k - 1) \o SubSeq(q, k + 1, Len(q))

-----------------------------------------------------------------------------
(* Commands that add work *)

\* enqueue_prompt_as_interjection: the prompt steers the goal's turn, and its
\* own RPC is answered as removed.
MergeIntoGoal(item) ==
    /\ interjections' = Append(interjections, item.id)
    /\ said' = said \cup {item.id}
    /\ Respond(<<item>>)

\* SessionCommand::Prompt for a user's prompt (queue_input). Queued wakes give
\* way to the user. A prompt sent while the turn blocks in a wait counts as
\* send-now too, so now covers both.
Prompt(p, now) ==
    /\ TakesInput
    /\ answer[p] = "unsent"
    /\ LET armed == \E k \in 1..Len(pending) : Announces(pending[k]) /\ pending[k].id # running_task
           q == IF armed THEN Sweep(pending, {i \in Elements(pending) : Synthetic(i)}) ELSE pending
           cancels_turn == now /\ send_now_cancels_running_turn
           merges == now /\ running_task # None /\ goal /\ p \notin Bash
       IN  /\ suppressed' = FALSE
           /\ IF merges
              THEN /\ MergeIntoGoal(Item(p, "user"))
                   /\ pending' = q
              ELSE /\ answer' = [answer EXCEPT ![p] = "waiting"]
                   /\ pending' = IF now THEN InsertNow(q, Item(p, "user"))
                                 ELSE Append(q, Item(p, "user"))
                   /\ UNCHANGED <<interjections, said>>
           /\ actor' = IF cancels_turn THEN At("send_now") ELSE Starting("select")
    /\ UNCHANGED <<running_task, current_prompt_id, front_message_committed, rewindable, notifications, goal, completions, turn, mcp, raised, cancels, ghosts>>

\* Mutant: the row is sent now but stays in the queue.
handle_interject_keeps_row(p) ==
    /\ TakesCommand
    /\ p # running_task
    /\ \E k \in Queued(p) :
        /\ pending[k].kind = "user"
        /\ pending' = InsertNow(pending, pending[k])
        /\ actor' = IF send_now_cancels_running_turn THEN At("send_now") ELSE Starting("select")
    /\ UNCHANGED <<running_task, current_prompt_id, front_message_committed, rewindable, suppressed, notifications, interjections, goal, completions, turn, mcp, answer, inputs, ghosts>>

\* SessionCommand::InterjectQueuedPrompt: send a queued row now. A row that is
\* gone, running, edited or foreign makes the command a no-op.
handle_interject_queued_prompt(p) ==
    /\ TakesCommand
    /\ p # running_task
    /\ \E k \in Queued(p) :
        /\ pending[k].kind = "user"
        /\ IF running_task # None /\ goal /\ p \notin Bash
           THEN /\ MergeIntoGoal(pending[k])
                /\ pending' = Without(pending, k)
                /\ actor' = Starting("select")
           ELSE /\ pending' = InsertNow(Without(pending, k), pending[k])
                /\ actor' = IF send_now_cancels_running_turn THEN At("send_now") ELSE Starting("select")
                /\ UNCHANGED <<interjections, said, answer>>
    /\ UNCHANGED <<running_task, current_prompt_id, front_message_committed, rewindable, suppressed, notifications, goal, completions, turn, mcp, raised, cancels, ghosts>>

\* SessionCommand::Interject: into the running turn's buffer, or, with no turn
\* pinned, a turn of its own.
Interject(m) ==
    /\ TakesInput
    /\ m \notin said
    /\ said' = said \cup {m}
    /\ IF current_prompt_id # None
       THEN /\ interjections' = Append(interjections, m)
            /\ UNCHANGED <<pending, actor>>
       ELSE /\ pending' = InsertFallbacks(pending, <<m>>)
            /\ actor' = Starting("select")
            /\ UNCHANGED interjections
    /\ UNCHANGED <<running_task, current_prompt_id, front_message_committed, rewindable, suppressed, notifications, goal, completions, turn, mcp, answer, raised, cancels, ghosts>>

\* SessionCommand::Prompt for a task's completion (admit_task_completion_wake,
\* then queue_input): held back as a notification after a stop. So it is when
\* the bridge has given up waiting for the admission, and then the handler ends
\* there: nothing is started or drained.
admit_task_completion_wake(w) ==
    /\ TakesInput
    /\ w \notin raised
    /\ raised' = raised \cup {w}
    /\ \/ /\ notifications' = notifications \cup {w}
          /\ UNCHANGED <<pending, actor>>
       \/ /\ ~suppressed
          /\ pending' = Append(pending, Item(w, "wake"))
          /\ actor' = Starting("select")
          /\ UNCHANGED notifications
    /\ UNCHANGED <<running_task, current_prompt_id, front_message_committed, rewindable, suppressed, interjections, goal, completions, turn, mcp, answer, said, cancels, ghosts>>

\* SessionCommand::Prompt for a subagent's completion: it comes without an
\* admission, so it is queued whether or not the user has stopped the session.
SubagentCompleted(c) ==
    /\ TakesInput
    /\ c \notin raised
    /\ raised' = raised \cup {c}
    /\ pending' = Append(pending, Item(c, "child"))
    /\ actor' = Starting("select")
    /\ UNCHANGED <<running_task, current_prompt_id, front_message_committed, rewindable, suppressed, notifications, interjections, goal, completions, turn, mcp, answer, said, cancels, ghosts>>

\* SessionCommand::InjectNotification for a task's completion, when tasks do not
\* wake the session: held, and reported at once if the session is idle.
InjectNotification(w) ==
    /\ TakesInput
    /\ w \notin raised
    /\ raised' = raised \cup {w}
    /\ notifications' = notifications \cup {w}
    /\ actor' = At("drain")
    /\ UNCHANGED <<pending, running_task, current_prompt_id, front_message_committed, rewindable, suppressed, interjections, goal, completions, turn, mcp, answer, said, cancels, ghosts>>

-----------------------------------------------------------------------------
(* Commands that edit the queue; the running turn's row is never theirs *)

\* handle_remove_queued_prompt, when the version and the owner match.
handle_remove_queued_prompt(p) ==
    /\ TakesCommand
    /\ p # running_task
    /\ \E k \in Queued(p) :
        /\ pending[k].kind = "user"
        /\ pending' = Without(pending, k)
        /\ Respond(<<pending[k]>>)
    /\ UNCHANGED <<running_task, current_prompt_id, front_message_committed, rewindable, suppressed, notifications, interjections, goal, completions, turn, actor, mcp, inputs, ghosts>>

\* Mutant: every user row is reordered, the running turn's among them.
handle_reorder_everything(p) ==
    /\ TakesCommand
    /\ LET named == {i \in Elements(pending) : i.kind = "user" /\ i.id = p}
       IN  pending' = Only(pending, named) \o Only(pending, Elements(pending) \ named)
    /\ UNCHANGED <<running_task, current_prompt_id, front_message_committed, rewindable, suppressed, notifications, interjections, goal, completions, turn, actor, mcp, answer, inputs, ghosts>>

\* handle_reorder_queue naming one row: the rows that may not move (the running
\* turn, turns without a row) come first, then p, then the other rows.
handle_reorder_queue(p) ==
    /\ TakesCommand
    /\ LET rows == {i \in Elements(pending) : i.kind = "user" /\ i.id # running_task}
           named == {i \in rows : i.id = p}
       IN  pending' = Only(pending, Elements(pending) \ rows)
                        \o Only(pending, named) \o Only(pending, rows \ named)
    /\ UNCHANGED <<running_task, current_prompt_id, front_message_committed, rewindable, suppressed, notifications, interjections, goal, completions, turn, actor, mcp, answer, inputs, ghosts>>

\* Mutant: the cleared rows are dropped without an answer.
handle_clear_silently(owned) ==
    /\ TakesCommand
    /\ pending' = Only(pending, {i \in Elements(pending) : i.kind # "user" \/ i.id = running_task \/ i.id \notin owned})
    /\ UNCHANGED <<running_task, current_prompt_id, front_message_committed, rewindable, suppressed, notifications, interjections, goal, completions, turn, actor, mcp, answer, inputs, ghosts>>

\* handle_clear_queue for a client's own rows, or everybody's.
handle_clear_queue(owned) ==
    /\ TakesCommand
    /\ LET gone == {i \in Elements(pending) : i.kind = "user" /\ i.id # running_task /\ i.id \in owned}
       IN  /\ pending' = Only(pending, Elements(pending) \ gone)
           /\ Respond(Only(pending, gone))
    /\ UNCHANGED <<running_task, current_prompt_id, front_message_committed, rewindable, suppressed, notifications, interjections, goal, completions, turn, actor, mcp, inputs, ghosts>>

-----------------------------------------------------------------------------
(* Starting a turn *)

\* combine_prefix_len at most: the plain rows at the head of the queue. Rows
\* under edit, skills, images and the setting make it any shorter prefix.
CombinePrefix(q) ==
    LET plain(k) == q[k].kind = "user" /\ q[k].id \notin Bash
    IN  {n \in 1..Len(q) : n = 1 \/ \A k \in 1..n : plain(k)}

\* maybe_start_running_task, from its second lock on: the front is promoted
\* without leaving the queue, and a turn is spawned for it.
Promote(n) ==
    LET front == [Head(pending) EXCEPT !.msgs = UNION {pending[k].msgs : k \in 1..n}]
    IN  /\ pending' = <<front>> \o SubSeq(pending, n + 1, Len(pending))
        /\ Respond(SubSeq(pending, 2, n))
        /\ suppressed' = (suppressed /\ Synthetic(front))
        /\ current_prompt_id' = front.id
        /\ rewindable' = TRUE
        /\ front_message_committed' = FALSE
        /\ running_task' = front.id
        /\ turn' = [turn EXCEPT ![front.id] = [phase |-> "fresh", msgs |-> front.msgs, taken |-> <<>>]]

CanPromote == running_task = None /\ pending # <<>>

\* The first look under the lock; the configuration is read after it.
StartChecks ==
    /\ actor.at = "start"
    /\ actor' = IF CanPromote THEN [actor EXCEPT !.at = "promote"] ELSE At(actor.then)
    /\ UNCHANGED <<queueVars, interjections, goal, completions, turn, mcp, answer, inputs, ghosts>>

StartPromotes ==
    /\ actor.at = "promote"
    /\ actor' = At(actor.then)
    /\ IF CanPromote THEN \E n \in CombinePrefix(pending) : Promote(n)
       ELSE UNCHANGED <<pending, running_task, current_prompt_id, front_message_committed, rewindable, suppressed, turn, answer>>
    /\ UNCHANGED <<notifications, interjections, goal, completions, mcp, inputs, ghosts>>

\* The task run_session spawns: once the MCP servers are up it starts a turn
\* too, beside whatever the loop is doing.
McpChecks ==
    /\ mcp = "waits"
    /\ mcp' = IF CanPromote THEN "checked" ELSE "done"
    /\ UNCHANGED <<queueVars, interjections, goal, completions, turn, actor, answer, inputs, ghosts>>

McpPromotes ==
    /\ mcp = "checked"
    /\ mcp' = "done"
    /\ IF CanPromote
       THEN /\ \E n \in CombinePrefix(pending) : Promote(n)
            /\ overlapped' = (overlapped \/ actor.at = "teardown")
       ELSE UNCHANGED <<pending, running_task, current_prompt_id, front_message_committed, rewindable, suppressed, turn, answer, overlapped>>
    /\ UNCHANGED <<notifications, interjections, goal, completions, actor, inputs, settled, lost, dropped>>

\* maybe_drain_notifications: idle and not suppressed, everything held is
\* reported in one turn; or dropped, if a goal is active or complete or the
\* task was a goal turn's.
maybe_drain_notifications ==
    /\ actor.at = "drain"
    /\ IF running_task # None \/ pending # <<>> \/ suppressed \/ notifications = {}
       THEN actor' = At("select") /\ UNCHANGED <<pending, notifications>>
       ELSE /\ notifications' = {}
            /\ \/ actor' = At("select") /\ UNCHANGED pending
               \/ /\ ~goal
                  /\ actor' = Starting("select")
                  /\ \E d \in Drains \ settled : pending' = <<Item(d, "drain")>>
    /\ UNCHANGED <<running_task, current_prompt_id, front_message_committed, rewindable, suppressed, interjections, goal, completions, turn, mcp, answer, inputs, ghosts>>

-----------------------------------------------------------------------------
(* The turn task *)

\* consume_deferred_completions: before its message a user's turn may show the
\* model everything that is held. Shell and slash commands do not.
consume_deferred_completions(t) ==
    /\ turn[t].phase = "fresh" /\ t \in Prompts \cup Texts
    /\ notifications # {}
    /\ notifications' = {}
    /\ UNCHANGED <<pending, running_task, current_prompt_id, front_message_committed, rewindable, suppressed, interjections, goal, completions, turn, actor, mcp, answer, inputs, ghosts>>

\* The turn's message goes into the conversation ...
Record(t) ==
    /\ turn[t].phase = "fresh"
    /\ turn' = [turn EXCEPT ![t].phase = "recorded"]
    /\ settled' = settled \cup turn[t].msgs
    /\ UNCHANGED <<queueVars, interjections, goal, completions, actor, mcp, answer, inputs, lost, dropped, overlapped>>

\* ... and then mark_front_message_committed takes the lock, whoever is at the
\* front by now.
mark_front_message_committed(t) ==
    /\ turn[t].phase = "recorded"
    /\ turn' = [turn EXCEPT ![t].phase = "live"]
    /\ front_message_committed' = TRUE
    /\ UNCHANGED <<pending, running_task, current_prompt_id, rewindable, suppressed, notifications, interjections, goal, completions, actor, mcp, answer, inputs, ghosts>>

\* close_rewind_window, at the turn's first output.
close_rewind_window(t) ==
    /\ turn[t].phase = "live" /\ rewindable
    /\ rewindable' = FALSE
    /\ UNCHANGED <<pending, running_task, current_prompt_id, front_message_committed, suppressed, notifications, interjections, goal, completions, turn, actor, mcp, answer, inputs, ghosts>>

\* drain_pending_interjections: everything leaves the buffer at once ...
TakeInterjections(t) ==
    /\ turn[t].phase = "live" /\ turn[t].taken = <<>> /\ interjections # <<>>
    /\ turn' = [turn EXCEPT ![t].taken = interjections]
    /\ interjections' = <<>>
    /\ UNCHANGED <<queueVars, goal, completions, actor, mcp, answer, inputs, ghosts>>

\* ... and enters the conversation after skills and images were resolved.
Inject(t) ==
    /\ turn[t].phase = "live" /\ turn[t].taken # <<>>
    /\ turn' = [turn EXCEPT ![t].taken = <<>>]
    /\ settled' = settled \cup Elements(turn[t].taken)
    /\ UNCHANGED <<queueVars, interjections, goal, completions, actor, mcp, answer, inputs, lost, dropped, overlapped>>

\* drop_pending_items_for_consumed_completions: a tool result told the model
\* about the task already.
Consume(t, w) ==
    /\ turn[t].phase = "live"
    /\ Queued(w) # {} \/ w \in notifications
    /\ pending' = Sweep(pending, {i \in Elements(pending) : i.id = w})
    /\ notifications' = notifications \ {w}
    /\ UNCHANGED <<running_task, current_prompt_id, front_message_committed, rewindable, suppressed, interjections, goal, completions, turn, actor, mcp, answer, inputs, ghosts>>

\* A goal becomes active or is over: by a user's command before the message is
\* recorded (setup_goal, resume_goal), later by the model, a verdict or a pause.
SetGoal(t) ==
    /\ \/ turn[t].phase = "fresh" /\ t \in Prompts \cup Texts
       \/ turn[t].phase \in {"live", "ending"}
    /\ goal' = ~goal
    /\ UNCHANGED <<queueVars, interjections, completions, turn, actor, mcp, answer, inputs, ghosts>>

\* The turn is past its last look at the buffer, or failed, perhaps before its
\* message was recorded. Its scope guard drops the pin.
TurnEnds(t) ==
    /\ turn[t].phase \in {"fresh", "live"} /\ turn[t].taken = <<>>
    /\ turn' = [turn EXCEPT ![t].phase = "ending"]
    /\ current_prompt_id' = IF turn[t].phase = "live" THEN PinAfter(t) ELSE current_prompt_id
    /\ UNCHANGED <<pending, running_task, front_message_committed, rewindable, suppressed, notifications, interjections, goal, completions, actor, mcp, answer, inputs, ghosts>>

\* run_task's last statement.
SendCompletion(t) ==
    /\ turn[t].phase = "ending"
    /\ turn' = [turn EXCEPT ![t] = NoTurn]
    /\ completions' = Append(completions, t)
    /\ settled' = settled \cup turn[t].msgs
    /\ UNCHANGED <<queueVars, interjections, goal, actor, mcp, answer, inputs, lost, dropped, overlapped>>

-----------------------------------------------------------------------------
(* A completion *)

\* Mutant: a completion counts only while the pin still names its turn.
RecvPinnedOnly ==
    /\ AtSelect /\ completions # <<>>
    /\ completions' = Tail(completions)
    /\ current_prompt_id' = PinAfter(Head(completions))
    /\ actor' = IF current_prompt_id = Head(completions)
                THEN [At("complete") EXCEPT !.id = Head(completions)] ELSE At("select")
    /\ UNCHANGED <<pending, running_task, front_message_committed, rewindable, suppressed, notifications, interjections, goal, turn, mcp, answer, inputs, ghosts>>

\* The completion arm up to handle_completion's state lock.
RecvCompletion ==
    /\ AtSelect /\ completions # <<>>
    /\ completions' = Tail(completions)
    /\ current_prompt_id' = PinAfter(Head(completions))
    /\ actor' = [At("complete") EXCEPT !.id = Head(completions)]
    /\ UNCHANGED <<pending, running_task, front_message_committed, rewindable, suppressed, notifications, interjections, goal, turn, mcp, answer, inputs, ghosts>>

\* handle_completion under the lock: the front is popped and answered if it is
\* the turn's own; a completion of a turn cancelled meanwhile changes nothing.
handle_completion ==
    /\ actor.at = "complete"
    /\ LET owned == pending # <<>> /\ Head(pending).id = actor.id
       IN  /\ IF owned THEN pending' = Tail(pending) /\ Respond(<<Head(pending)>>)
              ELSE UNCHANGED <<pending, answer>>
           /\ running_task' = IF owned \/ running_task = actor.id THEN None ELSE running_task
    /\ actor' = At("flush")
    /\ UNCHANGED <<current_prompt_id, front_message_committed, rewindable, suppressed, notifications, interjections, goal, completions, turn, mcp, inputs, ghosts>>

\* Mutant: interjections that came too late for the turn stay in the buffer.
flush_nothing ==
    /\ actor.at = "flush"
    /\ goal' \in {goal, FALSE}
    /\ actor' = Starting("drain")
    /\ UNCHANGED <<queueVars, interjections, completions, turn, mcp, answer, inputs, ghosts>>

\* After a completion: handle_turn_end may pause the goal, then
\* flush_stranded_interjections; then the next turn, or the held notifications.
flush_stranded_interjections ==
    /\ actor.at = "flush"
    /\ goal' \in {goal, FALSE}
    /\ pending' = InsertFallbacks(pending, interjections)
    /\ interjections' = <<>>
    /\ actor' = Starting("drain")
    /\ UNCHANGED <<running_task, current_prompt_id, front_message_committed, rewindable, suppressed, notifications, completions, turn, mcp, answer, inputs, ghosts>>

-----------------------------------------------------------------------------
(* Cancelling *)

FrontOnly(q) == IF q = <<>> THEN <<>> ELSE <<Head(q)>>

\* CancelTrigger::is_stop_gesture. A cancel is a stop by the user, one that takes
\* the prompt back if it has no output yet, one without a stop gesture, or a
\* teardown that kills background tasks too.
StopGesture(how) == how \in {"stop", "rewind"}

\* SessionCommand::Cancel up to the state lock of cancel_running_task: what was
\* said to the turn is dropped with it, and a stop arms the wake barrier before
\* anything is awaited. With subagents the turn is aborted first.
Cancel(how, subagents) ==
    /\ TakesInput
    /\ cancels < MaxCancels
    /\ cancels' = cancels + 1
    /\ interjections' = <<>>
    /\ suppressed' = (suppressed \/ StopGesture(how))
    /\ IF subagents
       THEN /\ turn' = Aborted(running_task)
            /\ settled' = settled \cup Elements(interjections) \cup Dropped(running_task)
       ELSE /\ settled' = settled \cup Elements(interjections)
            /\ UNCHANGED turn
    /\ actor' = [At("cancel") EXCEPT !.how = how]
    /\ UNCHANGED <<pending, running_task, current_prompt_id, front_message_committed, rewindable, notifications, goal, completions, mcp, answer, said, raised, lost, dropped, overlapped>>

\* Mutant: a send-now clears the buffer, as a stop does.
cancel_for_send_now_clears ==
    /\ actor.at = "send_now"
    /\ interjections' = <<>>
    /\ actor' = [At("cancel") EXCEPT !.how = "send_now"]
    /\ UNCHANGED <<queueVars, goal, completions, turn, mcp, answer, inputs, ghosts>>

\* cancel_turn_for_send_now: what was said to the turn becomes turns of its own.
cancel_turn_for_send_now ==
    /\ actor.at = "send_now"
    /\ pending' = InsertFallbacks(pending, interjections)
    /\ interjections' = <<>>
    /\ actor' = [At("cancel") EXCEPT !.how = "send_now"]
    /\ UNCHANGED <<running_task, current_prompt_id, front_message_committed, rewindable, suppressed, notifications, goal, completions, turn, mcp, answer, inputs, ghosts>>

\* cancel_running_task under the lock, a rewind of a user's turn without output:
\* its row is taken back and the barrier is lifted.
CancelRewinds ==
    /\ actor.at = "cancel" /\ actor.how = "rewind"
    /\ rewindable /\ pending # <<>> /\ Head(pending).kind = "user"
    /\ turn' = Aborted(running_task)
    /\ settled' = settled \cup Dropped(running_task)
    /\ running_task' = None
    /\ rewindable' = FALSE
    /\ suppressed' = FALSE
    /\ pending' = Tail(pending)
    /\ actor' = [actor EXCEPT !.at = "teardown", !.how = "rewound", !.held = <<Head(pending)>>]
    /\ UNCHANGED <<current_prompt_id, front_message_committed, notifications, interjections, goal, completions, mcp, answer, inputs, lost, dropped, overlapped>>

\* A teardown empties the queue and the notifications.
CancelTearsDown ==
    /\ actor.at = "cancel" /\ actor.how = "kill"
    /\ running_task' = None
    /\ pending' = <<>>
    /\ notifications' = {}
    /\ actor' = [actor EXCEPT !.at = "teardown", !.id = running_task, !.held = pending]
    /\ UNCHANGED <<current_prompt_id, front_message_committed, rewindable, suppressed, interjections, goal, completions, turn, mcp, answer, inputs, ghosts>>

\* Mutant: a stop leaves the queued wakes where they are.
CancelKeepsWakes ==
    /\ actor.at = "cancel" /\ actor.how # "kill"
    /\ ~(actor.how = "rewind" /\ rewindable /\ pending # <<>> /\ Head(pending).kind = "user")
    /\ running_task' = None
    /\ pending' = SubSeq(pending, 2, Len(pending))
    /\ actor' = [actor EXCEPT !.at = "teardown", !.id = running_task, !.held = FrontOnly(pending)]
    /\ UNCHANGED <<current_prompt_id, front_message_committed, rewindable, suppressed, notifications, interjections, goal, completions, turn, mcp, answer, inputs, ghosts>>

\* Any other cancel takes the front, whether or not a turn runs; a stop also
\* turns queued task wakes into notifications, and leaves subagents' in place.
CancelTakesFront ==
    /\ actor.at = "cancel" /\ actor.how # "kill"
    /\ ~(actor.how = "rewind" /\ rewindable /\ pending # <<>> /\ Head(pending).kind = "user")
    /\ LET rest == SubSeq(pending, 2, Len(pending))
           wakes == {i \in Elements(rest) : StopGesture(actor.how) /\ i.kind = "wake"}
       IN  /\ pending' = Only(rest, Elements(rest) \ wakes)
           /\ notifications' = notifications \cup {i.id : i \in wakes}
    /\ running_task' = None
    /\ actor' = [actor EXCEPT !.at = "teardown", !.id = running_task, !.held = FrontOnly(pending)]
    /\ UNCHANGED <<current_prompt_id, front_message_committed, rewindable, suppressed, interjections, goal, completions, turn, mcp, answer, inputs, ghosts>>

\* The rest of cancel_running_task, after several awaits: only now is the turn
\* aborted and the pin cleared, whosever it is; then the RPCs are answered. The
\* Cancel arm pauses the goal; a send-now lifts the barrier instead. A barrier
\* that is clear lets the notifications drain.
CancelResponds ==
    /\ actor.at = "teardown"
    /\ turn' = Aborted(actor.id)
    /\ current_prompt_id' = None
    /\ Respond(actor.held)
    /\ LET msgs == UNION {actor.held[k].msgs : k \in 1..Len(actor.held)}
       IN  IF actor.how = "send_now"
           THEN /\ lost' = lost \cup (msgs \ settled)
                /\ dropped' = dropped \cup Dropped(actor.id)
                /\ suppressed' = FALSE
                /\ UNCHANGED <<settled, goal>>
           ELSE /\ settled' = settled \cup Dropped(actor.id) \cup msgs
                /\ goal' = FALSE
                /\ UNCHANGED <<lost, dropped, suppressed>>
    /\ actor' = Starting(IF actor.how \in {"plain", "kill", "rewound"} THEN "drain" ELSE "select")
    /\ UNCHANGED <<pending, running_task, front_message_committed, rewindable, notifications, interjections, completions, mcp, inputs, overlapped>>

-----------------------------------------------------------------------------
Init ==
    /\ pending = <<>> /\ running_task = None /\ current_prompt_id = None
    /\ front_message_committed = FALSE /\ rewindable = FALSE /\ suppressed = FALSE
    /\ notifications = {} /\ interjections = <<>> /\ goal = FALSE /\ completions = <<>>
    /\ turn = [t \in Ids |-> NoTurn]
    /\ actor = At("select")
    /\ mcp = "waits"
    /\ answer = [p \in Prompts |-> "unsent"]
    /\ said = {} /\ raised = {} /\ cancels = 0
    /\ settled = {} /\ lost = {} /\ dropped = {} /\ overlapped = FALSE

\* What the loop does on its own, once a command or a completion is there.
Loop ==
    \/ RecvCompletion \/ handle_completion \/ flush_stranded_interjections
    \/ StartChecks \/ StartPromotes \/ maybe_drain_notifications
    \/ cancel_turn_for_send_now
    \/ CancelRewinds \/ CancelTearsDown \/ CancelTakesFront \/ CancelResponds

Command ==
    \/ \E p \in Prompts, now \in BOOLEAN : Prompt(p, now)
    \/ \E p \in Prompts : handle_interject_queued_prompt(p)
    \/ \E p \in Prompts : handle_remove_queued_prompt(p)
    \/ \E p \in Prompts : handle_reorder_queue(p)
    \/ \E owned \in SUBSET Prompts : handle_clear_queue(owned)
    \/ \E m \in Texts : Interject(m)
    \/ \E w \in Wakes : admit_task_completion_wake(w) \/ InjectNotification(w)
    \/ \E c \in Children : SubagentCompleted(c)
    \/ \E how \in {"stop", "rewind", "plain", "kill"}, subagents \in BOOLEAN : Cancel(how, subagents)

Turn(t) ==
    \/ consume_deferred_completions(t)
    \/ Record(t) \/ mark_front_message_committed(t) \/ close_rewind_window(t)
    \/ TakeInterjections(t) \/ Inject(t) \/ SetGoal(t)
    \/ \E w \in Wakes \cup Children : Consume(t, w)
    \/ TurnEnds(t) \/ SendCompletion(t)

Next == Loop \/ Command \/ (\E t \in Ids : Turn(t)) \/ McpChecks \/ McpPromotes

\* A turn that has something left to do gets on with it and ends.
TurnProgress(t) ==
    \/ Record(t) \/ mark_front_message_committed(t) \/ Inject(t)
    \/ TurnEnds(t) \/ SendCompletion(t)

Spec == Init /\ [][Next]_vars
FairSpec ==
    /\ Spec
    /\ WF_vars(Loop)
    /\ WF_vars(\E t \in Ids : TurnProgress(t))

-----------------------------------------------------------------------------
(* Properties *)

Items == [id : Ids, kind : {"user", "fallback", "wake", "child", "drain"}, now : BOOLEAN, msgs : SUBSET Ids]

\* The variables have their types, and a message is queued at most once: the
\* row of a send-now moves, it is not copied (handle_interject_queued_prompt).
TypeOK ==
    /\ pending \in Seq(Items)
    /\ \A j, k \in 1..Len(pending) : pending[j].id = pending[k].id => j = k
    /\ running_task \in Ids \cup {None} /\ current_prompt_id \in Ids \cup {None}
    /\ {front_message_committed, rewindable, suppressed, goal, overlapped} \subseteq BOOLEAN
    /\ notifications \subseteq Wakes /\ interjections \in Seq(Ids) /\ completions \in Seq(Ids)
    /\ turn \in [Ids -> [phase : {"none", "fresh", "recorded", "live", "ending"},
                         msgs : SUBSET Ids, taken : Seq(Ids)]]
    /\ actor.at \in {"select", "start", "promote", "drain", "complete", "flush", "send_now", "cancel", "teardown"}
    /\ mcp \in {"waits", "checked", "done"}
    /\ answer \in [Prompts -> {"unsent", "waiting", "answered"}]
    /\ cancels \in 0..MaxCancels

\* The running turn is the front of the queue, through every edit, sweep and
\* completion; and when the loop waits for its next command a queue that is not
\* empty has its front running. The second half is what makes it right that a
\* cancel takes index 0 without looking: it never takes a prompt that did not
\* run (the comment on the front in cancel_running_task).
RunningIsFront ==
    /\ running_task # None => FrontIsTheRunningTurn
    /\ AtSelect /\ pending # <<>> => running_task # None

\* Every prompt's RPC stays answerable: a prompt that waits for its answer has
\* exactly one row, in the queue or in the hands of a cancel, and a row whose
\* prompt was answered is gone (respond_removed_prompt, sweep_pending_inputs).
NoPromptLost ==
    \A p \in Prompts :
        LET rows == {k \in Queued(p) : pending[k].kind = "user"}
            held == {k \in 1..Len(actor.held) : actor.held[k].id = p /\ actor.held[k].kind = "user"}
        IN  Cardinality(rows) + Cardinality(held) = IF answer[p] = "waiting" THEN 1 ELSE 0

\* Two turns never run at once: a completion that comes after its turn was
\* cancelled does not free the slot of the turn promoted meanwhile
\* (handle_completion). Not claimed once the MCP task has promoted a turn while
\* a cancel was between taking the old one and aborting it.
OneTurn ==
    overlapped \/ Cardinality({t \in Ids : Alive(t)}) <= 1

\* A turn is cancelled for a send-now only after its message is where the model
\* sees it (front_awaiting_commit, mark_front_message_committed); same proviso.
SendNowSpares ==
    overlapped \/ lost = {}

\* What a user says to a running turn is never dropped silently: it waits in
\* the buffer or as a turn of its own, is being injected, was seen, got its own
\* turn, or went with what a Cancel stopped (flush_stranded_interjections,
\* cancel_turn_for_send_now). The one exception is named: a text that a turn had
\* taken from the buffer and not yet shown when a send-now aborted it (dropped).
\* (lost is what SendNowSpares is about.)
InterjectionKept ==
    \A m \in said :
        \/ m \in settled \cup lost \cup dropped
        \/ \E k \in 1..Len(interjections) : interjections[k] = m
        \/ Queued(m) # {}
        \/ \E k \in 1..Len(actor.held) : m \in actor.held[k].msgs
        \/ \E t \in Ids : \E k \in 1..Len(turn[t].taken) : turn[t].taken[k] = m

\* What the comment in cancel_turn_for_send_now asks for: the text of an
\* interjection, painted by the pager already, survives a send-now.
SendNowFlushes == dropped = {}

\* After a stop no background terminal task wakes the session: until the user is
\* back, no such wake and no report of notifications is queued or running
\* (cancel_running_task, admit_task_completion_wake). Subagents' completions are
\* outside the barrier.
StopHolds ==
    suppressed /\ actor.at # "cancel" =>
        \A k \in 1..Len(pending) : pending[k].kind \notin {"wake", "drain"}

\* Every prompt is answered.
PromptsAnswered ==
    \A p \in Prompts : answer[p] = "waiting" ~> answer[p] # "waiting"

\* Nothing is stranded: interjections leave the buffer although they came after
\* the turn's last look at it, and notifications held back by a stop are
\* reported once the user is back (flush_stranded_interjections,
\* maybe_drain_notifications). Not claimed of an idle session: a wake whose
\* admission the bridge gave up on is stored there and waits for the next event.
BuffersDrain ==
    /\ interjections # <<>> ~> interjections = <<>>
    /\ (notifications # {} /\ ~suppressed /\ ~(AtSelect /\ pending = <<>>))
          ~> (notifications = {} \/ suppressed)
=============================================================================
