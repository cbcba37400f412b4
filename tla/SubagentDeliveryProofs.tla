----------------------- MODULE SubagentDeliveryProofs -----------------------
(***************************************************************************)
(* Proofs about the subagent coordinator: that every caller, waiter and    *)
(* responder is served, that no completion is lost or delivered twice,     *)
(* that a delete stays quiet, that the actor may leave without a look at   *)
(* its queue, and that the queue is first come, first served.              *)
(*                                                                         *)
(* As in SubagentCoordinatorProofs, whose invariant this one extends, the  *)
(* parts are stated of the record a handler works on.                      *)
(***************************************************************************)
EXTENDS SubagentCoordinatorProofs

Watch == [mode : {"idle", "blocked", "closed", "progress"}, id : Ids \cup {None}]

\* Every further field of the actor's state has its type.
Types(m) ==
  /\ m.kind \in [Ids -> Requests \cup {None}] /\ DOMAIN m.loop = Ids
  /\ m.caller \in [Ids -> CallerStates]
  /\ m.token \subseteq Ids /\ m.killed \subseteq Ids /\ m.muted \subseteq Ids
  /\ m.reply \subseteq Ids /\ m.handleOnly \subseteq Ids /\ m.deadline \subseteq Ids
  /\ m.outcome \in [Ids -> Outcomes]
  /\ m.watch \in [Queriers -> Watch]
  /\ m.blocked \subseteq Sessions /\ m.drains \subseteq Sessions
  /\ m.wfWaits \subseteq Runs

\* No completion was dropped or delivered twice.
Delivered(m) == \A i \in Ids : m.outcome[i] \notin {"dropped", "twice"}

\* Nothing of session s is buffered, or will be: its Task children are muted.
QuietAt(m, s) ==
  /\ \A i \in m.buffer : m.parent[i] # s
  /\ OfSession(m, s) \ Workflow(m) \subseteq m.muted

\* A delete that waits has silenced its session and closed its admission; only
\* what has ended is buffered.
Quiet(m) ==
  /\ \A i \in m.buffer : i \in Ids /\ m.phase[i] \in {"completed", "evicted"}
  /\ m.drains \subseteq m.blocked
  /\ \A s \in m.drains : QuietAt(m, s)

Kept(m) == Types(m) /\ Delivered(m) /\ Quiet(m)

\* A caller that waits has its reply held for it, and only such or a caller
\* that left unnoticed has; a turn waits for nothing else.
Served(m) ==
  /\ \A i \in Ids : m.caller[i] = "waiting" => i \in m.reply
  /\ \A i \in m.reply : i \in Live(m) /\ m.caller[i] \in {"waiting", "gone"}
  /\ InFlight(m) \ (m.handleOnly \cup m.token) \subseteq m.reply
  /\ m.deadline \subseteq Live(m)

\* Whoever is parked waits for something that is still there.
Parked(m) ==
  /\ \A s \in m.drains : OfSession(m, s) # {}
  /\ \A r \in m.wfWaits : Outstanding(m, r) # {}
  /\ \A q \in Queriers :
       /\ m.watch[q].mode \in {"blocked", "closed"} => m.watch[q].id \in Live(m)
       /\ m.watch[q].mode = "idle" => m.watch[q] = Idle

\* While the actor is there.
Serving(m) == Served(m) /\ Parked(m)

History ==
  /\ root \in [Ids -> Keys \cup {None}]
  /\ launched \subseteq Ids
  /\ open \in BOOLEAN /\ exited \in BOOLEAN

IInv ==
  /\ Good(Now) /\ Kept(Now) /\ History
  /\ ~exited => Serving(Now)
\* What a handler starts from and must leave.
Sound(m) == Kept(m) /\ Serving(m)

-----------------------------------------------------------------------------
(* Handlers that leave the tables alone.                                   *)

\* The tables, and with them who is live, in flight, of a session or of a run.
LEMMA SameLive ==
  ASSUME NEW m, NEW n, n.phase = m.phase, n.parent = m.parent, n.run = m.run
  PROVE  /\ Live(n) = Live(m) /\ InFlight(n) = InFlight(m)
         /\ Workflow(n) = Workflow(m)
         /\ \A s : OfSession(n, s) = OfSession(m, s)
         /\ \A r : Outstanding(n, r) = Outstanding(m, r)
<1>1. /\ Live(n) = Live(m) /\ InFlight(n) = InFlight(m) /\ Workflow(n) = Workflow(m)
  BY DEF Live, InFlight, Workflow
<1> QED  BY <1>1 DEF OfSession, Outstanding

\* Cancelling, killing or muting children, closing admission and taking
\* completions from the buffer disturbs nobody who waits.
LEMMA Loosened ==
  ASSUME NEW m, NEW n, Sound(m), IsState(n),
         n.phase = m.phase, n.parent = m.parent, n.run = m.run, n.loop = m.loop,
         n.kind = m.kind, n.reply = m.reply, n.handleOnly = m.handleOnly,
         n.deadline = m.deadline, n.caller = m.caller, n.watch = m.watch,
         n.outcome = m.outcome, n.drains = m.drains, n.wfWaits = m.wfWaits,
         m.token \subseteq n.token, n.token \subseteq Ids, n.killed \subseteq Ids,
         m.muted \subseteq n.muted, n.muted \subseteq Ids,
         n.buffer \subseteq m.buffer,
         m.blocked \subseteq n.blocked, n.blocked \subseteq Sessions
  PROVE  Sound(n)
<1>1. /\ Live(n) = Live(m) /\ InFlight(n) = InFlight(m) /\ Workflow(n) = Workflow(m)
      /\ \A s : OfSession(n, s) = OfSession(m, s)
      /\ \A r : Outstanding(n, r) = Outstanding(m, r)
  BY SameLive
<1>2. Types(n)
  BY DEF Sound, Kept, Types
<1>3. Delivered(n)
  BY DEF Sound, Kept, Delivered
<1>4. Quiet(n)
  BY <1>1 DEF Sound, Kept, Quiet, QuietAt
<1>5. Served(n)
  BY <1>1 DEF Sound, Serving, Served
<1>6. Parked(n)
  BY <1>1 DEF Sound, Serving, Parked
<1> QED  BY <1>2, <1>3, <1>4, <1>5, <1>6 DEF Sound, Kept, Serving

\* reap_abandoned_callers: a child whose reply is taken no longer holds up the
\* turn, or is cancelled.
LEMMA LetGoSound ==
  ASSUME NEW m, IsState(m), Sound(m)
  PROVE  Sound(LetGo(m))
<1> DEFINE n == LetGo(m)
           lost == Abandoned(m)
           stop == lost \cap Workflow(m)
<1>1. /\ n.phase = m.phase /\ n.parent = m.parent /\ n.run = m.run /\ n.loop = m.loop
      /\ n.kind = m.kind /\ n.caller = m.caller /\ n.watch = m.watch
      /\ n.outcome = m.outcome /\ n.drains = m.drains /\ n.wfWaits = m.wfWaits
      /\ n.killed = m.killed /\ n.muted = m.muted /\ n.buffer = m.buffer
      /\ n.blocked = m.blocked
      /\ n.reply = m.reply \ lost /\ n.token = m.token \cup stop
      /\ n.deadline = m.deadline \ (lost \ stop)
      /\ n.handleOnly = m.handleOnly \cup ((lost \cap InFlight(m)) \ stop)
  BY DEF LetGo, IsState, Fields
<1>2. lost \subseteq m.reply /\ \A i \in lost : m.caller[i] = "gone"
  BY DEF Abandoned
<1> HIDE DEF n, lost
<1>3. /\ Live(n) = Live(m) /\ InFlight(n) = InFlight(m) /\ Workflow(n) = Workflow(m)
      /\ \A s : OfSession(n, s) = OfSession(m, s)
      /\ \A r : Outstanding(n, r) = Outstanding(m, r)
  BY <1>1, SameLive
<1>4. Types(n)
  BY <1>1, <1>2 DEF Sound, Kept, Types
<1>5. Delivered(n) /\ Quiet(n)
  BY <1>1, <1>3 DEF Sound, Kept, Delivered, Quiet, QuietAt
<1>6. Served(n)
  BY <1>1, <1>2, <1>3 DEF Sound, Serving, Served
<1>7. Parked(n)
  BY <1>1, <1>3 DEF Sound, Serving, Parked
<1> QED  BY <1>4, <1>5, <1>6, <1>7 DEF Sound, Kept, Serving, n

-----------------------------------------------------------------------------
(* finish_child and the sweep.                                             *)

\* Whom a completion reaches: never nobody by accident, never two.
LEMMA ReachedOnce ==
  ASSUME NEW m, NEW i, NEW cut
  PROVE  Reached(m, i, cut) \in Outcomes \ {"dropped", "twice"}
<1>1. CASE Heard(m, i) \/ ~Backgrounded(m, i)
  <2>1. ~Surfaces(m, i, cut)
    BY <1>1 DEF Surfaces
  <2> QED  BY <1>1, <2>1 DEF Reached, Outcomes
<1>2. CASE ~Heard(m, i) /\ Backgrounded(m, i)
  <2>1. CASE i \in m.muted \/ i \in m.killed \/ i \in cut
    <3>1. ~Surfaces(m, i, cut)
      BY <2>1 DEF Surfaces
    <3> QED  BY <1>2, <2>1, <3>1 DEF Reached, Outcomes
  <2>2. CASE ~(i \in m.muted \/ i \in m.killed \/ i \in cut)
    <3>1. Surfaces(m, i, cut)
      BY <1>2, <2>2 DEF Surfaces
    <3> QED  BY <1>2, <3>1 DEF Reached, Outcomes
  <2> QED  BY <2>1, <2>2
<1> QED  BY <1>1, <1>2

\* finish_child answers whoever waits for what has ended, keeps what others
\* wait for, and buffers nothing of a session that is being deleted.
LEMMA FinishedSound ==
  ASSUME NEW m, Shape(m), Sound(m), NEW over, over \subseteq Live(m), NEW cut
  PROVE  /\ Sound(Finished(m, over, cut))
         /\ \A s : QuietAt(m, s) => QuietAt(Finished(m, over, cut), s)
<1> DEFINE n == Finished(m, over, cut)
           done == Done(m, over)
           failed == cut \cup ((Queued(m) \cap m.token) \ over)
           starts == Starts(m, done)
           cleared == DrainsResolved(m, done)
           waits == WaitsResolved(m, done)
<1>1. /\ n.phase = [i \in Ids |-> IF i \in done THEN "completed"
                                  ELSE IF i \in starts THEN "pending"
                                  ELSE m.phase[i]]
      /\ n.parent = m.parent /\ n.run = m.run /\ n.loop = m.loop
      /\ n.kind = [i \in Ids |-> IF i \in done THEN None ELSE m.kind[i]]
      /\ n.token = m.token \ done /\ n.killed = m.killed \ done
      /\ n.muted = m.muted \ done /\ n.reply = m.reply \ done
      /\ n.handleOnly = (m.handleOnly \cup (starts \ m.reply)) \ done
      /\ n.deadline = m.deadline \ done
  BY DEF Finished, Done
<1>2. /\ n.caller = [i \in Ids |-> IF i \in done /\ (m.caller[i] = "waiting" => Sent(m, i))
                                   THEN "final" ELSE m.caller[i]]
      /\ n.watch = [q \in Queriers |->
                      IF m.watch[q].mode \in {"blocked", "closed"} /\ m.watch[q].id \in done
                      THEN Idle ELSE m.watch[q]]
  BY DEF Finished, Done
<1>3. /\ n.buffer = m.buffer \cup {i \in done : Buffers(m, i, failed)}
      /\ n.blocked = m.blocked \ cleared /\ n.drains = m.drains \ cleared
      /\ n.wfWaits = m.wfWaits \ waits
      /\ n.outcome = [i \in Ids |-> IF i \in done THEN Reached(m, i, failed)
                                    ELSE m.outcome[i]]
  BY DEF Finished, Done
<1>4. /\ done \subseteq Live(m) /\ Live(m) \subseteq Ids
      /\ Live(m) = Queued(m) \cup InFlight(m)
  BY LiveTables, QueuedLive DEF Done, Live
<1>5. /\ starts \subseteq Queued(m) \ done
      /\ InFlight(n) = (InFlight(m) \ done) \cup starts
      /\ Live(n) = Live(m) \ done
      /\ Workflow(n) = Workflow(m)
  BY <1>4, FinishedTables
<1>6. \A i \in done : Buffers(m, i, failed) => i \notin Workflow(m) /\ i \notin m.muted
  BY DEF Buffers
<1>7. \A i : Sent(m, i) <=> i \in m.reply /\ m.caller[i] = "waiting"
  BY DEF Sent
<1>8. \A s \in m.drains : s \in cleared <=> /\ \E i \in done : m.parent[i] = s
                                            /\ OfSession(m, s) \subseteq done
  BY DEF DrainsResolved
<1>9. \A r \in m.wfWaits : r \in waits <=> /\ \E i \in done : m.run[i] = r
                                           /\ Outstanding(m, r) \subseteq done
  BY DEF WaitsResolved
<1>10. \A i : Reached(m, i, failed) \in Outcomes \ {"dropped", "twice"}
  BY ReachedOnce
<1> HIDE DEF n, done, failed, starts, cleared, waits
<1>11. \A s : OfSession(n, s) = OfSession(m, s) \ done
  BY <1>1, <1>5 DEF OfSession
<1>12. \A r : Outstanding(m, r) \ done \subseteq Outstanding(n, r)
  BY <1>1, <1>5 DEF Outstanding
<1>13. Types(n)
  <2>1. n.kind \in [Ids -> Requests \cup {None}] /\ DOMAIN n.loop = Ids
    BY <1>1 DEF Sound, Kept, Types
  <2>2. n.caller \in [Ids -> CallerStates]
    BY <1>2 DEF Sound, Kept, Types, CallerStates
  <2>3. n.watch \in [Queriers -> Watch]
    <3>1. Idle \in Watch
      BY DEF Idle, Watch
    <3> QED  BY <1>2, <3>1 DEF Sound, Kept, Types
  <2>4. n.outcome \in [Ids -> Outcomes]
    BY <1>3, <1>10 DEF Sound, Kept, Types
  <2>5. starts \subseteq Ids
    BY <1>4, <1>5
  <2> QED  BY <1>1, <1>3, <2>1, <2>2, <2>3, <2>4, <2>5 DEF Sound, Kept, Types
<1>14. Delivered(n)
  BY <1>3, <1>10 DEF Sound, Kept, Delivered
<1>15. ASSUME NEW s, QuietAt(m, s) PROVE QuietAt(n, s)
  <2>1. ASSUME NEW i \in n.buffer PROVE n.parent[i] # s
    <3>1. CASE i \in m.buffer
      BY <1>1, <1>15, <3>1 DEF QuietAt
    <3>2. CASE i \in done /\ Buffers(m, i, failed)
      <4>1. i \in Live(m) \ Workflow(m) /\ i \notin m.muted
        BY <1>4, <1>6, <3>2
      <4> QED  BY <1>1, <1>15, <4>1 DEF QuietAt, OfSession
    <3> QED  BY <1>3, <2>1, <3>1, <3>2
  <2>2. OfSession(n, s) \ Workflow(n) \subseteq n.muted
    BY <1>1, <1>5, <1>11, <1>15 DEF QuietAt
  <2> QED  BY <2>1, <2>2 DEF QuietAt
<1>16. Quiet(n)
  <2>1. ASSUME NEW i \in n.buffer
        PROVE  i \in Ids /\ n.phase[i] \in {"completed", "evicted"}
    <3>1. CASE i \in m.buffer
      <4>1. i \in Ids /\ m.phase[i] \in {"completed", "evicted"}
        BY <3>1 DEF Sound, Kept, Quiet
      <4>2. i \notin starts
        BY <1>5, <4>1 DEF Queued
      <4> QED  BY <1>1, <4>1, <4>2
    <3>2. CASE i \in done
      BY <1>1, <1>4, <3>2
    <3> QED  BY <1>3, <2>1, <3>1, <3>2
  <2> QED  BY <1>3, <1>15, <2>1 DEF Sound, Kept, Quiet
<1>17. Served(n)
  <2>1. ASSUME NEW i \in Ids, n.caller[i] = "waiting" PROVE i \in n.reply
    <3>1. m.caller[i] = "waiting" /\ i \in m.reply
      BY <1>2, <2>1 DEF Sound, Serving, Served
    <3>2. i \notin done
      BY <1>2, <1>7, <2>1, <3>1
    <3> QED  BY <1>1, <3>1, <3>2
  <2>2. ASSUME NEW i \in n.reply
        PROVE  i \in Live(n) /\ n.caller[i] \in {"waiting", "gone"}
    <3>1. i \in m.reply /\ i \notin done
      BY <1>1
    <3>2. i \in Live(m) /\ m.caller[i] \in {"waiting", "gone"}
      BY <3>1 DEF Sound, Serving, Served
    <3> QED  BY <1>2, <1>4, <1>5, <3>1, <3>2
  <2>3. InFlight(n) \ (n.handleOnly \cup n.token) \subseteq n.reply
    BY <1>1, <1>5 DEF Sound, Serving, Served
  <2>4. n.deadline \subseteq Live(n)
    BY <1>1, <1>5 DEF Sound, Serving, Served
  <2> QED  BY <2>1, <2>2, <2>3, <2>4 DEF Served
<1>18. Parked(n)
  <2>1. ASSUME NEW s \in n.drains PROVE OfSession(n, s) # {}
    <3>1. s \in m.drains /\ s \notin cleared /\ OfSession(m, s) # {}
      BY <1>3 DEF Sound, Serving, Parked
    <3>2. CASE \E i \in done : m.parent[i] = s
      BY <1>8, <1>11, <3>1, <3>2
    <3>3. CASE ~\E i \in done : m.parent[i] = s
      <4>1. OfSession(m, s) \cap done = {}
        BY <3>3 DEF OfSession
      <4> QED  BY <1>11, <3>1, <4>1
    <3> QED  BY <3>2, <3>3
  <2>2. ASSUME NEW r \in n.wfWaits PROVE Outstanding(n, r) # {}
    <3>1. r \in m.wfWaits /\ r \notin waits /\ Outstanding(m, r) # {}
      BY <1>3 DEF Sound, Serving, Parked
    <3>2. CASE \E i \in done : m.run[i] = r
      BY <1>9, <1>12, <3>1, <3>2
    <3>3. CASE ~\E i \in done : m.run[i] = r
      <4>1. Outstanding(m, r) \cap done = {}
        BY <3>3 DEF Outstanding
      <4> QED  BY <1>12, <3>1, <4>1
    <3> QED  BY <3>2, <3>3
  <2>3. ASSUME NEW q \in Queriers
        PROVE  /\ n.watch[q].mode \in {"blocked", "closed"} => n.watch[q].id \in Live(n)
               /\ n.watch[q].mode = "idle" => n.watch[q] = Idle
    <3>1. CASE n.watch[q] = Idle
      BY <3>1 DEF Idle
    <3>2. CASE n.watch[q] # Idle
      <4>1. /\ n.watch[q] = m.watch[q]
            /\ ~(m.watch[q].mode \in {"blocked", "closed"} /\ m.watch[q].id \in done)
        BY <1>2, <3>2
      <4> QED  BY <1>5, <4>1 DEF Sound, Serving, Parked
    <3> QED  BY <3>1, <3>2
  <2> QED  BY <2>1, <2>2, <2>3 DEF Parked
<1> QED
  BY <1>13, <1>14, <1>15, <1>16, <1>17, <1>18 DEF Sound, Kept, Serving, n

\* remove_queued ends queued children only.
LEMMA RemovedSound ==
  ASSUME NEW m, Shape(m), Sound(m), NEW ids
  PROVE  /\ Sound(RemoveQueued(m, ids))
         /\ \A s : QuietAt(m, s) => QuietAt(RemoveQueued(m, ids), s)
<1> DEFINE removed == Queued(m) \cap ids
<1>1. removed \subseteq Live(m)
  BY QueuedLive
<1>2. /\ Sound(Finished(m, removed, removed))
      /\ \A s : QuietAt(m, s) => QuietAt(Finished(m, removed, removed), s)
  BY <1>1, FinishedSound
<1>3. RemoveQueued(m, ids) \in {m, Finished(m, removed, removed)}
  BY DEF RemoveQueued
<1> QED  BY <1>2, <1>3

\* Cancelling children keeps everybody served.
LEMMA CancelledSound ==
  ASSUME NEW m, Safe(m), Sound(m), NEW ids
  PROVE  /\ Sound(Cancelled(m, ids))
         /\ \A s : QuietAt(m, s) => QuietAt(Cancelled(m, ids), s)
<1> DEFINE t == [m EXCEPT !.token = m.token \cup (ids \cap InFlight(m))]
<1>1. IsState(m) /\ InFlight(m) \subseteq Ids
  BY DEF Safe, Shape, InFlight
<1>2. /\ IsState(t) /\ t.phase = m.phase /\ t.parent = m.parent /\ t.run = m.run
      /\ t.ticket = m.ticket /\ t.arrivals = m.arrivals
      /\ t.loop = m.loop /\ t.kind = m.kind /\ t.reply = m.reply
      /\ t.handleOnly = m.handleOnly /\ t.deadline = m.deadline /\ t.caller = m.caller
      /\ t.watch = m.watch /\ t.outcome = m.outcome /\ t.drains = m.drains
      /\ t.wfWaits = m.wfWaits /\ t.killed = m.killed /\ t.muted = m.muted
      /\ t.buffer = m.buffer /\ t.blocked = m.blocked
      /\ t.token = m.token \cup (ids \cap InFlight(m))
  BY <1>1 DEF IsState, Fields
<1>3. Cancelled(m, ids) = RemoveQueued(t, ids)
  BY DEF Cancelled
<1> HIDE DEF t
<1>4. Sound(t)
  BY <1>1, <1>2, Loosened DEF Sound, Kept, Types
<1>5. Shape(t)
  BY <1>2 DEF Safe, Shape
<1>6. \A s : QuietAt(m, s) => QuietAt(t, s)
  BY <1>2, SameLive DEF QuietAt
<1>7. /\ Sound(RemoveQueued(t, ids))
      /\ \A s : QuietAt(t, s) => QuietAt(RemoveQueued(t, ids), s)
  BY <1>4, <1>5, RemovedSound
<1> QED  BY <1>3, <1>6, <1>7

\* The reap that precedes commands and timers.
LEMMA ReapedSound ==
  ASSUME Good(Now), Sound(Now), NEW m \in Reaped
  PROVE  Sound(m)
<1> DEFINE g == LetGo(Now)
<1>1. m = RemoveQueued(g, g.token)
  BY DEF Reaped
<1>2. IsState(Now) /\ Shape(Now)
  BY DEF Good, Safe, Shape
<1>3. Sound(g)
  BY <1>2, LetGoSound
<1>4. /\ IsState(g) /\ g.phase = Now.phase /\ g.parent = Now.parent /\ g.run = Now.run
      /\ g.ticket = Now.ticket /\ g.arrivals = Now.arrivals
  BY <1>2 DEF LetGo, IsState, Fields
<1>5. Shape(g)
  BY <1>2, <1>4 DEF Shape
<1> QED  BY <1>1, <1>3, <1>5, RemovedSound

-----------------------------------------------------------------------------
(* handle_spawn                                                            *)

\* A spawn that is not refused is entered with its reply, and is not a Task
\* child of a session that is being deleted.
LEMMA EnteredSound ==
  ASSUME NEW m, Good(m), Sound(m), NEW i \in Ids, m.phase[i] = "unknown",
         NEW r \in Requests, NEW c \in {"waiting", "gone"},
         NEW table \in {"queued", "pending"}, ~SpawnRefused(m, r)
  PROVE  Sound(Entered(m, i, r, c, table))
<1> DEFINE n == Entered(m, i, r, c, table)
<1>1. Shape(m) /\ IsState(m)
  BY DEF Good, Safe, Shape
<1>2. /\ n.phase = [m.phase EXCEPT ![i] = table]
      /\ n.kind = [m.kind EXCEPT ![i] = r]
      /\ n.caller = [m.caller EXCEPT ![i] = c]
      /\ n.loop = [m.loop EXCEPT ![i] = LoopTask(m, r)]
      /\ n.reply = m.reply \cup {i}
      /\ n.killed = m.killed /\ n.watch = m.watch /\ n.buffer = m.buffer
      /\ n.blocked = m.blocked /\ n.drains = m.drains /\ n.wfWaits = m.wfWaits
      /\ n.outcome = m.outcome
  BY <1>1 DEF Entered, IsState, Fields
<1>3. /\ n.muted \in {m.muted, m.muted \cup {i}}
      /\ n.handleOnly \in {m.handleOnly, m.handleOnly \cup {i}}
      /\ n.deadline \in {m.deadline, m.deadline \cup {i}}
      /\ n.token \in {m.token, m.token \cup {i}}
  BY <1>1 DEF Entered, IsState, Fields
<1>4. /\ i \notin Live(m) /\ Live(n) = Live(m) \cup {i}
      /\ InFlight(m) \subseteq InFlight(n) /\ InFlight(n) \subseteq InFlight(m) \cup {i}
      /\ n.parent[i] = RootParent(m, r) /\ n.run[i] = OwnerRun(m, r)
      /\ \A j \in Ids \ {i} : n.parent[j] = m.parent[j] /\ n.run[j] = m.run[j]
  BY EnteredTables
<1>5. ~(OwnerRun(m, r) = None /\ RootParent(m, r) \in m.blocked)
  BY DEF SpawnRefused
<1>6. InFlight(m) \subseteq Live(m) /\ Live(m) \subseteq Ids
  BY QueuedLive DEF Live
<1> HIDE DEF n
<1>7. \A s : OfSession(m, s) \subseteq OfSession(n, s)
  BY <1>4, <1>6 DEF OfSession
<1>8. \A w : Outstanding(m, w) \subseteq Outstanding(n, w)
  BY <1>4, <1>6 DEF Outstanding
<1>9. Types(n)
  <2>1. n.kind \in [Ids -> Requests \cup {None}] /\ DOMAIN n.loop = Ids
    BY <1>2 DEF Sound, Kept, Types
  <2>2. n.caller \in [Ids -> CallerStates]
    BY <1>2 DEF Sound, Kept, Types, CallerStates
  <2> QED  BY <1>2, <1>3, <2>1, <2>2 DEF Sound, Kept, Types
<1>10. Delivered(n)
  BY <1>2 DEF Sound, Kept, Delivered
<1>11. Quiet(n)
  <2>1. ASSUME NEW j \in n.buffer
        PROVE  j \in Ids /\ j # i /\ n.phase[j] \in {"completed", "evicted"}
    BY <1>1, <1>2 DEF Shape, Sound, Kept, Quiet
  <2>2. ASSUME NEW s \in n.drains PROVE QuietAt(n, s)
    <3>1. s \in m.drains /\ s \in m.blocked /\ QuietAt(m, s)
      BY <1>2 DEF Sound, Kept, Quiet
    <3>2. \A j \in n.buffer : n.parent[j] # s
      BY <1>2, <1>4, <2>1, <3>1 DEF QuietAt
    <3>3. ASSUME NEW j \in OfSession(n, s) \ Workflow(n) PROVE j \in n.muted
      <4>1. j # i
        BY <1>4, <1>5, <3>1, <3>3 DEF OfSession, Workflow
      <4>2. j \in OfSession(m, s) \ Workflow(m)
        BY <1>4, <1>6, <3>3, <4>1 DEF OfSession, Workflow
      <4> QED  BY <1>3, <3>1, <4>2 DEF QuietAt
    <3> QED  BY <3>2, <3>3 DEF QuietAt
  <2> QED  BY <1>2, <2>1, <2>2 DEF Sound, Kept, Quiet
<1>12. Served(n)
  <2>1. n.caller[i] = c /\ \A j \in Ids \ {i} : n.caller[j] = m.caller[j]
    BY <1>2 DEF Sound, Kept, Types
  <2>2. m.reply \subseteq Ids
    BY DEF Sound, Kept, Types
  <2> QED  BY <1>2, <1>3, <1>4, <2>1, <2>2 DEF Sound, Serving, Served
<1>13. Parked(n)
  BY <1>2, <1>4, <1>7, <1>8 DEF Sound, Serving, Parked
<1> QED  BY <1>9, <1>10, <1>11, <1>12, <1>13 DEF Sound, Kept, Serving, n

\* A refused spawn was never entered.
LEMMA RefusedSound ==
  ASSUME NEW m, Good(m), Sound(m), NEW i \in Ids, m.phase[i] = "unknown"
  PROVE  Sound([m EXCEPT !.phase[i] = "refused", !.caller[i] = "final"])
<1> DEFINE n == [m EXCEPT !.phase[i] = "refused", !.caller[i] = "final"]
<1>1. Shape(m) /\ IsState(m)
  BY DEF Good, Safe, Shape
<1>2. /\ n.phase = [m.phase EXCEPT ![i] = "refused"]
      /\ n.caller = [m.caller EXCEPT ![i] = "final"]
      /\ n.parent = m.parent /\ n.run = m.run /\ n.loop = m.loop /\ n.kind = m.kind
      /\ n.token = m.token /\ n.killed = m.killed /\ n.muted = m.muted
      /\ n.reply = m.reply /\ n.handleOnly = m.handleOnly /\ n.deadline = m.deadline
      /\ n.watch = m.watch /\ n.buffer = m.buffer /\ n.outcome = m.outcome
      /\ n.blocked = m.blocked /\ n.drains = m.drains /\ n.wfWaits = m.wfWaits
  BY <1>1 DEF IsState, Fields
<1> HIDE DEF n
<1>3. /\ i \notin Live(m) /\ Live(n) = Live(m) /\ InFlight(n) = InFlight(m)
      /\ Workflow(n) = Workflow(m)
  BY <1>1, <1>2 DEF Shape, Live, InFlight, Workflow, LivePhases, InFlightPhases
<1>4. /\ \A s : OfSession(n, s) = OfSession(m, s)
      /\ \A w : Outstanding(n, w) = Outstanding(m, w)
  BY <1>2, <1>3 DEF OfSession, Outstanding
<1>5. n.caller[i] = "final" /\ \A j \in Ids \ {i} : n.caller[j] = m.caller[j]
  BY <1>2 DEF Sound, Kept, Types
<1>6. Types(n)
  <2>1. n.caller \in [Ids -> CallerStates]
    BY <1>2 DEF Sound, Kept, Types, CallerStates
  <2> QED  BY <1>2, <2>1 DEF Sound, Kept, Types
<1>7. Delivered(n)
  BY <1>2 DEF Sound, Kept, Delivered
<1>8. Quiet(n)
  <2>1. \A j \in n.buffer : j \in Ids /\ n.phase[j] \in {"completed", "evicted"}
    BY <1>1, <1>2 DEF Shape, Sound, Kept, Quiet
  <2> QED  BY <1>2, <1>3, <1>4, <2>1 DEF Sound, Kept, Quiet, QuietAt
<1>9. Served(n)
  <2>1. m.reply \subseteq Ids
    BY DEF Sound, Kept, Types
  <2> QED  BY <1>2, <1>3, <1>5, <2>1 DEF Sound, Serving, Served
<1>10. Parked(n)
  BY <1>2, <1>3, <1>4 DEF Sound, Serving, Parked
<1> QED  BY <1>6, <1>7, <1>8, <1>9, <1>10 DEF Sound, Kept, Serving, n

\* handle_spawn: refused, started, queued or failed at the limit.
LEMMA SpawnedSound ==
  ASSUME NEW m, Good(m), Sound(m), NEW i \in Ids, m.phase[i] = "unknown",
         NEW r \in Requests, NEW c \in {"waiting", "gone"}
  PROVE  Sound(Spawned(m, i, r, c))
<1>1. CASE SpawnRefused(m, r)
  BY <1>1, RefusedSound DEF Spawned
<1>2. CASE ~SpawnRefused(m, r)
  <2> DEFINE e == Entered(m, i, r, c, "pending")
  <2>1. Sound(e) /\ Sound(Entered(m, i, r, c, "queued"))
    BY <1>2, EnteredSound
  <2>2. Shape(e) /\ {i} \subseteq Live(e)
    BY EnteredTables
  <2>3. Sound(Finished(e, {i}, {}))
    BY <2>1, <2>2, FinishedSound
  <2> QED  BY <1>2, <2>1, <2>3 DEF Spawned
<1> QED  BY <1>1, <1>2

-----------------------------------------------------------------------------
(* Timers.                                                                 *)

\* A delete that gave up waiting reopens admission.
LEMMA ReopenedSound ==
  ASSUME NEW m, IsState(m), Sound(m), NEW due
  PROVE  Sound(ReopenDrained(m, due))
<1> DEFINE n == ReopenDrained(m, due)
<1>1. /\ n.phase = m.phase /\ n.parent = m.parent /\ n.run = m.run /\ n.loop = m.loop
      /\ n.kind = m.kind /\ n.caller = m.caller /\ n.token = m.token
      /\ n.killed = m.killed /\ n.muted = m.muted /\ n.reply = m.reply
      /\ n.handleOnly = m.handleOnly /\ n.deadline = m.deadline
      /\ n.watch = m.watch /\ n.buffer = m.buffer /\ n.outcome = m.outcome
      /\ n.wfWaits = m.wfWaits
      /\ n.blocked = m.blocked \ (due \cap m.drains) /\ n.drains = m.drains \ due
  BY DEF ReopenDrained, IsState, Fields
<1> HIDE DEF n
<1>2. /\ Live(n) = Live(m) /\ InFlight(n) = InFlight(m) /\ Workflow(n) = Workflow(m)
      /\ \A s : OfSession(n, s) = OfSession(m, s)
      /\ \A r : Outstanding(n, r) = Outstanding(m, r)
  BY <1>1, SameLive
<1>3. Types(n) /\ Delivered(n)
  BY <1>1 DEF Sound, Kept, Types, Delivered
<1>4. Quiet(n)
  BY <1>1, <1>2 DEF Sound, Kept, Quiet, QuietAt
<1>5. Served(n) /\ Parked(n)
  BY <1>1, <1>2 DEF Sound, Serving, Served, Parked
<1> QED  BY <1>3, <1>4, <1>5 DEF Sound, Kept, Serving, n

\* A foreground caller whose budget is over gets an interim answer, and its
\* turn stops waiting.
LEMMA HandedOffSound ==
  ASSUME NEW m, IsState(m), Sound(m), NEW due
  PROVE  Sound(HandOff(m, due))
<1> DEFINE n == HandOff(m, due)
           over == due \cap m.deadline
<1>1. /\ n.phase = m.phase /\ n.parent = m.parent /\ n.run = m.run /\ n.loop = m.loop
      /\ n.kind = m.kind /\ n.token = m.token
      /\ n.killed = m.killed /\ n.muted = m.muted
      /\ n.watch = m.watch /\ n.buffer = m.buffer /\ n.outcome = m.outcome
      /\ n.blocked = m.blocked /\ n.drains = m.drains /\ n.wfWaits = m.wfWaits
      /\ n.caller = [i \in Ids |-> IF i \in over /\ Sent(m, i) THEN "interim"
                                   ELSE m.caller[i]]
      /\ n.reply = m.reply \ over /\ n.deadline = m.deadline \ over
      /\ n.handleOnly = m.handleOnly \cup (over \cap InFlight(m))
  BY DEF HandOff, IsState, Fields
<1>2. \A i : Sent(m, i) <=> i \in m.reply /\ m.caller[i] = "waiting"
  BY DEF Sent
<1> HIDE DEF n, over
<1>3. /\ Live(n) = Live(m) /\ InFlight(n) = InFlight(m) /\ Workflow(n) = Workflow(m)
      /\ \A s : OfSession(n, s) = OfSession(m, s)
      /\ \A r : Outstanding(n, r) = Outstanding(m, r)
      /\ InFlight(m) \subseteq Ids
  BY <1>1, SameLive DEF InFlight
<1>4. Types(n)
  <2>1. n.caller \in [Ids -> CallerStates]
    BY <1>1 DEF Sound, Kept, Types, CallerStates
  <2> QED  BY <1>1, <1>3, <2>1 DEF Sound, Kept, Types
<1>5. Delivered(n) /\ Quiet(n)
  BY <1>1, <1>3 DEF Sound, Kept, Delivered, Quiet, QuietAt
<1>6. Served(n)
  <2>1. m.reply \subseteq Ids
    BY DEF Sound, Kept, Types
  <2>2. ASSUME NEW i \in Ids, n.caller[i] = "waiting" PROVE i \in n.reply
    <3>1. m.caller[i] = "waiting" /\ ~(i \in over /\ Sent(m, i))
      BY <1>1, <2>2
    <3>2. i \in m.reply
      BY <3>1 DEF Sound, Serving, Served
    <3> QED  BY <1>1, <1>2, <3>1, <3>2
  <2>3. ASSUME NEW i \in n.reply
        PROVE  i \in Live(n) /\ n.caller[i] \in {"waiting", "gone"}
    BY <1>1, <1>3, <2>1 DEF Sound, Serving, Served
  <2> QED  BY <1>1, <1>3, <2>2, <2>3 DEF Sound, Serving, Served
<1>7. Parked(n)
  BY <1>1, <1>3 DEF Sound, Serving, Parked
<1> QED  BY <1>4, <1>5, <1>6, <1>7 DEF Sound, Kept, Serving, n

\* Queries may change while nobody is parked on a child that is gone.
LEMMA WatchesSound ==
  ASSUME NEW m, NEW n, Sound(m), IsState(n),
         n.phase = m.phase, n.parent = m.parent, n.run = m.run, n.loop = m.loop,
         n.kind = m.kind, n.caller = m.caller, n.token = m.token,
         n.killed = m.killed, n.muted = m.muted, n.reply = m.reply,
         n.handleOnly = m.handleOnly, n.deadline = m.deadline,
         n.buffer = m.buffer, n.outcome = m.outcome,
         n.blocked = m.blocked, n.drains = m.drains, n.wfWaits = m.wfWaits,
         n.watch \in [Queriers -> Watch],
         \A q \in Queriers :
           \/ n.watch[q] \in {Idle, m.watch[q]}
           \/ n.watch[q].mode = "progress"
           \/ n.watch[q].mode = "blocked" /\ n.watch[q].id \in Live(m)
           \/ n.watch[q].mode = "closed" /\ n.watch[q].id \in Live(m)
  PROVE  Sound(n)
<1>1. /\ Live(n) = Live(m) /\ InFlight(n) = InFlight(m) /\ Workflow(n) = Workflow(m)
      /\ \A s : OfSession(n, s) = OfSession(m, s)
      /\ \A r : Outstanding(n, r) = Outstanding(m, r)
  BY SameLive
<1>2. Types(n) /\ Delivered(n)
  BY DEF Sound, Kept, Types, Delivered
<1>3. Quiet(n)
  BY <1>1 DEF Sound, Kept, Quiet, QuietAt
<1>4. Served(n)
  BY <1>1 DEF Sound, Serving, Served
<1>5. Parked(n)
  <2>1. ASSUME NEW q \in Queriers
        PROVE  /\ n.watch[q].mode \in {"blocked", "closed"} => n.watch[q].id \in Live(n)
               /\ n.watch[q].mode = "idle" => n.watch[q] = Idle
    BY <1>1 DEF Sound, Serving, Parked, Idle
  <2> QED  BY <1>1, <2>1 DEF Sound, Serving, Parked
<1> QED  BY <1>2, <1>3, <1>4, <1>5 DEF Sound, Kept, Serving

\* A blocked query that times out is answered, or waits for the progress of an
\* active child.
LEMMA AnsweredSound ==
  ASSUME NEW m, IsState(m), Sound(m), NEW due
  PROVE  Sound(AnswerWaiters(m, due))
<1> DEFINE n == AnswerWaiters(m, due)
<1>1. /\ IsState(n)
      /\ n.phase = m.phase /\ n.parent = m.parent /\ n.run = m.run /\ n.loop = m.loop
      /\ n.kind = m.kind /\ n.caller = m.caller /\ n.token = m.token
      /\ n.killed = m.killed /\ n.muted = m.muted /\ n.reply = m.reply
      /\ n.handleOnly = m.handleOnly /\ n.deadline = m.deadline
      /\ n.buffer = m.buffer /\ n.outcome = m.outcome
      /\ n.blocked = m.blocked /\ n.drains = m.drains /\ n.wfWaits = m.wfWaits
  BY DEF AnswerWaiters, IsState, Fields
<1>2. n.watch = [q \in Queriers |->
                  IF q \notin due \/ m.watch[q].mode \notin {"blocked", "closed"}
                  THEN m.watch[q]
                  ELSE IF m.watch[q].mode = "blocked"
                            /\ m.phase[m.watch[q].id] = "active"
                  THEN [m.watch[q] EXCEPT !.mode = "progress"] ELSE Idle]
  BY DEF AnswerWaiters, IsState, Fields
<1> HIDE DEF n
<1>3. ASSUME NEW q \in Queriers
      PROVE  /\ n.watch[q] \in Watch
             /\ n.watch[q] \in {Idle, m.watch[q]} \/ n.watch[q].mode = "progress"
  <2>1. m.watch[q] \in Watch /\ Idle \in Watch
    BY DEF Sound, Kept, Types, Watch, Idle
  <2>2. /\ [m.watch[q] EXCEPT !.mode = "progress"] \in Watch
        /\ [m.watch[q] EXCEPT !.mode = "progress"].mode = "progress"
    BY <2>1 DEF Watch
  <2>3. n.watch[q] \in {Idle, m.watch[q], [m.watch[q] EXCEPT !.mode = "progress"]}
    BY <1>2
  <2> QED  BY <2>1, <2>2, <2>3
<1>4. n.watch \in [Queriers -> Watch]
  BY <1>2, <1>3
<1> QED  BY <1>1, <1>3, <1>4, WatchesSound DEF n

-----------------------------------------------------------------------------
(* The actions.                                                            *)

\* The caps on the completed table and the buffer drop only what has ended.
LEMMA BecomesSound ==
  ASSUME NEW x, Sound(x), Becomes(x)
  PROVE  Sound(Now)'
<1> DEFINE n == Now'
<1>1. PICK old : phase' = [i \in Ids |-> IF i \in old THEN "evicted" ELSE x.phase[i]]
                 /\ old \in Overflow({i \in Ids : x.phase[i] = "completed"}, MaxCompleted)
  BY DEF Becomes
<1>2. old \subseteq {i \in Ids : x.phase[i] = "completed"}
  BY <1>1 DEF Overflow
<1>3. n.phase = [i \in Ids |-> IF i \in old THEN "evicted" ELSE x.phase[i]]
  BY <1>1 DEF Now
<1>4. /\ n.parent = x.parent /\ n.run = x.run /\ n.loop = x.loop /\ n.kind = x.kind
      /\ n.caller = x.caller /\ n.token = x.token /\ n.killed = x.killed
      /\ n.muted = x.muted /\ n.reply = x.reply /\ n.handleOnly = x.handleOnly
      /\ n.deadline = x.deadline /\ n.watch = x.watch /\ n.outcome = x.outcome
      /\ n.blocked = x.blocked /\ n.drains = x.drains /\ n.wfWaits = x.wfWaits
      /\ n.buffer \subseteq x.buffer
  BY DEF Becomes, Now
<1> HIDE DEF n
<1>5. /\ Live(n) = Live(x) /\ InFlight(n) = InFlight(x) /\ Workflow(n) = Workflow(x)
  BY <1>2, <1>3, <1>4 DEF Live, InFlight, Workflow, LivePhases, InFlightPhases
<1>6. /\ \A s : OfSession(n, s) = OfSession(x, s)
      /\ \A w : Outstanding(n, w) = Outstanding(x, w)
  BY <1>4, <1>5 DEF OfSession, Outstanding
<1>7. Types(n) /\ Delivered(n)
  BY <1>4 DEF Sound, Kept, Types, Delivered
<1>8. Quiet(n)
  BY <1>3, <1>4, <1>5, <1>6 DEF Sound, Kept, Quiet, QuietAt
<1>9. Served(n)
  BY <1>4, <1>5 DEF Sound, Serving, Served
<1>10. Parked(n)
  BY <1>4, <1>5, <1>6 DEF Sound, Serving, Parked
<1>11. Sound(n)
  BY <1>7, <1>8, <1>9, <1>10 DEF Sound, Kept, Serving
<1> QED  BY <1>11 DEF n

\* A command, likewise.
LEMMA CommandSound ==
  ASSUME NEW x, Sound(x), Command(x)
  PROVE  Sound(Now)'
BY BecomesSound DEF Command

\* handle_spawn after the reap.
LEMMA SpawnServes ==
  ASSUME Good(Now), Sound(Now), NEW i \in Ids, NEW r \in Requests,
         NEW c \in {"waiting", "gone"}, Spawn(i, r, c)
  PROVE  Sound(Now)'
<1>1. PICK m \in Reaped : Becomes(Spawned(m, i, r, c))
  BY DEF Spawn
<1>2. Good(m) /\ Sound(m) /\ m.phase[i] = "unknown"
  BY <1>1, ReapedGood, ReapedSound DEF Spawn
<1> QED  BY <1>1, <1>2, SpawnedSound, BecomesSound

\* A run starts or ends.
LEMMA RunServes ==
  ASSUME Good(Now), Sound(Now), NEW i \in Ids,
         Started(i) \/ \E cut \in SUBSET Ids : FinishRun(i, cut)
  PROVE  Sound(Now)'
<1>1. CASE Started(i)
  <2> DEFINE m == Now
             n == [Now EXCEPT !.phase[i] = "active"]
  <2>1. Becomes(n) /\ m.phase[i] = "pending"
    BY <1>1 DEF Started, Now
  <2>2. n.phase = [m.phase EXCEPT ![i] = "active"]
    BY DEF Now
  <2>3. /\ n.parent = m.parent /\ n.run = m.run /\ n.loop = m.loop /\ n.kind = m.kind
        /\ n.caller = m.caller /\ n.token = m.token /\ n.killed = m.killed
        /\ n.muted = m.muted /\ n.reply = m.reply /\ n.handleOnly = m.handleOnly
        /\ n.deadline = m.deadline /\ n.watch = m.watch /\ n.outcome = m.outcome
        /\ n.blocked = m.blocked /\ n.drains = m.drains /\ n.wfWaits = m.wfWaits
        /\ n.buffer = m.buffer
    BY DEF Now
  <2>4. Shape(m) /\ Sound(m)
    BY DEF Good, Safe
  <2> HIDE DEF m, n
  <2>5. /\ Live(n) = Live(m) /\ InFlight(n) = InFlight(m) /\ Workflow(n) = Workflow(m)
    BY <2>1, <2>2, <2>3, <2>4
       DEF Shape, Live, InFlight, Workflow, LivePhases, InFlightPhases
  <2>6. /\ \A s : OfSession(n, s) = OfSession(m, s)
        /\ \A w : Outstanding(n, w) = Outstanding(m, w)
    BY <2>3, <2>5 DEF OfSession, Outstanding
  <2>7. Types(n) /\ Delivered(n)
    BY <2>3, <2>4 DEF Sound, Kept, Types, Delivered
  <2>8. Quiet(n)
    <3>1. \A j \in n.buffer : j \in Ids /\ n.phase[j] \in {"completed", "evicted"}
      BY <2>1, <2>2, <2>3, <2>4 DEF Shape, Sound, Kept, Quiet
    <3> QED  BY <2>3, <2>4, <2>5, <2>6, <3>1 DEF Sound, Kept, Quiet, QuietAt
  <2>9. Served(n) /\ Parked(n)
    BY <2>3, <2>4, <2>5, <2>6 DEF Sound, Serving, Served, Parked
  <2>10. Sound(n)
    BY <2>7, <2>8, <2>9 DEF Sound, Kept, Serving
  <2> QED  BY <2>1, <2>10, BecomesSound
<1>2. CASE \E cut \in SUBSET Ids : FinishRun(i, cut)
  <2>1. PICK cut \in SUBSET Ids : Becomes(Finished(Now, {i}, cut)) /\ i \in InFlight(Now)
    BY <1>2 DEF FinishRun
  <2>2. {i} \subseteq Live(Now) /\ Shape(Now)
    BY <2>1, QueuedLive DEF Good, Safe
  <2> QED  BY <2>1, <2>2, FinishedSound, BecomesSound
<1> QED  BY <1>1, <1>2

\* A cancellation that first marks children as killed or muted, or closes
\* admission.
LEMMA MarkedSound ==
  ASSUME NEW m, Good(m), Sound(m), NEW killing \in SUBSET Ids,
         NEW muting \in SUBSET Ids, NEW closing \in SUBSET Sessions, NEW ids
  PROVE  Sound(Cancelled([m EXCEPT !.killed = m.killed \cup killing,
                                   !.muted = m.muted \cup muting,
                                   !.blocked = m.blocked \cup closing], ids))
<1> DEFINE n == [m EXCEPT !.killed = m.killed \cup killing,
                          !.muted = m.muted \cup muting,
                          !.blocked = m.blocked \cup closing]
<1>1. IsState(m) /\ Safe(m)
  BY DEF Good, Safe, Shape
<1>2. /\ IsState(n) /\ n.phase = m.phase /\ n.parent = m.parent /\ n.run = m.run
      /\ n.ticket = m.ticket /\ n.arrivals = m.arrivals
      /\ n.loop = m.loop /\ n.kind = m.kind /\ n.reply = m.reply
      /\ n.handleOnly = m.handleOnly /\ n.deadline = m.deadline /\ n.caller = m.caller
      /\ n.watch = m.watch /\ n.outcome = m.outcome /\ n.drains = m.drains
      /\ n.wfWaits = m.wfWaits /\ n.token = m.token /\ n.buffer = m.buffer
      /\ n.killed = m.killed \cup killing /\ n.muted = m.muted \cup muting
      /\ n.blocked = m.blocked \cup closing
  BY <1>1 DEF IsState, Fields
<1> HIDE DEF n
<1>3. Sound(n)
  <2>1. /\ m.token \subseteq Ids /\ m.killed \subseteq Ids /\ m.muted \subseteq Ids
        /\ m.blocked \subseteq Sessions
    BY DEF Sound, Kept, Types
  <2>2. /\ n.token \subseteq Ids /\ n.killed \subseteq Ids /\ n.muted \subseteq Ids
        /\ n.blocked \subseteq Sessions /\ m.token \subseteq n.token
        /\ m.muted \subseteq n.muted /\ m.blocked \subseteq n.blocked
        /\ n.buffer \subseteq m.buffer
    BY <1>2, <2>1
  <2> QED  BY <1>2, <2>2, Loosened
<1>4. Safe(n)
  BY <1>1, <1>2, SameTables
<1> QED  BY <1>3, <1>4, CancelledSound DEF n

\* The cancelling commands.
LEMMA CancelServes ==
  ASSUME Good(Now), Sound(Now),
         \/ \E i \in Ids : CancelOne(i)
         \/ \E p \in Prompts, s \in Sessions \cup {None} : CancelPrompt(p, s)
         \/ \E s \in Sessions : StopSession(s)
         \/ \E l \in Loops, s \in Sessions \cup {None} : CancelLoop(l, s)
  PROVE  Sound(Now)'
<1>1. ASSUME NEW m \in Reaped, NEW killing \in SUBSET Ids, NEW muting \in SUBSET Ids,
             NEW closing \in SUBSET Sessions, NEW ids,
             Command(Cancelled([m EXCEPT !.killed = m.killed \cup killing,
                                         !.muted = m.muted \cup muting,
                                         !.blocked = m.blocked \cup closing], ids))
      PROVE  Sound(Now)'
  <2>1. Good(m) /\ Sound(m)
    BY ReapedGood, ReapedSound
  <2>2. Sound(Cancelled([m EXCEPT !.killed = m.killed \cup killing,
                                  !.muted = m.muted \cup muting,
                                  !.blocked = m.blocked \cup closing], ids))
    BY <2>1, MarkedSound
  <2> QED  BY <1>1, <2>2, CommandSound
<1>2. ASSUME NEW m \in Reaped
      PROVE  /\ IsState(m) /\ InFlight(m) \subseteq Ids
             /\ m.killed \cup {} = m.killed /\ m.muted \cup {} = m.muted
             /\ m.blocked \cup {} = m.blocked
  BY ReapedGood DEF Good, Safe, Shape, InFlight
<1>3. CASE \E i \in Ids : CancelOne(i)
  <2>1. PICK i \in Ids, m \in Reaped :
          Command(Cancelled([m EXCEPT !.killed = m.killed \cup ({i} \cap InFlight(m))],
                            {i} \cap Live(m)))
    BY <1>3 DEF CancelOne
  <2>2. [m EXCEPT !.killed = m.killed \cup ({i} \cap InFlight(m))]
          = [m EXCEPT !.killed = m.killed \cup ({i} \cap InFlight(m)),
                      !.muted = m.muted \cup {}, !.blocked = m.blocked \cup {}]
    BY <1>2 DEF IsState, Fields
  <2>3. {i} \cap InFlight(m) \in SUBSET Ids
    OBVIOUS
  <2> QED  BY <1>1, <2>1, <2>2, <2>3
<1>4. CASE \E p \in Prompts, s \in Sessions \cup {None} : CancelPrompt(p, s)
  <2>1. PICK m \in Reaped : \E ids : Command(Cancelled(m, ids))
    BY <1>4 DEF CancelPrompt
  <2>2. Good(m) /\ Sound(m)
    BY ReapedGood, ReapedSound
  <2> QED  BY <2>1, <2>2, CancelledSound, CommandSound DEF Good
<1>5. CASE \E s \in Sessions : StopSession(s)
  <2>1. PICK s \in Sessions, m \in Reaped : \E ids :
          Command(Cancelled([m EXCEPT !.blocked = m.blocked \cup {s}], ids))
    BY <1>5 DEF StopSession
  <2>2. [m EXCEPT !.blocked = m.blocked \cup {s}]
          = [m EXCEPT !.killed = m.killed \cup {}, !.muted = m.muted \cup {},
                      !.blocked = m.blocked \cup {s}]
    BY <1>2 DEF IsState, Fields
  <2> QED  BY <1>1, <2>1, <2>2
<1>6. CASE \E l \in Loops, s \in Sessions \cup {None} : CancelLoop(l, s)
  <2>1. PICK m \in Reaped : \E ids :
          Command(Cancelled([m EXCEPT !.killed = m.killed \cup (ids \cap InFlight(m)),
                                      !.muted = m.muted \cup (ids \cap InFlight(m))],
                            ids))
    BY <1>6 DEF CancelLoop
  <2>2. PICK ids :
          Command(Cancelled([m EXCEPT !.killed = m.killed \cup (ids \cap InFlight(m)),
                                      !.muted = m.muted \cup (ids \cap InFlight(m))],
                            ids))
    BY <2>1
  <2>3. [m EXCEPT !.killed = m.killed \cup (ids \cap InFlight(m)),
                  !.muted = m.muted \cup (ids \cap InFlight(m))]
          = [m EXCEPT !.killed = m.killed \cup (ids \cap InFlight(m)),
                      !.muted = m.muted \cup (ids \cap InFlight(m)),
                      !.blocked = m.blocked \cup {}]
    BY <1>2 DEF IsState, Fields
  <2>4. ids \cap InFlight(m) \in SUBSET Ids
    BY <1>2
  <2> QED  BY <1>1, <2>2, <2>3, <2>4
<1> QED  BY <1>3, <1>4, <1>5, <1>6

\* A delete mutes the session's children and empties its buffer before it
\* cancels, so that it is quiet from the moment it waits.
LEMMA TeardownServes ==
  ASSUME Good(Now), Sound(Now), NEW s \in Sessions, NEW responder \in BOOLEAN,
         Teardown(s, responder)
  PROVE  Sound(Now)'
<1>1. PICK m \in Reaped :
        LET ids  == OfSession(m, s)
            left == Cancelled([m EXCEPT !.muted = m.muted \cup ids,
                                        !.buffer = {i \in m.buffer : m.parent[i] # s}],
                              ids)
            hold == IF responder /\ OfSession(left, s) # {} THEN {s} ELSE {}
        IN  Command([left EXCEPT !.blocked = left.blocked \cup hold,
                                 !.drains = left.drains \cup hold])
  BY DEF Teardown
<1> DEFINE ids  == OfSession(m, s)
           n    == [m EXCEPT !.muted = m.muted \cup ids,
                             !.buffer = {i \in m.buffer : m.parent[i] # s}]
           left == Cancelled(n, ids)
           hold == IF responder /\ OfSession(left, s) # {} THEN {s} ELSE {}
           x    == [left EXCEPT !.blocked = left.blocked \cup hold,
                                !.drains = left.drains \cup hold]
<1>2. Good(m) /\ Sound(m) /\ IsState(m)
  BY <1>1, ReapedGood, ReapedSound DEF Good, Safe, Shape
<1>3. /\ IsState(n) /\ n.phase = m.phase /\ n.parent = m.parent /\ n.run = m.run
      /\ n.ticket = m.ticket /\ n.arrivals = m.arrivals
      /\ n.loop = m.loop /\ n.kind = m.kind /\ n.reply = m.reply
      /\ n.handleOnly = m.handleOnly /\ n.deadline = m.deadline /\ n.caller = m.caller
      /\ n.watch = m.watch /\ n.outcome = m.outcome /\ n.drains = m.drains
      /\ n.wfWaits = m.wfWaits /\ n.token = m.token /\ n.killed = m.killed
      /\ n.blocked = m.blocked /\ n.muted = m.muted \cup ids
      /\ n.buffer = {i \in m.buffer : m.parent[i] # s}
  BY <1>2 DEF IsState, Fields
<1>4. ids \subseteq Ids
  BY DEF OfSession, Live
<1>5. Command(x)
  BY <1>1
<1> HIDE DEF n
<1>6. Sound(n)
  BY <1>2, <1>3, <1>4, Loosened DEF Sound, Kept, Types
<1>7. Safe(n)
  BY <1>2, <1>3, SameTables DEF Good
<1>8. QuietAt(n, s)
  BY <1>3, SameLive DEF QuietAt
<1>9. Sound(left) /\ QuietAt(left, s) /\ Safe(left)
  BY <1>6, <1>7, <1>8, CancelledSound, CancelledIds
<1>10. hold \in {{}, {s}} /\ (hold # {} => OfSession(left, s) # {})
  OBVIOUS
<1>11. IsState(left)
  BY <1>9 DEF Safe, Shape
<1>12. /\ x.phase = left.phase /\ x.parent = left.parent /\ x.run = left.run
       /\ x.loop = left.loop /\ x.kind = left.kind /\ x.reply = left.reply
       /\ x.handleOnly = left.handleOnly /\ x.deadline = left.deadline
       /\ x.caller = left.caller /\ x.watch = left.watch /\ x.outcome = left.outcome
       /\ x.wfWaits = left.wfWaits /\ x.token = left.token /\ x.killed = left.killed
       /\ x.muted = left.muted /\ x.buffer = left.buffer
       /\ x.blocked = left.blocked \cup hold /\ x.drains = left.drains \cup hold
  BY <1>11 DEF IsState, Fields
<1> HIDE DEF left, hold, x
<1>13. /\ Live(x) = Live(left) /\ InFlight(x) = InFlight(left)
       /\ Workflow(x) = Workflow(left)
       /\ \A z : OfSession(x, z) = OfSession(left, z)
       /\ \A r : Outstanding(x, r) = Outstanding(left, r)
  BY <1>12, SameLive
<1>14. Types(x) /\ Delivered(x)
  BY <1>9, <1>10, <1>12 DEF Sound, Kept, Types, Delivered
<1>15. Quiet(x)
  BY <1>9, <1>10, <1>12, <1>13 DEF Sound, Kept, Quiet, QuietAt
<1>16. Served(x)
  BY <1>9, <1>12, <1>13 DEF Sound, Serving, Served
<1>17. Parked(x)
  BY <1>9, <1>10, <1>12, <1>13 DEF Sound, Serving, Parked
<1>18. Sound(x)
  BY <1>14, <1>15, <1>16, <1>17 DEF Sound, Kept, Serving
<1> QED  BY <1>5, <1>18, CommandSound

\* A workflow cancel parks its responder only on an outstanding child.
LEMMA CancelWorkflowServes ==
  ASSUME Good(Now), Sound(Now), NEW r \in Runs, NEW s, CancelWorkflow(r, s)
  PROVE  Sound(Now)'
<1>1. PICK m \in Reaped : \E t \in SUBSET InFlight(m), w \in {{}, {r}} :
        /\ Command([m EXCEPT !.token = m.token \cup t, !.wfWaits = m.wfWaits \cup w])
        /\ w # {} => Outstanding(m, r) # {}
  <2>1. PICK m \in Reaped :
          Command([m EXCEPT
            !.token = m.token \cup (Outstanding(m, r) \cap Scope(m, s)),
            !.wfWaits = IF Outstanding(m, r) = {} THEN m.wfWaits ELSE m.wfWaits \cup {r}])
    BY DEF CancelWorkflow
  <2> DEFINE t == Outstanding(m, r) \cap Scope(m, s)
             w == IF Outstanding(m, r) = {} THEN {} ELSE {r}
  <2>2. t \in SUBSET InFlight(m) /\ w \in {{}, {r}}
    BY DEF Outstanding
  <2>3. (IF Outstanding(m, r) = {} THEN m.wfWaits ELSE m.wfWaits \cup {r}) = m.wfWaits \cup w
    OBVIOUS
  <2>4. Command([m EXCEPT !.token = m.token \cup t, !.wfWaits = m.wfWaits \cup w])
    BY <2>1, <2>3
  <2> QED  BY <2>2, <2>4
<1>2. PICK t \in SUBSET InFlight(m), w \in {{}, {r}} :
        /\ Command([m EXCEPT !.token = m.token \cup t, !.wfWaits = m.wfWaits \cup w])
        /\ w # {} => Outstanding(m, r) # {}
  BY <1>1
<1> DEFINE n == [m EXCEPT !.token = m.token \cup t, !.wfWaits = m.wfWaits \cup w]
<1>3. Sound(m) /\ IsState(m) /\ t \subseteq Ids
  BY ReapedGood, ReapedSound DEF Good, Safe, Shape, InFlight
<1>4. /\ n.phase = m.phase /\ n.parent = m.parent /\ n.run = m.run
      /\ n.loop = m.loop /\ n.kind = m.kind /\ n.reply = m.reply
      /\ n.handleOnly = m.handleOnly /\ n.deadline = m.deadline /\ n.caller = m.caller
      /\ n.watch = m.watch /\ n.outcome = m.outcome /\ n.drains = m.drains
      /\ n.killed = m.killed /\ n.muted = m.muted /\ n.buffer = m.buffer
      /\ n.blocked = m.blocked
      /\ n.token = m.token \cup t /\ n.wfWaits = m.wfWaits \cup w
  BY <1>3 DEF IsState, Fields
<1>5. Command(n)
  BY <1>2
<1> HIDE DEF n
<1>6. /\ Live(n) = Live(m) /\ InFlight(n) = InFlight(m) /\ Workflow(n) = Workflow(m)
      /\ \A z : OfSession(n, z) = OfSession(m, z)
      /\ \A z : Outstanding(n, z) = Outstanding(m, z)
  BY <1>4, SameLive
<1>7. Types(n) /\ Delivered(n)
  BY <1>3, <1>4 DEF Sound, Kept, Types, Delivered
<1>8. Quiet(n)
  BY <1>3, <1>4, <1>6 DEF Sound, Kept, Quiet, QuietAt
<1>9. Served(n)
  BY <1>3, <1>4, <1>6 DEF Sound, Serving, Served
<1>10. Parked(n)
  BY <1>2, <1>3, <1>4, <1>6 DEF Sound, Serving, Parked
<1>11. Sound(n)
  BY <1>7, <1>8, <1>9, <1>10 DEF Sound, Kept, Serving
<1> QED  BY <1>5, <1>11, CommandSound

\* The next turn opens admission, but not under a delete that waits.
LEMMA OpenServes ==
  ASSUME Good(Now), Sound(Now), NEW s, OpenAdmission(s)
  PROVE  Sound(Now)'
<1>1. PICK m \in Reaped : Command([m EXCEPT !.blocked = IF s \in m.drains THEN m.blocked
                                                       ELSE m.blocked \ {s}])
  BY DEF OpenAdmission
<1> DEFINE n == [m EXCEPT !.blocked = IF s \in m.drains THEN m.blocked
                                      ELSE m.blocked \ {s}]
<1>2. Sound(m) /\ IsState(m)
  BY ReapedGood, ReapedSound DEF Good, Safe, Shape
<1>3. /\ n.phase = m.phase /\ n.parent = m.parent /\ n.run = m.run
      /\ n.loop = m.loop /\ n.kind = m.kind /\ n.reply = m.reply
      /\ n.handleOnly = m.handleOnly /\ n.deadline = m.deadline /\ n.caller = m.caller
      /\ n.watch = m.watch /\ n.outcome = m.outcome /\ n.drains = m.drains
      /\ n.killed = m.killed /\ n.muted = m.muted /\ n.buffer = m.buffer
      /\ n.token = m.token /\ n.wfWaits = m.wfWaits
      /\ n.blocked = IF s \in m.drains THEN m.blocked ELSE m.blocked \ {s}
  BY <1>2 DEF IsState, Fields
<1>4. Command(n)
  BY <1>1
<1> HIDE DEF n
<1>5. /\ Live(n) = Live(m) /\ InFlight(n) = InFlight(m) /\ Workflow(n) = Workflow(m)
      /\ \A z : OfSession(n, z) = OfSession(m, z)
      /\ \A z : Outstanding(n, z) = Outstanding(m, z)
  BY <1>3, SameLive
<1>6. Types(n) /\ Delivered(n)
  BY <1>2, <1>3 DEF Sound, Kept, Types, Delivered
<1>7. Quiet(n)
  BY <1>2, <1>3, <1>5 DEF Sound, Kept, Quiet, QuietAt
<1>8. Served(n) /\ Parked(n)
  BY <1>2, <1>3, <1>5 DEF Sound, Serving, Served, Parked
<1>9. Sound(n)
  BY <1>6, <1>7, <1>8 DEF Sound, Kept, Serving
<1> QED  BY <1>4, <1>9, CommandSound

\* Taking completions, and commands that only look.
LEMMA CompletionsServe ==
  ASSUME Good(Now), Sound(Now), (\E s : Completions(s)) \/ Observe
  PROVE  Sound(Now)'
<1>1. CASE \E s : Completions(s)
  <2>1. PICK m \in Reaped : \E b \in SUBSET m.buffer : Command([m EXCEPT !.buffer = b])
    BY <1>1 DEF Completions
  <2>2. PICK b \in SUBSET m.buffer : Command([m EXCEPT !.buffer = b])
    BY <2>1
  <2> DEFINE n == [m EXCEPT !.buffer = b]
  <2>3. Sound(m) /\ IsState(m)
    BY ReapedGood, ReapedSound DEF Good, Safe, Shape
  <2>4. /\ IsState(n) /\ n.phase = m.phase /\ n.parent = m.parent /\ n.run = m.run
        /\ n.loop = m.loop /\ n.kind = m.kind /\ n.reply = m.reply
        /\ n.handleOnly = m.handleOnly /\ n.deadline = m.deadline /\ n.caller = m.caller
        /\ n.watch = m.watch /\ n.outcome = m.outcome /\ n.drains = m.drains
        /\ n.wfWaits = m.wfWaits /\ n.token = m.token /\ n.killed = m.killed
        /\ n.muted = m.muted /\ n.blocked = m.blocked /\ n.buffer = b
    BY <2>3 DEF IsState, Fields
  <2>5. Command(n)
    BY <2>2
  <2> HIDE DEF n
  <2>6. Sound(n)
    BY <2>3, <2>4, Loosened DEF Sound, Kept, Types
  <2> QED  BY <2>5, <2>6, CommandSound
<1>2. CASE Observe
  BY <1>2, ReapedSound, CommandSound DEF Observe
<1> QED  BY <1>1, <1>2

\* A blocking query is parked on a live child only.
LEMMA QueryServes ==
  ASSUME Good(Now), Sound(Now), NEW q \in Queriers, NEW i \in Ids,
         NEW block \in BOOLEAN, Query(q, i, block)
  PROVE  Sound(Now)'
<1>1. PICK m \in Reaped :
        /\ block => i \in Live(m)
        /\ Command([m EXCEPT !.watch[q] = [mode |-> IF block THEN "blocked" ELSE "progress",
                                           id |-> i]])
  BY DEF Query
<1> DEFINE v == [mode |-> IF block THEN "blocked" ELSE "progress", id |-> i]
           n == [m EXCEPT !.watch[q] = v]
<1>2. Sound(m) /\ IsState(m)
  BY ReapedGood, ReapedSound DEF Good, Safe, Shape
<1>3. /\ IsState(n)
      /\ n.phase = m.phase /\ n.parent = m.parent /\ n.run = m.run /\ n.loop = m.loop
      /\ n.kind = m.kind /\ n.caller = m.caller /\ n.token = m.token
      /\ n.killed = m.killed /\ n.muted = m.muted /\ n.reply = m.reply
      /\ n.handleOnly = m.handleOnly /\ n.deadline = m.deadline
      /\ n.buffer = m.buffer /\ n.outcome = m.outcome
      /\ n.blocked = m.blocked /\ n.drains = m.drains /\ n.wfWaits = m.wfWaits
      /\ n.watch = [m.watch EXCEPT ![q] = v]
  BY <1>2 DEF IsState, Fields
<1>4. /\ v \in Watch /\ v.id = i /\ v.mode \in {"blocked", "progress"}
      /\ v.mode = "blocked" => block
  BY DEF Watch
<1>5. Command(n)
  BY <1>1
<1> HIDE DEF n, v
<1>6. /\ n.watch \in [Queriers -> Watch] /\ n.watch[q] = v
      /\ \A z \in Queriers \ {q} : n.watch[z] = m.watch[z]
  BY <1>2, <1>3, <1>4 DEF Sound, Kept, Types
<1>7. Sound(n)
  BY <1>1, <1>2, <1>3, <1>4, <1>6, WatchesSound
<1> QED  BY <1>5, <1>7, CommandSound

\* process_deadlines.
LEMMA TimerServes ==
  ASSUME Good(Now), Sound(Now), NEW due, NEW dueWaiters, NEW dueDrains,
         ProcessDeadlines(due, dueWaiters, dueDrains)
  PROVE  Sound(Now)'
<1>1. PICK m \in Reaped :
        Becomes(AnswerWaiters(HandOff(ReopenDrained(m, dueDrains), due), dueWaiters))
  BY DEF ProcessDeadlines
<1> DEFINE a == ReopenDrained(m, dueDrains)
           b == HandOff(a, due)
<1>2. Sound(m) /\ IsState(m)
  BY <1>1, ReapedGood, ReapedSound DEF Good, Safe, Shape
<1>3. Sound(a) /\ IsState(a)
  BY <1>2, ReopenedSound DEF ReopenDrained, IsState, Fields
<1>4. Sound(b)
  BY <1>3, HandedOffSound
<1> HIDE DEF a
<1>5. IsState(b)
  BY <1>3 DEF HandOff, IsState, Fields
<1> HIDE DEF b
<1>6. Sound(AnswerWaiters(b, dueWaiters))
  BY <1>4, <1>5, AnsweredSound
<1> QED  BY <1>1, <1>6, BecomesSound DEF a, b

\* A progress request is answered; a querier leaves.
LEMMA QuerierServes ==
  ASSUME Good(Now), Sound(Now), NEW q \in Queriers, FinishProgress(q) \/ QuerierDrops(q)
  PROVE  Sound(Now)'
<1> DEFINE m == Now
<1>1. CASE FinishProgress(q)
  <2> DEFINE n == [Now EXCEPT !.watch[q] = Idle]
  <2>1. /\ IsState(n)
        /\ n.phase = m.phase /\ n.parent = m.parent /\ n.run = m.run /\ n.loop = m.loop
        /\ n.kind = m.kind /\ n.caller = m.caller /\ n.token = m.token
        /\ n.killed = m.killed /\ n.muted = m.muted /\ n.reply = m.reply
        /\ n.handleOnly = m.handleOnly /\ n.deadline = m.deadline
        /\ n.buffer = m.buffer /\ n.outcome = m.outcome
        /\ n.blocked = m.blocked /\ n.drains = m.drains /\ n.wfWaits = m.wfWaits
        /\ n.watch = [m.watch EXCEPT ![q] = Idle]
    BY DEF Now, IsState, Fields
  <2>2. Becomes(n) /\ Sound(m) /\ Idle \in Watch
    BY <1>1 DEF FinishProgress, Idle, Watch
  <2> HIDE DEF n, m
  <2>3. /\ n.watch \in [Queriers -> Watch] /\ n.watch[q] = Idle
        /\ \A z \in Queriers \ {q} : n.watch[z] = m.watch[z]
    BY <2>1, <2>2 DEF Sound, Kept, Types
  <2>4. Sound(n)
    BY <2>1, <2>2, <2>3, WatchesSound
  <2> QED  BY <2>2, <2>4, BecomesSound
<1>2. CASE QuerierDrops(q)
  <2> DEFINE n == Now'
             v == [watch[q] EXCEPT !.mode = "closed"]
  <2>1. /\ IsState(n)
        /\ n.phase = m.phase /\ n.parent = m.parent /\ n.run = m.run /\ n.loop = m.loop
        /\ n.kind = m.kind /\ n.caller = m.caller /\ n.token = m.token
        /\ n.killed = m.killed /\ n.muted = m.muted /\ n.reply = m.reply
        /\ n.handleOnly = m.handleOnly /\ n.deadline = m.deadline
        /\ n.buffer = m.buffer /\ n.outcome = m.outcome
        /\ n.blocked = m.blocked /\ n.drains = m.drains /\ n.wfWaits = m.wfWaits
        /\ n.watch = [m.watch EXCEPT ![q] = v]
    BY <1>2 DEF QuerierDrops, Now, IsState, Fields, tables, flags
  <2>2. Sound(m) /\ m.watch = watch /\ watch[q].mode = "blocked"
    BY <1>2 DEF QuerierDrops, Now
  <2> HIDE DEF n, m
  <2>3. watch[q] \in Watch /\ watch[q].id \in Live(m)
    BY <2>2 DEF Sound, Kept, Types, Serving, Parked
  <2>4. v \in Watch /\ v.mode = "closed" /\ v.id \in Live(m)
    BY <2>3 DEF Watch
  <2> HIDE DEF v
  <2>5. /\ n.watch \in [Queriers -> Watch] /\ n.watch[q] = v
        /\ \A z \in Queriers \ {q} : n.watch[z] = m.watch[z]
    BY <2>1, <2>2, <2>4 DEF Sound, Kept, Types
  <2>6. \A z \in Queriers :
          \/ n.watch[z] \in {Idle, m.watch[z]}
          \/ n.watch[z].mode = "closed" /\ n.watch[z].id \in Live(m)
    BY <2>4, <2>5
  <2>7. Sound(n)
    BY <2>1, <2>2, <2>5, <2>6, WatchesSound
  <2> QED  BY <2>7 DEF n
<1> QED  BY <1>1, <1>2

\* A host cancels a token.
LEMMA CancelTokenServes ==
  ASSUME Good(Now), Sound(Now), NEW i \in Ids, CancelToken(i)
  PROVE  Sound(Now)'
<1> DEFINE m == Now
           n == Now'
<1>1. /\ IsState(n) /\ n.phase = m.phase /\ n.parent = m.parent /\ n.run = m.run
      /\ n.loop = m.loop /\ n.kind = m.kind /\ n.reply = m.reply
      /\ n.handleOnly = m.handleOnly /\ n.deadline = m.deadline /\ n.caller = m.caller
      /\ n.watch = m.watch /\ n.outcome = m.outcome /\ n.drains = m.drains
      /\ n.wfWaits = m.wfWaits /\ n.killed = m.killed /\ n.muted = m.muted
      /\ n.blocked = m.blocked /\ n.buffer = m.buffer /\ n.token = m.token \cup {i}
  BY DEF CancelToken, Now, IsState, Fields, tables, parked
<1>2. Sound(m)
  OBVIOUS
<1> HIDE DEF m, n
<1>3. Sound(n)
  BY <1>1, <1>2, Loosened DEF Sound, Kept, Types
<1> QED  BY <1>3 DEF n

\* A caller leaves; until the reap its reply is still held.
LEMMA CallerDropsServes ==
  ASSUME Good(Now), Sound(Now), NEW i \in Ids, CallerDrops(i)
  PROVE  Sound(Now)'
<1> DEFINE m == Now
           n == Now'
<1>1. /\ n.phase = m.phase /\ n.parent = m.parent /\ n.run = m.run
      /\ n.loop = m.loop /\ n.kind = m.kind /\ n.reply = m.reply
      /\ n.handleOnly = m.handleOnly /\ n.deadline = m.deadline
      /\ n.watch = m.watch /\ n.outcome = m.outcome /\ n.drains = m.drains
      /\ n.wfWaits = m.wfWaits /\ n.killed = m.killed /\ n.muted = m.muted
      /\ n.blocked = m.blocked /\ n.buffer = m.buffer
      /\ n.caller = [m.caller EXCEPT ![i] = "gone"]
  BY DEF CallerDrops, Now, tables, parked
<1>2. n.token \in {m.token, m.token \cup {i}}
  BY DEF CallerDrops, Now
<1>3. Sound(m)
  OBVIOUS
<1> HIDE DEF m, n
<1>4. /\ Live(n) = Live(m) /\ InFlight(n) = InFlight(m) /\ Workflow(n) = Workflow(m)
      /\ \A s : OfSession(n, s) = OfSession(m, s)
      /\ \A r : Outstanding(n, r) = Outstanding(m, r)
  BY <1>1, SameLive
<1>5. /\ n.caller \in [Ids -> CallerStates] /\ n.caller[i] = "gone"
      /\ \A j \in Ids \ {i} : n.caller[j] = m.caller[j]
  BY <1>1, <1>3 DEF Sound, Kept, Types, CallerStates
<1>6. Types(n) /\ Delivered(n)
  BY <1>1, <1>2, <1>3, <1>5 DEF Sound, Kept, Types, Delivered
<1>7. Quiet(n)
  BY <1>1, <1>3, <1>4 DEF Sound, Kept, Quiet, QuietAt
<1>8. Served(n)
  <2>1. m.reply \subseteq Ids
    BY <1>3 DEF Sound, Kept, Types
  <2> QED  BY <1>1, <1>2, <1>3, <1>4, <1>5, <2>1 DEF Sound, Serving, Served
<1>9. Parked(n)
  BY <1>1, <1>3, <1>4 DEF Sound, Serving, Parked
<1>10. Sound(n)
  BY <1>6, <1>7, <1>8, <1>9 DEF Sound, Kept, Serving
<1> QED  BY <1>10 DEF n

\* A step that leaves the actor's state alone.
LEMMA SameNow ==
  ASSUME UNCHANGED <<tables, flags, parked, outcome>>
  PROVE  Now' = Now
BY DEF Now, tables, flags, parked

\* The drop of the coordinator answers every queued caller and closes the
\* other channels; nothing is parked any more.
LEMMA DropKeeps ==
  ASSUME Good(Now), Sound(Now), Drop
  PROVE  Kept(Now)'
<1> DEFINE m == Now
           n == Now'
<1>1. /\ n.phase = [i \in Ids |-> IF i \in Queued(m) THEN "evicted" ELSE m.phase[i]]
      /\ n.parent = m.parent /\ n.run = m.run /\ n.loop = m.loop /\ n.kind = m.kind
      /\ n.killed = m.killed /\ n.muted = m.muted /\ n.handleOnly = m.handleOnly
      /\ n.buffer = m.buffer /\ n.blocked = m.blocked /\ n.outcome = m.outcome
      /\ n.token = m.token \cup Live(m) /\ n.reply = {} /\ n.deadline = {}
      /\ n.watch = [q \in Queriers |-> Idle]
      /\ n.drains = {} /\ n.wfWaits = {}
      /\ n.caller = [i \in Ids |-> IF ~Sent(m, i) THEN m.caller[i]
                                   ELSE IF i \in Queued(m) THEN "final" ELSE "lost"]
  BY DEF Now, Drop
<1>2. Sound(m) /\ Live(m) \subseteq Ids
  BY DEF Live
<1> HIDE DEF m, n
<1>3. Types(n)
  <2>1. n.caller \in [Ids -> CallerStates]
    BY <1>1, <1>2 DEF Sound, Kept, Types, CallerStates
  <2>2. n.watch \in [Queriers -> Watch]
    BY <1>1 DEF Idle, Watch
  <2> QED  BY <1>1, <1>2, <2>1, <2>2 DEF Sound, Kept, Types
<1>4. Delivered(n)
  BY <1>1, <1>2 DEF Sound, Kept, Delivered
<1>5. Quiet(n)
  BY <1>1, <1>2 DEF Sound, Kept, Quiet, Queued
<1>6. Kept(n)
  BY <1>3, <1>4, <1>5 DEF Kept
<1> QED  BY <1>6 DEF n

-----------------------------------------------------------------------------
(* The invariant.                                                          *)

\* The coordinator starts empty.
LEMMA InitServes == Init => IInv
<1> SUFFICES ASSUME Init PROVE IInv
  OBVIOUS
<1> DEFINE n == Now
<1>1. /\ n.phase = [i \in Ids |-> "unknown"] /\ n.loop = [i \in Ids |-> None]
      /\ n.kind = [i \in Ids |-> None] /\ n.caller = [i \in Ids |-> "none"]
      /\ n.token = {} /\ n.killed = {} /\ n.muted = {} /\ n.reply = {}
      /\ n.handleOnly = {} /\ n.deadline = {} /\ n.buffer = {}
      /\ n.watch = [q \in Queriers |-> Idle] /\ n.outcome = [i \in Ids |-> "none"]
      /\ n.blocked = {} /\ n.drains = {} /\ n.wfWaits = {}
  BY DEF Init, Now
<1>2. Good(n)
  BY InitGood
<1>3. History
  BY DEF Init, History
<1> HIDE DEF n
<1>4. Idle \in Watch
  BY DEF Idle, Watch
<1>5. Types(n)
  <2>1. n.caller \in [Ids -> CallerStates]
    BY <1>1 DEF CallerStates
  <2>2. n.outcome \in [Ids -> Outcomes]
    BY <1>1 DEF Outcomes
  <2> QED  BY <1>1, <1>4, <2>1, <2>2 DEF Types
<1>6. Delivered(n) /\ Quiet(n)
  BY <1>1 DEF Delivered, Quiet
<1>7. InFlight(n) = {}
  BY <1>1 DEF InFlight, InFlightPhases
<1>8. Served(n)
  BY <1>1, <1>7 DEF Served
<1>9. Parked(n)
  BY <1>1 DEF Parked, Idle
<1>10. Kept(n) /\ Serving(n)
  BY <1>5, <1>6, <1>8, <1>9 DEF Kept, Serving
<1> QED  BY <1>2, <1>3, <1>10 DEF IInv, n

\* The history variables keep their types.
LEMMA HistoryStep ==
  ASSUME History, [Next]_vars
  PROVE  History'
<1>1. CASE \E i \in Ids, r \in Requests, c \in {"waiting", "gone"} : Spawn(i, r, c)
  <2>1. PICK i \in Ids, r \in Requests, c \in {"waiting", "gone"} : Spawn(i, r, c)
    BY <1>1
  <2>2. r.parent \in Keys
    BY CoordinatorConstants DEF RequestShape, Keys
  <2>3. root' = [root EXCEPT ![i] = IF r.parent \in Ids THEN root[r.parent] ELSE r.parent]
    BY <2>1 DEF Spawn
  <2>4. root' \in [Ids -> Keys \cup {None}]
    BY <2>2, <2>3 DEF History
  <2>5. UNCHANGED <<launched, open, exited>>
    BY <2>1 DEF Spawn, Becomes
  <2> QED  BY <2>4, <2>5 DEF History
<1>2. CASE \E m : Command(m)
  BY <1>2 DEF Command, Becomes, History
<1>3. CASE \E i \in Ids : Started(i)
  <2>1. PICK i \in Ids : Started(i)
    BY <1>3
  <2>2. launched' \subseteq launched \cup {i} /\ UNCHANGED <<root, open, exited>>
    BY <2>1 DEF Started, Becomes
  <2> QED  BY <2>2 DEF History
<1>4. CASE \E i \in Ids, cut \in SUBSET Ids : FinishRun(i, cut)
  BY <1>4 DEF FinishRun, Becomes, History
<1>5. CASE Timers
  BY <1>5 DEF Timers, ProcessDeadlines, Becomes, History
<1>6. CASE \E q \in Queriers : FinishProgress(q)
  BY <1>6 DEF FinishProgress, Becomes, History
<1>7. CASE CloseMailbox \/ Exit \/ Abort
  BY <1>7 DEF CloseMailbox, Exit, Abort, Drop, History, tables
<1>8. CASE Environment
  BY <1>8 DEF Environment, CallerDrops, CancelToken, QuerierDrops, History, tables
<1>9. CASE UNCHANGED vars
  BY <1>9 DEF vars, tables, History
<1>10. ASSUME Commands PROVE \/ \E i \in Ids, r \in Requests, c \in {"waiting", "gone"} : Spawn(i, r, c)
                             \/ \E m : Command(m)
  BY <1>10 DEF Commands, CancelOne, CancelPrompt, StopSession, CancelWorkflow, CancelLoop,
               Teardown, OpenAdmission, Completions, Query, Observe
<1> QED
  BY <1>1, <1>2, <1>3, <1>4, <1>5, <1>6, <1>7, <1>8, <1>9, <1>10 DEF Next, Actor

\* Every step of a coordinator that is there leaves it serving, or gone.
LEMMA StepServes ==
  ASSUME Good(Now), Sound(Now), Next
  PROVE  Sound(Now)' \/ (Kept(Now)' /\ exited')
<1>1. CASE Commands
  <2>1. CASE \E i \in Ids, r \in Requests, c \in {"waiting", "gone"} : Spawn(i, r, c)
    BY <2>1, SpawnServes
  <2>2. CASE \E s \in Sessions, responder \in BOOLEAN : Teardown(s, responder)
    BY <2>2, TeardownServes
  <2>3. CASE \E r \in Runs, s \in Sessions \cup {None} : CancelWorkflow(r, s)
    BY <2>3, CancelWorkflowServes
  <2>4. CASE \E s \in Sessions : OpenAdmission(s)
    BY <2>4, OpenServes
  <2>5. CASE \E q \in Queriers, i \in Ids, block \in BOOLEAN : Query(q, i, block)
    BY <2>5, QueryServes
  <2> QED
    BY <1>1, <2>1, <2>2, <2>3, <2>4, <2>5, CancelServes, CompletionsServe DEF Commands
<1>2. CASE \/ \E i \in Ids : Started(i)
           \/ \E i \in Ids, cut \in SUBSET Ids : cut \subseteq {i} /\ FinishRun(i, cut)
  BY <1>2, RunServes
<1>3. CASE Timers
  BY <1>3, TimerServes DEF Timers
<1>4. CASE \E q \in Queriers : FinishProgress(q) \/ QuerierDrops(q)
  BY <1>4, QuerierServes
<1>5. CASE CloseMailbox
  <2>1. Now' = Now
    BY <1>5, SameNow DEF CloseMailbox
  <2> QED  BY <2>1
<1>6. CASE Exit \/ Abort
  BY <1>6, DropKeeps DEF Exit, Abort, Drop
<1>7. CASE \E i \in Ids : CallerDrops(i) \/ CancelToken(i)
  BY <1>7, CallerDropsServes, CancelTokenServes
<1> QED
  BY <1>1, <1>2, <1>3, <1>4, <1>5, <1>6, <1>7 DEF Next, Actor, Environment

\* Nothing happens once the actor is gone.
LEMMA ExitIsTheEnd ==
  ASSUME exited, Next
  PROVE  FALSE
<1>1. ASSUME Commands PROVE FALSE
  BY <1>1 DEF Commands, Spawn, Command, CancelOne, CancelPrompt, StopSession,
              CancelWorkflow, CancelLoop, Teardown, OpenAdmission, Completions, Query,
              Observe
<1>2. ASSUME Timers PROVE FALSE
  BY <1>2 DEF Timers, ProcessDeadlines
<1> QED
  BY <1>1, <1>2 DEF Next, Actor, Environment, Started, FinishRun, FinishProgress,
                    CloseMailbox, Exit, Abort, CallerDrops, CancelToken, QuerierDrops

\* The invariant is inductive.
LEMMA NextServes == IInv /\ [Next]_vars => IInv'
<1> SUFFICES ASSUME IInv, [Next]_vars PROVE IInv'
  OBVIOUS
<1>1. Good(Now)' /\ History'
  BY NextGood, HistoryStep DEF IInv
<1>2. CASE UNCHANGED vars
  <2>1. Now' = Now /\ exited' = exited
    BY <1>2, SameNow DEF vars
  <2> QED  BY <1>1, <2>1 DEF IInv
<1>3. CASE Next
  <2>1. ~exited
    BY <1>3, ExitIsTheEnd
  <2>2. Good(Now) /\ Sound(Now)
    BY <2>1 DEF IInv, Sound
  <2>3. Sound(Now)' \/ (Kept(Now)' /\ exited')
    BY <1>3, <2>2, StepServes
  <2> QED  BY <1>1, <2>3 DEF IInv, Sound
<1> QED  BY <1>2, <1>3

\* The inductive invariant holds in every reachable state.
THEOREM ServiceInvariance == Spec => []IInv
BY InitServes, NextServes, PTL DEF Spec

-----------------------------------------------------------------------------
(* What it gives.                                                          *)

\* The tables, flags, reply slots and parked responders of the coordinator
\* keep their types under every command, timer and drop.
THEOREM CoordinatorTypes == Spec => []TypeOK
<1>1. IInv => TypeOK
  <2> SUFFICES ASSUME IInv PROVE TypeOK
    OBVIOUS
  <2>1. Shape(Now) /\ Types(Now) /\ Quiet(Now) /\ History
    BY DEF IInv, Good, Safe, Kept
  <2> QED  BY <2>1 DEF TypeOK, Shape, Types, Quiet, History, Now, Watch
<1> QED  BY <1>1, ServiceInvariance, PTL

\* Nobody who called handle_spawn is forgotten: the reply of a caller that
\* waits is held for a live child, no reply is held for a caller that was
\* answered, and a turn waits for a child only while its reply is held or its
\* cancellation is under way.
THEOREM CallersAreServed == Spec => []CallersServed
<1>1. IInv => CallersServed
  BY DEF IInv, Serving, Served, CallersServed, Now
<1> QED  BY <1>1, ServiceInvariance, PTL

\* A parked delete, workflow cancel or blocking query has a child to wait for,
\* so the end of that child will resolve it (finish_child).
THEOREM NobodyParkedInVain == Spec => []ParkedHaveCause
<1>1. IInv => ParkedHaveCause
  <2> SUFFICES ASSUME IInv, ~exited PROVE ParkedHaveCause
    BY DEF ParkedHaveCause
  <2>1. Parked(Now) /\ Quiet(Now)
    BY DEF IInv, Serving, Kept
  <2> QED  BY <2>1 DEF Parked, Quiet, ParkedHaveCause, Now
<1> QED  BY <1>1, ServiceInvariance, PTL

\* No completion is dropped by accident or delivered twice, whatever callers
\* and waiters do between a child's end and its finish_child.
THEOREM CompletionsReachOne == Spec => []CompletionsDelivered
<1>1. IInv => CompletionsDelivered
  BY DEF IInv, Kept, Delivered, CompletionsDelivered, Now
<1> QED  BY <1>1, ServiceInvariance, PTL

\* While a delete waits, nothing of its session is in the completion buffer.
THEOREM DeleteStaysQuiet == Spec => []DeleteIsQuiet
<1>1. IInv => DeleteIsQuiet
  BY DEF IInv, Kept, Quiet, QuietAt, DeleteIsQuiet, Now
<1> QED  BY <1>1, ServiceInvariance, PTL

\* The loop may leave as soon as no future is left, without a look at the
\* queue or at who is parked: then there is nobody.
THEOREM ExitLeavesNobody == Spec => []ExitIsClean
<1>1. IInv => ExitIsClean
  <2> SUFFICES ASSUME IInv, ~exited, MayExit
               PROVE  /\ Queued(Now) = {} /\ reply = {} /\ drains = {} /\ wfWaits = {}
                      /\ \A q \in Queriers : watch[q] = Idle
    BY DEF ExitIsClean
  <2> DEFINE m == Now
  <2>1. /\ Good(m) /\ Types(m) /\ Quiet(m) /\ Served(m) /\ Parked(m)
        /\ m.reply = reply /\ m.drains = drains /\ m.wfWaits = wfWaits
        /\ m.watch = watch
    BY DEF IInv, Kept, Serving, Now
  <2>2. InFlight(m) = {} /\ \A q \in Queriers : m.watch[q].mode # "progress"
    BY DEF MayExit, Now
  <2> HIDE DEF m
  <2>3. Queued(m) = {}
    <3> SUFFICES ASSUME NEW i \in Queued(m) PROVE FALSE
      OBVIOUS
    <3>1. i \in Live(m) /\ m.parent[i] \in Keys
      BY <2>1, QueuedLive DEF Good, Safe, QueueOK
    <3>2. ~HasCapacity(m, m.parent[i])
      BY <2>1, <3>1 DEF Good, Safe, CapOK
    <3>3. Running(m, m.parent[i]) = {}
      BY <2>2 DEF Running
    <3> QED  BY <3>2, <3>3, FS_EmptySet, CoordinatorConstants DEF HasCapacity
  <2>4. Live(m) = {}
    BY <2>2, <2>3, LiveTables
  <2>5. m.reply = {}
    BY <2>1, <2>4 DEF Served
  <2>6. m.drains = {}
    BY <2>1, <2>4 DEF Parked, OfSession
  <2>7. m.wfWaits = {}
    BY <2>1, <2>2 DEF Parked, Outstanding
  <2>8. ASSUME NEW q \in Queriers PROVE m.watch[q] = Idle
    <3>1. m.watch[q].mode \in {"idle", "blocked", "closed", "progress"}
      BY <2>1 DEF Types, Watch
    <3> QED  BY <2>1, <2>2, <2>4, <3>1 DEF Parked
  <2> QED  BY <2>1, <2>3, <2>5, <2>6, <2>7, <2>8 DEF m
<1> QED  BY <1>1, ServiceInvariance, PTL

-----------------------------------------------------------------------------
(* First come, first served.                                               *)

\* Nothing that was queued starts.
NothingStarts == \A j \in Queued(Now) : phase'[j] # "pending"

\* A handler that puts nothing in flight that was queued.
LEMMA BecomesQuietly ==
  ASSUME NEW x, Becomes(x), InFlight(x) \cap Queued(Now) = {}
  PROVE  NothingStarts
<1> SUFFICES ASSUME NEW j \in Queued(Now), phase'[j] = "pending" PROVE FALSE
  BY DEF NothingStarts
<1>1. PICK old : phase' = [i \in Ids |-> IF i \in old THEN "evicted" ELSE x.phase[i]]
  BY DEF Becomes
<1>2. j \in Ids
  BY DEF Queued
<1>3. x.phase[j] = "pending"
  BY <1>1, <1>2
<1> QED  BY <1>2, <1>3 DEF InFlight, InFlightPhases

\* The reap and every cancellation end queued children and start none.
LEMMA ReapedInFlight ==
  ASSUME Good(Now), NEW m \in Reaped
  PROVE  InFlight(m) = InFlight(Now)
<1> DEFINE g == LetGo(Now)
<1>1. m = RemoveQueued(g, g.token)
  BY DEF Reaped
<1>2. /\ IsState(g) /\ g.phase = Now.phase /\ g.parent = Now.parent /\ g.run = Now.run
      /\ g.ticket = Now.ticket /\ g.arrivals = Now.arrivals
  BY DEF LetGo, Good, Safe, Shape, IsState, Fields
<1> HIDE DEF g
<1>3. Safe(g) /\ InFlight(g) = InFlight(Now)
  BY <1>2, SameTables DEF Good
<1> QED  BY <1>1, <1>3, Removed

\* A handler that leaves the tables alone before it cancels.
LEMMA CancelledInFlight ==
  ASSUME NEW m, NEW n, Safe(m), IsState(n),
         n.phase = m.phase, n.parent = m.parent, n.run = m.run,
         n.ticket = m.ticket, n.arrivals = m.arrivals, NEW ids
  PROVE  InFlight(Cancelled(n, ids)) = InFlight(m)
<1> DEFINE t == [n EXCEPT !.token = n.token \cup (ids \cap InFlight(n))]
<1>1. /\ IsState(t) /\ t.phase = n.phase /\ t.parent = n.parent /\ t.run = n.run
      /\ t.ticket = n.ticket /\ t.arrivals = n.arrivals
  BY DEF IsState, Fields
<1>2. Cancelled(n, ids) = RemoveQueued(t, ids)
  BY DEF Cancelled
<1> HIDE DEF t
<1>3. Safe(t) /\ InFlight(t) = InFlight(m)
  BY <1>1, SameTables
<1> QED  BY <1>2, <1>3, Removed

\* A new spawn starts itself at most; where the limit fails, nothing is queued.
LEMMA SpawnedInFlight ==
  ASSUME NEW m, Good(m), NEW i \in Ids, m.phase[i] = "unknown", NEW r \in Requests, NEW c
  PROVE  InFlight(Spawned(m, i, r, c)) \subseteq InFlight(m) \cup {i}
<1> DEFINE e == Entered(m, i, r, c, "pending")
           f == Entered(m, i, r, c, "queued")
<1>1. IsState(m) /\ Shape(m)
  BY DEF Good, Safe, Shape
<1>2. CASE SpawnRefused(m, r)
  <2> DEFINE n == [m EXCEPT !.phase[i] = "refused", !.caller[i] = "final"]
  <2>1. n.phase = [m.phase EXCEPT ![i] = "refused"]
    BY <1>1 DEF IsState, Fields
  <2>2. InFlight(n) \subseteq InFlight(m)
    BY <1>1, <2>1 DEF Shape, InFlight, InFlightPhases
  <2> QED  BY <1>2, <2>2 DEF Spawned
<1>3. CASE ~SpawnRefused(m, r)
  <2>1. /\ Shape(e) /\ InFlight(e) = InFlight(m) \cup {i} /\ Queued(e) = Queued(m)
        /\ InFlight(f) = InFlight(m)
    BY EnteredTables
  <2>2. ASSUME LimitBehavior # "Queue"
        PROVE  InFlight(Finished(e, {i}, {})) \subseteq InFlight(e)
    <3>1. Queued(e) = {}
      BY <2>1, <2>2, CoordinatorConstants DEF Good, Safe, QueueOK
    <3>2. InFlight(Finished(e, {i}, {}))
            = (InFlight(e) \ Done(e, {i})) \cup Starts(e, Done(e, {i}))
      BY <2>1, FinishedTables
    <3>3. Starts(e, Done(e, {i})) = {}
      BY <3>1 DEF Starts
    <3> QED  BY <3>2, <3>3
  <2> QED  BY <1>3, <2>1, <2>2 DEF Spawned
<1> QED  BY <1>2, <1>3

\* Commands start nothing that was queued.
LEMMA CommandsStartNothing ==
  ASSUME Good(Now), Commands
  PROVE  NothingStarts
<1>0. InFlight(Now) \cap Queued(Now) = {}
  BY Tables DEF Good, Safe
<1>1. ASSUME NEW m \in Reaped
      PROVE  /\ Good(m) /\ Safe(m) /\ IsState(m) /\ InFlight(m) = InFlight(Now)
  BY ReapedGood, ReapedInFlight DEF Good, Safe, Shape
<1>2. ASSUME NEW m \in Reaped, NEW x, Command(x), x.phase = m.phase
      PROVE  NothingStarts
  <2>1. InFlight(x) = InFlight(m)
    BY <1>2 DEF InFlight
  <2> QED  BY <1>0, <1>1, <1>2, <2>1, BecomesQuietly DEF Command
<1>3. ASSUME NEW m \in Reaped, NEW n, NEW ids, Command(Cancelled(n, ids)), IsState(n),
             n.phase = m.phase, n.parent = m.parent, n.run = m.run,
             n.ticket = m.ticket, n.arrivals = m.arrivals
      PROVE  NothingStarts
  <2>1. InFlight(Cancelled(n, ids)) = InFlight(m)
    BY <1>1, <1>3, CancelledInFlight
  <2> QED  BY <1>0, <1>1, <1>3, <2>1, BecomesQuietly DEF Command
<1>4. CASE \E i \in Ids, r \in Requests, c \in {"waiting", "gone"} : Spawn(i, r, c)
  <2>1. PICK i \in Ids, r \in Requests, c \in {"waiting", "gone"} : Spawn(i, r, c)
    BY <1>4
  <2>2. PICK m \in Reaped : Becomes(Spawned(m, i, r, c))
    BY <2>1 DEF Spawn
  <2>3. phase[i] = "unknown" /\ m.phase[i] = "unknown"
    BY <2>1, <2>2, ReapedGood DEF Spawn
  <2>4. InFlight(Spawned(m, i, r, c)) \subseteq InFlight(Now) \cup {i}
    BY <1>1, <2>2, <2>3, SpawnedInFlight
  <2>5. i \notin Queued(Now)
    BY <2>3 DEF Queued, Now
  <2> QED  BY <1>0, <2>2, <2>4, <2>5, BecomesQuietly
<1>5. CASE \E i \in Ids : CancelOne(i)
  <2>1. PICK m \in Reaped : \E k, ids : Command(Cancelled([m EXCEPT !.killed = k], ids))
    BY <1>5 DEF CancelOne
  <2> QED  BY <1>1, <1>3, <2>1 DEF IsState, Fields
<1>6. CASE \E p \in Prompts, s \in Sessions \cup {None} : CancelPrompt(p, s)
  <2>1. PICK m \in Reaped : \E ids : Command(Cancelled(m, ids))
    BY <1>6 DEF CancelPrompt
  <2> QED  BY <1>1, <1>3, <2>1
<1>7. CASE \E s \in Sessions : StopSession(s)
  <2>1. PICK m \in Reaped : \E b, ids : Command(Cancelled([m EXCEPT !.blocked = b], ids))
    BY <1>7 DEF StopSession
  <2> QED  BY <1>1, <1>3, <2>1 DEF IsState, Fields
<1>8. CASE \E l \in Loops, s \in Sessions \cup {None} : CancelLoop(l, s)
  <2>1. PICK m \in Reaped : \E k, u, ids :
          Command(Cancelled([m EXCEPT !.killed = k, !.muted = u], ids))
    BY <1>8 DEF CancelLoop
  <2> QED  BY <1>1, <1>3, <2>1 DEF IsState, Fields
<1>9. CASE \E s \in Sessions, responder \in BOOLEAN : Teardown(s, responder)
  <2>1. PICK m \in Reaped : \E u, v, ids, b, d :
          LET left == Cancelled([m EXCEPT !.muted = u, !.buffer = v], ids)
          IN  Command([left EXCEPT !.blocked = b, !.drains = d])
    BY <1>9 DEF Teardown
  <2>2. PICK u, v, ids, b, d :
          LET left == Cancelled([m EXCEPT !.muted = u, !.buffer = v], ids)
          IN  Command([left EXCEPT !.blocked = b, !.drains = d])
    BY <2>1
  <2> DEFINE n == [m EXCEPT !.muted = u, !.buffer = v]
             left == Cancelled(n, ids)
             x == [left EXCEPT !.blocked = b, !.drains = d]
  <2>3. /\ IsState(n) /\ n.phase = m.phase /\ n.parent = m.parent /\ n.run = m.run
        /\ n.ticket = m.ticket /\ n.arrivals = m.arrivals
    BY <1>1 DEF IsState, Fields
  <2>4. Command(x)
    BY <2>2
  <2> HIDE DEF n
  <2>5. Safe(n)
    BY <1>1, <2>3, SameTables
  <2>6. IsState(left) /\ InFlight(left) = InFlight(Now)
    BY <1>1, <2>3, <2>5, CancelledInFlight, CancelledIds DEF Safe, Shape
  <2> HIDE DEF left
  <2>7. x.phase = left.phase
    BY <2>6 DEF IsState, Fields
  <2> HIDE DEF x
  <2>8. InFlight(x) = InFlight(Now)
    BY <2>6, <2>7 DEF InFlight
  <2> QED  BY <1>0, <2>4, <2>8, BecomesQuietly DEF Command
<1>10. CASE \E r \in Runs, s \in Sessions \cup {None} : CancelWorkflow(r, s)
  <2>1. PICK m \in Reaped : \E t, w : Command([m EXCEPT !.token = t, !.wfWaits = w])
    BY <1>10 DEF CancelWorkflow
  <2> QED  BY <1>1, <1>2, <2>1 DEF IsState, Fields
<1>11. CASE \E s \in Sessions : OpenAdmission(s)
  <2>1. PICK m \in Reaped : \E b : Command([m EXCEPT !.blocked = b])
    BY <1>11 DEF OpenAdmission
  <2> QED  BY <1>1, <1>2, <2>1 DEF IsState, Fields
<1>12. CASE \E s \in Sessions \cup {None} : Completions(s)
  <2>1. PICK m \in Reaped : \E b : Command([m EXCEPT !.buffer = b])
    BY <1>12 DEF Completions
  <2> QED  BY <1>1, <1>2, <2>1 DEF IsState, Fields
<1>13. CASE \E q \in Queriers, i \in Ids, block \in BOOLEAN : Query(q, i, block)
  <2>1. PICK m \in Reaped : \E q \in Queriers : \E v : Command([m EXCEPT !.watch[q] = v])
    BY <1>13 DEF Query
  <2> QED  BY <1>1, <1>2, <2>1 DEF IsState, Fields
<1>14. CASE Observe
  BY <1>2, <1>14 DEF Observe
<1> QED
  BY <1>4, <1>5, <1>6, <1>7, <1>8, <1>9, <1>10, <1>11, <1>12, <1>13, <1>14 DEF Commands

\* Nor do timers.
LEMMA TimersStartNothing ==
  ASSUME Good(Now), Timers
  PROVE  NothingStarts
<1>0. PICK due, dueWaiters, dueDrains : \E m \in Reaped :
        Becomes(AnswerWaiters(HandOff(ReopenDrained(m, dueDrains), due), dueWaiters))
  BY DEF Timers, ProcessDeadlines
<1>1. PICK m \in Reaped :
        Becomes(AnswerWaiters(HandOff(ReopenDrained(m, dueDrains), due), dueWaiters))
  BY <1>0
<1> DEFINE a == ReopenDrained(m, dueDrains)
           b == HandOff(a, due)
           x == AnswerWaiters(b, dueWaiters)
<1>2. IsState(m) /\ InFlight(m) = InFlight(Now) /\ InFlight(Now) \cap Queued(Now) = {}
  BY <1>1, ReapedGood, ReapedInFlight, Tables DEF Good, Safe, Shape
<1>3. IsState(a) /\ a.phase = m.phase
  BY <1>2 DEF ReopenDrained, IsState, Fields
<1> HIDE DEF a
<1>4. IsState(b) /\ b.phase = a.phase
  BY <1>3 DEF HandOff, IsState, Fields
<1> HIDE DEF b
<1>5. x.phase = b.phase
  BY <1>4 DEF AnswerWaiters, IsState, Fields
<1>6. Becomes(x)
  BY <1>1 DEF a, b
<1> HIDE DEF x
<1>7. InFlight(x) = InFlight(Now)
  BY <1>2, <1>3, <1>4, <1>5 DEF InFlight
<1> QED  BY <1>2, <1>6, <1>7, BecomesQuietly

\* What NoOvertaking says of a step.
InOrder ==
  \A i, j \in Queued(Now) :
    parent[i] = parent[j] /\ ticket[i] < ticket[j] /\ phase'[j] = "pending"
      => phase'[i] # "queued"

\* The sweep at the end of a run starts the earliest arrivals of a session: who
\* is ahead of a spawn that starts has even fewer ahead of itself.
LEMMA FinishInOrder ==
  ASSUME Good(Now), NEW k \in Ids, NEW cut, FinishRun(k, cut)
  PROVE  InOrder
<1> SUFFICES ASSUME NEW i \in Queued(Now), NEW j \in Queued(Now), parent[i] = parent[j],
                    ticket[i] < ticket[j], phase'[j] = "pending", phase'[i] = "queued"
             PROVE  FALSE
  BY DEF InOrder
<1> DEFINE m == Now
           n == Finished(m, {k}, cut)
           done == Done(m, {k})
           starts == Starts(m, done)
<1>1. Becomes(n) /\ k \in InFlight(m) /\ Shape(m)
  BY DEF FinishRun, Good, Safe
<1>2. m.parent[i] = m.parent[j] /\ m.ticket[i] < m.ticket[j] /\ i \in Ids /\ j \in Ids
  BY DEF Now, Queued
<1>3. PICK old : phase' = [z \in Ids |-> IF z \in old THEN "evicted" ELSE n.phase[z]]
  BY <1>1 DEF Becomes
<1>4. n.phase[j] = "pending" /\ n.phase[i] = "queued"
  BY <1>2, <1>3
<1>5. i \in Queued(m) /\ j \in Queued(m)
  OBVIOUS
<1> HIDE DEF m
<1>6. /\ Queued(n) = (Queued(m) \ done) \ starts
      /\ InFlight(n) = (InFlight(m) \ done) \cup starts
      /\ Queued(m) \cap InFlight(m) = {}
      /\ \A S \in SUBSET Ids : IsFiniteSet(S) /\ Cardinality(S) \in Nat
  BY <1>1, FinishedTables, Tables
<1>7. j \in starts /\ i \in Queued(m) \ done /\ i \notin starts
  BY <1>2, <1>4, <1>5, <1>6 DEF Queued, InFlight, InFlightPhases
<1>8. /\ Ahead(m, done, i) \subseteq Ahead(m, done, j)
      /\ Ahead(m, done, j) \subseteq Ids
  BY <1>1, <1>2, <1>5 DEF Ahead, Queued, Shape
<1>9. Cardinality(Ahead(m, done, i)) <= Cardinality(Ahead(m, done, j))
  BY <1>6, <1>8, FS_Subset
<1>10. Running(m, m.parent[j]) \ done \in SUBSET Ids
  BY DEF Running, InFlight
<1>11. Cardinality(Running(m, m.parent[j]) \ done) + Cardinality(Ahead(m, done, j))
         < MaxConcurrent
  BY <1>7 DEF Starts
<1>12. Cardinality(Running(m, m.parent[i]) \ done) + Cardinality(Ahead(m, done, i))
         < MaxConcurrent
  <2>1. /\ Cardinality(Running(m, m.parent[j]) \ done) \in Nat
        /\ Cardinality(Ahead(m, done, i)) \in Nat /\ Cardinality(Ahead(m, done, j)) \in Nat
    BY <1>6, <1>8, <1>10
  <2> QED  BY <1>2, <1>9, <1>11, <2>1, CoordinatorConstants
<1>13. i \in starts
  BY <1>7, <1>12 DEF Starts
<1> QED  BY <1>7, <1>13

\* Every step serves the queue in order.
LEMMA NextInOrder ==
  ASSUME Good(Now), Next
  PROVE  InOrder
<1>1. CASE Commands \/ Timers
  BY <1>1, CommandsStartNothing, TimersStartNothing DEF NothingStarts, InOrder
<1>2. CASE \E i \in Ids : Started(i)
  <2>1. PICK i \in Ids : Started(i)
    BY <1>2
  <2> DEFINE m == Now
             n == [Now EXCEPT !.phase[i] = "active"]
  <2>2. Becomes(n) /\ m.phase[i] = "pending" /\ n.phase = [m.phase EXCEPT ![i] = "active"]
    BY <2>1 DEF Started, Now
  <2>3. Shape(m) /\ InFlight(Now) \cap Queued(Now) = {} /\ m = Now
    BY Tables DEF Good, Safe
  <2> HIDE DEF m, n
  <2>4. InFlight(n) = InFlight(m)
    BY <2>2, <2>3 DEF Shape, InFlight, InFlightPhases
  <2> QED  BY <2>2, <2>3, <2>4, BecomesQuietly DEF NothingStarts, InOrder
<1>3. CASE \E i \in Ids, cut \in SUBSET Ids : cut \subseteq {i} /\ FinishRun(i, cut)
  BY <1>3, FinishInOrder
<1>4. CASE \E q \in Queriers : FinishProgress(q)
  <2>1. PICK q \in Queriers : FinishProgress(q)
    BY <1>4
  <2> DEFINE n == [Now EXCEPT !.watch[q] = Idle]
  <2>2. Becomes(n) /\ n.phase = Now.phase
    BY <2>1 DEF FinishProgress, Now
  <2>3. InFlight(Now) \cap Queued(Now) = {}
    BY Tables DEF Good, Safe
  <2> HIDE DEF n
  <2>4. InFlight(n) = InFlight(Now)
    BY <2>2 DEF InFlight
  <2> QED  BY <2>2, <2>3, <2>4, BecomesQuietly DEF NothingStarts, InOrder
<1>5. CASE CloseMailbox \/ Environment
  <2>1. phase' = phase
    BY <1>5 DEF CloseMailbox, Environment, CallerDrops, CancelToken, QuerierDrops, tables
  <2> QED  BY <2>1 DEF InOrder, Queued, Now
<1>6. CASE Exit \/ Abort
  <2>1. phase' = [i \in Ids |-> IF i \in Queued(Now) THEN "evicted" ELSE phase[i]]
    BY <1>6 DEF Exit, Abort, Drop
  <2> QED  BY <2>1 DEF InOrder, Queued
<1> QED
  BY <1>1, <1>2, <1>3, <1>4, <1>5, <1>6 DEF Next, Actor

\* First come, first served within a session: no step starts a queued spawn
\* while an earlier one of its session stays queued.  Only the end of a run
\* starts queued spawns at all.
THEOREM FirstComeFirstServed == Spec => NoOvertaking
<1>1. IInv /\ [Next]_vars => [InOrder]_vars
  BY NextInOrder DEF IInv
<1>2. [InOrder]_vars =>
        [\A i, j \in Queued(Now) :
           parent[i] = parent[j] /\ ticket[i] < ticket[j] /\ phase'[j] = "pending"
             => phase'[i] # "queued"]_vars
  BY DEF InOrder
<1> QED
  BY <1>1, <1>2, ServiceInvariance, PTL DEF Spec, NoOvertaking
=============================================================================
