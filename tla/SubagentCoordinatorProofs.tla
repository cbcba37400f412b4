---------------------- MODULE SubagentCoordinatorProofs ----------------------
(***************************************************************************)
(* Proofs about the subagent coordinator: its admission limit and queue,   *)
(* and the user's Stop, for every set of ids, sessions and requests.       *)
(*                                                                         *)
(* A handler is a chain of functions on the actor's state, so the          *)
(* invariant is stated of such a state, `Good', and each function is shown *)
(* to preserve it; the actions are then compositions.                      *)
(***************************************************************************)
EXTENDS SubagentCoordinator, TLAPS, FiniteSetTheorems, WellFoundedInduction

Fields ==
  {"phase", "parent", "run", "loop", "kind", "ticket", "arrivals", "token",
   "killed", "muted", "reply", "handleOnly", "deadline", "caller", "watch",
   "buffer", "blocked", "drains", "wfWaits", "outcome"}

IsState(m) == DOMAIN m = Fields

Shape(m) ==
  /\ IsState(m)
  /\ m.phase \in [Ids -> Phases]
  /\ m.parent \in [Ids -> Keys \cup {None}]
  /\ m.run \in [Ids -> Runs \cup {None}]
  /\ m.ticket \in [Ids -> Nat]
  /\ m.arrivals \in Nat

\* Queued spawns are Task spawns with distinct arrival numbers, and exist
\* only where the limit queues.
QueueOK(m) ==
  /\ \A i \in Live(m) : m.parent[i] \in Keys
  /\ \A i \in Queued(m) : m.run[i] = None /\ m.ticket[i] <= m.arrivals
  /\ \A i, j \in Queued(m) : m.ticket[i] = m.ticket[j] => i = j
  /\ LimitBehavior = "Fail" => Queued(m) = {}

CapOK(m) ==
  \A s \in Keys :
    /\ Cardinality(Running(m, s)) <= MaxConcurrent
    /\ (\E i \in Queued(m) : m.parent[i] = s) => ~HasCapacity(m, s)

\* No Task child of s is queued and every one that runs was told to stop.
StopAt(m, s) ==
  \A i \in OfSession(m, s) \ Workflow(m) : i \in InFlight(m) \cap m.token
StopOK(m) == \A s \in m.blocked : StopAt(m, s)

\* The inductive invariant.
Safe(m) == Shape(m) /\ QueueOK(m) /\ CapOK(m)
Good(m) == Safe(m) /\ StopOK(m)

-----------------------------------------------------------------------------
(* Facts about sets and tables.                                            *)

\* A nonempty set of naturals has a least element.
LEMMA NatMin ==
  ASSUME NEW T \in SUBSET Nat, T # {}
  PROVE  \E x \in T : \A y \in T : x <= y
<1> DEFINE R == OpToRel(<, Nat)
<1>1. IsWellFoundedOn(R, Nat)
  BY NatLessThanWellFounded
<1>2. \A x, y \in Nat : <<y, x>> \in R <=> y < x
  BY DEF OpToRel
<1> HIDE DEF R
<1>3. \E x \in T : \A y \in T : ~ (<<y, x>> \in R)
  BY <1>1, WFMin
<1>4. PICK x \in T : \A y \in T : ~ (<<y, x>> \in R)
  BY <1>3
<1>5. ASSUME NEW y \in T PROVE x <= y
  <2>1. ~ (y < x)
    BY <1>2, <1>4
  <2> QED
    BY <2>1
<1> QED
  BY <1>5

\* The tables are finite and disjoint.
LEMMA Tables ==
  ASSUME NEW m, Shape(m)
  PROVE  /\ \A s : /\ IsFiniteSet(Running(m, s))
                   /\ Cardinality(Running(m, s)) \in Nat
                   /\ Running(m, s) \subseteq InFlight(m)
         /\ Queued(m) \cap InFlight(m) = {}
         /\ Queued(m) \subseteq Ids /\ InFlight(m) \subseteq Ids
         /\ \A S \in SUBSET Ids : IsFiniteSet(S) /\ Cardinality(S) \in Nat
<1>1. \A S \in SUBSET Ids : IsFiniteSet(S) /\ Cardinality(S) \in Nat
  BY CoordinatorConstants, FS_Subset, FS_CardinalityType
<1>2. \A s : Running(m, s) \subseteq InFlight(m) /\ Running(m, s) \subseteq Ids
  BY DEF Running, InFlight
<1> QED
  BY <1>1, <1>2 DEF Queued, InFlight, InFlightPhases

\* Queued children and children in flight are live.
LEMMA QueuedLive == \A m : Queued(m) \subseteq Live(m) /\ InFlight(m) \subseteq Live(m)
BY DEF Queued, InFlight, Live, LivePhases, InFlightPhases

\* The live children are the queued ones and those in flight.
LEMMA LiveTables ==
  ASSUME NEW m
  PROVE  Live(m) = Queued(m) \cup InFlight(m)
BY DEF Queued, InFlight, Live, LivePhases, InFlightPhases

\* A step that changes neither the queue nor who is in flight preserves the
\* limit, and the Stop if it only cancels tokens.
LEMMA Frame ==
  ASSUME NEW m, NEW n, Safe(m), Shape(n),
         Queued(n) = Queued(m), InFlight(n) = InFlight(m),
         n.parent = m.parent, n.run = m.run, n.ticket = m.ticket,
         n.arrivals = m.arrivals \/ Queued(m) = {}
  PROVE  /\ Safe(n)
         /\ Live(n) = Live(m) /\ Workflow(n) = Workflow(m)
         /\ \A s : OfSession(n, s) = OfSession(m, s)
         /\ m.token \subseteq n.token => \A s : StopAt(m, s) => StopAt(n, s)
<1>1. Live(n) = Live(m) /\ Workflow(n) = Workflow(m)
  BY LiveTables DEF Workflow
<1>2. \A s : /\ Running(n, s) = Running(m, s)
             /\ OfSession(n, s) = OfSession(m, s)
  BY <1>1 DEF Running, OfSession
<1>3. \A s : HasCapacity(n, s) <=> HasCapacity(m, s)
  BY <1>2 DEF HasCapacity
<1>4. QueueOK(n)
  BY <1>1 DEF Safe, QueueOK
<1>5. CapOK(n)
  BY <1>1, <1>2, <1>3 DEF Safe, CapOK
<1>6. m.token \subseteq n.token => \A s : StopAt(m, s) => StopAt(n, s)
  BY <1>1, <1>2 DEF StopAt
<1> QED
  BY <1>1, <1>2, <1>4, <1>5, <1>6 DEF Safe

\* In particular a handler that leaves the tables alone changes neither.
LEMMA SameTables ==
  ASSUME NEW m, NEW n, Safe(m), IsState(n),
         n.phase = m.phase, n.parent = m.parent, n.run = m.run,
         n.ticket = m.ticket, n.arrivals = m.arrivals
  PROVE  /\ Safe(n)
         /\ Queued(n) = Queued(m) /\ InFlight(n) = InFlight(m)
         /\ Live(n) = Live(m) /\ Workflow(n) = Workflow(m)
         /\ \A s : OfSession(n, s) = OfSession(m, s)
         /\ m.token \subseteq n.token => \A s : StopAt(m, s) => StopAt(n, s)
<1>1. Shape(n)
  BY DEF Safe, Shape
<1>2. Queued(n) = Queued(m) /\ InFlight(n) = InFlight(m)
  BY DEF Queued, InFlight
<1> QED
  BY <1>1, <1>2, Frame

\* A handler that leaves the tables alone, only cancels tokens and only
\* reopens sessions keeps the whole invariant.
LEMMA SameTablesGood ==
  ASSUME NEW m, NEW n, Good(m), IsState(n),
         n.phase = m.phase, n.parent = m.parent, n.run = m.run,
         n.ticket = m.ticket, n.arrivals = m.arrivals,
         m.token \subseteq n.token, n.blocked \subseteq m.blocked
  PROVE  Good(n)
BY SameTables DEF Good, StopOK

-----------------------------------------------------------------------------
(* finish_child and the sweep.                                             *)

\* finish_child leaves a state of the actor.
LEMMA FinishedIsState ==
  ASSUME NEW m, NEW over, NEW cut
  PROVE  IsState(Finished(m, over, cut))
BY DEF Finished, IsState, Fields

\* The ids a finish of `over' ends, and the Task spawns of s it starts.
Done(m, over) == over \cup (Queued(m) \cap m.token)
StartedIn(m, done, s) ==
  {i \in Starts(m, done) : m.parent[i] = s /\ m.run[i] = None}

\* The tables after a finish whose sweep starts the ids of `starts'.
LEMMA FinishedTables ==
  ASSUME NEW m, NEW over, NEW cut, Shape(m),
         over \subseteq Queued(m) \cup InFlight(m)
  PROVE  /\ Shape(Finished(m, over, cut))
         /\ Starts(m, Done(m, over)) \subseteq Queued(m) \ Done(m, over)
         /\ Queued(Finished(m, over, cut))
              = (Queued(m) \ Done(m, over)) \ Starts(m, Done(m, over))
         /\ InFlight(Finished(m, over, cut))
              = (InFlight(m) \ Done(m, over)) \cup Starts(m, Done(m, over))
         /\ Live(Finished(m, over, cut)) = Live(m) \ Done(m, over)
         /\ Workflow(Finished(m, over, cut)) = Workflow(m)
         /\ \A s : Running(Finished(m, over, cut), s)
                     = (Running(m, s) \ Done(m, over)) \cup StartedIn(m, Done(m, over), s)
<1> DEFINE n == Finished(m, over, cut)
           done == Done(m, over)
           starts == Starts(m, done)
<1>1. starts \subseteq Queued(m) \ done
  BY DEF Starts
<1>2. /\ n.phase = [i \in Ids |-> IF i \in done THEN "completed"
                                  ELSE IF i \in starts THEN "pending"
                                  ELSE m.phase[i]]
      /\ n.parent = m.parent /\ n.run = m.run
      /\ n.ticket = [i \in Ids |-> IF i \in done \cup starts THEN 0
                                   ELSE m.ticket[i]]
      /\ n.arrivals = m.arrivals /\ IsState(n)
  BY FinishedIsState DEF Finished, Done
<1> HIDE DEF n, done, starts
<1>3. Shape(n)
  <2>1. n.phase \in [Ids -> Phases]
    BY <1>2 DEF Shape, Phases, LivePhases
  <2>2. n.ticket \in [Ids -> Nat]
    BY <1>2 DEF Shape
  <2> QED
    BY <1>2, <2>1, <2>2 DEF Shape
<1>4. Queued(n) = (Queued(m) \ done) \ starts
  BY <1>2 DEF Queued, Shape
<1>5. InFlight(n) = (InFlight(m) \ done) \cup starts
  BY <1>1, <1>2 DEF Queued, InFlight, InFlightPhases
<1>6. Live(n) = Live(m) \ done
  BY <1>1, <1>2 DEF Queued, Live, LivePhases
<1>7. Workflow(n) = Workflow(m)
  BY <1>2 DEF Workflow
<1>8. ASSUME NEW s
      PROVE  Running(n, s) = (Running(m, s) \ done)
               \cup StartedIn(m, done, s)
  BY <1>1, <1>2, <1>5 DEF Running, StartedIn, starts
<1> QED
  BY <1>1, <1>3, <1>4, <1>5, <1>6, <1>7, <1>8 DEF n, done, starts

\* The sweep starts a spawn only where a running child just ended.
LEMMA NoSlotNoStart ==
  ASSUME NEW m, Safe(m), NEW done \in SUBSET Ids, NEW i \in Starts(m, done)
  PROVE  Running(m, m.parent[i]) \cap done # {}
<1> SUFFICES ASSUME Running(m, m.parent[i]) \cap done = {}
             PROVE  FALSE
  OBVIOUS
<1> DEFINE s == m.parent[i]
<1>1. i \in Queued(m) /\ Running(m, s) \ done = Running(m, s)
  BY DEF Starts
<1>2. s \in Keys /\ ~HasCapacity(m, s)
  BY <1>1, QueuedLive DEF Safe, QueueOK, CapOK
<1>3. Cardinality(Running(m, s)) + Cardinality(Ahead(m, done, i)) < MaxConcurrent
  BY <1>1 DEF Starts
<1>4. Ahead(m, done, i) \subseteq Ids
  BY DEF Ahead, Queued
<1>5. Cardinality(Running(m, s)) \in Nat /\ Cardinality(Ahead(m, done, i)) \in Nat
  BY <1>4, Tables DEF Safe
<1> QED
  BY <1>2, <1>3, <1>5, CoordinatorConstants DEF HasCapacity

\* Nor does a finish disturb the queue's order.
LEMMA FinishedQueue ==
  ASSUME NEW m, NEW over, NEW cut, Safe(m),
         over \subseteq Queued(m) \cup InFlight(m)
  PROVE  QueueOK(Finished(m, over, cut))
<1> DEFINE n == Finished(m, over, cut)
           done == Done(m, over)
           starts == Starts(m, done)
<1>1. Shape(m)
  BY DEF Safe
<1>2. /\ n.parent = m.parent /\ n.run = m.run
      /\ n.ticket = [i \in Ids |-> IF i \in done \cup starts THEN 0 ELSE m.ticket[i]]
      /\ n.arrivals = m.arrivals
  BY DEF Finished, Done
<1>3. /\ starts \subseteq Queued(m) \ done
      /\ Queued(n) = (Queued(m) \ done) \ starts
      /\ InFlight(n) = (InFlight(m) \ done) \cup starts
      /\ Live(n) = Live(m) \ done
      /\ Workflow(n) = Workflow(m)
  BY <1>1, FinishedTables
<1> HIDE DEF n, done, starts
<1>4. \A i \in Queued(n) : i \in Queued(m) /\ i \in Ids /\ n.ticket[i] = m.ticket[i]
  BY <1>2, <1>3 DEF Queued
<1>5. QueueOK(n)
  BY <1>2, <1>3, <1>4 DEF QueueOK, Safe
<1> QED
  BY <1>5 DEF n

\* A session that was stopped stays stopped, whatever ends.
LEMMA FinishedStop ==
  ASSUME NEW m, NEW over, NEW cut, Shape(m),
         over \subseteq Queued(m) \cup InFlight(m)
  PROVE  /\ \A s : StopAt(m, s) => StopAt(Finished(m, over, cut), s)
         /\ Finished(m, over, cut).blocked \subseteq m.blocked
<1> DEFINE n == Finished(m, over, cut)
           done == Done(m, over)
           starts == Starts(m, done)
<1>1. /\ n.parent = m.parent
      /\ n.token = m.token \ done
      /\ n.blocked \subseteq m.blocked
  BY DEF Finished, Done
<1>2. /\ starts \subseteq Queued(m) \ done
      /\ Queued(n) = (Queued(m) \ done) \ starts
      /\ InFlight(n) = (InFlight(m) \ done) \cup starts
      /\ Live(n) = Live(m) \ done
      /\ Workflow(n) = Workflow(m)
  BY FinishedTables
<1> HIDE DEF n, done, starts
<1>3. ASSUME NEW s, StopAt(m, s) PROVE StopAt(n, s)
  <2> SUFFICES ASSUME NEW i \in OfSession(n, s) \ Workflow(n)
               PROVE  i \in InFlight(n) \cap n.token
    BY DEF StopAt
  <2>1. i \in OfSession(m, s) \ Workflow(m) /\ i \notin done
    BY <1>1, <1>2 DEF OfSession
  <2>2. i \in InFlight(m) \cap m.token
    BY <1>3, <2>1 DEF StopAt
  <2> QED
    BY <1>1, <1>2, <2>1, <2>2
<1> QED
  BY <1>1, <1>3 DEF n

\* remove_queued: only queued spawns end, and nothing starts.
LEMMA FinishedQueued ==
  ASSUME NEW m, NEW over, NEW cut, Safe(m), over \subseteq Queued(m)
  PROVE  /\ Safe(Finished(m, over, cut))
         /\ Live(Finished(m, over, cut)) \subseteq Live(m) \ over
         /\ InFlight(Finished(m, over, cut)) = InFlight(m)
<1> DEFINE n == Finished(m, over, cut)
           done == Done(m, over)
           starts == Starts(m, done)
<1>1. Shape(m) /\ done \subseteq Queued(m) /\ done \subseteq Ids
  BY DEF Safe, Queued, Done
<1>2. starts = {}
  <2> SUFFICES ASSUME NEW i \in starts PROVE FALSE
    OBVIOUS
  <2>1. Running(m, m.parent[i]) \cap done # {}
    BY <1>1, NoSlotNoStart
  <2> QED
    BY <1>1, <2>1, Tables
<1>3. /\ Shape(n)
      /\ Queued(n) = (Queued(m) \ done) \ starts
      /\ InFlight(n) = (InFlight(m) \ done) \cup starts
      /\ Live(n) = Live(m) \ done
      /\ \A s : Running(n, s) = (Running(m, s) \ done)
                  \cup StartedIn(m, done, s)
  BY <1>1, FinishedTables
<1>4. n.parent = m.parent
  BY DEF Finished
<1>5. QueueOK(n)
  BY FinishedQueue
<1> HIDE DEF n, starts
<1>6. \A s : Running(n, s) = Running(m, s)
  BY <1>1, <1>2, <1>3, Tables DEF StartedIn, starts
<1>7. InFlight(n) = InFlight(m)
  BY <1>1, <1>2, <1>3, Tables
<1>8. CapOK(n)
  BY <1>2, <1>3, <1>4, <1>6 DEF CapOK, Safe, HasCapacity
<1> QED
  BY <1>3, <1>5, <1>7, <1>8 DEF n, done, Safe, Done

(***************************************************************************)
(* The end of a run.  If the session of the run has a queue, it was at the *)
(* limit: the sweep starts the earliest arrival and no other, so that it   *)
(* is at the limit again.                                                  *)
(***************************************************************************)
LEMMA FinishedRun ==
  ASSUME NEW m, NEW k, NEW cut, Safe(m), k \in InFlight(m)
  PROVE  Safe(Finished(m, {k}, cut))
<1> DEFINE n == Finished(m, {k}, cut)
           done == Done(m, {k})
           starts == Starts(m, done)
<1>1. /\ Shape(m) /\ done \subseteq Ids
      /\ Queued(m) \cap InFlight(m) = {}
  BY Tables DEF Safe, Done
<1>2. /\ Shape(n)
      /\ starts \subseteq Queued(m) \ done
      /\ Queued(n) = (Queued(m) \ done) \ starts
      /\ \A s : Running(n, s) = (Running(m, s) \ done)
                  \cup StartedIn(m, done, s)
  BY <1>1, FinishedTables
<1>3. n.parent = m.parent
  BY DEF Finished
<1>4. QueueOK(n)
  BY FinishedQueue
<1>5. \A i \in starts : Running(m, m.parent[i]) \cap done # {}
  BY <1>1, NoSlotNoStart
<1>6. \A i \in Queued(m) \ done :
        i \in starts <=> Cardinality(Running(m, m.parent[i]) \ done)
                           + Cardinality(Ahead(m, done, i)) < MaxConcurrent
  BY DEF Starts
<1>7. \A s : Running(m, s) \cap done \subseteq {k}
  BY <1>1, Tables DEF Done
<1> HIDE DEF n, done, starts
<1>8. CapOK(n)
  <2> SUFFICES ASSUME NEW s \in Keys
               PROVE  /\ Cardinality(Running(n, s)) <= MaxConcurrent
                      /\ (\E i \in Queued(n) : n.parent[i] = s) => ~HasCapacity(n, s)
    BY DEF CapOK
  <2> DEFINE R == Running(m, s)
             S == StartedIn(m, done, s)
  <2>1. Running(n, s) = (R \ done) \cup S
    BY <1>2
  <2>2. /\ IsFiniteSet(R) /\ Cardinality(R) \in Nat
        /\ Cardinality(R) <= MaxConcurrent
        /\ (\E i \in Queued(m) : m.parent[i] = s) => Cardinality(R) = MaxConcurrent
    <3>1. IsFiniteSet(R) /\ Cardinality(R) \in Nat
      BY <1>1, Tables
    <3> QED
      BY <3>1, CoordinatorConstants DEF Safe, CapOK, HasCapacity
  <2>3. \A i \in starts : i \in Queued(m) /\ m.run[i] = None
    BY <1>2 DEF Safe, QueueOK
  <2>4. CASE R \cap done = {}
    <3>1. S = {}
      BY <1>5, <2>4 DEF StartedIn, starts
    <3>2. Running(n, s) = R
      BY <2>1, <2>4, <3>1
    <3> QED
      BY <1>2, <1>3, <2>2, <3>2, CoordinatorConstants DEF HasCapacity
  <2>5. CASE R \cap done # {}
    <3> DEFINE Q == R \ {k}
    <3>1. k \in R /\ R \ done = Q
      BY <1>7, <2>5
    <3>2. IsFiniteSet(Q) /\ Cardinality(Q) = Cardinality(R) - 1
      BY <2>2, <3>1, FS_RemoveElement
    <3>3. \A i \in Queued(m) \ done : m.parent[i] = s =>
            /\ Cardinality(Q) = MaxConcurrent - 1
            /\ i \in starts <=> Ahead(m, done, i) = {}
      <4> SUFFICES ASSUME NEW i \in Queued(m) \ done, m.parent[i] = s
                   PROVE  /\ Cardinality(Q) = MaxConcurrent - 1
                          /\ i \in starts <=> Ahead(m, done, i) = {}
        OBVIOUS
      <4>1. Cardinality(Q) = MaxConcurrent - 1
        BY <2>2, <3>2
      <4>2. IsFiniteSet(Ahead(m, done, i)) /\ Cardinality(Ahead(m, done, i)) \in Nat
        BY <1>1, Tables DEF Ahead
      <4>3. Cardinality(Ahead(m, done, i)) = 0 <=> Ahead(m, done, i) = {}
        BY <4>2, FS_EmptySet
      <4>4. i \in starts <=> Cardinality(Q) + Cardinality(Ahead(m, done, i)) < MaxConcurrent
        BY <1>6, <3>1
      <4> QED
        BY <4>1, <4>2, <4>3, <4>4, CoordinatorConstants
    <3>4. \A i, j \in S : i = j
      <4> SUFFICES ASSUME NEW i \in S, NEW j \in S, i # j
                   PROVE  FALSE
        OBVIOUS
      <4>1. /\ i \in Queued(m) \ done /\ j \in Queued(m) \ done
            /\ m.parent[i] = s /\ m.parent[j] = s
        BY <1>2 DEF StartedIn, starts
      <4>2. Ahead(m, done, i) = {} /\ Ahead(m, done, j) = {}
        BY <3>3, <4>1 DEF StartedIn, starts
      <4>3. m.ticket[i] \in Nat /\ m.ticket[j] \in Nat /\ m.ticket[i] # m.ticket[j]
        BY <1>1, <4>1 DEF Safe, Shape, QueueOK, Queued
      <4>4. m.ticket[i] < m.ticket[j] \/ m.ticket[j] < m.ticket[i]
        BY <4>3
      <4> QED
        BY <4>1, <4>2, <4>4 DEF Ahead
    <3>5. Q \cap S = {}
      BY <1>1, <2>3, Tables DEF StartedIn, starts
    <3>6. CASE S = {}
      <4>1. Running(n, s) = Q
        BY <2>1, <3>1, <3>6
      <4>2. \A i \in Queued(m) \ done : m.parent[i] # s
        <5> SUFFICES ASSUME NEW i \in Queued(m) \ done, m.parent[i] = s
                     PROVE  FALSE
          OBVIOUS
        <5> DEFINE W == {j \in Queued(m) \ done : m.parent[j] = s}
                   T == {m.ticket[j] : j \in W}
        <5>1. T \in SUBSET Nat /\ T # {}
          BY <1>1 DEF Shape, Queued
        <5>2. PICK t \in T : \A u \in T : t <= u
          BY <5>1, NatMin
        <5>3. PICK j \in W : m.ticket[j] = t
          BY <5>2
        <5>4. Ahead(m, done, j) = {}
          <6> SUFFICES ASSUME NEW x \in Ahead(m, done, j) PROVE FALSE
            OBVIOUS
          <6>1. x \in W /\ m.ticket[x] < m.ticket[j]
            BY <5>3 DEF Ahead
          <6>2. m.ticket[j] <= m.ticket[x] /\ m.ticket[x] \in Nat /\ m.ticket[j] \in Nat
            BY <5>1, <5>2, <5>3, <6>1
          <6> QED
            BY <6>1, <6>2
        <5>5. j \in S
          BY <2>3, <3>3, <5>3, <5>4 DEF StartedIn, starts
        <5> QED
          BY <3>6, <5>5
      <4> QED
        BY <1>2, <1>3, <2>2, <3>2, <4>1, <4>2, CoordinatorConstants
    <3>7. CASE S # {}
      <4>1. PICK j \in S : TRUE
        BY <3>7
      <4>2. S = {j} /\ j \notin Q
        BY <3>4, <3>5, <4>1
      <4>3. Cardinality(Q \cup {j}) = Cardinality(Q) + 1
        BY <3>2, <4>2, FS_AddElement
      <4>4. Running(n, s) = Q \cup {j}
        BY <2>1, <3>1, <4>2
      <4>5. Cardinality(Q) = MaxConcurrent - 1
        BY <1>2, <3>3, <4>1 DEF StartedIn, starts
      <4> QED
        BY <4>3, <4>4, <4>5, CoordinatorConstants DEF HasCapacity
    <3> QED
      BY <3>6, <3>7
  <2> QED
    BY <2>4, <2>5
<1> QED
  BY <1>2, <1>4, <1>8 DEF n, Safe

-----------------------------------------------------------------------------
(* handle_spawn                                                            *)

\* The session and the owner a spawn is given.
LEMMA SpawnTypes ==
  ASSUME NEW m, Good(m), NEW r \in Requests
  PROVE  RootParent(m, r) \in Keys /\ OwnerRun(m, r) \in Runs \cup {None}
<1>1. r.parent \in Keys /\ r.run \in Runs \cup {None}
  BY CoordinatorConstants DEF RequestShape, Keys
<1>2. Nested(m, r) => r.parent \in Live(m)
  BY DEF Nested, Live, LivePhases
<1>3. Nested(m, r) => m.parent[r.parent] \in Keys
  BY <1>2 DEF Good, Safe, QueueOK
<1>4. Nested(m, r) => m.run[r.parent] \in Runs \cup {None}
  BY DEF Nested, Good, Safe, Shape
<1> QED
  BY <1>1, <1>3, <1>4 DEF RootParent, OwnerRun

\* The tables with a new entry.
LEMMA EnteredTables ==
  ASSUME NEW m, Good(m), NEW i \in Ids, m.phase[i] = "unknown",
         NEW r \in Requests, NEW c, NEW table \in {"queued", "pending"},
         NEW n, n = Entered(m, i, r, c, table)
  PROVE  /\ Shape(n)
         /\ i \notin Live(m)
         /\ Live(n) = Live(m) \cup {i}
         /\ Queued(n) = Queued(m) \cup (IF table = "queued" THEN {i} ELSE {})
         /\ InFlight(n) = InFlight(m) \cup (IF table = "pending" THEN {i} ELSE {})
         /\ n.parent[i] = RootParent(m, r) /\ n.run[i] = OwnerRun(m, r)
         /\ \A j \in Ids \ {i} : /\ n.parent[j] = m.parent[j]
                                 /\ n.run[j] = m.run[j]
                                 /\ n.ticket[j] = m.ticket[j]
         /\ table = "queued" => n.ticket[i] = m.arrivals + 1
         /\ n.arrivals = IF table = "queued" THEN m.arrivals + 1 ELSE m.arrivals
         /\ m.token \subseteq n.token /\ n.blocked = m.blocked
<1>1. Shape(m) /\ IsState(m)
  BY DEF Good, Safe, Shape
<1>2. IsState(n)
  BY <1>1 DEF Entered, IsState, Fields
<1>3. /\ n.phase = [m.phase EXCEPT ![i] = table]
      /\ n.parent = [m.parent EXCEPT ![i] = RootParent(m, r)]
      /\ n.run = [m.run EXCEPT ![i] = OwnerRun(m, r)]
      /\ n.ticket = [m.ticket EXCEPT ![i] = IF table = "queued"
                                            THEN m.arrivals + 1 ELSE 0]
      /\ n.arrivals = IF table = "queued" THEN m.arrivals + 1 ELSE m.arrivals
      /\ n.blocked = m.blocked
  BY <1>1 DEF Entered, NextTicket, IsState, Fields
<1>4. m.token \subseteq n.token
  BY <1>1 DEF Entered, IsState, Fields
<1>5. Shape(n)
  <2>1. n.phase \in [Ids -> Phases]
    BY <1>1, <1>3 DEF Shape, Phases, LivePhases
  <2>2. n.parent \in [Ids -> Keys \cup {None}] /\ n.run \in [Ids -> Runs \cup {None}]
    BY <1>1, <1>3, SpawnTypes DEF Shape
  <2>3. n.ticket \in [Ids -> Nat] /\ n.arrivals \in Nat
    BY <1>1, <1>3 DEF Shape
  <2> QED
    BY <1>2, <2>1, <2>2, <2>3 DEF Shape
<1>6. i \notin Live(m)
  BY DEF Live, LivePhases
<1>7. /\ Live(n) = Live(m) \cup {i}
      /\ Queued(n) = Queued(m) \cup (IF table = "queued" THEN {i} ELSE {})
      /\ InFlight(n) = InFlight(m) \cup (IF table = "pending" THEN {i} ELSE {})
  BY <1>1, <1>3 DEF Shape, Live, Queued, InFlight, LivePhases, InFlightPhases
<1> QED
  BY <1>1, <1>3, <1>4, <1>5, <1>6, <1>7 DEF Shape

\* A spawn admitted at once.
LEMMA EnteredStarts ==
  ASSUME NEW m, Good(m), NEW i \in Ids, m.phase[i] = "unknown",
         NEW r \in Requests, NEW c, ~SpawnRefused(m, r), StartsNow(m, r)
  PROVE  Good(Entered(m, i, r, c, "pending"))
<1> DEFINE n == Entered(m, i, r, c, "pending")
           p == RootParent(m, r)
           w == OwnerRun(m, r)
<1>1. /\ Shape(n) /\ i \notin Live(m)
      /\ Live(n) = Live(m) \cup {i}
      /\ Queued(n) = Queued(m)
      /\ InFlight(n) = InFlight(m) \cup {i}
      /\ n.parent[i] = p /\ n.run[i] = w
      /\ \A j \in Ids \ {i} : /\ n.parent[j] = m.parent[j]
                              /\ n.run[j] = m.run[j]
                              /\ n.ticket[j] = m.ticket[j]
      /\ n.arrivals = m.arrivals
      /\ m.token \subseteq n.token /\ n.blocked = m.blocked
  BY EnteredTables
<1>2. p \in Keys /\ w \in Runs \cup {None}
  BY SpawnTypes
<1>3. Shape(m) /\ i \notin Queued(m) /\ i \notin InFlight(m)
  BY <1>1, QueuedLive DEF Good, Safe
<1>4. w = None => HasCapacity(m, p) /\ p \notin m.blocked
  BY DEF SpawnRefused, StartsNow
<1> HIDE DEF n, p, w
<1>5. QueueOK(n)
  <2>1. \A j \in Live(n) : n.parent[j] \in Keys
    BY <1>1, <1>2 DEF Good, Safe, QueueOK, Live
  <2>2. \A j \in Queued(n) : j \in Ids \ {i}
    BY <1>1, <1>3 DEF Queued
  <2> QED
    BY <1>1, <2>1, <2>2 DEF Good, Safe, QueueOK
<1>6. CapOK(n)
  <2> SUFFICES ASSUME NEW s \in Keys
               PROVE  /\ Cardinality(Running(n, s)) <= MaxConcurrent
                      /\ (\E j \in Queued(n) : n.parent[j] = s) => ~HasCapacity(n, s)
    BY DEF CapOK
  <2>1. Running(n, s) = IF p = s /\ w = None THEN Running(m, s) \cup {i}
                        ELSE Running(m, s)
    BY <1>1, <1>3 DEF Running, InFlight
  <2>2. /\ IsFiniteSet(Running(m, s)) /\ Cardinality(Running(m, s)) \in Nat
        /\ i \notin Running(m, s)
    BY <1>3, Tables
  <2>3. \A j \in Queued(n) : j \in Queued(m) /\ n.parent[j] = m.parent[j]
    BY <1>1, <1>3 DEF Queued
  <2>4. CASE p = s /\ w = None
    <3>1. Cardinality(Running(n, s)) = Cardinality(Running(m, s)) + 1
      BY <2>1, <2>2, <2>4, FS_AddElement
    <3>2. Cardinality(Running(m, s)) < MaxConcurrent
      BY <1>4, <2>4 DEF HasCapacity
    <3>3. \A j \in Queued(n) : n.parent[j] # s
      BY <1>4, <2>3, <2>4 DEF Good, Safe, CapOK
    <3> QED
      BY <2>2, <3>1, <3>2, <3>3, CoordinatorConstants
  <2>5. CASE ~(p = s /\ w = None)
    <3>1. Running(n, s) = Running(m, s)
      BY <2>1, <2>5
    <3> QED
      BY <2>3, <3>1 DEF Good, Safe, CapOK, HasCapacity
  <2> QED
    BY <2>4, <2>5
<1>7. StopOK(n)
  <2> SUFFICES ASSUME NEW s \in n.blocked, NEW j \in OfSession(n, s) \ Workflow(n)
               PROVE  j \in InFlight(n) \cap n.token
    BY DEF StopOK, StopAt
  <2>1. j # i
    BY <1>1, <1>4 DEF OfSession, Workflow
  <2>2. j \in OfSession(m, s) \ Workflow(m)
    BY <1>1, <2>1 DEF OfSession, Workflow, Live
  <2> QED
    BY <1>1, <2>2 DEF Good, Safe, StopOK, StopAt
<1> QED
  BY <1>1, <1>5, <1>6, <1>7 DEF Good, Safe, n

\* A spawn that joins the queue: its session is at the limit and not stopped.
LEMMA EnteredQueues ==
  ASSUME NEW m, Good(m), NEW i \in Ids, m.phase[i] = "unknown",
         NEW r \in Requests, NEW c, ~SpawnRefused(m, r), ~StartsNow(m, r),
         LimitBehavior = "Queue"
  PROVE  Good(Entered(m, i, r, c, "queued"))
<1> DEFINE n == Entered(m, i, r, c, "queued")
           p == RootParent(m, r)
           w == OwnerRun(m, r)
<1>1. /\ Shape(n) /\ i \notin Live(m)
      /\ Live(n) = Live(m) \cup {i}
      /\ Queued(n) = Queued(m) \cup {i}
      /\ InFlight(n) = InFlight(m)
      /\ n.parent[i] = p /\ n.run[i] = w
      /\ \A j \in Ids \ {i} : /\ n.parent[j] = m.parent[j]
                              /\ n.run[j] = m.run[j]
                              /\ n.ticket[j] = m.ticket[j]
      /\ n.ticket[i] = m.arrivals + 1
      /\ n.arrivals = m.arrivals + 1
      /\ m.token \subseteq n.token /\ n.blocked = m.blocked
  BY EnteredTables
<1>2. p \in Keys
  BY SpawnTypes
<1>3. Shape(m) /\ i \notin Queued(m) /\ i \notin InFlight(m)
  BY <1>1, QueuedLive DEF Good, Safe
<1>4. w = None /\ ~HasCapacity(m, p) /\ p \notin m.blocked
  BY DEF SpawnRefused, StartsNow
<1> HIDE DEF n, p, w
<1>5. QueueOK(n)
  <2>1. \A j \in Live(n) : n.parent[j] \in Keys
    BY <1>1, <1>2 DEF Good, Safe, QueueOK, Live
  <2>2. m.arrivals \in Nat
    BY DEF Good, Safe, Shape
  <2>3. \A j \in Queued(m) : /\ j \in Ids \ {i}
                             /\ n.run[j] = None
                             /\ n.ticket[j] \in Nat
                             /\ n.ticket[j] = m.ticket[j]
                             /\ n.ticket[j] <= m.arrivals
    BY <1>1, <1>3 DEF Good, Safe, QueueOK, Queued, Shape
  <2>4. \A j \in Queued(n) : n.run[j] = None /\ n.ticket[j] <= n.arrivals
    BY <1>1, <1>4, <2>2, <2>3
  <2>5. \A j, k \in Queued(n) : n.ticket[j] = n.ticket[k] => j = k
    BY <1>1, <2>2, <2>3 DEF Good, Safe, QueueOK
  <2> QED
    BY <2>1, <2>4, <2>5 DEF QueueOK
<1>6. CapOK(n)
  <2>1. \A s : Running(n, s) = Running(m, s)
    BY <1>1, <1>3 DEF Running, InFlight
  <2>2. \A s : HasCapacity(n, s) <=> HasCapacity(m, s)
    BY <2>1 DEF HasCapacity
  <2>3. \A j \in Queued(n) \ {i} : j \in Queued(m) /\ n.parent[j] = m.parent[j]
    BY <1>1 DEF Queued
  <2> QED
    BY <1>1, <1>4, <2>1, <2>2, <2>3 DEF Good, Safe, CapOK
<1>7. StopOK(n)
  <2> SUFFICES ASSUME NEW s \in n.blocked, NEW j \in OfSession(n, s) \ Workflow(n)
               PROVE  j \in InFlight(n) \cap n.token
    BY DEF StopOK, StopAt
  <2>1. j # i
    BY <1>1, <1>4 DEF OfSession
  <2>2. j \in OfSession(m, s) \ Workflow(m)
    BY <1>1, <2>1 DEF OfSession, Workflow, Live
  <2> QED
    BY <1>1, <2>2 DEF Good, Safe, StopOK, StopAt
<1> QED
  BY <1>1, <1>5, <1>6, <1>7 DEF Good, Safe, n

\* A spawn that fails at the limit: it is entered and ends at once.
LEMMA EnteredFails ==
  ASSUME NEW m, Good(m), NEW i \in Ids, m.phase[i] = "unknown",
         NEW r \in Requests, NEW c, LimitBehavior = "Fail"
  PROVE  Good(Finished(Entered(m, i, r, c, "pending"), {i}, {}))
<1> DEFINE e == Entered(m, i, r, c, "pending")
           n == Finished(e, {i}, {})
           done == Done(e, {i})
           starts == Starts(e, done)
<1>1. /\ Shape(e) /\ i \notin Live(m)
      /\ Live(e) = Live(m) \cup {i}
      /\ Queued(e) = Queued(m)
      /\ InFlight(e) = InFlight(m) \cup {i}
      /\ \A j \in Ids \ {i} : /\ e.parent[j] = m.parent[j]
                              /\ e.run[j] = m.run[j]
                              /\ e.ticket[j] = m.ticket[j]
      /\ m.token \subseteq e.token /\ e.blocked = m.blocked
  BY EnteredTables
<1>2. Queued(m) = {} /\ Shape(m) /\ i \notin InFlight(m)
  BY <1>1, QueuedLive DEF Good, Safe, QueueOK
<1>3. done = {i}
  BY <1>1, <1>2 DEF Done
<1>4. /\ Shape(n)
      /\ starts \subseteq Queued(e) \ done
      /\ Queued(n) = (Queued(e) \ done) \ starts
      /\ InFlight(n) = (InFlight(e) \ done) \cup starts
      /\ Live(n) = Live(e) \ done
      /\ Workflow(n) = Workflow(e)
      /\ \A s : Running(n, s) = (Running(e, s) \ done)
                  \cup StartedIn(e, done, s)
  <2>1. Shape(e) /\ {i} \subseteq Queued(e) \cup InFlight(e)
    BY <1>1
  <2> HIDE DEF e
  <2> QED
    BY <2>1, FinishedTables, ZenonT(60)
<1>5. /\ n.parent = e.parent /\ n.run = e.run
      /\ n.token = e.token \ done
      /\ n.blocked \subseteq e.blocked
  BY DEF Finished, Done
<1> HIDE DEF e, n, done, starts
<1>6. starts = {} /\ Queued(n) = {} /\ Live(n) = Live(m) /\ InFlight(n) = InFlight(m)
  BY <1>1, <1>2, <1>3, <1>4
<1>7. QueueOK(n)
  <2>1. \A j \in Live(n) : n.parent[j] \in Keys
    BY <1>1, <1>5, <1>6 DEF Good, Safe, QueueOK, Live
  <2> QED
    BY <1>6, <2>1 DEF QueueOK
<1>8. CapOK(n)
  <2>1. \A s : Running(n, s) = Running(m, s)
    BY <1>1, <1>2, <1>5, <1>6 DEF Running, InFlight
  <2> QED
    BY <1>6, <2>1 DEF Good, Safe, CapOK
<1>9. StopOK(n)
  <2> SUFFICES ASSUME NEW s \in n.blocked, NEW j \in OfSession(n, s) \ Workflow(n)
               PROVE  j \in InFlight(n) \cap n.token
    BY DEF StopOK, StopAt
  <2>1. j # i /\ j \in Live(m) /\ j \in Ids
    BY <1>1, <1>6 DEF OfSession, Live
  <2>2. j \in OfSession(m, s) \ Workflow(m)
    BY <1>1, <1>5, <2>1 DEF OfSession, Workflow
  <2>3. j \in InFlight(m) \cap m.token
    BY <1>1, <1>5, <2>2 DEF Good, Safe, StopOK, StopAt
  <2> QED
    BY <1>1, <1>3, <1>5, <1>6, <2>1, <2>3
<1> QED
  BY <1>4, <1>7, <1>8, <1>9 DEF Good, Safe, n, e

\* handle_spawn as a whole.
LEMMA SpawnedGood ==
  ASSUME NEW m, Good(m), NEW i \in Ids, m.phase[i] = "unknown",
         NEW r \in Requests, NEW c
  PROVE  Good(Spawned(m, i, r, c))
<1>1. CASE SpawnRefused(m, r)
  <2> DEFINE n == [m EXCEPT !.phase[i] = "refused", !.caller[i] = "final"]
  <2>1. /\ IsState(n) /\ n.phase = [m.phase EXCEPT ![i] = "refused"]
        /\ n.parent = m.parent /\ n.run = m.run /\ n.ticket = m.ticket
        /\ n.arrivals = m.arrivals /\ n.token = m.token /\ n.blocked = m.blocked
    BY DEF Good, Safe, Shape, IsState, Fields
  <2>2. Spawned(m, i, r, c) = n
    BY <1>1 DEF Spawned
  <2> HIDE DEF n
  <2>3. Shape(n)
    BY <2>1 DEF Good, Safe, Shape, Phases
  <2>4. /\ Queued(n) = Queued(m) /\ InFlight(n) = InFlight(m)
        /\ Live(n) = Live(m) /\ Workflow(n) = Workflow(m)
    BY <2>1 DEF Good, Safe, Shape, Queued, InFlight, Live, Workflow, LivePhases, InFlightPhases
  <2>5. \A s : Running(n, s) = Running(m, s) /\ OfSession(n, s) = OfSession(m, s)
    BY <2>1, <2>4 DEF Running, OfSession
  <2>6. QueueOK(n)
    BY <2>1, <2>4 DEF Good, Safe, QueueOK
  <2>7. CapOK(n)
    BY <2>1, <2>4, <2>5 DEF Good, Safe, CapOK, HasCapacity
  <2>8. StopOK(n)
    BY <2>1, <2>4, <2>5 DEF Good, Safe, StopOK, StopAt
  <2> QED
    BY <2>2, <2>3, <2>6, <2>7, <2>8 DEF Good, Safe
<1>2. CASE ~SpawnRefused(m, r) /\ StartsNow(m, r)
  BY <1>2, EnteredStarts DEF Spawned
<1>3. CASE ~SpawnRefused(m, r) /\ ~StartsNow(m, r) /\ LimitBehavior = "Queue"
  BY <1>3, EnteredQueues DEF Spawned
<1>4. CASE ~SpawnRefused(m, r) /\ ~StartsNow(m, r) /\ LimitBehavior # "Queue"
  <2>1. LimitBehavior = "Fail"
    BY <1>4, CoordinatorConstants
  <2> QED
    BY <1>4, <2>1, EnteredFails DEF Spawned
<1> QED
  BY <1>1, <1>2, <1>3, <1>4

-----------------------------------------------------------------------------
(* The other functions handlers are made of.                               *)

\* The end of a run keeps the limit, the queue and the Stop.
LEMMA FinishedRunGood ==
  ASSUME NEW m, NEW k, NEW cut, Good(m), k \in InFlight(m)
  PROVE  Good(Finished(m, {k}, cut))
BY FinishedRun, FinishedStop DEF Good, Safe, StopOK

\* remove_queued keeps the limit and the Stop, and what is in flight.
LEMMA Removed ==
  ASSUME NEW m, NEW ids, Safe(m)
  PROVE  /\ Safe(RemoveQueued(m, ids))
         /\ \A s : StopAt(m, s) => StopAt(RemoveQueued(m, ids), s)
         /\ RemoveQueued(m, ids).blocked \subseteq m.blocked
         /\ RemoveQueued(m, ids).parent = m.parent
         /\ RemoveQueued(m, ids).run = m.run
         /\ InFlight(RemoveQueued(m, ids)) = InFlight(m)
         /\ Live(RemoveQueued(m, ids)) \subseteq Live(m) \ (Queued(m) \cap ids)
         /\ InFlight(m) \cap m.token \subseteq RemoveQueued(m, ids).token
         /\ \A i \in Ids : m.phase[i] = "unknown"
                             => RemoveQueued(m, ids).phase[i] = "unknown"
<1> DEFINE removed == Queued(m) \cap ids
<1>1. CASE removed = {}
  <2>1. RemoveQueued(m, ids) = m
    BY <1>1 DEF RemoveQueued
  <2> QED
    BY <1>1, <2>1
<1>2. CASE removed # {}
  <2> DEFINE n == Finished(m, removed, removed)
  <2>1. RemoveQueued(m, ids) = n
    BY <1>2 DEF RemoveQueued
  <2>2. Safe(n) /\ Live(n) \subseteq Live(m) \ removed /\ InFlight(n) = InFlight(m)
    BY FinishedQueued
  <2>3. (\A s : StopAt(m, s) => StopAt(n, s)) /\ n.blocked \subseteq m.blocked
    BY FinishedStop DEF Safe
  <2>4. /\ n.parent = m.parent /\ n.run = m.run
        /\ n.token = m.token \ Done(m, removed)
        /\ n.phase = [i \in Ids |-> IF i \in Done(m, removed) THEN "completed"
                                    ELSE IF i \in Starts(m, Done(m, removed)) THEN "pending"
                                    ELSE m.phase[i]]
    BY DEF Finished, Done
  <2>5. Done(m, removed) \subseteq Queued(m)
    BY DEF Done
  <2>6. Starts(m, Done(m, removed)) \subseteq Queued(m)
    BY DEF Starts
  <2> HIDE DEF n, removed
  <2>7. InFlight(m) \cap m.token \subseteq n.token
    BY <2>4, <2>5, Tables DEF Safe
  <2>8. \A i \in Ids : m.phase[i] = "unknown" => n.phase[i] = "unknown"
    BY <2>4, <2>5, <2>6 DEF Queued
  <2> QED
    BY <2>1, <2>2, <2>3, <2>4, <2>7, <2>8 DEF removed
<1> QED
  BY <1>1, <1>2

\* Cancelled: what is left of the cancelled ids is in flight and was told.
LEMMA CancelledIds ==
  ASSUME NEW m, NEW ids, Safe(m)
  PROVE  /\ Safe(Cancelled(m, ids))
         /\ \A s : StopAt(m, s) => StopAt(Cancelled(m, ids), s)
         /\ \A s : OfSession(m, s) \ Workflow(m) \subseteq ids
                     => StopAt(Cancelled(m, ids), s)
         /\ Cancelled(m, ids).blocked \subseteq m.blocked
<1> DEFINE t == [m EXCEPT !.token = m.token \cup (ids \cap InFlight(m))]
           n == RemoveQueued(t, ids)
<1>1. Cancelled(m, ids) = n
  BY DEF Cancelled
<1>2. /\ IsState(t) /\ t.phase = m.phase /\ t.parent = m.parent /\ t.run = m.run
      /\ t.ticket = m.ticket /\ t.arrivals = m.arrivals /\ t.blocked = m.blocked
      /\ t.token = m.token \cup (ids \cap InFlight(m))
  BY DEF Safe, Shape, IsState, Fields
<1> HIDE DEF t
<1>3. /\ Safe(t) /\ Queued(t) = Queued(m) /\ InFlight(t) = InFlight(m)
      /\ Live(t) = Live(m) /\ Workflow(t) = Workflow(m)
      /\ \A s : StopAt(m, s) => StopAt(t, s)
  BY <1>2, SameTables
<1>4. /\ Safe(n)
      /\ \A s : StopAt(t, s) => StopAt(n, s)
      /\ n.blocked \subseteq t.blocked
      /\ n.parent = t.parent /\ n.run = t.run
      /\ InFlight(n) = InFlight(t)
      /\ Live(n) \subseteq Live(t) \ (Queued(t) \cap ids)
      /\ InFlight(t) \cap t.token \subseteq n.token
  BY <1>3, Removed
<1> HIDE DEF n
<1>5. ASSUME NEW s, OfSession(m, s) \ Workflow(m) \subseteq ids
      PROVE  StopAt(n, s)
  <2> SUFFICES ASSUME NEW i \in OfSession(n, s) \ Workflow(n)
               PROVE  i \in InFlight(n) \cap n.token
    BY DEF StopAt
  <2>1. i \in ids /\ i \in Live(m) /\ i \notin Queued(m)
    BY <1>2, <1>3, <1>4, <1>5 DEF OfSession, Workflow
  <2>2. i \in InFlight(m)
    BY <2>1, LiveTables
  <2> QED
    BY <1>2, <1>3, <1>4, <2>1, <2>2
<1> QED
  BY <1>1, <1>2, <1>3, <1>4, <1>5

\* A cancel keeps the limit, the queue and the Stop.
LEMMA CancelledGood ==
  ASSUME NEW m, NEW ids, Good(m)
  PROVE  Good(Cancelled(m, ids))
BY CancelledIds DEF Good, StopOK

\* The reap before every command and every timer.
LEMMA ReapedGood ==
  ASSUME Good(Now), NEW m \in Reaped
  PROVE  /\ Good(m)
         /\ \A i \in Ids : phase[i] = "unknown" => m.phase[i] = "unknown"
<1> DEFINE g == LetGo(Now)
<1>1. m = RemoveQueued(g, g.token)
  BY DEF Reaped
<1>2. /\ IsState(g) /\ g.phase = Now.phase /\ g.parent = Now.parent /\ g.run = Now.run
      /\ g.ticket = Now.ticket /\ g.arrivals = Now.arrivals
      /\ g.blocked = Now.blocked
      /\ Now.token \subseteq g.token
  BY DEF LetGo, IsState, Fields, Now
<1> HIDE DEF g
<1>3. Good(g)
  BY <1>2, SameTablesGood
<1>4. Good(m)
  BY <1>1, <1>3, Removed DEF Good, StopOK
<1>5. \A i \in Ids : g.phase[i] = "unknown" => m.phase[i] = "unknown"
  BY <1>1, <1>3, Removed DEF Good
<1>6. Now.phase = phase
  BY DEF Now
<1> QED
  BY <1>2, <1>4, <1>5, <1>6

\* The end of a turn.
LEMMA BecomesGood ==
  ASSUME NEW x, Good(x), Becomes(x)
  PROVE  Good(Now)'
<1>1. PICK old : phase' = [i \in Ids |-> IF i \in old THEN "evicted" ELSE x.phase[i]]
                 /\ old \in Overflow({i \in Ids : x.phase[i] = "completed"}, MaxCompleted)
  BY DEF Becomes
<1>2. old \subseteq {i \in Ids : x.phase[i] = "completed"}
  BY <1>1 DEF Overflow
<1>3. /\ parent' = x.parent /\ run' = x.run /\ ticket' = x.ticket
      /\ token' = x.token /\ blocked' = x.blocked
      /\ arrivals' = IF Queued(x) = {} THEN 0 ELSE x.arrivals
  BY DEF Becomes
<1> DEFINE n == Now'
<1>4. /\ IsState(n) /\ n.phase = phase' /\ n.parent = parent' /\ n.run = run'
      /\ n.ticket = ticket' /\ n.arrivals = arrivals' /\ n.token = token'
      /\ n.blocked = blocked'
  BY DEF Now, IsState, Fields
<1> HIDE DEF n
<1>5. Shape(n)
  <2>1. n.phase \in [Ids -> Phases]
    BY <1>1, <1>4 DEF Good, Safe, Shape, Phases
  <2> QED
    BY <1>3, <1>4, <2>1 DEF Good, Safe, Shape
<1>6. Queued(n) = Queued(x) /\ InFlight(n) = InFlight(x)
  BY <1>1, <1>2, <1>4 DEF Queued, InFlight, InFlightPhases
<1>7. Safe(n) /\ \A s : StopAt(x, s) => StopAt(n, s)
  BY <1>3, <1>4, <1>5, <1>6, Frame DEF Good
<1>8. Good(n)
  BY <1>3, <1>4, <1>7 DEF Good, StopOK
<1> QED
  BY <1>8 DEF n

-----------------------------------------------------------------------------
(* The actions.                                                            *)

\* The coordinator starts with empty tables.
LEMMA InitGood == Init => Good(Now)
<1> SUFFICES ASSUME Init PROVE Good(Now)
  OBVIOUS
<1> DEFINE n == Now
<1>1. /\ IsState(n) /\ n.phase = [i \in Ids |-> "unknown"]
      /\ n.parent = [i \in Ids |-> None] /\ n.run = [i \in Ids |-> None]
      /\ n.ticket = [i \in Ids |-> 0] /\ n.arrivals = 0 /\ n.blocked = {}
  BY DEF Now, IsState, Fields, Init
<1> HIDE DEF n
<1>2. Shape(n)
  BY <1>1 DEF Shape, Phases
<1>3. Queued(n) = {} /\ InFlight(n) = {} /\ Live(n) = {}
  BY <1>1 DEF Queued, InFlight, Live, LivePhases, InFlightPhases
<1>4. QueueOK(n) /\ StopOK(n)
  BY <1>1, <1>3 DEF QueueOK, StopOK
<1>5. \A s : Running(n, s) = {}
  BY <1>3 DEF Running
<1>6. CapOK(n)
  BY <1>3, <1>5, FS_EmptySet, CoordinatorConstants DEF CapOK
<1> QED
  BY <1>2, <1>4, <1>6 DEF Good, Safe, n

\* A command whose handler leaves a good state.
LEMMA CommandGood ==
  ASSUME NEW x, Good(x), Command(x)
  PROVE  Good(Now)'
BY BecomesGood DEF Command

\* handle_spawn, after the reap.
LEMMA SpawnStep ==
  ASSUME Good(Now), NEW i \in Ids, NEW r \in Requests, NEW c, Spawn(i, r, c)
  PROVE  Good(Now)'
<1>1. PICK m \in Reaped : Becomes(Spawned(m, i, r, c))
  BY DEF Spawn
<1>2. phase[i] = "unknown"
  BY DEF Spawn
<1>3. Good(m) /\ m.phase[i] = "unknown"
  BY <1>1, <1>2, ReapedGood
<1>4. Good(Spawned(m, i, r, c))
  BY <1>3, SpawnedGood
<1> QED
  BY <1>1, <1>4, BecomesGood

\* A child that reports its start stays in flight; the end of a run.
LEMMA RunStep ==
  ASSUME Good(Now), NEW i \in Ids,
         Started(i) \/ \E cut \in SUBSET Ids : FinishRun(i, cut)
  PROVE  Good(Now)'
<1>1. CASE Started(i)
  <2> DEFINE m == Now
             n == [Now EXCEPT !.phase[i] = "active"]
  <2>1. Becomes(n) /\ phase[i] = "pending"
    BY <1>1 DEF Started
  <2>2. /\ IsState(n) /\ n.phase = [m.phase EXCEPT ![i] = "active"]
        /\ n.parent = m.parent /\ n.run = m.run /\ n.ticket = m.ticket
        /\ n.arrivals = m.arrivals /\ n.token = m.token /\ n.blocked = m.blocked
        /\ m.phase = phase
    BY DEF Now, IsState, Fields
  <2>3. Good(m)
    OBVIOUS
  <2> HIDE DEF m, n
  <2>4. Shape(n)
    BY <2>2, <2>3 DEF Good, Safe, Shape, Phases, LivePhases
  <2>5. Queued(n) = Queued(m) /\ InFlight(n) = InFlight(m)
    BY <2>1, <2>2, <2>3 DEF Good, Safe, Shape, Queued, InFlight, InFlightPhases
  <2>6. Safe(n) /\ \A s : StopAt(m, s) => StopAt(n, s)
    BY <2>2, <2>3, <2>4, <2>5, Frame DEF Good
  <2>7. Good(n)
    BY <2>2, <2>3, <2>6 DEF Good, StopOK
  <2> QED
    BY <2>1, <2>7, BecomesGood
<1>2. CASE \E cut \in SUBSET Ids : FinishRun(i, cut)
  <2>1. PICK cut \in SUBSET Ids : FinishRun(i, cut)
    BY <1>2
  <2>2. i \in InFlight(Now) /\ Becomes(Finished(Now, {i}, cut))
    BY <2>1 DEF FinishRun
  <2>3. Good(Finished(Now, {i}, cut))
    BY <2>2, FinishedRunGood
  <2> QED
    BY <2>2, <2>3, BecomesGood
<1> QED
  BY <1>1, <1>2

\* The cancels of one child, of a prompt and of a loop task.
LEMMA CancelStep ==
  ASSUME Good(Now),
         \/ \E i \in Ids : CancelOne(i)
         \/ \E p \in Prompts, s \in Sessions \cup {None} : CancelPrompt(p, s)
         \/ \E l \in Loops, s \in Sessions \cup {None} : CancelLoop(l, s)
  PROVE  Good(Now)'
<1>1. CASE \E i \in Ids : CancelOne(i)
  <2>1. PICK i \in Ids : CancelOne(i)
    BY <1>1
  <2>2. PICK m \in Reaped :
          Command(Cancelled([m EXCEPT !.killed = m.killed \cup ({i} \cap InFlight(m))],
                            {i} \cap Live(m)))
    BY <2>1 DEF CancelOne
  <2> DEFINE n == [m EXCEPT !.killed = m.killed \cup ({i} \cap InFlight(m))]
  <2>3. Good(m)
    BY <2>2, ReapedGood
  <2>4. /\ IsState(n) /\ n.phase = m.phase /\ n.parent = m.parent /\ n.run = m.run
        /\ n.ticket = m.ticket /\ n.arrivals = m.arrivals /\ n.token = m.token
        /\ n.blocked = m.blocked
    BY <2>3 DEF Good, Safe, Shape, IsState, Fields
  <2> HIDE DEF n
  <2>5. Good(n)
    BY <2>3, <2>4, SameTablesGood
  <2>6. Good(Cancelled(n, {i} \cap Live(m)))
    BY <2>5, CancelledGood
  <2> QED
    BY <2>2, <2>6, CommandGood DEF n
<1>2. CASE \E p \in Prompts, s \in Sessions \cup {None} : CancelPrompt(p, s)
  <2>1. PICK p \in Prompts, s \in Sessions \cup {None} : CancelPrompt(p, s)
    BY <1>2
  <2>2. PICK m \in Reaped :
          Command(Cancelled(m, {i \in Scope(m, s) : m.kind[i].prompt = p}))
    BY <2>1 DEF CancelPrompt
  <2>3. Good(Cancelled(m, {i \in Scope(m, s) : m.kind[i].prompt = p}))
    BY <2>2, ReapedGood, CancelledGood
  <2> QED
    BY <2>2, <2>3, CommandGood
<1>3. CASE \E l \in Loops, s \in Sessions \cup {None} : CancelLoop(l, s)
  <2>1. PICK l \in Loops, s \in Sessions \cup {None} : CancelLoop(l, s)
    BY <1>3
  <2>2. PICK m \in Reaped : \E ids, hit :
          Command(Cancelled([m EXCEPT !.killed = m.killed \cup hit,
                                      !.muted = m.muted \cup hit], ids))
    BY <2>1 DEF CancelLoop
  <2>3. PICK ids, hit :
          Command(Cancelled([m EXCEPT !.killed = m.killed \cup hit,
                                      !.muted = m.muted \cup hit], ids))
    BY <2>2
  <2> DEFINE n == [m EXCEPT !.killed = m.killed \cup hit, !.muted = m.muted \cup hit]
  <2>4. Good(m)
    BY <2>2, ReapedGood
  <2>5. /\ IsState(n) /\ n.phase = m.phase /\ n.parent = m.parent /\ n.run = m.run
        /\ n.ticket = m.ticket /\ n.arrivals = m.arrivals /\ n.token = m.token
        /\ n.blocked = m.blocked
    BY <2>4 DEF Good, Safe, Shape, IsState, Fields
  <2> HIDE DEF n
  <2>6. Good(n)
    BY <2>4, <2>5, SameTablesGood
  <2>7. Good(Cancelled(n, ids))
    BY <2>6, CancelledGood
  <2> QED
    BY <2>7, <2>3, CommandGood DEF n
<1> QED
  BY <1>1, <1>2, <1>3

\* The user's Stop closes admission and tells every Task child.
LEMMA StopStep ==
  ASSUME Good(Now), NEW s \in Sessions, StopSession(s)
  PROVE  Good(Now)'
<1>1. PICK m \in Reaped :
        Command(Cancelled([m EXCEPT !.blocked = m.blocked \cup {s}],
                          OfSession(m, s) \ Workflow(m)))
  BY DEF StopSession
<1> DEFINE n == [m EXCEPT !.blocked = m.blocked \cup {s}]
           ids == OfSession(m, s) \ Workflow(m)
           x == Cancelled(n, ids)
<1>2. Good(m)
  BY <1>1, ReapedGood
<1>3. /\ IsState(n) /\ n.phase = m.phase /\ n.parent = m.parent /\ n.run = m.run
      /\ n.ticket = m.ticket /\ n.arrivals = m.arrivals /\ n.token = m.token
      /\ n.blocked = m.blocked \cup {s}
  BY <1>2 DEF Good, Safe, Shape, IsState, Fields
<1> HIDE DEF n
<1>4. /\ Safe(n) /\ Workflow(n) = Workflow(m) /\ OfSession(n, s) = OfSession(m, s)
      /\ \A z : StopAt(m, z) => StopAt(n, z)
  BY <1>2, <1>3, SameTables DEF Good
<1>5. /\ Safe(x) /\ \A z : StopAt(n, z) => StopAt(x, z)
      /\ StopAt(x, s) /\ x.blocked \subseteq n.blocked
  BY <1>4, CancelledIds
<1> HIDE DEF x
<1>6. Good(x)
  BY <1>2, <1>3, <1>4, <1>5 DEF Good, StopOK
<1> QED
  BY <1>1, <1>6, CommandGood DEF x, n, ids

\* A teardown cancels every child of the session; a delete closes admission.
LEMMA TeardownStep ==
  ASSUME Good(Now), NEW s \in Sessions, NEW responder \in BOOLEAN, Teardown(s, responder)
  PROVE  Good(Now)'
<1>1. PICK m \in Reaped : \E hold \in SUBSET {s} :
        LET ids  == OfSession(m, s)
            left == Cancelled([m EXCEPT !.muted = m.muted \cup ids,
                                        !.buffer = {i \in m.buffer : m.parent[i] # s}],
                              ids)
        IN  Command([left EXCEPT !.blocked = left.blocked \cup hold,
                                 !.drains = left.drains \cup hold])
  BY DEF Teardown
<1> DEFINE ids == OfSession(m, s)
           n == [m EXCEPT !.muted = m.muted \cup ids,
                          !.buffer = {i \in m.buffer : m.parent[i] # s}]
           left == Cancelled(n, ids)
<1>2. PICK hold \in SUBSET {s} :
        Command([left EXCEPT !.blocked = left.blocked \cup hold,
                             !.drains = left.drains \cup hold])
  BY <1>1
<1>3. Good(m)
  BY <1>1, ReapedGood
<1>4. /\ IsState(n) /\ n.phase = m.phase /\ n.parent = m.parent /\ n.run = m.run
      /\ n.ticket = m.ticket /\ n.arrivals = m.arrivals /\ n.token = m.token
      /\ n.blocked = m.blocked
  BY <1>3 DEF Good, Safe, Shape, IsState, Fields
<1> HIDE DEF n
<1>5. /\ Safe(n) /\ OfSession(n, s) = ids
      /\ \A z : StopAt(m, z) => StopAt(n, z)
  BY <1>3, <1>4, SameTables DEF Good
<1>6. /\ Safe(left) /\ \A z : StopAt(n, z) => StopAt(left, z)
      /\ StopAt(left, s) /\ left.blocked \subseteq n.blocked
  BY <1>5, CancelledIds
<1> HIDE DEF left
<1> DEFINE x == [left EXCEPT !.blocked = left.blocked \cup hold,
                             !.drains = left.drains \cup hold]
<1>7. /\ IsState(x) /\ x.phase = left.phase /\ x.parent = left.parent
      /\ x.run = left.run /\ x.ticket = left.ticket /\ x.arrivals = left.arrivals
      /\ x.token = left.token /\ x.blocked = left.blocked \cup hold
  BY <1>6 DEF Safe, Shape, IsState, Fields
<1>8. Command(x)
  BY <1>2
<1> HIDE DEF x
<1>9. Safe(x) /\ \A z : StopAt(left, z) => StopAt(x, z)
  BY <1>6, <1>7, SameTables
<1>10. Good(x)
  BY <1>3, <1>4, <1>5, <1>6, <1>7, <1>9 DEF Good, StopOK
<1> QED
  BY <1>8, <1>10, CommandGood

\* The commands that leave the tables alone.
LEMMA OtherCommandStep ==
  ASSUME Good(Now),
         \/ \E r \in Runs, s \in Sessions \cup {None} : CancelWorkflow(r, s)
         \/ \E s \in Sessions : OpenAdmission(s)
         \/ \E s \in Sessions \cup {None} : Completions(s)
         \/ \E q \in Queriers, i \in Ids, block \in BOOLEAN : Query(q, i, block)
         \/ Observe
  PROVE  Good(Now)'
<1>1. ASSUME NEW m \in Reaped, NEW x, Command(x), IsState(m) => IsState(x),
             IsState(m) =>
               /\ x.phase = m.phase /\ x.parent = m.parent /\ x.run = m.run
               /\ x.ticket = m.ticket /\ x.arrivals = m.arrivals
               /\ m.token \subseteq x.token /\ x.blocked \subseteq m.blocked
      PROVE  Good(Now)'
  <2>1. Good(m) /\ IsState(m)
    BY ReapedGood DEF Good, Safe, Shape
  <2>2. Good(x)
    BY <1>1, <2>1, SameTablesGood
  <2> QED
    BY <1>1, <2>2, CommandGood
<1>2. CASE \E r \in Runs, s \in Sessions \cup {None} : CancelWorkflow(r, s)
  <2>1. \E m \in Reaped : \E t, w :
          Command([m EXCEPT !.token = m.token \cup t, !.wfWaits = w])
    BY <1>2 DEF CancelWorkflow
  <2> QED
    BY <1>1, <2>1 DEF IsState, Fields
<1>3. CASE \E s \in Sessions : OpenAdmission(s)
  <2>1. \E m \in Reaped : \E b :
          Command([m EXCEPT !.blocked = b]) /\ b \subseteq m.blocked
    BY <1>3 DEF OpenAdmission
  <2> QED
    BY <1>1, <2>1 DEF IsState, Fields
<1>4. CASE \E s \in Sessions \cup {None} : Completions(s)
  <2>1. \E m \in Reaped : \E b : Command([m EXCEPT !.buffer = b])
    BY <1>4 DEF Completions
  <2> QED
    BY <1>1, <2>1 DEF IsState, Fields
<1>5. CASE \E q \in Queriers, i \in Ids, block \in BOOLEAN : Query(q, i, block)
  <2>1. \E m \in Reaped : \E q \in Queriers : \E v : Command([m EXCEPT !.watch[q] = v])
    BY <1>5 DEF Query
  <2> QED
    BY <1>1, <2>1 DEF IsState, Fields
<1>6. CASE Observe
  BY <1>1, <1>6 DEF Observe
<1> QED
  BY <1>2, <1>3, <1>4, <1>5, <1>6

\* process_deadlines leaves the tables alone and only reopens sessions.
LEMMA TimerStep ==
  ASSUME Good(Now), NEW due, NEW dueWaiters, NEW dueDrains,
         ProcessDeadlines(due, dueWaiters, dueDrains)
  PROVE  Good(Now)'
<1>1. PICK m \in Reaped :
        Becomes(AnswerWaiters(HandOff(ReopenDrained(m, dueDrains), due), dueWaiters))
  BY DEF ProcessDeadlines
<1> DEFINE a == ReopenDrained(m, dueDrains)
           b == HandOff(a, due)
           x == AnswerWaiters(b, dueWaiters)
<1>2. Good(m) /\ IsState(m)
  BY <1>1, ReapedGood DEF Good, Safe, Shape
<1>3. /\ IsState(a) /\ a.phase = m.phase /\ a.parent = m.parent /\ a.run = m.run
      /\ a.ticket = m.ticket /\ a.arrivals = m.arrivals /\ a.token = m.token
      /\ a.blocked \subseteq m.blocked
  BY <1>2 DEF ReopenDrained, IsState, Fields
<1> HIDE DEF a
<1>4. /\ IsState(b) /\ b.phase = a.phase /\ b.parent = a.parent /\ b.run = a.run
      /\ b.ticket = a.ticket /\ b.arrivals = a.arrivals /\ b.token = a.token
      /\ b.blocked = a.blocked
  BY <1>3 DEF HandOff, IsState, Fields
<1> HIDE DEF b
<1>5. /\ IsState(x) /\ x.phase = b.phase /\ x.parent = b.parent /\ x.run = b.run
      /\ x.ticket = b.ticket /\ x.arrivals = b.arrivals /\ x.token = b.token
      /\ x.blocked = b.blocked
  BY <1>4 DEF AnswerWaiters, IsState, Fields
<1>6. Becomes(x)
  BY <1>1 DEF a, b
<1> HIDE DEF x
<1>7. Good(x)
  BY <1>2, <1>3, <1>4, <1>5, SameTablesGood
<1> QED
  BY <1>6, <1>7, BecomesGood

\* An answered progress request changes one reply slot.
LEMMA ProgressStep ==
  ASSUME Good(Now), NEW q \in Queriers, FinishProgress(q)
  PROVE  Good(Now)'
<1> DEFINE x == [Now EXCEPT !.watch[q] = Idle]
<1>1. Becomes(x)
  BY DEF FinishProgress
<1>2. /\ IsState(x) /\ x.phase = Now.phase /\ x.parent = Now.parent /\ x.run = Now.run
      /\ x.ticket = Now.ticket /\ x.arrivals = Now.arrivals /\ x.token = Now.token
      /\ x.blocked = Now.blocked
  BY DEF Now, IsState, Fields
<1> HIDE DEF x
<1>3. Good(x)
  BY <1>2, SameTablesGood
<1> QED
  BY <1>1, <1>3, BecomesGood

\* A step outside the loop that leaves the tables alone and only cancels
\* tokens: the environment's, the closing mailbox, and stuttering.
LEMMA OutsideStep ==
  ASSUME Good(Now),
         phase' = phase, parent' = parent, run' = run, ticket' = ticket,
         arrivals' = arrivals, blocked' = blocked, token \subseteq token'
  PROVE  Good(Now)'
<1> DEFINE n == Now'
           m == Now
<1>1. /\ IsState(n) /\ n.phase = m.phase /\ n.parent = m.parent /\ n.run = m.run
      /\ n.ticket = m.ticket /\ n.arrivals = m.arrivals
      /\ m.token \subseteq n.token /\ n.blocked \subseteq m.blocked
  BY DEF Now, IsState, Fields
<1>2. Good(m)
  OBVIOUS
<1> HIDE DEF n, m
<1>3. Good(n)
  BY <1>1, <1>2, SameTablesGood
<1> QED
  BY <1>3 DEF n

\* Drop empties the queue and cancels every token.
LEMMA DropStep ==
  ASSUME Good(Now), Drop
  PROVE  Good(Now)'
<1> DEFINE m == Now
           n == Now'
<1>1. /\ IsState(n)
      /\ n.phase = [i \in Ids |-> IF i \in Queued(m) THEN "evicted" ELSE m.phase[i]]
      /\ n.parent = m.parent /\ n.run = m.run /\ n.ticket = m.ticket
      /\ n.arrivals = m.arrivals /\ m.token \subseteq n.token /\ n.blocked = m.blocked
  BY DEF Now, IsState, Fields, Drop
<1>2. Good(m)
  OBVIOUS
<1> HIDE DEF n, m
<1>3. Shape(n)
  BY <1>1, <1>2 DEF Good, Safe, Shape, Phases
<1>4. Queued(n) = {} /\ InFlight(n) = InFlight(m)
  BY <1>1 DEF Queued, InFlight, InFlightPhases
<1>5. /\ Live(n) = InFlight(n) /\ Live(n) \subseteq Live(m)
      /\ Workflow(n) = Workflow(m)
  BY <1>1, <1>4, LiveTables DEF Workflow
<1>6. \A s : Running(n, s) = Running(m, s)
  BY <1>1, <1>4 DEF Running
<1>7. QueueOK(n)
  BY <1>1, <1>2, <1>4, <1>5 DEF Good, Safe, QueueOK
<1>8. CapOK(n)
  BY <1>2, <1>4, <1>6 DEF Good, Safe, CapOK
<1>9. StopOK(n)
  <2> SUFFICES ASSUME NEW s \in n.blocked, NEW i \in OfSession(n, s) \ Workflow(n)
               PROVE  i \in InFlight(n) \cap n.token
    BY DEF StopOK, StopAt
  <2>1. i \in OfSession(m, s) \ Workflow(m)
    BY <1>1, <1>5 DEF OfSession
  <2> QED
    BY <1>1, <1>2, <1>4, <2>1 DEF Good, StopOK, StopAt
<1>10. Good(n)
  BY <1>3, <1>7, <1>8, <1>9 DEF Good, Safe
<1> QED
  BY <1>10 DEF n

\* Every step of the coordinator and its environment.
LEMMA NextGood == Good(Now) /\ [Next]_vars => Good(Now)'
<1> SUFFICES ASSUME Good(Now), [Next]_vars PROVE Good(Now)'
  OBVIOUS
<1>1. CASE Commands
  <2>1. CASE \E i \in Ids, r \in Requests, c \in {"waiting", "gone"} : Spawn(i, r, c)
    BY <2>1, SpawnStep
  <2>2. CASE \E s \in Sessions : StopSession(s)
    BY <2>2, StopStep
  <2>3. CASE \E s \in Sessions, responder \in BOOLEAN : Teardown(s, responder)
    BY <2>3, TeardownStep
  <2> QED
    BY <1>1, <2>1, <2>2, <2>3, CancelStep, OtherCommandStep DEF Commands
<1>2. CASE \E i \in Ids : Started(i)
  BY <1>2, RunStep
<1>3. CASE \E i \in Ids, cut \in SUBSET Ids : cut \subseteq {i} /\ FinishRun(i, cut)
  BY <1>3, RunStep
<1>4. CASE Timers
  BY <1>4, TimerStep DEF Timers
<1>5. CASE \E q \in Queriers : FinishProgress(q)
  BY <1>5, ProgressStep
<1>6. CASE CloseMailbox
  BY <1>6, OutsideStep DEF CloseMailbox, tables, flags, parked
<1>7. CASE Exit \/ Abort
  BY <1>7, DropStep DEF Exit, Abort
<1>8. CASE Environment
  <2>1. CASE \E i \in Ids : CallerDrops(i)
    <3>1. PICK i \in Ids : CallerDrops(i)
      BY <2>1
    <3> QED
      BY <3>1, OutsideStep DEF CallerDrops, tables, parked
  <2>2. CASE \E i \in Ids : CancelToken(i)
    BY <2>2, OutsideStep DEF CancelToken, tables, parked
  <2>3. CASE \E q \in Queriers : QuerierDrops(q)
    BY <2>3, OutsideStep DEF QuerierDrops, tables, flags
  <2> QED
    BY <1>8, <2>1, <2>2, <2>3 DEF Environment
<1>9. CASE UNCHANGED vars
  BY <1>9, OutsideStep DEF vars, tables, flags, parked
<1> QED
  BY <1>1, <1>2, <1>3, <1>4, <1>5, <1>6, <1>7, <1>8, <1>9 DEF Next, Actor

-----------------------------------------------------------------------------
\* The inductive invariant: well-shaped tables, an ordered queue, the limit
\* with no slot wasted, and the Stop.
THEOREM Invariance == Spec => []Good(Now)
BY InitGood, NextGood, PTL DEF Spec

\* The admission limit of admission.rs holds in every reachable state, and a
\* session whose spawns wait in the queue uses every slot it has: neither a
\* cancel, a finish, a nested or failing spawn, a reap nor the drop of the
\* coordinator leaves a slot empty that a queued spawn could take.
THEOREM LimitHolds == Spec => []CapAndQueue
<1>1. Good(Now) => CapAndQueue
  <2> SUFFICES ASSUME Good(Now) PROVE CapAndQueue
    OBVIOUS
  <2>1. CapOK(Now) /\ Now.parent = parent
    BY DEF Good, Safe, Now
  <2> QED
    BY <2>1 DEF CapOK, CapAndQueue
<1> QED
  BY <1>1, Invariance, PTL

\* After a Stop (cancel_parent_session) or while a delete drains, every Task
\* child keyed to the session has been told to stop and none is queued, until
\* admission opens again, whatever else happens.
THEOREM StopIsFinal == Spec => []StopHolds
<1>1. Good(Now) => StopHolds
  <2> SUFFICES ASSUME Good(Now) PROVE StopHolds
    OBVIOUS
  <2>1. StopOK(Now) /\ Now.blocked = blocked /\ Now.token = token
    BY DEF Good, Now
  <2> QED
    BY <2>1 DEF StopOK, StopAt, StopHolds
<1> QED
  BY <1>1, Invariance, PTL
=============================================================================
