------------------------ MODULE LeaderElectionProofs ------------------------
(***************************************************************************)
(* Proofs about LeaderElection for any number of clients, leaders, inodes  *)
(* and faults: type correctness with the retry budgets, mutual exclusion   *)
(* of leaders outside the unlink races, and that a client which holds the  *)
(* lock never meets a live recorded leader.                                *)
(***************************************************************************)
EXTENDS LeaderElection, TLAPS, FiniteSetTheorems

\* Where run_leader is while it holds the flock: LinkedPCs before its Drop has
\* unlinked the lock file, UnlinkedPCs after.
LinkedPCs == {"pid", "clean", "bind", "ready", "serving", "draining", "stalled",
              "dropLock"}
UnlinkedPCs == {"dropSock", "close"}
LockedPCs == LinkedPCs \cup UnlinkedPCs

LeaderPCs == LockedPCs \cup {"unborn", "gone", "open", "lock", "reopen",
                             "relock", "exit"}

HeldPCs == {"held", "evict", "evicted"}
ClientPCs == HeldPCs \cup {"start", "open", "lock", "wait", "waitSpawn",
                           "vacate", "term", "kill", "done"}

LeaderState == [pc : LeaderPCs, fd : Inodes \cup {None}, ver : Nat,
                srv : {"none", "up", "hung", "ending"}]

ClientState == [pc : ClientPCs, fd : Inodes \cup {None},
                conn : Leaders \cup {None},
                err : {"absent", "silent", "refused"},
                timer : Leaders \cup {None}, rounds : Nat,
                tracked : Leaders \cup {None},
                evicts : 0 .. MaxZombieEvictAttempts,
                spawns : 0 .. MaxSelfSpawnAttempts - 1,
                out : Leaders \cup {None, "error"}]

Types ==
  /\ path \in Inodes \cup {None}
  /\ flock \in [Inodes -> Leaders \cup Clients \cup {None}]
  /\ pid \in Leaders \cup {None}
  /\ sock \in Leaders \cup {None}
  /\ leader \in [Leaders -> LeaderState]
  /\ client \in [Clients -> ClientState]
  /\ raced \in BOOLEAN
  /\ faults \in 0 .. MaxFaults

\* A leader holds a flock exactly while its program counter says so, and then
\* that of the inode it has open; its server is up only meanwhile.
LeaderHolds(l) ==
  /\ leader[l].pc \in LockedPCs =>
       leader[l].fd \in Inodes /\ flock[leader[l].fd] = l
  /\ \A i \in Inodes : flock[i] = l =>
       leader[l].pc \in LockedPCs /\ leader[l].fd = i
  /\ leader[l].pc \in {"lock", "relock"} => leader[l].fd \in Inodes
  /\ leader[l].srv = "up" => leader[l].pc \in {"ready", "serving", "draining"}
  /\ leader[l].srv = "hung" => leader[l].pc = "serving"
  /\ leader[l].srv = "ending" => leader[l].pc \in {"dropLock", "dropSock", "close", "exit"}
  /\ leader[l].pc = "exit" => leader[l].fd = None

\* The same of a client; and a client that is about to signal a leader has
\* one in mind.
ClientHolds(c) ==
  /\ client[c].pc \in HeldPCs =>
       client[c].fd \in Inodes /\ flock[client[c].fd] = c
  /\ \A i \in Inodes : flock[i] = c =>
       client[c].pc \in HeldPCs /\ client[c].fd = i
  /\ client[c].pc = "lock" => client[c].fd \in Inodes
  /\ client[c].pc \in {"evict", "vacate", "term", "kill"} => client[c].conn \in Leaders

\* The pid in the file at the path is that of a process that has locked this
\* very file, for as long as the process lives.
PidInv ==
  pid # None =>
    /\ path # None
    /\ leader[pid].pc # "unborn"
    /\ Alive(pid) => leader[pid].pc \in LinkedPCs /\ leader[pid].fd = path

\* Without a race, whoever holds a flock holds that of the file at the path;
\* or it alone has just unlinked it, and there is no file at the path.
LinkInv ==
  ~raced =>
    /\ \A l \in Leaders : leader[l].pc \in LinkedPCs => leader[l].fd = path
    /\ \A l \in Leaders : leader[l].pc \in UnlinkedPCs => path = None
    /\ \A k, l \in Leaders :
         leader[k].pc \in UnlinkedPCs /\ leader[l].pc \in UnlinkedPCs => k = l
    /\ \A c \in Clients : client[c].pc \in HeldPCs => client[c].fd = path

\* Without a race, the socket that clients find is that of the server.
SockInv ==
  ~raced => \A l \in Leaders : leader[l].srv = "up" => sock = l

IInv ==
  /\ Types
  /\ \A l \in Leaders : LeaderHolds(l)
  /\ \A c \in Clients : ClientHolds(c)
  /\ PidInv /\ LinkInv /\ SockInv

-----------------------------------------------------------------------------
(* Steps that several actions take.                                        *)

\* A fault is spent within the budget.
LEMMA FaultType ==
  ASSUME Types, Fault
  PROVE  faults' \in 0 .. MaxFaults
  BY LeaderConstants DEF Types, Fault

\* A connection that registers is one to a server that is up.
LEMMA ReachOk ==
  ASSUME Types
  PROVE  /\ Reach \in {"absent", "ok", "silent", "refused"}
         /\ Reach = "ok" => sock \in Leaders /\ leader[sock].srv = "up"
<1>1. CASE sock = None
  BY <1>1 DEF Reach
<1>2. CASE sock # None
  <2>1. sock \in Leaders /\ leader[sock].srv \in {"none", "up", "hung", "ending"}
    BY <1>2 DEF Types, LeaderState
  <2> QED  BY <1>2, <2>1 DEF Reach
<1> QED  BY <1>1, <1>2

\* A signal ends a live leader or does nothing.
LEMMA SigtermOutcomes ==
  ASSUME NEW l, Sigterm(l)
  PROVE  (Alive(l) /\ Dies(l)) \/ UNCHANGED <<leader, flock>>
  BY DEF Sigterm

\* A request to vacate makes a serving leader drain, ends the leader whose pid
\* is recorded, or does nothing.
LEMMA VacateOutcomes ==
  ASSUME Types, NEW l \in Leaders, NEW c \in Clients, request_leader_vacate(l, c)
  PROVE  \/ UNCHANGED <<leader, flock>>
         \/ /\ leader[l].pc = "serving" /\ leader[l].srv = "up"
            /\ At(l, "draining") /\ UNCHANGED flock
         \/ \E k \in Leaders : Alive(k) /\ Dies(k)
<1>1. CASE leader[l].ver \notin Legacy
  BY <1>1 DEF request_leader_vacate
<1>2. CASE leader[l].ver \in Legacy /\ read_pid = None
  BY <1>2 DEF request_leader_vacate
<1>3. CASE leader[l].ver \in Legacy /\ read_pid # None
  <2>1. read_pid \in Leaders
    BY <1>3 DEF read_pid, Types
  <2>2. Sigterm(read_pid)
    BY <1>3 DEF request_leader_vacate
  <2> QED  BY <2>1, <2>2, SigtermOutcomes
<1> QED  BY <1>1, <1>2, <1>3

\* A spawn turns an unborn process into one that is about to open the lock
\* file, or fails; either way the client lets go of its descriptor.
LEMMA SpawnOutcomes ==
  ASSUME NEW c \in Clients, SpawnLeader(c)
  PROVE  \/ Return(c, "error") /\ UNCHANGED leader
         \/ /\ \E l \in Leaders :
                 /\ leader[l].pc = "unborn"
                 /\ leader' = [leader EXCEPT ![l] =
                                 [@ EXCEPT !.pc = "open", !.ver = VersionOf[c]]]
            /\ client' = [client EXCEPT ![c] = [@ EXCEPT !.pc = "waitSpawn", !.fd = None,
                            !.err = "absent"]]
<1> DEFINE unborn == {l \in Leaders : leader[l].pc = "unborn"}
           born == CHOOSE l \in unborn : TRUE
<1>1. CASE unborn = {}
  BY <1>1 DEF SpawnLeader
<1>2. CASE unborn # {}
  <2>1. born \in unborn
    BY <1>2
  <2>2. /\ leader' = [leader EXCEPT ![born] =
                       [@ EXCEPT !.pc = "open", !.ver = VersionOf[c]]]
        /\ client' = [client EXCEPT ![c] = [@ EXCEPT !.pc = "waitSpawn", !.fd = None,
                        !.err = "absent"]]
    BY <1>2 DEF SpawnLeader
  <2> QED  BY <2>1, <2>2
<1> QED  BY <1>1, <1>2

-----------------------------------------------------------------------------
(* Steps of a leader.                                                      *)

\* A leader's record is replaced by another one.
LEMMA LeaderUpdate ==
  ASSUME Types, NEW l \in Leaders, NEW s \in LeaderState,
         leader' = [leader EXCEPT ![l] = s]
  PROVE  /\ leader' \in [Leaders -> LeaderState] /\ leader'[l] = s
         /\ \A k \in Leaders \ {l} : leader'[k] = leader[k]
  BY DEF Types

\* A file that is created while its predecessor's holder lives is a race.
LEMMA OpenStep ==
  ASSUME IInv, NEW l \in Leaders, Open(l)
  PROVE  IInv'
<1> USE LeaderConstants DEF IInv
<1>0. PICK i \in Inodes :
        /\ OpenLockFile(i)
        /\ leader' = [leader EXCEPT ![l] = [@ EXCEPT !.fd = i,
                        !.pc = IF leader[l].pc = "open" THEN "lock" ELSE "relock"]]
  BY DEF Open
<1>1. /\ leader[l].pc \in {"open", "reopen"} /\ raced' = (raced \/ OpensTooEarly)
      /\ UNCHANGED <<flock, sock, client, faults>>
      /\ path' \in Inodes \cup {None} /\ pid' \in Leaders \cup {None}
      /\ path = None \/ UNCHANGED <<path, pid>>
      /\ pid' = pid \/ pid' = None
  BY <1>0 DEF Open, OpenLockFile, Types
<1> DEFINE q == IF leader[l].pc = "open" THEN "lock" ELSE "relock"
           s == [leader[l] EXCEPT !.fd = i, !.pc = q]
<1>2. leader' = [leader EXCEPT ![l] = s]
  BY <1>0
<1>3. s \in LeaderState /\ s.pc = q /\ s.fd = i /\ s.srv = leader[l].srv
  BY DEF Types, LeaderState, LeaderPCs
<1> HIDE DEF s
<1>4. /\ leader' \in [Leaders -> LeaderState]
      /\ leader'[l].pc \in {"lock", "relock"} /\ leader'[l].fd = i
      /\ leader'[l].srv = leader[l].srv
      /\ \A k \in Leaders \ {l} : leader'[k] = leader[k]
  BY <1>2, <1>3, LeaderUpdate
<1>5. Types'
  BY <1>1, <1>4 DEF Types
<1>6. ASSUME NEW k \in Leaders PROVE LeaderHolds(k)'
  BY <1>1, <1>4 DEF LeaderHolds, LockedPCs, LinkedPCs, UnlinkedPCs
<1>7. ASSUME NEW c \in Clients PROVE ClientHolds(c)'
  BY <1>1 DEF ClientHolds
<1>8. PidInv'
  BY <1>1, <1>4 DEF Types, PidInv, Alive, LinkedPCs
<1>9. LinkInv'
  <2> SUFFICES ASSUME ~raced'
               PROVE  LinkInv'
    BY DEF LinkInv
  <2>1. ~raced /\ ~OpensTooEarly
    BY <1>1
  <2>2. CASE UNCHANGED path
    BY <1>1, <1>4, <2>1, <2>2 DEF LinkInv, LinkedPCs, UnlinkedPCs
  <2>3. CASE path = None
    <3>1. \A k \in Leaders : leader[k].pc \notin LockedPCs
      BY <2>1, <2>3 DEF OpensTooEarly, LeaderHolds, LinkInv, LockedPCs, LinkedPCs, UnlinkedPCs
    <3>2. \A d \in Clients : client[d].pc \notin HeldPCs
      BY <2>1, <2>3 DEF ClientHolds, LinkInv
    <3> QED  BY <1>1, <1>4, <3>1, <3>2 DEF LinkInv, LockedPCs, LinkedPCs, UnlinkedPCs
  <2> QED  BY <1>1, <2>2, <2>3
<1>10. SockInv'
  BY <1>1, <1>4 DEF SockInv
<1> QED  BY <1>5, <1>6, <1>7, <1>8, <1>9, <1>10

\* A flock that is taken without a race is that of the file at the path.
LEMMA TryLockStep ==
  ASSUME IInv, NEW l \in Leaders, TryLock(l)
  PROVE  IInv'
<1> USE LeaderConstants DEF IInv
<1> DEFINE fd == leader[l].fd
<1>0. /\ leader[l].pc \in {"lock", "relock"} /\ fd \in Inodes /\ leader[l] \in LeaderState
      /\ UNCHANGED <<path, pid, sock, client, faults>>
  BY DEF TryLock, LeaderHolds, Types
<1>1. CASE flock[fd] = None
  <2> DEFINE s == [leader[l] EXCEPT !.pc = "pid"]
  <2>1. /\ flock' = [flock EXCEPT ![fd] = l] /\ raced' = (raced \/ fd # path)
        /\ leader' = [leader EXCEPT ![l] = s]
    BY <1>1 DEF TryLock, LocksUnlinked, At
  <2>2. s \in LeaderState /\ s.pc = "pid" /\ s.fd = fd /\ s.srv = leader[l].srv
    BY <1>0 DEF LeaderState, LeaderPCs, LockedPCs, LinkedPCs
  <2> HIDE DEF s
  <2>3. /\ leader' \in [Leaders -> LeaderState]
        /\ leader'[l].pc = "pid" /\ leader'[l].fd = fd /\ leader'[l].srv = leader[l].srv
        /\ \A k \in Leaders \ {l} : leader'[k] = leader[k]
    BY <2>1, <2>2, LeaderUpdate
  <2>4. Types'
    BY <1>0, <2>1, <2>3 DEF Types
  <2>5. ASSUME NEW k \in Leaders PROVE LeaderHolds(k)'
    BY <1>0, <1>1, <2>1, <2>3 DEF Types, LeaderHolds, LockedPCs, LinkedPCs, UnlinkedPCs
  <2>6. ASSUME NEW c \in Clients PROVE ClientHolds(c)'
    BY <1>0, <1>1, <2>1 DEF Types, ClientHolds
  <2>7. PidInv'
    BY <1>0, <2>3 DEF Types, PidInv, Alive, LinkedPCs
  <2>8. LinkInv'
    BY <1>0, <2>1, <2>3 DEF LinkInv, LinkedPCs, UnlinkedPCs
  <2>9. SockInv'
    BY <1>0, <2>1, <2>3 DEF SockInv
  <2> QED  BY <2>4, <2>5, <2>6, <2>7, <2>8, <2>9
<1>2. CASE flock[fd] # None
  <2> DEFINE s == [leader[l] EXCEPT !.pc = "reopen", !.fd = None]
  <2>1. /\ UNCHANGED <<flock, raced>>
        /\ \/ leader' = [leader EXCEPT ![l] = Gone]
           \/ leader' = [leader EXCEPT ![l] = s]
    BY <1>2 DEF TryLock
  <2>2. /\ s \in LeaderState /\ s.pc = "reopen" /\ s.srv = leader[l].srv
        /\ Gone \in LeaderState /\ Gone.pc = "gone" /\ Gone.srv = "none"
    BY <1>0 DEF LeaderState, LeaderPCs, Gone, Unborn
  <2> HIDE DEF s
  <2>3. /\ leader' \in [Leaders -> LeaderState]
        /\ leader'[l].pc \in {"reopen", "gone"}
        /\ leader'[l].srv \in {leader[l].srv, "none"}
        /\ \A k \in Leaders \ {l} : leader'[k] = leader[k]
    BY <2>1, <2>2, LeaderUpdate
  <2>4. Types'
    BY <1>0, <2>1, <2>3 DEF Types
  <2>5. ASSUME NEW k \in Leaders PROVE LeaderHolds(k)'
    BY <1>0, <2>1, <2>3 DEF LeaderHolds, LockedPCs, LinkedPCs, UnlinkedPCs
  <2>6. ASSUME NEW c \in Clients PROVE ClientHolds(c)'
    BY <1>0, <2>1 DEF ClientHolds
  <2>7. PidInv'
    BY <1>0, <2>3 DEF Types, PidInv, Alive, LinkedPCs
  <2>8. LinkInv'
    BY <1>0, <2>1, <2>3 DEF LinkInv, LinkedPCs, UnlinkedPCs
  <2>9. SockInv'
    BY <1>0, <2>1, <2>3 DEF SockInv
  <2> QED  BY <2>4, <2>5, <2>6, <2>7, <2>8, <2>9
<1> QED  BY <1>1, <1>2

\* The pid goes to the file at the path only if that is the locked one.
LEMMA WritePidStep ==
  ASSUME IInv, NEW l \in Leaders, WritePid(l)
  PROVE  IInv'
<1> USE LeaderConstants DEF IInv, WritePid, At
<1>1. Types'
  BY DEF Types, LeaderState, LeaderPCs, LockedPCs, LinkedPCs, UnlinkedPCs
<1>2. ASSUME NEW k \in Leaders PROVE LeaderHolds(k)'
  BY DEF Types, LeaderState, LeaderHolds, LockedPCs, LinkedPCs, UnlinkedPCs
<1>3. ASSUME NEW c \in Clients PROVE ClientHolds(c)'
  BY DEF Types, LeaderState, LeaderHolds, ClientHolds, HeldPCs
<1>4. PidInv'
  BY DEF Types, LeaderState, LeaderHolds, PidInv, Alive, LockedPCs, LinkedPCs, UnlinkedPCs
<1>5. LinkInv'
  BY DEF Types, LeaderState, ClientState, LeaderHolds, ClientHolds, LinkInv,
         HeldPCs, LockedPCs, LinkedPCs, UnlinkedPCs
<1>6. SockInv'
  BY DEF Types, LeaderState, LeaderHolds, LinkInv, SockInv, LockedPCs, LinkedPCs, UnlinkedPCs
<1> QED  BY <1>1, <1>2, <1>3, <1>4, <1>5, <1>6

\* No server is up when a new leader clears the socket path.
LEMMA CleanupSocketStep ==
  ASSUME IInv, NEW l \in Leaders, CleanupSocket(l)
  PROVE  IInv'
<1> USE LeaderConstants DEF IInv, CleanupSocket, At, files
<1>1. Types'
  BY DEF Types, LeaderState, LeaderPCs, LockedPCs, LinkedPCs, UnlinkedPCs
<1>2. ASSUME NEW k \in Leaders PROVE LeaderHolds(k)'
  BY DEF Types, LeaderState, LeaderHolds, LockedPCs, LinkedPCs, UnlinkedPCs
<1>3. ASSUME NEW c \in Clients PROVE ClientHolds(c)'
  BY DEF Types, LeaderState, LeaderHolds, ClientHolds, HeldPCs
<1>4. PidInv'
  BY DEF Types, LeaderState, LeaderHolds, PidInv, Alive, LockedPCs, LinkedPCs, UnlinkedPCs
<1>5. LinkInv'
  BY DEF Types, LeaderState, ClientState, LeaderHolds, ClientHolds, LinkInv,
         HeldPCs, LockedPCs, LinkedPCs, UnlinkedPCs
<1>6. SockInv'
  BY DEF Types, LeaderState, LeaderHolds, LinkInv, SockInv, LockedPCs, LinkedPCs, UnlinkedPCs
<1> QED  BY <1>1, <1>2, <1>3, <1>4, <1>5, <1>6

\* The server comes up together with its socket.
LEMMA BindStep ==
  ASSUME IInv, NEW l \in Leaders, Bind(l)
  PROVE  IInv'
<1> USE LeaderConstants DEF IInv, files
<1> DEFINE s == IF sock = None THEN [leader[l] EXCEPT !.pc = "ready", !.srv = "up"]
                               ELSE [leader[l] EXCEPT !.pc = "ready"]
<1>1. /\ leader[l].pc = "bind" /\ UNCHANGED <<files, client, raced, faults>>
      /\ sock' = (IF sock = None THEN l ELSE sock)
      /\ leader' = [leader EXCEPT ![l] = s]
  BY DEF Bind, At
<1>2. /\ s \in LeaderState /\ s.pc = "ready" /\ s.fd = leader[l].fd
      /\ s.srv = (IF sock = None THEN "up" ELSE leader[l].srv)
  BY DEF Types, LeaderState, LeaderPCs, LockedPCs, LinkedPCs
<1> HIDE DEF s
<1>3. /\ leader' \in [Leaders -> LeaderState]
      /\ leader'[l].pc = "ready" /\ leader'[l].fd = leader[l].fd
      /\ leader'[l].srv = (IF sock = None THEN "up" ELSE leader[l].srv)
      /\ \A k \in Leaders \ {l} : leader'[k] = leader[k]
  BY <1>1, <1>2, LeaderUpdate
<1>4. Types'
  BY <1>1, <1>3 DEF Types
<1>5. ASSUME NEW k \in Leaders PROVE LeaderHolds(k)'
  BY <1>1, <1>3 DEF LeaderHolds, LockedPCs, LinkedPCs, UnlinkedPCs
<1>6. ASSUME NEW c \in Clients PROVE ClientHolds(c)'
  BY <1>1 DEF ClientHolds
<1>7. PidInv'
  BY <1>1, <1>3 DEF Types, PidInv, Alive, LinkedPCs
<1>8. LinkInv'
  BY <1>1, <1>3 DEF LinkInv, LinkedPCs, UnlinkedPCs
<1>9. SockInv'
  BY <1>1, <1>3 DEF LeaderHolds, SockInv
<1> QED  BY <1>4, <1>5, <1>6, <1>7, <1>8, <1>9

\* A leader serves or gives up, and keeps its flock either way.
LEMMA ReadyStep ==
  ASSUME IInv, NEW l \in Leaders, Ready(l)
  PROVE  IInv'
<1> USE LeaderConstants DEF IInv, files
<1> DEFINE q == IF sock # None THEN "serving" ELSE "dropLock"
           v == IF sock # None \/ leader[l].srv = "none" THEN leader[l].srv ELSE "ending"
           s == [leader[l] EXCEPT !.pc = q, !.srv = v]
<1>0. leader[l] \in LeaderState
  BY DEF Types
<1>1. /\ leader[l].pc = "ready" /\ UNCHANGED <<files, sock, client, raced, faults>>
      /\ leader' = [leader EXCEPT ![l] = s]
  <2>1. CASE sock # None
    <3>1. [leader[l] EXCEPT !.pc = "serving"] = s
      BY <1>0, <2>1 DEF LeaderState
    <3> QED  BY <2>1, <3>1 DEF Ready, At
  <2>2. CASE sock = None
    BY <2>2 DEF Ready
  <2> QED  BY <2>1, <2>2
<1>2. s \in LeaderState /\ s.pc = q /\ s.fd = leader[l].fd /\ s.srv = v
  BY <1>0 DEF LeaderState, LeaderPCs, LockedPCs, LinkedPCs
<1> HIDE DEF s
<1>3. /\ leader' \in [Leaders -> LeaderState]
      /\ leader'[l].pc = q /\ leader'[l].fd = leader[l].fd /\ leader'[l].srv = v
      /\ \A k \in Leaders \ {l} : leader'[k] = leader[k]
  BY <1>1, <1>2, LeaderUpdate
<1>4. Types'
  BY <1>1, <1>3 DEF Types
<1>5. ASSUME NEW k \in Leaders PROVE LeaderHolds(k)'
  BY <1>1, <1>3 DEF LeaderHolds, LockedPCs, LinkedPCs, UnlinkedPCs
<1>6. ASSUME NEW c \in Clients PROVE ClientHolds(c)'
  BY <1>1 DEF ClientHolds
<1>7. PidInv'
  BY <1>1, <1>3 DEF Types, PidInv, Alive, LinkedPCs
<1>8. LinkInv'
  BY <1>1, <1>3 DEF LinkInv, LinkedPCs, UnlinkedPCs
<1>9. SockInv'
  BY <1>1, <1>3 DEF SockInv
<1> QED  BY <1>4, <1>5, <1>6, <1>7, <1>8, <1>9

\* The change a stop makes to a leader keeps the types.
LEMMA StopTypes ==
  ASSUME NEW ls \in [Leaders -> LeaderState], NEW l \in Leaders,
         "dropLock" \in LeaderPCs
  PROVE  [ls EXCEPT ![l] = [@ EXCEPT !.pc = "dropLock",
                    !.srv = IF ls[l].srv = "none" THEN "none" ELSE "ending"]]
           \in [Leaders -> LeaderState]
  BY DEF LeaderState

\* The server of a leader that stops is up no longer.
LEMMA StopStep ==
  ASSUME IInv, NEW l \in Leaders, Stop(l)
  PROVE  IInv'
<1> USE LeaderConstants DEF IInv, Stop, files
<1>1. Types'
  <2>1. faults' \in 0 .. MaxFaults
    BY FaultType DEF Types
  <2>2. leader' \in [Leaders -> LeaderState]
    BY StopTypes DEF Types, LeaderPCs, LockedPCs, LinkedPCs
  <2> QED  BY <2>1, <2>2 DEF Types, files
<1>2. ASSUME NEW k \in Leaders PROVE LeaderHolds(k)'
  BY DEF Types, LeaderState, LeaderHolds, LockedPCs, LinkedPCs, UnlinkedPCs
<1>3. ASSUME NEW c \in Clients PROVE ClientHolds(c)'
  BY DEF Types, LeaderState, LeaderHolds, ClientHolds, HeldPCs
<1>4. PidInv'
  BY DEF Types, LeaderState, LeaderHolds, PidInv, Alive, LockedPCs, LinkedPCs, UnlinkedPCs
<1>5. LinkInv'
  BY DEF Types, LeaderState, ClientState, LeaderHolds, ClientHolds, LinkInv,
         HeldPCs, LockedPCs, LinkedPCs, UnlinkedPCs
<1>6. SockInv'
  BY DEF Types, LeaderState, LeaderHolds, LinkInv, SockInv, LockedPCs, LinkedPCs, UnlinkedPCs
<1> QED  BY <1>1, <1>2, <1>3, <1>4, <1>5, <1>6

\* A cancelled server removes another leader's socket only in a race.
LEMMA ServerEndsStep ==
  ASSUME IInv, NEW l \in Leaders, ServerEnds(l)
  PROVE  IInv'
<1> USE LeaderConstants DEF IInv, ServerEnds, files
<1>1. Types'
  BY DEF Types, LeaderState, LeaderPCs, LockedPCs, LinkedPCs, UnlinkedPCs
<1>2. ASSUME NEW k \in Leaders PROVE LeaderHolds(k)'
  BY DEF Types, LeaderState, LeaderHolds, LockedPCs, LinkedPCs, UnlinkedPCs
<1>3. ASSUME NEW c \in Clients PROVE ClientHolds(c)'
  BY DEF Types, LeaderState, LeaderHolds, ClientHolds, HeldPCs
<1>4. PidInv'
  BY DEF Types, LeaderState, LeaderHolds, PidInv, Alive, LockedPCs, LinkedPCs, UnlinkedPCs
<1>5. LinkInv'
  BY DEF Types, LeaderState, ClientState, LeaderHolds, ClientHolds, LinkInv,
         HeldPCs, LockedPCs, LinkedPCs, UnlinkedPCs
<1>6. SockInv'
  <2> SUFFICES ASSUME ~raced', NEW k \in Leaders, leader'[k].srv = "up"
               PROVE  sock' = k
    BY DEF SockInv
  <2>1. ~raced /\ (leader[l].fd = None => sock \in {None, l})
    OBVIOUS
  <2>2. k # l /\ leader[k].srv = "up" /\ sock = k
    BY <2>1 DEF Types, LeaderState, SockInv
  <2>3. leader[k].pc \in LinkedPCs /\ leader[k].fd = path /\ path \in Inodes
        /\ flock[path] = k
    BY <2>1, <2>2 DEF LeaderHolds, LinkInv, LockedPCs, LinkedPCs
  <2>4. leader[l].fd # None
    BY <2>1, <2>2
  <2>5. leader[l].pc \in {"dropLock", "dropSock", "close"}
    BY <2>4 DEF LeaderHolds
  <2> QED  BY <2>1, <2>2, <2>3, <2>5 DEF LeaderHolds, LinkInv, LockedPCs, LinkedPCs, UnlinkedPCs
<1> QED  BY <1>1, <1>2, <1>3, <1>4, <1>5, <1>6

\* Nobody but the dropping leader holds the flock of the file it unlinks.
LEMMA DropLockStep ==
  ASSUME IInv, NEW l \in Leaders, DropLock(l)
  PROVE  IInv'
<1> USE LeaderConstants DEF IInv, DropLock, At
<1>1. Types'
  BY DEF Types, LeaderState, LeaderPCs, LockedPCs, LinkedPCs, UnlinkedPCs
<1>2. ASSUME NEW k \in Leaders PROVE LeaderHolds(k)'
  BY DEF Types, LeaderState, LeaderHolds, LockedPCs, LinkedPCs, UnlinkedPCs
<1>3. ASSUME NEW c \in Clients PROVE ClientHolds(c)'
  BY DEF Types, LeaderState, LeaderHolds, ClientHolds, HeldPCs
<1>4. PidInv'
  BY DEF Types, LeaderState, LeaderHolds, PidInv, Alive, LockedPCs, LinkedPCs, UnlinkedPCs
<1>5. LinkInv'
  BY DEF Types, LeaderState, ClientState, LeaderHolds, ClientHolds, LinkInv,
         HeldPCs, LockedPCs, LinkedPCs, UnlinkedPCs
<1>6. SockInv'
  BY DEF Types, LeaderState, LeaderHolds, LinkInv, SockInv, LockedPCs, LinkedPCs, UnlinkedPCs
<1> QED  BY <1>1, <1>2, <1>3, <1>4, <1>5, <1>6

\* The socket file that a Drop removes is nobody else's.
LEMMA DropSockStep ==
  ASSUME IInv, NEW l \in Leaders, DropSock(l)
  PROVE  IInv'
<1> USE LeaderConstants DEF IInv, DropSock, At, files
<1>1. Types'
  BY DEF Types, LeaderState, LeaderPCs, LockedPCs, LinkedPCs, UnlinkedPCs
<1>2. ASSUME NEW k \in Leaders PROVE LeaderHolds(k)'
  BY DEF Types, LeaderState, LeaderHolds, LockedPCs, LinkedPCs, UnlinkedPCs
<1>3. ASSUME NEW c \in Clients PROVE ClientHolds(c)'
  BY DEF Types, LeaderState, LeaderHolds, ClientHolds, HeldPCs
<1>4. PidInv'
  BY DEF Types, LeaderState, LeaderHolds, PidInv, Alive, LockedPCs, LinkedPCs, UnlinkedPCs
<1>5. LinkInv'
  BY DEF Types, LeaderState, ClientState, LeaderHolds, ClientHolds, LinkInv,
         HeldPCs, LockedPCs, LinkedPCs, UnlinkedPCs
<1>6. SockInv'
  BY DEF Types, LeaderState, LeaderHolds, LinkInv, SockInv, LockedPCs, LinkedPCs, UnlinkedPCs
<1> QED  BY <1>1, <1>2, <1>3, <1>4, <1>5, <1>6

\* The flock goes with the descriptor.
LEMMA CloseStep ==
  ASSUME IInv, NEW l \in Leaders, Close(l)
  PROVE  IInv'
<1> USE LeaderConstants DEF IInv, Close
<1>0. /\ leader[l].fd \in Inodes /\ flock[leader[l].fd] = l
      /\ flock' = [flock EXCEPT ![leader[l].fd] = None]
  BY DEF Types, LeaderHolds, Unlock, LockedPCs, LinkedPCs, UnlinkedPCs
<1>1. Types'
  <2> DEFINE s == IF leader[l].srv = "none" THEN Gone
                  ELSE [leader[l] EXCEPT !.pc = "exit", !.fd = None]
  <2>1. s \in LeaderState
    BY DEF Types, LeaderState, Gone, Unborn, LeaderPCs, LockedPCs, LinkedPCs, UnlinkedPCs
  <2>2. leader' = [leader EXCEPT ![l] = s]
    OBVIOUS
  <2> HIDE DEF s
  <2>3. leader' \in [Leaders -> LeaderState]
    BY <2>1, <2>2 DEF Types
  <2> QED  BY <1>0, <2>3 DEF Types
<1>2. ASSUME NEW k \in Leaders PROVE LeaderHolds(k)'
  BY <1>0 DEF Types, LeaderState, LeaderHolds, Gone, Unborn,
         LockedPCs, LinkedPCs, UnlinkedPCs
<1>3. ASSUME NEW c \in Clients PROVE ClientHolds(c)'
  <2>1. \A i \in Inodes : flock[i] = c <=> flock'[i] = c
    BY <1>0 DEF Types
  <2> QED  BY <1>0, <2>1 DEF Types, ClientHolds, HeldPCs
<1>4. PidInv'
  BY <1>0 DEF Types, LeaderState, LeaderHolds, PidInv, Alive, Gone, Unborn,
         LockedPCs, LinkedPCs, UnlinkedPCs
<1>5. LinkInv'
  BY <1>0 DEF Types, LeaderState, ClientState, LeaderHolds, ClientHolds, LinkInv,
         HeldPCs, Gone, Unborn, LockedPCs, LinkedPCs, UnlinkedPCs
<1>6. SockInv'
  BY <1>0 DEF Types, LeaderState, LeaderHolds, LinkInv, SockInv, Gone, Unborn,
         LockedPCs, LinkedPCs, UnlinkedPCs
<1> QED  BY <1>1, <1>2, <1>3, <1>4, <1>5, <1>6

\* A process that has closed everything exits.
LEMMA ExitStep ==
  ASSUME IInv, NEW l \in Leaders, Exit(l)
  PROVE  IInv'
<1> USE LeaderConstants DEF IInv, Exit, Gone, Unborn, files
<1>1. Types'
  BY DEF Types, LeaderState, LeaderPCs, LockedPCs, LinkedPCs, UnlinkedPCs
<1>2. ASSUME NEW k \in Leaders PROVE LeaderHolds(k)'
  BY DEF Types, LeaderState, LeaderHolds, LockedPCs, LinkedPCs, UnlinkedPCs
<1>3. ASSUME NEW c \in Clients PROVE ClientHolds(c)'
  BY DEF Types, LeaderState, LeaderHolds, ClientHolds, HeldPCs
<1>4. PidInv'
  BY DEF Types, LeaderState, LeaderHolds, PidInv, Alive, LockedPCs, LinkedPCs, UnlinkedPCs
<1>5. LinkInv'
  BY DEF Types, LeaderState, ClientState, LeaderHolds, ClientHolds, LinkInv,
         HeldPCs, LockedPCs, LinkedPCs, UnlinkedPCs
<1>6. SockInv'
  BY DEF Types, LeaderState, LeaderHolds, LinkInv, SockInv, LockedPCs, LinkedPCs, UnlinkedPCs
<1> QED  BY <1>1, <1>2, <1>3, <1>4, <1>5, <1>6

\* A hung leader keeps its flock.
LEMMA HangStep ==
  ASSUME IInv, NEW l \in Leaders, Hang(l)
  PROVE  IInv'
<1> USE LeaderConstants DEF IInv, Hang, At, files
<1>1. Types'
  <2>1. faults' \in 0 .. MaxFaults
    BY FaultType DEF Types
  <2>2. leader' \in [Leaders -> LeaderState]
    BY DEF Types, LeaderState, LeaderPCs, LockedPCs, LinkedPCs, UnlinkedPCs
  <2> QED  BY <2>1, <2>2 DEF Types, files
<1>2. ASSUME NEW k \in Leaders PROVE LeaderHolds(k)'
  BY DEF Types, LeaderState, LeaderHolds, LockedPCs, LinkedPCs, UnlinkedPCs
<1>3. ASSUME NEW c \in Clients PROVE ClientHolds(c)'
  BY DEF Types, LeaderState, LeaderHolds, ClientHolds, HeldPCs
<1>4. PidInv'
  BY DEF Types, LeaderState, LeaderHolds, PidInv, Alive, LockedPCs, LinkedPCs, UnlinkedPCs
<1>5. LinkInv'
  BY DEF Types, LeaderState, ClientState, LeaderHolds, ClientHolds, LinkInv,
         HeldPCs, LockedPCs, LinkedPCs, UnlinkedPCs
<1>6. SockInv'
  BY DEF Types, LeaderState, LeaderHolds, LinkInv, SockInv, LockedPCs, LinkedPCs, UnlinkedPCs
<1> QED  BY <1>1, <1>2, <1>3, <1>4, <1>5, <1>6

-----------------------------------------------------------------------------
(* Steps of a client.                                                      *)

\* A client's record is replaced by another one.
LEMMA ClientUpdate ==
  ASSUME Types, NEW c \in Clients, NEW s \in ClientState,
         client' = [client EXCEPT ![c] = s]
  PROVE  /\ client' \in [Clients -> ClientState] /\ client'[c] = s
         /\ \A d \in Clients \ {c} : client'[d] = client[d]
  BY DEF Types

\* What a client keeps when it only moves on: the files, the leaders and its
\* descriptor stay, and it does not hold a flock before or after.
LEMMA MovesOn ==
  ASSUME IInv, NEW c \in Clients, UNCHANGED <<files, sock, leader, raced>>,
         client[c].pc \notin HeldPCs, client'[c].pc \notin HeldPCs,
         client' \in [Clients -> ClientState], faults' \in 0 .. MaxFaults,
         \A d \in Clients \ {c} : client'[d] = client[d],
         ClientHolds(c)'
  PROVE  IInv'
<1> USE DEF IInv, files
<1>1. Types'
  BY DEF Types
<1>2. ASSUME NEW k \in Leaders PROVE LeaderHolds(k)'
  BY DEF LeaderHolds
<1>3. ASSUME NEW d \in Clients PROVE ClientHolds(d)'
  BY DEF ClientHolds
<1>4. PidInv'
  BY DEF PidInv, Alive
<1>5. LinkInv'
  BY DEF LinkInv
<1>6. SockInv'
  BY DEF SockInv
<1> QED  BY <1>1, <1>2, <1>3, <1>4, <1>5, <1>6

\* A client that connects at once returns; it has touched nothing.
LEMMA FastPathStep ==
  ASSUME IInv, NEW c \in Clients, FastPath(c)
  PROVE  IInv'
<1> USE LeaderConstants DEF IInv, FastPath, Fields, Return, Returned, files
<1>0. Reach = "ok" => sock \in Leaders
  BY ReachOk
<1>1. client' \in [Clients -> ClientState]
  BY <1>0 DEF Types, ClientState, ClientPCs, HeldPCs
<1>2. faults' \in 0 .. MaxFaults
  BY DEF Types
<1>3. /\ client[c].pc \notin HeldPCs /\ client'[c].pc \notin HeldPCs
      /\ \A d \in Clients \ {c} : client'[d] = client[d]
  BY <1>0 DEF Types, ClientState, HeldPCs
<1>4. ClientHolds(c)'
  BY <1>0 DEF Types, ClientState, ClientHolds, HeldPCs
<1> QED  BY <1>1, <1>2, <1>3, <1>4, MovesOn

\* A client adopts a leader that answers, or asks an old one to vacate.
LEMMA ConnectStep ==
  ASSUME IInv, NEW c \in Clients, Connect(c)
  PROVE  IInv'
<1> USE LeaderConstants DEF IInv, files
<1> DEFINE s == IF client[c].pc = "wait" /\ should_evict(sock, c)
                THEN [client[c] EXCEPT !.pc = "vacate", !.conn = sock, !.timer = None, !.rounds = 0]
                ELSE Returned(sock)
<1>0. sock \in Leaders /\ client[c] \in ClientState
  BY ReachOk DEF Connect, Types
<1>1. /\ client[c].pc \in {"wait", "waitSpawn"}
      /\ UNCHANGED <<files, sock, leader, raced, faults>>
      /\ client' = [client EXCEPT ![c] = s]
  BY DEF Connect, Return
<1>2. s \in ClientState /\ s.pc \in {"vacate", "done"} /\ (s.pc = "vacate" => s.conn = sock)
  <2>1. Returned(sock) \in ClientState /\ Returned(sock).pc = "done"
    BY <1>0 DEF ClientState, ClientPCs, Returned
  <2> DEFINE t == [client[c] EXCEPT !.pc = "vacate", !.conn = sock, !.timer = None, !.rounds = 0]
  <2>2. t \in ClientState /\ t.pc = "vacate" /\ t.conn = sock
    BY <1>0 DEF ClientState, ClientPCs
  <2> QED  BY <2>1, <2>2
<1> HIDE DEF s
<1>3. /\ client' \in [Clients -> ClientState] /\ client'[c].pc \in {"vacate", "done"}
      /\ client'[c].pc = "vacate" => client'[c].conn = sock
      /\ \A d \in Clients \ {c} : client'[d] = client[d]
  BY <1>1, <1>2, ClientUpdate
<1>4. faults' \in 0 .. MaxFaults
  BY <1>1 DEF Types
<1>5. ClientHolds(c)'
  BY <1>0, <1>1, <1>3 DEF ClientHolds, HeldPCs
<1> QED  BY <1>1, <1>3, <1>4, <1>5, MovesOn DEF HeldPCs

\* A failed poll is remembered.
LEMMA PollFailsStep ==
  ASSUME IInv, NEW c \in Clients, PollFails(c)
  PROVE  IInv'
<1> USE LeaderConstants DEF IInv, PollFails, files
<1>1. client' \in [Clients -> ClientState]
  BY DEF Types, ClientState, ClientPCs, HeldPCs
<1>2. faults' \in 0 .. MaxFaults
  BY DEF Types
<1>3. /\ client[c].pc \notin HeldPCs /\ client'[c].pc \notin HeldPCs
      /\ \A d \in Clients \ {c} : client'[d] = client[d]
  BY DEF Types, ClientState, HeldPCs
<1>4. ClientHolds(c)'
  BY DEF Types, ClientState, ClientHolds, HeldPCs
<1> QED  BY <1>1, <1>2, <1>3, <1>4, MovesOn

\* The self-spawn budget is kept: a retry is one of those still allowed.
LEMMA SpawnDeadlineStep ==
  ASSUME IInv, NEW c \in Clients, SpawnDeadline(c)
  PROVE  IInv'
<1> USE LeaderConstants DEF IInv, files
<1> DEFINE Kept == /\ client' \in [Clients -> ClientState]
                   /\ client'[c].pc \in {"open", "done"}
                   /\ \A d \in Clients \ {c} : client'[d] = client[d]
<1>1. client[c].pc = "waitSpawn" /\ UNCHANGED <<files, sock, leader, raced>>
  BY DEF SpawnDeadline
<1>2. faults' \in 0 .. MaxFaults
  BY FaultType DEF SpawnDeadline, TimesOut, Types
<1>3. Kept
  <2>1. CASE client' = [client EXCEPT ![c] = Returned("error")]
    BY <2>1 DEF Types, Returned, ClientState, ClientPCs, HeldPCs
  <2>2. CASE /\ client[c].spawns + 1 < MaxSelfSpawnAttempts
             /\ client' = [client EXCEPT ![c] = [@ EXCEPT !.pc = "open",
                                                 !.spawns = client[c].spawns + 1]]
    <3> DEFINE n == client[c].spawns + 1
               s == [client[c] EXCEPT !.pc = "open", !.spawns = n]
    <3>1. client[c] \in ClientState /\ n \in 0 .. MaxSelfSpawnAttempts - 1
      BY <2>2 DEF Types, ClientState
    <3>2. client' = [client EXCEPT ![c] = s]
      BY <2>2
    <3> HIDE DEF n
    <3>3. s \in ClientState /\ s.pc = "open"
      BY <3>1 DEF ClientState, ClientPCs
    <3> HIDE DEF s
    <3> QED  BY <3>2, <3>3, ClientUpdate
  <2>3. client[c].spawns \in Int /\ MaxSelfSpawnAttempts \in Int
    BY DEF Types, ClientState
  <2> QED  BY <2>1, <2>2, <2>3 DEF SpawnDeadline, Return
<1>4. ClientHolds(c)'
  BY <1>1, <1>3 DEF Types, ClientHolds, HeldPCs
<1> QED  BY <1>1, <1>2, <1>3, <1>4, MovesOn DEF HeldPCs

\* The eviction budget is kept, and whom the client goes on to signal is a
\* leader.
LEMMA WaitDeadlineStep ==
  ASSUME IInv, NEW c \in Clients, WaitDeadline(c)
  PROVE  IInv'
<1> USE LeaderConstants DEF IInv, files
<1> DEFINE me == client[c]
           holder == live_grok_lock_holder
           attempt == IF me.tracked = holder THEN me.evicts + 1 ELSE 1
           Kept == /\ client' \in [Clients -> ClientState]
                   /\ client'[c].pc \notin HeldPCs
                   /\ \A d \in Clients \ {c} : client'[d] = client[d]
                   /\ client'[c].pc = "term" => client'[c].conn \in Leaders
                   /\ client'[c].pc \in {"open", "term", "done"}
<1>0. me \in ClientState
  BY DEF Types
<1>1. holder \in Leaders \cup {None}
  BY DEF live_grok_lock_holder, read_pid, Types
<1>2. attempt \in Nat
  BY DEF Types, ClientState
<1>3. faults' \in 0 .. MaxFaults
  BY FaultType DEF WaitDeadline, TimesOut, Types
<1>4. me.pc = "wait" /\ UNCHANGED <<files, sock, leader, raced>>
  BY DEF WaitDeadline
<1>5. Kept
  <2>1. CASE me.err = "silent"
    <3>1. client' = [client EXCEPT ![c] = Returned("error")]
      BY <2>1 DEF WaitDeadline, Return
    <3> QED  BY <3>1 DEF Types, Returned, ClientState, ClientPCs, HeldPCs
  <2>2. CASE me.err # "silent" /\ holder = None
    <3> DEFINE s == [me EXCEPT !.pc = "open", !.timer = None, !.rounds = 0]
    <3>1. client' = [client EXCEPT ![c] = s]
      BY <2>2 DEF WaitDeadline
    <3>2. s \in ClientState /\ s.pc = "open"
      BY <1>0 DEF ClientState, ClientPCs
    <3> HIDE DEF s
    <3> QED  BY <3>1, <3>2, ClientUpdate DEF HeldPCs
  <2>3. CASE me.err # "silent" /\ holder # None /\ me.timer # holder
    <3> DEFINE s == [me EXCEPT !.pc = "open", !.timer = holder, !.rounds = 0]
    <3>1. client' = [client EXCEPT ![c] = s]
      BY <2>3 DEF WaitDeadline
    <3> HIDE DEF holder
    <3>2. s \in ClientState /\ s.pc = "open"
      BY <1>0, <1>1 DEF ClientState, ClientPCs
    <3> HIDE DEF s
    <3> QED  BY <3>1, <3>2, ClientUpdate DEF HeldPCs
  <2>4. CASE /\ me.err # "silent" /\ holder # None /\ me.timer = holder
             /\ me.rounds + 1 < ZombieRounds
    <3> DEFINE n == me.rounds + 1
               s == [me EXCEPT !.pc = "open", !.rounds = n]
    <3>1. client' = [client EXCEPT ![c] = s]
      BY <2>4 DEF WaitDeadline
    <3>2. n \in Nat
      BY <1>0 DEF ClientState
    <3> HIDE DEF n
    <3>3. s \in ClientState /\ s.pc = "open"
      BY <1>0, <3>2 DEF ClientState, ClientPCs
    <3> HIDE DEF s
    <3> QED  BY <3>1, <3>3, ClientUpdate DEF HeldPCs
  <2>5. CASE /\ me.err # "silent" /\ holder # None /\ me.timer = holder
             /\ ~(me.rounds + 1 < ZombieRounds)
    <3>1. CASE attempt > MaxZombieEvictAttempts
      <4>1. client' = [client EXCEPT ![c] = Returned("error")]
        BY <2>5, <3>1 DEF WaitDeadline, Return
      <4> QED  BY <4>1 DEF Types, Returned, ClientState, ClientPCs, HeldPCs
    <3>2. CASE ~(attempt > MaxZombieEvictAttempts)
      <4> DEFINE s == [me EXCEPT !.pc = "term", !.conn = holder, !.timer = None,
                                 !.rounds = 0, !.tracked = holder,
                                 !.evicts = attempt]
      <4>1. client' = [client EXCEPT ![c] = s]
        BY <2>5, <3>2 DEF WaitDeadline
      <4>2. attempt \in 0 .. MaxZombieEvictAttempts
        BY <1>2, <3>2
      <4> HIDE DEF holder, attempt
      <4>3. s \in ClientState /\ s.pc = "term" /\ s.conn \in Leaders
        BY <1>0, <1>1, <2>5, <4>2 DEF ClientState, ClientPCs
      <4> HIDE DEF s
      <4> QED  BY <4>1, <4>3, ClientUpdate DEF HeldPCs
    <3> QED  BY <3>1, <3>2
  <2> QED  BY <2>1, <2>2, <2>3, <2>4, <2>5
<1> HIDE DEF Kept, holder, attempt
<1>6. ClientHolds(c)'
  BY <1>4, <1>5 DEF Kept, Types, ClientHolds, HeldPCs
<1> QED  BY <1>3, <1>4, <1>5, <1>6, MovesOn DEF Kept, HeldPCs

\* The change that opening the lock file makes to a client keeps the types.
LEMMA OpenTypes ==
  ASSUME NEW cs \in [Clients -> ClientState], NEW c \in Clients, NEW i \in Inodes
  PROVE  [cs EXCEPT ![c] = [@ EXCEPT !.pc = "lock", !.fd = i]] \in [Clients -> ClientState]
<1> DEFINE s == [cs[c] EXCEPT !.pc = "lock", !.fd = i]
<1>1. s \in ClientState
  BY DEF ClientState, ClientPCs
<1>2. [cs EXCEPT ![c] = [@ EXCEPT !.pc = "lock", !.fd = i]] = [cs EXCEPT ![c] = s]
  OBVIOUS
<1> HIDE DEF s
<1> QED  BY <1>1, <1>2

\* So does the change a spawn makes.
LEMMA SpawnTypes ==
  ASSUME NEW cs \in [Clients -> ClientState], NEW c \in Clients
  PROVE  [cs EXCEPT ![c] = [@ EXCEPT !.pc = "waitSpawn", !.fd = None, !.err = "absent"]]
           \in [Clients -> ClientState]
<1> DEFINE s == [cs[c] EXCEPT !.pc = "waitSpawn", !.fd = None, !.err = "absent"]
<1>1. s \in ClientState
  BY DEF ClientState, ClientPCs
<1>2. [cs EXCEPT ![c] = [@ EXCEPT !.pc = "waitSpawn", !.fd = None, !.err = "absent"]]
        = [cs EXCEPT ![c] = s]
  OBVIOUS
<1> HIDE DEF s
<1> QED  BY <1>1, <1>2

\* So does naming a leader, or none.
LEMMA ConnTypes ==
  ASSUME NEW cs \in [Clients -> ClientState], NEW c \in Clients,
         NEW pc \in ClientPCs, NEW l \in Leaders \cup {None}
  PROVE  [cs EXCEPT ![c] = [@ EXCEPT !.pc = pc, !.conn = l]] \in [Clients -> ClientState]
<1> DEFINE s == [cs[c] EXCEPT !.pc = pc, !.conn = l]
<1>1. s \in ClientState
  BY DEF ClientState
<1>2. [cs EXCEPT ![c] = [@ EXCEPT !.pc = pc, !.conn = l]] = [cs EXCEPT ![c] = s]
  OBVIOUS
<1> HIDE DEF s
<1> QED  BY <1>1, <1>2

\* A client opens the lock file; creating it too early is a race.
LEMMA ClientOpenStep ==
  ASSUME IInv, NEW c \in Clients, ClientOpen(c)
  PROVE  IInv'
<1> USE LeaderConstants DEF IInv, ClientOpen, OpenLockFile
<1>1. Types'
  <2>1. client' \in [Clients -> ClientState]
    <3>1. client \in [Clients -> ClientState]
      BY DEF Types
    <3>2. PICK i \in Inodes : client' = [client EXCEPT ![c] = [@ EXCEPT !.pc = "lock", !.fd = i]]
      OBVIOUS
    <3> QED  BY ONLY <3>1, <3>2, OpenTypes, c \in Clients
  <2>2. path' \in Inodes \cup {None} /\ pid' \in Leaders \cup {None}
    BY DEF Types
  <2>3. raced' \in BOOLEAN
    BY DEF Types
  <2> QED  BY <2>1, <2>2, <2>3 DEF Types
<1>2. ASSUME NEW k \in Leaders PROVE LeaderHolds(k)'
  BY DEF LeaderHolds
<1>3. ASSUME NEW d \in Clients PROVE ClientHolds(d)'
  BY DEF Types, ClientState, ClientHolds, HeldPCs
<1>4. PidInv'
  BY DEF PidInv, Alive
<1>5. LinkInv'
  <2> SUFFICES ASSUME ~raced'
               PROVE  LinkInv'
    BY DEF LinkInv
  <2>1. ~raced /\ ~OpensTooEarly
    OBVIOUS
  <2>2. CASE path # None
    BY <2>1, <2>2 DEF Types, ClientState, LinkInv, HeldPCs
  <2>3. CASE path = None
    <3>1. \A k \in Leaders : leader[k].pc \notin LockedPCs
      BY <2>1, <2>3 DEF OpensTooEarly, LeaderHolds, LinkInv, LockedPCs, LinkedPCs, UnlinkedPCs
    <3>2. \A d \in Clients : client[d].pc \notin HeldPCs
      BY <2>1, <2>3 DEF ClientHolds, LinkInv
    <3> QED  BY <3>1, <3>2 DEF Types, ClientState, LinkInv, HeldPCs, LockedPCs
  <2> QED  BY <2>2, <2>3
<1>6. SockInv'
  BY DEF SockInv
<1> QED  BY <1>1, <1>2, <1>3, <1>4, <1>5, <1>6

\* A client takes the flock of the file at the path, or it is a race.
LEMMA ClientTryLockStep ==
  ASSUME IInv, NEW c \in Clients, ClientTryLock(c)
  PROVE  IInv'
<1> USE LeaderConstants DEF IInv
<1> DEFINE fd == client[c].fd
<1>0. /\ client[c].pc = "lock" /\ fd \in Inodes /\ client[c] \in ClientState
      /\ UNCHANGED <<path, pid, sock, leader, faults>>
  BY DEF ClientTryLock, ClientHolds, Types
<1>1. CASE flock[fd] = None
  <2> DEFINE s == [client[c] EXCEPT !.pc = "held"]
  <2>1. /\ flock' = [flock EXCEPT ![fd] = c] /\ raced' = (raced \/ fd # path)
        /\ client' = [client EXCEPT ![c] = s]
    BY <1>1 DEF ClientTryLock, LocksUnlinked, Fields
  <2>2. s \in ClientState /\ s.pc = "held" /\ s.fd = fd
    BY <1>0 DEF ClientState, ClientPCs, HeldPCs
  <2> HIDE DEF s
  <2>3. /\ client' \in [Clients -> ClientState]
        /\ client'[c].pc = "held" /\ client'[c].fd = fd
        /\ \A d \in Clients \ {c} : client'[d] = client[d]
    BY <2>1, <2>2, ClientUpdate
  <2>4. Types'
    BY <1>0, <2>1, <2>3 DEF Types
  <2>5. ASSUME NEW k \in Leaders PROVE LeaderHolds(k)'
    BY <1>0, <1>1, <2>1 DEF Types, LeaderHolds
  <2>6. ASSUME NEW d \in Clients PROVE ClientHolds(d)'
    BY <1>0, <1>1, <2>1, <2>3 DEF Types, ClientHolds, HeldPCs
  <2>7. PidInv' /\ SockInv'
    BY <1>0, <2>1 DEF PidInv, Alive, SockInv
  <2>8. LinkInv'
    BY <1>0, <2>1, <2>3 DEF LinkInv
  <2> QED  BY <2>4, <2>5, <2>6, <2>7, <2>8
<1>2. CASE flock[fd] # None
  <2> DEFINE s == [client[c] EXCEPT !.pc = "wait", !.fd = None, !.err = "absent"]
  <2>1. /\ UNCHANGED <<flock, raced>> /\ client' = [client EXCEPT ![c] = s]
    BY <1>2 DEF ClientTryLock
  <2>2. s \in ClientState /\ s.pc = "wait"
    BY <1>0 DEF ClientState, ClientPCs
  <2> HIDE DEF s
  <2>3. /\ client' \in [Clients -> ClientState] /\ client'[c].pc = "wait"
        /\ \A d \in Clients \ {c} : client'[d] = client[d]
    BY <2>1, <2>2, ClientUpdate
  <2>4. ClientHolds(c)'
    BY <1>0, <2>1, <2>3 DEF ClientHolds, HeldPCs
  <2>5. UNCHANGED <<files, sock, leader, raced>> /\ faults' \in 0 .. MaxFaults
    BY <1>0, <2>1 DEF files, Types
  <2> QED  BY <1>0, <2>3, <2>4, <2>5, MovesOn DEF HeldPCs
<1> QED  BY <1>1, <1>2

\* The descriptor that a client releases is the one whose flock it holds.
LEMMA Releases ==
  ASSUME IInv, NEW c \in Clients, client[c].pc \in HeldPCs,
         flock' = Unlock(client[c].fd)
  PROVE  /\ client[c].fd \in Inodes /\ flock[client[c].fd] = c
         /\ flock' = [flock EXCEPT ![client[c].fd] = None]
  BY LeaderConstants DEF IInv, ClientHolds, Unlock

\* A client lets go of the lock and spawns a leader.
LEMMA ReleaseAndSpawn ==
  ASSUME IInv, NEW c \in Clients, client[c].pc \in HeldPCs,
         flock' = Unlock(client[c].fd), SpawnLeader(c),
         UNCHANGED <<path, pid, sock, raced, faults>>
  PROVE  IInv'
<1> USE LeaderConstants DEF IInv
<1>1. /\ client[c].fd \in Inodes /\ flock[client[c].fd] = c
      /\ flock' = [flock EXCEPT ![client[c].fd] = None]
  BY Releases
<1>2. /\ client' \in [Clients -> ClientState]
      /\ client'[c].pc \in {"done", "waitSpawn"}
      /\ \A d \in Clients \ {c} : client'[d] = client[d]
  <2>1. CASE Return(c, "error")
    BY <2>1 DEF Types, Return, Returned, ClientState, ClientPCs, HeldPCs
  <2>2. CASE client' = [client EXCEPT ![c] = [@ EXCEPT !.pc = "waitSpawn", !.fd = None,
                          !.err = "absent"]]
    <3>1. client' \in [Clients -> ClientState]
      BY <2>2, SpawnTypes DEF Types
    <3>2. /\ client'[c].pc = "waitSpawn"
          /\ \A d \in Clients \ {c} : client'[d] = client[d]
      BY <2>2 DEF Types, ClientState
    <3> QED  BY <3>1, <3>2
  <2> QED  BY <2>1, <2>2, SpawnOutcomes
<1>3. \/ UNCHANGED leader
      \/ \E l \in Leaders :
           /\ leader[l].pc = "unborn"
           /\ leader' = [leader EXCEPT ![l] =
                           [@ EXCEPT !.pc = "open", !.ver = VersionOf[c]]]
  BY SpawnOutcomes
<1>4. /\ leader' \in [Leaders -> LeaderState]
      /\ \A k \in Leaders : \/ leader'[k] = leader[k]
                            \/ /\ leader[k].pc = "unborn" /\ leader'[k].pc = "open"
                               /\ leader'[k].srv = leader[k].srv
  <2>1. CASE UNCHANGED leader
    BY <2>1 DEF Types
  <2>2. ASSUME NEW l \in Leaders, leader[l].pc = "unborn",
               leader' = [leader EXCEPT ![l] =
                            [@ EXCEPT !.pc = "open", !.ver = VersionOf[c]]]
        PROVE  <1>4!:
    BY <2>2 DEF Types, LeaderState, LeaderPCs
  <2> QED  BY <1>3, <2>1, <2>2
<1>5. Types'
  BY <1>1, <1>2, <1>4 DEF Types
<1>6. ASSUME NEW k \in Leaders PROVE LeaderHolds(k)'
  <2>1. \A i \in Inodes : flock'[i] = k <=> flock[i] = k
    BY <1>1 DEF Types
  <2>2. CASE leader'[k] = leader[k]
    BY <2>1, <2>2 DEF LeaderHolds
  <2>3. CASE leader[k].pc = "unborn" /\ leader'[k].pc = "open" /\ leader'[k].srv = leader[k].srv
    BY <2>1, <2>3 DEF LeaderHolds, LockedPCs, LinkedPCs, UnlinkedPCs
  <2> QED  BY <1>4, <2>2, <2>3
<1>7. ASSUME NEW d \in Clients PROVE ClientHolds(d)'
  BY <1>1, <1>2 DEF Types, ClientHolds, HeldPCs
<1>8. PidInv'
  BY <1>4 DEF Types, PidInv, Alive
<1>9. LinkInv'
  BY <1>2, <1>4 DEF LinkInv, HeldPCs, LinkedPCs, UnlinkedPCs
<1>10. SockInv'
  BY <1>4 DEF SockInv
<1> QED  BY <1>5, <1>6, <1>7, <1>8, <1>9, <1>10

\* Replace spawns a leader after an eviction.
LEMMA ReplaceStep ==
  ASSUME IInv, NEW c \in Clients, Replace(c)
  PROVE  IInv'
  BY ReleaseAndSpawn DEF Replace, HeldPCs

\* A leader dies while a client keeps or gives up nothing it holds: the other
\* leaders, the files and the pid stay as they are.
LEMMA DeathStep ==
  ASSUME IInv, NEW l \in Leaders, Alive(l), Dies(l), NEW c \in Clients,
         UNCHANGED <<path, pid, sock, raced>>, faults' \in 0 .. MaxFaults,
         client' \in [Clients -> ClientState],
         client'[c].fd = client[c].fd,
         client'[c].pc \in HeldPCs <=> client[c].pc \in HeldPCs,
         client'[c].pc # "lock",
         client'[c].pc \in {"evict", "vacate", "term", "kill"} => client'[c].conn \in Leaders,
         \A d \in Clients \ {c} : client'[d] = client[d]
  PROVE  IInv'
<1> USE LeaderConstants DEF IInv, Dies, Gone, Unborn
<1>1. Types'
  BY DEF Types, LeaderState, LeaderPCs
<1>2. ASSUME NEW k \in Leaders PROVE LeaderHolds(k)'
  BY DEF Types, LeaderState, LeaderHolds, LockedPCs, LinkedPCs, UnlinkedPCs
<1>3. ASSUME NEW d \in Clients PROVE ClientHolds(d)'
  <2>1. \A i \in Inodes : flock'[i] = d <=> flock[i] = d
    BY DEF Types
  <2> QED  BY <2>1 DEF ClientHolds
<1>4. PidInv'
  BY DEF Types, PidInv, Alive
<1>5. LinkInv'
  BY DEF Types, LinkInv, LinkedPCs, UnlinkedPCs
<1>6. SockInv'
  BY DEF Types, SockInv
<1> QED  BY <1>1, <1>2, <1>3, <1>4, <1>5, <1>6

\* A leader drains while a client keeps what it holds.
LEMMA DrainStep ==
  ASSUME IInv, NEW l \in Leaders, leader[l].pc = "serving", leader[l].srv = "up",
         At(l, "draining"), NEW c \in Clients,
         UNCHANGED <<files, sock, raced>>, faults' \in 0 .. MaxFaults,
         client' \in [Clients -> ClientState],
         client'[c].fd = client[c].fd,
         client'[c].pc \in HeldPCs <=> client[c].pc \in HeldPCs,
         client'[c].pc # "lock",
         client'[c].pc \in {"evict", "vacate", "term", "kill"} => client'[c].conn \in Leaders,
         \A d \in Clients \ {c} : client'[d] = client[d]
  PROVE  IInv'
<1> USE LeaderConstants DEF IInv, At, files
<1>1. Types'
  BY DEF Types, LeaderState, LeaderPCs, LockedPCs, LinkedPCs
<1>2. ASSUME NEW k \in Leaders PROVE LeaderHolds(k)'
  BY DEF Types, LeaderState, LeaderHolds, LockedPCs, LinkedPCs, UnlinkedPCs
<1>3. ASSUME NEW d \in Clients PROVE ClientHolds(d)'
  BY DEF ClientHolds
<1>4. PidInv'
  BY DEF Types, LeaderState, PidInv, Alive, LinkedPCs
<1>5. LinkInv'
  BY DEF Types, LeaderState, LinkInv, LinkedPCs, UnlinkedPCs
<1>6. SockInv'
  BY DEF Types, LeaderState, SockInv
<1> QED  BY <1>1, <1>2, <1>3, <1>4, <1>5, <1>6

\* Only the client changes, and keeps what it holds.
LEMMA KeepStep ==
  ASSUME IInv, NEW c \in Clients, UNCHANGED <<files, sock, leader, raced>>,
         faults' \in 0 .. MaxFaults, client' \in [Clients -> ClientState],
         client'[c].fd = client[c].fd,
         client'[c].pc \in HeldPCs <=> client[c].pc \in HeldPCs,
         client'[c].pc # "lock",
         client'[c].pc \in {"evict", "vacate", "term", "kill"} => client'[c].conn \in Leaders,
         \A d \in Clients \ {c} : client'[d] = client[d]
  PROVE  IInv'
<1> USE DEF IInv, files
<1>1. Types'
  BY DEF Types
<1>2. ASSUME NEW k \in Leaders PROVE LeaderHolds(k)'
  BY DEF LeaderHolds
<1>3. ASSUME NEW d \in Clients PROVE ClientHolds(d)'
  BY DEF ClientHolds
<1>4. PidInv'
  BY DEF PidInv, Alive
<1>5. LinkInv'
  BY DEF LinkInv
<1>6. SockInv'
  BY DEF SockInv
<1> QED  BY <1>1, <1>2, <1>3, <1>4, <1>5, <1>6

\* A client that asks the leader it is connected to to vacate keeps what it
\* holds: the leader drains, a recorded one is ended, or nothing happens.
LEMMA VacateRequest ==
  ASSUME IInv, NEW l \in Leaders, NEW c \in Clients, request_leader_vacate(l, c),
         UNCHANGED <<path, pid, sock, raced, faults>>,
         client' \in [Clients -> ClientState],
         client'[c].fd = client[c].fd,
         client'[c].pc \in HeldPCs <=> client[c].pc \in HeldPCs,
         client'[c].pc # "lock",
         client'[c].pc \in {"evict", "vacate", "term", "kill"} => client'[c].conn \in Leaders,
         \A d \in Clients \ {c} : client'[d] = client[d]
  PROVE  IInv'
<1>0. Types /\ faults' \in 0 .. MaxFaults
  BY DEF IInv, Types
<1>1. CASE UNCHANGED <<leader, flock>>
  <2>1. UNCHANGED <<files, sock, leader, raced>>
    BY <1>1 DEF files
  <2> QED  BY <1>0, <2>1, KeepStep
<1>2. CASE /\ leader[l].pc = "serving" /\ leader[l].srv = "up"
           /\ At(l, "draining") /\ UNCHANGED flock
  <2>1. UNCHANGED <<files, sock, raced>>
    BY <1>2 DEF files
  <2> QED  BY <1>0, <1>2, <2>1, DrainStep
<1>3. ASSUME NEW k \in Leaders, Alive(k), Dies(k)
      PROVE  IInv'
  BY <1>0, <1>3, DeathStep
<1> QED  BY <1>0, <1>1, <1>2, <1>3, VacateOutcomes

\* The same when a client signals a leader.
LEMMA Signal ==
  ASSUME IInv, NEW l \in Leaders, NEW c \in Clients,
         (Alive(l) /\ Dies(l)) \/ UNCHANGED <<leader, flock>>,
         UNCHANGED <<path, pid, sock, raced>>, faults' \in 0 .. MaxFaults,
         client' \in [Clients -> ClientState],
         client'[c].fd = client[c].fd,
         client'[c].pc \in HeldPCs <=> client[c].pc \in HeldPCs,
         client'[c].pc # "lock",
         client'[c].pc \in {"evict", "vacate", "term", "kill"} => client'[c].conn \in Leaders,
         \A d \in Clients \ {c} : client'[d] = client[d]
  PROVE  IInv'
<1>1. CASE UNCHANGED <<leader, flock>>
  <2>1. UNCHANGED <<files, sock, leader, raced>>
    BY <1>1 DEF files
  <2> QED  BY <2>1, KeepStep
<1>2. CASE Alive(l) /\ Dies(l)
  BY <1>2, DeathStep
<1> QED  BY <1>1, <1>2

\* Under the flock: an eviction begins, the leader is adopted, or one is
\* spawned.
LEMMA HeldStep ==
  ASSUME IInv, NEW c \in Clients, Held(c)
  PROVE  IInv'
<1> USE LeaderConstants
<1> DEFINE found == Reach = "ok" /\ read_pid # None /\ Alive(read_pid)
<1>0. /\ client[c].pc = "held" /\ Types /\ client \in [Clients -> ClientState]
      /\ UNCHANGED <<path, pid, sock, raced, faults>>
  BY DEF Held, IInv, Types
<1>1. found => sock \in Leaders /\ read_pid \in Leaders
  BY <1>0, ReachOk DEF read_pid, Types
<1>2. CASE found /\ should_evict(sock, c)
  <2>1. /\ request_leader_vacate(sock, c)
        /\ client' = [client EXCEPT ![c] = [@ EXCEPT !.pc = "evict", !.conn = read_pid]]
    BY <1>2 DEF Held
  <2>2. client' \in [Clients -> ClientState]
    BY <1>0, <1>1, <1>2, <2>1, ConnTypes DEF ClientPCs, HeldPCs
  <2>3. /\ client'[c].fd = client[c].fd /\ client'[c].pc = "evict"
        /\ client'[c].conn = read_pid
        /\ \A d \in Clients \ {c} : client'[d] = client[d]
    BY <1>0, <2>1 DEF ClientState
  <2> QED  BY <1>0, <1>1, <1>2, <2>1, <2>2, <2>3, VacateRequest DEF HeldPCs
<1>3. CASE found /\ ~should_evict(sock, c)
  <2>1. /\ flock' = Unlock(client[c].fd) /\ UNCHANGED leader
        /\ client' = [client EXCEPT ![c] = Returned(sock)]
    BY <1>3 DEF Held, Return
  <2>2. /\ client[c].fd \in Inodes /\ flock[client[c].fd] = c
        /\ flock' = [flock EXCEPT ![client[c].fd] = None]
    BY <1>0, <2>1, Releases DEF HeldPCs
  <2>3. Returned(sock) \in ClientState /\ Returned(sock).pc = "done"
    BY <1>1, <1>3 DEF Returned, ClientState, ClientPCs
  <2>4. /\ client' \in [Clients -> ClientState] /\ client'[c].pc = "done"
        /\ \A d \in Clients \ {c} : client'[d] = client[d]
    BY <1>0, <2>1, <2>3
  <2> USE DEF IInv
  <2>5. Types'
    BY <1>0, <2>1, <2>2, <2>4 DEF Types
  <2>6. ASSUME NEW k \in Leaders PROVE LeaderHolds(k)'
    <3>1. \A i \in Inodes : flock'[i] = k <=> flock[i] = k
      BY <1>0, <2>2 DEF Types
    <3> QED  BY <2>1, <3>1 DEF LeaderHolds
  <2>7. ASSUME NEW d \in Clients PROVE ClientHolds(d)'
    BY <1>0, <2>2, <2>4 DEF Types, ClientHolds, HeldPCs
  <2>8. PidInv'
    BY <1>0, <2>1 DEF PidInv, Alive
  <2>9. LinkInv'
    BY <1>0, <2>1, <2>4 DEF LinkInv, HeldPCs
  <2>10. SockInv'
    BY <1>0, <2>1 DEF SockInv
  <2> QED  BY <2>5, <2>6, <2>7, <2>8, <2>9, <2>10
<1>4. CASE ~found
  <2>1. flock' = Unlock(client[c].fd) /\ SpawnLeader(c)
    BY <1>4 DEF Held
  <2> QED  BY <1>0, <2>1, ReleaseAndSpawn DEF HeldPCs
<1> QED  BY <1>2, <1>3, <1>4

\* evict_leader signals a leader and goes on holding the lock.
LEMMA EvictLeaderStep ==
  ASSUME IInv, NEW c \in Clients, EvictLeader(c)
  PROVE  IInv'
<1> USE LeaderConstants
<1>0. /\ client[c].pc = "evict" /\ client \in [Clients -> ClientState]
      /\ client' = [client EXCEPT ![c] = [@ EXCEPT !.pc = "evicted", !.conn = None]]
      /\ UNCHANGED <<path, pid, sock, raced>> /\ faults' \in 0 .. MaxFaults
      /\ Sigterm(client[c].conn)
  BY DEF EvictLeader, IInv, Types
<1>1. client[c].conn \in Leaders
  BY <1>0 DEF IInv, ClientHolds
<1>2. client' \in [Clients -> ClientState]
  BY <1>0, ConnTypes DEF ClientPCs, HeldPCs
<1>3. /\ client'[c].fd = client[c].fd /\ client'[c].pc = "evicted"
      /\ \A d \in Clients \ {c} : client'[d] = client[d]
  BY <1>0 DEF ClientState
<1> QED  BY <1>0, <1>1, <1>2, <1>3, SigtermOutcomes, Signal DEF HeldPCs

\* A client that met an old leader while another held the lock asks it to
\* vacate and starts over.
LEMMA VacateStep ==
  ASSUME IInv, NEW c \in Clients, Vacate(c)
  PROVE  IInv'
<1> USE LeaderConstants
<1>0. /\ client[c].pc = "vacate" /\ client \in [Clients -> ClientState]
      /\ client' = [client EXCEPT ![c] = [@ EXCEPT !.pc = "open", !.conn = None]]
      /\ UNCHANGED <<path, pid, sock, raced, faults>>
      /\ request_leader_vacate(client[c].conn, c)
  BY DEF Vacate, IInv, Types
<1>1. client[c].conn \in Leaders
  BY <1>0 DEF IInv, ClientHolds
<1>2. client' \in [Clients -> ClientState]
  BY <1>0, ConnTypes DEF ClientPCs, HeldPCs
<1>3. /\ client'[c].fd = client[c].fd /\ client'[c].pc = "open"
      /\ \A d \in Clients \ {c} : client'[d] = client[d]
  BY <1>0 DEF ClientState
<1> QED  BY <1>0, <1>1, <1>2, <1>3, VacateRequest DEF HeldPCs

\* A zombie leader is asked to end.
LEMMA EvictTermStep ==
  ASSUME IInv, NEW c \in Clients, EvictTerm(c)
  PROVE  IInv'
<1> USE LeaderConstants
<1>0. /\ client[c].pc = "term" /\ client \in [Clients -> ClientState]
      /\ client' = [client EXCEPT ![c].pc = "kill"]
      /\ UNCHANGED <<path, pid, sock, raced>> /\ faults' \in 0 .. MaxFaults
      /\ Sigterm(client[c].conn)
  BY DEF EvictTerm, Fields, IInv, Types
<1>1. client[c].conn \in Leaders
  BY <1>0 DEF IInv, ClientHolds
<1>2. client' \in [Clients -> ClientState]
  BY <1>0 DEF ClientState, ClientPCs, HeldPCs
<1>3. /\ client'[c].fd = client[c].fd /\ client'[c].pc = "kill"
      /\ client'[c].conn = client[c].conn
      /\ \A d \in Clients \ {c} : client'[d] = client[d]
  BY <1>0 DEF ClientState
<1> QED  BY <1>0, <1>1, <1>2, <1>3, SigtermOutcomes, Signal DEF HeldPCs

\* A zombie leader is killed, or cannot be.
LEMMA EvictKillStep ==
  ASSUME IInv, NEW c \in Clients, EvictKill(c)
  PROVE  IInv'
<1> USE LeaderConstants
<1>0. /\ client[c].pc = "kill" /\ client \in [Clients -> ClientState]
      /\ client' = [client EXCEPT ![c] = [@ EXCEPT !.pc = "open", !.conn = None]]
      /\ UNCHANGED <<path, pid, sock, raced>> /\ Types
  BY DEF EvictKill, IInv, Types
<1>1. client[c].conn \in Leaders
  BY <1>0 DEF IInv, ClientHolds
<1>2. client' \in [Clients -> ClientState]
  BY <1>0, ConnTypes DEF ClientPCs, HeldPCs
<1>3. /\ client'[c].fd = client[c].fd /\ client'[c].pc = "open"
      /\ \A d \in Clients \ {c} : client'[d] = client[d]
  BY <1>0 DEF ClientState
<1>4. faults' \in 0 .. MaxFaults
  BY <1>0, FaultType DEF EvictKill, Types
<1>5. \/ Alive(client[c].conn) /\ Dies(client[c].conn)
      \/ UNCHANGED <<leader, flock>>
  BY DEF EvictKill
<1> QED  BY <1>0, <1>1, <1>2, <1>3, <1>4, <1>5, Signal DEF HeldPCs

\* The kernel releases the flock of a client that dies.
LEMMA ClientDiesStep ==
  ASSUME IInv, NEW c \in Clients, ClientDies(c)
  PROVE  IInv'
<1> USE LeaderConstants DEF IInv, ClientDies
<1>0. faults' \in 0 .. MaxFaults
  BY FaultType
<1>1. /\ client' \in [Clients -> ClientState] /\ client'[c].pc = "done"
      /\ \A d \in Clients \ {c} : client'[d] = client[d]
  BY DEF Types, Return, Returned, ClientState, ClientPCs, HeldPCs
<1>2. Types'
  BY <1>0, <1>1 DEF Types
<1>3. ASSUME NEW k \in Leaders PROVE LeaderHolds(k)'
  <2>1. \A i \in Inodes : flock'[i] = k <=> flock[i] = k
    BY DEF Types
  <2> QED  BY <2>1 DEF LeaderHolds
<1>4. ASSUME NEW d \in Clients PROVE ClientHolds(d)'
  BY <1>1 DEF Types, ClientHolds, HeldPCs
<1>5. PidInv'
  BY DEF PidInv, Alive
<1>6. LinkInv'
  BY <1>1 DEF LinkInv, HeldPCs
<1>7. SockInv'
  BY DEF SockInv
<1> QED  BY <1>2, <1>3, <1>4, <1>5, <1>6, <1>7

-----------------------------------------------------------------------------
(* The invariant and what follows from it.                                 *)

\* The states the system starts in, with and without an old leader.
LEMMA InitIInv == Init => IInv
<1> SUFFICES ASSUME Init
             PROVE  IInv
  OBVIOUS
<1> USE LeaderConstants DEF Init
<1>1. /\ client \in [Clients -> ClientState] /\ raced = FALSE /\ faults \in 0 .. MaxFaults
      /\ \A c \in Clients : client[c].pc = "start"
  BY DEF Calling, Returned, ClientState, ClientPCs
<1>2. CASE /\ path = None /\ sock = None /\ pid = None
           /\ flock = [i \in Inodes |-> None]
           /\ leader = [l \in Leaders |-> Unborn]
  <2>1. Types
    BY <1>1, <1>2 DEF Types, Unborn, LeaderState, LeaderPCs
  <2>2. \A l \in Leaders : LeaderHolds(l)
    BY <1>2 DEF LeaderHolds, Unborn, LockedPCs, LinkedPCs, UnlinkedPCs
  <2>3. \A c \in Clients : ClientHolds(c)
    BY <1>1, <1>2 DEF ClientHolds, HeldPCs
  <2>4. PidInv /\ LinkInv /\ SockInv
    BY <1>1, <1>2 DEF PidInv, LinkInv, SockInv, Unborn, HeldPCs, LinkedPCs, UnlinkedPCs
  <2> QED  BY <2>1, <2>2, <2>3, <2>4 DEF IInv
<1>3. ASSUME NEW l \in Leaders, NEW i \in Inodes, NEW v \in OldVersions,
             path = i, sock = l, pid = l,
             flock = [x \in Inodes |-> IF x = i THEN l ELSE None],
             leader = [[x \in Leaders |-> Unborn] EXCEPT ![l] =
                         [pc |-> "serving", fd |-> i, ver |-> v, srv |-> "up"]]
      PROVE  IInv
  <2>0. /\ leader[l] = [pc |-> "serving", fd |-> i, ver |-> v, srv |-> "up"]
        /\ \A k \in Leaders \ {l} : leader[k] = Unborn
        /\ leader \in [Leaders -> LeaderState]
    BY <1>3 DEF Unborn, LeaderState, LeaderPCs, LockedPCs, LinkedPCs
  <2>1. Types
    BY <1>1, <1>3, <2>0 DEF Types
  <2>2. ASSUME NEW k \in Leaders PROVE LeaderHolds(k)
    BY <1>3, <2>0 DEF LeaderHolds, Unborn, LockedPCs, LinkedPCs, UnlinkedPCs
  <2>3. ASSUME NEW c \in Clients PROVE ClientHolds(c)
    BY <1>1, <1>3 DEF ClientHolds, HeldPCs
  <2>4. PidInv
    BY <1>3, <2>0 DEF PidInv, LinkedPCs
  <2>5. LinkInv /\ SockInv
    BY <1>1, <1>3, <2>0 DEF LinkInv, SockInv, Unborn, HeldPCs, LinkedPCs, UnlinkedPCs
  <2> QED  BY <2>1, <2>2, <2>3, <2>4, <2>5 DEF IInv
<1>4. CASE ~(path = None /\ sock = None)
  <2> DEFINE l == CHOOSE x \in Leaders : TRUE
             i == CHOOSE x \in Inodes : TRUE
  <2>1. l \in Leaders /\ i \in Inodes
    OBVIOUS
  <2>2. /\ path = i /\ sock = l /\ pid = l
        /\ flock = [x \in Inodes |-> IF x = i THEN l ELSE None]
        /\ \E v \in OldVersions :
             leader = [[x \in Leaders |-> Unborn] EXCEPT ![l] =
                         [pc |-> "serving", fd |-> i, ver |-> v, srv |-> "up"]]
    BY <1>4
  <2> HIDE DEF l, i
  <2> QED  BY <1>3, <2>1, <2>2
<1>5. CASE path = None /\ sock = None
  BY <1>2, <1>3, <1>5
<1> QED  BY <1>4, <1>5

\* Every step of every process keeps the invariant.
LEMMA NextIInv == IInv /\ [Next]_vars => IInv'
<1> SUFFICES ASSUME IInv, [Next]_vars
             PROVE  IInv'
  OBVIOUS
<1>1. CASE UNCHANGED vars
  <2> USE <1>1 DEF vars
  <2>1. Types'
    BY DEF IInv, Types
  <2>2. ASSUME NEW l \in Leaders PROVE LeaderHolds(l)'
    BY DEF IInv, LeaderHolds
  <2>3. ASSUME NEW c \in Clients PROVE ClientHolds(c)'
    BY DEF IInv, ClientHolds
  <2>4. PidInv' /\ LinkInv' /\ SockInv'
    BY DEF IInv, PidInv, Alive, LinkInv, SockInv
  <2> QED  BY <2>1, <2>2, <2>3, <2>4 DEF IInv
<1>2. ASSUME NEW l \in Leaders, LeaderStep(l) \/ Stop(l) \/ Hang(l)
      PROVE  IInv'
  BY <1>2, OpenStep, TryLockStep, WritePidStep, CleanupSocketStep, BindStep,
     ReadyStep, StopStep, ServerEndsStep, DropLockStep, DropSockStep, CloseStep,
     ExitStep, HangStep DEF LeaderStep
<1>3. ASSUME NEW c \in Clients, ClientStep(c) \/ ClientDies(c)
      PROVE  IInv'
  BY <1>3, FastPathStep, ClientOpenStep, ClientTryLockStep, HeldStep,
     EvictLeaderStep, ReplaceStep, ConnectStep, PollFailsStep, VacateStep,
     SpawnDeadlineStep, WaitDeadlineStep, EvictTermStep, EvictKillStep,
     ClientDiesStep DEF ClientStep
<1> QED  BY <1>1, <1>2, <1>3 DEF Next

\* The inductive invariant holds in every reachable state.
THEOREM Invariance == Spec => []IInv
<1>1. Init => IInv
  BY InitIInv
<1>2. IInv /\ [Next]_vars => IInv'
  BY NextIInv
<1> QED  BY <1>1, <1>2, PTL DEF Spec

\* Without a race two leaders cannot both hold a flock.
LEMMA AtMostOne ==
  ASSUME IInv, ~raced, NEW k \in Established, NEW l \in Established
  PROVE  k = l
<1>1. /\ leader[k].pc \in LockedPCs /\ flock[leader[k].fd] = k /\ leader[k].fd \in Inodes
      /\ leader[l].pc \in LockedPCs /\ flock[leader[l].fd] = l /\ leader[l].fd \in Inodes
  BY DEF Established, IInv, LeaderHolds
<1>2. k \in Leaders /\ l \in Leaders /\ None \notin Inodes
  BY LeaderConstants DEF Established
<1> QED  BY <1>1, <1>2 DEF IInv, LinkInv, LockedPCs
\* The recorded leader of a live lock file holds its flock, so nobody else does.
LEMMA RecordedHolds ==
  ASSUME IInv, pid # None, Alive(pid)
  PROVE  pid \in Leaders /\ path \in Inodes /\ flock[path] = pid
  BY DEF IInv, Types, PidInv, LeaderHolds, LockedPCs

\* Type correctness, and the budgets of connect_or_spawn: no zombie is
\* signalled more than MAX_ZOMBIE_EVICT_ATTEMPTS times and no client spawns
\* more than MAX_SELF_SPAWN_ATTEMPTS leaders, however many processes there are.
THEOREM LeaderTypes == Spec => []TypeOK
<1>1. IInv => TypeOK
  <2> SUFFICES ASSUME IInv
               PROVE  TypeOK
    OBVIOUS
  <2>1. Types /\ (path = None => pid = None)
    BY DEF IInv, PidInv
  <2>2. ASSUME NEW c \in Clients
        PROVE  /\ client[c].evicts <= MaxZombieEvictAttempts
               /\ client[c].spawns < MaxSelfSpawnAttempts
    BY <2>1, LeaderConstants DEF Types, ClientState
  <2>3. ASSUME NEW l \in Leaders
        PROVE  leader[l].fd \in Inodes \cup {None}
    BY <2>1 DEF Types, LeaderState
  <2> QED  BY <2>1, <2>2, <2>3 DEF TypeOK, Types
<1> QED  BY <1>1, Invariance, PTL

\* One leader at a time: whatever starts, stops, hangs, is evicted or dies, at
\* most one process holds a leader's flock, and the socket that clients find
\* is that of the server that is up - unless one of the unlink races happened.
THEOREM OneLeaderAtATime == Spec => []OneLeader
<1>1. IInv => OneLeader
  <2> SUFFICES ASSUME IInv, ~raced
               PROVE  /\ Cardinality(Established) <= 1
                      /\ \A l \in Leaders : leader[l].srv = "up" => l \in Established /\ sock = l
    BY DEF OneLeader
  <2>1. Cardinality(Established) <= 1
    <3>1. CASE Established = {}
      BY <3>1, FS_EmptySet
    <3>2. CASE Established # {}
      <4>1. PICK l \in Established : TRUE
        BY <3>2
      <4>2. Established = {l}
        BY <4>1, AtMostOne
      <4> QED  BY <4>2, FS_Singleton
    <3> QED  BY <3>1, <3>2
  <2>2. ASSUME NEW l \in Leaders, leader[l].srv = "up"
        PROVE  l \in Established /\ sock = l
    <3>1. leader[l].fd \in Inodes /\ flock[leader[l].fd] = l
      BY <2>2 DEF IInv, LeaderHolds, LockedPCs, LinkedPCs
    <3> QED  BY <2>2, <3>1 DEF Established, IInv, SockInv
  <2> QED  BY <2>1, <2>2
<1> QED  BY <1>1, Invariance, PTL

\* A client that holds the flock of the file at the path never finds the
\* recorded leader alive and answering, races or not: the branch in which
\* connect_or_spawn evicts under the lock acts only on an unlinked lock file.
THEOREM LockMeansNobody == Spec => []NobodyUnderLock
<1>1. IInv => NobodyUnderLock
  <2> SUFFICES ASSUME IInv, NEW c \in Clients, client[c].pc = "held",
                      client[c].fd = path, read_pid # None, Alive(read_pid)
               PROVE  FALSE
    BY DEF NobodyUnderLock
  <2>1. flock[path] = c
    BY DEF IInv, ClientHolds, HeldPCs
  <2>2. flock[path] \in Leaders
    BY RecordedHolds DEF read_pid
  <2> QED  BY <2>1, <2>2, LeaderConstants
<1> QED  BY <1>1, Invariance, PTL
=============================================================================
