--------------------------- MODULE LeaderElection ---------------------------
(***************************************************************************)
(* Election, replacement and eviction of the leader process (xai-grok-     *)
(* shell, leader/lock.rs, leader/mod.rs and run_leader of agent/app.rs).   *)
(*                                                                         *)
(* A client connects to the leader's socket or spawns a leader.  What      *)
(* keeps leaders apart is a flock on a lock file, and a file is not its    *)
(* path: a process opens the path, then locks the inode it got, and the    *)
(* Drop of a leader's lock unlinks the path before the descriptor closes.  *)
(* So the model has inodes, descriptors and the two paths (lock, socket),  *)
(* and every system call on them is a step of its own.                     *)
(*                                                                         *)
(* Linux is modelled: the holder of a flock can be looked up, a listener   *)
(* is a socket file.  Timeouts may fire whenever what they wait for has    *)
(* not been observed.  A process that exits closes its descriptors in the  *)
(* same step; process identifiers are not reused.                          *)
(***************************************************************************)
EXTENDS Naturals, FiniteSets

CONSTANTS
  Clients,          \* processes calling connect_or_spawn
  Leaders,          \* processes that may be spawned to be the leader
  Inodes,           \* inodes the lock file may get
  None,             \* no file, no process, no descriptor
  VersionOf,        \* version of each client, and of the leaders it spawns
  OldVersions,      \* versions of the leader that may be running at the start
  Legacy,           \* versions of leaders that cannot be asked to relaunch
  ZombieRounds,     \* ZOMBIE_EVICT_DEADLINE in rounds of SPAWN_WAIT_TIMEOUT
  MaxZombieEvictAttempts,
  MaxSelfSpawnAttempts,
  MaxFaults         \* bound: hangs, exits of a leader of its own accord,
                    \* deaths of clients and signals without effect

ASSUME LeaderConstants ==
  /\ IsFiniteSet(Clients) /\ IsFiniteSet(Leaders) /\ IsFiniteSet(Inodes)
  /\ None \notin Clients \cup Leaders \cup Inodes
  /\ Leaders # {} /\ Inodes # {} /\ Leaders \cap Clients = {}
  /\ VersionOf \in [Clients -> Nat] /\ OldVersions \subseteq Nat
  /\ Legacy \subseteq Nat
  /\ {ZombieRounds, MaxZombieEvictAttempts, MaxSelfSpawnAttempts} \subseteq Nat \ {0}
  /\ MaxFaults \in Nat

VARIABLES
  path,     \* inode of the lock file, or None
  flock,    \* per inode: the process that holds its flock, or None
  pid,      \* pid written to the file at the path, or None
  sock,     \* leader whose bind created the socket file, or None
  leader,   \* per leader: where run_leader is, its descriptor, version, server
  client,   \* per client: where connect_or_spawn is, and its locals
  raced,    \* the lock file was unlinked under another process's descriptor
  faults    \* faults spent

files == <<path, flock, pid>>
vars == <<path, flock, pid, sock, leader, client, raced, faults>>

-----------------------------------------------------------------------------
(* Processes and files.                                                    *)

Unborn == [pc |-> "unborn", fd |-> None, ver |-> 0, srv |-> "none"]
Gone == [Unborn EXCEPT !.pc = "gone"]

\* is_process_alive.
Alive(l) == leader[l].pc \notin {"unborn", "gone"}

\* read_pid: what the file at the lock path says.
read_pid == pid

\* What connecting to the socket gives: a registered connection, a connection
\* nobody answers on, a refusal, or nothing to connect to.
Reach ==
  IF sock = None THEN "absent"
  ELSE CASE leader[sock].srv = "up" -> "ok"
         [] leader[sock].srv \in {"hung", "ending"} -> "silent"
         [] leader[sock].srv = "none" -> "refused"

leader_is_older_than(v, w) == v < w

\* Mutant: any other version is evicted.
should_evict_other(l, c) == leader[l].ver # VersionOf[c]

should_evict(l, c) == leader_is_older_than(leader[l].ver, VersionOf[c])

Descriptors ==
  {leader[l].fd : l \in Leaders} \cup {client[c].fd : c \in Clients}

\* open_lock_file: the inode at the path, or a new empty one.
Fresh == CHOOSE i \in Inodes : i \notin Descriptors \cup {path} /\ flock[i] = None

OpenLockFile(i) ==
  IF path # None
  THEN i = path /\ UNCHANGED <<path, pid>>
  ELSE i = Fresh /\ path' = i /\ pid' = None

\* The file is created again while the process that unlinked it still holds
\* its flock.
OpensTooEarly ==
  path = None /\ \E l \in Leaders : leader[l].pc \in {"dropSock", "close"}

\* The flock that is taken is one of a file no longer at the path.
LocksUnlinked(fd) == fd # path

Unlock(fd) == IF fd = None THEN flock ELSE [flock EXCEPT ![fd] = None]

\* A leader process ends; the kernel closes what it had open, the files stay.
Dies(l) ==
  /\ leader' = [leader EXCEPT ![l] = Gone]
  /\ flock' = [i \in Inodes |-> IF flock[i] = l THEN None ELSE flock[i]]

Stuck(l) == leader[l].pc = "stalled" \/ leader[l].srv = "hung"

\* SIGTERM ends a leader (its handler flushes and exits, and runs no Drop);
\* one that is stuck may not get to its handler.
Sigterm(l) ==
  IF ~Alive(l) THEN UNCHANGED <<leader, flock>>
  ELSE \/ Dies(l)
       \/ Stuck(l) /\ UNCHANGED <<leader, flock>>

Fault == faults < MaxFaults /\ faults' = faults + 1

-----------------------------------------------------------------------------
(* run_leader.                                                             *)

At(l, pc) == leader' = [leader EXCEPT ![l].pc = pc]

\* try_acquire and each round of acquire_reopen_timeout open the path anew.
Open(l) ==
  /\ leader[l].pc \in {"open", "reopen"}
  /\ \E i \in Inodes :
       /\ OpenLockFile(i)
       /\ leader' = [leader EXCEPT ![l] = [@ EXCEPT !.fd = i,
                       !.pc = IF leader[l].pc = "open" THEN "lock" ELSE "relock"]]
  /\ raced' = (raced \/ OpensTooEarly)
  /\ UNCHANGED <<flock, sock, client, faults>>

\* Mutant: a leader that cannot get the lock goes on without it.
TryLockAnyway(l) ==
  /\ leader[l].pc \in {"lock", "relock"}
  /\ flock' = [flock EXCEPT ![leader[l].fd] = IF @ = None THEN l ELSE @]
  /\ At(l, "pid")
  /\ raced' = (raced \/ LocksUnlinked(leader[l].fd))
  /\ UNCHANGED <<path, pid, sock, client, faults>>

\* A contended lock with a bound socket ends the process; without one it
\* polls until its deadline.
TryLock(l) ==
  LET fd == leader[l].fd
  IN  /\ leader[l].pc \in {"lock", "relock"}
      /\ \/ /\ flock[fd] = None
            /\ flock' = [flock EXCEPT ![fd] = l]
            /\ At(l, "pid")
            /\ raced' = (raced \/ LocksUnlinked(fd))
         \/ /\ flock[fd] # None
            /\ \/ /\ leader[l].pc = "lock" => sock # None
                  /\ leader' = [leader EXCEPT ![l] = Gone]
               \/ /\ leader[l].pc = "lock" => sock = None
                  /\ leader' = [leader EXCEPT ![l] = [@ EXCEPT !.pc = "reopen", !.fd = None]]
            /\ UNCHANGED <<flock, raced>>
      /\ UNCHANGED <<path, pid, sock, client, faults>>

WritePid(l) ==
  /\ leader[l].pc = "pid"
  /\ pid' = IF leader[l].fd = path THEN l ELSE pid
  /\ At(l, "clean")
  /\ UNCHANGED <<path, flock, sock, client, raced, faults>>

\* cleanup_socket, and run_leader_server's own removal before it binds.
CleanupSocket(l) ==
  /\ leader[l].pc = "clean"
  /\ sock' = None
  /\ At(l, "bind")
  /\ UNCHANGED <<files, client, raced, faults>>

\* A bind on a path that exists fails and ends the server task.
Bind(l) ==
  /\ leader[l].pc = "bind"
  /\ IF sock = None
     THEN sock' = l /\ leader' = [leader EXCEPT ![l] = [@ EXCEPT !.pc = "ready", !.srv = "up"]]
     ELSE At(l, "ready") /\ UNCHANGED sock
  /\ UNCHANGED <<files, client, raced, faults>>

\* Mutant: the lock is released once the socket is up.
ReadyReleasesLock(l) ==
  /\ leader[l].pc = "ready"
  /\ leader' = [leader EXCEPT ![l] = [@ EXCEPT !.pc = "serving", !.fd = None]]
  /\ flock' = Unlock(leader[l].fd)
  /\ UNCHANGED <<path, pid, sock, client, raced, faults>>

\* The leader waits until a socket is at the path; if none is by its
\* deadline it gives up.
Ready(l) ==
  /\ leader[l].pc = "ready"
  /\ IF sock # None THEN At(l, "serving")
     ELSE leader' = [leader EXCEPT ![l] = [@ EXCEPT !.pc = "dropLock",
                       !.srv = IF leader[l].srv = "none" THEN "none" ELSE "ending"]]
  /\ UNCHANGED <<files, sock, client, raced, faults>>

\* The server is cancelled: after a relaunch was accepted and drained, when a
\* leader stops of its own accord (an update it found), or because the server
\* task had ended.
Stop(l) ==
  /\ \/ leader[l].pc = "draining" /\ UNCHANGED faults
     \/ leader[l].pc = "serving" /\ leader[l].srv = "none" /\ UNCHANGED faults
     \/ leader[l].pc = "serving" /\ leader[l].srv = "up" /\ Fault
  /\ leader' = [leader EXCEPT ![l] = [@ EXCEPT !.pc = "dropLock",
                  !.srv = IF leader[l].srv = "none" THEN "none" ELSE "ending"]]
  /\ UNCHANGED <<files, sock, client, raced>>

\* The cancelled server removes the socket file, whoever's it is by now;
\* run_leader does not wait for it longer than two seconds.
ServerEnds(l) ==
  /\ leader[l].srv = "ending"
  /\ sock' = None
  /\ leader' = [leader EXCEPT ![l].srv = "none"]
  /\ raced' = (raced \/ (leader[l].fd = None /\ sock \notin {None, l}))
  /\ UNCHANGED <<files, client, faults>>

\* Drop of the LeaderLock: lock file, socket, then the descriptor.
DropLock(l) ==
  /\ leader[l].pc = "dropLock"
  /\ path' = None /\ pid' = None
  /\ At(l, "dropSock")
  /\ UNCHANGED <<flock, sock, client, raced, faults>>

DropSock(l) ==
  /\ leader[l].pc = "dropSock"
  /\ sock' = None
  /\ At(l, "close")
  /\ UNCHANGED <<files, client, raced, faults>>

Close(l) ==
  /\ leader[l].pc = "close"
  /\ flock' = Unlock(leader[l].fd)
  /\ leader' = [leader EXCEPT ![l] = IF @.srv = "none" THEN Gone
                                     ELSE [@ EXCEPT !.pc = "exit", !.fd = None]]
  /\ UNCHANGED <<path, pid, sock, client, raced, faults>>

Exit(l) ==
  /\ leader[l].pc = "exit"
  /\ leader' = [leader EXCEPT ![l] = Gone]
  /\ UNCHANGED <<files, sock, client, raced, faults>>

\* A leader gets stuck, before it binds or while it serves.
Hang(l) ==
  /\ Fault
  /\ \/ leader[l].pc = "clean" /\ At(l, "stalled")
     \/ /\ leader[l].pc = "serving" /\ leader[l].srv = "up"
        /\ leader' = [leader EXCEPT ![l].srv = "hung"]
  /\ UNCHANGED <<files, sock, client, raced>>

LeaderStep(l) ==
  \/ Open(l) \/ TryLock(l) \/ WritePid(l) \/ CleanupSocket(l) \/ Bind(l)
  \/ Ready(l) \/ ServerEnds(l)
  \/ DropLock(l) \/ DropSock(l) \/ Close(l) \/ Exit(l)

\* A leader that is starting or stopping; one that polls for the lock waits
\* as long as a client does.
Busy(l) == \/ leader[l].pc \in {"open", "lock", "pid", "clean", "bind", "ready",
                               "draining", "dropLock", "dropSock", "close", "exit"}
           \/ leader[l].srv = "ending"

-----------------------------------------------------------------------------
(* connect_or_spawn.                                                       *)

Fields(c, pc) == client' = [client EXCEPT ![c].pc = pc]

\* The call returns a connection to out, or an error.
Returned(out) == [pc |-> "done", fd |-> None, conn |-> None, err |-> "absent",
                  timer |-> None, rounds |-> 0, tracked |-> None, evicts |-> 0,
                  spawns |-> 0, out |-> out]
Calling == [Returned(None) EXCEPT !.pc = "start"]
Return(c, out) == client' = [client EXCEPT ![c] = Returned(out)]

\* The fast path: a socket whose recorded leader is not known to be dead.
FastPath(c) ==
  /\ client[c].pc = "start"
  /\ IF /\ Reach = "ok"
        /\ read_pid # None => Alive(read_pid)
        /\ ~should_evict(sock, c)
     THEN Return(c, sock)
     ELSE Fields(c, "open")
  /\ UNCHANGED <<files, sock, leader, raced, faults>>

ClientOpen(c) ==
  /\ client[c].pc = "open"
  /\ \E i \in Inodes :
       /\ OpenLockFile(i)
       /\ client' = [client EXCEPT ![c] = [@ EXCEPT !.pc = "lock", !.fd = i]]
  /\ raced' = (raced \/ OpensTooEarly)
  /\ UNCHANGED <<flock, sock, leader, faults>>

ClientTryLock(c) ==
  LET fd == client[c].fd
  IN  /\ client[c].pc = "lock"
      /\ IF flock[fd] = None
         THEN /\ flock' = [flock EXCEPT ![fd] = c]
              /\ Fields(c, "held")
              /\ raced' = (raced \/ LocksUnlinked(fd))
         ELSE /\ client' = [client EXCEPT ![c] = [@ EXCEPT !.pc = "wait", !.fd = None,
                              !.err = "absent"]]
              /\ UNCHANGED <<flock, raced>>
      /\ UNCHANGED <<path, pid, sock, leader, faults>>

\* request_leader_vacate of leader l: RelaunchForUpdate if l takes it (it
\* declines unless it serves, is older and is not relaunching already), else
\* SIGTERM to the pid in the lock file, whoever that is by now.
request_leader_vacate(l, c) ==
  IF leader[l].ver \notin Legacy
  THEN /\ IF /\ leader[l].pc = "serving" /\ leader[l].srv = "up"
             /\ leader_is_older_than(leader[l].ver, VersionOf[c])
          THEN At(l, "draining") ELSE UNCHANGED leader
       /\ UNCHANGED flock
  ELSE IF read_pid = None THEN UNCHANGED <<leader, flock>>
       ELSE Sigterm(read_pid)

\* spawn_leader_subprocess; it fails when no process can be had.  The new
\* process is not seen by anybody before it opens the lock file.
SpawnLeader(c) ==
  LET unborn == {l \in Leaders : leader[l].pc = "unborn"}
  IN  IF unborn = {} THEN Return(c, "error") /\ UNCHANGED leader
      ELSE /\ leader' = [leader EXCEPT ![CHOOSE l \in unborn : TRUE] =
                           [@ EXCEPT !.pc = "open", !.ver = VersionOf[c]]]
           /\ client' = [client EXCEPT ![c] = [@ EXCEPT !.pc = "waitSpawn", !.fd = None,
                           !.err = "absent"]]

\* Under the flock a leader that answers is adopted, or evicted if it is old;
\* then the lock is released and a leader spawned.
Held(c) ==
  LET found == Reach = "ok" /\ read_pid # None /\ Alive(read_pid)
  IN  /\ client[c].pc = "held"
      /\ IF found /\ should_evict(sock, c)
         THEN /\ request_leader_vacate(sock, c)
              /\ client' = [client EXCEPT ![c] = [@ EXCEPT !.pc = "evict", !.conn = read_pid]]
         ELSE /\ flock' = Unlock(client[c].fd)
              /\ IF found THEN Return(c, sock) /\ UNCHANGED leader
                          ELSE SpawnLeader(c)
      /\ UNCHANGED <<path, pid, sock, raced, faults>>

\* evict_leader waits for the recorded pid to exit, and signals it if it
\* takes too long.
EvictLeader(c) ==
  /\ client[c].pc = "evict"
  /\ Sigterm(client[c].conn)
  /\ client' = [client EXCEPT ![c] = [@ EXCEPT !.pc = "evicted", !.conn = None]]
  /\ UNCHANGED <<path, pid, sock, raced, faults>>

Replace(c) ==
  /\ client[c].pc = "evicted"
  /\ flock' = Unlock(client[c].fd)
  /\ SpawnLeader(c)
  /\ UNCHANGED <<path, pid, sock, raced, faults>>

\* wait_for_socket_connectable: one poll.  A connection made while the lock
\* was another's is used only if the leader is not too old.
Connect(c) ==
  /\ client[c].pc \in {"wait", "waitSpawn"}
  /\ Reach = "ok"
  /\ IF client[c].pc = "wait" /\ should_evict(sock, c)
     THEN client' = [client EXCEPT ![c] = [@ EXCEPT !.pc = "vacate", !.conn = sock,
                       !.timer = None, !.rounds = 0]]
     ELSE Return(c, sock)
  /\ UNCHANGED <<files, sock, leader, raced, faults>>

PollFails(c) ==
  /\ client[c].pc \in {"wait", "waitSpawn"}
  /\ Reach \in {"silent", "refused"} /\ Reach # client[c].err
  /\ client' = [client EXCEPT ![c].err = Reach]
  /\ UNCHANGED <<files, sock, leader, raced, faults>>

Vacate(c) ==
  /\ client[c].pc = "vacate"
  /\ request_leader_vacate(client[c].conn, c)
  /\ client' = [client EXCEPT ![c] = [@ EXCEPT !.pc = "open", !.conn = None]]
  /\ UNCHANGED <<path, pid, sock, raced, faults>>

\* A wait of ten seconds ends without a connection: nothing is on its way
\* any more, or (a fault) it takes longer than that.
TimesOut ==
  /\ Reach # "ok"
  /\ \/ \A l \in Leaders : ~Busy(l) /\ UNCHANGED faults
     \/ (\E l \in Leaders : Busy(l)) /\ Fault

\* Mutant: one self-spawn too many.
SpawnDeadlineOffByOne(c) ==
  /\ client[c].pc = "waitSpawn"
  /\ TimesOut
  /\ IF client[c].err # "absent" \/ client[c].spawns >= MaxSelfSpawnAttempts
     THEN Return(c, "error")
     ELSE client' = [client EXCEPT ![c] = [@ EXCEPT !.pc = "open", !.spawns = client[c].spawns + 1]]
  /\ UNCHANGED <<files, sock, leader, raced>>

\* The wait for the client's own leader times out.  Only a socket that never
\* appeared is tried again.
SpawnDeadline(c) ==
  /\ client[c].pc = "waitSpawn"
  /\ TimesOut
  /\ IF client[c].err # "absent" \/ client[c].spawns + 1 >= MaxSelfSpawnAttempts
     THEN Return(c, "error")
     ELSE client' = [client EXCEPT ![c] = [@ EXCEPT !.pc = "open", !.spawns = client[c].spawns + 1]]
  /\ UNCHANGED <<files, sock, leader, raced>>

\* live_grok_lock_holder: the recorded pid, if it holds the flock and lives.
live_grok_lock_holder ==
  IF read_pid # None /\ flock[path] = read_pid /\ Alive(read_pid)
  THEN read_pid ELSE None

\* The wait for a leader that somebody else is or starts times out
\* (zombie_evict_decision, register_evict_attempt).
WaitDeadline(c) ==
  LET me == client[c]
      holder == live_grok_lock_holder
      attempt == IF me.tracked = holder THEN me.evicts + 1 ELSE 1
  IN  /\ me.pc = "wait"
      /\ TimesOut
      /\ CASE me.err = "silent" -> Return(c, "error")
           [] me.err # "silent" /\ holder = None ->
                client' = [client EXCEPT ![c] = [@ EXCEPT !.pc = "open",
                             !.timer = None, !.rounds = 0]]
           [] me.err # "silent" /\ holder # None /\ me.timer # holder ->
                client' = [client EXCEPT ![c] = [@ EXCEPT !.pc = "open",
                             !.timer = holder, !.rounds = 0]]
           [] me.err # "silent" /\ holder # None /\ me.timer = holder
                /\ me.rounds + 1 < ZombieRounds ->
                client' = [client EXCEPT ![c] = [@ EXCEPT !.pc = "open", !.rounds = me.rounds + 1]]
           [] OTHER ->
                IF attempt > MaxZombieEvictAttempts THEN Return(c, "error")
                ELSE client' = [client EXCEPT ![c] = [@ EXCEPT !.pc = "term",
                                  !.conn = holder, !.timer = None, !.rounds = 0,
                                  !.tracked = holder, !.evicts = attempt]]
      /\ UNCHANGED <<files, sock, leader, raced>>

\* evict_zombie_leader: SIGTERM, and SIGKILL for one that is still alive.  A
\* signal may fail, or leave a process that the kernel cannot end alive.
EvictTerm(c) ==
  /\ client[c].pc = "term"
  /\ Sigterm(client[c].conn)
  /\ Fields(c, "kill")
  /\ UNCHANGED <<path, pid, sock, raced, faults>>

EvictKill(c) ==
  /\ client[c].pc = "kill"
  /\ IF Alive(client[c].conn)
     THEN \/ Dies(client[c].conn) /\ UNCHANGED faults
          \/ Fault /\ UNCHANGED <<leader, flock>>
     ELSE UNCHANGED <<leader, flock, faults>>
  /\ client' = [client EXCEPT ![c] = [@ EXCEPT !.pc = "open", !.conn = None]]
  /\ UNCHANGED <<path, pid, sock, raced>>

\* A client process dies with the lock file open; nobody would see it die
\* without.
ClientDies(c) ==
  /\ client[c].fd # None
  /\ Fault
  /\ flock' = [i \in Inodes |-> IF flock[i] = c THEN None ELSE flock[i]]
  /\ Return(c, "error")
  /\ UNCHANGED <<path, pid, sock, leader, raced>>

ClientStep(c) ==
  \/ FastPath(c) \/ ClientOpen(c) \/ ClientTryLock(c) \/ Held(c)
  \/ EvictLeader(c) \/ Replace(c) \/ Connect(c) \/ PollFails(c) \/ Vacate(c)
  \/ SpawnDeadline(c) \/ WaitDeadline(c) \/ EvictTerm(c) \/ EvictKill(c)

-----------------------------------------------------------------------------
\* No files and no leader, or an old leader that serves.
Init ==
  /\ raced = FALSE /\ faults = 0
  /\ client = [c \in Clients |-> Calling]
  /\ \/ /\ path = None /\ sock = None
        /\ flock = [i \in Inodes |-> None]
        /\ pid = None
        /\ leader = [l \in Leaders |-> Unborn]
     \/ LET l == CHOOSE x \in Leaders : TRUE
            i == CHOOSE x \in Inodes : TRUE
        IN  /\ path = i /\ sock = l
            /\ flock = [x \in Inodes |-> IF x = i THEN l ELSE None]
            /\ pid = l
            /\ \E v \in OldVersions :
                 leader = [[x \in Leaders |-> Unborn] EXCEPT ![l] =
                             [pc |-> "serving", fd |-> i, ver |-> v, srv |-> "up"]]

Next ==
  \/ \E l \in Leaders : LeaderStep(l) \/ Stop(l) \/ Hang(l)
  \/ \E c \in Clients : ClientStep(c) \/ ClientDies(c)

Spec == Init /\ [][Next]_vars

\* Processes run and timeouts fire.  A client polls the socket many times
\* before its deadline, so it does not miss a leader it could connect to
\* again and again.
Fairness ==
  /\ \A l \in Leaders : /\ WF_vars(LeaderStep(l))
                        /\ WF_vars(leader[l].pc = "draining" /\ Stop(l))
                        /\ WF_vars(leader[l].srv = "none" /\ Stop(l))
  /\ \A c \in Clients : WF_vars(ClientStep(c)) /\ SF_vars(Connect(c))

FairSpec == Spec /\ Fairness
-----------------------------------------------------------------------------
(* Properties.                                                             *)

\* Leaders that hold the flock of some inode.
Established == {l \in Leaders : \E i \in Inodes : flock[i] = l}

\* Types; and the two budgets of a call: evictions of one zombie
\* (register_evict_attempt) and leaders a client spawns for itself.
TypeOK ==
  /\ path \in Inodes \cup {None}
  /\ flock \in [Inodes -> Leaders \cup Clients \cup {None}]
  /\ pid \in Leaders \cup {None} /\ (path = None => pid = None)
  /\ sock \in Leaders \cup {None}
  /\ raced \in BOOLEAN /\ faults \in 0..MaxFaults
  /\ \A l \in Leaders : leader[l].fd \in Inodes \cup {None}
  /\ \A c \in Clients : /\ client[c].evicts <= MaxZombieEvictAttempts
                        /\ client[c].spawns < MaxSelfSpawnAttempts

\* Whatever clients and leaders start, stop, hang or die, one process is the
\* leader, and the socket that clients find is its own (lock.rs: "no second
\* leader can acquire it while the leader is alive") - unless a Drop unlinked
\* the lock file under a process that had it open, or that opened the path
\* before the dropping process closed its descriptor, or a cancelled server
\* removed its socket file only after the lock was gone.
OneLeader ==
  ~raced =>
    /\ Cardinality(Established) <= 1
    /\ \A l \in Leaders : leader[l].srv = "up" => l \in Established /\ sock = l

\* A client that holds the flock of the file at the path does not find the
\* recorded leader answering, also after such a race: a leader keeps its lock
\* for as long as it can answer.  So evict_leader, whose caller must hold the
\* flock, only ever acts on a leader whose lock file was unlinked.
NobodyUnderLock ==
  \A c \in Clients : client[c].pc = "held" /\ client[c].fd = path =>
    ~(Reach = "ok" /\ read_pid # None /\ Alive(read_pid))

\* connect_or_spawn returns, with a connection or an error: stale sockets,
\* dead or stuck holders of the lock, old leaders and other clients that do
\* the same at the same time never keep a client in its loop.
ClientsReturn == \A c \in Clients : <>(client[c].pc = "done")
=============================================================================
