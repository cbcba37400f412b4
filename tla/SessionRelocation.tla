------------------------- MODULE SessionRelocation -------------------------
(***************************************************************************)
(* Durable relocation of a session directory to another working directory *)
(* (xai-grok-shell, session/storage/relocation).                           *)
(*                                                                         *)
(* A relocation copies the session directory to a hidden staging directory *)
(* under the target, publishes it with a rename, and only then removes the *)
(* source.  A journal file records how far it got: the source is the       *)
(* authority through TargetPublished, the target from Ready onward.        *)
(* Whoever works on a session holds its lease, a file lock that the death  *)
(* of the process releases; recover_all finishes what a dead process left. *)
(*                                                                         *)
(* The file system is modelled as it behaves under power loss.  A change   *)
(* of a directory is visible at once and certain only after the directory  *)
(* is synced: journalDisk and dirsDisk hold every state that may be found  *)
(* after the power fails.  remove_dir_all is not atomic: a directory may   *)
(* be seen, or survive, with only part of its files, with or without its   *)
(* summary.json.                                                           *)
(*                                                                         *)
(* One session is modelled (leases and journals are per session).  Errors  *)
(* of the operating system and crashes are the steps that spend the fault  *)
(* budget.  A call that only returns an error leaves the state unchanged.  *)
(***************************************************************************)
EXTENDS Naturals, FiniteSets

CONSTANTS
  Relocators,  \* processes that relocate the session
  Listers,     \* processes that list sessions, which calls recover_all
  Cwds,        \* working directories
  Nonces,      \* nonces of relocation requests
  None,        \* no journal, no directory, no summary, nobody
  Careful,     \* callers use a transaction only under the lease it was staged
               \* with, and not after a rollback of it failed
  MaxGen,      \* bound: relocations that may commit
  MaxFaults    \* bound: I/O errors, process crashes and power losses

Procs == Relocators \cup Listers

ASSUME RelocationConstants ==
  /\ IsFiniteSet(Procs) /\ IsFiniteSet(Cwds)
  /\ Careful \in BOOLEAN
  /\ MaxGen \in Nat /\ MaxFaults \in Nat
  /\ None \notin Procs \cup Cwds \cup Nonces

VARIABLES
  journal,      \* relocations/<session>.json as a reader sees it, or None
  journalDisk,  \* the journals that may survive a power loss
  dirs,         \* per working directory: the session's entry and staging
  dirsDisk,     \* per working directory: the states that may survive
  lease,        \* holder of relocations/<session>.lock, or None
  at,           \* per process: where its call is, and the call's journal
  txn,          \* per process: StagedRelocation it was handed, or None
  proof,        \* per process: TerminalRelocation it was handed, or None
  faults        \* faults spent

vars == <<journal, journalDisk, dirs, dirsDisk, lease, at, txn, proof, faults>>
disk == <<journal, journalDisk, dirs, dirsDisk>>

-----------------------------------------------------------------------------
(* Data.                                                                   *)

Phases == {"Prepared", "Staged", "TargetPublished", "Ready", "Committed",
           "RolledBack"}

\* RelocationJournal, without version and session id.
Journal == [source : Cwds, target : Cwds, gen : 1..MaxGen, nonce : Nonces,
            phase : Phases]

\* The part of summary.json that relocation reads and rewrites.  The pending
\* reminder is left out: it is accepted both before and after it is shown.
Summary == [cwd : Cwds, gen : 0..MaxGen, prev : Cwds \cup {None}]

\* A session or staging directory: its summary and whether every other file
\* of the session is in it.
Dir == {None} \cup [sum : Summary \cup {None}, whole : BOOLEAN]

\* What is there differs from None.
ASSUME NoneIsNothing ==
  None \notin Journal \cup Summary \cup [sum : Summary \cup {None}, whole : BOOLEAN]

\* sessions/<cwd>: the session's own entry, and its staging entries by nonce.
Parent == [session : Dir, staging : [Nonces -> Dir]]

\* A process between two calls.
Idle == [pc |-> "idle", journal |-> None, auto |-> FALSE]

has_target_authority(phase) == phase \in {"Ready", "Committed"}

\* StagedRelocation::matches.
matches(t, j) == t.gen = j.gen /\ t.nonce = j.nonce

\* validate_source_summary, of the directories ds.
ValidSource(j, ds) ==
  LET d == ds[j.source].session
  IN  /\ d # None
      /\ d.sum # None
      /\ d.sum.cwd = j.source
      /\ d.sum.gen + 1 = j.gen

\* validate_target, of the directories ds.
ValidTarget(j, ds) ==
  LET d == ds[j.target].session
  IN  /\ d # None
      /\ d.sum # None
      /\ d.sum.cwd = j.target
      /\ d.sum.gen = j.gen
      /\ d.sum.prev = j.source

-----------------------------------------------------------------------------
(* Steps every operation is made of.                                       *)

\* The operating system reports an error.
Fault == faults < MaxFaults /\ faults' = faults + 1

\* The call of p moves on to pc, with the journal j in its hands.
Goto(p, pc, j) ==
  /\ at' = [at EXCEPT ![p] = [@ EXCEPT !.pc = pc, !.journal = j]]
  /\ UNCHANGED lease

\* Mutant: recover_all forgets to drop the lease.
ReturnHoldingLease(p) == at' = [at EXCEPT ![p] = Idle] /\ UNCHANGED lease

\* The call returns; recover_all also drops the lease it took.
Return(p) ==
  /\ at' = [at EXCEPT ![p] = Idle]
  /\ lease' = IF at[p].auto THEN None ELSE lease

\* What becomes of p's transaction when its lease goes or a rollback fails.
Spent(p) == txn' = IF Careful THEN [txn EXCEPT ![p] = None] ELSE txn

\* A relocation ended in j: the caller is handed the proof, recover_all goes
\* on to finalize it.
Finish(p, j) ==
  IF at[p].auto
  THEN Goto(p, "finalize", j) /\ UNCHANGED proof
  ELSE Return(p) /\ proof' = [proof EXCEPT ![p] = j]

\* write_atomic_durable on the journal: done and synced; failed before the
\* rename (NotCommitted); renamed but not synced (Committed).
WriteJournal(j, ok, lost, late) ==
  /\ \/ /\ journal' = j /\ journalDisk' = {j}
        /\ UNCHANGED faults
        /\ ok
     \/ /\ Fault
        /\ UNCHANGED <<journal, journalDisk>>
        /\ lost
     \/ /\ Fault
        /\ journal' = j /\ journalDisk' = journalDisk \cup {j}
        /\ late
  /\ UNCHANGED <<dirs, dirsDisk>>

\* sync_journal_namespace.
SyncJournal(ok, failed) ==
  /\ \/ /\ journalDisk' = {journal}
        /\ UNCHANGED faults
        /\ ok
     \/ Fault /\ UNCHANGED journalDisk /\ failed
  /\ UNCHANGED <<journal, dirs, dirsDisk>>

\* The directory of c becomes d: synced, or only visible.
Synced(c, d) ==
  /\ dirs' = [dirs EXCEPT ![c] = d]
  /\ dirsDisk' = [dirsDisk EXCEPT ![c] = {d}]

Unsynced(c, d) ==
  /\ dirs' = [dirs EXCEPT ![c] = d]
  /\ dirsDisk' = [dirsDisk EXCEPT ![c] = @ \cup {d}]

\* What remove_dir_all may have left of a directory on its way.
Torn(d) ==
  IF d = None THEN {}
  ELSE {[sum |-> s, whole |-> FALSE] : s \in {d.sum, None}} \ {d}

\* remove_dir_durable of entry d, where With(e) is the parent with the entry
\* replaced by e: some files go; all go and the parent is synced; an error,
\* before the last entry went or at the sync.
RemoveDir(c, d, With(_), ok, failed, going) ==
  /\ \/ \E e \in Torn(d) : Unsynced(c, With(e)) /\ UNCHANGED faults /\ going
     \/ Synced(c, With(None)) /\ UNCHANGED faults /\ ok
     \/ Fault /\ UNCHANGED <<dirs, dirsDisk>> /\ failed
     \/ Fault /\ Unsynced(c, With(None)) /\ failed
  /\ UNCHANGED <<journal, journalDisk>>

\* Removal of the session's entry under c, and of a staging entry.
RemoveSession(p, c, next, failed) ==
  RemoveDir(c, dirs[c].session,
            LAMBDA e : [dirs[c] EXCEPT !.session = e],
            Goto(p, next, at[p].journal) /\ UNCHANGED txn, failed,
            UNCHANGED <<at, lease, txn>>)

RemoveStaging(p, c, n, next, failed) ==
  RemoveDir(c, dirs[c].staging[n],
            LAMBDA e : [dirs[c] EXCEPT !.staging[n] = e],
            Goto(p, next, at[p].journal) /\ UNCHANGED txn, failed,
            UNCHANGED <<at, lease, txn>>)

-----------------------------------------------------------------------------
Init ==
  /\ journal = None /\ journalDisk = {None}
  /\ \E c \in Cwds :
       dirs = [d \in Cwds |->
                 [session |-> IF d = c
                              THEN [sum |-> [cwd |-> c, gen |-> 0,
                                             prev |-> None],
                                    whole |-> TRUE]
                              ELSE None,
                  staging |-> [n \in Nonces |-> None]]]
  /\ dirsDisk = [c \in Cwds |-> {dirs[c]}]
  /\ lease = None
  /\ at = [p \in Procs |-> Idle]
  /\ txn = [p \in Procs |-> None]
  /\ proof = [p \in Procs |-> None]
  /\ faults = 0

\* p is between two calls and holds the lease.
Holds(p) == lease = p /\ at[p].pc = "idle"

Acquire(p) ==
  /\ lease = None /\ at[p].pc = "idle"
  /\ lease' = p
  /\ UNCHANGED <<disk, at, txn, proof, faults>>

\* Drop of the RelocationLease.
DropLease(p) ==
  /\ Holds(p)
  /\ lease' = None
  /\ Spent(p)
  /\ UNCHANGED <<disk, at, proof, faults>>

-----------------------------------------------------------------------------
(* stage_and_publish.                                                      *)

\* Checks of the request, the source, the journal and the target, then the
\* Prepared journal.  journal_of is the journal the request describes.
journal_of(src, tgt, n) ==
  [source |-> src, target |-> tgt, gen |-> dirs[src].session.sum.gen + 1,
   nonce |-> n, phase |-> "Prepared"]

stage_and_publish(p) ==
  /\ Holds(p)
  /\ journal = None
  /\ \E src \in Cwds, tgt \in Cwds, n \in Nonces :
       /\ src # tgt
       /\ dirs[src].session # None /\ dirs[src].session.sum # None
       /\ dirs[src].session.sum.gen < MaxGen
       /\ ValidSource(journal_of(src, tgt, n), dirs)
       /\ dirs[tgt].session = None /\ dirs[tgt].staging[n] = None
       /\ WriteJournal(journal_of(src, tgt, n),
                       Goto(p, "copy", journal_of(src, tgt, n)),
                       Return(p), Return(p))
  /\ UNCHANGED <<txn, proof>>

\* copy_directory: the new staging directory, then its contents.  An error
\* rolls the relocation back.
CopyDirectory(p) ==
  LET j == at[p].journal
      source == dirs[j.source].session
      staging == dirs[j.target].staging[j.nonce]
      Staging(e) == [dirs[j.target] EXCEPT !.staging[j.nonce] = e]
  IN  /\ at[p].pc = "copy"
      /\ \/ /\ staging = None
            /\ Synced(j.target, Staging([sum |-> None, whole |-> FALSE]))
            /\ UNCHANGED <<at, lease, faults>>
         \/ /\ staging # None
            /\ Synced(j.target, Staging(source))
            /\ Goto(p, "rewrite", j)
            /\ UNCHANGED faults
         \/ /\ Fault
            /\ Goto(p, "checkSource", j)
            /\ UNCHANGED <<dirs, dirsDisk>>
      /\ UNCHANGED <<journal, journalDisk, txn, proof>>

\* rewrite_staged_summary, and the sync of the target's parent.
RewriteSummary(p) ==
  LET j == at[p].journal
      staging == dirs[j.target].staging[j.nonce]
      Rewritten == [dirs[j.target] EXCEPT !.staging[j.nonce] =
                     [staging EXCEPT !.sum = [cwd |-> j.target, gen |-> j.gen,
                                              prev |-> j.source]]]
  IN  /\ at[p].pc = "rewrite"
      /\ \/ /\ Synced(j.target, Rewritten)
            /\ Goto(p, "writeStaged", j)
            /\ UNCHANGED faults
         \/ /\ Fault
            /\ \/ UNCHANGED <<dirs, dirsDisk>>
               \/ Unsynced(j.target, Rewritten)
            /\ Goto(p, "checkSource", j)
      /\ UNCHANGED <<journal, journalDisk, txn, proof>>

WriteStaged(p) ==
  LET j == at[p].journal
      staged == [j EXCEPT !.phase = "Staged"]
  IN  /\ at[p].pc = "writeStaged"
      /\ WriteJournal(staged, Goto(p, "publish", staged),
                      Goto(p, "checkSource", j), Return(p))
      /\ UNCHANGED <<txn, proof>>

\* rename_no_replace of the staging directory onto the target.
Publish(p) ==
  LET j == at[p].journal
  IN  /\ at[p].pc = "publish"
      /\ \/ /\ dirs[j.target].session = None
            /\ Unsynced(j.target,
                        [session |-> dirs[j.target].staging[j.nonce],
                         staging |-> [dirs[j.target].staging EXCEPT
                                        ![j.nonce] = None]])
            /\ Goto(p, "syncPublished", j)
            /\ UNCHANGED faults
         \/ /\ Fault
            /\ Goto(p, "checkSource", j)
            /\ UNCHANGED <<dirs, dirsDisk>>
      /\ UNCHANGED <<journal, journalDisk, txn, proof>>

SyncPublished(p) ==
  LET j == at[p].journal
  IN  /\ at[p].pc = "syncPublished"
      /\ \/ /\ Synced(j.target, dirs[j.target])
            /\ Goto(p, "writePublished", j)
            /\ UNCHANGED faults
         \/ Fault /\ Return(p) /\ UNCHANGED <<dirs, dirsDisk>>
      /\ UNCHANGED <<journal, journalDisk, txn, proof>>

\* The caller gets its transaction only if the journal write succeeded.
WritePublished(p) ==
  LET j == at[p].journal
      handed == [txn EXCEPT ![p] = [gen |-> j.gen, nonce |-> j.nonce]]
  IN  /\ at[p].pc = "writePublished"
      /\ WriteJournal([j EXCEPT !.phase = "TargetPublished"],
                      Return(p) /\ txn' = handed,
                      Return(p) /\ UNCHANGED txn,
                      Return(p) /\ UNCHANGED txn)
      /\ UNCHANGED proof

-----------------------------------------------------------------------------
(* mark_ready_and_commit and rollback.                                     *)

\* load_transaction: the journal must be there and be the caller's own.
Loads(p) == Holds(p) /\ txn[p] # None /\ journal # None /\ matches(txn[p], journal)

mark_ready_and_commit(p) ==
  /\ Loads(p)
  /\ \/ /\ journal.phase = "TargetPublished"
        /\ ValidTarget(journal, dirs)
        /\ LET ready == [journal EXCEPT !.phase = "Ready"]
           IN  WriteJournal(ready, Goto(p, "syncReady", ready),
                            Return(p), Return(p))
     \/ /\ has_target_authority(journal.phase)
        /\ Goto(p, "syncReady", journal)
        /\ UNCHANGED <<disk, faults>>
  /\ UNCHANGED <<txn, proof>>

rollback(p) ==
  /\ Loads(p)
  /\ ~has_target_authority(journal.phase)
  /\ Goto(p, "checkSource", journal)
  /\ UNCHANGED <<disk, txn, proof, faults>>

\* Mutant: an unsynced Ready journal is trusted.
SyncReadySkipped(p) ==
  /\ at[p].pc = "syncReady"
  /\ IF ValidTarget(at[p].journal, dirs)
     THEN Goto(p, "removeSource", at[p].journal)
     ELSE Return(p)
  /\ UNCHANGED <<disk, faults, txn, proof>>

\* finish_commit: nothing is removed before the journal is known to be on
\* disk and the target to be the one it describes.
SyncReady(p) ==
  /\ at[p].pc = "syncReady"
  /\ SyncJournal(IF ValidTarget(at[p].journal, dirs)
                 THEN Goto(p, "removeSource", at[p].journal)
                 ELSE Return(p),
                 Return(p))
  /\ UNCHANGED <<txn, proof>>

RemoveSource(p) ==
  /\ at[p].pc = "removeSource"
  /\ RemoveSession(p, at[p].journal.source, "clearStaging",
                   Return(p) /\ UNCHANGED txn)
  /\ UNCHANGED proof

ClearStaging(p) ==
  LET j == at[p].journal
  IN  /\ at[p].pc = "clearStaging"
      /\ RemoveStaging(p, j.target, j.nonce, "writeCommitted",
                       Return(p) /\ UNCHANGED txn)
      /\ UNCHANGED proof

\* The last step of finish_commit and of finish_rollback: the terminal phase
\* is written unless the journal has it already.
WriteTerminal(p, pc, phase) ==
  LET j == at[p].journal
      done == [j EXCEPT !.phase = phase]
  IN  /\ at[p].pc = pc
      /\ \/ j.phase = phase /\ Finish(p, j) /\ UNCHANGED <<disk, faults>>
         \/ /\ j.phase # phase
            /\ WriteJournal(done, Finish(p, done),
                            Return(p) /\ UNCHANGED proof,
                            Return(p) /\ UNCHANGED proof)
      /\ UNCHANGED txn

WriteCommitted(p) == WriteTerminal(p, "writeCommitted", "Committed")

\* finish_rollback: the source must be sound, staging goes, and the target
\* goes if it is the one the journal describes.
CheckSource(p) ==
  /\ at[p].pc = "checkSource"
  /\ IF ValidSource(at[p].journal, dirs)
     THEN Goto(p, "dropStaging", at[p].journal) /\ UNCHANGED txn
     ELSE Return(p) /\ Spent(p)
  /\ UNCHANGED <<disk, proof, faults>>

\* Mutant: a failed removal of staging is ignored.
DropStagingBestEffort(p) ==
  LET j == at[p].journal
  IN  /\ at[p].pc = "dropStaging"
      /\ RemoveStaging(p, j.target, j.nonce, "checkTarget",
                       Goto(p, "checkTarget", j) /\ UNCHANGED txn)
      /\ UNCHANGED proof

DropStaging(p) ==
  LET j == at[p].journal
  IN  /\ at[p].pc = "dropStaging"
      /\ RemoveStaging(p, j.target, j.nonce, "checkTarget",
                       Return(p) /\ Spent(p))
      /\ UNCHANGED proof

CheckTarget(p) ==
  LET j == at[p].journal
  IN  /\ at[p].pc = "checkTarget"
      /\ IF dirs[j.target].session = None \/ ValidTarget(j, dirs)
         THEN Goto(p, "dropTarget", j) /\ UNCHANGED txn
         ELSE Return(p) /\ Spent(p)
      /\ UNCHANGED <<disk, proof, faults>>

DropTarget(p) ==
  /\ at[p].pc = "dropTarget"
  /\ RemoveSession(p, at[p].journal.target, "writeRolledBack",
                   Return(p) /\ Spent(p))
  /\ UNCHANGED proof

WriteRolledBack(p) == WriteTerminal(p, "writeRolledBack", "RolledBack")

-----------------------------------------------------------------------------
(* finalize_terminal.                                                      *)

\* The journal goes if it is the one the proof is about; one that is gone
\* already only has its removal synced.
RemoveJournal(p, j) ==
  /\ \/ /\ journal = j
        /\ journal' = None /\ journalDisk' = journalDisk \cup {None}
        /\ Goto(p, "syncFinal", j)
        /\ UNCHANGED faults
     \/ /\ journal = None
        /\ Goto(p, "syncFinal", j)
        /\ UNCHANGED <<journal, journalDisk, faults>>
     \/ /\ \/ Fault
           \/ journal \notin {None, j} /\ UNCHANGED faults
        /\ Return(p)
        /\ UNCHANGED <<journal, journalDisk>>
  /\ UNCHANGED <<dirs, dirsDisk, txn, proof>>

finalize_terminal(p) == Holds(p) /\ proof[p] # None /\ RemoveJournal(p, proof[p])

FinalizeRecovered(p) == at[p].pc = "finalize" /\ RemoveJournal(p, at[p].journal)

SyncFinal(p) ==
  /\ at[p].pc = "syncFinal"
  /\ SyncJournal(Return(p), Return(p))
  /\ UNCHANGED <<txn, proof>>

-----------------------------------------------------------------------------
(* recover and recover_all.                                                *)

\* recover, called by the holder of a lease.
recover(p) ==
  /\ Holds(p) /\ journal # None
  /\ Goto(p, "recover", None)
  /\ UNCHANGED <<disk, txn, proof, faults>>

\* recover_all lists the journals before it asks for the lease ...
JournalIds(p) ==
  /\ at[p].pc = "idle" /\ lease # p
  /\ journal # None
  /\ Goto(p, "acquire", None)
  /\ UNCHANGED <<disk, txn, proof, faults>>

\* Mutant: a busy lease is taken for its own.
AcquireAnyway(p) ==
  /\ at[p].pc = "acquire"
  /\ at' = [at EXCEPT ![p] = [pc |-> "recover", journal |-> None, auto |-> TRUE]]
  /\ lease' = IF lease = None THEN p ELSE lease
  /\ UNCHANGED <<disk, txn, proof, faults>>

\* ... and passes over a session whose lease is busy.
AcquireOrSkip(p) ==
  /\ at[p].pc = "acquire"
  /\ IF lease = None
     THEN /\ lease' = p
          /\ at' = [at EXCEPT ![p] = [pc |-> "recover", journal |-> None,
                                      auto |-> TRUE]]
     ELSE at' = [at EXCEPT ![p] = Idle] /\ UNCHANGED lease
  /\ UNCHANGED <<disk, txn, proof, faults>>

\* Mutant: only Committed counts as decided.
recovery_action_late(phase) ==
  IF phase = "Committed" THEN "syncReady" ELSE "checkSource"

\* recovery_action: where recovery goes on from a phase.
recovery_action(phase) ==
  IF has_target_authority(phase) THEN "syncReady" ELSE "checkSource"

\* The journal is read under the lease; it may be gone by now.
Recover(p) ==
  /\ at[p].pc = "recover"
  /\ \/ journal = None /\ Return(p) /\ UNCHANGED <<disk, faults>>
     \/ /\ journal # None
        /\ SyncJournal(Goto(p, recovery_action(journal.phase), journal),
                       Return(p))
  /\ UNCHANGED <<txn, proof>>

-----------------------------------------------------------------------------
(* Crashes.                                                                *)

\* A process dies: its lease is released, what it was handed is lost.
Crash(p) ==
  /\ Fault
  /\ at[p] # Idle \/ lease = p
  /\ at' = [at EXCEPT ![p] = Idle]
  /\ lease' = IF lease = p THEN None ELSE lease
  /\ txn' = [txn EXCEPT ![p] = None]
  /\ proof' = [proof EXCEPT ![p] = None]
  /\ UNCHANGED disk

\* The power fails: of every directory one of the possible states survives.
PowerLoss ==
  /\ Fault
  /\ \E j \in journalDisk : journal' = j /\ journalDisk' = {j}
  /\ \E ds \in [Cwds -> UNION {dirsDisk[c] : c \in Cwds}] :
       /\ \A c \in Cwds : ds[c] \in dirsDisk[c]
       /\ dirs' = ds
       /\ dirsDisk' = [c \in Cwds |-> {ds[c]}]
  /\ lease' = None
  /\ at' = [p \in Procs |-> Idle]
  /\ txn' = [p \in Procs |-> None]
  /\ proof' = [p \in Procs |-> None]

-----------------------------------------------------------------------------
\* A step inside a call of p.
Step(p) ==
  \/ CopyDirectory(p) \/ RewriteSummary(p) \/ WriteStaged(p)
  \/ Publish(p) \/ SyncPublished(p) \/ WritePublished(p)
  \/ SyncReady(p) \/ RemoveSource(p) \/ ClearStaging(p) \/ WriteCommitted(p)
  \/ CheckSource(p) \/ DropStaging(p) \/ CheckTarget(p) \/ DropTarget(p)
  \/ WriteRolledBack(p)
  \/ FinalizeRecovered(p) \/ SyncFinal(p)
  \/ Recover(p)

\* A call of a process that relocates the session.
Relocate(p) ==
  \/ Acquire(p) \/ DropLease(p)
  \/ stage_and_publish(p) \/ mark_ready_and_commit(p) \/ rollback(p)
  \/ finalize_terminal(p) \/ recover(p)

recover_all(p) == JournalIds(p) \/ AcquireOrSkip(p)

Next ==
  \/ PowerLoss
  \/ \E p \in Procs : Step(p) \/ Crash(p)
  \/ \E p \in Relocators : Relocate(p)
  \/ \E p \in Listers : recover_all(p)

Spec == Init /\ [][Next]_vars

\* A call that has begun goes on, whoever holds a lease drops it in the end,
\* and list_summaries calls recover_all again and again.  recover_all only
\* tries the lease: it is assumed not to find it busy every single time.
Fairness ==
  /\ \A p \in Procs : WF_vars(Step(p))
  /\ \A p \in Relocators : SF_vars(DropLease(p))
  /\ \A p \in Listers : /\ WF_vars(AcquireOrSkip(p))
                        /\ SF_vars(lease = None /\ JournalIds(p))
                        /\ SF_vars(lease = None /\ AcquireOrSkip(p))

FairSpec == Spec /\ Fairness

-----------------------------------------------------------------------------
(* Properties.                                                             *)

Working == {p \in Procs : at[p].pc \notin {"idle", "acquire"}}

\* Types; and every process inside a relocation holds the lease, so that two
\* of them never work on one session (acquire, recover_all).
TypeOK ==
  /\ journal \in Journal \cup {None}
  /\ journalDisk \in SUBSET (Journal \cup {None}) /\ journal \in journalDisk
  /\ dirs \in [Cwds -> Parent]
  /\ \A c \in Cwds : dirs[c] \in dirsDisk[c]
  /\ lease \in Procs \cup {None}
  /\ \A p \in Procs : at[p].journal \in Journal \cup {None}
  /\ \A p \in Working : lease = p
  /\ \A p \in Procs : proof[p] \in Journal \cup {None}
  /\ faults \in 0..MaxFaults

\* RelocationView: the working directory a reader finds the session in, given
\* a journal and the directories, or None for an error or a missing session.
authoritative_cwd(j) == IF has_target_authority(j.phase) THEN j.target ELSE j.source

Candidates(ds) == {c \in Cwds : ds[c].session # None /\ ds[c].session.sum # None}

select(j, ds) ==
  IF j # None
  THEN IF (IF has_target_authority(j.phase) THEN ValidTarget(j, ds)
                                            ELSE ValidSource(j, ds))
       THEN authoritative_cwd(j) ELSE None
  ELSE IF \E c \in Cwds : Candidates(ds) = {c}
       THEN CHOOSE c \in Cwds : Candidates(ds) = {c} ELSE None

\* What a power loss may leave of the directories.
Survivors ==
  {ds \in [Cwds -> UNION {dirsDisk[c] : c \in Cwds}] :
     \A c \in Cwds : ds[c] \in dirsDisk[c]}

\* Whatever a power loss at this moment leaves on disk, the view finds the
\* session, in a directory that has all of its files and says so: no step
\* removes or replaces a copy before the other one is certain to be found.
SurvivesPowerLoss ==
  \A j \in journalDisk, ds \in Survivors :
    LET c == select(j, ds)
    IN  c # None /\ ds[c].session.whole /\ ds[c].session.sum.cwd = c

\* A relocation whose journal says it has ended, or whose journal is gone,
\* leaves one copy of the session and no staging directory, also after a
\* power loss that brings an older journal back.
EndedIsClean ==
  \A j \in journalDisk, ds \in Survivors :
    j = None \/ j.phase \in {"Committed", "RolledBack"} =>
      /\ \A c \in Cwds : ds[c].session # None => c = select(j, ds)
      /\ \A c \in Cwds, n \in Nonces : ds[c].staging[n] = None

\* The session's home, as the abstract specification sees it: where every
\* possible survivor of a power loss has it, or still the older home while
\* the survivors disagree.
HomesOnDisk ==
  {[cwd |-> select(j, ds),
    gen |-> IF select(j, ds) = None THEN 0
            ELSE ds[select(j, ds)].session.sum.gen] :
     j \in journalDisk, ds \in Survivors}

Home == INSTANCE SessionHome
          WITH home <- CHOOSE h \in HomesOnDisk :
                         \A g \in HomesOnDisk : h.gen <= g.gen

\* Relocation implements an atomic move: errors, crashes, power losses and
\* recoveries never move the session back, move it twice or lose it.
ImplementsHome == Home!Spec

\* A removal of the published target that was cut short in a rollback left
\* the target without its summary; finish_rollback then refuses to touch it.
TornTarget ==
  /\ journal # None /\ ~has_target_authority(journal.phase)
  /\ dirs[journal.target].session # None
  /\ ~ValidTarget(journal, dirs)

\* Every relocation that was begun is ended, by its caller or by recover_all,
\* from whatever step it was left at; the only way to get stuck is a torn
\* target.
RecoveryEnds == journal # None ~> journal = None \/ TornTarget
=============================================================================
