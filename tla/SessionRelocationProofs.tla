----------------------- MODULE SessionRelocationProofs -----------------------
(***************************************************************************)
(* Proofs about SessionRelocation for any number of processes, working     *)
(* directories and nonces and any budget of relocations and faults: that   *)
(* whatever a power loss leaves the session is found whole, that a         *)
(* relocation which has ended has cleaned up, and that relocation          *)
(* implements the atomic move of SessionHome.                              *)
(*                                                                         *)
(* The invariant speaks about all that may survive on disk: what holds if  *)
(* journal j survives (JournalOk), that the journals which may survive are *)
(* of one move (Agree), and what the process inside a call knows (Known).  *)
(***************************************************************************)
EXTENDS SessionRelocation, TLAPS

\* Where a call may be, by the part of the protocol.
CopyPCs == {"copy", "rewrite", "writeStaged"}
PublishPCs == {"publish", "syncPublished", "writePublished"}
CommitPCs == {"syncReady", "removeSource", "clearStaging", "writeCommitted"}
RollbackPCs == {"checkSource", "dropStaging", "checkTarget", "dropTarget",
                "writeRolledBack"}
FinalPCs == {"finalize", "syncFinal"}
CallPCs == CopyPCs \cup PublishPCs \cup CommitPCs \cup RollbackPCs \cup FinalPCs
PCs == CallPCs \cup {"idle", "acquire", "recover"}

Call == [pc : PCs, journal : Journal \cup {None}, auto : BOOLEAN]
Txn == [gen : Nat, nonce : Nonces]

\* Types, the directories that may survive among them.
JournalTypes ==
  /\ journal \in Journal \cup {None}
  /\ journalDisk \in SUBSET (Journal \cup {None}) /\ journal \in journalDisk

DirTypes ==
  /\ dirs \in [Cwds -> Parent]
  /\ dirsDisk \in [Cwds -> SUBSET Parent]
  /\ \A c \in Cwds : dirs[c] \in dirsDisk[c]

Types ==
  /\ JournalTypes /\ DirTypes
  /\ lease \in Procs \cup {None}
  /\ at \in [Procs -> Call]
  /\ txn \in [Procs -> Txn \cup {None}]
  /\ proof \in [Procs -> Journal \cup {None}]
  /\ faults \in 0 .. MaxFaults

\* Where the holder of the lease is in its call.
Calls ==
  \A p \in Procs :
    /\ at[p].pc \notin {"idle", "acquire"} => lease = p
    /\ at[p].pc \in {"idle", "acquire"} => ~at[p].auto
    /\ at[p].pc = "acquire" => lease # p
    /\ at[p].pc \in CallPCs => at[p].journal # None
    /\ at[p].pc \in CopyPCs \cup PublishPCs => ~at[p].auto

Terminal == {"Committed", "RolledBack"}

\* The session's directory under c is whole and says where it is.
Sound(e, c) ==
  /\ e.session # None /\ e.session.whole
  /\ e.session.sum # None /\ e.session.sum.cwd = c

\* ... and is the copy that j moves from, or to.
IsSource(e, j) == Sound(e, j.source) /\ e.session.sum.gen + 1 = j.gen
IsTarget(e, j) ==
  /\ Sound(e, j.target)
  /\ e.session.sum.gen = j.gen /\ e.session.sum.prev = j.source

\* Whatever survives a power loss:
NoSession(c) == \A e \in dirsDisk[c] : e.session = None
NoStaging(c) == \A e \in dirsDisk[c], n \in Nonces : e.staging[n] = None

SourceCertain(j) == \A e \in dirsDisk[j.source] : IsSource(e, j)
TargetCertain(j) == \A e \in dirsDisk[j.target] : IsTarget(e, j)

\* One copy of the session, and nothing else.
CleanAt(h, g) ==
  /\ \A e \in dirsDisk[h] : Sound(e, h) /\ e.session.sum.gen = g
  /\ \A c \in Cwds \ {h} : NoSession(c)
  /\ \A c \in Cwds : NoStaging(c)

Clean == \E h \in Cwds, g \in 0 .. MaxGen : CleanAt(h, g)

\* Only the source and the target of j, and its own staging directory, may
\* hold anything.
Confined(j) ==
  /\ \A c \in Cwds \ {j.source, j.target} : NoSession(c)
  /\ \A c \in Cwds \ {j.target} : NoStaging(c)
  /\ \A e \in dirsDisk[j.target], n \in Nonces \ {j.nonce} : e.staging[n] = None

\* What the disk holds if it holds journal j.
JournalOk(j) ==
  /\ j = None => Clean
  /\ j # None =>
       /\ j.source # j.target
       /\ IF has_target_authority(j.phase) THEN TargetCertain(j) ELSE SourceCertain(j)
       /\ IF j.phase \in Terminal THEN Clean ELSE Confined(j)

\* Two journals of one relocation, whatever their phase.
SameMove(j, k) ==
  /\ j.source = k.source /\ j.target = k.target
  /\ j.gen = k.gen /\ j.nonce = k.nonce

\* While there is anything to clean up, all journals that may be found are of
\* one relocation, and none is of a later phase than the visible one.
Agree ==
  Clean \/ \A j \in journalDisk :
             /\ j # None /\ SameMove(j, journal)
             /\ j.phase = "Ready" => journal.phase = "Ready"

\* The staging directory holds the copy that will be published.
IsStaged(e, j) ==
  LET d == e.staging[j.nonce]
  IN  /\ e.session = None
      /\ d # None /\ d.whole
      /\ d.sum = [cwd |-> j.target, gen |-> j.gen, prev |-> j.source]

\* What is known at step pc of a call with journal j in its hands.
Known(pc, j) ==
  /\ pc \in CallPCs \ FinalPCs => journal = j
  /\ pc \in CopyPCs => journalDisk = {j} /\ j.phase = "Prepared"
  /\ pc \in PublishPCs => journalDisk = {j} /\ j.phase = "Staged"
  /\ pc \in {"copy", "rewrite"} => NoSession(j.target)
  /\ pc = "rewrite" =>
       \A e \in dirsDisk[j.target] :
         e.staging[j.nonce] # None /\ e.staging[j.nonce].whole
  /\ pc \in {"writeStaged", "publish"} => \A e \in dirsDisk[j.target] : IsStaged(e, j)
  /\ pc = "syncPublished" => IsTarget(dirs[j.target], j)
  /\ pc = "writePublished" => TargetCertain(j)
  /\ pc \in CommitPCs => has_target_authority(j.phase)
  /\ pc \in CommitPCs \ {"syncReady"} => journalDisk = {j}
  /\ pc = "clearStaging" => NoSession(j.source)
  /\ pc = "writeCommitted" => Clean
  /\ pc \in RollbackPCs => ~has_target_authority(j.phase)
  /\ pc \in {"checkTarget", "dropTarget"} => NoStaging(j.target)
  /\ pc = "writeRolledBack" => Clean
  /\ pc = "finalize" => j.phase \in Terminal

\* The published target is there for certain, or not at all.
PublishedOrGone ==
  journal # None /\ journal.phase = "TargetPublished" =>
    TargetCertain(journal) \/ NoSession(journal.target)

\* A transaction is used under the lease it was staged with.
TxnOk(p) ==
  txn[p] # None =>
    /\ lease = p /\ ~at[p].auto
    /\ at[p].pc \notin RollbackPCs => PublishedOrGone

\* A proof is handed out for a relocation that has ended.
ProofOk(p) == proof[p] # None => proof[p].phase \in Terminal

\* What the disk may hold is consistent.
DiskInv == (\A j \in journalDisk : JournalOk(j)) /\ Agree

\* The inductive invariant.
IInv ==
  /\ Careful /\ Types /\ Calls /\ DiskInv
  /\ \A p \in Procs : Known(at[p].pc, at[p].journal) /\ TxnOk(p) /\ ProofOk(p)

-----------------------------------------------------------------------------
(* Calls.                                                                  *)

\* A call that returns leaves its process idle, and drops the lease if it is
\* recover_all's own.
LEMMA Returns ==
  ASSUME Types, Calls, NEW p \in Procs, lease = p, Return(p)
  PROVE  /\ at' \in [Procs -> Call] /\ Calls' /\ at'[p] = Idle
         /\ lease' \in Procs \cup {None}
         /\ \A q \in Procs \ {p} : at'[q] = at[q]
         /\ ~at[p].auto => lease' = p
<1> USE RelocationConstants DEF Return
<1>1. /\ Idle \in Call /\ Idle.pc = "idle" /\ Idle.auto = FALSE /\ Idle.journal = None
  BY DEF Idle, Call, PCs
<1>2. /\ at' \in [Procs -> Call] /\ at'[p] = Idle
      /\ \A q \in Procs \ {p} : at'[q] = at[q]
  BY <1>1 DEF Types
<1>3. lease' \in Procs \cup {None} /\ (~at[p].auto => lease' = p) /\ lease' \in {p, None}
  BY DEF Types
<1>4. ASSUME NEW q \in Procs, q # p
      PROVE  at'[q].pc \in {"idle", "acquire"} /\ at'[q] = at[q]
  BY <1>2, <1>4 DEF Calls
<1>5. Calls'
  BY <1>1, <1>2, <1>3, <1>4
     DEF Calls, CallPCs, CopyPCs, PublishPCs, CommitPCs, RollbackPCs, FinalPCs
<1> QED  BY <1>2, <1>3, <1>5

\* A call that goes on keeps the lease and its kind.
LEMMA Goes ==
  ASSUME Types, Calls, NEW p \in Procs, lease = p,
         NEW pc \in PCs \ {"idle", "acquire"}, NEW j \in Journal \cup {None},
         Goto(p, pc, j), pc \in CallPCs => j # None,
         pc \in CopyPCs \cup PublishPCs => ~at[p].auto
  PROVE  /\ at' \in [Procs -> Call] /\ Calls' /\ lease' = p
         /\ at'[p].pc = pc /\ at'[p].journal = j /\ at'[p].auto = at[p].auto
         /\ \A q \in Procs \ {p} : at'[q] = at[q]
<1> DEFINE s == [at[p] EXCEPT !.pc = pc, !.journal = j]
<1>1. at' = [at EXCEPT ![p] = s] /\ lease' = p
  BY DEF Goto
<1>2. s \in Call /\ s.pc = pc /\ s.journal = j /\ s.auto = at[p].auto
  BY DEF Types, Call
<1> HIDE DEF s
<1>3. /\ at' \in [Procs -> Call] /\ at'[p] = s
      /\ \A q \in Procs \ {p} : at'[q] = at[q]
  BY <1>1, <1>2 DEF Types
<1>4. Calls'
  BY <1>1, <1>2, <1>3 DEF Calls
<1> QED  BY <1>1, <1>2, <1>3, <1>4

\* A step of the holder of the lease: what the others know, they still know.
LEMMA HolderStep ==
  ASSUME IInv, NEW p \in Procs, lease = p, Types', Calls', DiskInv',
         \A q \in Procs \ {p} :
           at'[q] = at[q] /\ txn'[q] = txn[q] /\ proof'[q] = proof[q],
         Known(at[p].pc, at[p].journal)', TxnOk(p)', ProofOk(p)'
  PROVE  IInv'
<1>1. ASSUME NEW q \in Procs, q # p
      PROVE  Known(at[q].pc, at[q].journal)' /\ TxnOk(q)' /\ ProofOk(q)'
  <2>1. /\ at'[q].pc \in {"idle", "acquire"}
        /\ txn'[q] = None /\ proof'[q] = proof[q]
    BY <1>1 DEF IInv, Calls, TxnOk
  <2>2. Known(at[q].pc, at[q].journal)'
    BY <2>1 DEF Known, CallPCs, CopyPCs, PublishPCs, CommitPCs, RollbackPCs, FinalPCs
  <2>3. TxnOk(q)' /\ ProofOk(q)'
    BY <1>1, <2>1 DEF IInv, TxnOk, ProofOk
  <2> QED  BY <2>2, <2>3
<1> QED  BY <1>1 DEF IInv

\* The call of the holder returns.
LEMMA ReturnWith ==
  ASSUME IInv, NEW p \in Procs, lease = p, Return(p),
         JournalTypes', DirTypes', faults' \in 0 .. MaxFaults, DiskInv',
         proof' \in [Procs -> Journal \cup {None}],
         \A q \in Procs \ {p} : proof'[q] = proof[q], ProofOk(p)',
         txn' \in [Procs -> Txn \cup {None}],
         \A q \in Procs \ {p} : txn'[q] = txn[q],
         txn'[p] # None => ~at[p].auto /\ PublishedOrGone'
  PROVE  IInv'
<1>1. /\ at' \in [Procs -> Call] /\ Calls' /\ at'[p] = Idle
      /\ lease' \in Procs \cup {None}
      /\ \A q \in Procs \ {p} : at'[q] = at[q]
      /\ ~at[p].auto => lease' = p
  BY Returns DEF IInv
<1>2. Types'
  BY <1>1 DEF Types
<1>3. Known(at[p].pc, at[p].journal)'
  BY <1>1 DEF Known, Idle, CallPCs, CopyPCs, PublishPCs, CommitPCs, RollbackPCs, FinalPCs
<1>4. TxnOk(p)'
  BY <1>1 DEF IInv, TxnOk, Idle
<1> QED  BY <1>1, <1>2, <1>3, <1>4, HolderStep

\* The same when the transaction is kept or spent.
LEMMA ReturnStep ==
  ASSUME IInv, NEW p \in Procs, lease = p, Return(p),
         JournalTypes', DirTypes', faults' \in 0 .. MaxFaults, DiskInv',
         proof' \in [Procs -> Journal \cup {None}],
         \A q \in Procs \ {p} : proof'[q] = proof[q], ProofOk(p)',
         Spent(p) \/ (UNCHANGED txn /\ (txn[p] # None => PublishedOrGone'))
  PROVE  IInv'
<1>1. /\ txn' \in [Procs -> Txn \cup {None}]
      /\ \A q \in Procs \ {p} : txn'[q] = txn[q]
      /\ txn'[p] = None \/ (txn'[p] = txn[p] /\ (txn[p] # None => PublishedOrGone'))
  BY DEF IInv, Types, Spent
<1>2. txn'[p] # None => ~at[p].auto /\ PublishedOrGone'
  BY <1>1 DEF IInv, TxnOk
<1> QED  BY <1>1, <1>2, ReturnWith

\* The call of the holder goes on at pc with the journal j.
LEMMA GotoStep ==
  ASSUME IInv, NEW p \in Procs, lease = p,
         NEW pc \in CallPCs \cup {"recover"}, NEW j \in Journal \cup {None},
         Goto(p, pc, j), pc \in CallPCs => j # None,
         pc \in CopyPCs \cup PublishPCs => ~at[p].auto,
         JournalTypes', DirTypes', faults' \in 0 .. MaxFaults, DiskInv',
         UNCHANGED <<txn, proof>>, Known(pc, j)',
         txn[p] # None /\ pc \notin RollbackPCs => PublishedOrGone'
  PROVE  IInv'
<1>0. pc \in PCs \ {"idle", "acquire"}
  BY DEF PCs, CallPCs, CopyPCs, PublishPCs, CommitPCs, RollbackPCs, FinalPCs
<1>1. /\ at' \in [Procs -> Call] /\ Calls' /\ lease' = p
      /\ at'[p].pc = pc /\ at'[p].journal = j /\ at'[p].auto = at[p].auto
      /\ \A q \in Procs \ {p} : at'[q] = at[q]
  BY <1>0, Goes DEF IInv
<1>2. Types'
  BY <1>1 DEF IInv, Types
<1>3. Known(at[p].pc, at[p].journal)'
  BY <1>1 DEF Known
<1>4. TxnOk(p)' /\ ProofOk(p)'
  BY <1>1 DEF IInv, TxnOk, ProofOk
<1> QED  BY <1>1, <1>2, <1>3, <1>4, HolderStep

\* The call of the holder has changed something and is where it was.
LEMMA StayStep ==
  ASSUME IInv, NEW p \in Procs, lease = p, UNCHANGED <<at, lease, txn, proof>>,
         JournalTypes', DirTypes', faults' \in 0 .. MaxFaults, DiskInv',
         NEW j, at[p].journal = j, Known(at[p].pc, j)',
         txn[p] # None /\ at[p].pc \notin RollbackPCs => PublishedOrGone'
  PROVE  IInv'
<1>1. Types' /\ Calls'
  BY DEF IInv, Types, Calls
<1>2. Known(at[p].pc, at[p].journal)'
  BY DEF Known
<1>3. TxnOk(p)' /\ ProofOk(p)'
  BY DEF IInv, TxnOk, ProofOk
<1> QED  BY <1>1, <1>2, <1>3, HolderStep

-----------------------------------------------------------------------------
(* The disk.                                                               *)

\* JournalOk is about the directories alone.
LEMMA SameDirs ==
  ASSUME UNCHANGED dirsDisk
  PROVE  /\ Clean' <=> Clean
         /\ \A j : JournalOk(j)' <=> JournalOk(j)
  BY DEF Clean, CleanAt, JournalOk, SourceCertain, TargetCertain, Confined, NoSession, NoStaging

\* A journal that is synced, or the only one, leaves no doubt.
LEMMA OneJournal ==
  ASSUME journalDisk' = {journal'}, JournalOk(journal)'
  PROVE  DiskInv'
<1>1. ASSUME NEW j \in journalDisk' PROVE JournalOk(j)' /\ j = journal'
  BY <1>1
<1>2. CASE journal' = None
  BY <1>2 DEF JournalOk, DiskInv, Agree
<1>3. CASE journal' # None
  BY <1>1, <1>3 DEF DiskInv, Agree, SameMove
<1> QED  BY <1>2, <1>3

\* A journal that is written but may be lost again is of the one relocation
\* under way, or there is nothing to clean up.
LEMMA LateJournal ==
  ASSUME DiskInv, UNCHANGED dirsDisk, NEW j, journal' = j,
         journalDisk' = journalDisk \cup {j}, JournalOk(j), j # None,
         Clean \/ \A k \in journalDisk :
                   /\ k # None /\ SameMove(k, j)
                   /\ k.phase = "Ready" => j.phase = "Ready"
  PROVE  DiskInv'
<1>1. ASSUME NEW k \in journalDisk' PROVE JournalOk(k)'
  BY SameDirs DEF DiskInv
<1>2. Agree'
  BY SameDirs DEF Agree, SameMove
<1> QED  BY <1>1, <1>2 DEF DiskInv

\* What holds of all that may be found on disk holds of fewer.
Shrinks == \A c \in Cwds : dirsDisk'[c] \subseteq dirsDisk[c]

\* A journal that the disk bears out is borne out by fewer survivors.
LEMMA ShrinksOk ==
  ASSUME Shrinks, NEW j \in Journal \cup {None}
  PROVE  /\ Clean => Clean'
         /\ JournalOk(j) => JournalOk(j)'
<1> USE DEF Shrinks
<1>1. \A c \in Cwds : (NoSession(c) => NoSession(c)') /\ (NoStaging(c) => NoStaging(c)')
  BY DEF NoSession, NoStaging
<1>2. ASSUME Clean PROVE Clean'
  <2>1. PICK h \in Cwds, g \in 0 .. MaxGen : CleanAt(h, g)
    BY <1>2 DEF Clean
  <2>2. CleanAt(h, g)'
    BY <1>1, <2>1 DEF CleanAt
  <2> QED  BY <2>2 DEF Clean
<1>3. ASSUME JournalOk(j) PROVE JournalOk(j)'
  <2>1. CASE j = None
    BY <1>2, <1>3, <2>1 DEF JournalOk
  <2>2. CASE j # None
    <3>1. j.source \in Cwds /\ j.target \in Cwds
      BY <2>2 DEF Journal
    <3>2. /\ SourceCertain(j) => SourceCertain(j)'
          /\ TargetCertain(j) => TargetCertain(j)'
      BY <3>1 DEF SourceCertain, TargetCertain
    <3>3. Confined(j) => Confined(j)'
      BY <1>1, <3>1 DEF Confined
    <3> QED  BY <1>2, <1>3, <2>2, <3>2, <3>3 DEF JournalOk
  <2> QED  BY <2>1, <2>2
<1> QED  BY <1>2, <1>3

\* So the disk stays consistent when doubt is only removed.
LEMMA ShrinksDisk ==
  ASSUME Types, DiskInv, Shrinks, UNCHANGED <<journal, journalDisk>>
  PROVE  DiskInv'
<1>1. ASSUME NEW j \in journalDisk' PROVE JournalOk(j)'
  BY ShrinksOk DEF DiskInv, Types, JournalTypes
<1>2. Clean => Clean'
  BY ShrinksOk, None \in Journal \cup {None}
<1>3. Agree'
  BY <1>2 DEF DiskInv, Agree
<1> QED  BY <1>1, <1>3 DEF DiskInv

\* When nothing is left to clean up, the session is where a journal says.
LEMMA CleanSource ==
  ASSUME Types, Clean, NEW j \in Journal, SourceCertain(j)
  PROVE  /\ \A c \in Cwds \ {j.source} : NoSession(c)
         /\ \A c \in Cwds : NoStaging(c)
<1>1. j.source \in Cwds /\ dirs[j.source] \in dirsDisk[j.source]
  BY DEF Journal, Types, DirTypes
<1>2. PICK h \in Cwds, g \in 0 .. MaxGen : CleanAt(h, g)
  BY DEF Clean
<1>3. h = j.source
  BY <1>1, <1>2 DEF CleanAt, NoSession, SourceCertain, IsSource, Sound
<1> QED  BY <1>2, <1>3 DEF CleanAt

\* The same of a journal that gives the target the authority.
LEMMA CleanTarget ==
  ASSUME Types, Clean, NEW j \in Journal, TargetCertain(j)
  PROVE  /\ \A c \in Cwds \ {j.target} : NoSession(c)
         /\ \A c \in Cwds : NoStaging(c)
<1>1. j.target \in Cwds /\ dirs[j.target] \in dirsDisk[j.target]
  BY DEF Journal, Types, DirTypes
<1>2. PICK h \in Cwds, g \in 0 .. MaxGen : CleanAt(h, g)
  BY DEF Clean
<1>3. h = j.target
  BY <1>1, <1>2 DEF CleanAt, NoSession, TargetCertain, IsTarget, Sound
<1> QED  BY <1>2, <1>3 DEF CleanAt

\* A rollback that has removed staging and target, and a commit that has
\* removed the source and staging, have cleaned up.
LEMMA RolledBackClean ==
  ASSUME DirTypes', NEW j \in Journal, SourceCertain(j)', Confined(j)',
         NoSession(j.target)', NoStaging(j.target)'
  PROVE  Clean'
<1>1. /\ j.source \in Cwds /\ j.gen \in 1 .. MaxGen
      /\ dirsDisk'[j.source] \in SUBSET Parent
  BY DEF Journal, DirTypes
<1>2. j.gen - 1 \in 0 .. MaxGen
  BY <1>1, RelocationConstants
<1>3. ASSUME NEW e \in dirsDisk'[j.source]
      PROVE  Sound(e, j.source) /\ e.session.sum.gen = j.gen - 1
  <2>1. e \in Parent /\ e.session # None /\ e.session.sum # None
        /\ e.session.sum.gen + 1 = j.gen /\ Sound(e, j.source)
    BY <1>1, <1>3 DEF SourceCertain, IsSource, Sound
  <2>2. e.session.sum \in Summary
    BY <2>1 DEF Parent, Dir
  <2>3. e.session.sum.gen \in 0 .. MaxGen
    BY <2>2 DEF Summary
  <2> QED  BY <1>1, <2>1, <2>3, RelocationConstants
<1>4. CleanAt(j.source, j.gen - 1)'
  BY <1>3 DEF CleanAt, Confined
<1> QED  BY <1>1, <1>2, <1>4 DEF Clean

\* The commit's half of it.
LEMMA CommittedClean ==
  ASSUME NEW j \in Journal, TargetCertain(j)', Confined(j)',
         NoSession(j.source)', NoStaging(j.target)'
  PROVE  Clean'
<1>1. j.target \in Cwds /\ j.gen \in 0 .. MaxGen
  BY DEF Journal
<1>2. CleanAt(j.target, j.gen)'
  BY <1>1 DEF CleanAt, Confined, TargetCertain, IsTarget
<1> QED  BY <1>1, <1>2 DEF Clean

\* The directory under c becomes d, for certain or not.
Changes(c, d) ==
  /\ dirs' \in [Cwds -> Parent] /\ dirsDisk' \in [Cwds -> SUBSET Parent]
  /\ dirs'[c] = d /\ d \in dirsDisk'[c] /\ dirsDisk'[c] \subseteq dirsDisk[c] \cup {d}
  /\ \A b \in Cwds \ {c} : dirs'[b] = dirs[b] /\ dirsDisk'[b] = dirsDisk[b]

\* A synced change is certain ...
LEMMA SyncedChanges ==
  ASSUME Types, NEW c \in Cwds, NEW d \in Parent, Synced(c, d)
  PROVE  Changes(c, d) /\ dirsDisk'[c] = {d}
  BY DEF Types, DirTypes, Synced, Changes

\* ... and one that is only visible may be lost.
LEMMA UnsyncedChanges ==
  ASSUME Types, NEW c \in Cwds, NEW d \in Parent, Unsynced(c, d)
  PROVE  Changes(c, d)
  BY DEF Types, DirTypes, Unsynced, Changes

\* The directories stay typed.
LEMMA ChangesTypes ==
  ASSUME Types, NEW c \in Cwds, NEW d, Changes(c, d)
  PROVE  DirTypes'
  BY DEF Types, DirTypes, Changes

\* Before the decision the target's directory may change as it will.
LEMMA TargetChanges ==
  ASSUME NEW j \in Journal, NEW d, Changes(j.target, d),
         \A n \in Nonces \ {j.nonce} : d.staging[n] = None,
         JournalOk(j), j.phase \notin {"Ready", "Committed", "RolledBack"}
  PROVE  JournalOk(j)'
<1>1. j.source \in Cwds /\ j.target \in Cwds /\ j # None
  BY NoneIsNothing DEF Journal
<1>2. j.source # j.target /\ SourceCertain(j) /\ Confined(j)
  BY <1>1 DEF JournalOk, has_target_authority, Terminal
<1>3. SourceCertain(j)'
  BY <1>1, <1>2 DEF SourceCertain, Changes
<1>4. Confined(j)'
  BY <1>1, <1>2 DEF Confined, NoSession, NoStaging, Changes
<1> QED  BY <1>1, <1>2, <1>3, <1>4 DEF JournalOk, has_target_authority, Terminal

\* After it the source's may, and the target's staging.
LEMMA SourceChanges ==
  ASSUME NEW j \in Journal, NEW d, Changes(j.source, d),
         \A n \in Nonces : d.staging[n] = None,
         JournalOk(j), j.phase = "Ready"
  PROVE  JournalOk(j)'
<1>1. j.source \in Cwds /\ j.target \in Cwds /\ j # None
  BY NoneIsNothing DEF Journal
<1>2. j.source # j.target /\ TargetCertain(j) /\ Confined(j)
  BY <1>1 DEF JournalOk, has_target_authority, Terminal
<1>3. TargetCertain(j)'
  BY <1>1, <1>2 DEF TargetCertain, Changes
<1>4. Confined(j)'
  BY <1>1, <1>2 DEF Confined, NoSession, NoStaging, Changes
<1> QED  BY <1>1, <1>2, <1>3, <1>4 DEF JournalOk, has_target_authority, Terminal

\* A change of the target's staging entry leaves a decided target alone.
LEMMA StagingChanges ==
  ASSUME NEW j \in Journal, NEW d, Changes(j.target, d), IsTarget(d, j),
         \A n \in Nonces \ {j.nonce} : d.staging[n] = None,
         JournalOk(j), j.phase = "Ready"
  PROVE  JournalOk(j)'
<1>1. j.source \in Cwds /\ j.target \in Cwds /\ j # None
  BY NoneIsNothing DEF Journal
<1>2. j.source # j.target /\ TargetCertain(j) /\ Confined(j)
  BY <1>1 DEF JournalOk, has_target_authority, Terminal
<1>3. TargetCertain(j)'
  BY <1>1, <1>2 DEF TargetCertain, Changes
<1>4. Confined(j)'
  BY <1>1, <1>2 DEF Confined, NoSession, NoStaging, Changes
<1> QED  BY <1>1, <1>2, <1>3, <1>4 DEF JournalOk, has_target_authority, Terminal

\* Every journal that may be found is of one relocation that is undecided.
Undecided ==
  \A k \in journalDisk :
    /\ k # None /\ SameMove(k, journal)
    /\ k.phase \notin {"Ready", "Committed", "RolledBack"}

\* An undecided relocation may do with the target's directory what it likes.
LEMMA UndecidedDisk ==
  ASSUME Types, DiskInv, UNCHANGED <<journal, journalDisk>>, Undecided,
         NEW d, Changes(journal.target, d),
         \A n \in Nonces \ {journal.nonce} : d.staging[n] = None
  PROVE  DiskInv'
<1>1. ASSUME NEW k \in journalDisk' PROVE JournalOk(k)'
  <2>1. k \in Journal /\ JournalOk(k) /\ k.target = journal.target /\ k.nonce = journal.nonce
    BY <1>1 DEF Types, JournalTypes, Undecided, SameMove, DiskInv
  <2>2. k.phase \notin {"Ready", "Committed", "RolledBack"}
    BY <1>1 DEF Undecided
  <2> QED  BY <2>1, <2>2, TargetChanges
<1>2. Agree'
  BY DEF Agree, Undecided
<1> QED  BY <1>1, <1>2 DEF DiskInv

\* A rollback finds nothing to clean up, or one undecided relocation.
LEMMA RollbackFinds ==
  ASSUME Types, DiskInv, journal # None, ~has_target_authority(journal.phase), ~Clean
  PROVE  Undecided
<1> SUFFICES ASSUME NEW k \in journalDisk
             PROVE  /\ k # None /\ SameMove(k, journal)
                    /\ k.phase \notin {"Ready", "Committed", "RolledBack"}
  BY DEF Undecided
<1>1. k # None /\ SameMove(k, journal) /\ (k.phase = "Ready" => journal.phase = "Ready")
  BY DEF DiskInv, Agree
<1> QED  BY <1>1 DEF DiskInv, JournalOk, Terminal, has_target_authority

-----------------------------------------------------------------------------
(* Steps.                                                                  *)

\* Faults stay within their budget.
LEMMA FaultType ==
  ASSUME Types, Fault \/ UNCHANGED faults
  PROVE  faults' \in 0 .. MaxFaults
  BY RelocationConstants DEF Types, Fault

\* Entries of a directory.
LEMMA WithSession ==
  ASSUME NEW d \in Parent, NEW e \in Dir
  PROVE  /\ [d EXCEPT !.session = e] \in Parent
         /\ [d EXCEPT !.session = e].session = e
         /\ [d EXCEPT !.session = e].staging = d.staging
  BY DEF Parent

\* The same of a staging entry.
LEMMA WithStaging ==
  ASSUME NEW d \in Parent, NEW n \in Nonces, NEW e \in Dir
  PROVE  /\ [d EXCEPT !.staging[n] = e] \in Parent
         /\ [d EXCEPT !.staging[n] = e].session = d.session
         /\ [d EXCEPT !.staging[n] = e].staging[n] = e
         /\ \A m \in Nonces \ {n} : [d EXCEPT !.staging[n] = e].staging[m] = d.staging[m]
  BY DEF Parent

\* What remove_dir_all leaves on its way is a directory.
LEMMA TornIsDir ==
  ASSUME NEW d \in Dir, NEW e \in Torn(d)
  PROVE  e \in Dir /\ d # None
<1>1. d # None
  BY DEF Torn
<1>2. d.sum \in Summary \cup {None}
  BY <1>1 DEF Dir
<1>3. PICK s \in {d.sum, None} : e = [sum |-> s, whole |-> FALSE]
  BY <1>1 DEF Torn
<1> QED  BY <1>1, <1>2, <1>3 DEF Dir

\* remove_dir_all of the session's entry.
LEMMA SessionRemoval ==
  ASSUME Types, NEW p \in Procs, NEW c \in Cwds, NEW next, NEW ACTION failed,
         RemoveSession(p, c, next, failed)
  PROVE  /\ UNCHANGED <<journal, journalDisk>>
         /\ \/ /\ \E e \in Dir : /\ dirs[c].session # None
                                /\ Changes(c, [dirs[c] EXCEPT !.session = e])
               /\ UNCHANGED <<at, lease, txn, faults>>
            \/ /\ Changes(c, [dirs[c] EXCEPT !.session = None])
               /\ dirsDisk'[c] = {[dirs[c] EXCEPT !.session = None]}
               /\ Goto(p, next, at[p].journal) /\ UNCHANGED <<txn, faults>>
            \/ /\ Fault /\ failed
               /\ \/ UNCHANGED <<dirs, dirsDisk>>
                  \/ Changes(c, [dirs[c] EXCEPT !.session = None])
<1>1. dirs[c] \in Parent /\ dirs[c].session \in Dir /\ None \in Dir
  BY DEF Types, DirTypes, Parent, Dir
<1>2. \A e \in Dir : [dirs[c] EXCEPT !.session = e] \in Parent
  BY <1>1, WithSession
<1>3. \A e \in Torn(dirs[c].session) : e \in Dir /\ dirs[c].session # None
  BY <1>1, TornIsDir
<1>4. /\ UNCHANGED <<journal, journalDisk>>
      /\ \/ \E e \in Torn(dirs[c].session) :
              Unsynced(c, [dirs[c] EXCEPT !.session = e]) /\ UNCHANGED <<at, lease, txn, faults>>
         \/ /\ Synced(c, [dirs[c] EXCEPT !.session = None])
            /\ Goto(p, next, at[p].journal) /\ UNCHANGED <<txn, faults>>
         \/ Fault /\ UNCHANGED <<dirs, dirsDisk>> /\ failed
         \/ Fault /\ Unsynced(c, [dirs[c] EXCEPT !.session = None]) /\ failed
  BY DEF RemoveSession, RemoveDir
<1>5. \A e \in Dir : /\ Unsynced(c, [dirs[c] EXCEPT !.session = e]) =>
                           Changes(c, [dirs[c] EXCEPT !.session = e])
                     /\ Synced(c, [dirs[c] EXCEPT !.session = e]) =>
                           /\ Changes(c, [dirs[c] EXCEPT !.session = e])
                           /\ dirsDisk'[c] = {[dirs[c] EXCEPT !.session = e]}
  BY <1>2, SyncedChanges, UnsyncedChanges
<1> QED  BY <1>1, <1>3, <1>4, <1>5

\* remove_dir_all of a staging entry.
LEMMA StagingRemoval ==
  ASSUME Types, NEW p \in Procs, NEW c \in Cwds, NEW n \in Nonces, NEW next,
         NEW ACTION failed, RemoveStaging(p, c, n, next, failed)
  PROVE  /\ UNCHANGED <<journal, journalDisk>>
         /\ \/ /\ \E e \in Dir : /\ dirs[c].staging[n] # None
                                /\ Changes(c, [dirs[c] EXCEPT !.staging[n] = e])
               /\ UNCHANGED <<at, lease, txn, faults>>
            \/ /\ Changes(c, [dirs[c] EXCEPT !.staging[n] = None])
               /\ dirsDisk'[c] = {[dirs[c] EXCEPT !.staging[n] = None]}
               /\ Goto(p, next, at[p].journal) /\ UNCHANGED <<txn, faults>>
            \/ /\ Fault /\ failed
               /\ \/ UNCHANGED <<dirs, dirsDisk>>
                  \/ Changes(c, [dirs[c] EXCEPT !.staging[n] = None])
<1>1. dirs[c] \in Parent /\ dirs[c].staging[n] \in Dir /\ None \in Dir
  BY DEF Types, DirTypes, Parent, Dir
<1>2. \A e \in Dir : [dirs[c] EXCEPT !.staging[n] = e] \in Parent
  BY <1>1, WithStaging
<1>3. \A e \in Torn(dirs[c].staging[n]) : e \in Dir /\ dirs[c].staging[n] # None
  BY <1>1, TornIsDir
<1>4. /\ UNCHANGED <<journal, journalDisk>>
      /\ \/ \E e \in Torn(dirs[c].staging[n]) :
              Unsynced(c, [dirs[c] EXCEPT !.staging[n] = e]) /\ UNCHANGED <<at, lease, txn, faults>>
         \/ /\ Synced(c, [dirs[c] EXCEPT !.staging[n] = None])
            /\ Goto(p, next, at[p].journal) /\ UNCHANGED <<txn, faults>>
         \/ Fault /\ UNCHANGED <<dirs, dirsDisk>> /\ failed
         \/ Fault /\ Unsynced(c, [dirs[c] EXCEPT !.staging[n] = None]) /\ failed
  BY DEF RemoveStaging, RemoveDir
<1>5. \A e \in Dir : /\ Unsynced(c, [dirs[c] EXCEPT !.staging[n] = e]) =>
                           Changes(c, [dirs[c] EXCEPT !.staging[n] = e])
                     /\ Synced(c, [dirs[c] EXCEPT !.staging[n] = e]) =>
                           /\ Changes(c, [dirs[c] EXCEPT !.staging[n] = e])
                           /\ dirsDisk'[c] = {[dirs[c] EXCEPT !.staging[n] = e]}
  BY <1>2, SyncedChanges, UnsyncedChanges
<1> QED  BY <1>1, <1>3, <1>4, <1>5

\* Removing what is not there changes nothing.
LEMMA NothingRemoved ==
  ASSUME Types, NEW c \in Cwds, Changes(c, dirs[c])
  PROVE  Shrinks
  BY DEF Types, DirTypes, Changes, Shrinks

\* Removal of a missing session entry ...
LEMMA NoSessionToRemove ==
  ASSUME NEW d \in Parent, d.session = None
  PROVE  [d EXCEPT !.session = None] = d
  BY DEF Parent

\* ... and of a missing staging entry.
LEMMA NoStagingToRemove ==
  ASSUME NEW d \in Parent, NEW n \in Nonces, d.staging[n] = None
  PROVE  [d EXCEPT !.staging[n] = None] = d
<1>1. [d.staging EXCEPT ![n] = None] = d.staging
  BY DEF Parent
<1> QED  BY <1>1 DEF Parent

\* write_atomic_durable of a journal that the disk bears out.
LEMMA Writes ==
  ASSUME Types, DiskInv, NEW j \in Journal,
         NEW ACTION ok, NEW ACTION lost, NEW ACTION late,
         WriteJournal(j, ok, lost, late), JournalOk(j),
         Clean \/ \A k \in journalDisk :
                   /\ k # None /\ SameMove(k, j)
                   /\ k.phase = "Ready" => j.phase = "Ready"
  PROVE  /\ JournalTypes' /\ DirTypes' /\ faults' \in 0 .. MaxFaults /\ DiskInv'
         /\ UNCHANGED <<dirs, dirsDisk>>
         /\ \/ ok /\ journal' = j /\ journalDisk' = {j}
            \/ lost /\ UNCHANGED <<journal, journalDisk>>
            \/ late /\ journal' = j
<1>0. UNCHANGED <<dirs, dirsDisk>> /\ DirTypes' /\ faults' \in 0 .. MaxFaults /\ j # None
  BY FaultType, NoneIsNothing DEF WriteJournal, Types, DirTypes
<1>1. CASE ok /\ journal' = j /\ journalDisk' = {j}
  <2>1. JournalTypes'
    BY <1>1 DEF JournalTypes
  <2>2. JournalOk(j)'
    BY <1>0, SameDirs
  <2>3. JournalOk(journal)'
    BY <1>1, <2>2 DEF JournalOk, TargetCertain, SourceCertain, Confined, Clean
  <2> QED  BY <1>0, <1>1, <2>1, <2>3, OneJournal
<1>2. CASE lost /\ UNCHANGED <<journal, journalDisk>>
  <2>1. JournalTypes'
    BY <1>2 DEF Types, JournalTypes
  <2>2. Shrinks
    BY <1>0 DEF Shrinks
  <2> QED  BY <1>0, <1>2, <2>1, <2>2, ShrinksDisk
<1>3. CASE late /\ journal' = j /\ journalDisk' = journalDisk \cup {j}
  <2>1. JournalTypes'
    BY <1>3 DEF Types, JournalTypes
  <2>2. DiskInv'
    BY <1>0, <1>3, LateJournal
  <2> QED  BY <1>0, <1>3, <2>1, <2>2
<1> QED  BY <1>1, <1>2, <1>3 DEF WriteJournal

\* sync_journal_namespace.
LEMMA Syncs ==
  ASSUME Types, DiskInv, NEW ACTION ok, NEW ACTION failed, SyncJournal(ok, failed)
  PROVE  /\ JournalTypes' /\ DirTypes' /\ faults' \in 0 .. MaxFaults /\ DiskInv'
         /\ UNCHANGED <<journal, dirs, dirsDisk>>
         /\ \/ ok /\ journalDisk' = {journal}
            \/ failed /\ UNCHANGED journalDisk
<1>0. /\ UNCHANGED <<journal, dirs, dirsDisk>> /\ DirTypes' /\ faults' \in 0 .. MaxFaults
      /\ \/ ok /\ journalDisk' = {journal}
         \/ failed /\ UNCHANGED journalDisk
  BY FaultType DEF SyncJournal, Types, DirTypes
<1>1. JournalTypes'
  BY <1>0 DEF Types, JournalTypes
<1>2. CASE journalDisk' = {journal}
  <2>1. PICK j : j = journal
    OBVIOUS
  <2>2. JournalOk(j)'
    BY <1>0, <2>1, SameDirs DEF Types, JournalTypes, DiskInv
  <2>3. JournalOk(journal)'
    BY <1>0, <2>1, <2>2 DEF JournalOk, TargetCertain, SourceCertain, Confined, Clean
  <2> QED  BY <1>0, <1>1, <1>2, <2>3, OneJournal
<1>3. CASE UNCHANGED journalDisk
  <2>1. Shrinks
    BY <1>0 DEF Shrinks
  <2> QED  BY <1>0, <1>1, <1>3, <2>1, ShrinksDisk
<1> QED  BY <1>0, <1>2, <1>3

\* A step that leaves the disk alone.
LEMMA SameDisk ==
  ASSUME Types, DiskInv, UNCHANGED disk
  PROVE  JournalTypes' /\ DirTypes' /\ DiskInv'
<1>1. Shrinks
  BY DEF Shrinks, disk
<1> QED  BY <1>1, ShrinksDisk DEF Types, JournalTypes, DirTypes, disk

\* The journal of another phase is about the same move.
LEMMA Rephased ==
  ASSUME NEW j \in Journal, NEW phase \in Phases, NEW k, k = [j EXCEPT !.phase = phase]
  PROVE  /\ k \in Journal /\ k # None /\ k.phase = phase /\ SameMove(k, j)
         /\ k.source = j.source /\ k.target = j.target
         /\ SourceCertain(k) <=> SourceCertain(j)
         /\ TargetCertain(k) <=> TargetCertain(j)
         /\ Confined(k) <=> Confined(j)
         /\ \A e : IsStaged(e, k) <=> IsStaged(e, j)
<1>1. k \in Journal /\ k # None
  BY NoneIsNothing DEF Journal
<1>2. /\ k.phase = phase /\ k.source = j.source /\ k.target = j.target
      /\ k.gen = j.gen /\ k.nonce = j.nonce
  BY DEF Journal
<1> QED  BY <1>1, <1>2 DEF SameMove, SourceCertain, TargetCertain, Confined, IsSource, IsTarget, IsStaged

-----------------------------------------------------------------------------
(* stage_and_publish.                                                      *)

\* The Prepared journal describes the disk, and so does its loss.
LEMMA StageStep ==
  ASSUME IInv, NEW p \in Procs, stage_and_publish(p)
  PROVE  IInv'
<1> USE DEF IInv
<1>0. lease = p /\ at[p].pc = "idle" /\ ~at[p].auto /\ journal = None /\ UNCHANGED <<txn, proof>>
  BY DEF stage_and_publish, Holds, Calls
<1>1. PICK src \in Cwds, tgt \in Cwds, n \in Nonces :
        /\ src # tgt
        /\ dirs[src].session # None /\ dirs[src].session.sum # None
        /\ dirs[src].session.sum.gen < MaxGen
        /\ ValidSource(journal_of(src, tgt, n), dirs)
        /\ dirs[tgt].session = None
        /\ WriteJournal(journal_of(src, tgt, n),
                        Goto(p, "copy", journal_of(src, tgt, n)),
                        Return(p), Return(p))
  BY DEF stage_and_publish
<1>2. PICK j : j = journal_of(src, tgt, n)
  OBVIOUS
<1>3. dirs[src].session.sum.gen \in 0 .. MaxGen
  <2>1. dirs[src].session.sum \in Summary
    BY <1>1 DEF Types, DirTypes, Parent, Dir
  <2> QED  BY <2>1 DEF Summary
<1>4. /\ j \in Journal /\ j # None /\ j.source = src /\ j.target = tgt
      /\ j.gen = dirs[src].session.sum.gen + 1 /\ j.phase = "Prepared"
  BY <1>1, <1>2, <1>3, NoneIsNothing, RelocationConstants DEF journal_of, Journal, Phases
<1>5. Clean
  BY <1>0 DEF DiskInv, JournalOk, Types, JournalTypes
<1>6. PICK h \in Cwds, g \in 0 .. MaxGen : CleanAt(h, g)
  BY <1>5 DEF Clean
<1>7. dirs[src] \in dirsDisk[src]
  BY DEF Types, DirTypes
<1>8. h = src /\ g = dirs[src].session.sum.gen
  BY <1>1, <1>6, <1>7 DEF CleanAt, NoSession
<1>9. SourceCertain(j) /\ Confined(j) /\ NoSession(j.target)
  BY <1>1, <1>4, <1>6, <1>8 DEF CleanAt, SourceCertain, IsSource, Confined, NoStaging
<1>10. JournalOk(j)
  BY <1>1, <1>4, <1>9 DEF JournalOk, has_target_authority, Terminal
<1>11. /\ JournalTypes' /\ DirTypes' /\ faults' \in 0 .. MaxFaults /\ DiskInv'
       /\ UNCHANGED <<dirs, dirsDisk>>
       /\ \/ Goto(p, "copy", j) /\ journal' = j /\ journalDisk' = {j}
          \/ Return(p) /\ UNCHANGED <<journal, journalDisk>>
          \/ Return(p) /\ journal' = j
  BY <1>1, <1>2, <1>4, <1>5, <1>10, Writes
<1>12. PublishedOrGone'
  BY <1>0, <1>4, <1>11 DEF PublishedOrGone
<1>13. CASE Goto(p, "copy", j) /\ journal' = j /\ journalDisk' = {j}
  <2>1. Known("copy", j)'
    BY <1>4, <1>9, <1>11, <1>13
       DEF Known, NoSession, CopyPCs, PublishPCs, CommitPCs, RollbackPCs, FinalPCs
  <2>2. "copy" \in CallPCs \cup {"recover"} /\ "copy" \notin RollbackPCs
    BY DEF CallPCs, CopyPCs, RollbackPCs
  <2> QED  BY <1>0, <1>4, <1>11, <1>12, <1>13, <2>1, <2>2, GotoStep
<1>14. CASE Return(p)
  BY <1>0, <1>11, <1>12, <1>14, ReturnStep DEF Types, ProofOk
<1> QED  BY <1>11, <1>13, <1>14

\* What a call that works on a journal knows about it.
LEMMA AtWork ==
  ASSUME IInv, NEW p \in Procs, at[p].pc \in CallPCs
  PROVE  /\ lease = p /\ at[p].journal \in Journal /\ at[p].journal # None
         /\ Known(at[p].pc, at[p].journal)
         /\ at[p].pc \notin FinalPCs => journal = at[p].journal /\ JournalOk(at[p].journal)
<1>1. at[p].journal \in Journal /\ at[p].journal # None /\ lease = p
  BY DEF IInv, Calls, Types, Call, CallPCs, CopyPCs, PublishPCs, CommitPCs, RollbackPCs, FinalPCs
<1>2. Known(at[p].pc, at[p].journal)
  BY DEF IInv
<1>3. at[p].pc \notin FinalPCs => journal = at[p].journal
  BY <1>2 DEF Known
<1>4. JournalOk(journal)
  BY DEF IInv, DiskInv, Types, JournalTypes
<1> QED  BY <1>1, <1>2, <1>3, <1>4

\* An undecided move and its fields.
LEMMA MoveFields ==
  ASSUME NEW j \in Journal
  PROVE  /\ j.source \in Cwds /\ j.target \in Cwds /\ j.nonce \in Nonces
         /\ j.gen \in 1 .. MaxGen /\ j.gen \in 0 .. MaxGen /\ j # None
  BY NoneIsNothing DEF Journal

\* A change of the target's staging directory before the journal is written
\* that decides.
LEMMA OtherStaging ==
  ASSUME Types, NEW j \in Journal, JournalOk(j)
  PROVE  \A n \in Nonces \ {j.nonce} : dirs[j.target].staging[n] = None
<1>1. j.target \in Cwds /\ dirs[j.target] \in dirsDisk[j.target] /\ j # None
  BY MoveFields DEF Types, DirTypes
<1>2. CASE j.phase \in Terminal
  BY <1>1, <1>2 DEF JournalOk, Clean, CleanAt, NoStaging
<1>3. CASE j.phase \notin Terminal
  BY <1>1, <1>3 DEF JournalOk, Confined
<1> QED  BY <1>2, <1>3

\* The target's directory with another staging entry.
LEMMA StagingWith ==
  ASSUME Types, NEW j \in Journal, JournalOk(j), NEW e \in Dir
  PROVE  LET w == [dirs[j.target] EXCEPT !.staging[j.nonce] = e]
         IN  /\ w \in Parent /\ w.session = dirs[j.target].session
             /\ w.staging[j.nonce] = e
             /\ \A n \in Nonces \ {j.nonce} : w.staging[n] = None
<1> DEFINE w == [dirs[j.target] EXCEPT !.staging[j.nonce] = e]
<1>1. j.target \in Cwds /\ j.nonce \in Nonces /\ dirs[j.target] \in Parent
  BY MoveFields DEF Types, DirTypes
<1>2. \A n \in Nonces \ {j.nonce} : dirs[j.target].staging[n] = None
  BY OtherStaging
<1>3. /\ w \in Parent /\ w.session = dirs[j.target].session
      /\ w.staging[j.nonce] = e
      /\ \A n \in Nonces \ {j.nonce} : w.staging[n] = dirs[j.target].staging[n]
  BY <1>1, WithStaging
<1> HIDE DEF w
<1>4. /\ w \in Parent /\ w.session = dirs[j.target].session
      /\ w.staging[j.nonce] = e
      /\ \A n \in Nonces \ {j.nonce} : w.staging[n] = None
  BY <1>2, <1>3
<1> QED  BY <1>4 DEF w

\* The copy is made in a directory that nobody looks at.
LEMMA CopyStep ==
  ASSUME IInv, NEW p \in Procs, CopyDirectory(p)
  PROVE  IInv'
<1> USE DEF IInv
<1>0. at[p].pc = "copy" /\ UNCHANGED <<journal, journalDisk, txn, proof>>
  BY DEF CopyDirectory
<1>1. PICK j \in Journal : j = at[p].journal
  BY <1>0, AtWork DEF CallPCs, CopyPCs
<1>2. /\ lease = p /\ Known("copy", j) /\ JournalOk(j) /\ journal = j
  BY <1>0, <1>1, AtWork DEF CallPCs, CopyPCs, FinalPCs
<1>3. journalDisk = {j} /\ j.phase = "Prepared" /\ NoSession(j.target) /\ ~at[p].auto
  BY <1>0, <1>2 DEF Known, Calls, CopyPCs
<1>4. /\ j.source \in Cwds /\ j.target \in Cwds /\ j.nonce \in Nonces /\ j # None
      /\ j.source # j.target /\ SourceCertain(j)
  BY <1>2, <1>3, MoveFields DEF JournalOk, has_target_authority
<1>5. Undecided
  BY <1>2, <1>3, <1>4 DEF Undecided, SameMove
<1> DEFINE d == dirs[j.target]
           With(e) == [d EXCEPT !.staging[j.nonce] = e]
           source == dirs[j.source].session
<1>6. d \in Parent /\ source \in Dir /\ d.session = None /\ source # None /\ source.whole
  BY <1>3, <1>4 DEF Types, DirTypes, Parent, NoSession, SourceCertain, IsSource, Sound
<1>7. JournalTypes' /\ PublishedOrGone'
  BY <1>0, <1>2, <1>3 DEF Types, JournalTypes, PublishedOrGone
<1>8. ASSUME NEW e \in Dir, Synced(j.target, With(e))
      PROVE  /\ DirTypes' /\ DiskInv' /\ dirsDisk'[j.target] = {With(e)}
             /\ With(e).session = None /\ With(e).staging[j.nonce] = e
  <2>1. /\ With(e) \in Parent /\ With(e).session = None /\ With(e).staging[j.nonce] = e
        /\ \A n \in Nonces \ {j.nonce} : With(e).staging[n] = None
    BY <1>2, <1>6, <1>8, StagingWith
  <2> HIDE DEF With
  <2>2. Changes(j.target, With(e)) /\ dirsDisk'[j.target] = {With(e)}
    BY <1>4, <1>8, <2>1, SyncedChanges
  <2> QED  BY <1>0, <1>2, <1>4, <1>5, <2>1, <2>2, ChangesTypes, UndecidedDisk
<1>9. CASE /\ Synced(j.target, With([sum |-> None, whole |-> FALSE]))
           /\ UNCHANGED <<at, lease, faults>>
  <2>1. [sum |-> None, whole |-> FALSE] \in Dir
    BY DEF Dir
  <2>2. PICK e \in Dir : e = [sum |-> None, whole |-> FALSE]
    BY <2>1
  <2> HIDE DEF With
  <2>3. DirTypes' /\ DiskInv' /\ dirsDisk'[j.target] = {With(e)} /\ With(e).session = None
    BY <1>8, <1>9, <2>2
  <2>4. Known("copy", j)'
    BY <1>0, <1>2, <1>3, <2>3
       DEF Known, NoSession, CopyPCs, PublishPCs, CommitPCs, RollbackPCs, FinalPCs
  <2>5. faults' \in 0 .. MaxFaults
    BY <1>9 DEF Types
  <2> QED  BY <1>0, <1>1, <1>2, <1>7, <1>9, <2>3, <2>4, <2>5, StayStep
<1>10. CASE Synced(j.target, With(source)) /\ Goto(p, "rewrite", j) /\ UNCHANGED faults
  <2>1. PICK e \in Dir : e = source
    BY <1>6
  <2> HIDE DEF With
  <2>2. /\ DirTypes' /\ DiskInv' /\ dirsDisk'[j.target] = {With(e)}
        /\ With(e).session = None /\ With(e).staging[j.nonce] = e
    BY <1>8, <1>10, <2>1
  <2>3. Known("rewrite", j)'
    BY <1>0, <1>2, <1>3, <1>6, <2>1, <2>2
       DEF Known, NoSession, CopyPCs, PublishPCs, CommitPCs, RollbackPCs, FinalPCs
  <2>4. faults' \in 0 .. MaxFaults /\ "rewrite" \in CallPCs \cup {"recover"}
    BY <1>10 DEF Types, CallPCs, CopyPCs
  <2> QED  BY <1>0, <1>2, <1>3, <1>4, <1>7, <1>10, <2>2, <2>3, <2>4, GotoStep
<1>11. CASE Fault /\ Goto(p, "checkSource", j) /\ UNCHANGED <<dirs, dirsDisk>>
  <2>1. JournalTypes' /\ DirTypes' /\ DiskInv' /\ faults' \in 0 .. MaxFaults
    BY <1>0, <1>11, SameDisk, FaultType DEF disk
  <2>2. Known("checkSource", j)'
    BY <1>0, <1>2, <1>3
       DEF Known, CopyPCs, PublishPCs, CommitPCs, RollbackPCs, FinalPCs, has_target_authority
  <2>3. /\ "checkSource" \in CallPCs \cup {"recover"} /\ "checkSource" \in RollbackPCs
        /\ "checkSource" \notin CopyPCs \cup PublishPCs
    BY DEF CallPCs, RollbackPCs, CopyPCs, PublishPCs
  <2> QED  BY <1>0, <1>2, <1>4, <1>11, <2>1, <2>2, <2>3, GotoStep
<1> QED  BY <1>1, <1>9, <1>10, <1>11 DEF CopyDirectory

\* The summary in staging is rewritten for the target.
LEMMA RewriteStep ==
  ASSUME IInv, NEW p \in Procs, RewriteSummary(p)
  PROVE  IInv'
<1> USE DEF IInv
<1>0. at[p].pc = "rewrite" /\ UNCHANGED <<journal, journalDisk, txn, proof>>
  BY DEF RewriteSummary
<1>1. PICK j \in Journal : j = at[p].journal
  BY <1>0, AtWork DEF CallPCs, CopyPCs
<1>2. /\ lease = p /\ Known("rewrite", j) /\ JournalOk(j) /\ journal = j
  BY <1>0, <1>1, AtWork DEF CallPCs, CopyPCs, FinalPCs
<1>3. /\ journalDisk = {j} /\ j.phase = "Prepared" /\ NoSession(j.target) /\ ~at[p].auto
      /\ \A e \in dirsDisk[j.target] :
           e.staging[j.nonce] # None /\ e.staging[j.nonce].whole
  BY <1>0, <1>2 DEF Known, Calls, CopyPCs
<1>4. /\ j.source \in Cwds /\ j.target \in Cwds /\ j.nonce \in Nonces /\ j # None
      /\ j.gen \in 0 .. MaxGen
  BY MoveFields
<1>5. Undecided
  BY <1>2, <1>3, <1>4 DEF Undecided, SameMove
<1> DEFINE d == dirs[j.target]
           s == d.staging[j.nonce]
           r == [s EXCEPT !.sum = [cwd |-> j.target, gen |-> j.gen, prev |-> j.source]]
           w == [d EXCEPT !.staging[j.nonce] = r]
<1>6. d \in dirsDisk[j.target] /\ d \in Parent /\ s \in Dir /\ s # None /\ s.whole /\ d.session = None
  BY <1>3, <1>4 DEF Types, DirTypes, Parent, NoSession
<1>7. /\ r \in Dir /\ r # None /\ r.whole
      /\ r.sum = [cwd |-> j.target, gen |-> j.gen, prev |-> j.source]
  <2>1. [cwd |-> j.target, gen |-> j.gen, prev |-> j.source] \in Summary
    BY <1>4 DEF Summary
  <2> HIDE DEF s
  <2>2. /\ r \in [sum : Summary \cup {None}, whole : BOOLEAN] /\ r.whole
        /\ r.sum = [cwd |-> j.target, gen |-> j.gen, prev |-> j.source]
    BY <1>6, <2>1 DEF Dir
  <2> QED  BY <2>2, NoneIsNothing DEF Dir
<1> HIDE DEF r
<1>8. /\ w \in Parent /\ w.session = None /\ w.staging[j.nonce] = r
      /\ \A n \in Nonces \ {j.nonce} : w.staging[n] = None
  BY <1>2, <1>6, <1>7, StagingWith
<1> HIDE DEF w
<1>9. JournalTypes' /\ PublishedOrGone'
  BY <1>0, <1>2, <1>3 DEF Types, JournalTypes, PublishedOrGone
<1>10. CASE Synced(j.target, w) /\ Goto(p, "writeStaged", j) /\ UNCHANGED faults
  <2>1. Changes(j.target, w) /\ dirsDisk'[j.target] = {w}
    BY <1>4, <1>8, <1>10, SyncedChanges
  <2>2. DirTypes' /\ DiskInv'
    BY <1>0, <1>2, <1>4, <1>5, <1>8, <2>1, ChangesTypes, UndecidedDisk
  <2>3. IsStaged(w, j)
    BY <1>7, <1>8 DEF IsStaged
  <2>4. Known("writeStaged", j)'
    BY <1>0, <1>2, <1>3, <2>1, <2>3
       DEF Known, CopyPCs, PublishPCs, CommitPCs, RollbackPCs, FinalPCs
  <2>5. faults' \in 0 .. MaxFaults /\ "writeStaged" \in CallPCs \cup {"recover"}
    BY <1>10 DEF Types, CallPCs, CopyPCs
  <2> QED  BY <1>0, <1>2, <1>3, <1>4, <1>9, <1>10, <2>2, <2>4, <2>5, GotoStep
<1>11. CASE /\ Fault
            /\ UNCHANGED <<dirs, dirsDisk>> \/ Unsynced(j.target, w)
            /\ Goto(p, "checkSource", j)
  <2>1. DirTypes' /\ DiskInv'
    <3>1. CASE UNCHANGED <<dirs, dirsDisk>>
      BY <1>0, <3>1, SameDisk DEF disk
    <3>2. CASE Unsynced(j.target, w)
      <4>1. Changes(j.target, w)
        BY <1>4, <1>8, <3>2, UnsyncedChanges
      <4> QED  BY <1>0, <1>2, <1>4, <1>5, <1>8, <4>1, ChangesTypes, UndecidedDisk
    <3> QED  BY <1>11, <3>1, <3>2
  <2>2. Known("checkSource", j)'
    BY <1>0, <1>2, <1>3
       DEF Known, CopyPCs, PublishPCs, CommitPCs, RollbackPCs, FinalPCs, has_target_authority
  <2>3. /\ "checkSource" \in CallPCs \cup {"recover"} /\ "checkSource" \in RollbackPCs
        /\ "checkSource" \notin CopyPCs \cup PublishPCs
    BY DEF CallPCs, RollbackPCs, CopyPCs, PublishPCs
  <2>4. faults' \in 0 .. MaxFaults
    BY <1>11, FaultType
  <2> QED  BY <1>0, <1>2, <1>4, <1>9, <1>11, <2>1, <2>2, <2>3, <2>4, GotoStep
<1>12. \/ Synced(j.target, w) /\ Goto(p, "writeStaged", j) /\ UNCHANGED faults
       \/ /\ Fault
          /\ UNCHANGED <<dirs, dirsDisk>> \/ Unsynced(j.target, w)
          /\ Goto(p, "checkSource", j)
  BY <1>1 DEF RewriteSummary, w, r
<1> QED  BY <1>10, <1>11, <1>12

\* The Staged journal describes the disk as the Prepared one does.
LEMMA WriteStagedStep ==
  ASSUME IInv, NEW p \in Procs, WriteStaged(p)
  PROVE  IInv'
<1> USE DEF IInv
<1>0. at[p].pc = "writeStaged" /\ UNCHANGED <<txn, proof>>
  BY DEF WriteStaged
<1>1. PICK j \in Journal : j = at[p].journal
  BY <1>0, AtWork DEF CallPCs, CopyPCs
<1>2. /\ lease = p /\ Known("writeStaged", j) /\ JournalOk(j) /\ journal = j
  BY <1>0, <1>1, AtWork DEF CallPCs, CopyPCs, FinalPCs
<1>3. /\ journalDisk = {j} /\ j.phase = "Prepared" /\ ~at[p].auto
      /\ \A e \in dirsDisk[j.target] : IsStaged(e, j)
  BY <1>0, <1>2 DEF Known, Calls, CopyPCs
<1>4. PICK k : k = [j EXCEPT !.phase = "Staged"]
  OBVIOUS
<1>5. /\ k \in Journal /\ k # None /\ k.phase = "Staged" /\ SameMove(j, k) /\ j # None
      /\ k.source = j.source /\ k.target = j.target
      /\ SourceCertain(k) <=> SourceCertain(j)
      /\ Confined(k) <=> Confined(j)
      /\ \A e : IsStaged(e, k) <=> IsStaged(e, j)
  BY <1>4, Rephased, NoneIsNothing DEF Phases, SameMove
<1>6. JournalOk(k)
  BY <1>2, <1>3, <1>5 DEF JournalOk, has_target_authority, Terminal
<1>7. WriteJournal(k, Goto(p, "publish", k), Goto(p, "checkSource", j), Return(p))
  BY <1>1, <1>4 DEF WriteStaged
<1>8. /\ JournalTypes' /\ DirTypes' /\ faults' \in 0 .. MaxFaults /\ DiskInv'
      /\ UNCHANGED <<dirs, dirsDisk>>
      /\ \/ Goto(p, "publish", k) /\ journal' = k /\ journalDisk' = {k}
         \/ Goto(p, "checkSource", j) /\ UNCHANGED <<journal, journalDisk>>
         \/ Return(p) /\ journal' = k
  BY <1>3, <1>5, <1>6, <1>7, Writes
<1>9. PublishedOrGone'
  BY <1>2, <1>3, <1>5, <1>8 DEF PublishedOrGone
<1>10. CASE Goto(p, "publish", k) /\ journal' = k /\ journalDisk' = {k}
  <2>1. Known("publish", k)'
    BY <1>3, <1>5, <1>8, <1>10
       DEF Known, CopyPCs, PublishPCs, CommitPCs, RollbackPCs, FinalPCs
  <2>2. "publish" \in CallPCs \cup {"recover"}
    BY DEF CallPCs, PublishPCs
  <2> QED  BY <1>0, <1>2, <1>3, <1>5, <1>8, <1>9, <1>10, <2>1, <2>2, GotoStep
<1>11. CASE Goto(p, "checkSource", j) /\ UNCHANGED <<journal, journalDisk>>
  <2>1. Known("checkSource", j)'
    BY <1>2, <1>3, <1>11
       DEF Known, CopyPCs, PublishPCs, CommitPCs, RollbackPCs, FinalPCs, has_target_authority
  <2>2. /\ "checkSource" \in CallPCs \cup {"recover"} /\ "checkSource" \in RollbackPCs
        /\ "checkSource" \notin CopyPCs \cup PublishPCs
    BY DEF CallPCs, RollbackPCs, CopyPCs, PublishPCs
  <2> QED  BY <1>0, <1>2, <1>5, <1>8, <1>9, <1>11, <2>1, <2>2, GotoStep
<1>12. CASE Return(p)
  BY <1>0, <1>2, <1>8, <1>9, <1>12, ReturnStep DEF Types, ProofOk
<1> QED  BY <1>8, <1>10, <1>11, <1>12

\* rename_no_replace of staging onto the session's entry.
LEMMA Renamed ==
  ASSUME NEW d \in Parent, NEW n \in Nonces
  PROVE  LET w == [session |-> d.staging[n], staging |-> [d.staging EXCEPT ![n] = None]]
         IN  /\ w \in Parent /\ w.session = d.staging[n] /\ w.staging[n] = None
             /\ \A m \in Nonces \ {n} : w.staging[m] = d.staging[m]
<1>1. d.staging \in [Nonces -> Dir] /\ d.staging[n] \in Dir /\ None \in Dir
  BY DEF Parent, Dir
<1> DEFINE t == [d.staging EXCEPT ![n] = None]
<1>2. /\ t \in [Nonces -> Dir] /\ t[n] = None
      /\ \A m \in Nonces \ {n} : t[m] = d.staging[m]
  BY <1>1
<1> HIDE DEF t
<1>3. [session |-> d.staging[n], staging |-> t] \in Parent
  BY <1>1, <1>2 DEF Parent
<1> QED  BY <1>2, <1>3 DEF t

\* The staged copy becomes the target's session.
LEMMA PublishStep ==
  ASSUME IInv, NEW p \in Procs, Publish(p)
  PROVE  IInv'
<1> USE DEF IInv
<1>0. at[p].pc = "publish" /\ UNCHANGED <<journal, journalDisk, txn, proof>>
  BY DEF Publish
<1>1. PICK j \in Journal : j = at[p].journal
  BY <1>0, AtWork DEF CallPCs, PublishPCs
<1>2. /\ lease = p /\ Known("publish", j) /\ JournalOk(j) /\ journal = j
  BY <1>0, <1>1, AtWork DEF CallPCs, PublishPCs, FinalPCs
<1>3. /\ journalDisk = {j} /\ j.phase = "Staged" /\ ~at[p].auto
      /\ \A e \in dirsDisk[j.target] : IsStaged(e, j)
  BY <1>0, <1>2 DEF Known, Calls, PublishPCs
<1>4. /\ j.source \in Cwds /\ j.target \in Cwds /\ j.nonce \in Nonces /\ j # None
  BY MoveFields
<1>5. Undecided
  BY <1>2, <1>3, <1>4 DEF Undecided, SameMove
<1> DEFINE d == dirs[j.target]
           w == [session |-> d.staging[j.nonce],
                 staging |-> [d.staging EXCEPT ![j.nonce] = None]]
<1>6. d \in Parent /\ IsStaged(d, j)
  BY <1>3, <1>4 DEF Types, DirTypes
<1>7. /\ w \in Parent /\ w.session = d.staging[j.nonce]
      /\ w.staging[j.nonce] = None
      /\ \A m \in Nonces \ {j.nonce} : w.staging[m] = d.staging[m]
  BY <1>4, <1>6, Renamed
<1> HIDE DEF w
<1>8. \A m \in Nonces \ {j.nonce} : w.staging[m] = None
  BY <1>2, <1>7, OtherStaging
<1>9. JournalTypes' /\ PublishedOrGone'
  BY <1>0, <1>2, <1>3 DEF Types, JournalTypes, PublishedOrGone
<1>10. CASE Unsynced(j.target, w) /\ Goto(p, "syncPublished", j) /\ UNCHANGED faults
  <2>1. Changes(j.target, w)
    BY <1>4, <1>7, <1>10, UnsyncedChanges
  <2>2. DirTypes' /\ DiskInv'
    BY <1>0, <1>2, <1>4, <1>5, <1>8, <2>1, ChangesTypes, UndecidedDisk
  <2>3. IsTarget(w, j)
    <3>1. PICK m : m = [cwd |-> j.target, gen |-> j.gen, prev |-> j.source]
      OBVIOUS
    <3>2. /\ m # None /\ m.cwd = j.target /\ m.gen = j.gen /\ m.prev = j.source
      BY <1>4, <3>1, MoveFields, NoneIsNothing DEF Summary
    <3> QED  BY <1>6, <1>7, <3>1, <3>2 DEF IsStaged, IsTarget, Sound
  <2>4. Known("syncPublished", j)'
    BY <1>0, <1>2, <1>3, <2>1, <2>3
       DEF Known, Changes, CopyPCs, PublishPCs, CommitPCs, RollbackPCs, FinalPCs
  <2>5. faults' \in 0 .. MaxFaults /\ "syncPublished" \in CallPCs \cup {"recover"}
    BY <1>10 DEF Types, CallPCs, PublishPCs
  <2> QED  BY <1>0, <1>2, <1>3, <1>4, <1>9, <1>10, <2>2, <2>4, <2>5, GotoStep
<1>11. CASE Fault /\ Goto(p, "checkSource", j) /\ UNCHANGED <<dirs, dirsDisk>>
  <2>1. JournalTypes' /\ DirTypes' /\ DiskInv' /\ faults' \in 0 .. MaxFaults
    BY <1>0, <1>11, SameDisk, FaultType DEF disk
  <2>2. Known("checkSource", j)'
    BY <1>0, <1>2, <1>3
       DEF Known, CopyPCs, PublishPCs, CommitPCs, RollbackPCs, FinalPCs, has_target_authority
  <2>3. /\ "checkSource" \in CallPCs \cup {"recover"} /\ "checkSource" \in RollbackPCs
        /\ "checkSource" \notin CopyPCs \cup PublishPCs
    BY DEF CallPCs, RollbackPCs, CopyPCs, PublishPCs
  <2> QED  BY <1>0, <1>2, <1>4, <1>11, <2>1, <2>2, <2>3, GotoStep
<1>12. \/ Unsynced(j.target, w) /\ Goto(p, "syncPublished", j) /\ UNCHANGED faults
       \/ Fault /\ Goto(p, "checkSource", j) /\ UNCHANGED <<dirs, dirsDisk>>
  BY <1>1 DEF Publish, w
<1> QED  BY <1>10, <1>11, <1>12

\* The rename is synced: the target is certain.
LEMMA SyncPublishedStep ==
  ASSUME IInv, NEW p \in Procs, SyncPublished(p)
  PROVE  IInv'
<1> USE DEF IInv
<1>0. at[p].pc = "syncPublished" /\ UNCHANGED <<journal, journalDisk, txn, proof>>
  BY DEF SyncPublished
<1>1. PICK j \in Journal : j = at[p].journal
  BY <1>0, AtWork DEF CallPCs, PublishPCs
<1>2. /\ lease = p /\ Known("syncPublished", j) /\ JournalOk(j) /\ journal = j
  BY <1>0, <1>1, AtWork DEF CallPCs, PublishPCs, FinalPCs
<1>3. /\ journalDisk = {j} /\ j.phase = "Staged" /\ ~at[p].auto
      /\ IsTarget(dirs[j.target], j)
  BY <1>0, <1>2 DEF Known, Calls, PublishPCs
<1>4. j.target \in Cwds /\ j # None /\ dirs[j.target] \in Parent
  BY MoveFields DEF Types, DirTypes
<1>5. JournalTypes' /\ PublishedOrGone' /\ faults' \in 0 .. MaxFaults
  BY <1>0, <1>2, <1>3, FaultType DEF Types, JournalTypes, PublishedOrGone, SyncPublished
<1>6. CASE Synced(j.target, dirs[j.target]) /\ Goto(p, "writePublished", j)
  <2>1. Changes(j.target, dirs[j.target]) /\ dirsDisk'[j.target] = {dirs[j.target]}
    BY <1>4, <1>6, SyncedChanges
  <2>2. DirTypes' /\ Shrinks
    BY <1>4, <2>1, ChangesTypes, NothingRemoved
  <2>3. DiskInv'
    BY <1>0, <2>2, ShrinksDisk
  <2>4. TargetCertain(j)'
    BY <1>3, <2>1 DEF TargetCertain
  <2>5. Known("writePublished", j)'
    BY <1>0, <1>2, <1>3, <2>4
       DEF Known, CopyPCs, PublishPCs, CommitPCs, RollbackPCs, FinalPCs
  <2>6. "writePublished" \in CallPCs \cup {"recover"}
    BY DEF CallPCs, PublishPCs
  <2> QED  BY <1>0, <1>2, <1>3, <1>4, <1>5, <1>6, <2>2, <2>3, <2>5, <2>6, GotoStep
<1>7. CASE Return(p) /\ UNCHANGED <<dirs, dirsDisk>>
  <2>1. JournalTypes' /\ DirTypes' /\ DiskInv'
    BY <1>0, <1>7, SameDisk DEF disk
  <2> QED  BY <1>0, <1>2, <1>5, <1>7, <2>1, ReturnStep DEF Types, ProofOk
<1> QED  BY <1>1, <1>6, <1>7 DEF SyncPublished

\* The TargetPublished journal is written, and the transaction handed out.
LEMMA WritePublishedStep ==
  ASSUME IInv, NEW p \in Procs, WritePublished(p)
  PROVE  IInv'
<1> USE DEF IInv
<1>0. at[p].pc = "writePublished" /\ UNCHANGED proof
  BY DEF WritePublished
<1>1. PICK j \in Journal : j = at[p].journal
  BY <1>0, AtWork DEF CallPCs, PublishPCs
<1>2. /\ lease = p /\ Known("writePublished", j) /\ JournalOk(j) /\ journal = j
  BY <1>0, <1>1, AtWork DEF CallPCs, PublishPCs, FinalPCs
<1>3. journalDisk = {j} /\ j.phase = "Staged" /\ ~at[p].auto /\ TargetCertain(j)
  BY <1>0, <1>2 DEF Known, Calls, PublishPCs
<1>4. PICK k : k = [j EXCEPT !.phase = "TargetPublished"]
  OBVIOUS
<1>5. /\ k \in Journal /\ k # None /\ k.phase = "TargetPublished" /\ SameMove(j, k) /\ j # None
      /\ k.source = j.source /\ k.target = j.target
      /\ SourceCertain(k) <=> SourceCertain(j)
      /\ TargetCertain(k) <=> TargetCertain(j)
      /\ Confined(k) <=> Confined(j)
  BY <1>4, Rephased, NoneIsNothing DEF Phases, SameMove
<1>6. JournalOk(k)
  BY <1>2, <1>3, <1>5 DEF JournalOk, has_target_authority, Terminal
<1> DEFINE t == [gen |-> j.gen, nonce |-> j.nonce]
           handed == [txn EXCEPT ![p] = t]
<1>7. WriteJournal(k, Return(p) /\ txn' = handed, Return(p) /\ UNCHANGED txn,
                   Return(p) /\ UNCHANGED txn)
  BY <1>1, <1>4 DEF WritePublished
<1>8. t \in Txn
  BY DEF Txn, Journal
<1> HIDE DEF t
<1>9. handed \in [Procs -> Txn \cup {None}] /\ \A q \in Procs \ {p} : handed[q] = txn[q]
  BY <1>8 DEF Types
<1> HIDE DEF handed
<1>10. /\ JournalTypes' /\ DirTypes' /\ faults' \in 0 .. MaxFaults /\ DiskInv'
       /\ UNCHANGED <<dirs, dirsDisk>>
       /\ Return(p) /\ (txn' = handed \/ UNCHANGED txn)
       /\ journal' = k \/ UNCHANGED journal
  BY <1>3, <1>5, <1>6, <1>7, Writes
<1>11. TargetCertain(k)'
  BY <1>3, <1>5, <1>10 DEF TargetCertain
<1>12. PublishedOrGone'
  <2>1. CASE journal' = k
    BY <1>11, <2>1 DEF PublishedOrGone, TargetCertain
  <2>2. CASE UNCHANGED journal
    BY <1>2, <1>3, <2>2 DEF PublishedOrGone
  <2> QED  BY <1>10, <2>1, <2>2
<1>13. txn' \in [Procs -> Txn \cup {None}] /\ \A q \in Procs \ {p} : txn'[q] = txn[q]
  BY <1>9, <1>10 DEF Types
<1> QED  BY <1>0, <1>2, <1>3, <1>10, <1>12, <1>13, ReturnWith DEF Types, ProofOk

-----------------------------------------------------------------------------
(* mark_ready_and_commit.                                                  *)

\* PublishedOrGone is about the journal and the surviving directories.
LEMMA SamePublished ==
  ASSUME UNCHANGED <<journal, dirsDisk>>
  PROVE  PublishedOrGone' <=> PublishedOrGone
  BY DEF PublishedOrGone, TargetCertain, NoSession

\* A target that validates is certain, and Ready gives it the authority.
LEMMA MarkReadyStep ==
  ASSUME IInv, NEW p \in Procs, mark_ready_and_commit(p)
  PROVE  IInv'
<1> USE DEF IInv
<1>0. /\ lease = p /\ at[p].pc = "idle" /\ ~at[p].auto /\ txn[p] # None /\ journal # None
      /\ UNCHANGED <<txn, proof>>
  BY DEF mark_ready_and_commit, Loads, Holds, Calls
<1>1. PublishedOrGone
  BY <1>0 DEF TxnOk, RollbackPCs
<1>2. PICK j \in Journal : j = journal
  BY <1>0 DEF Types, JournalTypes
<1>3. JournalOk(j) /\ j # None /\ j.target \in Cwds
  BY <1>0, <1>2, MoveFields DEF DiskInv, Types, JournalTypes
<1>4. /\ "syncReady" \in CallPCs \cup {"recover"} /\ "syncReady" \in CommitPCs
      /\ "syncReady" \notin CopyPCs \cup PublishPCs \cup RollbackPCs
  BY DEF CallPCs, CommitPCs, CopyPCs, PublishPCs, RollbackPCs
<1>5. CASE /\ j.phase = "TargetPublished" /\ ValidTarget(j, dirs)
           /\ LET ready == [j EXCEPT !.phase = "Ready"]
              IN  WriteJournal(ready, Goto(p, "syncReady", ready), Return(p), Return(p))
  <2>1. TargetCertain(j)
    <3>1. ~NoSession(j.target)
      BY <1>3, <1>5 DEF NoSession, ValidTarget, Types, DirTypes
    <3> QED  BY <1>1, <1>2, <1>3, <1>5, <3>1 DEF PublishedOrGone
  <2>2. PICK k : k = [j EXCEPT !.phase = "Ready"]
    OBVIOUS
  <2>3. /\ k \in Journal /\ k # None /\ k.phase = "Ready" /\ SameMove(j, k)
        /\ k.source = j.source /\ k.target = j.target
        /\ TargetCertain(k) <=> TargetCertain(j)
        /\ Confined(k) <=> Confined(j)
    BY <2>2, Rephased DEF Phases, SameMove
  <2>4. JournalOk(k)
    BY <1>3, <1>5, <2>1, <2>3 DEF JournalOk, has_target_authority, Terminal
  <2>5. Clean \/ \A i \in journalDisk :
                   /\ i # None /\ SameMove(i, k)
                   /\ i.phase = "Ready" => k.phase = "Ready"
    BY <1>2, <2>3 DEF DiskInv, Agree, SameMove
  <2>6. WriteJournal(k, Goto(p, "syncReady", k), Return(p), Return(p))
    BY <1>5, <2>2
  <2>7. /\ JournalTypes' /\ DirTypes' /\ faults' \in 0 .. MaxFaults /\ DiskInv'
        /\ UNCHANGED <<dirs, dirsDisk>>
        /\ \/ Goto(p, "syncReady", k) /\ journal' = k
           \/ Return(p) /\ UNCHANGED journal
           \/ Return(p) /\ journal' = k
    BY <2>3, <2>4, <2>5, <2>6, Writes
  <2>8. PublishedOrGone'
    <3>1. CASE journal' = k
      BY <2>3, <3>1 DEF PublishedOrGone
    <3>2. CASE UNCHANGED journal
      BY <1>1, <2>7, <3>2, SamePublished
    <3> QED  BY <2>7, <3>1, <3>2
  <2>9. CASE Goto(p, "syncReady", k) /\ journal' = k
    <3>1. Known("syncReady", k)'
      BY <2>3, <2>9
         DEF Known, CopyPCs, PublishPCs, CommitPCs, RollbackPCs, FinalPCs, has_target_authority
    <3> QED  BY <1>0, <1>4, <2>3, <2>7, <2>8, <2>9, <3>1, GotoStep
  <2>10. CASE Return(p)
    BY <1>0, <2>7, <2>8, <2>10, ReturnStep DEF Types, ProofOk
  <2> QED  BY <2>7, <2>9, <2>10
<1>6. CASE /\ has_target_authority(j.phase) /\ Goto(p, "syncReady", j)
           /\ UNCHANGED <<disk, faults>>
  <2>1. JournalTypes' /\ DirTypes' /\ DiskInv' /\ faults' \in 0 .. MaxFaults
    BY <1>6, SameDisk DEF Types
  <2>2. PublishedOrGone'
    BY <1>1, <1>6, SamePublished DEF disk
  <2>3. Known("syncReady", j)'
    BY <1>2, <1>6
       DEF disk, Known, CopyPCs, PublishPCs, CommitPCs, RollbackPCs, FinalPCs
  <2> QED  BY <1>0, <1>3, <1>4, <1>6, <2>1, <2>2, <2>3, GotoStep
<1> QED  BY <1>2, <1>5, <1>6 DEF mark_ready_and_commit

\* The authority must be on disk before anything is removed.
LEMMA SyncReadyStep ==
  ASSUME IInv, NEW p \in Procs, SyncReady(p)
  PROVE  IInv'
<1> USE DEF IInv
<1>0. at[p].pc = "syncReady" /\ UNCHANGED <<txn, proof>>
  BY DEF SyncReady
<1>1. PICK j \in Journal : j = at[p].journal
  BY <1>0, AtWork DEF CallPCs, CommitPCs
<1>2. /\ lease = p /\ Known("syncReady", j) /\ journal = j /\ j # None
  BY <1>0, <1>1, AtWork DEF CallPCs, CommitPCs, FinalPCs
<1>3. has_target_authority(j.phase)
  BY <1>2 DEF Known, CommitPCs
<1>4. SyncJournal(IF ValidTarget(j, dirs) THEN Goto(p, "removeSource", j) ELSE Return(p),
                  Return(p))
  BY <1>1 DEF SyncReady
<1>5. /\ JournalTypes' /\ DirTypes' /\ faults' \in 0 .. MaxFaults /\ DiskInv'
      /\ UNCHANGED <<journal, dirs, dirsDisk>>
      /\ \/ Goto(p, "removeSource", j) /\ journalDisk' = {journal}
         \/ Return(p)
  BY <1>4, Syncs
<1>6. PublishedOrGone'
  BY <1>2, <1>3, <1>5 DEF PublishedOrGone, has_target_authority
<1>7. CASE Goto(p, "removeSource", j) /\ journalDisk' = {journal}
  <2>1. Known("removeSource", j)'
    BY <1>2, <1>3, <1>5, <1>7
       DEF Known, CopyPCs, PublishPCs, CommitPCs, RollbackPCs, FinalPCs
  <2>2. /\ "removeSource" \in CallPCs \cup {"recover"}
        /\ "removeSource" \notin CopyPCs \cup PublishPCs
    BY DEF CallPCs, CommitPCs, CopyPCs, PublishPCs
  <2> QED  BY <1>0, <1>2, <1>5, <1>6, <1>7, <2>1, <2>2, GotoStep
<1>8. CASE Return(p)
  BY <1>0, <1>2, <1>5, <1>6, <1>8, ReturnStep DEF Types, ProofOk
<1> QED  BY <1>5, <1>7, <1>8

\* The source may go once the target has the authority for certain.
LEMMA SourceRemoved ==
  ASSUME Types, DiskInv, NEW j \in Journal, journal = j, journalDisk = {j},
         has_target_authority(j.phase), UNCHANGED <<journal, journalDisk>>,
         NEW e \in Dir, e = None \/ dirs[j.source].session # None,
         Changes(j.source, [dirs[j.source] EXCEPT !.session = e])
  PROVE  DirTypes' /\ DiskInv'
<1>1. /\ j.source \in Cwds /\ j.target \in Cwds /\ j # None /\ JournalOk(j)
      /\ dirs[j.source] \in Parent /\ dirs[j.source] \in dirsDisk[j.source]
  BY MoveFields DEF DiskInv, Types, DirTypes
<1>2. DirTypes'
  BY <1>1, ChangesTypes
<1>3. CASE Clean
  <2>1. dirs[j.source].session = None
    BY <1>1, <1>3, CleanTarget DEF JournalOk, NoSession
  <2>2. [dirs[j.source] EXCEPT !.session = e] = dirs[j.source]
    BY <1>1, <2>1, NoSessionToRemove
  <2>3. Shrinks
    BY <1>1, <2>2, NothingRemoved
  <2> QED  BY <1>2, <2>3, ShrinksDisk
<1>4. CASE ~Clean
  <2>1. j.phase = "Ready" /\ NoStaging(j.source)
    BY <1>1, <1>4 DEF JournalOk, has_target_authority, Terminal, Confined
  <2> DEFINE w == [dirs[j.source] EXCEPT !.session = e]
  <2>2. w.staging = dirs[j.source].staging
    BY <1>1, WithSession
  <2> HIDE DEF w
  <2>3. \A n \in Nonces : w.staging[n] = None
    BY <1>1, <2>1, <2>2 DEF NoStaging
  <2>4. Changes(j.source, w)
    BY DEF w
  <2>5. JournalOk(j)'
    BY <1>1, <2>1, <2>3, <2>4, SourceChanges
  <2>6. JournalOk(journal)' /\ journalDisk' = {journal'}
    BY <2>5 DEF JournalOk, TargetCertain, SourceCertain, Confined, Clean
  <2> QED  BY <1>2, <2>6, OneJournal
<1> QED  BY <1>3, <1>4

\* finish_commit removes the source.
LEMMA RemoveSourceStep ==
  ASSUME IInv, NEW p \in Procs, RemoveSource(p)
  PROVE  IInv'
<1> USE DEF IInv
<1>0. at[p].pc = "removeSource" /\ UNCHANGED proof
  BY DEF RemoveSource
<1>1. PICK j \in Journal : j = at[p].journal
  BY <1>0, AtWork DEF CallPCs, CommitPCs
<1>2. /\ lease = p /\ Known("removeSource", j) /\ journal = j
      /\ j.source \in Cwds /\ j # None /\ None \in Dir
  BY <1>0, <1>1, AtWork, MoveFields DEF CallPCs, CommitPCs, FinalPCs, Dir
<1>3. has_target_authority(j.phase) /\ journalDisk = {j}
  BY <1>2 DEF Known, CommitPCs
<1> DEFINE With(e) == [dirs[j.source] EXCEPT !.session = e]
<1>4. RemoveSession(p, j.source, "clearStaging", Return(p) /\ UNCHANGED txn)
  BY <1>1 DEF RemoveSource
<1>5. /\ UNCHANGED <<journal, journalDisk>>
      /\ \/ /\ \E e \in Dir : dirs[j.source].session # None /\ Changes(j.source, With(e))
            /\ UNCHANGED <<at, lease, txn, faults>>
         \/ /\ Changes(j.source, With(None))
            /\ dirsDisk'[j.source] = {With(None)}
            /\ Goto(p, "clearStaging", j) /\ UNCHANGED <<txn, faults>>
         \/ /\ Fault /\ Return(p) /\ UNCHANGED txn
            /\ \/ UNCHANGED <<dirs, dirsDisk>>
               \/ Changes(j.source, With(None))
  BY <1>1, <1>2, <1>4, SessionRemoval
<1>6. PublishedOrGone' /\ JournalTypes'
  BY <1>2, <1>3, <1>5 DEF PublishedOrGone, has_target_authority, Types, JournalTypes
<1>7. ASSUME NEW e \in Dir, e = None \/ dirs[j.source].session # None, Changes(j.source, With(e))
      PROVE  DirTypes' /\ DiskInv'
  BY <1>2, <1>3, <1>5, <1>7, SourceRemoved
<1>8. With(None).session = None
  BY <1>2, WithSession DEF Types, DirTypes
<1> HIDE DEF With
<1>9. CASE /\ \E e \in Dir : dirs[j.source].session # None /\ Changes(j.source, With(e))
           /\ UNCHANGED <<at, lease, txn, faults>>
  <2>1. DirTypes' /\ DiskInv' /\ faults' \in 0 .. MaxFaults
    BY <1>7, <1>9 DEF Types
  <2>2. Known("removeSource", j)'
    BY <1>2, <1>3, <1>5
       DEF Known, CopyPCs, PublishPCs, CommitPCs, RollbackPCs, FinalPCs
  <2> QED  BY <1>0, <1>1, <1>2, <1>6, <1>9, <2>1, <2>2, StayStep
<1>10. CASE /\ Changes(j.source, With(None))
            /\ dirsDisk'[j.source] = {With(None)}
            /\ Goto(p, "clearStaging", j) /\ UNCHANGED <<txn, faults>>
  <2>1. DirTypes' /\ DiskInv' /\ faults' \in 0 .. MaxFaults
    BY <1>2, <1>7, <1>10 DEF Types
  <2>2. NoSession(j.source)'
    BY <1>8, <1>10 DEF NoSession
  <2>3. Known("clearStaging", j)'
    BY <1>2, <1>3, <1>5, <2>2
       DEF Known, CopyPCs, PublishPCs, CommitPCs, RollbackPCs, FinalPCs
  <2>4. /\ "clearStaging" \in CallPCs \cup {"recover"}
        /\ "clearStaging" \notin CopyPCs \cup PublishPCs
    BY DEF CallPCs, CommitPCs, CopyPCs, PublishPCs
  <2> QED  BY <1>0, <1>2, <1>6, <1>10, <2>1, <2>3, <2>4, GotoStep
<1>11. CASE /\ Fault /\ Return(p) /\ UNCHANGED txn
            /\ \/ UNCHANGED <<dirs, dirsDisk>>
               \/ Changes(j.source, With(None))
  <2>1. DirTypes' /\ DiskInv'
    BY <1>2, <1>5, <1>7, <1>11, SameDisk DEF disk
  <2>2. faults' \in 0 .. MaxFaults
    BY <1>11, FaultType
  <2> QED  BY <1>0, <1>2, <1>6, <1>11, <2>1, <2>2, ReturnStep DEF Types, ProofOk
<1> QED  BY <1>5, <1>9, <1>10, <1>11

\* So may what is left in staging.
LEMMA StagingCleared ==
  ASSUME Types, DiskInv, NEW j \in Journal, journal = j, journalDisk = {j},
         has_target_authority(j.phase), UNCHANGED <<journal, journalDisk>>,
         NEW e \in Dir, e = None \/ dirs[j.target].staging[j.nonce] # None,
         NEW w \in Parent, w = [dirs[j.target] EXCEPT !.staging[j.nonce] = e],
         Changes(j.target, w)
  PROVE  /\ DirTypes' /\ DiskInv'
         /\ Clean \/ (JournalOk(j)' /\ j.phase = "Ready")
         /\ Clean => Clean'
<1>1. /\ j.target \in Cwds /\ j.nonce \in Nonces /\ j # None /\ JournalOk(j)
      /\ dirs[j.target] \in Parent /\ dirs[j.target] \in dirsDisk[j.target]
  BY MoveFields DEF DiskInv, Types, DirTypes
<1>2. DirTypes'
  BY <1>1, ChangesTypes
<1>3. CASE Clean
  <2>1. dirs[j.target].staging[j.nonce] = None
    BY <1>1, <1>3, CleanTarget DEF JournalOk, NoStaging
  <2>2. w = dirs[j.target]
    BY <1>1, <2>1, NoStagingToRemove
  <2>3. Shrinks
    BY <1>1, <2>2, NothingRemoved
  <2>4. Clean'
    BY <1>3, <2>3, ShrinksOk
  <2> QED  BY <1>2, <1>3, <2>3, <2>4, ShrinksDisk
<1>4. CASE ~Clean
  <2>1. j.phase = "Ready" /\ IsTarget(dirs[j.target], j)
    BY <1>1, <1>4 DEF JournalOk, has_target_authority, Terminal, TargetCertain
  <2>2. /\ w.session = dirs[j.target].session
        /\ \A n \in Nonces \ {j.nonce} : w.staging[n] = None
    BY <1>1, StagingWith
  <2>3. IsTarget(w, j)
    BY <2>1, <2>2 DEF IsTarget, Sound
  <2>4. JournalOk(j)'
    BY <1>1, <2>1, <2>2, <2>3, StagingChanges
  <2>5. JournalOk(journal)' /\ journalDisk' = {journal'}
    BY <2>4 DEF JournalOk, TargetCertain, SourceCertain, Confined, Clean
  <2> QED  BY <1>2, <1>4, <2>1, <2>4, <2>5, OneJournal
<1> QED  BY <1>3, <1>4

\* finish_commit removes what is left in staging; after it nothing is left to
\* clean up.
LEMMA ClearStagingStep ==
  ASSUME IInv, NEW p \in Procs, ClearStaging(p)
  PROVE  IInv'
<1> USE DEF IInv
<1>0. at[p].pc = "clearStaging" /\ UNCHANGED proof
  BY DEF ClearStaging
<1>1. PICK j \in Journal : j = at[p].journal
  BY <1>0, AtWork DEF CallPCs, CommitPCs
<1>2. /\ lease = p /\ Known("clearStaging", j) /\ journal = j /\ JournalOk(j)
      /\ j.source \in Cwds /\ j.target \in Cwds /\ j.nonce \in Nonces /\ j # None /\ None \in Dir
  BY <1>0, <1>1, AtWork, MoveFields DEF CallPCs, CommitPCs, FinalPCs, Dir
<1>3. has_target_authority(j.phase) /\ journalDisk = {j} /\ NoSession(j.source)
  BY <1>2 DEF Known, CommitPCs
<1> DEFINE With(e) == [dirs[j.target] EXCEPT !.staging[j.nonce] = e]
<1>4. RemoveStaging(p, j.target, j.nonce, "writeCommitted", Return(p) /\ UNCHANGED txn)
  BY <1>1 DEF ClearStaging
<1>5. /\ UNCHANGED <<journal, journalDisk>>
      /\ \/ /\ \E e \in Dir : dirs[j.target].staging[j.nonce] # None /\ Changes(j.target, With(e))
            /\ UNCHANGED <<at, lease, txn, faults>>
         \/ /\ Changes(j.target, With(None))
            /\ dirsDisk'[j.target] = {With(None)}
            /\ Goto(p, "writeCommitted", j) /\ UNCHANGED <<txn, faults>>
         \/ /\ Fault /\ Return(p) /\ UNCHANGED txn
            /\ \/ UNCHANGED <<dirs, dirsDisk>>
               \/ Changes(j.target, With(None))
  BY <1>1, <1>2, <1>4, StagingRemoval
<1>6. PublishedOrGone' /\ JournalTypes'
  BY <1>2, <1>3, <1>5 DEF PublishedOrGone, has_target_authority, Types, JournalTypes
<1>7. ASSUME NEW e \in Dir, e = None \/ dirs[j.target].staging[j.nonce] # None,
             Changes(j.target, With(e))
      PROVE  /\ DirTypes' /\ DiskInv' /\ NoSession(j.source)'
             /\ Clean \/ (JournalOk(j)' /\ j.phase = "Ready")
             /\ Clean => Clean'
             /\ With(e).staging[j.nonce] = e
             /\ \A n \in Nonces \ {j.nonce} : With(e).staging[n] = None
  <2>1. /\ With(e) \in Parent /\ With(e).staging[j.nonce] = e
        /\ \A n \in Nonces \ {j.nonce} : With(e).staging[n] = None
    BY <1>2, StagingWith
  <2>2. PICK w \in Parent : w = With(e)
    BY <2>1
  <2>3. w = [dirs[j.target] EXCEPT !.staging[j.nonce] = e] /\ Changes(j.target, w)
    BY <1>7, <2>2
  <2>4. /\ DirTypes' /\ DiskInv'
        /\ Clean \/ (JournalOk(j)' /\ j.phase = "Ready")
        /\ Clean => Clean'
    BY <1>2, <1>3, <1>5, <1>7, <2>3, StagingCleared
  <2>5. NoSession(j.source)'
    BY <1>2, <1>3, <2>3 DEF JournalOk, NoSession, Changes
  <2> QED  BY <2>1, <2>4, <2>5
<1> HIDE DEF With
<1>8. CASE /\ \E e \in Dir : dirs[j.target].staging[j.nonce] # None /\ Changes(j.target, With(e))
           /\ UNCHANGED <<at, lease, txn, faults>>
  <2>1. DirTypes' /\ DiskInv' /\ NoSession(j.source)' /\ faults' \in 0 .. MaxFaults
    BY <1>7, <1>8 DEF Types
  <2>2. Known("clearStaging", j)'
    BY <1>2, <1>3, <1>5, <2>1
       DEF Known, CopyPCs, PublishPCs, CommitPCs, RollbackPCs, FinalPCs
  <2> QED  BY <1>0, <1>1, <1>2, <1>6, <1>8, <2>1, <2>2, StayStep
<1>9. CASE /\ Changes(j.target, With(None))
           /\ dirsDisk'[j.target] = {With(None)}
           /\ Goto(p, "writeCommitted", j) /\ UNCHANGED <<txn, faults>>
  <2>1. /\ DirTypes' /\ DiskInv' /\ faults' \in 0 .. MaxFaults /\ NoSession(j.source)'
        /\ Clean \/ (JournalOk(j)' /\ j.phase = "Ready")
        /\ Clean => Clean'
        /\ \A n \in Nonces : With(None).staging[n] = None
    BY <1>2, <1>7, <1>9 DEF Types
  <2>2. NoStaging(j.target)'
    BY <1>9, <2>1 DEF NoStaging
  <2>3. Clean'
    <3>1. CASE JournalOk(j)' /\ j.phase = "Ready"
      <4>1. TargetCertain(j)' /\ Confined(j)'
        BY <1>2, <3>1 DEF JournalOk, has_target_authority, Terminal
      <4> QED  BY <2>1, <2>2, <4>1, CommittedClean
    <3> QED  BY <2>1, <3>1
  <2>4. Known("writeCommitted", j)'
    BY <1>2, <1>3, <1>5, <2>3
       DEF Known, CopyPCs, PublishPCs, CommitPCs, RollbackPCs, FinalPCs
  <2>5. /\ "writeCommitted" \in CallPCs \cup {"recover"}
        /\ "writeCommitted" \notin CopyPCs \cup PublishPCs
    BY DEF CallPCs, CommitPCs, CopyPCs, PublishPCs
  <2> QED  BY <1>0, <1>2, <1>6, <1>9, <2>1, <2>4, <2>5, GotoStep
<1>10. CASE /\ Fault /\ Return(p) /\ UNCHANGED txn
            /\ \/ UNCHANGED <<dirs, dirsDisk>>
               \/ Changes(j.target, With(None))
  <2>1. DirTypes' /\ DiskInv'
    BY <1>2, <1>5, <1>7, <1>10, SameDisk DEF disk
  <2>2. faults' \in 0 .. MaxFaults
    BY <1>10, FaultType
  <2> QED  BY <1>0, <1>2, <1>6, <1>10, <2>1, <2>2, ReturnStep DEF Types, ProofOk
<1> QED  BY <1>5, <1>8, <1>9, <1>10

\* A relocation that has ended in k is handed to its caller or finalized.
LEMMA FinishStep ==
  ASSUME IInv, NEW p \in Procs, lease = p, NEW k \in Journal, k.phase \in Terminal,
         Finish(p, k), UNCHANGED txn,
         JournalTypes', DirTypes', faults' \in 0 .. MaxFaults, DiskInv',
         PublishedOrGone'
  PROVE  IInv'
<1> USE DEF IInv
<1>0. k # None
  BY NoneIsNothing
<1>1. CASE at[p].auto
  <2>1. Known("finalize", k)'
    BY DEF Known, CallPCs, CopyPCs, PublishPCs, CommitPCs, RollbackPCs, FinalPCs
  <2>2. /\ "finalize" \in CallPCs \cup {"recover"}
        /\ "finalize" \notin CopyPCs \cup PublishPCs
    BY DEF CallPCs, FinalPCs, CopyPCs, PublishPCs
  <2>3. Goto(p, "finalize", k) /\ UNCHANGED proof
    BY <1>1 DEF Finish
  <2> QED  BY <1>0, <2>1, <2>2, <2>3, GotoStep
<1>2. CASE ~at[p].auto
  <2>1. Return(p) /\ proof' = [proof EXCEPT ![p] = k]
    BY <1>2 DEF Finish
  <2>2. /\ proof' \in [Procs -> Journal \cup {None}] /\ proof'[p] = k
        /\ \A q \in Procs \ {p} : proof'[q] = proof[q]
    BY <2>1 DEF Types
  <2>3. ProofOk(p)'
    BY <2>2 DEF ProofOk
  <2> QED  BY <2>1, <2>2, <2>3, ReturnStep
<1> QED  BY <1>1, <1>2

\* The terminal phase is written where nothing is left to clean up.
LEMMA TerminalStep ==
  ASSUME IInv, NEW p \in Procs, NEW pc, NEW phase \in Terminal,
         WriteTerminal(p, pc, phase), lease = p,
         NEW j \in Journal, at[p].journal = j, journal = j,
         NEW k, k = [j EXCEPT !.phase = phase], JournalOk(k),
         Clean, PublishedOrGone
  PROVE  IInv'
<1> USE DEF IInv
<1>0. k \in Journal /\ k # None /\ k.phase = phase /\ UNCHANGED txn
  BY Rephased DEF Phases, Terminal, WriteTerminal
<1>1. CASE j.phase = phase /\ Finish(p, j) /\ UNCHANGED <<disk, faults>>
  <2>1. JournalTypes' /\ DirTypes' /\ DiskInv' /\ faults' \in 0 .. MaxFaults
    BY <1>1, SameDisk DEF Types
  <2>2. PublishedOrGone'
    BY <1>1, SamePublished DEF disk
  <2> QED  BY <1>0, <1>1, <2>1, <2>2, FinishStep
<1>2. CASE WriteJournal(k, Finish(p, k), Return(p) /\ UNCHANGED proof,
                        Return(p) /\ UNCHANGED proof)
  <2>1. /\ JournalTypes' /\ DirTypes' /\ faults' \in 0 .. MaxFaults /\ DiskInv'
        /\ UNCHANGED <<dirs, dirsDisk>>
        /\ \/ Finish(p, k) /\ journal' = k
           \/ Return(p) /\ UNCHANGED proof /\ UNCHANGED journal
           \/ Return(p) /\ UNCHANGED proof /\ journal' = k
    BY <1>0, <1>2, Writes
  <2>2. PublishedOrGone'
    <3>1. CASE journal' = k
      BY <1>0, <3>1 DEF PublishedOrGone, Terminal
    <3>2. CASE UNCHANGED journal
      BY <2>1, <3>2, SamePublished
    <3> QED  BY <2>1, <3>1, <3>2
  <2>3. CASE Finish(p, k)
    BY <1>0, <2>1, <2>2, <2>3, FinishStep
  <2>4. CASE Return(p) /\ UNCHANGED proof
    BY <1>0, <2>1, <2>2, <2>4, ReturnStep DEF Types, ProofOk
  <2> QED  BY <2>1, <2>3, <2>4
<1> QED  BY <1>1, <1>2 DEF WriteTerminal

\* The commit ends.
LEMMA WriteCommittedStep ==
  ASSUME IInv, NEW p \in Procs, WriteCommitted(p)
  PROVE  IInv'
<1>0. at[p].pc = "writeCommitted" /\ "Committed" \in Terminal
  BY DEF WriteCommitted, WriteTerminal, Terminal
<1>1. PICK j \in Journal : j = at[p].journal
  BY <1>0, AtWork DEF CallPCs, CommitPCs
<1>2. /\ lease = p /\ Known("writeCommitted", j) /\ journal = j /\ JournalOk(j) /\ j # None
  BY <1>0, <1>1, AtWork DEF CallPCs, CommitPCs, FinalPCs
<1>3. has_target_authority(j.phase) /\ Clean
  BY <1>2 DEF Known, CommitPCs
<1>4. PICK k : k = [j EXCEPT !.phase = "Committed"]
  OBVIOUS
<1>5. /\ k.phase = "Committed" /\ k.source = j.source /\ k.target = j.target
      /\ TargetCertain(k) <=> TargetCertain(j)
  BY <1>4, Rephased DEF Phases
<1>6. JournalOk(k)
  BY <1>2, <1>3, <1>5 DEF JournalOk, has_target_authority, Terminal
<1>7. PublishedOrGone
  BY <1>2, <1>3 DEF PublishedOrGone, has_target_authority
<1> QED  BY <1>0, <1>1, <1>2, <1>3, <1>4, <1>6, <1>7, TerminalStep DEF WriteCommitted

-----------------------------------------------------------------------------
(* rollback.                                                               *)

\* rollback of a loaded transaction begins.
LEMMA RollbackStep ==
  ASSUME IInv, NEW p \in Procs, rollback(p)
  PROVE  IInv'
<1> USE DEF IInv
<1>0. /\ lease = p /\ at[p].pc = "idle" /\ journal # None
      /\ ~has_target_authority(journal.phase)
      /\ UNCHANGED <<disk, txn, proof, faults>>
  BY DEF rollback, Loads, Holds
<1>1. PICK j \in Journal : j = journal
  BY <1>0 DEF Types, JournalTypes
<1>2. Goto(p, "checkSource", j) /\ j # None
  BY <1>0, <1>1 DEF rollback
<1>3. JournalTypes' /\ DirTypes' /\ DiskInv' /\ faults' \in 0 .. MaxFaults
  BY <1>0, SameDisk DEF Types
<1>4. Known("checkSource", j)'
  BY <1>0, <1>1
     DEF disk, Known, CopyPCs, PublishPCs, CommitPCs, RollbackPCs, FinalPCs
<1>5. /\ "checkSource" \in CallPCs \cup {"recover"} /\ "checkSource" \in RollbackPCs
      /\ "checkSource" \notin CopyPCs \cup PublishPCs
  BY DEF CallPCs, RollbackPCs, CopyPCs, PublishPCs
<1> QED  BY <1>0, <1>2, <1>3, <1>4, <1>5, GotoStep

\* finish_rollback checks the source.
LEMMA CheckSourceStep ==
  ASSUME IInv, NEW p \in Procs, CheckSource(p)
  PROVE  IInv'
<1> USE DEF IInv
<1>0. at[p].pc = "checkSource" /\ UNCHANGED <<disk, proof, faults>>
  BY DEF CheckSource
<1>1. PICK j \in Journal : j = at[p].journal
  BY <1>0, AtWork DEF CallPCs, RollbackPCs
<1>2. /\ lease = p /\ Known("checkSource", j) /\ journal = j /\ j # None
  BY <1>0, <1>1, AtWork DEF CallPCs, RollbackPCs, FinalPCs
<1>3. ~has_target_authority(j.phase)
  BY <1>2 DEF Known, RollbackPCs
<1>4. JournalTypes' /\ DirTypes' /\ DiskInv' /\ faults' \in 0 .. MaxFaults
  BY <1>0, SameDisk DEF Types
<1>5. CASE Goto(p, "dropStaging", j) /\ UNCHANGED txn
  <2>1. Known("dropStaging", j)'
    BY <1>0, <1>2, <1>3
       DEF disk, Known, CopyPCs, PublishPCs, CommitPCs, RollbackPCs, FinalPCs
  <2>2. /\ "dropStaging" \in CallPCs \cup {"recover"} /\ "dropStaging" \in RollbackPCs
        /\ "dropStaging" \notin CopyPCs \cup PublishPCs
    BY DEF CallPCs, RollbackPCs, CopyPCs, PublishPCs
  <2> QED  BY <1>0, <1>2, <1>4, <1>5, <2>1, <2>2, GotoStep
<1>6. CASE Return(p) /\ Spent(p)
  BY <1>0, <1>2, <1>4, <1>6, ReturnStep DEF Types, ProofOk
<1> QED  BY <1>1, <1>5, <1>6 DEF CheckSource

\* A rollback removes staging: of the undecided relocation, if there is one.
LEMMA StagingDropped ==
  ASSUME Types, DiskInv, NEW j \in Journal, journal = j,
         ~has_target_authority(j.phase), UNCHANGED <<journal, journalDisk>>,
         NEW e \in Dir, e = None \/ dirs[j.target].staging[j.nonce] # None,
         NEW w \in Parent, w = [dirs[j.target] EXCEPT !.staging[j.nonce] = e],
         Changes(j.target, w)
  PROVE  DirTypes' /\ DiskInv'
<1>1. /\ j.target \in Cwds /\ j.nonce \in Nonces /\ j # None /\ JournalOk(j)
      /\ dirs[j.target] \in Parent /\ dirs[j.target] \in dirsDisk[j.target]
  BY MoveFields DEF DiskInv, Types, DirTypes, JournalTypes
<1>2. DirTypes'
  BY <1>1, ChangesTypes
<1>3. CASE Clean
  <2>1. dirs[j.target].staging[j.nonce] = None
    BY <1>1, <1>3, CleanSource DEF JournalOk, NoStaging
  <2>2. w = dirs[j.target]
    BY <1>1, <2>1, NoStagingToRemove
  <2>3. Shrinks
    BY <1>1, <2>2, NothingRemoved
  <2> QED  BY <1>2, <2>3, ShrinksDisk
<1>4. CASE ~Clean
  <2>1. Undecided
    BY <1>1, <1>4, RollbackFinds
  <2>2. \A n \in Nonces \ {j.nonce} : w.staging[n] = None
    BY <1>1, StagingWith
  <2> QED  BY <1>2, <2>1, <2>2, UndecidedDisk
<1> QED  BY <1>3, <1>4

\* finish_rollback removes staging.
LEMMA DropStagingStep ==
  ASSUME IInv, NEW p \in Procs, DropStaging(p)
  PROVE  IInv'
<1> USE DEF IInv
<1>0. at[p].pc = "dropStaging" /\ UNCHANGED proof
  BY DEF DropStaging
<1>1. PICK j \in Journal : j = at[p].journal
  BY <1>0, AtWork DEF CallPCs, RollbackPCs
<1>2. /\ lease = p /\ Known("dropStaging", j) /\ journal = j /\ JournalOk(j)
      /\ j.target \in Cwds /\ j.nonce \in Nonces /\ j # None /\ None \in Dir
  BY <1>0, <1>1, AtWork, MoveFields DEF CallPCs, RollbackPCs, FinalPCs, Dir
<1>3. ~has_target_authority(j.phase) /\ "dropStaging" \in RollbackPCs
  BY <1>2 DEF Known, RollbackPCs
<1> DEFINE With(e) == [dirs[j.target] EXCEPT !.staging[j.nonce] = e]
<1>4. RemoveStaging(p, j.target, j.nonce, "checkTarget", Return(p) /\ Spent(p))
  BY <1>1 DEF DropStaging
<1>5. /\ UNCHANGED <<journal, journalDisk>>
      /\ \/ /\ \E e \in Dir : dirs[j.target].staging[j.nonce] # None /\ Changes(j.target, With(e))
            /\ UNCHANGED <<at, lease, txn, faults>>
         \/ /\ Changes(j.target, With(None))
            /\ dirsDisk'[j.target] = {With(None)}
            /\ Goto(p, "checkTarget", j) /\ UNCHANGED <<txn, faults>>
         \/ /\ Fault /\ Return(p) /\ Spent(p)
            /\ \/ UNCHANGED <<dirs, dirsDisk>>
               \/ Changes(j.target, With(None))
  BY <1>1, <1>2, <1>4, StagingRemoval
<1>6. JournalTypes'
  BY <1>5 DEF Types, JournalTypes
<1>7. ASSUME NEW e \in Dir, e = None \/ dirs[j.target].staging[j.nonce] # None,
             Changes(j.target, With(e))
      PROVE  /\ DirTypes' /\ DiskInv'
             /\ With(e).staging[j.nonce] = e
             /\ \A n \in Nonces \ {j.nonce} : With(e).staging[n] = None
  <2>1. /\ With(e) \in Parent /\ With(e).staging[j.nonce] = e
        /\ \A n \in Nonces \ {j.nonce} : With(e).staging[n] = None
    BY <1>2, StagingWith
  <2>2. PICK w \in Parent : w = With(e)
    BY <2>1
  <2>3. w = [dirs[j.target] EXCEPT !.staging[j.nonce] = e] /\ Changes(j.target, w)
    BY <1>7, <2>2
  <2>4. DirTypes' /\ DiskInv'
    BY <1>2, <1>3, <1>5, <1>7, <2>3, StagingDropped
  <2> QED  BY <2>1, <2>4
<1> HIDE DEF With
<1>8. CASE /\ \E e \in Dir : dirs[j.target].staging[j.nonce] # None /\ Changes(j.target, With(e))
           /\ UNCHANGED <<at, lease, txn, faults>>
  <2>1. DirTypes' /\ DiskInv' /\ faults' \in 0 .. MaxFaults
    BY <1>7, <1>8 DEF Types
  <2>2. Known("dropStaging", j)'
    BY <1>2, <1>3, <1>5
       DEF Known, CopyPCs, PublishPCs, CommitPCs, RollbackPCs, FinalPCs
  <2> QED  BY <1>0, <1>1, <1>2, <1>3, <1>6, <1>8, <2>1, <2>2, StayStep
<1>9. CASE /\ Changes(j.target, With(None))
           /\ dirsDisk'[j.target] = {With(None)}
           /\ Goto(p, "checkTarget", j) /\ UNCHANGED <<txn, faults>>
  <2>1. /\ DirTypes' /\ DiskInv' /\ faults' \in 0 .. MaxFaults
        /\ \A n \in Nonces : With(None).staging[n] = None
    BY <1>2, <1>7, <1>9 DEF Types
  <2>2. NoStaging(j.target)'
    BY <1>9, <2>1 DEF NoStaging
  <2>3. Known("checkTarget", j)'
    BY <1>2, <1>3, <1>5, <2>2
       DEF Known, CopyPCs, PublishPCs, CommitPCs, RollbackPCs, FinalPCs
  <2>4. /\ "checkTarget" \in CallPCs \cup {"recover"} /\ "checkTarget" \in RollbackPCs
        /\ "checkTarget" \notin CopyPCs \cup PublishPCs
    BY DEF CallPCs, RollbackPCs, CopyPCs, PublishPCs
  <2> QED  BY <1>0, <1>2, <1>6, <1>9, <2>1, <2>3, <2>4, GotoStep
<1>10. CASE /\ Fault /\ Return(p) /\ Spent(p)
            /\ \/ UNCHANGED <<dirs, dirsDisk>>
               \/ Changes(j.target, With(None))
  <2>1. DirTypes' /\ DiskInv'
    BY <1>2, <1>5, <1>7, <1>10, SameDisk DEF disk
  <2>2. faults' \in 0 .. MaxFaults
    BY <1>10, FaultType
  <2> QED  BY <1>0, <1>2, <1>6, <1>10, <2>1, <2>2, ReturnStep DEF Types, ProofOk
<1> QED  BY <1>5, <1>8, <1>9, <1>10

\* finish_rollback checks whose the target is.
LEMMA CheckTargetStep ==
  ASSUME IInv, NEW p \in Procs, CheckTarget(p)
  PROVE  IInv'
<1> USE DEF IInv
<1>0. at[p].pc = "checkTarget" /\ UNCHANGED <<disk, proof, faults>>
  BY DEF CheckTarget
<1>1. PICK j \in Journal : j = at[p].journal
  BY <1>0, AtWork DEF CallPCs, RollbackPCs
<1>2. /\ lease = p /\ Known("checkTarget", j) /\ journal = j /\ j # None
  BY <1>0, <1>1, AtWork DEF CallPCs, RollbackPCs, FinalPCs
<1>3. ~has_target_authority(j.phase) /\ NoStaging(j.target)
  BY <1>2 DEF Known, RollbackPCs
<1>4. JournalTypes' /\ DirTypes' /\ DiskInv' /\ faults' \in 0 .. MaxFaults
  BY <1>0, SameDisk DEF Types
<1>5. CASE Goto(p, "dropTarget", j) /\ UNCHANGED txn
  <2>0. NoStaging(j.target)'
    BY <1>0, <1>3 DEF NoStaging, disk
  <2>1. Known("dropTarget", j)'
    BY <1>0, <1>2, <1>3, <2>0
       DEF disk, Known, CopyPCs, PublishPCs, CommitPCs, RollbackPCs, FinalPCs
  <2>2. /\ "dropTarget" \in CallPCs \cup {"recover"} /\ "dropTarget" \in RollbackPCs
        /\ "dropTarget" \notin CopyPCs \cup PublishPCs
    BY DEF CallPCs, RollbackPCs, CopyPCs, PublishPCs
  <2> QED  BY <1>0, <1>2, <1>4, <1>5, <2>1, <2>2, GotoStep
<1>6. CASE Return(p) /\ Spent(p)
  BY <1>0, <1>2, <1>4, <1>6, ReturnStep DEF Types, ProofOk
<1> QED  BY <1>1, <1>5, <1>6 DEF CheckTarget

\* ... and then the target.
LEMMA TargetDropped ==
  ASSUME Types, DiskInv, NEW j \in Journal, journal = j,
         ~has_target_authority(j.phase), UNCHANGED <<journal, journalDisk>>,
         NEW e \in Dir, e = None \/ dirs[j.target].session # None,
         NoStaging(j.target),
         NEW w \in Parent, w = [dirs[j.target] EXCEPT !.session = e],
         Changes(j.target, w)
  PROVE  /\ DirTypes' /\ DiskInv' /\ NoStaging(j.target)'
         /\ NoSession(j.target)' => Clean'
<1>1. /\ j.target \in Cwds /\ j # None /\ JournalOk(j)
      /\ dirs[j.target] \in Parent /\ dirs[j.target] \in dirsDisk[j.target]
  BY MoveFields DEF DiskInv, Types, DirTypes, JournalTypes
<1>2. DirTypes'
  BY <1>1, ChangesTypes
<1>3. w.staging = dirs[j.target].staging
  BY <1>1, WithSession
<1>4. \A n \in Nonces : w.staging[n] = None
  BY <1>1, <1>3 DEF NoStaging
<1>5. NoStaging(j.target)'
  BY <1>1, <1>4 DEF NoStaging, Changes
<1>6. CASE Clean
  <2>1. dirs[j.target].session = None
    BY <1>1, <1>6, CleanSource DEF JournalOk, NoSession
  <2>2. w = dirs[j.target]
    BY <1>1, <2>1, NoSessionToRemove
  <2>3. Shrinks
    BY <1>1, <2>2, NothingRemoved
  <2>4. Clean'
    BY <1>6, <2>3, ShrinksOk
  <2> QED  BY <1>2, <1>5, <2>3, <2>4, ShrinksDisk
<1>7. CASE ~Clean
  <2>1. Undecided
    BY <1>1, <1>7, RollbackFinds
  <2>2. DiskInv'
    BY <1>4, <2>1, UndecidedDisk
  <2>3. JournalOk(j)'
    <3>1. j \in journalDisk'
      BY DEF Types, JournalTypes
    <3> QED  BY <2>2, <3>1 DEF DiskInv
  <2>4. j.phase \notin Terminal
    BY <2>1 DEF Undecided, Types, JournalTypes, Terminal
  <2>5. SourceCertain(j)' /\ Confined(j)'
    BY <1>1, <2>3, <2>4 DEF JournalOk
  <2>6. NoSession(j.target)' => Clean'
    BY <1>2, <1>5, <2>5, RolledBackClean
  <2> QED  BY <1>2, <1>5, <2>2, <2>6
<1> QED  BY <1>6, <1>7

\* finish_rollback removes the target; after it nothing is left to clean up.
LEMMA DropTargetStep ==
  ASSUME IInv, NEW p \in Procs, DropTarget(p)
  PROVE  IInv'
<1> USE DEF IInv
<1>0. at[p].pc = "dropTarget" /\ UNCHANGED proof
  BY DEF DropTarget
<1>1. PICK j \in Journal : j = at[p].journal
  BY <1>0, AtWork DEF CallPCs, RollbackPCs
<1>2. /\ lease = p /\ Known("dropTarget", j) /\ journal = j /\ JournalOk(j)
      /\ j.target \in Cwds /\ j # None /\ None \in Dir
  BY <1>0, <1>1, AtWork, MoveFields DEF CallPCs, RollbackPCs, FinalPCs, Dir
<1>3. ~has_target_authority(j.phase) /\ NoStaging(j.target) /\ "dropTarget" \in RollbackPCs
  BY <1>2 DEF Known, RollbackPCs
<1> DEFINE With(e) == [dirs[j.target] EXCEPT !.session = e]
<1>4. RemoveSession(p, j.target, "writeRolledBack", Return(p) /\ Spent(p))
  BY <1>1 DEF DropTarget
<1>5. /\ UNCHANGED <<journal, journalDisk>>
      /\ \/ /\ \E e \in Dir : dirs[j.target].session # None /\ Changes(j.target, With(e))
            /\ UNCHANGED <<at, lease, txn, faults>>
         \/ /\ Changes(j.target, With(None))
            /\ dirsDisk'[j.target] = {With(None)}
            /\ Goto(p, "writeRolledBack", j) /\ UNCHANGED <<txn, faults>>
         \/ /\ Fault /\ Return(p) /\ Spent(p)
            /\ \/ UNCHANGED <<dirs, dirsDisk>>
               \/ Changes(j.target, With(None))
  BY <1>1, <1>2, <1>4, SessionRemoval
<1>6. JournalTypes'
  BY <1>5 DEF Types, JournalTypes
<1>7. ASSUME NEW e \in Dir, e = None \/ dirs[j.target].session # None,
             Changes(j.target, With(e))
      PROVE  /\ DirTypes' /\ DiskInv' /\ NoStaging(j.target)' /\ With(e).session = e
             /\ NoSession(j.target)' => Clean'
  <2>0. dirs[j.target] \in Parent
    BY <1>2 DEF Types, DirTypes
  <2>1. With(e) \in Parent /\ With(e).session = e
    BY <2>0, WithSession
  <2>2. PICK w \in Parent : w = With(e)
    BY <2>1
  <2>3. w = [dirs[j.target] EXCEPT !.session = e] /\ Changes(j.target, w)
    BY <1>7, <2>2
  <2>4. /\ DirTypes' /\ DiskInv' /\ NoStaging(j.target)'
        /\ NoSession(j.target)' => Clean'
    BY <1>2, <1>3, <1>5, <1>7, <2>3, TargetDropped
  <2> QED  BY <2>1, <2>4
<1> HIDE DEF With
<1>8. CASE /\ \E e \in Dir : dirs[j.target].session # None /\ Changes(j.target, With(e))
           /\ UNCHANGED <<at, lease, txn, faults>>
  <2>1. DirTypes' /\ DiskInv' /\ NoStaging(j.target)' /\ faults' \in 0 .. MaxFaults
    BY <1>7, <1>8 DEF Types
  <2>2. Known("dropTarget", j)'
    BY <1>2, <1>3, <1>5, <2>1
       DEF Known, CopyPCs, PublishPCs, CommitPCs, RollbackPCs, FinalPCs
  <2> QED  BY <1>0, <1>1, <1>2, <1>3, <1>6, <1>8, <2>1, <2>2, StayStep
<1>9. CASE /\ Changes(j.target, With(None))
           /\ dirsDisk'[j.target] = {With(None)}
           /\ Goto(p, "writeRolledBack", j) /\ UNCHANGED <<txn, faults>>
  <2>1. /\ DirTypes' /\ DiskInv' /\ faults' \in 0 .. MaxFaults
        /\ With(None).session = None /\ (NoSession(j.target)' => Clean')
    BY <1>2, <1>7, <1>9 DEF Types
  <2>2. Clean'
    BY <1>9, <2>1 DEF NoSession
  <2>3. Known("writeRolledBack", j)'
    BY <1>2, <1>3, <1>5, <2>2
       DEF Known, CopyPCs, PublishPCs, CommitPCs, RollbackPCs, FinalPCs
  <2>4. /\ "writeRolledBack" \in CallPCs \cup {"recover"} /\ "writeRolledBack" \in RollbackPCs
        /\ "writeRolledBack" \notin CopyPCs \cup PublishPCs
    BY DEF CallPCs, RollbackPCs, CopyPCs, PublishPCs
  <2> QED  BY <1>0, <1>2, <1>6, <1>9, <2>1, <2>3, <2>4, GotoStep
<1>10. CASE /\ Fault /\ Return(p) /\ Spent(p)
            /\ \/ UNCHANGED <<dirs, dirsDisk>>
               \/ Changes(j.target, With(None))
  <2>1. DirTypes' /\ DiskInv'
    BY <1>2, <1>5, <1>7, <1>10, SameDisk DEF disk
  <2>2. faults' \in 0 .. MaxFaults
    BY <1>10, FaultType
  <2> QED  BY <1>0, <1>2, <1>6, <1>10, <2>1, <2>2, ReturnStep DEF Types, ProofOk
<1> QED  BY <1>5, <1>8, <1>9, <1>10

\* The rollback ends.
LEMMA WriteRolledBackStep ==
  ASSUME IInv, NEW p \in Procs, WriteRolledBack(p)
  PROVE  IInv'
<1>0. at[p].pc = "writeRolledBack" /\ "RolledBack" \in Terminal
  BY DEF WriteRolledBack, WriteTerminal, Terminal
<1>1. PICK j \in Journal : j = at[p].journal
  BY <1>0, AtWork DEF CallPCs, RollbackPCs
<1>2. /\ lease = p /\ Known("writeRolledBack", j) /\ journal = j /\ JournalOk(j)
      /\ j # None /\ j.target \in Cwds
  BY <1>0, <1>1, AtWork, MoveFields DEF CallPCs, RollbackPCs, FinalPCs
<1>3. ~has_target_authority(j.phase) /\ Clean
  BY <1>2 DEF Known, RollbackPCs
<1>4. PICK k : k = [j EXCEPT !.phase = "RolledBack"]
  OBVIOUS
<1>5. /\ k.phase = "RolledBack" /\ k.source = j.source /\ k.target = j.target
      /\ SourceCertain(k) <=> SourceCertain(j)
  BY <1>4, Rephased DEF Phases
<1>6. JournalOk(k)
  BY <1>2, <1>3, <1>5 DEF JournalOk, has_target_authority, Terminal
<1>7. NoSession(j.target)
  BY <1>2, <1>3, CleanSource DEF JournalOk, IInv
<1>8. PublishedOrGone
  BY <1>2, <1>7 DEF PublishedOrGone
<1> QED  BY <1>0, <1>1, <1>2, <1>3, <1>4, <1>6, <1>8, TerminalStep DEF WriteRolledBack

-----------------------------------------------------------------------------
(* finalize_terminal and recovery.                                         *)

\* A journal goes only when it is terminal, so that there is nothing to
\* clean up whether or not its removal survives.
LEMMA RemoveJournalStep ==
  ASSUME IInv, NEW p \in Procs, lease = p, at[p].pc \notin RollbackPCs,
         NEW j \in Journal, j.phase \in Terminal, RemoveJournal(p, j)
  PROVE  IInv'
<1> USE DEF IInv
<1>0. /\ UNCHANGED <<dirs, dirsDisk, txn, proof>> /\ j # None
      /\ txn[p] # None => PublishedOrGone
  BY NoneIsNothing DEF RemoveJournal, TxnOk
<1>1. /\ "syncFinal" \in CallPCs \cup {"recover"}
      /\ "syncFinal" \notin CopyPCs \cup PublishPCs
      /\ Known("syncFinal", j)'
  BY DEF Known, CallPCs, CopyPCs, PublishPCs, CommitPCs, RollbackPCs, FinalPCs
<1>2. DirTypes' /\ faults' \in 0 .. MaxFaults
  BY <1>0, FaultType DEF RemoveJournal, Types, DirTypes
<1>3. CASE /\ journal = j /\ journal' = None /\ journalDisk' = journalDisk \cup {None}
           /\ Goto(p, "syncFinal", j)
  <2>1. Clean
    BY <1>0, <1>3 DEF DiskInv, Types, JournalTypes, JournalOk
  <2>2. Clean' /\ \A k \in journalDisk : JournalOk(k)'
    BY <1>0, <2>1, SameDirs DEF DiskInv
  <2>3. JournalOk(None)'
    BY <2>2 DEF JournalOk
  <2>4. DiskInv'
    BY <1>3, <2>2, <2>3 DEF DiskInv, Agree
  <2>5. JournalTypes' /\ PublishedOrGone'
    BY <1>3 DEF Types, JournalTypes, PublishedOrGone
  <2> QED  BY <1>0, <1>1, <1>2, <1>3, <2>4, <2>5, GotoStep
<1>4. CASE UNCHANGED <<journal, journalDisk>>
  <2>1. JournalTypes' /\ DiskInv' /\ (txn[p] # None => PublishedOrGone')
    BY <1>0, <1>4, SameDisk, SamePublished DEF disk
  <2>2. CASE Goto(p, "syncFinal", j)
    BY <1>0, <1>1, <1>2, <2>1, <2>2, GotoStep
  <2>3. CASE Return(p)
    BY <1>0, <1>2, <2>1, <2>3, ReturnStep DEF Types, ProofOk
  <2> QED  BY <1>0, <1>3, <1>4, <2>2, <2>3 DEF RemoveJournal
<1> QED  BY <1>3, <1>4 DEF RemoveJournal

\* finalize_terminal of a proof the caller was handed.
LEMMA FinalizeStep ==
  ASSUME IInv, NEW p \in Procs, finalize_terminal(p)
  PROVE  IInv'
<1>1. /\ lease = p /\ at[p].pc \notin RollbackPCs /\ proof[p] # None
      /\ RemoveJournal(p, proof[p])
  BY DEF finalize_terminal, Holds, RollbackPCs
<1>2. PICK j \in Journal : j = proof[p] /\ j.phase \in Terminal
  BY <1>1 DEF IInv, ProofOk, Types
<1> QED  BY <1>1, <1>2, RemoveJournalStep

\* recover_all finalizes what it has ended.
LEMMA FinalizeRecoveredStep ==
  ASSUME IInv, NEW p \in Procs, FinalizeRecovered(p)
  PROVE  IInv'
<1>1. at[p].pc = "finalize" /\ RemoveJournal(p, at[p].journal)
  BY DEF FinalizeRecovered
<1>2. PICK j \in Journal : j = at[p].journal
  BY <1>1, AtWork DEF CallPCs, FinalPCs
<1>3. lease = p /\ at[p].pc \notin RollbackPCs /\ j.phase \in Terminal
  BY <1>1, <1>2, AtWork DEF CallPCs, FinalPCs, RollbackPCs, Known
<1> QED  BY <1>1, <1>2, <1>3, RemoveJournalStep

\* The removal of the journal is synced.
LEMMA SyncFinalStep ==
  ASSUME IInv, NEW p \in Procs, SyncFinal(p)
  PROVE  IInv'
<1> USE DEF IInv
<1>0. at[p].pc = "syncFinal" /\ UNCHANGED <<txn, proof>> /\ lease = p
  BY AtWork DEF SyncFinal, CallPCs, FinalPCs
<1>1. txn[p] # None => PublishedOrGone
  BY <1>0 DEF TxnOk, RollbackPCs
<1>2. /\ JournalTypes' /\ DirTypes' /\ faults' \in 0 .. MaxFaults /\ DiskInv'
      /\ UNCHANGED <<journal, dirs, dirsDisk>> /\ Return(p)
  BY Syncs DEF SyncFinal
<1>3. txn[p] # None => PublishedOrGone'
  BY <1>1, <1>2, SamePublished
<1> QED  BY <1>0, <1>2, <1>3, ReturnStep DEF Types, ProofOk

\* recover is called under a lease.
LEMMA RecoverCallStep ==
  ASSUME IInv, NEW p \in Procs, recover(p)
  PROVE  IInv'
<1> USE DEF IInv
<1>0. /\ lease = p /\ at[p].pc = "idle" /\ Goto(p, "recover", None)
      /\ UNCHANGED <<disk, txn, proof, faults>>
  BY DEF recover, Holds
<1>1. /\ "recover" \in CallPCs \cup {"recover"}
      /\ "recover" \notin CallPCs /\ "recover" \notin CopyPCs \cup PublishPCs
      /\ Known("recover", None)'
  BY DEF Known, CallPCs, CopyPCs, PublishPCs, CommitPCs, RollbackPCs, FinalPCs
<1>2. JournalTypes' /\ DirTypes' /\ DiskInv' /\ faults' \in 0 .. MaxFaults
  BY <1>0, SameDisk DEF Types
<1>3. txn[p] # None => PublishedOrGone'
  BY <1>0, SamePublished DEF TxnOk, RollbackPCs, disk
<1> QED  BY <1>0, <1>1, <1>2, <1>3, GotoStep

\* Recovery goes the way the journal says.
LEMMA RecoverStep ==
  ASSUME IInv, NEW p \in Procs, Recover(p)
  PROVE  IInv'
<1> USE DEF IInv
<1>0. at[p].pc = "recover" /\ UNCHANGED <<txn, proof>> /\ lease = p
  BY DEF Recover, Calls
<1>1. txn[p] # None => PublishedOrGone
  BY <1>0 DEF TxnOk, RollbackPCs
<1>2. CASE Return(p) /\ UNCHANGED <<disk, faults>>
  <2>1. JournalTypes' /\ DirTypes' /\ DiskInv' /\ faults' \in 0 .. MaxFaults
    BY <1>2, SameDisk DEF Types
  <2>2. txn[p] # None => PublishedOrGone'
    BY <1>1, <1>2, SamePublished DEF disk
  <2> QED  BY <1>0, <1>2, <2>1, <2>2, ReturnStep DEF Types, ProofOk
<1>3. CASE /\ journal # None
           /\ SyncJournal(Goto(p, recovery_action(journal.phase), journal), Return(p))
  <2>1. PICK j \in Journal : j = journal /\ j # None
    BY <1>3 DEF Types, JournalTypes
  <2>2. /\ JournalTypes' /\ DirTypes' /\ faults' \in 0 .. MaxFaults /\ DiskInv'
        /\ UNCHANGED <<journal, dirs, dirsDisk>>
        /\ Goto(p, recovery_action(j.phase), j) \/ Return(p)
    BY <1>3, <2>1, Syncs
  <2>3. txn[p] # None => PublishedOrGone'
    BY <1>1, <2>2, SamePublished
  <2>4. CASE Goto(p, recovery_action(j.phase), j)
    <3>1. PICK pc : pc = recovery_action(j.phase)
      OBVIOUS
    <3>2. /\ pc \in CallPCs \cup {"recover"} /\ pc \notin CopyPCs \cup PublishPCs
          /\ Known(pc, j)'
      BY <2>1, <2>2, <3>1
         DEF recovery_action, Known, CallPCs, CopyPCs, PublishPCs, CommitPCs, RollbackPCs, FinalPCs
    <3> QED  BY <1>0, <2>1, <2>2, <2>3, <2>4, <3>1, <3>2, GotoStep
  <2>5. CASE Return(p)
    BY <1>0, <2>2, <2>3, <2>5, ReturnStep DEF Types, ProofOk
  <2> QED  BY <2>2, <2>4, <2>5
<1> QED  BY <1>2, <1>3 DEF Recover

-----------------------------------------------------------------------------
(* The lease, and crashes.                                                 *)

\* A step that changes hands and leaves the disk alone.
LEMMA QuietStep ==
  ASSUME IInv, UNCHANGED disk, Types', Calls',
         NEW p \in Procs, at'[p].pc \in {"idle", "acquire", "recover"},
         proof'[p] \in {proof[p], None}, txn'[p] \in {txn[p], None},
         \A q \in Procs \ {p} :
           at'[q] = at[q] /\ txn'[q] = txn[q] /\ proof'[q] = proof[q],
         \A q \in Procs : txn'[q] # None =>
           lease' = lease /\ at'[q] = at[q]
  PROVE  IInv'
<1> USE DEF IInv
<1>1. DiskInv'
  BY SameDisk
<1>2. PublishedOrGone' <=> PublishedOrGone
  BY SamePublished DEF disk
<1>3. ASSUME NEW q \in Procs
      PROVE  Known(at[q].pc, at[q].journal)' /\ TxnOk(q)' /\ ProofOk(q)'
  <2>1. CASE q = p
    <3>1. Known(at[q].pc, at[q].journal)'
      BY <2>1 DEF Known, CallPCs, CopyPCs, PublishPCs, CommitPCs, RollbackPCs, FinalPCs
    <3>2. TxnOk(q)'
      BY <1>2, <2>1 DEF TxnOk
    <3> QED  BY <2>1, <3>1, <3>2 DEF ProofOk
  <2>2. CASE q # p
    <3>0. at'[q] = at[q] /\ proof'[q] = proof[q] /\ txn'[q] = txn[q]
      BY <2>2
    <3>1. Known(at[q].pc, at[q].journal)'
      <4>1. PICK pc, j : pc = at[q].pc /\ j = at[q].journal
        OBVIOUS
      <4>2. Known(pc, j)
        BY <4>1
      <4>3. Known(pc, j)'
        BY <4>2 DEF Known, disk, NoSession, NoStaging, Clean, CleanAt, IsTarget, IsStaged,
                    Sound, TargetCertain
      <4> QED  BY <3>0, <4>1, <4>3 DEF Known
    <3>2. TxnOk(q)' /\ ProofOk(q)'
      BY <1>2, <3>0 DEF TxnOk, ProofOk
    <3> QED  BY <3>1, <3>2
  <2> QED  BY <2>1, <2>2
<1> QED  BY <1>1, <1>3

\* The lease is taken: nobody was at work.
LEMMA AcquireStep ==
  ASSUME IInv, NEW p \in Procs, Acquire(p)
  PROVE  IInv'
<1>1. /\ lease = None /\ at[p].pc = "idle" /\ lease' = p
      /\ UNCHANGED <<disk, at, txn, proof, faults>>
  BY DEF Acquire
<1>2. \A q \in Procs : at[q].pc \in {"idle", "acquire"} /\ txn[q] = None
  BY <1>1, RelocationConstants DEF IInv, Calls, TxnOk
<1>3. Types'
  BY <1>1 DEF IInv, Types, JournalTypes, DirTypes, disk
<1>4. Calls'
  BY <1>1, <1>2 DEF IInv, Calls
<1> QED  BY <1>1, <1>2, <1>3, <1>4, QuietStep

\* The lease is dropped, and the transaction with it.
LEMMA DropLeaseStep ==
  ASSUME IInv, NEW p \in Procs, DropLease(p)
  PROVE  IInv'
<1>1. /\ lease = p /\ at[p].pc = "idle" /\ lease' = None
      /\ txn' = [txn EXCEPT ![p] = None]
      /\ UNCHANGED <<disk, at, proof, faults>>
  BY DEF DropLease, Holds, Spent, IInv
<1>2. \A q \in Procs : at[q].pc \in {"idle", "acquire"}
  BY <1>1 DEF IInv, Calls
<1>3. /\ txn' \in [Procs -> Txn \cup {None}]
      /\ \A q \in Procs : txn'[q] = None
      /\ \A q \in Procs \ {p} : txn'[q] = txn[q]
  BY <1>1 DEF IInv, Types, TxnOk
<1>4. Types'
  BY <1>1, <1>3 DEF IInv, Types, JournalTypes, DirTypes, disk
<1>5. Calls'
  BY <1>1, <1>2, RelocationConstants DEF IInv, Calls
<1> QED  BY <1>1, <1>2, <1>3, <1>4, <1>5, QuietStep

\* recover_all lists the journals without the lease.
LEMMA JournalIdsStep ==
  ASSUME IInv, NEW p \in Procs, JournalIds(p)
  PROVE  IInv'
<1>1. /\ at[p].pc = "idle" /\ lease # p /\ UNCHANGED lease
      /\ at' = [at EXCEPT ![p] = [@ EXCEPT !.pc = "acquire", !.journal = None]]
      /\ UNCHANGED <<disk, txn, proof, faults>>
  BY DEF JournalIds, Goto
<1> DEFINE s == [at[p] EXCEPT !.pc = "acquire", !.journal = None]
<1>2. s \in Call /\ s.pc = "acquire" /\ s.auto = at[p].auto
  BY DEF IInv, Types, Call, PCs
<1>3. at' = [at EXCEPT ![p] = s]
  BY <1>1
<1> HIDE DEF s
<1>4. /\ at' \in [Procs -> Call] /\ at'[p] = s
      /\ \A q \in Procs \ {p} : at'[q] = at[q]
  BY <1>2, <1>3 DEF IInv, Types
<1>5. Types'
  BY <1>1, <1>4 DEF IInv, Types, JournalTypes, DirTypes, disk
<1>6. Calls'
  BY <1>1, <1>2, <1>4
     DEF IInv, Calls, CallPCs, CopyPCs, PublishPCs, CommitPCs, RollbackPCs, FinalPCs
<1>7. txn[p] = None
  BY <1>1 DEF IInv, TxnOk
<1>8. \A q \in Procs : txn'[q] # None => lease' = lease /\ at'[q] = at[q]
  BY <1>1, <1>4, <1>7
<1> QED  BY <1>1, <1>2, <1>4, <1>5, <1>6, <1>8, QuietStep

\* recover_all takes the lease or passes over the session.
LEMMA AcquireOrSkipStep ==
  ASSUME IInv, NEW p \in Procs, AcquireOrSkip(p)
  PROVE  IInv'
<1>0. at[p].pc = "acquire" /\ lease # p /\ UNCHANGED <<disk, txn, proof, faults>>
  BY DEF AcquireOrSkip, IInv, Calls
<1>1. txn[p] = None
  BY <1>0 DEF IInv, TxnOk
<1>2. CASE /\ lease = None /\ lease' = p
           /\ at' = [at EXCEPT ![p] = [pc |-> "recover", journal |-> None, auto |-> TRUE]]
  <2> DEFINE s == [pc |-> "recover", journal |-> None, auto |-> TRUE]
  <2>1. s \in Call /\ s.pc = "recover"
    BY DEF Call, PCs
  <2>2. at' = [at EXCEPT ![p] = s]
    BY <1>2
  <2> HIDE DEF s
  <2>3. /\ at' \in [Procs -> Call] /\ at'[p] = s
        /\ \A q \in Procs \ {p} : at'[q] = at[q]
    BY <2>1, <2>2 DEF IInv, Types
  <2>4. \A q \in Procs : at[q].pc \in {"idle", "acquire"} /\ txn[q] = None
    BY <1>2, RelocationConstants DEF IInv, Calls, TxnOk
  <2>5. Types'
    BY <1>0, <1>2, <2>3 DEF IInv, Types, JournalTypes, DirTypes, disk
  <2>6. Calls'
    BY <1>2, <2>1, <2>3, <2>4
       DEF IInv, Calls, CallPCs, CopyPCs, PublishPCs, CommitPCs, RollbackPCs, FinalPCs
  <2> QED  BY <1>0, <2>1, <2>3, <2>4, <2>5, <2>6, QuietStep
<1>3. CASE at' = [at EXCEPT ![p] = Idle] /\ UNCHANGED lease
  <2>1. Idle \in Call /\ Idle.pc = "idle" /\ Idle.auto = FALSE
    BY DEF Idle, Call, PCs
  <2>2. /\ at' \in [Procs -> Call] /\ at'[p] = Idle
        /\ \A q \in Procs \ {p} : at'[q] = at[q]
    BY <1>3, <2>1 DEF IInv, Types
  <2>3. Types'
    BY <1>0, <1>3, <2>2 DEF IInv, Types, JournalTypes, DirTypes, disk
  <2>4. Calls'
    BY <1>0, <1>3, <2>1, <2>2
       DEF IInv, Calls, CallPCs, CopyPCs, PublishPCs, CommitPCs, RollbackPCs, FinalPCs
  <2>5. \A q \in Procs : txn'[q] # None => lease' = lease /\ at'[q] = at[q]
    BY <1>0, <1>1, <1>3, <2>2
  <2> QED  BY <1>0, <2>1, <2>2, <2>3, <2>4, <2>5, QuietStep
<1> QED  BY <1>2, <1>3 DEF AcquireOrSkip

\* A process dies and its lease goes.
LEMMA CrashStep ==
  ASSUME IInv, NEW p \in Procs, Crash(p)
  PROVE  IInv'
<1>0. /\ Fault /\ UNCHANGED disk
      /\ at' = [at EXCEPT ![p] = Idle]
      /\ lease' = IF lease = p THEN None ELSE lease
      /\ txn' = [txn EXCEPT ![p] = None]
      /\ proof' = [proof EXCEPT ![p] = None]
  BY DEF Crash
<1>1. Idle \in Call /\ Idle.pc = "idle" /\ Idle.auto = FALSE
  BY DEF Idle, Call, PCs
<1>2. /\ at' \in [Procs -> Call] /\ at'[p] = Idle
      /\ txn' \in [Procs -> Txn \cup {None}] /\ txn'[p] = None
      /\ proof' \in [Procs -> Journal \cup {None}] /\ proof'[p] = None
      /\ \A q \in Procs \ {p} :
           at'[q] = at[q] /\ txn'[q] = txn[q] /\ proof'[q] = proof[q]
  BY <1>0, <1>1 DEF IInv, Types
<1>3. faults' \in 0 .. MaxFaults
  BY <1>0, FaultType DEF IInv
<1>4. Types'
  BY <1>0, <1>2, <1>3 DEF IInv, Types, JournalTypes, DirTypes, disk
<1>5. Calls'
  BY <1>0, <1>1, <1>2, RelocationConstants
     DEF IInv, Calls, CallPCs, CopyPCs, PublishPCs, CommitPCs, RollbackPCs, FinalPCs
<1>6. \A q \in Procs : txn'[q] # None => lease' = lease /\ at'[q] = at[q]
  BY <1>0, <1>2 DEF IInv, TxnOk
<1> QED  BY <1>0, <1>1, <1>2, <1>4, <1>5, <1>6, QuietStep

\* A power loss picks one of the states the invariant allows.
LEMMA PowerLossStep ==
  ASSUME IInv, PowerLoss
  PROVE  IInv'
<1> USE DEF IInv
<1>1. PICK j \in journalDisk : journal' = j /\ journalDisk' = {j}
  BY DEF PowerLoss
<1>2. PICK ds \in [Cwds -> UNION {dirsDisk[c] : c \in Cwds}] :
        /\ \A c \in Cwds : ds[c] \in dirsDisk[c]
        /\ dirs' = ds
        /\ dirsDisk' = [c \in Cwds |-> {ds[c]}]
  BY DEF PowerLoss
<1>3. /\ Fault /\ lease' = None
      /\ at' = [p \in Procs |-> Idle]
      /\ txn' = [p \in Procs |-> None]
      /\ proof' = [p \in Procs |-> None]
  BY DEF PowerLoss
<1>4. j \in Journal \cup {None} /\ JournalOk(j)
  BY DEF Types, JournalTypes, DiskInv
<1>5. \A c \in Cwds : ds[c] \in Parent
  BY <1>2 DEF Types, DirTypes
<1>6. DirTypes' /\ Shrinks
  BY <1>2, <1>5 DEF DirTypes, Shrinks
<1>7. JournalOk(j)'
  BY <1>4, <1>6, ShrinksOk
<1>8. JournalOk(journal)' /\ journalDisk' = {journal'}
  BY <1>1, <1>7 DEF JournalOk, TargetCertain, SourceCertain, Confined, Clean
<1>9. DiskInv'
  BY <1>8, OneJournal
<1>10. Idle \in Call /\ Idle.pc = "idle" /\ Idle.auto = FALSE
  BY DEF Idle, Call, PCs
<1>11. Types'
  BY <1>1, <1>3, <1>4, <1>6, <1>10, FaultType DEF Types, JournalTypes
<1>12. Calls'
  BY <1>3, <1>10 DEF Calls, CallPCs, CopyPCs, PublishPCs, CommitPCs, RollbackPCs, FinalPCs
<1>13. ASSUME NEW q \in Procs
       PROVE  Known(at[q].pc, at[q].journal)' /\ TxnOk(q)' /\ ProofOk(q)'
  <2>1. at'[q].pc = "idle" /\ txn'[q] = None /\ proof'[q] = None
    BY <1>3, <1>10
  <2> QED  BY <2>1 DEF Known, TxnOk, ProofOk, CallPCs, CopyPCs, PublishPCs, CommitPCs,
                       RollbackPCs, FinalPCs
<1> QED  BY <1>9, <1>11, <1>12, <1>13

-----------------------------------------------------------------------------
(* The invariant holds.                                                    *)

\* The invariant holds of a session that was never relocated.
LEMMA InitIInv ==
  ASSUME Careful, Init
  PROVE  IInv
<1> USE DEF Init
<1>1. PICK h \in Cwds :
        dirs = [c \in Cwds |->
                  [session |-> IF c = h
                               THEN [sum |-> [cwd |-> h, gen |-> 0, prev |-> None],
                                     whole |-> TRUE]
                               ELSE None,
                   staging |-> [n \in Nonces |-> None]]]
  OBVIOUS
<1> DEFINE m == [cwd |-> h, gen |-> 0, prev |-> None]
           e == [sum |-> m, whole |-> TRUE]
           t == [n \in Nonces |-> None]
<1>2. m \in Summary /\ m # None /\ m.cwd = h /\ m.gen = 0
  BY RelocationConstants, NoneIsNothing DEF Summary
<1> HIDE DEF m
<1>3. e \in Dir /\ e # None /\ e.whole /\ e.sum = m
  <2>1. e \in [sum : Summary \cup {None}, whole : BOOLEAN]
    BY <1>2
  <2>2. e.whole = TRUE /\ e.sum = m
    OBVIOUS
  <2> HIDE DEF e
  <2> QED  BY <2>1, <2>2, NoneIsNothing DEF Dir
<1>4. t \in [Nonces -> Dir] /\ None \in Dir /\ \A n \in Nonces : t[n] = None
  BY DEF Dir
<1>5. \A c \in Cwds : dirs[c] = [session |-> IF c = h THEN e ELSE None, staging |-> t]
  BY <1>1 DEF m
<1> HIDE DEF e, t
<1>6. \A c \in Cwds :
        /\ dirs[c] \in Parent /\ dirs[c].staging = t
        /\ dirs[c].session = IF c = h THEN e ELSE None
  <2> TAKE c \in Cwds
  <2>1. PICK x \in Dir : x = IF c = h THEN e ELSE None
    BY <1>3, <1>4
  <2>2. dirs[c] = [session |-> x, staging |-> t]
    BY <1>5, <2>1
  <2>3. PICK d : d = [session |-> x, staging |-> t]
    OBVIOUS
  <2>4. d \in Parent /\ d.staging = t /\ d.session = x
    BY <1>4, <2>3 DEF Parent
  <2>5. dirs[c] = d
    BY <2>2, <2>3
  <2> QED  BY <2>1, <2>4, <2>5
<1>7. dirs \in [Cwds -> Parent] /\ \A c \in Cwds : dirsDisk[c] = {dirs[c]}
  BY <1>1, <1>6
<1>8. DirTypes
  BY <1>7 DEF DirTypes
<1>9. Idle \in Call /\ Idle.pc = "idle" /\ Idle.auto = FALSE
  BY DEF Idle, Call, PCs
<1>10. Types
  BY <1>8, <1>9, RelocationConstants DEF Types, JournalTypes
<1>11. Calls
  BY <1>9 DEF Calls, CallPCs, CopyPCs, PublishPCs, CommitPCs, RollbackPCs, FinalPCs
<1>12. CleanAt(h, 0) /\ 0 \in 0 .. MaxGen
  <2>1. ASSUME NEW c \in Cwds
        PROVE  NoStaging(c) /\ (c # h => NoSession(c))
    BY <1>4, <1>6, <1>7 DEF NoSession, NoStaging
  <2>2. \A x \in dirsDisk[h] : Sound(x, h) /\ x.session.sum.gen = 0
    BY <1>2, <1>3, <1>6, <1>7 DEF Sound
  <2>3. 0 \in 0 .. MaxGen
    BY RelocationConstants
  <2> QED  BY <2>1, <2>2, <2>3 DEF CleanAt
<1>13. DiskInv
  BY <1>12 DEF DiskInv, JournalOk, Agree, Clean
<1>14. ASSUME NEW q \in Procs
       PROVE  Known(at[q].pc, at[q].journal) /\ TxnOk(q) /\ ProofOk(q)
  <2>1. at[q].pc = "idle" /\ txn[q] = None /\ proof[q] = None
    BY <1>9
  <2> QED  BY <2>1 DEF Known, TxnOk, ProofOk, CallPCs, CopyPCs, PublishPCs, CommitPCs,
                       RollbackPCs, FinalPCs
<1> QED  BY <1>10, <1>11, <1>13, <1>14 DEF IInv

\* Every step preserves the invariant.
LEMMA NextIInv ==
  ASSUME IInv, [Next]_vars
  PROVE  IInv'
<1>1. CASE UNCHANGED vars
  <2>1. UNCHANGED disk
    BY <1>1 DEF vars, disk
  <2>2. DiskInv' /\ Types' /\ Calls'
    BY <1>1, <2>1, SameDisk DEF IInv, Types, Calls, vars
  <2>3. PublishedOrGone' <=> PublishedOrGone
    BY <2>1, SamePublished DEF disk
  <2>4. ASSUME NEW q \in Procs
        PROVE  Known(at[q].pc, at[q].journal)' /\ TxnOk(q)' /\ ProofOk(q)'
    <3>1. Known(at[q].pc, at[q].journal)'
      BY <1>1 DEF IInv, vars, Known, NoSession, NoStaging, Clean, CleanAt, IsTarget, IsStaged,
                  Sound, TargetCertain
    <3>2. TxnOk(q)' /\ ProofOk(q)'
      BY <1>1, <2>3 DEF IInv, vars, TxnOk, ProofOk
    <3> QED  BY <3>1, <3>2
  <2> QED  BY <2>2, <2>4 DEF IInv
<1>2. CASE PowerLoss
  BY <1>2, PowerLossStep
<1>3. ASSUME NEW p \in Procs, Step(p) \/ Crash(p)
      PROVE  IInv'
  <2>1. CASE \/ CopyDirectory(p) \/ RewriteSummary(p) \/ WriteStaged(p)
             \/ Publish(p) \/ SyncPublished(p) \/ WritePublished(p)
    BY <2>1, CopyStep, RewriteStep, WriteStagedStep, PublishStep, SyncPublishedStep,
       WritePublishedStep
  <2>2. CASE SyncReady(p) \/ RemoveSource(p) \/ ClearStaging(p) \/ WriteCommitted(p)
    BY <2>2, SyncReadyStep, RemoveSourceStep, ClearStagingStep, WriteCommittedStep
  <2>3. CASE \/ CheckSource(p) \/ DropStaging(p) \/ CheckTarget(p) \/ DropTarget(p)
             \/ WriteRolledBack(p)
    BY <2>3, CheckSourceStep, DropStagingStep, CheckTargetStep, DropTargetStep,
       WriteRolledBackStep
  <2>4. CASE FinalizeRecovered(p) \/ SyncFinal(p) \/ Recover(p)
    BY <2>4, FinalizeRecoveredStep, SyncFinalStep, RecoverStep
  <2>5. CASE Crash(p)
    BY <2>5, CrashStep
  <2> QED  BY <1>3, <2>1, <2>2, <2>3, <2>4, <2>5 DEF Step
<1>4. ASSUME NEW p \in Relocators, Relocate(p)
      PROVE  IInv'
  <2>1. p \in Procs
    BY DEF Procs
  <2> QED  BY <1>4, <2>1, AcquireStep, DropLeaseStep, StageStep, MarkReadyStep, RollbackStep,
              FinalizeStep, RecoverCallStep DEF Relocate
<1>5. ASSUME NEW p \in Listers, recover_all(p)
      PROVE  IInv'
  <2>1. p \in Procs
    BY DEF Procs
  <2> QED  BY <1>5, <2>1, JournalIdsStep, AcquireOrSkipStep DEF recover_all
<1> QED  BY <1>1, <1>2, <1>3, <1>4, <1>5 DEF Next

\* The inductive invariant holds whenever callers use a transaction only under
\* the lease it was staged with and not after a rollback of it failed (Careful).
THEOREM Invariance == Careful /\ Spec => []IInv
<1>1. Careful /\ Init => IInv
  BY InitIInv
<1>2. IInv /\ [Next]_vars => IInv'
  BY NextIInv
<1> QED  BY <1>1, <1>2, PTL DEF Spec

\* Type correctness, and mutual exclusion: whoever is inside a relocation holds
\* the lease (acquire, recover_all).
THEOREM RelocationTypes == Careful /\ Spec => []TypeOK
<1>1. IInv => TypeOK
  BY DEF IInv, TypeOK, Types, JournalTypes, DirTypes, Calls, Call, Working
<1> QED  BY <1>1, Invariance, PTL

-----------------------------------------------------------------------------
(* What a reader finds.                                                    *)

\* Where nothing is left to clean up, a reader without a journal finds the one
\* copy of the session.
LEMMA CleanSelects ==
  ASSUME NEW h \in Cwds, NEW g, CleanAt(h, g), NEW ds \in Survivors
  PROVE  /\ select(None, ds) = h /\ Sound(ds[h], h) /\ ds[h].session.sum.gen = g
         /\ \A c \in Cwds : ds[c].session # None => c = h
         /\ \A c \in Cwds, n \in Nonces : ds[c].staging[n] = None
<1>1. \A c \in Cwds : ds[c] \in dirsDisk[c]
  BY DEF Survivors
<1>2. /\ Sound(ds[h], h) /\ ds[h].session.sum.gen = g
      /\ \A c \in Cwds : ds[c].session # None => c = h
      /\ \A c \in Cwds, n \in Nonces : ds[c].staging[n] = None
  BY <1>1 DEF CleanAt, NoSession, NoStaging
<1>3. Candidates(ds) = {h}
  BY <1>2 DEF Candidates, Sound
<1>4. (CHOOSE c \in Cwds : Candidates(ds) = {c}) = h
  BY <1>3
<1>5. \E c \in Cwds : Candidates(ds) = {c}
  BY <1>3
<1> QED  BY <1>2, <1>4, <1>5 DEF select

\* A reader with a journal finds the copy that has the authority.
LEMMA JournalSelects ==
  ASSUME NEW j \in Journal, j # None, JournalOk(j), NEW ds \in Survivors
  PROVE  /\ select(j, ds) = authoritative_cwd(j)
         /\ has_target_authority(j.phase) => IsTarget(ds[j.target], j)
         /\ ~has_target_authority(j.phase) => IsSource(ds[j.source], j)
<1>0. j.source \in Cwds /\ j.target \in Cwds
  BY MoveFields
<1>1. ds[j.source] \in dirsDisk[j.source] /\ ds[j.target] \in dirsDisk[j.target]
  BY <1>0 DEF Survivors
<1>2. CASE has_target_authority(j.phase)
  <2>1. IsTarget(ds[j.target], j)
    BY <1>1, <1>2 DEF JournalOk, TargetCertain
  <2> QED  BY <1>2, <2>1 DEF select, ValidTarget, IsTarget, Sound
<1>3. CASE ~has_target_authority(j.phase)
  <2>1. IsSource(ds[j.source], j)
    BY <1>1, <1>3 DEF JournalOk, SourceCertain
  <2> QED  BY <1>3, <2>1 DEF select, ValidSource, IsSource, Sound
<1> QED  BY <1>2, <1>3

\* Whatever survives, the view finds a sound copy; the only one, if the journal
\* that survives is terminal or gone.
LEMMA Found ==
  ASSUME IInv, NEW j \in journalDisk, NEW ds \in Survivors
  PROVE  /\ select(j, ds) \in Cwds /\ Sound(ds[select(j, ds)], select(j, ds))
         /\ j = None \/ j.phase \in Terminal =>
              /\ \A c \in Cwds : ds[c].session # None => c = select(j, ds)
              /\ \A c \in Cwds, n \in Nonces : ds[c].staging[n] = None
<1>0. JournalOk(j) /\ j \in Journal \cup {None}
  BY DEF IInv, DiskInv, Types, JournalTypes
<1>1. CASE j = None
  <2>1. PICK h \in Cwds, g \in 0 .. MaxGen : CleanAt(h, g)
    BY <1>0, <1>1 DEF JournalOk, Clean
  <2> QED  BY <1>1, <2>1, CleanSelects
<1>2. CASE j # None
  <2>0. j \in Journal
    BY <1>0, <1>2
  <2>1. PICK c0 : c0 = select(j, ds)
    OBVIOUS
  <2>2. c0 \in Cwds /\ Sound(ds[c0], c0)
    BY <1>0, <1>2, <2>0, <2>1, JournalSelects, MoveFields
       DEF authoritative_cwd, IsTarget, IsSource
  <2>3. ASSUME j.phase \in Terminal
        PROVE  /\ \A c \in Cwds : ds[c].session # None => c = c0
               /\ \A c \in Cwds, n \in Nonces : ds[c].staging[n] = None
    <3>1. PICK h \in Cwds, g \in 0 .. MaxGen : CleanAt(h, g)
      BY <1>0, <1>2, <2>3 DEF JournalOk, Clean
    <3>2. /\ \A c \in Cwds : ds[c].session # None => c = h
          /\ \A c \in Cwds, n \in Nonces : ds[c].staging[n] = None
      BY <3>1, CleanSelects
    <3>3. c0 = h
      BY <2>2, <3>2 DEF Sound
    <3> QED  BY <3>2, <3>3
  <2> QED  BY <1>2, <2>1, <2>2, <2>3
<1> QED  BY <1>1, <1>2

\* Whatever a power loss leaves, at any moment, the session is found in a
\* directory that has all of its files (stage_and_publish, finish_commit,
\* finish_rollback, RelocationView).
THEOREM PowerLossSurvived == Careful /\ Spec => []SurvivesPowerLoss
<1>1. ASSUME IInv PROVE SurvivesPowerLoss
  <2>1. ASSUME NEW j \in journalDisk, NEW ds \in Survivors
        PROVE  LET c == select(j, ds)
               IN  c # None /\ ds[c].session.whole /\ ds[c].session.sum.cwd = c
    BY <1>1, Found, RelocationConstants DEF Sound
  <2> QED  BY <2>1 DEF SurvivesPowerLoss
<1> QED  BY <1>1, Invariance, PTL

\* A relocation that has ended, or whose journal is gone, leaves one copy of the
\* session and no staging directory (finish_commit, finish_rollback,
\* finalize_terminal).
THEOREM EndsClean == Careful /\ Spec => []EndedIsClean
<1>1. ASSUME IInv PROVE EndedIsClean
  BY <1>1, Found DEF EndedIsClean, Terminal
<1> QED  BY <1>1, Invariance, PTL

-----------------------------------------------------------------------------
(* The atomic move.                                                        *)

\* The home a journal speaks for.
JournalHome(j) ==
  IF has_target_authority(j.phase) THEN [cwd |-> j.target, gen |-> j.gen]
                                   ELSE [cwd |-> j.source, gen |-> j.gen - 1]

JournalHomes(D) == {JournalHome(j) : j \in D}

Oldest(H) == CHOOSE h \in H : \A g \in H : h.gen <= g.gen

TheHome == Oldest(HomesOnDisk)

\* What is found with journal j and the directories ds.
FoundHome(j, ds) ==
  [cwd |-> select(j, ds),
   gen |-> IF select(j, ds) = None THEN 0 ELSE ds[select(j, ds)].session.sum.gen]

\* What is visible may survive.
LEMMA DirsSurvive ==
  ASSUME Types
  PROVE  dirs \in Survivors
  BY DEF Types, DirTypes, Survivors

\* Where nothing is left to clean up there is one home.
LEMMA HomesWhenClean ==
  ASSUME IInv, NEW h \in Cwds, NEW g, CleanAt(h, g)
  PROVE  HomesOnDisk = {[cwd |-> h, gen |-> g]}
<1>1. ASSUME NEW j \in journalDisk, NEW ds \in Survivors
      PROVE  FoundHome(j, ds) = [cwd |-> h, gen |-> g]
  <2>1. PICK c : c = select(j, ds)
    OBVIOUS
  <2>2. c \in Cwds /\ Sound(ds[c], c)
    BY <2>1, Found
  <2>3. c = h /\ ds[h].session.sum.gen = g
    BY <2>2, CleanSelects DEF Sound
  <2> QED  BY <2>1, <2>2, <2>3, RelocationConstants DEF FoundHome
<1>2. HomesOnDisk = {FoundHome(j, ds) : j \in journalDisk, ds \in Survivors}
  BY DEF HomesOnDisk, FoundHome
<1>3. journal \in journalDisk /\ dirs \in Survivors
  BY DirsSurvive DEF IInv, Types, JournalTypes
<1> QED  BY <1>1, <1>2, <1>3

\* The home that is found is the one the journal speaks for.
LEMMA HomeOfJournal ==
  ASSUME IInv, NEW j \in journalDisk, j # None, NEW ds \in Survivors
  PROVE  FoundHome(j, ds) = JournalHome(j)
<1>0. JournalOk(j) /\ j \in Journal
  BY DEF IInv, DiskInv, Types, JournalTypes
<1>1. /\ j.source \in Cwds /\ j.target \in Cwds /\ j.gen \in 1 .. MaxGen
      /\ j.source # None /\ j.target # None
  BY <1>0, MoveFields, RelocationConstants
<1>2. CASE has_target_authority(j.phase)
  <2>1. select(j, ds) = j.target /\ ds[j.target].session.sum.gen = j.gen
    BY <1>0, <1>2, JournalSelects DEF authoritative_cwd, IsTarget
  <2> QED  BY <1>1, <1>2, <2>1 DEF FoundHome, JournalHome
<1>3. CASE ~has_target_authority(j.phase)
  <2>1. select(j, ds) = j.source /\ IsSource(ds[j.source], j)
    BY <1>0, <1>3, JournalSelects DEF authoritative_cwd
  <2>2. ds[j.source] \in Parent
    BY <1>1 DEF Survivors, IInv, Types, DirTypes
  <2>3. ds[j.source].session.sum \in Summary
    BY <2>1, <2>2 DEF IsSource, Sound, Parent, Dir
  <2>4. ds[j.source].session.sum.gen \in 0 .. MaxGen
    BY <2>3 DEF Summary
  <2>5. ds[j.source].session.sum.gen = j.gen - 1
    BY <1>1, <2>1, <2>4, RelocationConstants DEF IsSource
  <2> QED  BY <1>1, <1>3, <2>1, <2>5 DEF FoundHome, JournalHome
<1> QED  BY <1>2, <1>3

\* Where a journal is left on disk, the journals say where the home is.
LEMMA HomesByJournal ==
  ASSUME IInv, NEW k \in journalDisk, k # None
  PROVE  HomesOnDisk = {JournalHome(j) : j \in journalDisk \ {None}}
<1>0. HomesOnDisk = {FoundHome(j, ds) : j \in journalDisk, ds \in Survivors}
  BY DEF HomesOnDisk, FoundHome
<1>1. dirs \in Survivors
  BY DirsSurvive DEF IInv
<1>2. \A j \in journalDisk \ {None}, ds \in Survivors : FoundHome(j, ds) = JournalHome(j)
  BY HomeOfJournal
<1>3. CASE None \notin journalDisk
  BY <1>0, <1>1, <1>2, <1>3
<1>4. CASE None \in journalDisk
  <2>1. PICK h \in Cwds, g \in 0 .. MaxGen : CleanAt(h, g)
    BY <1>4 DEF IInv, DiskInv, JournalOk, Clean
  <2>2. HomesOnDisk = {[cwd |-> h, gen |-> g]}
    BY <2>1, HomesWhenClean
  <2>3. \A j \in journalDisk \ {None} : JournalHome(j) \in HomesOnDisk
    BY <1>0, <1>1, <1>2
  <2> QED  BY <2>2, <2>3
<1> QED  BY <1>3, <1>4

\* Both facts, as facts about any state.
HomesSettled ==
  IInv => \A h \in Cwds, g \in 0 .. MaxGen :
            CleanAt(h, g) => HomesOnDisk = {[cwd |-> h, gen |-> g]}

HomesJournalled ==
  IInv /\ journalDisk # {None} =>
    HomesOnDisk = {JournalHome(j) : j \in journalDisk \ {None}}

\* They hold in every state ...
LEMMA HomesNow == HomesSettled /\ HomesJournalled
<1>1. HomesSettled
  BY HomesWhenClean DEF HomesSettled
<1>2. HomesJournalled
  <2> SUFFICES ASSUME IInv, journalDisk # {None}
               PROVE  HomesOnDisk = {JournalHome(j) : j \in journalDisk \ {None}}
    BY DEF HomesJournalled
  <2>1. PICK k \in journalDisk : k # None
    BY DEF IInv, Types, JournalTypes
  <2> QED  BY <2>1, HomesByJournal
<1> QED  BY <1>1, <1>2

\* ... and so after every step.
LEMMA HomesNext == HomesSettled' /\ HomesJournalled'
  BY HomesNow, PTL

\* Nothing to clean up before, nor after: the session stays where it is.
LEMMA CleanStays ==
  ASSUME IInv, IInv', Clean, Shrinks
  PROVE  TheHome' = TheHome
<1>1. PICK h \in Cwds, g \in 0 .. MaxGen : CleanAt(h, g)
  BY DEF Clean
<1>2. CleanAt(h, g)'
  <2>1. \A c \in Cwds : (NoSession(c) => NoSession(c)') /\ (NoStaging(c) => NoStaging(c)')
    BY DEF NoSession, NoStaging, Shrinks
  <2> QED  BY <1>1, <2>1 DEF CleanAt, Shrinks
<1>3. HomesOnDisk = {[cwd |-> h, gen |-> g]}
  BY <1>1, HomesNow DEF HomesSettled
<1>4. HomesOnDisk' = {[cwd |-> h, gen |-> g]}
  BY <1>2, HomesNext DEF HomesSettled
<1> QED  BY <1>3, <1>4 DEF TheHome

\* The journals that may be found are the same.
LEMMA SameJournals ==
  ASSUME IInv, IInv', UNCHANGED journalDisk, journalDisk # {None}
  PROVE  TheHome' = TheHome
<1>1. HomesOnDisk = {JournalHome(j) : j \in journalDisk \ {None}}
  BY HomesNow DEF HomesJournalled
<1>2. HomesOnDisk' = {JournalHome(j) : j \in journalDisk' \ {None}}
  BY HomesNext DEF HomesJournalled
<1> QED  BY <1>1, <1>2 DEF TheHome

\* The atomic step of SessionHome.
Moves ==
  \/ TheHome' = TheHome
  \/ \E c \in Cwds \ {TheHome.cwd} : TheHome' = [cwd |-> c, gen |-> TheHome.gen + 1]

\* Of the journals of one move, those that decide it are outvoted by any that
\* does not.
LEMMA HomeOfMove ==
  ASSUME NEW m \in Journal, NEW D \in SUBSET Journal, D # {}, \A j \in D : SameMove(j, m)
  PROVE  Oldest(JournalHomes(D)) =
           IF \A j \in D : has_target_authority(j.phase)
           THEN [cwd |-> m.target, gen |-> m.gen]
           ELSE [cwd |-> m.source, gen |-> m.gen - 1]
<1> DEFINE old == [cwd |-> m.source, gen |-> m.gen - 1]
           new == [cwd |-> m.target, gen |-> m.gen]
           H == JournalHomes(D)
<1>0. m.gen \in 1 .. MaxGen /\ MaxGen \in Nat
  BY RelocationConstants DEF Journal
<1>1. \A j \in D : JournalHome(j) = IF has_target_authority(j.phase) THEN new ELSE old
  BY DEF JournalHome, SameMove
<1>2. /\ old.gen = m.gen - 1 /\ new.gen = m.gen
  OBVIOUS
<1> HIDE DEF old, new
<1>3. CASE \A j \in D : has_target_authority(j.phase)
  <2>1. H = {new}
    BY <1>1, <1>3 DEF JournalHomes
  <2>2. Oldest(H) = new
    BY <1>0, <1>2, <2>1 DEF Oldest
  <2> QED  BY <1>3, <2>2 DEF new
<1>4. CASE ~\A j \in D : has_target_authority(j.phase)
  <2>1. old \in H /\ H \subseteq {old, new}
    BY <1>1, <1>4 DEF JournalHomes
  <2>2. \A h \in H : (\A g \in H : h.gen <= g.gen) <=> h = old
    BY <1>0, <1>2, <2>1
  <2>3. Oldest(H) = old
    BY <2>1, <2>2 DEF Oldest
  <2> QED  BY <1>4, <2>3 DEF old
<1> QED  BY <1>3, <1>4

\* While there is something to clean up, only the sync or the write of a
\* deciding journal moves the session.
LEMMA JournalMoves ==
  ASSUME IInv, IInv', Shrinks,
         ~Clean =>
           \/ journalDisk' \subseteq journalDisk
           \/ \E k \in Journal : /\ SameMove(k, journal)
                                /\ journalDisk' \subseteq journalDisk \cup {k}
                                /\ ~has_target_authority(journal.phase)
  PROVE  Moves
<1>1. CASE Clean
  BY <1>1, CleanStays DEF Moves
<1>2. CASE ~Clean
  <2>1. /\ journal \in Journal /\ journal \in journalDisk /\ journal # None
        /\ \A j \in journalDisk : j \in Journal /\ j # None /\ SameMove(j, journal)
    BY <1>2, NoneIsNothing DEF IInv, DiskInv, Agree, Types, JournalTypes
  <2>2. journalDisk' # {} /\ \A j \in journalDisk' : j \in Journal /\ j # None /\ SameMove(j, journal)
    <3>1. journalDisk' # {}
      BY DEF IInv, Types, JournalTypes
    <3> QED  BY <1>2, <2>1, <3>1, NoneIsNothing
  <2>3. (\A j \in journalDisk : has_target_authority(j.phase)) =>
           \A j \in journalDisk' : has_target_authority(j.phase)
    BY <1>2, <2>1
  <2>4. PICK m \in Journal : m = journal
    BY <2>1
  <2>5. PICK D, E : D = journalDisk /\ E = journalDisk'
    OBVIOUS
  <2>6. /\ D \in SUBSET Journal /\ D # {} /\ \A j \in D : SameMove(j, m)
        /\ E \in SUBSET Journal /\ E # {} /\ \A j \in E : SameMove(j, m)
        /\ D \ {None} = D /\ E \ {None} = E
        /\ D # {None} /\ E # {None}
    BY <2>1, <2>2, <2>4, <2>5
  <2>7. HomesOnDisk = JournalHomes(D)
    BY <2>5, <2>6, HomesNow DEF HomesJournalled, JournalHomes
  <2>8. HomesOnDisk' = JournalHomes(E)
    BY <2>5, <2>6, HomesNext DEF HomesJournalled, JournalHomes
  <2> DEFINE old == [cwd |-> m.source, gen |-> m.gen - 1]
             new == [cwd |-> m.target, gen |-> m.gen]
  <2>9. TheHome = IF \A j \in D : has_target_authority(j.phase) THEN new ELSE old
    BY <2>6, <2>7, HomeOfMove DEF TheHome
  <2>10. TheHome' = IF \A j \in E : has_target_authority(j.phase) THEN new ELSE old
    BY <2>6, <2>8, HomeOfMove DEF TheHome
  <2>11. /\ m.source \in Cwds /\ m.target \in Cwds /\ m.gen \in 1 .. MaxGen /\ MaxGen \in Nat
         /\ m.source # m.target
    BY <2>1, <2>4, MoveFields, RelocationConstants DEF IInv, DiskInv, JournalOk
  <2>12. /\ old.cwd = m.source /\ new.cwd = m.target
         /\ new = [cwd |-> m.target, gen |-> old.gen + 1]
    BY <2>11
  <2> HIDE DEF old, new
  <2> QED  BY <2>3, <2>5, <2>9, <2>10, <2>11, <2>12 DEF Moves
<1> QED  BY <1>1, <1>2

\* A step that leaves the directories alone and adds no journal, or one that
\* adds a journal where there is nothing to clean up.
LEMMA QuietMoves ==
  ASSUME IInv, IInv', UNCHANGED dirsDisk, Clean \/ journalDisk' \subseteq journalDisk
  PROVE  Moves
<1>1. Shrinks
  BY DEF Shrinks
<1> QED  BY <1>1, JournalMoves

\* A step on the directories under a journal that stays.
LEMMA WorkMoves ==
  ASSUME IInv, IInv', NEW p \in Procs, at[p].pc \in CallPCs \ FinalPCs, UNCHANGED journalDisk
  PROVE  Moves
<1>1. journal # None /\ journal \in journalDisk
  BY AtWork DEF IInv, Types, JournalTypes
<1> QED  BY <1>1, SameJournals DEF Moves

\* The next phase of an undecided relocation is written.
LEMMA WriteMoves ==
  ASSUME IInv, IInv', NEW j \in Journal, journal = j, ~has_target_authority(j.phase),
         NEW phase \in Phases, NEW ACTION ok, NEW ACTION lost, NEW ACTION late,
         WriteJournal([j EXCEPT !.phase = phase], ok, lost, late)
  PROVE  Moves
<1>1. PICK k : k = [j EXCEPT !.phase = phase]
  OBVIOUS
<1>2. k \in Journal /\ SameMove(k, journal)
  BY <1>1, Rephased
<1>3. journal \in journalDisk
  BY DEF IInv, Types, JournalTypes
<1>4. Shrinks /\ journalDisk' \subseteq journalDisk \cup {k}
  BY <1>1 DEF WriteJournal, Shrinks
<1> QED  BY <1>2, <1>4, JournalMoves

\* A step inside a call moves the session once or not at all.
LEMMA StepMoves ==
  ASSUME IInv, IInv', NEW p \in Procs, Step(p)
  PROVE  Moves
<1>1. CASE CopyDirectory(p) \/ RewriteSummary(p) \/ Publish(p) \/ SyncPublished(p)
  <2>1. at[p].pc \in CallPCs \ FinalPCs /\ UNCHANGED journalDisk
    BY <1>1 DEF CopyDirectory, RewriteSummary, Publish, SyncPublished, CallPCs, CopyPCs,
                PublishPCs, FinalPCs
  <2> QED  BY <2>1, WorkMoves
<1>2. CASE RemoveSource(p) \/ DropTarget(p)
  <2>1. at[p].pc \in CallPCs \ FinalPCs /\ UNCHANGED journalDisk
    BY <1>2 DEF RemoveSource, DropTarget, RemoveSession, RemoveDir, CallPCs, CommitPCs,
                RollbackPCs, FinalPCs
  <2> QED  BY <2>1, WorkMoves
<1>3. CASE ClearStaging(p) \/ DropStaging(p)
  <2>1. at[p].pc \in CallPCs \ FinalPCs /\ UNCHANGED journalDisk
    BY <1>3 DEF ClearStaging, DropStaging, RemoveStaging, RemoveDir, CallPCs, CommitPCs,
                RollbackPCs, FinalPCs
  <2> QED  BY <2>1, WorkMoves
<1>4. CASE CheckSource(p) \/ CheckTarget(p)
  <2>1. UNCHANGED <<dirsDisk, journalDisk>>
    BY <1>4 DEF CheckSource, CheckTarget, disk
  <2> QED  BY <2>1, QuietMoves
<1>5. CASE SyncReady(p) \/ SyncFinal(p) \/ Recover(p)
  <2>1. UNCHANGED dirsDisk /\ journalDisk' \subseteq journalDisk
    BY <1>5 DEF SyncReady, SyncFinal, Recover, SyncJournal, disk, IInv, Types, JournalTypes
  <2> QED  BY <2>1, QuietMoves
<1>6. CASE WriteStaged(p)
  <2>1. PICK j \in Journal : j = at[p].journal
    BY <1>6, AtWork DEF WriteStaged, CallPCs, CopyPCs
  <2>2. journal = j /\ ~has_target_authority(j.phase)
    BY <1>6, <2>1, AtWork
       DEF WriteStaged, Known, CallPCs, CopyPCs, FinalPCs, has_target_authority
  <2>3. WriteJournal([j EXCEPT !.phase = "Staged"],
                     Goto(p, "publish", [j EXCEPT !.phase = "Staged"]),
                     Goto(p, "checkSource", j), Return(p))
    BY <1>6, <2>1 DEF WriteStaged
  <2> QED  BY <2>2, <2>3, WriteMoves DEF Phases
<1>7. CASE WritePublished(p)
  <2>1. PICK j \in Journal : j = at[p].journal
    BY <1>7, AtWork DEF WritePublished, CallPCs, PublishPCs
  <2>2. journal = j /\ ~has_target_authority(j.phase)
    BY <1>7, <2>1, AtWork
       DEF WritePublished, Known, CallPCs, PublishPCs, FinalPCs, has_target_authority
  <2>3. WriteJournal([j EXCEPT !.phase = "TargetPublished"],
                     Return(p) /\ txn' = [txn EXCEPT ![p] = [gen |-> j.gen, nonce |-> j.nonce]],
                     Return(p) /\ UNCHANGED txn, Return(p) /\ UNCHANGED txn)
    BY <1>7, <2>1 DEF WritePublished
  <2> QED  BY <2>2, <2>3, WriteMoves DEF Phases
<1>8. CASE WriteCommitted(p) \/ WriteRolledBack(p)
  <2>1. at[p].pc \in {"writeCommitted", "writeRolledBack"} /\ UNCHANGED dirsDisk
    BY <1>8 DEF WriteCommitted, WriteRolledBack, WriteTerminal, WriteJournal, disk
  <2>2. Clean
    BY <2>1 DEF IInv, Known
  <2> QED  BY <2>1, <2>2, QuietMoves
<1>9. CASE FinalizeRecovered(p)
  <2>1. at[p].pc = "finalize" /\ RemoveJournal(p, at[p].journal)
    BY <1>9 DEF FinalizeRecovered
  <2>2. at[p].journal \in Journal /\ at[p].journal.phase \in Terminal /\ at[p].journal # None
    BY <2>1, AtWork DEF Known, CallPCs, FinalPCs
  <2>3. journal = at[p].journal => Clean
    BY <2>2 DEF IInv, DiskInv, JournalOk, Types, JournalTypes
  <2>4. UNCHANGED dirsDisk /\ (journal # at[p].journal => UNCHANGED journalDisk)
    BY <2>1 DEF RemoveJournal
  <2> QED  BY <2>3, <2>4, QuietMoves
<1> QED  BY <1>1, <1>2, <1>3, <1>4, <1>5, <1>6, <1>7, <1>8, <1>9 DEF Step

\* So does the beginning of a call.
LEMMA RelocateMoves ==
  ASSUME IInv, IInv', NEW p \in Procs, Relocate(p)
  PROVE  Moves
<1>1. CASE Acquire(p) \/ DropLease(p) \/ rollback(p) \/ recover(p)
  <2>1. UNCHANGED <<dirsDisk, journalDisk>>
    BY <1>1 DEF Acquire, DropLease, rollback, recover, disk
  <2> QED  BY <2>1, QuietMoves
<1>2. CASE stage_and_publish(p)
  <2>1. Clean
    BY <1>2 DEF stage_and_publish, IInv, DiskInv, JournalOk, Types, JournalTypes
  <2>2. UNCHANGED dirsDisk
    BY <1>2 DEF stage_and_publish, WriteJournal
  <2> QED  BY <2>1, <2>2, QuietMoves
<1>3. CASE mark_ready_and_commit(p)
  <2>1. PICK j \in Journal : j = journal
    BY <1>3 DEF mark_ready_and_commit, Loads, IInv, Types, JournalTypes
  <2>2. CASE UNCHANGED disk
    BY <2>2, QuietMoves DEF disk
  <2>3. CASE /\ j.phase = "TargetPublished"
             /\ WriteJournal([j EXCEPT !.phase = "Ready"],
                             Goto(p, "syncReady", [j EXCEPT !.phase = "Ready"]),
                             Return(p), Return(p))
    BY <2>1, <2>3, WriteMoves DEF Phases, has_target_authority
  <2> QED  BY <1>3, <2>1, <2>2, <2>3 DEF mark_ready_and_commit
<1>4. CASE finalize_terminal(p)
  <2>1. proof[p] # None /\ RemoveJournal(p, proof[p])
    BY <1>4 DEF finalize_terminal
  <2>2. proof[p].phase \in Terminal
    BY <2>1 DEF IInv, ProofOk
  <2>3. journal = proof[p] => Clean
    BY <2>1, <2>2 DEF IInv, DiskInv, JournalOk, Types, JournalTypes
  <2>4. UNCHANGED dirsDisk /\ (journal # proof[p] => UNCHANGED journalDisk)
    BY <2>1 DEF RemoveJournal
  <2> QED  BY <2>3, <2>4, QuietMoves
<1> QED  BY <1>1, <1>2, <1>3, <1>4 DEF Relocate

\* So does every step, crashes and power losses among them.
LEMMA NextMoves ==
  ASSUME IInv, IInv', [Next]_vars
  PROVE  Moves
<1>1. CASE UNCHANGED vars
  BY <1>1, QuietMoves DEF vars
<1>2. CASE PowerLoss
  <2>1. Shrinks /\ journalDisk' \subseteq journalDisk
    BY <1>2 DEF PowerLoss, Shrinks
  <2> QED  BY <2>1, JournalMoves
<1>3. ASSUME NEW p \in Procs, Step(p) \/ Crash(p)
      PROVE  Moves
  <2>1. CASE Crash(p)
    BY <2>1, QuietMoves DEF Crash, disk
  <2> QED  BY <1>3, <2>1, StepMoves
<1>4. ASSUME NEW p \in Relocators, Relocate(p)
      PROVE  Moves
  BY <1>4, RelocateMoves DEF Procs
<1>5. ASSUME NEW p \in Listers, recover_all(p)
      PROVE  Moves
  BY <1>5, QuietMoves DEF recover_all, JournalIds, AcquireOrSkip, disk
<1> QED  BY <1>1, <1>2, <1>3, <1>4, <1>5 DEF Next

\* In the beginning the session has a home, of generation 0.
LEMMA InitHome ==
  ASSUME Careful, Init
  PROVE  \E c \in Cwds : TheHome = [cwd |-> c, gen |-> 0]
<1>1. IInv /\ Clean
  BY InitIInv DEF Init, IInv, DiskInv, JournalOk
<1>2. PICK h \in Cwds, g \in 0 .. MaxGen : CleanAt(h, g)
  BY <1>1 DEF Clean
<1>3. g = 0
  <2>1. dirs[h] \in dirsDisk[h]
    BY <1>1 DEF IInv, Types, DirTypes
  <2>2. dirs[h].session # None /\ dirs[h].session.sum.gen = g
    BY <1>2, <2>1 DEF CleanAt, Sound
  <2> QED  BY <2>2 DEF Init
<1>4. HomesOnDisk = {[cwd |-> h, gen |-> 0]}
  BY <1>1, <1>2, <1>3, HomesNow DEF HomesSettled
<1>5. TheHome = [cwd |-> h, gen |-> 0]
  BY <1>4 DEF TheHome, Oldest
<1> QED  BY <1>5

\* Relocation implements the atomic move of SessionHome: errors, crashes, power
\* losses and recoveries never move the session back, move it twice or lose it
\* (mark_ready_and_commit, recover).
THEOREM RelocationIsAtomic == Careful /\ Spec => ImplementsHome
<1>1. Careful /\ Init => Home!Init
  BY InitHome DEF Home!Init, TheHome, Oldest
<1>2. IInv /\ IInv' /\ [Next]_vars => [Home!Move]_(CHOOSE h \in HomesOnDisk : \A g \in HomesOnDisk : h.gen <= g.gen)
  BY NextMoves DEF Moves, TheHome, Oldest, Home!Move
<1> QED  BY <1>1, <1>2, Invariance, PTL DEF Spec, ImplementsHome, Home!Spec
=============================================================================
