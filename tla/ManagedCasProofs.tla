-------------------------- MODULE ManagedCasProofs --------------------------
(***************************************************************************)
(* Proofs about ManagedCas for any number of processes, inodes and items   *)
(* and any byte limit, process crashes and power losses included.          *)
(*                                                                         *)
(* CasIntegrity is not inductive: a published inode keeps its staging      *)
(* name, and partial rows that name it survive in the catalog and in the   *)
(* memory of a process that read them before it had the lock.  What keeps  *)
(* such a row from being reopened for writing is that a sealed file has    *)
(* outgrown it (RowInv), which in turn needs that a resumed transfer       *)
(* completes only after it has appended (WriteInv).                        *)
(***************************************************************************)
EXTENDS ManagedCas, TLAPS

(* Every partial-transfer row some process or the catalog still holds. *)
Rows == (partials \cup {resume[p] : p \in Process} \cup {mine[p] : p \in Process}) \ {None}

(* The points at which the staged file is complete and is only read. *)
Sealing == {"staged", "verify", "publish", "sync", "quarantine", "qsync", "qrecord",
            "persist", "settle"}

(* Inodes that have a name outside staging. *)
Sealed == Published \cup quarantine

(* Only the holder of the root lock is inside execute(). *)
LockInv == \A p \in Process : pc[p] \in Locked => lock = p

(* Files: forced bytes are a prefix of the visible ones, all of them once  *)
(* the file is sealed.                                                     *)
FileInv ==
    /\ \A i \in Inode :
          /\ Len(synced[i]) <= Len(content[i])
          /\ synced[i] = SubSeq(content[i], 1, Len(synced[i]))
          /\ i \notin used => content[i] = <<>>
    /\ Sealed \subseteq used
    /\ \A i \in Sealed : synced[i] = content[i]

(* Rows: the recorded prefix is forced, and a sealed file has outgrown     *)
(* every row that still names it.                                          *)
RowInv ==
    \A r \in Rows :
        /\ r.inode \in used
        /\ r.inode \in stagingSynced
        /\ r.size <= Len(synced[r.inode])
        /\ Sha256[SubSeq(content[r.inode], 1, r.size)] = r.sha256
        /\ r.inode \in Sealed => r.size < Len(content[r.inode])

(* Directories: an entry under sha256/ carries the digest of its bytes. *)
DirInv ==
    /\ stagingSynced \subseteq staging
    /\ quarantineSynced \subseteq quarantine
    /\ \A d \in Digest : cas[d] # None => Sha256[content[cas[d]]] = d
    /\ \A d \in Digest : casSynced[d] # None => casSynced[d] = cas[d]

(* A session that appends: its file is not sealed, and any row that names  *)
(* the file is no longer than the one the session resumed from.            *)
Writing(p) ==
    /\ fd[p] \in used
    /\ fd[p] \notin Sealed
    /\ fd[p] \in stagingSynced
    /\ content[fd[p]] = hashed[p]
    /\ resume[p] # None => resume[p].inode = fd[p] /\ resume[p].size <= Len(hashed[p])
    /\ \A r \in Rows : r.inode = fd[p] => resume[p] # None /\ r.size <= resume[p].size

WriteInv == \A p \in Process : pc[p] = "write" => Writing(p)

(* A session whose bytes are forced and whose row is still to be saved. *)
Detached(p) ==
    /\ fd[p] \in used
    /\ fd[p] \notin Sealed
    /\ fd[p] \in stagingSynced
    /\ content[fd[p]] = hashed[p]
    /\ synced[fd[p]] = content[fd[p]]

DetachedInv == \A p \in Process : pc[p] = "detached" => Detached(p)

(* A staged file on its way to the CAS or to quarantine: complete, forced  *)
(* and longer than every row that names it.                                *)
Staged(p) ==
    /\ fd[p] \in used
    /\ content[fd[p]] = hashed[p]
    /\ synced[fd[p]] = content[fd[p]]
    /\ \A r \in Rows : r.inode = fd[p] => r.size < Len(content[fd[p]])

SealingInv == \A p \in Process : pc[p] \in Sealing => Staged(p)

(* Inside execute() there is an item. *)
ItemInv == \A p \in Process : pc[p] # "idle" => item[p] \in Item

(* The inductive invariant of the storage properties. *)
IInv ==
    /\ TypeOK
    /\ LockInv
    /\ FileInv
    /\ RowInv
    /\ DirInv
    /\ WriteInv
    /\ DetachedInv
    /\ SealingInv
    /\ ItemInv

-----------------------------------------------------------------------------
(* Byte strings *)

(* A byte string within the limit is a sequence of chunks. *)
LEMMA ContentIsSeq ==
  ASSUME NEW c \in Content
  PROVE  c \in Seq(Chunk) /\ Len(c) \in 0..MaxBytes
BY BoundAssumption DEF Content

(* A sequence of chunks within the limit is a byte string. *)
LEMMA SeqIsContent ==
  ASSUME NEW c \in Seq(Chunk), Len(c) <= MaxBytes
  PROVE  c \in Content
<1>1. Len(c) \in 0..MaxBytes
  BY BoundAssumption
<1>2. c \in [1..Len(c) -> Chunk]
  OBVIOUS
<1> QED
  BY <1>1, <1>2 DEF Content

(* A new staging file holds a byte string. *)
LEMMA EmptyIsContent == <<>> \in Content /\ Len(<<>>) = 0
<1>1. <<>> \in Seq(Chunk) /\ Len(<<>>) = 0
  OBVIOUS
<1>2. Len(<<>>) <= MaxBytes
  BY <1>1, BoundAssumption
<1> QED
  BY <1>1, <1>2, SeqIsContent, Zenon

(* What RemoteStagingSession.write leaves in the file: the old bytes are   *)
(* kept as a prefix.                                                       *)
LEMMA AppendContent ==
  ASSUME NEW s \in Content, NEW c \in Chunk, Len(s) < MaxBytes
  PROVE  /\ Append(s, c) \in Content
         /\ Len(Append(s, c)) = Len(s) + 1
         /\ \A k \in 0..Len(s) : SubSeq(Append(s, c), 1, k) = SubSeq(s, 1, k)
<1>1. s \in Seq(Chunk) /\ Len(s) \in Nat
  BY ContentIsSeq
<1>2. Append(s, c) \in Seq(Chunk) /\ Len(Append(s, c)) = Len(s) + 1
  BY <1>1
<1>3. Len(Append(s, c)) <= MaxBytes
  BY <1>1, <1>2, BoundAssumption
<1>4. Append(s, c) \in Content
  BY <1>2, <1>3, SeqIsContent, Zenon
<1>5. \A k \in 0..Len(s) : SubSeq(Append(s, c), 1, k) = SubSeq(s, 1, k)
  BY <1>1
<1> QED
  BY <1>2, <1>4, <1>5

(* What a power loss leaves of a file: a prefix, whose own prefixes are    *)
(* those of the file.                                                      *)
LEMMA PrefixContent ==
  ASSUME NEW s \in Content, NEW n \in 0..Len(s)
  PROVE  /\ SubSeq(s, 1, n) \in Content
         /\ Len(SubSeq(s, 1, n)) = n
         /\ \A k \in 0..n : SubSeq(SubSeq(s, 1, n), 1, k) = SubSeq(s, 1, k)
<1>1. s \in Seq(Chunk) /\ Len(s) \in 0..MaxBytes
  BY ContentIsSeq
<1>2. SubSeq(s, 1, n) \in Seq(Chunk) /\ Len(SubSeq(s, 1, n)) = n
  BY <1>1
<1>3. Len(SubSeq(s, 1, n)) <= MaxBytes
  BY <1>1, <1>2, BoundAssumption
<1>4. SubSeq(s, 1, n) \in Content
  BY <1>2, <1>3, SeqIsContent, Zenon
<1>5. \A k \in 0..n : SubSeq(SubSeq(s, 1, n), 1, k) = SubSeq(s, 1, k)
  BY <1>1
<1> QED
  BY <1>2, <1>4, <1>5

(* A byte string is its own longest prefix. *)
LEMMA WholeContent ==
  ASSUME NEW s \in Content
  PROVE  SubSeq(s, 1, Len(s)) = s
<1>1. s \in Seq(Chunk)
  BY ContentIsSeq
<1> QED
  BY <1>1

-----------------------------------------------------------------------------
(* Steps that leave the files and directories alone *)

(* A step of p that changes no file or directory and adds no row keeps the *)
(* invariant if it opens no session.                                       *)
LEMMA FrameStep ==
  ASSUME IInv, NEW p \in Process,
         TypeOK', LockInv', ItemInv',
         UNCHANGED <<files, dirs>>,
         Rows' \subseteq Rows,
         \A q \in Process \ {p} : /\ pc'[q] = pc[q]
                                  /\ fd'[q] = fd[q]
                                  /\ hashed'[q] = hashed[q]
                                  /\ resume'[q] = resume[q],
         pc'[p] # "write",
         pc'[p] = "detached" => pc[p] = "detached",
         pc'[p] \in Sealing => pc[p] \in Sealing,
         pc'[p] \in Sealing \cup {"detached"} => fd'[p] = fd[p] /\ hashed'[p] = hashed[p]
  PROVE  IInv'
<1> USE DEF IInv, files, dirs
<1>1. Sealed' = Sealed
  BY DEF Sealed, Published
<1>2. FileInv'
  BY <1>1 DEF FileInv
<1>3. RowInv'
  BY <1>1 DEF RowInv
<1>4. DirInv'
  BY DEF DirInv
<1>5. WriteInv'
  BY <1>1 DEF WriteInv, Writing
<1>6. DetachedInv'
  BY <1>1 DEF DetachedInv, Detached
<1>7. SealingInv'
  BY DEF SealingInv, Staged
<1> QED
  BY <1>2, <1>3, <1>4, <1>5, <1>6, <1>7

(* The steps FrameStep covers. *)
QuietStep(p) ==
    \/ \E i \in Item : Invoke(p, i)
    \/ AcquireLock(p) \/ LockRefused(p) \/ AlreadySatisfied(p) \/ MustDownload(p)
    \/ ClaimResume(p) \/ ClaimConflict(p) \/ OpenFails(p) \/ DropSuperseded(p)
    \/ ConsumePartial(p) \/ EndIncomplete(p)
    \/ RecordEvidence(p) \/ InspectionFails(p) \/ PublishReuse(p)
    \/ PersistAsset(p) \/ SettleItem(p) \/ RecordQuarantine(p)
    \/ QuarantineNotRetained(p)
    \/ ReleaseLock(p) \/ Crash(p)

(* Catalog transactions, lock operations and crashes keep the invariant.   *)
LEMMA QuietStepInv ==
  ASSUME IInv, NEW p \in Process, QuietStep(p),
         UNCHANGED powerLost
  PROVE  IInv'
<1> USE NoneAssumption DEF Goto, At, files, dirs, catalog, session
<1>1. ASSUME NEW i \in Item, Invoke(p, i) PROVE IInv'
  <2>1. TypeOK'
    BY <1>1 DEF IInv, TypeOK, Locked, ItemInv, Invoke
  <2>2. LockInv' /\ ItemInv'
    BY <1>1 DEF IInv, TypeOK, LockInv, ItemInv, Locked, Invoke
  <2>3. Rows' \subseteq Rows
    BY <1>1 DEF IInv, TypeOK, Rows, Invoke
  <2> QED
    BY <1>1, <2>1, <2>2, <2>3, FrameStep DEF IInv, TypeOK, Sealing, Invoke
<1>2. CASE AcquireLock(p)
  <2>1. TypeOK'
    BY <1>2 DEF IInv, TypeOK, Locked, ItemInv, AcquireLock
  <2>2. LockInv' /\ ItemInv'
    BY <1>2 DEF IInv, TypeOK, LockInv, ItemInv, Locked, AcquireLock
  <2>3. Rows' \subseteq Rows
    BY <1>2 DEF IInv, TypeOK, Rows, AcquireLock
  <2> QED
    BY <1>2, <2>1, <2>2, <2>3, FrameStep DEF IInv, TypeOK, Sealing, AcquireLock
<1>3. CASE LockRefused(p)
  <2>1. TypeOK'
    BY <1>3, EmptyIsContent DEF IInv, TypeOK, Locked, ItemInv, LockRefused, Leave
  <2>2. LockInv' /\ ItemInv'
    BY <1>3 DEF IInv, TypeOK, LockInv, ItemInv, Locked, LockRefused, Leave
  <2>3. Rows' \subseteq Rows
    BY <1>3 DEF IInv, TypeOK, Rows, LockRefused, Leave
  <2> QED
    BY <1>3, <2>1, <2>2, <2>3, FrameStep DEF IInv, TypeOK, Sealing, LockRefused, Leave
<1>4. CASE AlreadySatisfied(p)
  <2>1. TypeOK'
    BY <1>4 DEF IInv, TypeOK, Locked, ItemInv, AlreadySatisfied
  <2>2. LockInv' /\ ItemInv'
    BY <1>4 DEF IInv, TypeOK, LockInv, ItemInv, Locked, AlreadySatisfied
  <2>3. Rows' \subseteq Rows
    BY <1>4 DEF IInv, TypeOK, Rows, AlreadySatisfied
  <2> QED
    BY <1>4, <2>1, <2>2, <2>3, FrameStep DEF IInv, TypeOK, Sealing, AlreadySatisfied
<1>5. CASE MustDownload(p)
  <2>1. TypeOK'
    BY <1>5 DEF IInv, TypeOK, Locked, ItemInv, MustDownload
  <2>2. LockInv' /\ ItemInv'
    BY <1>5 DEF IInv, TypeOK, LockInv, ItemInv, Locked, MustDownload
  <2>3. Rows' \subseteq Rows
    BY <1>5 DEF IInv, TypeOK, Rows, MustDownload
  <2> QED
    BY <1>5, <2>1, <2>2, <2>3, FrameStep DEF IInv, TypeOK, Sealing, MustDownload
<1>6. CASE ClaimResume(p)
  <2>1. TypeOK'
    BY <1>6 DEF IInv, TypeOK, Locked, ItemInv, ClaimResume
  <2>2. LockInv' /\ ItemInv'
    BY <1>6 DEF IInv, TypeOK, LockInv, ItemInv, Locked, ClaimResume
  <2>3. Rows' \subseteq Rows
    BY <1>6 DEF IInv, TypeOK, Rows, ClaimResume
  <2> QED
    BY <1>6, <2>1, <2>2, <2>3, FrameStep DEF IInv, TypeOK, Sealing, ClaimResume
<1>7. CASE ClaimConflict(p)
  <2>1. TypeOK'
    BY <1>7, EmptyIsContent DEF IInv, TypeOK, Locked, ItemInv, ClaimConflict, Leave
  <2>2. LockInv' /\ ItemInv'
    BY <1>7 DEF IInv, TypeOK, LockInv, ItemInv, Locked, ClaimConflict, Leave
  <2>3. Rows' \subseteq Rows
    BY <1>7 DEF IInv, TypeOK, Rows, ClaimConflict, Leave
  <2> QED
    BY <1>7, <2>1, <2>2, <2>3, FrameStep DEF IInv, TypeOK, Sealing, ClaimConflict, Leave
<1>8. CASE OpenFails(p)
  <2>1. TypeOK'
    BY <1>8 DEF IInv, TypeOK, Locked, ItemInv, OpenFails
  <2>2. LockInv' /\ ItemInv'
    BY <1>8 DEF IInv, TypeOK, LockInv, ItemInv, Locked, OpenFails
  <2>3. Rows' \subseteq Rows
    BY <1>8 DEF IInv, TypeOK, Rows, OpenFails
  <2> QED
    BY <1>8, <2>1, <2>2, <2>3, FrameStep DEF IInv, TypeOK, Sealing, OpenFails
<1>9. CASE DropSuperseded(p)
  <2>1. TypeOK'
    BY <1>9 DEF IInv, TypeOK, Locked, ItemInv, DropSuperseded, Superseded
  <2>2. LockInv' /\ ItemInv'
    BY <1>9 DEF IInv, TypeOK, LockInv, ItemInv, Locked, DropSuperseded
  <2>3. Rows' \subseteq Rows
    BY <1>9 DEF IInv, TypeOK, Rows, DropSuperseded
  <2> QED
    BY <1>9, <2>1, <2>2, <2>3, FrameStep DEF IInv, TypeOK, Sealing, DropSuperseded
<1>10. CASE ConsumePartial(p)
  <2>1. TypeOK'
    BY <1>10 DEF IInv, TypeOK, Locked, ItemInv, ConsumePartial
  <2>2. LockInv' /\ ItemInv'
    BY <1>10 DEF IInv, TypeOK, LockInv, ItemInv, Locked, ConsumePartial
  <2>3. Rows' \subseteq Rows
    BY <1>10 DEF IInv, TypeOK, Rows, ConsumePartial
  <2> QED
    BY <1>10, <2>1, <2>2, <2>3, FrameStep DEF IInv, TypeOK, Sealing, ConsumePartial
<1>11. CASE EndIncomplete(p)
  <2>1. TypeOK'
    BY <1>11 DEF IInv, TypeOK, Locked, ItemInv, EndIncomplete
  <2>2. LockInv' /\ ItemInv'
    BY <1>11 DEF IInv, TypeOK, LockInv, ItemInv, Locked, EndIncomplete
  <2>3. Rows' \subseteq Rows
    BY <1>11 DEF IInv, TypeOK, Rows, EndIncomplete
  <2> QED
    BY <1>11, <2>1, <2>2, <2>3, FrameStep DEF IInv, TypeOK, Sealing, EndIncomplete
<1>12. CASE RecordEvidence(p)
  <2>1. TypeOK'
    BY <1>12, DigestAssumption DEF IInv, TypeOK, Locked, ItemInv, RecordEvidence
  <2>2. LockInv' /\ ItemInv'
    BY <1>12 DEF IInv, TypeOK, LockInv, ItemInv, Locked, RecordEvidence
  <2>3. Rows' \subseteq Rows
    BY <1>12 DEF IInv, TypeOK, Rows, RecordEvidence
  <2> QED
    BY <1>12, <2>1, <2>2, <2>3, FrameStep DEF IInv, TypeOK, Sealing, RecordEvidence
<1>13. CASE InspectionFails(p)
  <2>1. TypeOK'
    BY <1>13 DEF IInv, TypeOK, Locked, ItemInv, InspectionFails
  <2>2. LockInv' /\ ItemInv'
    BY <1>13 DEF IInv, TypeOK, LockInv, ItemInv, Locked, InspectionFails
  <2>3. Rows' \subseteq Rows
    BY <1>13 DEF IInv, TypeOK, Rows, InspectionFails
  <2> QED
    BY <1>13, <2>1, <2>2, <2>3, FrameStep DEF IInv, TypeOK, Sealing, InspectionFails
<1>14. CASE PublishReuse(p)
  <2>1. TypeOK'
    BY <1>14 DEF IInv, TypeOK, Locked, ItemInv, PublishReuse
  <2>2. LockInv' /\ ItemInv'
    BY <1>14 DEF IInv, TypeOK, LockInv, ItemInv, Locked, PublishReuse
  <2>3. Rows' \subseteq Rows
    BY <1>14 DEF IInv, TypeOK, Rows, PublishReuse
  <2> QED
    BY <1>14, <2>1, <2>2, <2>3, FrameStep DEF IInv, TypeOK, Sealing, PublishReuse
<1>15. CASE PersistAsset(p)
  <2>1. TypeOK'
    BY <1>15, DigestAssumption DEF IInv, TypeOK, Locked, ItemInv, PersistAsset
  <2>2. LockInv' /\ ItemInv'
    BY <1>15 DEF IInv, TypeOK, LockInv, ItemInv, Locked, PersistAsset
  <2>3. Rows' \subseteq Rows
    BY <1>15 DEF IInv, TypeOK, Rows, PersistAsset
  <2> QED
    BY <1>15, <2>1, <2>2, <2>3, FrameStep DEF IInv, TypeOK, Sealing, PersistAsset
<1>16. CASE SettleItem(p)
  <2>1. TypeOK'
    BY <1>16 DEF IInv, TypeOK, Locked, ItemInv, SettleItem
  <2>2. LockInv' /\ ItemInv'
    BY <1>16 DEF IInv, TypeOK, LockInv, ItemInv, Locked, SettleItem
  <2>3. Rows' \subseteq Rows
    BY <1>16 DEF IInv, TypeOK, Rows, SettleItem
  <2> QED
    BY <1>16, <2>1, <2>2, <2>3, FrameStep DEF IInv, TypeOK, Sealing, SettleItem
<1>17. CASE RecordQuarantine(p)
  <2>1. TypeOK'
    BY <1>17 DEF IInv, TypeOK, Locked, SealingInv, Staged, Sealing, RecordQuarantine
  <2>2. LockInv' /\ ItemInv'
    BY <1>17 DEF IInv, TypeOK, LockInv, ItemInv, Locked, RecordQuarantine
  <2>3. Rows' \subseteq Rows
    BY <1>17 DEF IInv, TypeOK, Rows, RecordQuarantine
  <2> QED
    BY <1>17, <2>1, <2>2, <2>3, FrameStep DEF IInv, TypeOK, Sealing, RecordQuarantine
<1>18. CASE QuarantineNotRetained(p)
  <2>1. TypeOK'
    BY <1>18 DEF IInv, TypeOK, Locked, ItemInv, QuarantineNotRetained
  <2>2. LockInv' /\ ItemInv'
    BY <1>18 DEF IInv, TypeOK, LockInv, ItemInv, Locked, QuarantineNotRetained
  <2>3. Rows' \subseteq Rows
    BY <1>18 DEF IInv, TypeOK, Rows, QuarantineNotRetained
  <2> QED
    BY <1>18, <2>1, <2>2, <2>3, FrameStep DEF IInv, TypeOK, Sealing, QuarantineNotRetained
<1>19. CASE ReleaseLock(p)
  <2>1. TypeOK'
    BY <1>19, EmptyIsContent DEF IInv, TypeOK, Locked, ItemInv, ReleaseLock, Leave
  <2>2. LockInv' /\ ItemInv'
    BY <1>19 DEF IInv, TypeOK, LockInv, ItemInv, Locked, ReleaseLock, Leave
  <2>3. Rows' \subseteq Rows
    BY <1>19 DEF IInv, TypeOK, Rows, ReleaseLock, Leave
  <2> QED
    BY <1>19, <2>1, <2>2, <2>3, FrameStep DEF IInv, TypeOK, Sealing, ReleaseLock, Leave
<1>20. CASE Crash(p)
  <2>1. TypeOK'
    BY <1>20, EmptyIsContent DEF IInv, TypeOK, Locked, ItemInv, Crash, Leave
  <2>2. LockInv' /\ ItemInv'
    BY <1>20 DEF IInv, TypeOK, LockInv, ItemInv, Locked, Crash, Leave
  <2>3. Rows' \subseteq Rows
    BY <1>20 DEF IInv, TypeOK, Rows, Crash, Leave
  <2> QED
    BY <1>20, <2>1, <2>2, <2>3, FrameStep DEF IInv, TypeOK, Sealing, Crash, Leave
<1> QED
  BY <1>1, <1>2, <1>3, <1>4, <1>5, <1>6, <1>7, <1>8, <1>9, <1>10, <1>11, <1>12, <1>13, <1>14, <1>15, <1>16, <1>17, <1>18, <1>19, <1>20 DEF QuietStep

-----------------------------------------------------------------------------
(* Steps that open, extend or force a staging file *)

(* While p is inside execute() no other process is. *)
LEMMA Exclusive ==
  ASSUME IInv, NEW p \in Process, pc[p] \in Locked
  PROVE  \A q \in Process \ {p} : pc[q] \notin Locked
BY DEF IInv, LockInv

(* Reconcile: the orphan's inode is already sealed, so it fits SealingInv. *)
LEMMA ReconcileStep ==
  ASSUME IInv, NEW p \in Process, Reconcile(p),
         UNCHANGED powerLost
  PROVE  IInv'
<1> USE NoneAssumption DEF Goto, At, files, catalog
<1> DEFINE i == cas[evidence[item[p]]]
<1>1. i \in Inode /\ i \in Sealed
  BY DEF IInv, TypeOK, ItemInv, Reconcile, OrphanStored, Sealed, Published
<1>2. /\ UNCHANGED <<content, synced, used, quarantine, quarantineSynced, cas, casSynced,
                     lock>>
      /\ fd' = [fd EXCEPT ![p] = i] /\ hashed' = [hashed EXCEPT ![p] = content[i]]
      /\ staging' = staging \cup {i} /\ stagingSynced' = staging'
      /\ pc' = [pc EXCEPT ![p] = "verify"] /\ pc[p] = "start"
      /\ Rows' = Rows
      /\ Sealed' = Sealed
  BY DEF Reconcile, Rows, Sealed, Published
<1> HIDE DEF i
<1>3. TypeOK'
  BY <1>1, <1>2 DEF IInv, TypeOK, Locked, Reconcile
<1>4. LockInv' /\ ItemInv'
  BY <1>2 DEF IInv, TypeOK, LockInv, ItemInv, Locked, Reconcile
<1>5. FileInv' /\ RowInv' /\ DirInv'
  BY <1>2 DEF IInv, TypeOK, FileInv, RowInv, DirInv
<1>6. WriteInv' /\ DetachedInv'
  BY <1>2, Exclusive DEF IInv, TypeOK, WriteInv, Writing, DetachedInv, Detached, Locked
<1>7. SealingInv'
  BY <1>1, <1>2, Exclusive DEF IInv, TypeOK, SealingInv, Staged, Sealing, Locked, FileInv, RowInv
<1> QED
  BY <1>3, <1>4, <1>5, <1>6, <1>7 DEF IInv

(* BeginStaging: a fresh inode is empty, unsealed and in no row. *)
LEMMA BeginStagingStep ==
  ASSUME IInv, NEW p \in Process, BeginStaging(p),
         UNCHANGED powerLost
  PROVE  IInv'
<1> USE NoneAssumption DEF Goto, At, files, catalog
<1>1. PICK i \in Inode \ used :
         /\ used' = used \cup {i}
         /\ staging' = staging \cup {i}
         /\ stagingSynced' = staging'
         /\ fd' = [fd EXCEPT ![p] = i]
  BY DEF BeginStaging
<1>2. /\ UNCHANGED <<content, synced, quarantine, quarantineSynced, cas, casSynced, lock,
                     resume>>
      /\ hashed' = [hashed EXCEPT ![p] = <<>>]
      /\ pc' = [pc EXCEPT ![p] = "write"] /\ pc[p] = "open" /\ resume[p] = None
      /\ Rows' = Rows
      /\ Sealed' = Sealed
  BY DEF BeginStaging, Rows, Sealed, Published
<1>3. TypeOK'
  BY <1>1, <1>2, EmptyIsContent DEF IInv, TypeOK, Locked, BeginStaging
<1>4. LockInv' /\ ItemInv'
  BY <1>2 DEF IInv, TypeOK, LockInv, ItemInv, Locked, BeginStaging
<1>5. FileInv' /\ RowInv' /\ DirInv'
  BY <1>1, <1>2 DEF IInv, TypeOK, FileInv, RowInv, DirInv
<1>6. WriteInv'
  <2> SUFFICES ASSUME NEW q \in Process, pc'[q] = "write" PROVE Writing(q)'
    BY DEF WriteInv
  <2>1. q = p
    BY <1>2, Exclusive DEF IInv, TypeOK, Locked
  <2> QED
    BY <1>1, <1>2, <2>1 DEF IInv, TypeOK, FileInv, RowInv, Writing
<1>7. DetachedInv' /\ SealingInv'
  BY <1>2, Exclusive DEF IInv, TypeOK, DetachedInv, Detached, SealingInv, Staged, Sealing, Locked
<1> QED
  BY <1>3, <1>4, <1>5, <1>6, <1>7 DEF IInv

(* ReopenStaging: a sealed file is longer than the row, so the size check  *)
(* of reopen_remote_staging has refused it.                                *)
LEMMA ReopenStagingStep ==
  ASSUME IInv, NEW p \in Process, ReopenStaging(p),
         UNCHANGED powerLost
  PROVE  IInv'
<1> USE NoneAssumption DEF Goto, At, files, dirs, catalog
<1>1. /\ UNCHANGED <<content, synced, used, dirs, lock, resume, mine, partials>>
      /\ fd' = [fd EXCEPT ![p] = resume[p].inode]
      /\ hashed' = [hashed EXCEPT ![p] = content[resume[p].inode]]
      /\ pc' = [pc EXCEPT ![p] = "write"] /\ pc[p] = "open"
      /\ Rows' = Rows
      /\ Sealed' = Sealed
  BY DEF ReopenStaging, Rows, Sealed, Published
<1>2. resume[p] \in Partial /\ resume[p] \in Rows
  BY DEF IInv, TypeOK, ReopenStaging, Rows
<1>3. Len(content[resume[p].inode]) = resume[p].size
  BY DEF ReopenStaging, PrefixMatches
<1>4. resume[p].inode \notin Sealed
  BY <1>2, <1>3, BoundAssumption DEF IInv, RowInv, Partial
<1>5. TypeOK'
  BY <1>1, <1>2 DEF IInv, TypeOK, Locked, Partial, ReopenStaging
<1>6. LockInv' /\ ItemInv'
  BY <1>1 DEF IInv, TypeOK, LockInv, ItemInv, Locked, ReopenStaging
<1>7. FileInv' /\ RowInv' /\ DirInv'
  BY <1>1 DEF IInv, FileInv, RowInv, DirInv
<1>8. WriteInv'
  <2> SUFFICES ASSUME NEW q \in Process, pc'[q] = "write" PROVE Writing(q)'
    BY DEF WriteInv
  <2>1. q = p
    BY <1>1, Exclusive DEF IInv, TypeOK, Locked
  <2>2. \A r \in Rows : r.inode = resume[p].inode => r.size <= resume[p].size
    <3> SUFFICES ASSUME NEW r \in Rows, r.inode = resume[p].inode
                 PROVE  r.size <= resume[p].size
      OBVIOUS
    <3>1. r \in Partial
      BY DEF IInv, TypeOK, Rows
    <3>2. Len(synced[r.inode]) \in Nat /\ Len(content[r.inode]) \in Nat
      BY <3>1, ContentIsSeq DEF IInv, TypeOK, Partial
    <3> QED
      BY <1>3, <3>1, <3>2, BoundAssumption DEF IInv, RowInv, FileInv, Partial
  <2> QED
    BY <1>1, <1>2, <1>3, <1>4, <2>1, <2>2 DEF IInv, TypeOK, RowInv, Writing, Partial
<1>9. DetachedInv' /\ SealingInv'
  BY <1>1, Exclusive DEF IInv, TypeOK, DetachedInv, SealingInv, Sealing, Locked
<1> QED
  BY <1>5, <1>6, <1>7, <1>8, <1>9 DEF IInv

(* Write: the file is not sealed, so only the session's own file grows. *)
LEMMA WriteStep ==
  ASSUME IInv, NEW p \in Process, NEW c \in Chunk, Write(p, c),
         UNCHANGED powerLost
  PROVE  IInv'
<1> USE NoneAssumption DEF At, dirs, catalog
<1> DEFINE i == fd[p]
<1>1. /\ UNCHANGED <<synced, used, dirs, lock, pc, item, fd, resume, mine, partials>>
      /\ content' = [content EXCEPT ![i] = Append(@, c)]
      /\ hashed' = [hashed EXCEPT ![p] = Append(@, c)]
      /\ pc[p] = "write"
      /\ Rows' = Rows
      /\ Sealed' = Sealed
  BY DEF Write, Rows, Sealed, Published
<1>2. Writing(p)
  BY <1>1 DEF IInv, WriteInv
<1>3. i \in Inode /\ i \in used /\ i \notin Sealed /\ content[i] = hashed[p]
  BY <1>2 DEF IInv, TypeOK, Writing
<1>4. content[i] \in Content /\ Len(content[i]) < MaxBytes
  BY <1>3 DEF IInv, TypeOK, Write
<1> HIDE DEF i
<1>5. /\ content'[i] \in Content
      /\ Len(content'[i]) = Len(content[i]) + 1
      /\ \A k \in 0..Len(content[i]) : SubSeq(content'[i], 1, k) = SubSeq(content[i], 1, k)
  BY <1>1, <1>3, <1>4, AppendContent DEF IInv, TypeOK
<1>6. Len(content[i]) \in Nat /\ Len(synced[i]) \in Nat
  BY <1>3, ContentIsSeq DEF IInv, TypeOK
<1>7. TypeOK'
  BY <1>1, <1>3, <1>5 DEF IInv, TypeOK, Write
<1>8. LockInv' /\ ItemInv'
  BY <1>1 DEF IInv, LockInv, ItemInv
<1>9. FileInv'
  BY <1>1, <1>3, <1>5, <1>6 DEF IInv, TypeOK, FileInv
<1>10. RowInv'
  <2> SUFFICES ASSUME NEW r \in Rows
               PROVE  /\ Sha256[SubSeq(content'[r.inode], 1, r.size)] = r.sha256
                      /\ r.inode \in Sealed => r.size < Len(content'[r.inode])
    BY <1>1 DEF IInv, RowInv
  <2>1. r \in Partial
    BY DEF IInv, TypeOK, Rows
  <2>2. CASE r.inode = i
    <3>1. r.size \in 0..Len(content[i])
      BY <1>3, <1>6, <2>1, <2>2, BoundAssumption DEF IInv, RowInv, FileInv, Partial
    <3>2. SubSeq(content'[i], 1, r.size) = SubSeq(content[i], 1, r.size)
      BY <1>5, <3>1
    <3> QED
      BY <1>3, <2>2, <3>2 DEF IInv, RowInv
  <2>3. CASE r.inode # i
    BY <1>1, <2>1, <2>3 DEF IInv, TypeOK, RowInv, Partial
  <2> QED
    BY <2>2, <2>3
<1>11. DirInv'
  BY <1>1, <1>3 DEF IInv, TypeOK, DirInv, Sealed, Published
<1>12. WriteInv'
  <2> SUFFICES ASSUME NEW q \in Process, pc'[q] = "write" PROVE Writing(q)'
    BY DEF WriteInv
  <2>1. q = p
    BY <1>1, Exclusive DEF IInv, TypeOK, Locked
  <2>2. resume[p] # None => resume[p].size <= Len(hashed'[p])
    BY <1>1, <1>2, <1>3, <1>5, <1>6, BoundAssumption DEF IInv, TypeOK, Writing, Partial
  <2> QED
    BY <1>1, <1>2, <1>3, <2>1, <2>2 DEF IInv, TypeOK, Writing, i
<1>13. DetachedInv' /\ SealingInv'
  BY <1>1, Exclusive DEF IInv, TypeOK, DetachedInv, SealingInv, Sealing, Locked
<1> QED
  BY <1>7, <1>8, <1>9, <1>10, <1>11, <1>12, <1>13 DEF IInv

(* Forcing a file that holds a byte string keeps the file, row and         *)
(* directory invariants.                                                   *)
LEMMA CheckpointInv ==
  ASSUME IInv, NEW i \in Inode, Checkpoint(i),
         UNCHANGED <<content, used, staging, quarantine, quarantineSynced, cas, casSynced>>,
         Rows' \subseteq Rows
  PROVE  FileInv' /\ RowInv' /\ DirInv' /\ synced' \in [Inode -> Content]
<1> USE DEF Checkpoint
<1>1. Sealed' = Sealed
  BY DEF Sealed, Published
<1>2. content[i] \in Content /\ Len(content[i]) \in Nat /\ Len(synced[i]) \in Nat
  BY ContentIsSeq DEF IInv, TypeOK
<1>3. content[i] = SubSeq(content[i], 1, Len(content[i]))
  BY <1>2, WholeContent
<1>4. FileInv'
  BY <1>1, <1>2, <1>3 DEF IInv, TypeOK, FileInv
<1>5. RowInv'
  <2> SUFFICES ASSUME NEW r \in Rows
               PROVE  r.inode \in staging /\ r.size <= Len(synced'[r.inode])
    BY <1>1 DEF IInv, RowInv
  <2>1. r \in Partial
    BY DEF IInv, TypeOK, Rows
  <2> QED
    BY <1>2, <2>1, BoundAssumption DEF IInv, TypeOK, FileInv, RowInv, DirInv, Partial
<1>6. DirInv'
  BY DEF IInv, DirInv
<1> QED
  BY <1>2, <1>4, <1>5, <1>6 DEF IInv, TypeOK

(* Detach: the session's file and name are forced. *)
LEMMA DetachStep ==
  ASSUME IInv, NEW p \in Process, Detach(p),
         UNCHANGED powerLost
  PROVE  IInv'
<1> USE NoneAssumption DEF At, Goto, catalog, session
<1>1. /\ UNCHANGED <<content, used, staging, quarantine, quarantineSynced, cas, casSynced,
                     lock, item, fd, hashed, resume, mine, partials>>
      /\ Checkpoint(fd[p])
      /\ pc' = [pc EXCEPT ![p] = "detached"] /\ pc[p] = "write"
      /\ Rows' = Rows
      /\ Sealed' = Sealed
  BY DEF Detach, Rows, Sealed, Published
<1>2. Writing(p) /\ fd[p] \in Inode
  BY <1>1 DEF IInv, TypeOK, WriteInv, Writing
<1>3. FileInv' /\ RowInv' /\ DirInv' /\ synced' \in [Inode -> Content]
  BY <1>1, <1>2, CheckpointInv
<1>4. TypeOK'
  BY <1>1, <1>3 DEF IInv, TypeOK, Locked, Checkpoint, Detach
<1>5. LockInv' /\ ItemInv'
  BY <1>1 DEF IInv, TypeOK, LockInv, ItemInv, Locked
<1>6. WriteInv' /\ SealingInv'
  BY <1>1, Exclusive DEF IInv, TypeOK, WriteInv, SealingInv, Sealing, Locked
<1>7. DetachedInv'
  <2> SUFFICES ASSUME NEW q \in Process, pc'[q] = "detached" PROVE Detached(q)'
    BY DEF DetachedInv
  <2>1. q = p
    BY <1>1, Exclusive DEF IInv, TypeOK, Locked
  <2> QED
    BY <1>1, <1>2, <2>1 DEF IInv, TypeOK, DirInv, Writing, Detached, Checkpoint
<1> QED
  BY <1>3, <1>4, <1>5, <1>6, <1>7 DEF IInv

(* DiscardSession: the file is forced and forgotten. *)
LEMMA DiscardSessionStep ==
  ASSUME IInv, NEW p \in Process, NEW label \in {"open", "ended"}, DiscardSession(p, label),
         UNCHANGED powerLost
  PROVE  IInv'
<1> USE NoneAssumption DEF At, Goto, catalog
<1>1. /\ UNCHANGED <<content, used, staging, quarantine, quarantineSynced, cas, casSynced,
                     lock, item, hashed, mine, partials>>
      /\ Checkpoint(fd[p])
      /\ pc' = [pc EXCEPT ![p] = label] /\ pc[p] = "write"
      /\ Rows' \subseteq Rows
      /\ Sealed' = Sealed
  BY DEF IInv, TypeOK, DiscardSession, Rows, Sealed, Published
<1>2. Writing(p) /\ fd[p] \in Inode
  BY <1>1 DEF IInv, TypeOK, WriteInv, Writing
<1>3. FileInv' /\ RowInv' /\ DirInv' /\ synced' \in [Inode -> Content]
  BY <1>1, <1>2, CheckpointInv
<1>4. TypeOK'
  BY <1>1, <1>3 DEF IInv, TypeOK, Locked, Checkpoint, DiscardSession
<1>5. LockInv' /\ ItemInv'
  BY <1>1 DEF IInv, TypeOK, LockInv, ItemInv, Locked
<1>6. WriteInv' /\ DetachedInv' /\ SealingInv'
  BY <1>1, Exclusive DEF IInv, TypeOK, WriteInv, DetachedInv, SealingInv, Sealing, Locked
<1> QED
  BY <1>3, <1>4, <1>5, <1>6 DEF IInv

(* Finalize: a fresh file is named by no row, a resumed one has outgrown   *)
(* every row that names it.                                                *)
LEMMA FinalizeStep ==
  ASSUME IInv, NEW p \in Process, Finalize(p),
         UNCHANGED powerLost
  PROVE  IInv'
<1> USE NoneAssumption DEF At, Goto, catalog
<1>1. /\ UNCHANGED <<content, used, staging, quarantine, quarantineSynced, cas, casSynced,
                     lock, item, fd, hashed, mine, partials>>
      /\ Checkpoint(fd[p])
      /\ pc' = [pc EXCEPT ![p] = "staged"] /\ pc[p] = "write"
      /\ Rows' \subseteq Rows
      /\ Sealed' = Sealed
  BY DEF IInv, TypeOK, Finalize, Rows, Sealed, Published
<1>2. Writing(p) /\ fd[p] \in Inode
  BY <1>1 DEF IInv, TypeOK, WriteInv, Writing
<1>3. FileInv' /\ RowInv' /\ DirInv' /\ synced' \in [Inode -> Content]
  BY <1>1, <1>2, CheckpointInv
<1>4. TypeOK'
  BY <1>1, <1>3 DEF IInv, TypeOK, Locked, Checkpoint, Finalize
<1>5. LockInv' /\ ItemInv'
  BY <1>1 DEF IInv, TypeOK, LockInv, ItemInv, Locked
<1>6. WriteInv' /\ DetachedInv'
  BY <1>1, Exclusive DEF IInv, TypeOK, WriteInv, DetachedInv, Locked
<1>7. SealingInv'
  <2> SUFFICES ASSUME NEW q \in Process, pc'[q] \in Sealing PROVE Staged(q)'
    BY DEF SealingInv
  <2>1. q = p
    BY <1>1, Exclusive DEF IInv, TypeOK, Sealing, Locked
  <2>2. ASSUME NEW r \in Rows, r.inode = fd[p] PROVE r.size < Len(content[fd[p]])
    <3>1. r \in Partial /\ resume[p] \in Partial /\ r.size <= resume[p].size
      BY <1>2, <2>2 DEF IInv, TypeOK, Rows, Writing
    <3>2. Len(hashed[p]) > resume[p].size /\ content[fd[p]] = hashed[p]
      BY <1>2, <3>1 DEF Finalize, Writing, Partial
    <3>3. Len(hashed[p]) \in Nat
      BY ContentIsSeq DEF IInv, TypeOK
    <3> QED
      BY <3>1, <3>2, <3>3, BoundAssumption DEF Partial
  <2> QED
    BY <1>1, <1>2, <2>1, <2>2 DEF IInv, TypeOK, Writing, Staged, Checkpoint
<1> QED
  BY <1>3, <1>4, <1>5, <1>6, <1>7 DEF IInv

(* RestartFromZero: DiscardSession and BeginStaging in one step. *)
LEMMA RestartFromZeroStep ==
  ASSUME IInv, NEW p \in Process, RestartFromZero(p),
         UNCHANGED powerLost
  PROVE  IInv'
<1> USE NoneAssumption DEF At, catalog
<1> DEFINE j == fd[p]
<1>1. PICK i \in Inode \ used :
         /\ used' = used \cup {i}
         /\ staging' = staging \cup {i}
         /\ stagingSynced' = staging'
         /\ fd' = [fd EXCEPT ![p] = i]
  BY DEF RestartFromZero
<1>2. /\ UNCHANGED <<content, quarantine, quarantineSynced, cas, casSynced, lock, catalog,
                     pc, item, mine>>
      /\ synced' = [synced EXCEPT ![j] = content[j]]
      /\ hashed' = [hashed EXCEPT ![p] = <<>>]
      /\ resume' = [resume EXCEPT ![p] = None]
      /\ pc[p] = "write"
      /\ Rows' \subseteq Rows
      /\ Sealed' = Sealed
  BY DEF IInv, TypeOK, RestartFromZero, Rows, Sealed, Published
<1>3. j \in Inode
  BY <1>2 DEF IInv, TypeOK, WriteInv, Writing
<1> HIDE DEF j
<1>4. content[j] \in Content /\ Len(content[j]) \in Nat /\ Len(synced[j]) \in Nat
  BY <1>3, ContentIsSeq DEF IInv, TypeOK
<1>5. content[j] = SubSeq(content[j], 1, Len(content[j]))
  BY <1>4, WholeContent
<1>6. TypeOK'
  BY <1>1, <1>2, <1>3, <1>4, EmptyIsContent DEF IInv, TypeOK
<1>7. LockInv' /\ ItemInv'
  BY <1>2 DEF IInv, LockInv, ItemInv
<1>8. FileInv'
  <2>1. \A k \in Inode : /\ Len(synced'[k]) <= Len(content'[k])
                         /\ synced'[k] = SubSeq(content'[k], 1, Len(synced'[k]))
                         /\ k \notin used' => content'[k] = <<>>
    BY <1>1, <1>2, <1>4, <1>5 DEF IInv, TypeOK, FileInv
  <2>2. Sealed' \subseteq used' /\ \A k \in Sealed' : synced'[k] = content'[k]
    BY <1>1, <1>2 DEF IInv, TypeOK, FileInv
  <2> QED
    BY <2>1, <2>2 DEF FileInv
<1>9. RowInv'
  <2> SUFFICES ASSUME NEW r \in Rows
               PROVE  /\ r.inode \in used' /\ r.inode \in stagingSynced'
                      /\ r.size <= Len(synced'[r.inode])
    BY <1>2 DEF IInv, RowInv
  <2>1. r \in Partial
    BY DEF IInv, TypeOK, Rows
  <2> QED
    BY <1>1, <1>2, <1>4, <2>1, BoundAssumption
    DEF IInv, TypeOK, FileInv, RowInv, DirInv, Partial
<1>10. DirInv'
  BY <1>1, <1>2 DEF IInv, DirInv
<1>11. WriteInv'
  <2> SUFFICES ASSUME NEW q \in Process, pc'[q] = "write" PROVE Writing(q)'
    BY DEF WriteInv
  <2>1. q = p
    BY <1>2, Exclusive DEF IInv, TypeOK, Locked
  <2> QED
    BY <1>1, <1>2, <2>1 DEF IInv, TypeOK, FileInv, RowInv, Writing
<1>12. DetachedInv' /\ SealingInv'
  BY <1>2, Exclusive DEF IInv, TypeOK, DetachedInv, SealingInv, Sealing, Locked
<1> QED
  BY <1>6, <1>7, <1>8, <1>9, <1>10, <1>11, <1>12 DEF IInv

(* SavePartial: the new row describes all of the forced file. *)
LEMMA SavePartialStep ==
  ASSUME IInv, NEW p \in Process, NEW label \in {"open", "ended"}, SavePartial(p, label),
         UNCHANGED powerLost
  PROVE  IInv'
<1> USE NoneAssumption DEF At, Goto, files, dirs
<1> DEFINE n == PartialState(p)
<1>1. /\ UNCHANGED <<content, synced, used, dirs, lock, item, hashed>>
      /\ partials' \subseteq partials \cup {n}
      /\ mine' = [mine EXCEPT ![p] = n] /\ resume' = [resume EXCEPT ![p] = n]
      /\ pc' = [pc EXCEPT ![p] = label] /\ pc[p] = "detached"
      /\ Sealed' = Sealed
  BY DEF SavePartial, Sealed, Published
<1>2. Rows' \subseteq Rows \cup {n}
  BY <1>1 DEF IInv, TypeOK, Rows
<1>3. Detached(p) /\ fd[p] \in Inode /\ item[p] \in Item
  BY <1>1 DEF IInv, TypeOK, DetachedInv, Detached, ItemInv
<1>4. hashed[p] \in Content /\ Len(hashed[p]) \in 0..MaxBytes
  BY ContentIsSeq DEF IInv, TypeOK
<1>5. n \in Partial
  BY <1>3, <1>4, DigestAssumption DEF PartialState, Partial
<1>6. /\ n.inode = fd[p] /\ n.size = Len(content[fd[p]])
      /\ n.sha256 = Sha256[SubSeq(content[fd[p]], 1, n.size)]
  BY <1>3, <1>4, WholeContent DEF PartialState, Detached
<1> HIDE DEF n
<1>7. TypeOK'
  BY <1>1, <1>5 DEF IInv, TypeOK, Locked, SavePartial
<1>8. LockInv' /\ ItemInv'
  BY <1>1 DEF IInv, TypeOK, LockInv, ItemInv, Locked
<1>9. FileInv' /\ DirInv'
  BY <1>1 DEF IInv, FileInv, DirInv
<1>10. RowInv'
  <2>1. n.size <= Len(synced[n.inode])
    BY <1>3, <1>5, <1>6, BoundAssumption DEF Detached, Partial
  <2> QED
    BY <1>1, <1>2, <1>3, <1>6, <2>1 DEF IInv, RowInv, Detached
<1>11. WriteInv' /\ DetachedInv' /\ SealingInv'
  BY <1>1, Exclusive DEF IInv, TypeOK, WriteInv, DetachedInv, SealingInv, Sealing, Locked
<1> QED
  BY <1>7, <1>8, <1>9, <1>10, <1>11 DEF IInv

-----------------------------------------------------------------------------
(* Steps that publish or quarantine *)

(* A staged file may be sealed: it is forced and longer than its rows. *)
LEMMA SealStep ==
  ASSUME IInv, NEW p \in Process, pc[p] \in Sealing,
         UNCHANGED <<content, synced, used, stagingSynced, lock, item, fd, hashed,
                     resume, mine, partials>>,
         Sealed' \subseteq Sealed \cup {fd[p]},
         NEW label \in Sealing, pc' = [pc EXCEPT ![p] = label]
  PROVE  /\ LockInv' /\ ItemInv' /\ FileInv' /\ RowInv'
         /\ WriteInv' /\ DetachedInv' /\ SealingInv'
<1>1. Rows' = Rows
  BY DEF Rows
<1>2. Staged(p) /\ pc[p] \in Locked
  BY DEF IInv, SealingInv, Sealing, Locked
<1>3. LockInv' /\ ItemInv'
  BY <1>2 DEF IInv, TypeOK, LockInv, ItemInv, Sealing, Locked
<1>4. FileInv' /\ RowInv'
  BY <1>1, <1>2 DEF IInv, FileInv, RowInv, Staged
<1>5. WriteInv' /\ DetachedInv'
  BY <1>2, Exclusive DEF IInv, TypeOK, WriteInv, DetachedInv, Sealing, Locked
<1>6. SealingInv'
  BY <1>1 DEF IInv, TypeOK, SealingInv, Staged
<1> QED
  BY <1>3, <1>4, <1>5, <1>6

(* PublishNew: the entry is created under the digest of the forced bytes. *)
LEMMA PublishNewStep ==
  ASSUME IInv, NEW p \in Process, PublishNew(p),
         UNCHANGED powerLost
  PROVE  IInv'
<1> USE NoneAssumption DEF At, Goto, files, catalog, session
<1>1. Staged(p) /\ fd[p] \in Inode
  BY DEF IInv, TypeOK, SealingInv, Sealing, Staged, PublishNew
<1>2. Sealed' \subseteq Sealed \cup {fd[p]}
  BY DEF IInv, TypeOK, Sealed, Published, PublishNew
<1>3. TypeOK'
  BY <1>1 DEF IInv, TypeOK, Locked, PublishNew
<1>4. DirInv'
  BY <1>1, DigestAssumption DEF IInv, TypeOK, DirInv, PublishNew
<1> QED
  BY <1>2, <1>3, <1>4, SealStep DEF IInv, Sealing, PublishNew

(* SyncPublished: the entry is forced. *)
LEMMA SyncPublishedStep ==
  ASSUME IInv, NEW p \in Process, SyncPublished(p),
         UNCHANGED powerLost
  PROVE  IInv'
<1> USE NoneAssumption DEF At, Goto, files, catalog, session
<1>1. Sealed' = Sealed
  BY DEF Sealed, Published, SyncPublished
<1>2. TypeOK'
  BY DigestAssumption DEF IInv, TypeOK, Locked, SyncPublished
<1>3. DirInv'
  BY DEF IInv, TypeOK, DirInv, SyncPublished
<1> QED
  BY <1>1, <1>2, <1>3, SealStep DEF IInv, Sealing, SyncPublished

(* QuarantineLink: the staged inode gets a quarantine name. *)
LEMMA QuarantineLinkStep ==
  ASSUME IInv, NEW p \in Process, QuarantineLink(p),
         UNCHANGED powerLost
  PROVE  IInv'
<1> USE NoneAssumption DEF At, Goto, files, catalog, session
<1>1. Staged(p)
  BY DEF IInv, SealingInv, Sealing, QuarantineLink
<1>2. Sealed' \subseteq Sealed \cup {fd[p]}
  BY DEF Sealed, Published, QuarantineLink
<1>3. TypeOK'
  BY <1>1 DEF IInv, TypeOK, Locked, Staged, QuarantineLink
<1>4. DirInv'
  BY DEF IInv, DirInv, QuarantineLink
<1> QED
  BY <1>2, <1>3, <1>4, SealStep DEF IInv, Sealing, QuarantineLink

(* QuarantineSync: the quarantine directory is forced. *)
LEMMA QuarantineSyncStep ==
  ASSUME IInv, NEW p \in Process, QuarantineSync(p),
         UNCHANGED powerLost
  PROVE  IInv'
<1> USE NoneAssumption DEF At, Goto, files, catalog, session
<1>1. Sealed' = Sealed
  BY DEF Sealed, Published, QuarantineSync
<1>2. TypeOK'
  BY DEF IInv, TypeOK, Locked, QuarantineSync
<1>3. DirInv'
  BY DEF IInv, DirInv, QuarantineSync
<1> QED
  BY <1>1, <1>2, <1>3, SealStep DEF IInv, Sealing, QuarantineSync

-----------------------------------------------------------------------------
(* A power loss cuts every file to some prefix that contains the forced    *)
(* bytes, and takes entries away; a sealed file has nothing to lose.       *)
LEMMA PowerLossStep ==
  ASSUME IInv, PowerLoss
  PROVE  IInv'
<1> USE NoneAssumption DEF catalog
<1>1. PICK kept \in [Inode -> 0..MaxBytes] :
         /\ \A i \in Inode : Len(synced[i]) <= kept[i] /\ kept[i] <= Len(content[i])
         /\ content' = [i \in Inode |-> SubSeq(content[i], 1, kept[i])]
  BY DEF PowerLoss
<1>2. ASSUME NEW i \in Inode
      PROVE  /\ content'[i] \in Content
             /\ Len(content'[i]) = kept[i]
             /\ content'[i] = SubSeq(content[i], 1, kept[i])
             /\ \A k \in 0..kept[i] : SubSeq(content'[i], 1, k) = SubSeq(content[i], 1, k)
             /\ synced[i] = content[i] => content'[i] = content[i]
  <2>1. content[i] \in Content /\ Len(content[i]) \in Nat
    BY ContentIsSeq DEF IInv, TypeOK
  <2>2. kept[i] \in 0..Len(content[i])
    BY <1>1, <2>1, BoundAssumption
  <2>3. content'[i] = SubSeq(content[i], 1, kept[i])
    BY <1>1
  <2>4. synced[i] = content[i] => kept[i] = Len(content[i])
    BY <1>1, <2>1, <2>2
  <2> QED
    BY <2>1, <2>2, <2>3, <2>4, PrefixContent, WholeContent
<1>3. /\ synced' = content' /\ used' = used /\ partials' = partials
      /\ stagingSynced \subseteq staging' /\ staging' \subseteq staging \cup stagingSynced
      /\ stagingSynced' = staging'
      /\ quarantineSynced \subseteq quarantine' /\ quarantineSynced' = quarantine'
      /\ quarantine' \subseteq quarantine \cup quarantineSynced
      /\ casSynced' = cas' /\ lock' = None
      /\ \A p \in Process : pc'[p] = "idle"
  BY DEF PowerLoss
<1>4. PICK names \in SUBSET {d \in Digest : cas[d] # casSynced[d]} :
         cas' = [d \in Digest |-> IF d \in names THEN cas[d] ELSE casSynced[d]]
  BY DEF PowerLoss
<1>5. \A d \in Digest : cas'[d] \in {cas[d], None}
  BY <1>4 DEF IInv, DirInv
<1>6. TypeOK'
  <2>1. content' \in [Inode -> Content]
    BY <1>1, <1>2
  <2>2. cas' \in [Digest -> Inode \cup {None}]
    BY <1>4 DEF IInv, TypeOK
  <2> QED
    BY <1>3, <2>1, <2>2, EmptyIsContent DEF IInv, TypeOK, PowerLoss
<1>7. Rows' \subseteq Rows
  BY DEF PowerLoss, Rows
<1>8. Published' \subseteq Published
  BY <1>5 DEF Published
<1>9. LockInv' /\ ItemInv' /\ WriteInv' /\ DetachedInv' /\ SealingInv'
  BY <1>3 DEF LockInv, ItemInv, WriteInv, DetachedInv, SealingInv, Sealing, Locked
<1>10. Sealed' \subseteq Sealed
  BY <1>3, <1>8 DEF IInv, DirInv, Sealed
<1>11. FileInv'
  <2>1. \A i \in Inode : synced'[i] = SubSeq(content'[i], 1, Len(synced'[i]))
    BY <1>2, <1>3, WholeContent
  <2>2. \A i \in Inode : Len(synced'[i]) <= Len(content'[i])
    BY <1>2, <1>3
  <2>3. \A i \in Inode : i \notin used' => content'[i] = <<>>
    <3> SUFFICES ASSUME NEW i \in Inode, i \notin used PROVE content'[i] = <<>>
      BY <1>3
    <3>1. content[i] = <<>> /\ Len(synced[i]) <= 0 /\ Len(synced[i]) \in Nat
      BY EmptyIsContent, ContentIsSeq DEF IInv, TypeOK, FileInv
    <3>2. synced[i] = SubSeq(content[i], 1, 0)
      BY <3>1 DEF IInv, FileInv
    <3>3. synced[i] = content[i]
      BY <3>1, <3>2, EmptyIsContent, WholeContent
    <3> QED
      BY <1>2, <3>1, <3>3
  <2> QED
    BY <1>3, <1>10, <2>1, <2>2, <2>3 DEF IInv, FileInv
<1>12. RowInv'
  <2> SUFFICES ASSUME NEW r \in Rows
               PROVE  /\ r.inode \in used' /\ r.inode \in stagingSynced'
                      /\ r.size <= Len(synced'[r.inode])
                      /\ Sha256[SubSeq(content'[r.inode], 1, r.size)] = r.sha256
                      /\ r.inode \in Sealed => r.size < Len(content'[r.inode])
    BY <1>7, <1>10 DEF RowInv
  <2>1. r \in Partial /\ r.inode \in Inode
    BY DEF IInv, TypeOK, Rows, Partial
  <2>2. r.size \in 0..kept[r.inode]
    <3>1. Len(synced[r.inode]) \in Nat
      BY <2>1, ContentIsSeq DEF IInv, TypeOK
    <3> QED
      BY <1>1, <2>1, <3>1, BoundAssumption DEF IInv, RowInv, Partial
  <2>3. Sha256[SubSeq(content'[r.inode], 1, r.size)] = r.sha256
    BY <1>2, <2>1, <2>2 DEF IInv, RowInv
  <2>4. r.size <= Len(synced'[r.inode])
    BY <1>1, <1>2, <1>3, <2>1, <2>2, BoundAssumption
  <2>5. r.inode \in Sealed => r.size < Len(content'[r.inode])
    BY <1>2, <2>1 DEF IInv, FileInv, RowInv
  <2> QED
    BY <1>3, <2>3, <2>4, <2>5 DEF IInv, RowInv, DirInv
<1>13. DirInv'
  <2> SUFFICES ASSUME NEW d \in Digest, cas'[d] # None PROVE Sha256[content'[cas'[d]]] = d
    BY <1>3 DEF DirInv
  <2>1. cas'[d] = cas[d] /\ cas[d] \in Sealed /\ cas[d] \in Inode
    BY <1>5 DEF IInv, TypeOK, Sealed, Published
  <2>2. synced[cas[d]] = content[cas[d]] /\ Sha256[content[cas[d]]] = d
    BY <2>1 DEF IInv, FileInv, DirInv
  <2>3. content'[cas[d]] = content[cas[d]]
    BY <1>2, <2>1, <2>2
  <2> QED
    BY <2>1, <2>2, <2>3
<1> QED
  BY <1>6, <1>9, <1>11, <1>12, <1>13 DEF IInv

-----------------------------------------------------------------------------
(* Theorems *)

(* Every step of the system keeps the storage invariant: one case per      *)
(* action of execute(), of the transfer and of the publication, crashes    *)
(* and power losses included.                                              *)
THEOREM StepKeepsIInv == IInv /\ [Next]_vars => IInv'
<1> SUFFICES ASSUME IInv, [Next]_vars PROVE IInv'
  OBVIOUS
<1>1. CASE UNCHANGED vars
  BY <1>1 DEF vars, files, dirs, catalog, session, IInv, TypeOK, LockInv, FileInv, RowInv,
              DirInv, WriteInv, Writing, DetachedInv, Detached, SealingInv, Staged, ItemInv,
              Rows, Sealed, Published
<1>2. CASE PowerLoss
  BY <1>2, PowerLossStep
<1>3. ASSUME NEW p \in Process, Execute(p) \/ Transfer(p) \/ Publish(p) \/ Crash(p),
             UNCHANGED powerLost
      PROVE  IInv'
  <2>1. CASE QuietStep(p)
    BY <1>3, <2>1, QuietStepInv
  <2>2. CASE Reconcile(p)
    BY <1>3, <2>2, ReconcileStep
  <2>3. CASE BeginStaging(p) \/ ReopenStaging(p) \/ RestartFromZero(p)
    BY <1>3, <2>3, BeginStagingStep, ReopenStagingStep, RestartFromZeroStep
  <2>4. CASE \E c \in Chunk : Write(p, c)
    BY <1>3, <2>4, WriteStep
  <2>5. CASE Detach(p) \/ Finalize(p)
    BY <1>3, <2>5, DetachStep, FinalizeStep
  <2>6. CASE \E label \in {"open", "ended"} : SavePartial(p, label) \/ DiscardSession(p, label)
    BY <1>3, <2>6, SavePartialStep, DiscardSessionStep
  <2>7. CASE PublishNew(p) \/ SyncPublished(p)
    BY <1>3, <2>7, PublishNewStep, SyncPublishedStep
  <2>8. CASE QuarantineLink(p) \/ QuarantineSync(p)
    BY <1>3, <2>8, QuarantineLinkStep, QuarantineSyncStep
  <2> QED
    BY <1>3, <2>1, <2>2, <2>3, <2>4, <2>5, <2>6, <2>7, <2>8
    DEF Execute, Transfer, Publish, QuietStep
<1> QED
  BY <1>1, <1>2, <1>3 DEF Next

(* An empty managed root satisfies the storage invariant. *)
LEMMA InitIInv == Init => IInv
<1> SUFFICES ASSUME Init PROVE IInv
  OBVIOUS
<1> USE NoneAssumption DEF Init
<1>1. TypeOK
  BY EmptyIsContent DEF TypeOK
<1>2. Rows = {} /\ Sealed = {}
  BY DEF Rows, Sealed, Published
<1>3. FileInv
  <2>1. <<>> = SubSeq(<<>>, 1, Len(<<>>))
    BY EmptyIsContent, WholeContent
  <2> QED
    BY <1>2, <2>1, EmptyIsContent DEF FileInv
<1>4. LockInv /\ WriteInv /\ DetachedInv /\ SealingInv /\ ItemInv
  BY DEF LockInv, WriteInv, DetachedInv, SealingInv, Sealing, ItemInv, Locked
<1>5. RowInv /\ DirInv
  BY <1>2 DEF RowInv, DirInv
<1> QED
  BY <1>1, <1>3, <1>4, <1>5 DEF IInv

(* The storage invariant holds in every reachable state. *)
THEOREM StorageInvariant == Spec => []IInv
BY InitIInv, StepKeepsIInv, PTL DEF Spec

(* Every variable of the managed root, the catalog rows and the processes  *)
(* keeps its type, whatever the crashes and power losses.                  *)
THEOREM TypeCorrect == Spec => []TypeOK
<1>1. IInv => TypeOK
  BY DEF IInv
<1> QED
  BY <1>1, StorageInvariant, PTL

(* A CAS entry always holds the bytes its name digests, forced to disk.    *)
THEOREM CasIntegrityHolds == Spec => []CasIntegrity
<1>1. IInv => CasIntegrity
  BY NoneAssumption DEF IInv, TypeOK, DirInv, FileInv, Sealed, Published, CasIntegrity
<1> QED
  BY <1>1, StorageInvariant, PTL

(* No session ever appends to an inode that is published or quarantined.   *)
THEOREM NoWriterOnPublishedHolds == Spec => []NoWriterOnPublished
<1>1. IInv => NoWriterOnPublished
  BY DEF IInv, WriteInv, Writing, Sealed, NoWriterOnPublished
<1> QED
  BY <1>1, StorageInvariant, PTL

(* The prefix an active partial row records is on disk under its name.     *)
THEOREM PartialPrefixDurableHolds == Spec => []PartialPrefixDurable
<1>1. IInv => PartialPrefixDurable
  <2> SUFFICES ASSUME IInv, NEW r \in partials
               PROVE  /\ r.inode \in stagingSynced
                      /\ r.size <= Len(synced[r.inode])
                      /\ Sha256[SubSeq(synced[r.inode], 1, r.size)] = r.sha256
    BY DEF PartialPrefixDurable
  <2>1. r \in Partial /\ r.inode \in Inode /\ r \in Rows
    BY NoneAssumption DEF IInv, TypeOK, Partial, Rows
  <2>2. /\ content[r.inode] \in Content
        /\ Len(synced[r.inode]) \in 0..Len(content[r.inode])
        /\ r.size \in 0..Len(synced[r.inode])
    <3>1. Len(synced[r.inode]) \in Nat /\ Len(content[r.inode]) \in Nat
      BY <2>1, ContentIsSeq DEF IInv, TypeOK
    <3> QED
      BY <2>1, <3>1, BoundAssumption DEF IInv, TypeOK, FileInv, RowInv, Partial
  <2>3. SubSeq(synced[r.inode], 1, r.size) = SubSeq(content[r.inode], 1, r.size)
    <3>1. synced[r.inode] = SubSeq(content[r.inode], 1, Len(synced[r.inode]))
      BY <2>1 DEF IInv, FileInv
    <3> HIDE DEF IInv
    <3>2. \A c \in Content : \A n \in 0..Len(c) : \A k \in 0..n :
             SubSeq(SubSeq(c, 1, n), 1, k) = SubSeq(c, 1, k)
      BY PrefixContent
    <3> QED
      BY <2>2, <3>1, <3>2
  <2> QED
    BY <2>1, <2>3 DEF IInv, RowInv
<1> QED
  BY <1>1, StorageInvariant, PTL

-----------------------------------------------------------------------------
(* Links, and the write-once store                                         *)

(* The digest on its way to the catalog contradicts no claim of the item,  *)
(* and has its CAS entry before it is linked.                              *)
LinkInv ==
    /\ LinkedIsVerified
    /\ \A p \in Process :
          /\ pc[p] \in {"publish", "sync", "persist", "settle"} =>
                Sha256[hashed[p]] \in Accepted[item[p]]
          /\ pc[p] = "persist" => cas[Sha256[hashed[p]]] # None

(* A step of a process that neither writes, publishes nor links.           *)
Rests == UNCHANGED <<content, cas, locations, linked>>

(* A process other than the one that moves stands where it stood. *)
OthersRest(p) ==
    \A q \in Process \ {p} : pc'[q] = pc[q] /\ item'[q] = item[q] /\ hashed'[q] = hashed[q]

(* A step is of one process, and three of its steps publish or write. *)
LEMMA WhoMoves ==
  ASSUME IInv, NEW p \in Process, Execute(p) \/ Transfer(p) \/ Publish(p) \/ Crash(p)
  PROVE  /\ OthersRest(p)
         /\ \/ Rests \/ PublishNew(p) \/ PersistAsset(p)
            \/ \E c \in Chunk : Write(p, c)
<1> USE DEF Goto, Leave, files, dirs, catalog, session, Checkpoint, OthersRest, Rests
<1>1. /\ pc \in [Process -> Locked \cup {"idle", "locking"}]
      /\ item \in [Process -> Item \cup {None}] /\ hashed \in [Process -> Content]
  BY DEF IInv, TypeOK
<1>2. CASE Execute(p) \/ Crash(p)
  BY <1>1, <1>2 DEF Execute, Crash, Invoke, AcquireLock, LockRefused, AlreadySatisfied, Reconcile,
     MustDownload, ReleaseLock
<1>3. CASE Transfer(p)
  BY <1>1, <1>3 DEF Transfer, ClaimResume, ClaimConflict, BeginStaging, ReopenStaging, OpenFails,
     Write, RestartFromZero, Detach, DropSuperseded, SavePartial, DiscardSession, Finalize,
     ConsumePartial, EndIncomplete
<1>4. CASE Publish(p)
  BY <1>1, <1>4 DEF Publish, RecordEvidence, InspectionFails, PublishNew, SyncPublished,
     PublishReuse, PersistAsset, SettleItem, QuarantineLink, QuarantineSync, RecordQuarantine,
     QuarantineNotRetained
<1> QED
  BY <1>2, <1>3, <1>4

(* A process never takes an entry away. *)
LEMMA EntriesStay ==
  ASSUME IInv, NEW p \in Process, Rests \/ PublishNew(p) \/ PersistAsset(p)
                                  \/ \E c \in Chunk : Write(p, c)
  PROVE  \A d \in Digest : cas[d] # None => cas'[d] # None
<1>1. CASE PublishNew(p)
  <2>1. fd[p] \in Inode /\ fd[p] # None
    BY <1>1, NoneAssumption DEF IInv, TypeOK, SealingInv, Sealing, Staged, PublishNew, At
  <2> QED
    BY <1>1, <2>1 DEF PublishNew, IInv, TypeOK
<1>2. CASE ~ PublishNew(p)
  BY <1>2 DEF Rests, PersistAsset, Write, dirs
<1> QED
  BY <1>1, <1>2

(* What a process that moves knows of its digest afterwards. *)
LEMMA OwnLink ==
  ASSUME IInv, LinkInv, NEW p \in Process,
         Execute(p) \/ Transfer(p) \/ Publish(p) \/ Crash(p)
  PROVE  /\ pc'[p] \in {"publish", "sync", "persist", "settle"} =>
               Sha256[hashed'[p]] \in Accepted[item'[p]]
         /\ pc'[p] = "persist" => cas'[Sha256[hashed'[p]]] # None
<1> USE DEF Goto, Leave, files, dirs, catalog, session, At
<1>1. pc \in [Process -> Locked \cup {"idle", "locking"}]
  BY DEF IInv, TypeOK
<1>2. CASE Execute(p) \/ Crash(p)
  BY <1>1, <1>2 DEF Execute, Crash, Invoke, AcquireLock, LockRefused, AlreadySatisfied, Reconcile,
     MustDownload, ReleaseLock
<1>3. CASE Transfer(p)
  BY <1>1, <1>3 DEF Transfer, ClaimResume, ClaimConflict, BeginStaging, ReopenStaging, OpenFails,
     Write, RestartFromZero, Detach, DropSuperseded, SavePartial, DiscardSession, Finalize,
     ConsumePartial, EndIncomplete
<1>4. CASE RecordEvidence(p)
  BY <1>1, <1>4 DEF RecordEvidence
<1>5. CASE PublishNew(p)
  BY <1>1, <1>5 DEF PublishNew, LinkInv
<1>6. CASE SyncPublished(p)
  <2>1. fd[p] \in Inode /\ fd[p] # None
    BY <1>6, NoneAssumption DEF IInv, TypeOK, SealingInv, Sealing, Staged, SyncPublished
  <2> QED
    BY <1>1, <1>6, <2>1 DEF SyncPublished, LinkInv
<1>7. CASE PublishReuse(p)
  BY <1>1, <1>7 DEF PublishReuse, LinkInv
<1>8. CASE PersistAsset(p)
  BY <1>1, <1>8 DEF PersistAsset, LinkInv
<1>9. CASE InspectionFails(p) \/ SettleItem(p) \/ QuarantineLink(p) \/ QuarantineSync(p)
           \/ RecordQuarantine(p) \/ QuarantineNotRetained(p)
  BY <1>1, <1>9 DEF InspectionFails, SettleItem, QuarantineLink, QuarantineSync, RecordQuarantine,
     QuarantineNotRetained
<1> QED
  BY <1>2, <1>3, <1>4, <1>5, <1>6, <1>7, <1>8, <1>9 DEF Publish

(* Evidence comes before the link, whichever process takes the step; after *)
(* a power loss no process is on its way.                                  *)
LEMMA LinkStep ==
  ASSUME IInv, LinkInv, [Next]_vars
  PROVE  LinkInv'
<1>1. CASE UNCHANGED vars
  BY <1>1 DEF vars, files, dirs, catalog, session, LinkInv, LinkedIsVerified
<1>2. ASSUME NEW p \in Process, Execute(p) \/ Transfer(p) \/ Publish(p) \/ Crash(p),
             UNCHANGED powerLost
      PROVE  LinkInv'
  <2>1. /\ OthersRest(p)
        /\ Rests \/ PublishNew(p) \/ PersistAsset(p) \/ \E c \in Chunk : Write(p, c)
    BY <1>2, WhoMoves
  <2>2. \A d \in Digest : cas[d] # None => cas'[d] # None
    BY <2>1, EntriesStay
  <2>3. /\ pc'[p] \in {"publish", "sync", "persist", "settle"} =>
               Sha256[hashed'[p]] \in Accepted[item'[p]]
        /\ pc'[p] = "persist" => cas'[Sha256[hashed'[p]]] # None
    BY <1>2, OwnLink
  <2>4. \A q \in Process : Sha256[hashed[q]] \in Digest
    BY DigestAssumption DEF IInv, TypeOK
  <2>5. LinkedIsVerified'
    <3>1. CASE PersistAsset(p)
      <4>1. /\ item[p] \in Item /\ Sha256[hashed[p]] \in Accepted[item[p]]
            /\ cas[Sha256[hashed[p]]] # None
        BY <3>1 DEF PersistAsset, At, IInv, ItemInv, LinkInv
      <4> QED
        BY <1>2, <3>1, <4>1
           DEF PersistAsset, files, dirs, LinkInv, LinkedIsVerified, IInv, TypeOK
    <3>2. CASE UNCHANGED linked
      BY <1>2, <2>2, <3>2 DEF LinkInv, LinkedIsVerified, IInv, TypeOK
    <3> QED
      BY <2>1, <3>1, <3>2 DEF Rests, PublishNew, Write, catalog
  <2> QED
    BY <2>1, <2>2, <2>3, <2>4, <2>5 DEF LinkInv, OthersRest
<1>3. CASE PowerLoss
  <2>1. linked' = linked /\ powerLost' = TRUE /\ \A p \in Process : pc'[p] = "idle"
    BY <1>3 DEF PowerLoss, catalog
  <2> QED
    BY <2>1 DEF LinkInv, LinkedIsVerified
<1> QED
  BY <1>1, <1>2, <1>3 DEF Next

(* Whatever is linked has evidence. *)
LEMMA LinkInvariant == Spec => []LinkInv
<1>1. Init => LinkInv
  BY DEF Init, LinkInv, LinkedIsVerified
<1>2. IInv /\ LinkInv /\ [Next]_vars => LinkInv'
  BY LinkStep
<1> QED
  BY <1>1, <1>2, StorageInvariant, PTL DEF Spec

(* An occurrence is linked only to bytes that the claims of its item allow *)
(* and that are in the CAS, whatever processes die; only after a power     *)
(* loss may they be missing there.                                         *)
THEOREM LinkedIsVerifiedHolds == Spec => []LinkedIsVerified
<1>1. LinkInv => LinkedIsVerified
  BY DEF LinkInv
<1> QED
  BY <1>1, LinkInvariant, PTL

(* A step of the managed root is a step of the write-once store: the link  *)
(* of new bytes is its Put, the catalog's location its Refer, and all else *)
(* changes nothing in it, a power loss excepted.                           *)
LEMMA StoreStep ==
  ASSUME IInv, LinkInv, [Next]_vars
  PROVE  Abstract!Next \/ PowerLoss \/ UNCHANGED <<StoredBytes, locations>>
<1>1. ASSUME UNCHANGED <<content, cas, locations>>
      PROVE  UNCHANGED <<StoredBytes, locations>>
  BY <1>1 DEF StoredBytes
<1>2. ASSUME NEW p \in Process, PublishNew(p) PROVE Abstract!Next
  <2>1. /\ hashed[p] \in Content /\ Sha256[hashed[p]] \in Digest /\ content[fd[p]] = hashed[p]
        /\ fd[p] \in Inode /\ fd[p] # None
    BY <1>2, DigestAssumption, NoneAssumption
       DEF IInv, TypeOK, SealingInv, Sealing, Staged, PublishNew, At
  <2>2. /\ cas[Sha256[hashed[p]]] = None /\ cas' = [cas EXCEPT ![Sha256[hashed[p]]] = fd[p]]
        /\ UNCHANGED <<content, locations>>
    BY <1>2 DEF PublishNew, files, catalog
  <2>3. StoredBytes' = [StoredBytes EXCEPT ![Sha256[hashed[p]]] = hashed[p]]
    BY <2>1, <2>2 DEF StoredBytes, IInv, TypeOK
  <2>4. StoredBytes[Sha256[hashed[p]]] = None
    BY <2>1, <2>2 DEF StoredBytes
  <2>5. Abstract!Put(hashed[p])
    BY <2>2, <2>3, <2>4 DEF Abstract!Put
  <2> QED
    BY <2>1, <2>5 DEF Abstract!Next
<1>3. ASSUME NEW p \in Process, PersistAsset(p) PROVE Abstract!Next
  <2>1. Sha256[hashed[p]] \in Digest /\ cas[Sha256[hashed[p]]] # None
    BY <1>3, DigestAssumption DEF IInv, TypeOK, LinkInv, PersistAsset, At
  <2>2. /\ UNCHANGED <<content, cas>> /\ locations' = locations \cup {Sha256[hashed[p]]}
    BY <1>3 DEF PersistAsset, files, dirs
  <2>3. content[cas[Sha256[hashed[p]]]] \in Content
    BY <2>1 DEF IInv, TypeOK
  <2>4. StoredBytes[Sha256[hashed[p]]] # None /\ UNCHANGED StoredBytes
    BY <2>1, <2>2, <2>3, NoneAssumption DEF StoredBytes
  <2>5. Abstract!Refer(Sha256[hashed[p]])
    BY <2>2, <2>4 DEF Abstract!Refer
  <2> QED
    BY <2>1, <2>5 DEF Abstract!Next
<1>4. ASSUME NEW p \in Process, NEW c \in Chunk, Write(p, c)
      PROVE  UNCHANGED <<StoredBytes, locations>>
  <2>1. fd[p] \notin Published /\ UNCHANGED <<cas, locations>>
        /\ \A i \in Inode : i # fd[p] => content'[i] = content[i]
    BY <1>4 DEF Write, At, dirs, catalog, IInv, TypeOK, WriteInv, Writing, Sealed
  <2>2. \A d \in Digest : cas[d] # None => content'[cas[d]] = content[cas[d]]
    BY <2>1 DEF Published, IInv, TypeOK
  <2> QED
    BY <2>1, <2>2 DEF StoredBytes
<1>5. CASE UNCHANGED vars
  BY <1>1, <1>5 DEF vars, files, dirs, catalog
<1>6. ASSUME NEW p \in Process, Execute(p) \/ Transfer(p) \/ Publish(p) \/ Crash(p)
      PROVE  Abstract!Next \/ UNCHANGED <<StoredBytes, locations>>
  <2>1. Rests \/ PublishNew(p) \/ PersistAsset(p) \/ \E c \in Chunk : Write(p, c)
    BY <1>6, WhoMoves
  <2>2. CASE Rests
    BY <1>1, <2>2 DEF Rests
  <2> QED
    BY <1>2, <1>3, <1>4, <2>1, <2>2, Zenon
<1> QED
  BY <1>5, <1>6 DEF Next

(* The managed root and the locations of the catalog implement the         *)
(* write-once store in every step but the power losses, whatever processes *)
(* die.                                                                    *)
THEOREM ImplementsStore == Spec => ImplementsContentStore
<1>1. Init => Abstract!Init
  BY DEF Init, Abstract!Init, StoredBytes
<1>2. IInv /\ LinkInv /\ [Next]_vars =>
         [Abstract!Next \/ PowerLoss]_<<StoredBytes, locations>>
  BY StoreStep
<1> QED
  BY <1>1, <1>2, StorageInvariant, LinkInvariant, PTL DEF Spec, ImplementsContentStore

=============================================================================
