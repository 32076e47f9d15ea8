----------------------------- MODULE ManagedCas -----------------------------
(***************************************************************************)
(* The managed root of media_catalog as one acquisition uses it: the       *)
(* staging, quarantine and sha256 directories of storage/cas.py, the lock  *)
(* that serialises its writers, the partial-transfer rows of the catalog   *)
(* and the transactions of acquisition/publication.py around the CAS link. *)
(*                                                                         *)
(* A file is an inode with the bytes every process sees (content) and the  *)
(* bytes an fsync has forced to the disk (synced).  A directory is the     *)
(* entries every process sees and the entries an fsync of the directory    *)
(* has forced.  A process crash loses descriptors and the lock; a power    *)
(* loss also loses what was never forced.  Catalog transactions are        *)
(* durable (SQLite in WAL mode with its default synchronous setting).      *)
(*                                                                         *)
(* A staging name is allocated once, for one inode, and never unlinked     *)
(* (cas.py keeps the hard-link residue), so the staging directory is the   *)
(* set of inodes that have a name in it.                                   *)
(***************************************************************************)
EXTENDS Naturals, Sequences

CONSTANTS
    Process,            \* processes that execute or retry an acquisition
    Inode,              \* files of the managed root; bounds how many are created
    Item,               \* acquisition plan items
    Chunk,              \* the blocks of bytes a response delivers
    MaxBytes,           \* InspectionLimits.max_bytes, in chunks
    Digest,             \* SHA-256 values
    Sha256,             \* the digest of every byte string
    Accepted,           \* per item, the digests its declared claims do not contradict
    None                \* no inode, process, digest, item or row

(* The byte strings that fit the configured limit. *)
Content == UNION {[1..n -> Chunk] : n \in 0..MaxBytes}

ASSUME BoundAssumption == MaxBytes \in Nat

(* SHA-256 is taken to be collision free. *)
ASSUME DigestAssumption ==
    /\ Sha256 \in [Content -> Digest]
    /\ \A c1, c2 \in Content : Sha256[c1] = Sha256[c2] => c1 = c2

ASSUME ClaimAssumption == Accepted \in [Item -> SUBSET Digest]

ASSUME NoneAssumption ==
    /\ None \notin Inode
    /\ None \notin Process
    /\ None \notin Digest
    /\ None \notin Item
    /\ None \notin Content
    /\ None \notin [inode : Inode, item : Item, size : 0..MaxBytes, sha256 : Digest]

VARIABLES
    content,            \* bytes of each inode as every process sees them
    synced,             \* bytes of each inode forced by fsync(file)
    used,               \* inodes allocated so far
    staging,            \* inodes with a name under staging/
    stagingSynced,
    quarantine,         \* inodes with a name under quarantine/
    quarantineSynced,
    cas,                \* the inode under each sha256/ab/cd/<digest>, or None
    casSynced,
    lock                \* the process that holds .adoption.lock, or None

VARIABLES
    partials,           \* media_acquisition_partials rows in state 'active'
    evidence,           \* per item, the digest of its latest row without an asset
    linked,             \* per item, the asset linked to its occurrence
    complete,           \* items with a complete or satisfied run item
    locations,          \* digests with a managed asset location
    quarantined         \* inodes with a media_acquisition_quarantine row

VARIABLES
    pc,                 \* where each process stands in execute()
    item,               \* the plan item it works on
    fd,                 \* the inode of its staging descriptor
    hashed,             \* the bytes its running SHA-256 has absorbed
    resume,             \* the ResumeState its next attempt starts from
    mine                \* the row its _DurableTransferState tracks

VARIABLE powerLost      \* history: the machine, and not only a process, has stopped

files == <<content, synced, used>>
dirs == <<staging, stagingSynced, quarantine, quarantineSynced, cas, casSynced>>
catalog == <<partials, evidence, linked, complete, locations, quarantined>>
session == <<item, fd, hashed, resume, mine>>
vars == <<files, dirs, lock, catalog, pc, session, powerLost>>

(* A row of media_acquisition_partials: byte_count and prefix hash. *)
Partial == [inode : Inode, item : Item, size : 0..MaxBytes, sha256 : Digest]

(* The points of execute() at which the process holds the root lock. *)
Locked == {"start", "claim", "open", "write", "detached", "ended", "staged",
           "verify", "publish", "sync", "quarantine", "qsync", "qrecord",
           "persist", "settle", "release"}

TypeOK ==
    /\ content \in [Inode -> Content]
    /\ synced \in [Inode -> Content]
    /\ used \subseteq Inode
    /\ staging \subseteq Inode
    /\ stagingSynced \subseteq Inode
    /\ quarantine \subseteq Inode
    /\ quarantineSynced \subseteq Inode
    /\ cas \in [Digest -> Inode \cup {None}]
    /\ casSynced \in [Digest -> Inode \cup {None}]
    /\ lock \in Process \cup {None}
    /\ partials \subseteq Partial
    /\ evidence \in [Item -> Digest \cup {None}]
    /\ linked \in [Item -> Digest \cup {None}]
    /\ complete \subseteq Item
    /\ locations \subseteq Digest
    /\ quarantined \subseteq Inode
    /\ pc \in [Process -> Locked \cup {"idle", "locking"}]
    /\ item \in [Process -> Item \cup {None}]
    /\ fd \in [Process -> Inode \cup {None}]
    /\ hashed \in [Process -> Content]
    /\ resume \in [Process -> Partial \cup {None}]
    /\ mine \in [Process -> Partial \cup {None}]
    /\ powerLost \in BOOLEAN

Init ==
    /\ content = [i \in Inode |-> <<>>]
    /\ synced = [i \in Inode |-> <<>>]
    /\ used = {}
    /\ staging = {} /\ stagingSynced = {}
    /\ quarantine = {} /\ quarantineSynced = {}
    /\ cas = [d \in Digest |-> None]
    /\ casSynced = [d \in Digest |-> None]
    /\ lock = None
    /\ partials = {}
    /\ evidence = [i \in Item |-> None]
    /\ linked = [i \in Item |-> None]
    /\ complete = {} /\ locations = {} /\ quarantined = {}
    /\ pc = [p \in Process |-> "idle"]
    /\ item = [p \in Process |-> None]
    /\ fd = [p \in Process |-> None]
    /\ hashed = [p \in Process |-> <<>>]
    /\ resume = [p \in Process |-> None]
    /\ mine = [p \in Process |-> None]
    /\ powerLost = FALSE

-----------------------------------------------------------------------------
(* Helpers *)

Goto(p, label) == pc' = [pc EXCEPT ![p] = label]

At(p, label) == pc[p] = label

(* fsync of the staged file and of the staging directory, as every         *)
(* checkpoint of a RemoteStagingSession performs them.                     *)
Checkpoint(i) ==
    /\ synced' = [synced EXCEPT ![i] = content[i]]
    /\ stagingSynced' = staging

(* The row a detached session hands to the catalog. *)
PartialState(p) ==
    [inode |-> fd[p], item |-> item[p], size |-> Len(hashed[p]), sha256 |-> Sha256[hashed[p]]]

(* Mutant: only the recorded prefix is compared, not the whole file. *)
PrefixMatchesIgnoringTail(r) ==
    /\ r.inode \in staging
    /\ r.size <= Len(content[r.inode])
    /\ Sha256[SubSeq(content[r.inode], 1, r.size)] = r.sha256

(* What reopen_remote_staging verifies before it trusts a recorded prefix. *)
PrefixMatches(r) ==
    /\ r.inode \in staging
    /\ Len(content[r.inode]) = r.size
    /\ Sha256[content[r.inode]] = r.sha256

(* The tracked row describes another staging file than the session's. *)
Superseded(p) == mine[p] # None /\ mine[p].inode # fd[p]

(* An earlier row of the item recorded a digest, and the CAS has its entry. *)
OrphanStored(i) == evidence[i] # None /\ cas[evidence[i]] # None

(* The process has left execute(): descriptors, lock and memory are gone.  *)
Leave(p) ==
    /\ Goto(p, "idle")
    /\ lock' = IF lock = p THEN None ELSE lock
    /\ item' = [item EXCEPT ![p] = None]
    /\ fd' = [fd EXCEPT ![p] = None]
    /\ hashed' = [hashed EXCEPT ![p] = <<>>]
    /\ resume' = [resume EXCEPT ![p] = None]
    /\ mine' = [mine EXCEPT ![p] = None]

-----------------------------------------------------------------------------
(* Entering execute(): retry() reads the active partial before the lock.   *)

Invoke(p, i) ==
    /\ At(p, "idle")
    /\ \E r \in {q \in partials : q.item = i} \cup {None} :
          resume' = [resume EXCEPT ![p] = r]
    /\ item' = [item EXCEPT ![p] = i]
    /\ Goto(p, "locking")
    /\ UNCHANGED <<files, dirs, lock, catalog, fd, hashed, mine>>

AcquireLock(p) ==
    /\ At(p, "locking")
    /\ lock = None
    /\ lock' = p
    /\ Goto(p, "start")
    /\ UNCHANGED <<files, dirs, catalog, session>>

(* flock is non-blocking: a held lock is a LockError. *)
LockRefused(p) ==
    /\ At(p, "locking")
    /\ lock # None
    /\ Leave(p)
    /\ UNCHANGED <<files, dirs, catalog>>

(* A complete run item of the plan item makes this one 'satisfied'. *)
AlreadySatisfied(p) ==
    /\ At(p, "start")
    /\ item[p] \in complete
    /\ Goto(p, "release")
    /\ UNCHANGED <<files, dirs, lock, catalog, session>>

(* stage_existing_cas found the orphan's bytes and linked them in staging. *)
Reconcile(p) ==
    /\ At(p, "start")
    /\ item[p] \notin complete
    /\ OrphanStored(item[p])
    /\ LET d == evidence[item[p]]
       IN  /\ Sha256[content[cas[d]]] = d
           /\ fd' = [fd EXCEPT ![p] = cas[d]]
           /\ hashed' = [hashed EXCEPT ![p] = content[cas[d]]]
           /\ staging' = staging \cup {cas[d]}
           /\ stagingSynced' = staging'
    /\ Goto(p, "verify")
    /\ UNCHANGED <<files, quarantine, quarantineSynced, cas, casSynced, lock, catalog,
                   item, resume, mine>>

(* No orphan, or its CAS entry is absent: the item must be downloaded. *)
MustDownload(p) ==
    /\ At(p, "start")
    /\ item[p] \notin complete
    /\ ~ OrphanStored(item[p])
    /\ Goto(p, "claim")
    /\ UNCHANGED <<files, dirs, lock, catalog, session>>

-----------------------------------------------------------------------------
(* The transfer as the storage sees it *)

(* claim_resume: the recorded row is consumed, an equal active row is      *)
(* inserted for the new run item.  The row may have been replaced since    *)
(* retry() read it.                                                        *)
ClaimResume(p) ==
    /\ At(p, "claim")
    /\ IF resume[p] = None
       THEN UNCHANGED <<partials, mine>>
       ELSE /\ partials' = {q \in partials : q.inode # resume[p].inode} \cup {resume[p]}
            /\ mine' = [mine EXCEPT ![p] = resume[p]]
    /\ Goto(p, "open")
    /\ UNCHANGED <<files, dirs, lock, evidence, linked, complete, locations, quarantined,
                   item, fd, hashed, resume>>

(* The unique index on the staging name refuses the insert: another run    *)
(* item holds the active row.  The exception leaves execute().             *)
ClaimConflict(p) ==
    /\ At(p, "claim")
    /\ resume[p] # None
    /\ \E q \in partials : q.inode = resume[p].inode
    /\ Leave(p)
    /\ UNCHANGED <<files, dirs, catalog>>

(* begin_remote_staging: O_EXCL creation, then fsync of the directory. *)
BeginStaging(p) ==
    /\ At(p, "open")
    /\ resume[p] = None
    /\ \E i \in Inode \ used :
          /\ used' = used \cup {i}
          /\ staging' = staging \cup {i}
          /\ stagingSynced' = staging'
          /\ fd' = [fd EXCEPT ![p] = i]
    /\ hashed' = [hashed EXCEPT ![p] = <<>>]
    /\ Goto(p, "write")
    /\ UNCHANGED <<content, synced, quarantine, quarantineSynced, cas, casSynced, lock,
                   catalog, item, resume, mine>>

(* reopen_remote_staging accepts a prefix whose size and hash still match. *)
ReopenStaging(p) ==
    /\ At(p, "open")
    /\ resume[p] # None
    /\ PrefixMatches(resume[p])
    /\ fd' = [fd EXCEPT ![p] = resume[p].inode]
    /\ hashed' = [hashed EXCEPT ![p] = content[resume[p].inode]]
    /\ Goto(p, "write")
    /\ UNCHANGED <<files, dirs, lock, catalog, item, resume, mine>>

(* The attempt ends before it has a session: the deadline or a             *)
(* cancellation is seen first, or the file is gone.  The engine then has   *)
(* no ResumeState left.  A prefix that is refused ends here too if the     *)
(* deadline has passed meanwhile, and otherwise as in Crash: the outcome   *)
(* of its error is one that the attempt record refuses.                    *)
OpenFails(p) ==
    /\ At(p, "open")
    /\ resume' = [resume EXCEPT ![p] = None]
    /\ Goto(p, "ended")
    /\ UNCHANGED <<files, dirs, lock, catalog, item, fd, hashed, mine>>

(* Mutant: the size limit is tested after the write instead of before. *)
WriteBeforeLimit(p, c) ==
    /\ At(p, "write")
    /\ Len(hashed[p]) <= MaxBytes
    /\ content' = [content EXCEPT ![fd[p]] = Append(@, c)]
    /\ hashed' = [hashed EXCEPT ![p] = Append(@, c)]
    /\ UNCHANGED <<synced, used, dirs, lock, catalog, pc, item, fd, resume, mine>>

(* RemoteStagingSession.write appends one chunk. *)
Write(p, c) ==
    /\ At(p, "write")
    /\ Len(hashed[p]) < MaxBytes
    /\ content' = [content EXCEPT ![fd[p]] = Append(@, c)]
    /\ hashed' = [hashed EXCEPT ![p] = Append(@, c)]
    /\ UNCHANGED <<synced, used, dirs, lock, catalog, pc, item, fd, resume, mine>>

(* A resumed request answered in full: the old session is finalized and    *)
(* discarded, the response goes to a new file from byte zero.              *)
RestartFromZero(p) ==
    /\ At(p, "write")
    /\ resume[p] # None
    /\ Len(hashed[p]) = resume[p].size
    /\ synced' = [synced EXCEPT ![fd[p]] = content[fd[p]]]
    /\ \E i \in Inode \ used :
          /\ used' = used \cup {i}
          /\ staging' = staging \cup {i}
          /\ stagingSynced' = staging'
          /\ fd' = [fd EXCEPT ![p] = i]
    /\ hashed' = [hashed EXCEPT ![p] = <<>>]
    /\ resume' = [resume EXCEPT ![p] = None]
    /\ UNCHANGED <<content, quarantine, quarantineSynced, cas, casSynced, lock,
                   catalog, pc, item, mine>>

(* Mutant: detach() returns the row without forcing the file. *)
DetachUnforced(p) ==
    /\ At(p, "write")
    /\ Len(hashed[p]) > 0
    /\ Goto(p, "detached")
    /\ UNCHANGED <<files, dirs, lock, catalog, session>>

(* A retryable failure with bytes and a strong ETag: session.detach().  *)
Detach(p) ==
    /\ At(p, "write")
    /\ Len(hashed[p]) > 0
    /\ Checkpoint(fd[p])
    /\ Goto(p, "detached")
    /\ UNCHANGED <<content, used, staging, quarantine, quarantineSynced, cas, casSynced,
                   lock, catalog, session>>

(* observe_partial, first transaction: a row for another staging file is   *)
(* discarded.                                                              *)
DropSuperseded(p) ==
    /\ At(p, "detached")
    /\ Superseded(p)
    /\ partials' = partials \ {mine[p]}
    /\ mine' = [mine EXCEPT ![p] = None]
    /\ UNCHANGED <<files, dirs, lock, evidence, linked, complete, locations, quarantined,
                   pc, item, fd, hashed, resume>>

(* observe_partial, second transaction: the row is updated or inserted.    *)
(* The engine then starts another attempt or returns with the ResumeState. *)
SavePartial(p, label) ==
    /\ At(p, "detached")
    /\ ~ Superseded(p)
    /\ partials' = (partials \ {mine[p]}) \cup {PartialState(p)}
    /\ mine' = [mine EXCEPT ![p] = PartialState(p)]
    /\ resume' = [resume EXCEPT ![p] = PartialState(p)]
    /\ fd' = [fd EXCEPT ![p] = None]
    /\ Goto(p, label)
    /\ UNCHANGED <<files, dirs, lock, evidence, linked, complete, locations, quarantined,
                   item, hashed>>

(* Any other failure: _discard_session finalizes the file and keeps its    *)
(* name; the next attempt, if there is one, starts from nothing.           *)
DiscardSession(p, label) ==
    /\ At(p, "write")
    /\ Checkpoint(fd[p])
    /\ resume' = [resume EXCEPT ![p] = None]
    /\ fd' = [fd EXCEPT ![p] = None]
    /\ Goto(p, label)
    /\ UNCHANGED <<content, used, staging, quarantine, quarantineSynced, cas, casSynced,
                   lock, catalog, item, hashed, mine>>

(* Mutant: finalize() hands over a file that was never forced. *)
FinalizeUnforced(p) ==
    /\ At(p, "write")
    /\ resume[p] # None => Len(hashed[p]) > resume[p].size
    /\ resume' = [resume EXCEPT ![p] = None]
    /\ Goto(p, "staged")
    /\ UNCHANGED <<files, dirs, lock, catalog, item, fd, hashed, mine>>

(* The response is complete.  A 206 body has at least one byte, so a       *)
(* resumed file has grown.                                                 *)
Finalize(p) ==
    /\ At(p, "write")
    /\ resume[p] # None => Len(hashed[p]) > resume[p].size
    /\ Checkpoint(fd[p])
    /\ resume' = [resume EXCEPT ![p] = None]
    /\ Goto(p, "staged")
    /\ UNCHANGED <<content, used, staging, quarantine, quarantineSynced, cas, casSynced,
                   lock, catalog, item, fd, hashed, mine>>

(* finish_partial after a complete transfer: 'consumed'. *)
ConsumePartial(p) ==
    /\ At(p, "staged")
    /\ partials' = partials \ {mine[p]}
    /\ mine' = [mine EXCEPT ![p] = None]
    /\ Goto(p, "verify")
    /\ UNCHANGED <<files, dirs, lock, evidence, linked, complete, locations, quarantined,
                   item, fd, hashed, resume>>

(* finish_partial after an incomplete one: the row is 'discarded' unless   *)
(* the engine returned a ResumeState; the run item becomes terminal.       *)
EndIncomplete(p) ==
    /\ At(p, "ended")
    /\ partials' = IF resume[p] = None THEN partials \ {mine[p]} ELSE partials
    /\ Goto(p, "release")
    /\ UNCHANGED <<files, dirs, lock, evidence, linked, complete, locations, quarantined,
                   session>>

-----------------------------------------------------------------------------
(* verify_publish_and_persist *)

(* Mutant: the declared claims are compared and the result is ignored. *)
RecordEvidenceUnchecked(p) ==
    /\ At(p, "verify")
    /\ content[fd[p]] = hashed[p]
    /\ evidence' = [evidence EXCEPT ![item[p]] = Sha256[hashed[p]]]
    /\ Goto(p, "publish")
    /\ UNCHANGED <<files, dirs, lock, partials, linked, complete, locations, quarantined,
                   session>>

(* inspect_staged and the transaction that records the verified digest. *)
RecordEvidence(p) ==
    /\ At(p, "verify")
    /\ content[fd[p]] = hashed[p]
    /\ evidence' = [evidence EXCEPT ![item[p]] = Sha256[hashed[p]]]
    /\ Goto(p, IF Sha256[hashed[p]] \in Accepted[item[p]] THEN "publish" ELSE "quarantine")
    /\ UNCHANGED <<files, dirs, lock, partials, linked, complete, locations, quarantined,
                   session>>

(* Inspection fails (decoding, pixel or frame limits): nothing recorded. *)
InspectionFails(p) ==
    /\ At(p, "verify")
    /\ Goto(p, "release")
    /\ UNCHANGED <<files, dirs, lock, catalog, session>>

(* publish_staged, no entry yet: linkat of the staged inode. *)
PublishNew(p) ==
    /\ At(p, "publish")
    /\ content[fd[p]] = hashed[p]
    /\ cas[Sha256[hashed[p]]] = None
    /\ cas' = [cas EXCEPT ![Sha256[hashed[p]]] = fd[p]]
    /\ Goto(p, "sync")
    /\ UNCHANGED <<files, staging, stagingSynced, quarantine, quarantineSynced, casSynced,
                   lock, catalog, session>>

(* publish_staged after the link: the target is read back, then the        *)
(* directory is forced.                                                    *)
SyncPublished(p) ==
    /\ At(p, "sync")
    /\ LET d == Sha256[hashed[p]]
       IN  /\ cas[d] = fd[p]
           /\ casSynced' = [casSynced EXCEPT ![d] = cas[d]]
    /\ Goto(p, "persist")
    /\ UNCHANGED <<files, staging, stagingSynced, quarantine, quarantineSynced, cas, lock,
                   catalog, session>>

(* Mutant: the existing entry is assumed, not verified. *)
PublishReuseUnverified(p) ==
    /\ At(p, "publish")
    /\ Goto(p, "persist")
    /\ UNCHANGED <<files, dirs, lock, catalog, session>>

(* publish_staged, the entry exists (seen by the probe, or by a linkat     *)
(* that fails with EEXIST): verified and reused, no directory is forced.   *)
PublishReuse(p) ==
    /\ At(p, "publish")
    /\ LET d == Sha256[hashed[p]]
       IN  /\ cas[d] # None
           /\ Sha256[content[cas[d]]] = d
    /\ Goto(p, "persist")
    /\ UNCHANGED <<files, dirs, lock, catalog, session>>

(* _persist_asset: asset, location and occurrence link in one transaction. *)
PersistAsset(p) ==
    /\ At(p, "persist")
    /\ locations' = locations \cup {Sha256[hashed[p]]}
    /\ linked' = [linked EXCEPT ![item[p]] = Sha256[hashed[p]]]
    /\ Goto(p, "settle")
    /\ UNCHANGED <<files, dirs, lock, partials, evidence, complete, quarantined, session>>

(* The last transaction of the item: 'complete' with its asset. *)
SettleItem(p) ==
    /\ At(p, "settle")
    /\ complete' = complete \cup {item[p]}
    /\ Goto(p, "release")
    /\ UNCHANGED <<files, dirs, lock, partials, evidence, linked, locations, quarantined,
                   session>>

(* quarantine_staged: a link under a fresh quarantine name. *)
QuarantineLink(p) ==
    /\ At(p, "quarantine")
    /\ content[fd[p]] = hashed[p]
    /\ quarantine' = quarantine \cup {fd[p]}
    /\ Goto(p, "qsync")
    /\ UNCHANGED <<files, staging, stagingSynced, quarantineSynced, cas, casSynced, lock,
                   catalog, session>>

(* fsync of the quarantine directory. *)

QuarantineSync(p) ==
    /\ At(p, "qsync")
    /\ quarantineSynced' = quarantine
    /\ Goto(p, "qrecord")
    /\ UNCHANGED <<files, staging, stagingSynced, quarantine, cas, casSynced, lock,
                   catalog, session>>

(* record_acquisition_quarantine, then the item is 'quarantined'. *)
RecordQuarantine(p) ==
    /\ At(p, "qrecord")
    /\ quarantined' = quarantined \cup {fd[p]}
    /\ Goto(p, "release")
    /\ UNCHANGED <<files, dirs, lock, partials, evidence, linked, complete, locations,
                   session>>

(* Over the quarantine budget: the row says 'missing' and names no file. *)
QuarantineNotRetained(p) ==
    /\ At(p, "quarantine")
    /\ Goto(p, "release")
    /\ UNCHANGED <<files, dirs, lock, catalog, session>>

ReleaseLock(p) ==
    /\ At(p, "release")
    /\ Leave(p)
    /\ UNCHANGED <<files, dirs, catalog>>

-----------------------------------------------------------------------------
(* Failures *)

(* The process is killed, or an exception leaves execute(): the operating  *)
(* system closes its descriptors and releases its flock.                   *)
Crash(p) ==
    /\ ~ At(p, "idle")
    /\ Leave(p)
    /\ UNCHANGED <<files, dirs, catalog>>

(* The machine stops.  A file keeps its forced bytes and some of the       *)
(* later ones, a directory its forced entries and some of the others;      *)
(* every process is gone.                                                  *)
PowerLoss ==
    /\ powerLost' = TRUE
    /\ \E kept \in [Inode -> 0..MaxBytes] :
          /\ \A i \in Inode : Len(synced[i]) <= kept[i] /\ kept[i] <= Len(content[i])
          /\ content' = [i \in Inode |-> SubSeq(content[i], 1, kept[i])]
    /\ synced' = content'
    /\ \E names \in SUBSET (staging \ stagingSynced) : staging' = stagingSynced \cup names
    /\ stagingSynced' = staging'
    /\ \E names \in SUBSET (quarantine \ quarantineSynced) :
          quarantine' = quarantineSynced \cup names
    /\ quarantineSynced' = quarantine'
    /\ \E names \in SUBSET {d \in Digest : cas[d] # casSynced[d]} :
          cas' = [d \in Digest |-> IF d \in names THEN cas[d] ELSE casSynced[d]]
    /\ casSynced' = cas'
    /\ lock' = None
    /\ pc' = [p \in Process |-> "idle"]
    /\ item' = [p \in Process |-> None]
    /\ fd' = [p \in Process |-> None]
    /\ hashed' = [p \in Process |-> <<>>]
    /\ resume' = [p \in Process |-> None]
    /\ mine' = [p \in Process |-> None]
    /\ UNCHANGED <<used, catalog>>

-----------------------------------------------------------------------------
Transfer(p) ==
    \/ ClaimResume(p) \/ ClaimConflict(p)
    \/ BeginStaging(p) \/ ReopenStaging(p) \/ OpenFails(p)
    \/ \E c \in Chunk : Write(p, c)
    \/ RestartFromZero(p)
    \/ Detach(p) \/ DropSuperseded(p)
    \/ \E label \in {"open", "ended"} : SavePartial(p, label) \/ DiscardSession(p, label)
    \/ Finalize(p) \/ ConsumePartial(p) \/ EndIncomplete(p)

Publish(p) ==
    \/ RecordEvidence(p) \/ InspectionFails(p)
    \/ PublishNew(p) \/ SyncPublished(p) \/ PublishReuse(p)
    \/ PersistAsset(p) \/ SettleItem(p)
    \/ QuarantineLink(p) \/ QuarantineSync(p) \/ RecordQuarantine(p)
    \/ QuarantineNotRetained(p)

Execute(p) ==
    \/ \E i \in Item : Invoke(p, i)
    \/ AcquireLock(p) \/ LockRefused(p)
    \/ AlreadySatisfied(p) \/ Reconcile(p) \/ MustDownload(p)
    \/ ReleaseLock(p)

Next ==
    \/ /\ \E p \in Process : Execute(p) \/ Transfer(p) \/ Publish(p) \/ Crash(p)
       /\ UNCHANGED powerLost
    \/ PowerLoss

Spec == Init /\ [][Next]_vars

-----------------------------------------------------------------------------
(* Properties *)

(* An inode has been given a name outside staging. *)
Published == {cas[d] : d \in Digest} \ {None}

(* Every CAS entry holds exactly the bytes its name digests, forced to     *)
(* disk: publish_staged links an inode that is complete and synced, and    *)
(* no later session, crash or power loss alters it.                        *)
CasIntegrity ==
    \A d \in Digest : cas[d] # None =>
        /\ Sha256[content[cas[d]]] = d
        /\ synced[cas[d]] = content[cas[d]]

(* No process holds a writable descriptor on an inode that is in the CAS   *)
(* or in quarantine, although its staging name, and rows that a retry read *)
(* before it had the lock, still lead to it.                               *)
NoWriterOnPublished ==
    \A p \in Process : pc[p] = "write" => fd[p] \notin Published \cup quarantine

(* The prefix an active partial row describes is on disk, under a staging  *)
(* name that is on disk: detach() forces both before the row is written.   *)
PartialPrefixDurable ==
    \A r \in partials :
        /\ r.inode \in stagingSynced
        /\ r.size <= Len(synced[r.inode])
        /\ Sha256[SubSeq(synced[r.inode], 1, r.size)] = r.sha256

(* An occurrence is linked only to bytes that its declared hashes do not   *)
(* contradict, and those are stored: only a power loss can take them away, *)
(* with a directory entry that publish_staged reused and did not force.    *)
LinkedIsVerified ==
    \A i \in Item : linked[i] # None =>
        /\ linked[i] \in Accepted[i]
        /\ cas[linked[i]] = None => powerLost

(* The bytes reachable through the CAS directory, digest by digest. *)
StoredBytes == [d \in Digest |-> IF cas[d] = None THEN None ELSE content[cas[d]]]

Abstract == INSTANCE ContentStore WITH store <- StoredBytes, refs <- locations

(* Whatever processes crash, every step of the managed root and of the     *)
(* catalog's locations is one of the write-once store, but for the power   *)
(* losses themselves.                                                      *)
ImplementsContentStore ==
    Abstract!Init /\ [][Abstract!Next \/ PowerLoss]_<<StoredBytes, locations>>

=============================================================================
