----------------------------- MODULE CatalogProofs -----------------------------
(***************************************************************************)
(* Proofs about CatalogFile for any number of processes, releases of the   *)
(* software, migrations and transactions, about CatalogRows for any        *)
(* processes, reported values, tags and names, and any numbers of pages,   *)
(* replays, seeds and marks, about ImportRuns for any processes, contents  *)
(* and records, and about PostText for any documents and any number of     *)
(* fetches.                                                                *)
(*                                                                         *)
(* That a row shows the newest report is nearly inductive (NewestInv): a   *)
(* column that a report omits has to be that of the report before, which   *)
(* is why it is kept together with the last statement of its time.  That a *)
(* second replay adds nothing needs that the observations of each replay   *)
(* are still those its retained response gives (ReplayInv), and that a tag *)
(* keeps its row, that a page on its way has names the provider has given  *)
(* (TagInv).  That the report of an import is true needs that all a run    *)
(* has ever read is stored (ReadIsStored) and that no importer reports a   *)
(* run that has read nothing (ReportsHaveRead); what the records of a      *)
(* content do, and what the runs of fetches count, are recursive           *)
(* functions, of which the first section says that they exist and that     *)
(* what each step keeps they end with (RepeatsExist, CountsOff).           *)
(***************************************************************************)
EXTENDS CatalogFile, CatalogRows, ImportRuns, PostText, FiniteSetTheorems, WellFoundedInduction,
        TLAPS

(***************************************************************************)
(* Opening and migrating                                                   *)
(***************************************************************************)

OpenerPc == {"closed", "checked", "loop", "due", "applying", "open", "refused", "killed"}

MigrationTypes ==
    /\ userVersion \in 0..Latest /\ applied \in [1..Latest -> Nat]
    /\ lock \in Opener \cup {Nobody} /\ \A p \in Opener : lock = p <=> OpenerAt(p, "applying")
    /\ opener \in [Opener -> [pc : OpenerPc, at : 1..(Latest + 1)]]

(* The migrations that a process has passed are in the catalog, whoever    *)
(* applied them: none is ever taken away, and its loop passes one only if  *)
(* the version has reached it.                                             *)
PassedAreApplied ==
    /\ \A v \in 1..userVersion : applied[v] > 0
    /\ \A p \in Opener :
          /\ \A v \in 1..(opener[p].at - 1) : applied[v] > 0
          /\ opener[p].pc \in {"due", "applying"} => opener[p].at <= Supported[p]
          /\ opener[p].pc = "open" => opener[p].at > Supported[p]

MigrationInv == MigrationTypes /\ PassedAreApplied

(* A new file has no migration. *)
LEMMA MigrationInit ==
  ASSUME FileInit
  PROVE  MigrationInv
<1>1. 1 \in 1..(Latest + 1) /\ 1..(1 - 1) = {}
  BY FileAssumption
<1>2. MigrationTypes
  BY <1>1, FileAssumption DEF FileInit, MigrationTypes, OpenerAt, OpenerPc
<1>3. PassedAreApplied
  BY <1>1, FileAssumption DEF FileInit, PassedAreApplied
<1> QED
  BY <1>2, <1>3 DEF MigrationInv

(* A step of one process, other than the end of a script. *)
LEMMA MigrationLoop ==
  ASSUME MigrationInv, NEW p \in Opener,
         CheckVersion(p) \/ NextMigration(p) \/ BeginExclusive(p) \/ KillOpener(p)
  PROVE  MigrationInv'
<1> USE FileAssumption DEF OpenerAt, OpenerMoves, OpenerPc
<1>1. UNCHANGED <<userVersion, applied>>
  BY DEF CheckVersion, NextMigration, BeginExclusive, KillOpener
<1>2. /\ Supported[p] \in 1..Latest /\ Latest \in Nat /\ userVersion \in 0..Latest
      /\ opener[p] \in [pc : OpenerPc, at : 1..(Latest + 1)]
  BY DEF MigrationInv, MigrationTypes
<1>3. PICK new \in [pc : OpenerPc, at : 1..(Latest + 1)] : opener' = [opener EXCEPT ![p] = new]
  BY <1>2 DEF CheckVersion, NextMigration, BeginExclusive, KillOpener, MigrationInv, MigrationTypes
<1>4. opener'[p] = new /\ \A q \in Opener \ {p} : opener'[q] = opener[q]
  BY <1>3 DEF MigrationInv, MigrationTypes
<1>5. MigrationTypes'
  <2>1. lock' \in Opener \cup {Nobody} /\ \A q \in Opener : lock' = q <=> opener'[q].pc = "applying"
    BY <1>2, <1>3, <1>4 DEF CheckVersion, NextMigration, BeginExclusive, KillOpener,
       MigrationInv, MigrationTypes
  <2> QED
    BY <1>1, <1>3, <2>1 DEF MigrationInv, MigrationTypes
<1>6. PassedAreApplied'
  <2>1. /\ \A v \in 1..(new.at - 1) : applied[v] > 0
        /\ new.pc \in {"due", "applying"} => new.at <= Supported[p]
        /\ new.pc = "open" => new.at > Supported[p]
    BY <1>2, <1>4 DEF CheckVersion, NextMigration, BeginExclusive, KillOpener,
       MigrationInv, PassedAreApplied, MigrationTypes
  <2> QED
    BY <1>1, <1>4, <2>1 DEF MigrationInv, PassedAreApplied
<1> QED
  BY <1>5, <1>6 DEF MigrationInv

(* A script ends, with its migration in the catalog or without effect. *)
LEMMA MigrationApplied ==
  ASSUME MigrationInv, NEW p \in Opener, ApplyMigration(p)
  PROVE  MigrationInv'
<1> USE FileAssumption DEF OpenerAt, OpenerMoves, OpenerPc
<1> DEFINE v == opener[p].at
<1>1. /\ v \in 1..Latest /\ v <= Supported[p] /\ lock = p
      /\ opener[p] \in [pc : OpenerPc, at : 1..(Latest + 1)]
  BY DEF ApplyMigration, MigrationInv, MigrationTypes, PassedAreApplied
<1>2. CASE ScriptRuns(v) /\ applied' = [applied EXCEPT ![v] = @ + 1] /\ userVersion' = v
           /\ opener' = [opener EXCEPT ![p] = [pc |-> "loop", at |-> v + 1]]
  <2>1. /\ applied' \in [1..Latest -> Nat] /\ applied'[v] > 0
        /\ \A w \in 1..Latest : applied[w] > 0 => applied'[w] > 0
    BY <1>1, <1>2 DEF MigrationInv, MigrationTypes
  <2>2. \A w \in 1..v : applied'[w] > 0
    BY <1>1, <1>2, <2>1 DEF ScriptRuns
  <2>3. /\ opener'[p] = [pc |-> "loop", at |-> v + 1]
        /\ \A q \in Opener \ {p} : opener'[q] = opener[q]
    BY <1>2 DEF MigrationInv, MigrationTypes
  <2>4. MigrationTypes'
    BY <1>1, <1>2, <2>1, <2>3 DEF ApplyMigration, MigrationInv, MigrationTypes
  <2>5. PassedAreApplied'
    <3>1. \A q \in Opener \ {p} : \A w \in 1..(opener[q].at - 1) : applied'[w] > 0
      <4> SUFFICES ASSUME NEW q \in Opener \ {p}, NEW w \in 1..(opener[q].at - 1)
                   PROVE  applied'[w] > 0
        OBVIOUS
      <4>1. opener[q].at \in 1..(Latest + 1)
        BY DEF MigrationInv, MigrationTypes
      <4>2. w \in 1..Latest
        BY <4>1
      <4>3. applied[w] > 0
        BY DEF MigrationInv, PassedAreApplied
      <4> QED
        BY <2>1, <4>2, <4>3
    <3> QED
      BY <1>1, <1>2, <2>2, <2>3, <3>1 DEF MigrationInv, PassedAreApplied
  <2> QED
    BY <2>4, <2>5 DEF MigrationInv
<1>3. CASE OpenerMoves(p, "refused") /\ UNCHANGED <<userVersion, applied>>
  BY <1>1, <1>3 DEF ApplyMigration, MigrationInv, MigrationTypes, PassedAreApplied
<1> QED
  BY <1>2, <1>3 DEF ApplyMigration

(* The migrations keep their invariant, and so does all that happens       *)
(* beside them.                                                            *)
LEMMA MigrationNext ==
  ASSUME MigrationInv, [FileNext]_catalogFileVars
  PROVE  MigrationInv'
<1>1. CASE Migrations
  BY <1>1, MigrationLoop, MigrationApplied DEF Migrations, OpenStep
<1>2. CASE UNCHANGED migrationVars
  BY <1>2 DEF migrationVars, MigrationInv, MigrationTypes, PassedAreApplied, OpenerAt
<1> QED
  BY <1>1, <1>2 DEF FileNext, Snapshots, catalogFileVars

(* What is recorded as passed is applied, whoever else migrates. *)
THEOREM MigrationInvariance == FileSpec => []MigrationInv
<1>1. FileInit => MigrationInv
  BY MigrationInit
<1>2. MigrationInv /\ [FileNext]_catalogFileVars => MigrationInv'
  BY MigrationNext
<1> QED
  BY <1>1, <1>2, PTL DEF FileSpec

(* A process that has opened the catalog finds every migration its         *)
(* software knows, and the version claims none that is not there, for any  *)
(* processes of any releases, killed anywhere.                             *)
THEOREM OpenedStands == FileSpec => []OpenedIsMigrated
<1>1. MigrationInv => OpenedIsMigrated
  <2> SUFFICES ASSUME MigrationInv PROVE OpenedIsMigrated
    OBVIOUS
  <2>1. ASSUME NEW p \in Opener, OpenerAt(p, "open"), NEW v \in 1..Supported[p]
        PROVE  applied[v] > 0
    <3>1. v \in 1..(opener[p].at - 1)
      BY <2>1, FileAssumption DEF OpenerAt, MigrationInv, MigrationTypes, PassedAreApplied
    <3> QED
      BY <3>1 DEF MigrationInv, PassedAreApplied
  <2> QED
    BY <2>1 DEF OpenedIsMigrated, MigrationInv, PassedAreApplied
<1> QED
  BY <1>1, MigrationInvariance, PTL

(***************************************************************************)
(* The writer and the snapshot of a reader                                 *)
(***************************************************************************)

(* The file when every page is of one transaction. *)
AllOf(txn) == [n \in FilePage |-> txn]

ReaderPc == {"closed", "inspect", "journal", "read 1", "read 2", "stat", "again",
             "journal again", "compare", "read", "refused"}

SnapshotTypes ==
    /\ begun \in 0..MaxTransactions /\ committed \in 0..begun /\ stamp \in Nat
    /\ pages \in [FilePage -> 0..begun]
    /\ wal \in [kind : {"absent", "empty", "frames"}, txn : 0..begun]
    /\ journal \in [kind : {"absent", "valid"}, saved : [FilePage -> 0..begun]]
    /\ writer \in [mode : {"wal", "delete"}, pc : {"gone", "idle", "writing"}, txn : 0..begun]
    /\ reader \in [pc : ReaderPc, before : Nat, got : [FilePage -> Nat], seen : SUBSET Nat,
                   disturbed : BOOLEAN, after : Nat]

(* Without frames in the WAL, or without a journal, the file is the        *)
(* committed state; with a journal, that is what the journal saves.        *)
FileIsCommitted ==
    IF writer.mode = "wal"
    THEN /\ journal.kind = "absent"
         /\ wal.txn = committed
         /\ wal.kind # "frames" => pages = AllOf(committed)
         /\ writer.pc = "writing" => wal.kind = "frames"
    ELSE /\ wal.kind = "absent"
         /\ journal.kind = "absent" => pages = AllOf(committed)
         /\ journal.kind = "valid" => journal.saved = AllOf(committed)
         /\ writer.pc = "idle" => journal.kind = "absent"
         /\ writer.pc = "writing" => journal.kind = "valid"

Active == reader.pc \notin {"closed", "read", "refused"}

(* What the reader has concluded holds for the file while its stamp is     *)
(* that of the first inspection: once a sidecar was found absent, it is    *)
(* one committed state, and what was read of it is of that state.          *)
SeenInv ==
    /\ Active => committed \in reader.seen /\ reader.before <= stamp
    /\ reader.pc = "journal" /\ writer.mode = "wal" /\ reader.before = stamp =>
          \E txn \in reader.seen : pages = AllOf(txn)
    /\ reader.pc \in {"read 1", "read 2", "stat"} /\ reader.before = stamp =>
          \E txn \in reader.seen :
             /\ pages = AllOf(txn)
             /\ reader.pc \in {"read 2", "stat"} => reader.got[1] = txn
             /\ reader.pc = "stat" => reader.got[2] = txn
    /\ reader.pc \in {"again", "journal again", "compare"} /\ reader.before = reader.after =>
          \E txn \in reader.seen : reader.got = AllOf(txn)

(* While nothing disturbs the reader there is no cause to refuse.          *)
QuietInv ==
    Active /\ ~ reader.disturbed =>
        /\ writer.pc = "gone" /\ wal.kind # "frames" /\ journal.kind = "absent"
        /\ reader.before = stamp
        /\ reader.pc \in {"again", "journal again", "compare"} => reader.after = stamp

SnapshotInv == SnapshotTypes /\ FileIsCommitted /\ SeenInv /\ QuietInv /\ SnapshotStands

(* A tuple of two pages is a function on them. *)
LEMMA TwoPages == <<0, 0>> = AllOf(0)
BY DEF AllOf, FilePage

(* A new file is its only committed state. *)
LEMMA SnapshotInit ==
  ASSUME FileInit
  PROVE  SnapshotInv
<1>1. AllOf(0) \in [FilePage -> 0..0] /\ AllOf(0) \in [FilePage -> Nat]
  BY DEF AllOf
<1>2. SnapshotTypes
  BY <1>1, TwoPages, FileAssumption DEF FileInit, SnapshotTypes, NoWal, NoJournal, ReaderPc
<1>3. FileIsCommitted
  BY TwoPages DEF FileInit, FileIsCommitted, NoWal, NoJournal
<1>4. SeenInv /\ QuietInv /\ SnapshotStands
  BY DEF FileInit, SeenInv, QuietInv, Active, SnapshotStands, SnapshotIsCommitted,
     QuietReadSucceeds, Reading
<1> QED
  BY <1>2, <1>3, <1>4 DEF SnapshotInv

(* What becomes of a writer that begins, commits or dies.                  *)
WriterBecomes(pc, txn) == writer' = [writer EXCEPT !.pc = pc, !.txn = txn]

NewWriter(pc, txn) ==
    /\ writer'.mode = writer.mode /\ writer'.pc = pc /\ writer'.txn = txn
    /\ writer' \in [mode : {"wal", "delete"}, pc : {"gone", "idle", "writing"}, txn : 0..begun']

(* The types of a writer that moves on. *)
LEMMA BecomesNew ==
  ASSUME SnapshotTypes, NEW pc \in {"gone", "idle", "writing"}, NEW txn \in 0..begun',
         WriterBecomes(pc, txn)
  PROVE  NewWriter(pc, txn)
<1>1. /\ writer.mode \in {"wal", "delete"}
      /\ writer \in [mode : {"wal", "delete"}, pc : {"gone", "idle", "writing"}, txn : 0..begun]
  BY DEF SnapshotTypes
<1>2. writer' = [mode |-> writer.mode, pc |-> pc, txn |-> txn]
  BY <1>1 DEF WriterBecomes
<1> QED
  BY <1>1, <1>2 DEF NewWriter

(* What a step of the writer does: it keeps the file a committed state, or *)
(* marks the sidecars, and counts its writes to the file.                  *)
LEMMA WriterKeepsFile ==
  ASSUME SnapshotInv, WriterStep
  PROVE  /\ FileIsCommitted'
         /\ begun' \in 0..MaxTransactions /\ committed' \in 0..begun' /\ stamp' \in Nat
         /\ pages' \in [FilePage -> 0..begun']
         /\ wal' \in [kind : {"absent", "empty", "frames"}, txn : 0..begun']
         /\ journal' \in [kind : {"absent", "valid"}, saved : [FilePage -> 0..begun']]
         /\ writer' \in [mode : {"wal", "delete"}, pc : {"gone", "idle", "writing"},
                         txn : 0..begun']
         /\ writer'.mode = writer.mode
         /\ (stamp' = stamp /\ pages' = pages) \/ stamp' = stamp + 1
<1> USE FileAssumption
<1>0. SnapshotTypes /\ FileIsCommitted
  BY DEF SnapshotInv
<1>1. CASE WriterOpens
  <2>1. CASE journal.kind = "valid"
    BY <1>0, <1>1, <2>1, TwoPages DEF WriterOpens, SnapshotTypes, FileIsCommitted, NoJournal, AllOf
  <2>2. CASE journal.kind # "valid"
    BY <1>0, <1>1, <2>2 DEF WriterOpens, SnapshotTypes, FileIsCommitted
  <2> QED
    BY <2>1, <2>2
<1>2. CASE WriterBegins
  <2>1. /\ begun \in Nat /\ begun' = begun + 1 /\ begun' \in 0..MaxTransactions
        /\ begun + 1 \in 0..begun' /\ writer.pc = "idle"
    BY <1>0, <1>2 DEF WriterBegins, SnapshotTypes
  <2>2. NewWriter("writing", begun + 1)
    <3>1. WriterBecomes("writing", begun + 1) /\ begun + 1 \in 0..begun'
      BY <1>2, <2>1 DEF WriterBegins, WriterBecomes
    <3> QED
      BY <1>0, <3>1, BecomesNew
  <2>3. /\ UNCHANGED <<pages, stamp, committed>> /\ committed \in 0..begun'
        /\ pages \in [FilePage -> 0..begun']
    BY <1>0, <1>2, <2>1 DEF WriterBegins, SnapshotTypes
  <2>4. CASE writer.mode = "wal"
    <3>1. /\ wal' \in [kind : {"absent", "empty", "frames"}, txn : 0..begun']
          /\ wal'.kind = "frames" /\ wal'.txn = wal.txn /\ journal' = journal
          /\ journal' \in [kind : {"absent", "valid"}, saved : [FilePage -> 0..begun']]
      BY <1>0, <1>2, <2>1, <2>4 DEF WriterBegins, SnapshotTypes
    <3> QED
      BY <1>0, <2>1, <2>2, <2>3, <2>4, <3>1 DEF NewWriter, SnapshotTypes, FileIsCommitted
  <2>5. CASE writer.mode # "wal"
    <3>1. /\ wal' \in [kind : {"absent", "empty", "frames"}, txn : 0..begun'] /\ wal' = wal
          /\ journal'.kind = "valid" /\ journal'.saved = pages
          /\ journal' \in [kind : {"absent", "valid"}, saved : [FilePage -> 0..begun']]
      BY <1>0, <1>2, <2>1, <2>3, <2>5 DEF WriterBegins, SnapshotTypes
    <3>2. pages = AllOf(committed)
      BY <1>0, <2>1, <2>5 DEF SnapshotTypes, FileIsCommitted
    <3> QED
      BY <1>0, <2>1, <2>2, <2>3, <2>5, <3>1, <3>2 DEF NewWriter, SnapshotTypes, FileIsCommitted
  <2> QED
    BY <2>4, <2>5
<1>3. CASE WriterPutsPage
  BY <1>0, <1>3 DEF WriterPutsPage, SnapshotTypes, FileIsCommitted
<1>4. CASE WriterCommits
  <2>1. /\ writer.pc = "writing" /\ writer.txn \in 0..begun /\ begun \in Nat
        /\ committed' = writer.txn /\ UNCHANGED <<pages, stamp, begun>>
    BY <1>0, <1>4 DEF WriterCommits, SnapshotTypes
  <2>2. NewWriter("idle", 0)
    <3>1. WriterBecomes("idle", 0) /\ 0 \in 0..begun'
      BY <1>4, <2>1 DEF WriterCommits, WriterBecomes
    <3> QED
      BY <1>0, <3>1, BecomesNew
  <2>3. CASE writer.mode = "wal"
    <3>1. /\ wal' \in [kind : {"absent", "empty", "frames"}, txn : 0..begun']
          /\ wal'.kind = wal.kind /\ wal'.txn = writer.txn /\ journal' = journal
      BY <1>0, <1>4, <2>1, <2>3 DEF WriterCommits, SnapshotTypes
    <3> QED
      BY <1>0, <2>1, <2>2, <2>3, <3>1 DEF NewWriter, SnapshotTypes, FileIsCommitted
  <2>4. CASE writer.mode # "wal"
    <3>1. pages = AllOf(writer.txn)
      BY <1>0, <1>4, <2>4 DEF WriterCommits, SnapshotTypes, AllOf
    <3>2. NoJournal \in [kind : {"absent", "valid"}, saved : [FilePage -> 0..begun]]
      BY <1>0, TwoPages DEF NoJournal, SnapshotTypes, AllOf
    <3>3. journal' = NoJournal /\ NoJournal.kind = "absent" /\ wal' = wal
      BY <1>4, <2>4 DEF WriterCommits, NoJournal
    <3> QED
      BY <1>0, <2>1, <2>2, <2>4, <3>1, <3>2, <3>3 DEF NewWriter, SnapshotTypes, FileIsCommitted
  <2> QED
    BY <2>3, <2>4
<1>5. CASE WriterCloses
  <2>1. wal.kind = "frames" => pages = AllOf(wal.txn)
    BY <1>0, <1>5 DEF WriterCloses, SnapshotTypes, AllOf
  <2> QED
    BY <1>0, <1>5, <2>1 DEF WriterCloses, SnapshotTypes, FileIsCommitted
<1>6. CASE WriterDies
  <2>1. begun' = begun /\ begun \in Nat
    BY <1>0, <1>6 DEF WriterDies, SnapshotTypes
  <2>2. NewWriter("gone", 0)
    <3>1. WriterBecomes("gone", 0) /\ 0 \in 0..begun'
      BY <1>6, <2>1 DEF WriterDies, WriterBecomes
    <3> QED
      BY <1>0, <3>1, BecomesNew
  <2> QED
    BY <1>0, <1>6, <2>1, <2>2 DEF NewWriter, WriterDies, SnapshotTypes, FileIsCommitted
<1> QED
  BY <1>1, <1>2, <1>3, <1>4, <1>5, <1>6 DEF WriterStep

(* A step of the writer beside a reader. *)
LEMMA WriterKeepsSnapshot ==
  ASSUME SnapshotInv, WriterStep,
         reader' = IF reader.pc \in {"closed", "read", "refused"} THEN reader
                   ELSE [reader EXCEPT !.seen = @ \cup {committed'}, !.disturbed = TRUE]
  PROVE  SnapshotInv'
<1>1. /\ FileIsCommitted'
      /\ begun' \in 0..MaxTransactions /\ committed' \in 0..begun' /\ stamp' \in Nat
      /\ pages' \in [FilePage -> 0..begun']
      /\ wal' \in [kind : {"absent", "empty", "frames"}, txn : 0..begun']
      /\ journal' \in [kind : {"absent", "valid"}, saved : [FilePage -> 0..begun']]
      /\ writer' \in [mode : {"wal", "delete"}, pc : {"gone", "idle", "writing"}, txn : 0..begun']
      /\ writer'.mode = writer.mode
      /\ (stamp' = stamp /\ pages' = pages) \/ stamp' = stamp + 1
  BY WriterKeepsFile
<1>2. stamp \in Nat /\ reader \in [pc : ReaderPc, before : Nat, got : [FilePage -> Nat],
                                   seen : SUBSET Nat, disturbed : BOOLEAN, after : Nat]
  BY DEF SnapshotInv, SnapshotTypes
<1>3. CASE ~ Active
  <2>1. reader' = reader
    BY <1>3 DEF Active
  <2>2. SnapshotTypes'
    BY <1>1, <1>2, <2>1 DEF SnapshotTypes
  <2>3. SeenInv' /\ QuietInv'
    BY <1>3, <2>1 DEF SeenInv, QuietInv, Active
  <2>4. SnapshotStands'
    BY <2>1 DEF SnapshotInv, SnapshotStands, SnapshotIsCommitted, QuietReadSucceeds, Reading
  <2> QED
    BY <1>1, <2>2, <2>3, <2>4 DEF SnapshotInv
<1>4. CASE Active
  <2>1. /\ reader'.pc = reader.pc /\ reader'.before = reader.before /\ reader'.got = reader.got
        /\ reader'.after = reader.after /\ reader'.disturbed = TRUE
        /\ reader'.seen = reader.seen \cup {committed'}
        /\ reader' \in [pc : ReaderPc, before : Nat, got : [FilePage -> Nat],
                        seen : SUBSET Nat, disturbed : BOOLEAN, after : Nat]
    <3>1. reader' = [reader EXCEPT !.seen = reader.seen \cup {committed'}, !.disturbed = TRUE]
      BY <1>2, <1>4 DEF Active
    <3>2. committed' \in Nat
      BY <1>1, FileAssumption
    <3>3. reader' = [pc |-> reader.pc, before |-> reader.before, got |-> reader.got,
                     seen |-> reader.seen \cup {committed'}, disturbed |-> TRUE,
                     after |-> reader.after]
      BY <1>2, <3>1
    <3>4. reader.seen \cup {committed'} \in SUBSET Nat
      BY <1>2, <3>2
    <3>5. reader' \in [pc : ReaderPc, before : Nat, got : [FilePage -> Nat],
                      seen : SUBSET Nat, disturbed : BOOLEAN, after : Nat]
      BY <1>2, <3>3, <3>4
    <3> QED
      BY <3>3, <3>5
  <2>2. SeenInv'
    <3>1. SeenInv
      BY DEF SnapshotInv
    <3>2. /\ reader.before \in Nat /\ stamp \in Nat /\ reader.before <= stamp
          /\ (stamp' = stamp /\ pages' = pages) \/ stamp' = stamp + 1
          /\ writer'.mode = writer.mode
      BY <1>1, <1>2, <1>4, <3>1 DEF SeenInv
    <3>3. reader'.before <= stamp' /\ committed' \in reader'.seen
      BY <2>1, <3>2
    <3>4. reader'.before = stamp' => reader.before = stamp /\ pages' = pages
      BY <2>1, <3>2
    <3> QED
      BY <2>1, <3>1, <3>2, <3>3, <3>4 DEF SeenInv
  <2>3. QuietInv' /\ SnapshotStands'
    BY <1>4, <2>1 DEF QuietInv, Active, SnapshotStands, SnapshotIsCommitted,
       QuietReadSucceeds, Reading
  <2> QED
    BY <1>1, <2>1, <2>2, <2>3 DEF SnapshotInv, SnapshotTypes
<1> QED
  BY <1>3, <1>4

(* A step of the reader that only moves on. *)
MovesTo(to) ==
    /\ reader'.pc = to /\ reader'.before = reader.before /\ reader'.got = reader.got
    /\ reader'.seen = reader.seen /\ reader'.disturbed = reader.disturbed
    /\ reader'.after = reader.after

(* It puts a page it has read beside the other.                            *)
Puts(n, to) == reader' = [reader EXCEPT !.pc = to, !.got[n] = pages[n]]

(* The steps of the reader that one action of the model combines. *)
LEMMA InspectedParts ==
  /\ InspectSidecars =>
        \/ reader.pc = "inspect" /\ WalAbsent /\ reader' = [reader EXCEPT !.pc = "journal"]
        \/ reader.pc = "again" /\ WalAbsent /\ reader' = [reader EXCEPT !.pc = "journal again"]
        \/ /\ reader.pc \in {"inspect", "again"} /\ ~ WalAbsent
           /\ reader' = [reader EXCEPT !.pc = "refused"]
  /\ InspectJournal =>
        \/ reader.pc = "journal" /\ JournalAbsent /\ reader' = [reader EXCEPT !.pc = "read 1"]
        \/ /\ reader.pc = "journal again" /\ JournalAbsent
           /\ reader' = [reader EXCEPT !.pc = "compare"]
        \/ /\ reader.pc \in {"journal", "journal again"} /\ ~ JournalAbsent
           /\ reader' = [reader EXCEPT !.pc = "refused"]
  /\ ReadPage =>
        \/ /\ reader.pc = "read 1"
           /\ reader' = [reader EXCEPT !.pc = "read 2", !.got[1] = pages[1]]
        \/ /\ reader.pc = "read 2"
           /\ reader' = [reader EXCEPT !.pc = "stat", !.got[2] = pages[2]]
<1> USE DEF Reading, Refused
<1>1. ASSUME NEW from, from = <<"inspect", "journal">> \/ from = <<"again", "journal again">>,
             Reading(from[1]),
             IF WalAbsent THEN reader' = [reader EXCEPT !.pc = from[2]] ELSE Refused
      PROVE  \/ reader.pc = "inspect" /\ WalAbsent /\ reader' = [reader EXCEPT !.pc = "journal"]
             \/ /\ reader.pc = "again" /\ WalAbsent
                /\ reader' = [reader EXCEPT !.pc = "journal again"]
             \/ /\ reader.pc \in {"inspect", "again"} /\ ~ WalAbsent
                /\ reader' = [reader EXCEPT !.pc = "refused"]
  <2>1. CASE from = <<"inspect", "journal">>
    BY <1>1, <2>1
  <2>2. CASE from = <<"again", "journal again">>
    BY <1>1, <2>2
  <2> QED
    BY <1>1, <2>1, <2>2
<1>2. ASSUME NEW from, from = <<"journal", "read 1">> \/ from = <<"journal again", "compare">>,
             Reading(from[1]),
             IF JournalAbsent THEN reader' = [reader EXCEPT !.pc = from[2]] ELSE Refused
      PROVE  \/ /\ reader.pc = "journal" /\ JournalAbsent
                /\ reader' = [reader EXCEPT !.pc = "read 1"]
             \/ /\ reader.pc = "journal again" /\ JournalAbsent
                /\ reader' = [reader EXCEPT !.pc = "compare"]
             \/ /\ reader.pc \in {"journal", "journal again"} /\ ~ JournalAbsent
                /\ reader' = [reader EXCEPT !.pc = "refused"]
  <2>1. CASE from = <<"journal", "read 1">>
    BY <1>2, <2>1
  <2>2. CASE from = <<"journal again", "compare">>
    BY <1>2, <2>2
  <2> QED
    BY <1>2, <2>1, <2>2
<1>3. ASSUME NEW from, from = <<"read 1", 1, "read 2">> \/ from = <<"read 2", 2, "stat">>,
             Reading(from[1]),
             reader' = [reader EXCEPT !.pc = from[3], !.got[from[2]] = pages[from[2]]]
      PROVE  \/ /\ reader.pc = "read 1"
                /\ reader' = [reader EXCEPT !.pc = "read 2", !.got[1] = pages[1]]
             \/ /\ reader.pc = "read 2"
                /\ reader' = [reader EXCEPT !.pc = "stat", !.got[2] = pages[2]]
  <2>1. CASE from = <<"read 1", 1, "read 2">>
    BY <1>3, <2>1
  <2>2. CASE from = <<"read 2", 2, "stat">>
    BY <1>3, <2>2
  <2> QED
    BY <1>3, <2>1, <2>2
<1> QED
  BY <1>1, <1>2, <1>3 DEF InspectSidecars, InspectJournal, ReadPage

(* A step of the reader. *)
LEMMA ReaderKeepsSnapshot ==
  ASSUME SnapshotInv, ReaderStep
  PROVE  SnapshotInv'
<1> USE FileAssumption DEF Reading
<1>1. /\ UNCHANGED <<pages, wal, journal, stamp, writer, begun, committed>>
      /\ SnapshotTypes /\ FileIsCommitted /\ FileIsCommitted'
      /\ SeenInv /\ QuietInv
  BY DEF ReaderStep, SnapshotInv, FileIsCommitted, AllOf, fileVars
<1>2. /\ reader \in [pc : ReaderPc, before : Nat, got : [FilePage -> Nat],
                     seen : SUBSET Nat, disturbed : BOOLEAN, after : Nat]
      /\ committed \in Nat /\ stamp \in Nat /\ pages \in [FilePage -> Nat]
  BY <1>1 DEF SnapshotTypes
<1> DEFINE Kept == /\ reader' \in [pc : ReaderPc, before : Nat, got : [FilePage -> Nat],
                                   seen : SUBSET Nat, disturbed : BOOLEAN, after : Nat]
                   /\ SeenInv' /\ QuietInv' /\ SnapshotStands'
<1> SUFFICES Kept
  BY <1>1 DEF SnapshotInv, SnapshotTypes
<1>3. ASSUME NEW to \in ReaderPc, reader' = [reader EXCEPT !.pc = to]
      PROVE  /\ reader' \in [pc : ReaderPc, before : Nat, got : [FilePage -> Nat],
                             seen : SUBSET Nat, disturbed : BOOLEAN, after : Nat]
             /\ MovesTo(to)
  BY <1>2, <1>3 DEF MovesTo
<1>4. CASE StatBefore
  <2>1. /\ reader.pc = "closed" /\ reader'.pc = "inspect" /\ reader'.before = stamp
        /\ reader'.seen = {committed}
        /\ ~ reader'.disturbed =>
              writer.pc = "gone" /\ wal.kind # "frames" /\ journal.kind # "valid"
    BY <1>2, <1>4 DEF StatBefore
  <2>2. reader' \in [pc : ReaderPc, before : Nat, got : [FilePage -> Nat],
                     seen : SUBSET Nat, disturbed : BOOLEAN, after : Nat]
    BY <1>2, <1>4 DEF StatBefore, ReaderPc
  <2>3. journal.kind \in {"absent", "valid"}
    BY <1>1 DEF SnapshotTypes
  <2>4. SeenInv' /\ QuietInv' /\ SnapshotStands'
    BY <1>1, <1>2, <2>1, <2>3 DEF SeenInv, QuietInv, Active, SnapshotStands, SnapshotIsCommitted,
       QuietReadSucceeds
  <2> QED
    BY <2>2, <2>4
<1>5. ASSUME reader.pc \in {"inspect", "again", "journal", "journal again", "compare"},
             reader' = [reader EXCEPT !.pc = "refused"],
             reader.disturbed
      PROVE  Kept
  <2>1. "refused" \in ReaderPc
    BY DEF ReaderPc
  <2>2. MovesTo("refused")
    BY <1>3, <1>5, <2>1
  <2> QED
    BY <1>3, <1>5, <2>1, <2>2 DEF MovesTo, SeenInv, QuietInv, Active, SnapshotStands,
       SnapshotIsCommitted, QuietReadSucceeds
<1>6. CASE InspectSidecars
  <2>1. CASE WalAbsent
    <3>1. \/ reader.pc = "inspect" /\ reader' = [reader EXCEPT !.pc = "journal"]
          \/ reader.pc = "again" /\ reader' = [reader EXCEPT !.pc = "journal again"]
      BY <1>6, <2>1, InspectedParts
    <3>2. Kept
      BY <1>1, <1>2, <1>3, <2>1, <3>1 DEF MovesTo, ReaderPc, WalAbsent, SeenInv, QuietInv, Active,
         FileIsCommitted, SnapshotStands, SnapshotIsCommitted, QuietReadSucceeds
    <3> QED
      BY <3>2
  <2>2. CASE ~ WalAbsent
    <3>1. reader.pc \in {"inspect", "again"} /\ reader' = [reader EXCEPT !.pc = "refused"]
      BY <1>6, <2>2, InspectedParts
    <3>2. reader.disturbed
      BY <1>1, <2>2, <3>1 DEF QuietInv, Active, WalAbsent
    <3> QED
      BY <1>5, <3>1, <3>2
  <2> QED
    BY <2>1, <2>2
<1>7. CASE InspectJournal
  <2>1. CASE JournalAbsent
    <3>1. \/ reader.pc = "journal" /\ reader' = [reader EXCEPT !.pc = "read 1"]
          \/ reader.pc = "journal again" /\ reader' = [reader EXCEPT !.pc = "compare"]
      BY <1>7, <2>1, InspectedParts
    <3>2. Kept
      BY <1>1, <1>2, <1>3, <2>1, <3>1 DEF MovesTo, ReaderPc, JournalAbsent, SeenInv, QuietInv,
         Active, FileIsCommitted, SnapshotStands, SnapshotIsCommitted, QuietReadSucceeds
    <3> QED
      BY <3>2
  <2>2. CASE ~ JournalAbsent
    <3>1. /\ reader.pc \in {"journal", "journal again"}
          /\ reader' = [reader EXCEPT !.pc = "refused"]
      BY <1>7, <2>2, InspectedParts
    <3>2. reader.disturbed
      BY <1>1, <2>2, <3>1 DEF QuietInv, Active, JournalAbsent
    <3> QED
      BY <1>5, <3>1, <3>2
  <2> QED
    BY <2>1, <2>2
<1>8. ASSUME NEW n \in FilePage, NEW to \in ReaderPc, Puts(n, to)
      PROVE  /\ reader' \in [pc : ReaderPc, before : Nat, got : [FilePage -> Nat],
                             seen : SUBSET Nat, disturbed : BOOLEAN, after : Nat]
             /\ reader'.pc = to /\ reader'.got = [reader.got EXCEPT ![n] = pages[n]]
             /\ reader'.before = reader.before /\ reader'.seen = reader.seen
             /\ reader'.disturbed = reader.disturbed /\ reader'.after = reader.after
  <2>1. reader' = [pc |-> to, before |-> reader.before,
                   got |-> [reader.got EXCEPT ![n] = pages[n]], seen |-> reader.seen,
                   disturbed |-> reader.disturbed, after |-> reader.after]
    BY <1>2, <1>8 DEF Puts
  <2>2. [reader.got EXCEPT ![n] = pages[n]] \in [FilePage -> Nat]
    BY <1>2
  <2> QED
    BY <1>2, <2>1, <2>2
<1> DEFINE first == reader.pc = "read 1"
                    /\ reader' = [reader EXCEPT !.pc = "read 2", !.got[1] = pages[1]]
           second == reader.pc = "read 2"
                     /\ reader' = [reader EXCEPT !.pc = "stat", !.got[2] = pages[2]]
<1>11. 1 \in FilePage /\ 2 \in FilePage /\ \A txn : AllOf(txn)[1] = txn /\ AllOf(txn)[2] = txn
  BY DEF FilePage, AllOf
<1>12. CASE first
  <2>1. Puts(1, "read 2") /\ "read 2" \in ReaderPc
    BY <1>12 DEF Puts, ReaderPc
  <2>2. /\ reader'.pc = "read 2" /\ reader'.got[1] = pages[1]
        /\ reader'.before = reader.before /\ reader'.seen = reader.seen
        /\ reader'.disturbed = reader.disturbed
        /\ reader' \in [pc : ReaderPc, before : Nat, got : [FilePage -> Nat],
                        seen : SUBSET Nat, disturbed : BOOLEAN, after : Nat]
    <3>1. /\ reader' \in [pc : ReaderPc, before : Nat, got : [FilePage -> Nat],
                          seen : SUBSET Nat, disturbed : BOOLEAN, after : Nat]
          /\ reader'.pc = "read 2" /\ reader'.got = [reader.got EXCEPT ![1] = pages[1]]
          /\ reader'.before = reader.before /\ reader'.seen = reader.seen
          /\ reader'.disturbed = reader.disturbed /\ reader'.after = reader.after
      BY <1>8, <1>11, <2>1
    <3> QED
      BY <1>2, <1>11, <3>1
  <2>3. SeenInv'
    <3>1. committed' \in reader'.seen /\ reader'.before <= stamp'
      BY <1>1, <1>12, <2>2 DEF SeenInv, Active
    <3>2. ASSUME reader'.before = stamp'
          PROVE  \E txn \in reader'.seen :
                    pages' = AllOf(txn) /\ reader'.got[1] = txn
      <4>1. PICK txn \in reader.seen :
                    pages = AllOf(txn)
        BY <1>1, <1>12, <2>2, <3>2 DEF SeenInv
      <4> QED
        BY <1>1, <1>11, <2>2, <4>1
    <3> QED
      BY <2>2, <3>1, <3>2 DEF SeenInv
  <2>4. QuietInv' /\ SnapshotStands'
    BY <1>1, <1>12, <2>2 DEF QuietInv, Active, SnapshotStands, SnapshotIsCommitted,
       QuietReadSucceeds
  <2> QED
    BY <2>2, <2>3, <2>4
<1>13. CASE second
  <2>1. Puts(2, "stat") /\ "stat" \in ReaderPc
    BY <1>13 DEF Puts, ReaderPc
  <2>2. /\ reader'.pc = "stat" /\ reader'.got[2] = pages[2] /\ reader'.got[1] = reader.got[1]
        /\ reader'.before = reader.before /\ reader'.seen = reader.seen
        /\ reader'.disturbed = reader.disturbed
        /\ reader' \in [pc : ReaderPc, before : Nat, got : [FilePage -> Nat],
                        seen : SUBSET Nat, disturbed : BOOLEAN, after : Nat]
    <3>1. /\ reader' \in [pc : ReaderPc, before : Nat, got : [FilePage -> Nat],
                          seen : SUBSET Nat, disturbed : BOOLEAN, after : Nat]
          /\ reader'.pc = "stat" /\ reader'.got = [reader.got EXCEPT ![2] = pages[2]]
          /\ reader'.before = reader.before /\ reader'.seen = reader.seen
          /\ reader'.disturbed = reader.disturbed /\ reader'.after = reader.after
      BY <1>8, <1>11, <2>1
    <3> QED
      BY <1>2, <1>11, <3>1
  <2>3. SeenInv'
    <3>1. committed' \in reader'.seen /\ reader'.before <= stamp'
      BY <1>1, <1>13, <2>2 DEF SeenInv, Active
    <3>2. ASSUME reader'.before = stamp'
          PROVE  \E txn \in reader'.seen :
                    pages' = AllOf(txn) /\ reader'.got[1] = txn /\ reader'.got[2] = txn
      <4>1. PICK txn \in reader.seen :
                    pages = AllOf(txn) /\ reader.got[1] = txn
        BY <1>1, <1>13, <2>2, <3>2 DEF SeenInv
      <4> QED
        BY <1>1, <1>11, <2>2, <4>1
    <3> QED
      BY <2>2, <3>1, <3>2 DEF SeenInv
  <2>4. QuietInv' /\ SnapshotStands'
    BY <1>1, <1>13, <2>2 DEF QuietInv, Active, SnapshotStands, SnapshotIsCommitted,
       QuietReadSucceeds
  <2> QED
    BY <2>2, <2>3, <2>4
<1>9. CASE StatAfter
  <2>1. /\ reader.pc = "stat" /\ reader'.pc = "again" /\ reader'.after = stamp
        /\ reader'.got = reader.got /\ reader'.before = reader.before
        /\ reader'.seen = reader.seen /\ reader'.disturbed = reader.disturbed
    BY <1>2, <1>9 DEF StatAfter
  <2>2. reader' \in [pc : ReaderPc, before : Nat, got : [FilePage -> Nat],
                     seen : SUBSET Nat, disturbed : BOOLEAN, after : Nat]
    BY <1>2, <1>9 DEF StatAfter, ReaderPc
  <2>3. \A txn : reader.got[1] = txn /\ reader.got[2] = txn => reader.got = AllOf(txn)
    BY <1>2 DEF AllOf, FilePage
  <2>4. SeenInv'
    BY <1>1, <2>1, <2>3 DEF SeenInv, Active, AllOf
  <2>5. QuietInv' /\ SnapshotStands'
    BY <1>1, <2>1 DEF QuietInv, Active, SnapshotStands, SnapshotIsCommitted, QuietReadSucceeds
  <2> QED
    BY <2>2, <2>4, <2>5
<1>10. CASE CompareStats
  <2>1. CASE reader.before = reader.after
    <3>1. /\ reader.pc = "compare" /\ reader' = [reader EXCEPT !.pc = "read"]
          /\ "read" \in ReaderPc
      BY <1>10, <2>1 DEF CompareStats, ReaderPc
    <3>2. MovesTo("read")
      BY <1>3, <3>1
    <3>3. \E txn \in reader.seen : reader.got = AllOf(txn)
      BY <1>1, <2>1, <3>1 DEF SeenInv
    <3> QED
      BY <1>3, <3>1, <3>2, <3>3 DEF MovesTo, SeenInv, QuietInv, Active, SnapshotStands,
         SnapshotIsCommitted, QuietReadSucceeds, AllOf
  <2>2. CASE reader.before # reader.after
    <3>1. reader.pc = "compare" /\ reader' = [reader EXCEPT !.pc = "refused"]
      BY <1>10, <2>2 DEF CompareStats
    <3>2. reader.disturbed
      BY <1>1, <2>2, <3>1 DEF QuietInv, Active
    <3> QED
      BY <1>5, <3>1, <3>2
  <2> QED
    BY <2>1, <2>2
<1> QED
  BY <1>4, <1>6, <1>7, <1>9, <1>10, <1>12, <1>13, InspectedParts DEF ReaderStep

(* Every step of writer and reader keeps the invariant. *)
LEMMA SnapshotNext ==
  ASSUME SnapshotInv, [FileNext]_catalogFileVars
  PROVE  SnapshotInv'
<1>1. CASE Snapshots
  BY <1>1, ReaderKeepsSnapshot, WriterKeepsSnapshot DEF Snapshots
<1>2. CASE UNCHANGED <<fileVars, reader>>
  <2>1. UNCHANGED <<pages, wal, journal, stamp, writer, begun, committed, reader>>
    BY <1>2 DEF fileVars
  <2>2. SnapshotTypes' /\ FileIsCommitted' /\ SeenInv' /\ QuietInv'
    BY <2>1 DEF SnapshotInv, SnapshotTypes, FileIsCommitted, SeenInv, QuietInv, Active
  <2>3. SnapshotStands'
    BY <2>1 DEF SnapshotInv, SnapshotStands, SnapshotIsCommitted, QuietReadSucceeds, Reading
  <2> QED
    BY <2>2, <2>3 DEF SnapshotInv
<1> QED
  BY <1>1, <1>2 DEF FileNext, Migrations, catalogFileVars

(* Every state has the invariant of the snapshot reader. *)
THEOREM SnapshotInvariance == FileSpec => []SnapshotInv
<1>1. FileInit => SnapshotInv
  BY SnapshotInit
<1>2. SnapshotInv /\ [FileNext]_catalogFileVars => SnapshotInv'
  BY SnapshotNext
<1> QED
  BY <1>1, <1>2, PTL DEF FileSpec

(* A reader that takes no lock gets one state of the catalog, committed    *)
(* during its call, or is refused for a cause, for any number of           *)
(* transactions and deaths of the writer beside it, in both journal modes. *)
THEOREM SnapshotsAreCommitted == FileSpec => []SnapshotStands
<1>1. SnapshotInv => SnapshotStands
  BY DEF SnapshotInv
<1> QED
  BY <1>1, SnapshotInvariance, PTL

(* The variables keep their types.                                         *)
THEOREM FileTypesStand == FileSpec => []FileTypeOK
<1>1. MigrationInv /\ SnapshotInv => FileTypeOK
  <2> SUFFICES ASSUME MigrationInv, SnapshotInv PROVE FileTypeOK
    OBVIOUS
  <2>1. pages \in [FilePage -> 0..MaxTransactions]
    BY FileAssumption DEF SnapshotInv, SnapshotTypes
  <2> QED
    BY <2>1, FileAssumption DEF MigrationInv, MigrationTypes, SnapshotInv, SnapshotTypes, FileTypeOK,
       OpenerPc
<1> QED
  BY <1>1, MigrationInvariance, SnapshotInvariance, PTL

(***************************************************************************)
(* The rows of a provider object                                           *)
(***************************************************************************)

Stated == [time : 1..MaxClock, avail : Availability, detail : Fact \cup {Marker}, raw : Bundle..MaxPages]
Raw == [time : 1..MaxClock, avail : Availability, detail : Fact, stub : BOOLEAN, version : 1..2]
Job == {Nothing} \cup [does : {"page"}, version : 1..2, answer : Raw]
         \cup [does : {"replay"}, version : 1..2, raw : Nat]
         \cup [does : {"post tags", "tag record"}, tag : Tag, name : Name]

WorldInv ==
    /\ now \in 1..MaxClock /\ version \in 1..2 /\ events \in 0..MaxEvents
    /\ source \in [avail : Availability, detail : Fact]
    /\ job \in [Writer -> Job]
    /\ raws \in Seq(Raw)
    /\ Len(raws) + Cardinality(InFlight) <= MaxPages

(* What a process replays is retained. *)
ReplayInv ==
    \A w \in Writer : job[w].does = "replay" => job[w].raw \in DOMAIN raws

(* A statement that is in the history, if it belongs there. *)
Noted(st) ==
    \/ kind = "media" \/ (kind = "post" /\ st.detail = None)
    \/ HistoryKey(st) \in history

HistoryInv ==
    \A run \in replays :
        /\ run.raw \in DOMAIN raws
        /\ Noted(Statement(raws[run.raw], run.raw, run.version))

RowInv ==
    /\ kind \in Kind /\ said \in Seq(Stated)
    /\ row \in Row \cup {None}
    /\ row # None => row.raw <= Len(raws)

(* The last of some statements. *)
NewestOf(S, i) == i \in S /\ \A j \in S : j <= i

(* What a statement says of the columns of its table. *)
FactIn(k, st) == IF k = "attribution" THEN None ELSE st.detail
ResponseIn(k, st) == IF k \in {"post", "media"} THEN st.raw ELSE 0

RowsAt(s, t) == {i \in DOMAIN s : s[i].time = t}
FactsAt(k, s, t) == {i \in RowsAt(s, t) : FactIn(k, s[i]) # None}
ResponsesAt(k, s, t) == {i \in RowsAt(s, t) : ResponseIn(k, s[i]) # 0}

(* A row shows what the statements so far give. *)
Shows(k, r, s) ==
    /\ \A i \in DOMAIN s : s[i].time <= r.seen
    /\ \E i \in DOMAIN s : NewestOf(RowsAt(s, r.seen), i) /\ r.avail = s[i].avail
    /\ \/ FactsAt(k, s, r.seen) = {}
       \/ \E i \in DOMAIN s : NewestOf(FactsAt(k, s, r.seen), i) /\ r.detail = s[i].detail
    /\ \/ ResponsesAt(k, s, r.seen) = {}
       \/ \E i \in DOMAIN s : NewestOf(ResponsesAt(k, s, r.seen), i) /\ r.raw = s[i].raw

NewestInv == IF row = None THEN said = <<>> ELSE Shows(kind, row, said)

RowsInv == WorldInv /\ ReplayInv /\ HistoryInv /\ RowInv /\ NewestInv

(* Rows of tags. *)
TagRow == [id : Tag \cup {None}, name : Name]

Distinct(rows) ==
    \A i, j \in DOMAIN rows : i # j =>
        rows[i].name # rows[j].name /\ (rows[i].id = None \/ rows[i].id # rows[j].id)

TagInv ==
    /\ tags \in Seq(TagRow) /\ Distinct(tags)
    /\ tagSource \in [Tag -> Name] /\ named \in [Tag -> SUBSET Name]
    /\ \A t \in Tag : tagSource[t] \in named[t]
    /\ \A i \in DOMAIN tags : tags[i].id # None => tags[i].name \in named[tags[i].id]
    /\ \A w \in Writer :
          job[w].does \in {"post tags", "tag record"} => job[w].name \in named[job[w].tag]
    /\ \A l \in postTags : l[1] \in DOMAIN tags

Inv == RowsInv /\ TagInv

-----------------------------------------------------------------------------
(* Statements in a row *)

(* The last of some statements is their greatest index. *)
LEMMA LatestIsMax ==
  ASSUME NEW S \in SUBSET Nat, NEW i, NewestOf(S, i)
  PROVE  Max(S) = i
<1>1. i \in S /\ \A j \in S : i >= j
  BY DEF NewestOf
<1>2. \A k \in S : (\A j \in S : k >= j) => k = i
  BY <1>1
<1> QED
  BY <1>1, <1>2 DEF Max

(* One more statement. *)
LEMMA OneMore ==
  ASSUME NEW T, NEW s \in Seq(T), NEW x \in T
  PROVE  LET s2 == Append(s, x)
         IN  /\ s2 \in Seq(T) /\ DOMAIN s2 = DOMAIN s \cup {Len(s) + 1}
             /\ DOMAIN s = 1..Len(s) /\ Len(s) \in Nat /\ Len(s2) = Len(s) + 1
             /\ \A i \in DOMAIN s : s2[i] = s[i] /\ i < Len(s) + 1 /\ i \in Nat
             /\ s2[Len(s) + 1] = x
OBVIOUS

(* It is one more of those it belongs to.                                  *)
Gains(k, s, s2, n, st, t) ==
    /\ RowsAt(s2, t) = RowsAt(s, t) \cup (IF st.time = t THEN {n} ELSE {})
    /\ FactsAt(k, s2, t) = FactsAt(k, s, t)
          \cup (IF st.time = t /\ FactIn(k, st) # None THEN {n} ELSE {})
    /\ ResponsesAt(k, s2, t) = ResponsesAt(k, s, t)
          \cup (IF st.time = t /\ ResponseIn(k, st) # 0 THEN {n} ELSE {})

(* One more statement: the rows of its own time gain it, those of another  *)
(* do not change.                                                          *)
LEMMA OneMoreAt ==
  ASSUME NEW k, NEW s \in Seq(Stated), NEW st \in Stated, NEW t
  PROVE  Gains(k, s, Append(s, st), Len(s) + 1, st, t)
<1> DEFINE s2 == Append(s, st)
           n == Len(s) + 1
<1>1. /\ DOMAIN s2 = DOMAIN s \cup {n} /\ s2[n] = st
      /\ \A i \in DOMAIN s : s2[i] = s[i]
  BY OneMore
<1> HIDE DEF s2, n
<1>2. RowsAt(s2, t) = RowsAt(s, t) \cup (IF st.time = t THEN {n} ELSE {})
  BY <1>1 DEF RowsAt
<1>3. \A i \in RowsAt(s, t) : i \in DOMAIN s
  BY DEF RowsAt
<1>4. FactsAt(k, s2, t) = FactsAt(k, s, t)
         \cup (IF st.time = t /\ FactIn(k, st) # None THEN {n} ELSE {})
  BY <1>1, <1>2, <1>3 DEF FactsAt
<1>5. ResponsesAt(k, s2, t) = ResponsesAt(k, s, t)
         \cup (IF st.time = t /\ ResponseIn(k, st) # 0 THEN {n} ELSE {})
  BY <1>1, <1>2, <1>3 DEF ResponsesAt
<1> QED
  BY <1>2, <1>4, <1>5 DEF Gains, s2, n

(* A statement of the newest time is the last of its time. *)
LEMMA NewIsLatest ==
  ASSUME NEW s \in Seq(Stated), NEW S \in SUBSET DOMAIN s
  PROVE  NewestOf(S \cup {Len(s) + 1}, Len(s) + 1)
BY DEF NewestOf

(* A statement is one of its time; it becomes the last of those that its   *)
(* columns report.                                                         *)
LEMMA StatementShows ==
  ASSUME NEW k, NEW s \in Seq(Stated), NEW st \in Stated, NEW r,
         \A i \in DOMAIN s : s[i].time <= r.seen,
         r.seen = st.time, r.avail = st.avail,
         IF FactIn(k, st) # None THEN r.detail = st.detail
         ELSE \/ FactsAt(k, s, r.seen) = {}
              \/ \E i \in DOMAIN s : NewestOf(FactsAt(k, s, r.seen), i) /\ r.detail = s[i].detail,
         IF ResponseIn(k, st) # 0 THEN r.raw = st.raw
         ELSE \/ ResponsesAt(k, s, r.seen) = {}
              \/ \E i \in DOMAIN s : NewestOf(ResponsesAt(k, s, r.seen), i) /\ r.raw = s[i].raw
  PROVE  Shows(k, r, Append(s, st))
<1> DEFINE s2 == Append(s, st)
           n == Len(s) + 1
<1>1. /\ DOMAIN s2 = DOMAIN s \cup {n} /\ s2[n] = st
      /\ \A i \in DOMAIN s : s2[i] = s[i]
  BY OneMore
<1>2. /\ RowsAt(s2, r.seen) = RowsAt(s, r.seen) \cup {n}
      /\ FactsAt(k, s2, r.seen) = FactsAt(k, s, r.seen)
            \cup (IF FactIn(k, st) # None THEN {n} ELSE {})
      /\ ResponsesAt(k, s2, r.seen) = ResponsesAt(k, s, r.seen)
            \cup (IF ResponseIn(k, st) # 0 THEN {n} ELSE {})
  <2>1. Gains(k, s, s2, n, st, r.seen)
    BY OneMoreAt, Zenon
  <2> QED
    BY <2>1 DEF Gains
<1>3. /\ RowsAt(s, r.seen) \subseteq DOMAIN s /\ FactsAt(k, s, r.seen) \subseteq DOMAIN s
      /\ ResponsesAt(k, s, r.seen) \subseteq DOMAIN s
  BY DEF RowsAt, FactsAt, ResponsesAt
<1>4. /\ NewestOf(RowsAt(s, r.seen) \cup {n}, n) /\ NewestOf(FactsAt(k, s, r.seen) \cup {n}, n)
      /\ NewestOf(ResponsesAt(k, s, r.seen) \cup {n}, n)
  BY <1>3, NewIsLatest
<1>5. st.time \in 1..MaxClock /\ MaxClock \in Nat
  BY RowsAssumption DEF Stated
<1> HIDE DEF s2, n
<1>6. \A i \in DOMAIN s2 : s2[i].time <= r.seen
  BY <1>1, <1>5
<1>7. \E i \in DOMAIN s2 : NewestOf(RowsAt(s2, r.seen), i) /\ r.avail = s2[i].avail
  BY <1>1, <1>2, <1>4
<1>8. \/ FactsAt(k, s2, r.seen) = {}
      \/ \E i \in DOMAIN s2 : NewestOf(FactsAt(k, s2, r.seen), i) /\ r.detail = s2[i].detail
  <2>1. CASE FactIn(k, st) # None
    BY <1>1, <1>2, <1>4, <2>1
  <2>2. CASE FactIn(k, st) = None
    <3>1. FactsAt(k, s2, r.seen) = FactsAt(k, s, r.seen)
      BY <1>2, <2>2
    <3> QED
      BY <1>1, <2>2, <3>1
  <2> QED
    BY <2>1, <2>2
<1>9. \/ ResponsesAt(k, s2, r.seen) = {}
      \/ \E i \in DOMAIN s2 : NewestOf(ResponsesAt(k, s2, r.seen), i) /\ r.raw = s2[i].raw
  <2>1. CASE ResponseIn(k, st) # 0
    BY <1>1, <1>2, <1>4, <2>1
  <2>2. CASE ResponseIn(k, st) = 0
    <3>1. ResponsesAt(k, s2, r.seen) = ResponsesAt(k, s, r.seen)
      BY <1>2, <2>2
    <3> QED
      BY <1>1, <2>2, <3>1
  <2> QED
    BY <2>1, <2>2
<1> QED
  BY <1>6, <1>7, <1>8, <1>9 DEF Shows, s2

(* An older one changes nothing that is shown.                             *)
LEMMA OlderShowsNothing ==
  ASSUME NEW k, NEW s \in Seq(Stated), NEW st \in Stated, NEW r, NEW r2, Shows(k, r, s),
         r.seen \in Nat, st.time < r.seen,
         r2.seen = r.seen, r2.avail = r.avail, r2.detail = r.detail, r2.raw = r.raw
  PROVE  Shows(k, r2, Append(s, st))
<1> DEFINE s2 == Append(s, st)
           n == Len(s) + 1
<1>1. /\ DOMAIN s2 = DOMAIN s \cup {n} /\ s2[n] = st
      /\ \A i \in DOMAIN s : s2[i] = s[i]
  BY OneMore
<1>2. st.time \in 1..MaxClock /\ MaxClock \in Nat
  BY RowsAssumption DEF Stated
<1>3. st.time # r.seen /\ st.time <= r.seen
  BY <1>2
<1>4. /\ RowsAt(s2, r.seen) = RowsAt(s, r.seen)
      /\ FactsAt(k, s2, r.seen) = FactsAt(k, s, r.seen)
      /\ ResponsesAt(k, s2, r.seen) = ResponsesAt(k, s, r.seen)
  <2>1. Gains(k, s, s2, n, st, r.seen)
    BY OneMoreAt, Zenon
  <2> QED
    BY <1>3, <2>1 DEF Gains
<1> HIDE DEF s2, n
<1> QED
  BY <1>1, <1>3, <1>4 DEF Shows, s2

(* What a statement says in the columns of its table.                      *)
LEMMA RowOfFields ==
  ASSUME kind \in Kind, NEW st \in Stated, st.detail \in Fact
  PROVE  /\ RowOf(st) \in Row
         /\ RowOf(st).seen = st.time /\ RowOf(st).avail = st.avail
         /\ RowOf(st).detail = FactIn(kind, st) /\ FactIn(kind, st) \in {None, st.detail}
         /\ RowOf(st).claim \in {None, st.detail}
         /\ RowOf(st).raw = ResponseIn(kind, st) /\ ResponseIn(kind, st) \in {0, st.raw}
<1>1. 0 \in Bundle..MaxPages
  BY RowsAssumption DEF Bundle
<1> QED
  BY <1>1 DEF RowOf, Row, Stated, Fact, FactIn, ResponseIn

(* What an upsert leaves in the row.                                       *)
LEMMA UpsertFields ==
  ASSUME RowInv, NEW st \in Stated, st.detail \in Fact
  PROVE  /\ row = None \/ st.time >= row.seen =>
               /\ Upsert(st).seen = st.time /\ Upsert(st).avail = st.avail
               /\ FactIn(kind, st) # None => Upsert(st).detail = st.detail
               /\ FactIn(kind, st) = None /\ row # None => Upsert(st).detail = row.detail
               /\ ResponseIn(kind, st) # 0 => Upsert(st).raw = st.raw
               /\ ResponseIn(kind, st) = 0 /\ row # None => Upsert(st).raw = row.raw
               /\ row = None => Upsert(st) = RowOf(st)
         /\ row # None /\ ~ st.time >= row.seen =>
               /\ Upsert(st).seen = row.seen /\ Upsert(st).avail = row.avail
               /\ Upsert(st).detail = row.detail /\ Upsert(st).raw = row.raw
         /\ row # None => Upsert(st).claim = IF row.claim # None THEN row.claim ELSE RowOf(st).claim
         /\ Upsert(st) \in Row
<1> DEFINE new == RowOf(st)
<1>1. /\ new \in Row /\ new.seen = st.time /\ new.avail = st.avail
      /\ new.detail = FactIn(kind, st) /\ new.raw = ResponseIn(kind, st)
      /\ new.detail \in {None, st.detail} /\ new.claim \in {None, st.detail}
      /\ new.raw \in {0, st.raw}
  BY RowOfFields DEF RowInv
<1>2. Upsert(st) = IF row = None THEN new
                   ELSE IF new.seen >= row.seen
                   THEN [new EXCEPT !.detail = Coalesce(new.detail, row.detail),
                                    !.claim = Coalesce(row.claim, new.claim),
                                    !.raw = IF new.raw = 0 THEN row.raw ELSE new.raw]
                   ELSE [row EXCEPT !.claim = Coalesce(row.claim, new.claim)]
  BY DEF Upsert
<1>3. row = None \/ row \in Row
  BY DEF RowInv
<1> HIDE DEF new
<1>4. CASE row = None
  BY <1>1, <1>2, <1>4 DEF new
<1>5. CASE row # None /\ new.seen >= row.seen
  <2> DEFINE d == Coalesce(new.detail, row.detail)
             c == Coalesce(row.claim, new.claim)
             r == IF new.raw = 0 THEN row.raw ELSE new.raw
             u == [new EXCEPT !.detail = d, !.claim = c, !.raw = r]
  <2>1. d \in Fact \cup {Marker} /\ c \in Fact /\ r \in Bundle..MaxPages
    BY <1>1, <1>3, <1>5 DEF Row, Coalesce
  <2>2. Upsert(st) = u
    BY <1>2, <1>5
  <2> HIDE DEF d, c, r
  <2>3. /\ u \in Row /\ u.seen = new.seen /\ u.avail = new.avail /\ u.detail = d
        /\ u.claim = c /\ u.raw = r
    BY <1>1, <2>1 DEF Row
  <2> HIDE DEF u
  <2> QED
    BY <1>1, <1>5, <2>2, <2>3 DEF d, c, r, Coalesce, new
<1>6. CASE row # None /\ ~ new.seen >= row.seen
  <2> DEFINE c == Coalesce(row.claim, new.claim)
             u == [row EXCEPT !.claim = c]
  <2>1. c \in Fact
    BY <1>1, <1>3, <1>6 DEF Row, Coalesce
  <2>2. Upsert(st) = u
    BY <1>2, <1>6
  <2> HIDE DEF c
  <2>3. /\ u \in Row /\ u.seen = row.seen /\ u.avail = row.avail /\ u.detail = row.detail
        /\ u.claim = c /\ u.raw = row.raw
    BY <1>3, <1>6, <2>1 DEF Row
  <2> HIDE DEF u
  <2> QED
    BY <1>1, <1>6, <2>2, <2>3 DEF c, Coalesce, new
<1> QED
  BY <1>4, <1>5, <1>6

(* The row then shows it, or goes on to show what is newer.                *)
LEMMA UpsertShows ==
  ASSUME RowInv, NewestInv, NEW st \in Stated, st.detail \in Fact
  PROVE  Shows(kind, Upsert(st), Append(said, st))
<1> DEFINE r == Upsert(st)
<1>1. said \in Seq(Stated) /\ (row = None \/ row \in Row)
  BY DEF RowInv
<1>2. st.time \in Nat /\ MaxClock \in Nat /\ (row # None => row.seen \in Nat)
  BY <1>1, RowsAssumption DEF Stated, Row
<1>3. CASE row = None
  <2>1. said = <<>> /\ DOMAIN said = {}
    BY <1>3 DEF NewestInv
  <2>2. \A t : FactsAt(kind, said, t) = {} /\ ResponsesAt(kind, said, t) = {}
    BY <2>1 DEF FactsAt, ResponsesAt, RowsAt
  <2>3. /\ r.seen = st.time /\ r.avail = st.avail
        /\ FactIn(kind, st) # None => r.detail = st.detail
        /\ ResponseIn(kind, st) # 0 => r.raw = st.raw
    BY <1>3, UpsertFields
  <2> HIDE DEF r
  <2> QED
    BY <1>1, <2>1, <2>2, <2>3, StatementShows DEF r
<1>4. CASE row # None /\ st.time >= row.seen
  <2>1. /\ r.seen = st.time /\ r.avail = st.avail
        /\ IF FactIn(kind, st) # None THEN r.detail = st.detail ELSE r.detail = row.detail
        /\ IF ResponseIn(kind, st) # 0 THEN r.raw = st.raw ELSE r.raw = row.raw
    BY <1>4, UpsertFields
  <2>2. Shows(kind, row, said)
    BY <1>4 DEF NewestInv
  <2>3. \A i \in DOMAIN said : said[i].time \in Nat
    <3> SUFFICES ASSUME NEW i \in DOMAIN said PROVE said[i].time \in Nat
      OBVIOUS
    <3>1. said[i] \in Stated
      BY <1>1
    <3> QED
      BY <1>2, <3>1 DEF Stated
  <2> HIDE DEF r
  <2>4. \A i \in DOMAIN said : said[i].time <= r.seen
    BY <1>2, <1>4, <2>1, <2>2, <2>3 DEF Shows
  <2>5. st.time # row.seen => \A t : t = r.seen => FactsAt(kind, said, t) = {} /\ ResponsesAt(kind, said, t) = {}
    <3>1. \A i \in DOMAIN said : st.time # row.seen => said[i].time # r.seen
      BY <1>2, <1>4, <2>1, <2>2, <2>3 DEF Shows
    <3> QED
      BY <3>1 DEF FactsAt, ResponsesAt, RowsAt
  <2>6. IF FactIn(kind, st) # None THEN r.detail = st.detail
        ELSE \/ FactsAt(kind, said, r.seen) = {}
             \/ \E i \in DOMAIN said : NewestOf(FactsAt(kind, said, r.seen), i) /\ r.detail = said[i].detail
    BY <2>1, <2>2, <2>5 DEF Shows
  <2>7. IF ResponseIn(kind, st) # 0 THEN r.raw = st.raw
        ELSE \/ ResponsesAt(kind, said, r.seen) = {}
             \/ \E i \in DOMAIN said : NewestOf(ResponsesAt(kind, said, r.seen), i) /\ r.raw = said[i].raw
    BY <2>1, <2>2, <2>5 DEF Shows
  <2> QED
    BY <1>1, <2>1, <2>4, <2>6, <2>7, StatementShows DEF r
<1>5. CASE row # None /\ ~ st.time >= row.seen
  <2>1. r.seen = row.seen /\ r.avail = row.avail /\ r.detail = row.detail /\ r.raw = row.raw
    BY <1>5, UpsertFields
  <2>2. Shows(kind, row, said) /\ st.time < row.seen
    BY <1>2, <1>5 DEF NewestInv
  <2> HIDE DEF r
  <2> QED
    BY <1>1, <1>2, <1>5, <2>1, <2>2, OlderShowsNothing DEF r
<1> QED
  BY <1>3, <1>4, <1>5

-----------------------------------------------------------------------------
(* The steps of the rows *)

(* A statement that is written, by a page, a replay or a seed.             *)
LEMMA WriteKeeps ==
  ASSUME RowInv, NewestInv, NEW st \in Stated, st.detail \in Fact,
         row' = Upsert(st), said' = Append(said, st), kind' = kind,
         Len(raws) \in Nat, Len(raws') \in Nat, Len(raws) <= Len(raws'), st.raw <= Len(raws')
  PROVE  RowInv' /\ NewestInv'
<1>1. Upsert(st) \in Row
  BY UpsertFields
<1>2. Shows(kind, Upsert(st), Append(said, st))
  BY UpsertShows
<1>3. row' \in Row /\ row' # None
  BY <1>1, NoRowAssumption
<1>4. row'.raw <= Len(raws')
  <2>1. row = None \/ row \in Row
    BY DEF RowInv
  <2>2. /\ row # None => Upsert(st).raw \in {st.raw, row.raw}
        /\ row = None => Upsert(st).raw = RowOf(st).raw
    BY UpsertFields
  <2>3. RowOf(st).raw \in {0, st.raw}
    BY RowOfFields DEF RowInv
  <2>4. row # None => row.raw \in Int /\ row.raw <= Len(raws)
    BY <2>1, RowsAssumption DEF RowInv, Row, Bundle
  <2> QED
    BY <2>2, <2>3, <2>4
<1>5. NewestInv'
  BY <1>2, <1>3 DEF NewestInv
<1>6. RowInv'
  BY <1>3, <1>4 DEF RowInv
<1> QED
  BY <1>5, <1>6

(* What a normalizer reads in a retained response.                         *)
LEMMA StatementType ==
  ASSUME NEW raw \in Raw, NEW r \in 1..MaxPages, NEW v \in 1..2
  PROVE  Statement(raw, r, v) \in Stated /\ Statement(raw, r, v).detail \in Fact
         /\ Statement(raw, r, v).raw \in {0, r}
<1>1. /\ raw.time \in 1..MaxClock /\ raw.avail \in Availability /\ raw.detail \in Fact
      /\ raw.stub \in BOOLEAN
  BY DEF Raw
<1>2. {0, r} \subseteq Bundle..MaxPages
  BY RowsAssumption DEF Bundle
<1> DEFINE avail == IF raw.stub THEN "available" ELSE raw.avail
           detail == IF raw.stub \/ v = 1 THEN None ELSE raw.detail
           from == IF raw.stub /\ kind = "post" THEN 0 ELSE r
<1>3. avail \in Availability
  BY <1>1 DEF Availability
<1>4. detail \in Fact
  BY <1>1 DEF Fact
<1>5. from \in {0, r}
  OBVIOUS
<1>6. Statement(raw, r, v) = [time |-> raw.time, avail |-> avail, detail |-> detail, raw |-> from]
  BY DEF Statement
<1> HIDE DEF avail, detail, from
<1> QED
  BY <1>1, <1>2, <1>3, <1>4, <1>5, <1>6 DEF Stated

(* The states of the processes.                                            *)
LEMMA JobFields ==
  ASSUME WorldInv, NEW w \in Writer
  PROVE  /\ job[w] \in Job
         /\ job[w].does = "page" => job[w].answer \in Raw /\ job[w].version \in 1..2
         /\ job[w].does = "replay" => job[w].version \in 1..2
         /\ job[w].does \in {"post tags", "tag record"} => job[w].tag \in Tag /\ job[w].name \in Name
<1>1. job[w] \in Job
  BY DEF WorldInv
<1> DEFINE j == job[w]
<1>2. j \in Job
  BY <1>1
<1> HIDE DEF j
<1>3. CASE j \in [does : {"page"}, version : 1..2, answer : Raw]
  BY <1>2, <1>3 DEF j
<1>4. CASE j \in [does : {"replay"}, version : 1..2, raw : Nat]
  BY <1>2, <1>4 DEF j
<1>5. CASE j \in [does : {"post tags", "tag record"}, tag : Tag, name : Name]
  BY <1>2, <1>5 DEF j
<1>6. CASE j = Nothing
  BY <1>2, <1>6 DEF j, Nothing
<1> QED
  BY <1>2, <1>3, <1>4, <1>5, <1>6 DEF Job

(* Who is fetching a page. *)
LEMMA FlightFacts ==
  ASSUME WorldInv, NEW w \in Writer, NEW new, job' = [job EXCEPT ![w] = new]
  PROVE  /\ Cardinality(InFlight) \in Nat /\ Len(raws) \in Nat
         /\ Cardinality(InFlight') =
               Cardinality(InFlight) + (IF new.does = "page" THEN 1 ELSE 0)
                                     - (IF job[w].does = "page" THEN 1 ELSE 0)
<1>1. IsFiniteSet(InFlight) /\ IsFiniteSet(InFlight \ {w})
  BY RowsAssumption, FS_Subset DEF InFlight
<1>2. InFlight' \ {w} = InFlight \ {w} /\ (w \in InFlight' <=> new.does = "page")
  BY DEF InFlight, WorldInv
<1>3. w \in InFlight <=> job[w].does = "page"
  BY DEF InFlight
<1>4. Cardinality(InFlight) = Cardinality(InFlight \ {w}) + (IF w \in InFlight THEN 1 ELSE 0)
      /\ Cardinality(InFlight \ {w}) \in Nat
  <2>1. CASE w \in InFlight
    <3>1. Cardinality(InFlight \ {w}) = Cardinality(InFlight) - 1
      BY <1>1, <2>1, FS_RemoveElement
    <3> QED
      BY <1>1, <2>1, <3>1, FS_CardinalityType
  <2>2. CASE w \notin InFlight
    <3>1. InFlight \ {w} = InFlight
      BY <2>2
    <3>2. Cardinality(InFlight) \in Nat
      BY <1>1, FS_CardinalityType
    <3> QED
      BY <2>2, <3>1, <3>2
  <2> QED
    BY <2>1, <2>2
<1>5. Cardinality(InFlight') = Cardinality(InFlight \ {w}) + (IF w \in InFlight' THEN 1 ELSE 0)
  <2>1. CASE w \in InFlight'
    <3>1. InFlight' = (InFlight \ {w}) \cup {w}
      BY <1>2, <2>1
    <3>2. Cardinality((InFlight \ {w}) \cup {w}) = Cardinality(InFlight \ {w}) + 1
      BY <1>1, FS_AddElement
    <3> QED
      BY <2>1, <3>1, <3>2
  <2>2. CASE w \notin InFlight'
    <3>1. InFlight' = InFlight \ {w}
      BY <1>2, <2>2
    <3> QED
      BY <1>4, <2>2, <3>1
  <2> QED
    BY <2>1, <2>2
<1>6. Cardinality(InFlight) \in Nat /\ Len(raws) \in Nat
  BY <1>1, FS_CardinalityType DEF WorldInv
<1> QED
  BY <1>2, <1>3, <1>4, <1>5, <1>6

(* What rests as long as the rows do.                                      *)
LEMMA RestingRows ==
  ASSUME HistoryInv, RowInv, NewestInv, UNCHANGED rowVars
  PROVE  HistoryInv' /\ RowInv' /\ NewestInv'
<1>1. /\ raws' = raws /\ replays' = replays /\ kind' = kind /\ row' = row /\ history' = history
      /\ said' = said
  BY DEF rowVars
<1>2. RowInv' /\ NewestInv'
  BY <1>1 DEF RowInv, NewestInv
<1>3. HistoryInv'
  BY <1>1 DEF HistoryInv, Noted, HistoryKey, Statement
<1> QED
  BY <1>2, <1>3

(* A process that takes up a page, a replay, a tag, or nothing. *)
LEMMA JobKeeps ==
  ASSUME WorldInv, ReplayInv, NEW w \in Writer, NEW new \in Job, job' = [job EXCEPT ![w] = new],
         UNCHANGED <<now, version, source, events, raws>>,
         new.does = "page" => Idle(w) /\ Len(raws) + Cardinality(InFlight) < MaxPages,
         new.does = "replay" => new.raw \in DOMAIN raws
  PROVE  WorldInv' /\ ReplayInv'
<1>1. job' \in [Writer -> Job] /\ \A q \in Writer : job'[q] = IF q = w THEN new ELSE job[q]
  BY DEF WorldInv
<1>2. /\ Cardinality(InFlight) \in Nat /\ Len(raws) \in Nat
      /\ Cardinality(InFlight') = Cardinality(InFlight) + (IF new.does = "page" THEN 1 ELSE 0)
                                     - (IF job[w].does = "page" THEN 1 ELSE 0)
  BY FlightFacts
<1>3. MaxPages \in Nat
  BY RowsAssumption
<1>4. Len(raws) + Cardinality(InFlight') <= MaxPages
  <2>1. CASE new.does = "page"
    <3>1. job[w].does # "page"
      BY <2>1 DEF Idle
    <3> QED
      BY <1>2, <1>3, <2>1, <3>1
  <2>2. CASE new.does # "page"
    <3>1. Len(raws) + Cardinality(InFlight) <= MaxPages
      BY DEF WorldInv
    <3> QED
      BY <1>2, <1>3, <2>2, <3>1
  <2> QED
    BY <2>1, <2>2
<1>5. WorldInv'
  BY <1>1, <1>4 DEF WorldInv
<1>6. ReplayInv'
  BY <1>1 DEF ReplayInv
<1> QED
  BY <1>5, <1>6

(* A page is on its way. *)
LEMMA FetchKeeps ==
  ASSUME RowsInv, NEW w \in Writer, Fetch(w)
  PROVE  RowsInv'
<1>1. PICK blank \in BOOLEAN :
         job' = [job EXCEPT ![w] = [does |-> "page", version |-> version, answer |->
                    [time |-> now, avail |-> source.avail, detail |-> source.detail,
                     stub |-> blank, version |-> version]]]
  BY DEF Fetch
<1> DEFINE raw == [time |-> now, avail |-> source.avail, detail |-> source.detail,
                   stub |-> blank, version |-> version]
           new == [does |-> "page", version |-> version, answer |-> raw]
<1>2. raw \in Raw
  BY DEF RowsInv, WorldInv, Raw
<1>3. job' = [job EXCEPT ![w] = new]
  BY <1>1
<1> HIDE DEF raw
<1>4. new \in Job /\ new.does = "page"
  BY <1>2 DEF Job, RowsInv, WorldInv
<1> HIDE DEF new
<1>5. WorldInv' /\ ReplayInv'
  BY <1>3, <1>4, JobKeeps DEF RowsInv, Fetch, rowVars
<1> QED
  BY <1>5, RestingRows DEF RowsInv, Fetch

(* A process finds something to replay. *)
LEMMA ReplayCheckKeeps ==
  ASSUME RowsInv, NEW w \in Writer, ReplayCheck(w)
  PROVE  RowsInv'
<1>1. PICK r \in DOMAIN raws :
         job' = [job EXCEPT ![w] = [does |-> "replay", version |-> version, raw |-> r]]
  BY DEF ReplayCheck
<1> DEFINE new == [does |-> "replay", version |-> version, raw |-> r]
<1>2. new \in Job /\ new.does = "replay" /\ new.raw = r
  <2>1. version \in 1..2 /\ r \in Nat
    BY <1>1 DEF RowsInv, WorldInv
  <2>2. new \in [does : {"replay"}, version : 1..2, raw : Nat]
    BY <2>1
  <2> QED
    BY <2>2 DEF Job
<1>3. job' = [job EXCEPT ![w] = new]
  BY <1>1
<1> HIDE DEF new
<1>4. WorldInv' /\ ReplayInv'
  BY <1>1, <1>2, <1>3, JobKeeps DEF RowsInv, ReplayCheck, rowVars
<1> QED
  BY <1>4, RestingRows DEF RowsInv, ReplayCheck

(* A process dies, or is refused. *)
LEMMA AbandonKeeps ==
  ASSUME RowsInv, NEW w \in Writer, Abandon(w)
  PROVE  RowsInv'
<1>1. Nothing \in Job /\ Nothing.does = "nothing"
  BY DEF Job, Nothing
<1>2. WorldInv' /\ ReplayInv'
  BY <1>1, JobKeeps DEF RowsInv, Abandon, rowVars
<1> QED
  BY <1>2, RestingRows DEF RowsInv, Abandon

(* The clock, the software and the provider. *)
LEMMA WorldKeeps ==
  ASSUME RowsInv, World \/ Tick
  PROVE  RowsInv'
<1>1. /\ UNCHANGED <<job, rowVars>>
      /\ now' \in 1..MaxClock /\ version' \in 1..2 /\ events' \in 0..MaxEvents
      /\ source' \in [avail : Availability, detail : Fact]
  <2>1. CASE Tick
    BY <2>1, RowsAssumption DEF Tick, RowsInv, WorldInv
  <2>2. CASE World
    <3>1. UNCHANGED <<job, rowVars>> /\ now' = now
      BY <2>2 DEF World, Upgrade, SourceChanges
    <3>2. events' \in 0..MaxEvents
      BY <2>2, RowsAssumption DEF World, Event, RowsInv, WorldInv
    <3>3. version' \in 1..2
      BY <2>2 DEF World, Upgrade, SourceChanges, RowsInv, WorldInv
    <3>4. source' \in [avail : Availability, detail : Fact]
      <4>1. CASE Upgrade
        BY <4>1 DEF Upgrade, RowsInv, WorldInv
      <4>2. CASE SourceChanges
        BY <4>2 DEF SourceChanges, Availability, Fact
      <4> QED
        BY <2>2, <4>1, <4>2 DEF World
    <3> QED
      BY <3>1, <3>2, <3>3, <3>4 DEF RowsInv, WorldInv
  <2> QED
    BY <2>1, <2>2
<1>2. WorldInv' /\ ReplayInv'
  BY <1>1 DEF RowsInv, WorldInv, ReplayInv, InFlight, rowVars
<1> QED
  BY <1>1, <1>2, RestingRows DEF RowsInv

(* A page and its response. *)
LEMMA WritePageKeeps ==
  ASSUME RowsInv, NEW w \in Writer, WritePage(w)
  PROVE  RowsInv'
<1> DEFINE raw == job[w].answer
           n == Len(raws) + 1
           st == Statement(raw, n, job[w].version)
<1>1. /\ raw \in Raw /\ job[w].version \in 1..2 /\ job[w].does = "page"
      /\ raws \in Seq(Raw) /\ Len(raws) + Cardinality(InFlight) <= MaxPages
  BY JobFields DEF RowsInv, WritePage, WorldInv
<1>2. Nothing \in Job /\ Nothing.does = "nothing"
  BY DEF Job, Nothing
<1>3. /\ job' = [job EXCEPT ![w] = Nothing] /\ raws' = Append(raws, raw)
      /\ row' = Upsert(st) /\ said' = Append(said, st) /\ Observe(st)
      /\ UNCHANGED <<now, version, source, replays, kind, events>>
  BY DEF WritePage, StoreRaw, Write
<1> HIDE DEF raw
<1>4. /\ raws' \in Seq(Raw) /\ Len(raws') = n /\ DOMAIN raws' = DOMAIN raws \cup {n}
      /\ \A r \in DOMAIN raws : raws'[r] = raws[r]
  BY <1>1, <1>3, OneMore
<1>5. /\ Cardinality(InFlight) \in Nat /\ Len(raws) \in Nat
      /\ Cardinality(InFlight') = Cardinality(InFlight) - 1
  <2>1. /\ Cardinality(InFlight) \in Nat /\ Len(raws) \in Nat
        /\ Cardinality(InFlight') =
              Cardinality(InFlight) + (IF Nothing.does = "page" THEN 1 ELSE 0)
                                    - (IF job[w].does = "page" THEN 1 ELSE 0)
    BY <1>3, FlightFacts DEF RowsInv
  <2> QED
    BY <1>1, <1>2, <2>1
<1>6. InFlight # {} /\ Cardinality(InFlight) # 0
  <2>1. w \in InFlight /\ IsFiniteSet(InFlight)
    BY <1>1, RowsAssumption, FS_Subset DEF InFlight
  <2> QED
    BY <2>1, FS_EmptySet
<1>7. n \in 1..MaxPages /\ Len(raws') + Cardinality(InFlight') <= MaxPages
  BY <1>1, <1>4, <1>5, <1>6, RowsAssumption
<1>8. st \in Stated /\ st.detail \in Fact /\ st.raw \in {0, n}
  BY <1>1, <1>7, StatementType
<1> HIDE DEF st
<1>9. RowInv' /\ NewestInv'
  BY <1>3, <1>4, <1>5, <1>8, WriteKeeps DEF RowsInv
<1>10. job' \in [Writer -> Job] /\ \A q \in Writer : job'[q] = IF q = w THEN Nothing ELSE job[q]
  BY <1>2, <1>3 DEF RowsInv, WorldInv
<1>11. WorldInv' /\ ReplayInv'
  BY <1>2, <1>3, <1>4, <1>7, <1>10 DEF RowsInv, WorldInv, ReplayInv
<1>12. HistoryInv'
  <2>1. history \subseteq history' /\ kind' = kind /\ replays' = replays
    BY <1>3 DEF Observe
  <2> SUFFICES ASSUME NEW run \in replays
               PROVE  (/\ run.raw \in DOMAIN raws
                       /\ Noted(Statement(raws[run.raw], run.raw, run.version)))'
    BY <2>1 DEF HistoryInv
  <2> DEFINE old == Statement(raws[run.raw], run.raw, run.version)
  <2>2. run.raw \in DOMAIN raws' /\ Noted(old) /\ raws'[run.raw] = raws[run.raw]
    BY <1>4 DEF RowsInv, HistoryInv
  <2>3. old' = old
    BY <2>1, <2>2 DEF Statement
  <2> HIDE DEF old
  <2>4. HistoryKey(old)' = HistoryKey(old)
    BY <2>1, <2>3 DEF HistoryKey
  <2>5. Noted(old)'
    BY <2>1, <2>2, <2>3, <2>4 DEF Noted
  <2> QED
    BY <2>2, <2>5 DEF old
<1> QED
  BY <1>9, <1>11, <1>12 DEF RowsInv

(* A replay of a retained response. *)
LEMMA ReplayWriteKeeps ==
  ASSUME RowsInv, NEW w \in Writer, ReplayWrite(w)
  PROVE  RowsInv'
<1> PICK r, v : r = job[w].raw /\ v = job[w].version
  OBVIOUS
<1> DEFINE st == Statement(raws[r], r, v)
<1>1. /\ v \in 1..2 /\ r \in DOMAIN raws /\ raws \in Seq(Raw)
      /\ Len(raws) + Cardinality(InFlight) <= MaxPages
  BY JobFields DEF RowsInv, ReplayWrite, WorldInv, ReplayInv
<1>2. Nothing \in Job /\ Nothing.does = "nothing"
  BY DEF Job, Nothing
<1>3. /\ job' = [job EXCEPT ![w] = Nothing]
      /\ row' = Upsert(st) /\ said' = Append(said, st) /\ Observe(st)
      /\ replays' = replays \cup {ReplayRun(r, v)}
      /\ UNCHANGED <<now, version, source, raws, kind, events>>
  BY DEF ReplayWrite, Write
<1>4. Cardinality(InFlight) \in Nat /\ Len(raws) \in Nat
  BY <1>3, FlightFacts DEF RowsInv
<1>5. raws[r] \in Raw /\ r \in 1..MaxPages /\ r <= Len(raws)
  BY <1>1, <1>4, RowsAssumption
<1>6. st \in Stated /\ st.detail \in Fact /\ st.raw \in {0, r}
  BY <1>1, <1>5, StatementType
<1>7. st.raw <= Len(raws)
  BY <1>4, <1>5, <1>6
<1>8. RowInv' /\ NewestInv'
  <2> HIDE DEF st
  <2> QED
    BY <1>3, <1>4, <1>6, <1>7, WriteKeeps DEF RowsInv
<1>9. WorldInv' /\ ReplayInv'
  BY <1>2, <1>3, JobKeeps DEF RowsInv
<1>10. HistoryInv'
  <2>1. ASSUME NEW run \in replays
        PROVE  run.raw \in DOMAIN raws' /\ Noted(Statement(raws[run.raw], run.raw, run.version))'
    BY <1>3, <2>1 DEF RowsInv, HistoryInv, Noted, Observe, HistoryKey, Statement
  <2>2. Noted(st)'
    BY <1>3 DEF Noted, Observe, HistoryKey, Statement
  <2>3. ReplayRun(r, v).raw = r /\ ReplayRun(r, v).version = v
    BY DEF ReplayRun
  <2> QED
    BY <1>1, <1>3, <2>1, <2>2, <2>3 DEF HistoryInv
<1> QED
  BY <1>8, <1>9, <1>10 DEF RowsInv

(* An operator's seed, which reports no facts and has a response of its own. *)
LEMMA SeedKeeps ==
  ASSUME RowsInv, Seed
  PROVE  RowsInv'
<1> DEFINE st == [time |-> now, avail |-> "unknown", detail |-> None, raw |-> Bundle]
<1>1. /\ row' = Upsert(st) /\ said' = Append(said, st) /\ Event
      /\ UNCHANGED <<now, version, source, job, raws, replays, kind, history>>
  BY DEF Seed
<1>2. st \in Stated /\ st.detail \in Fact /\ st.raw = -1
  <2>1. Bundle \in Bundle..MaxPages /\ Bundle = -1
    BY RowsAssumption DEF Bundle
  <2> QED
    BY <2>1 DEF Stated, Availability, Fact, RowsInv, WorldInv
<1>3. Len(raws) \in Nat /\ raws' = raws
  BY <1>1 DEF RowsInv, WorldInv
<1>4. st.raw <= Len(raws')
  BY <1>2, <1>3
<1> HIDE DEF st
<1>5. RowInv' /\ NewestInv'
  BY <1>1, <1>2, <1>3, <1>4, WriteKeeps DEF RowsInv
<1>6. events' \in 0..MaxEvents
  BY <1>1, RowsAssumption DEF Event, RowsInv, WorldInv
<1>7. WorldInv' /\ ReplayInv'
  BY <1>1, <1>6 DEF RowsInv, WorldInv, ReplayInv, InFlight
<1>8. HistoryInv'
  BY <1>1 DEF RowsInv, HistoryInv, Noted, HistoryKey, Statement
<1> QED
  BY <1>5, <1>7, <1>8 DEF RowsInv

(* An operator's marks, which are a statement of the row's own time. *)
LEMMA TombstoneKeeps ==
  ASSUME RowsInv, Tombstone
  PROVE  RowsInv'
<1> DEFINE st == [time |-> row.seen, avail |-> "unavailable", detail |-> Marker, raw |-> 0]
           r == [row EXCEPT !.avail = "unavailable", !.detail = Marker]
<1>1. /\ row' = r /\ said' = Append(said, st) /\ Event /\ kind = "post" /\ row # None
      /\ UNCHANGED <<now, version, source, job, raws, replays, kind, history>>
  BY DEF Tombstone
<1>2. row \in Row /\ said \in Seq(Stated) /\ row.raw <= Len(raws) /\ Shows(kind, row, said)
  BY <1>1 DEF RowsInv, RowInv, NewestInv
<1>3. Marker # None /\ Marker \in Fact \cup {Marker}
  BY RowsAssumption DEF Marker
<1>4. st \in Stated /\ st.time = row.seen /\ st.avail = "unavailable" /\ st.detail = Marker /\ st.raw = 0
  <2>1. 0 \in Bundle..MaxPages
    BY RowsAssumption DEF Bundle
  <2>2. row.seen \in 1..MaxClock
    BY <1>2 DEF Row
  <2> QED
    BY <1>3, <2>1, <2>2 DEF Stated, Availability
<1>5. /\ r \in Row /\ r.seen = row.seen /\ r.avail = "unavailable" /\ r.detail = Marker
      /\ r.raw = row.raw
  BY <1>2, <1>3 DEF Row, Availability
<1>6. FactIn(kind, st) # None /\ ResponseIn(kind, st) = 0
  BY <1>1, <1>3, <1>4 DEF FactIn, ResponseIn
<1> HIDE DEF st, r
<1>7. Shows(kind, r, Append(said, st))
  <2>1. \A i \in DOMAIN said : said[i].time <= r.seen
    BY <1>2, <1>5 DEF Shows
  <2>2. \/ ResponsesAt(kind, said, r.seen) = {}
        \/ \E i \in DOMAIN said : NewestOf(ResponsesAt(kind, said, r.seen), i) /\ r.raw = said[i].raw
    BY <1>2, <1>5 DEF Shows
  <2> QED
    BY <1>2, <1>4, <1>5, <1>6, <2>1, <2>2, StatementShows
<1>8. r # None
  BY <1>5, NoRowAssumption
<1>9. RowInv' /\ NewestInv'
  <2>1. Append(said, st) \in Seq(Stated)
    BY <1>2, <1>4
  <2> QED
    BY <1>1, <1>2, <1>5, <1>7, <1>8, <2>1 DEF RowsInv, RowInv, NewestInv
<1>10. events' \in 0..MaxEvents
  BY <1>1, RowsAssumption DEF Event, RowsInv, WorldInv
<1>11. WorldInv' /\ ReplayInv'
  BY <1>1, <1>10 DEF RowsInv, WorldInv, ReplayInv, InFlight
<1>12. HistoryInv'
  BY <1>1 DEF RowsInv, HistoryInv, Noted, HistoryKey, Statement
<1> QED
  BY <1>9, <1>11, <1>12 DEF RowsInv

-----------------------------------------------------------------------------
(* The steps of the tags *)

(* The provider's tags leave the rows alone. *)
LEMMA TagStepKeepsRows ==
  ASSUME RowsInv, TagInv, TagStep
  PROVE  RowsInv'
<1>1. UNCHANGED <<now, version, source, rowVars>> /\ raws' = raws
  BY DEF TagStep, rowVars
<1>2. WorldInv' /\ ReplayInv'
  <2>1. ASSUME NEW w \in Writer, FetchTags(w)
        PROVE  WorldInv' /\ ReplayInv'
    <3>1. PICK t \in Tag, does \in {"post tags", "tag record"} :
             job' = [job EXCEPT ![w] = [does |-> does, tag |-> t, name |-> tagSource[t]]]
      BY <2>1 DEF FetchTags
    <3> DEFINE new == [does |-> does, tag |-> t, name |-> tagSource[t]]
    <3>2. new \in Job /\ new.does \notin {"page", "replay"}
      BY DEF Job, TagInv
    <3>3. job' = [job EXCEPT ![w] = new]
      BY <3>1
    <3> HIDE DEF new
    <3> QED
      BY <1>1, <2>1, <3>2, <3>3, JobKeeps DEF RowsInv, FetchTags
  <2>2. ASSUME NEW w \in Writer, WriteTags(w)
        PROVE  WorldInv' /\ ReplayInv'
    <3>1. Nothing \in Job /\ Nothing.does = "nothing"
      BY DEF Job, Nothing
    <3> QED
      BY <1>1, <2>2, <3>1, JobKeeps DEF RowsInv, WriteTags
  <2>3. CASE TagsRenamed
    <3>1. events' \in 0..MaxEvents /\ job' = job
      BY <2>3, RowsAssumption DEF TagsRenamed, Event, RowsInv, WorldInv
    <3> QED
      BY <1>1, <3>1 DEF RowsInv, WorldInv, ReplayInv, InFlight
  <2> QED
    BY <2>1, <2>2, <2>3 DEF TagStep
<1> QED
  BY <1>1, <1>2, RestingRows DEF RowsInv

(* A step of the rows leaves the tags alone, and takes up no tag.          *)
LEMMA RowStepKeepsTags ==
  ASSUME RowsInv, TagInv, RowStep
  PROVE  TagInv'
<1>1. UNCHANGED <<tagSource, tags, postTags, named>>
  BY DEF RowStep, tagVars
<1>2. \A w \in Writer : job'[w] = job[w] \/ job'[w].does \in {"page", "replay", "nothing"}
  <2>1. job \in [Writer -> Job]
    BY DEF RowsInv, WorldInv
  <2>2. ASSUME NEW w \in Writer, Fetch(w)
        PROVE  \A q \in Writer : job'[q] = job[q] \/ job'[q].does \in {"page", "replay", "nothing"}
    BY <2>1, <2>2 DEF Fetch
  <2>3. ASSUME NEW w \in Writer, ReplayCheck(w)
        PROVE  \A q \in Writer : job'[q] = job[q] \/ job'[q].does \in {"page", "replay", "nothing"}
    BY <2>1, <2>3 DEF ReplayCheck
  <2>4. ASSUME NEW w \in Writer, WritePage(w) \/ ReplayWrite(w) \/ Abandon(w)
        PROVE  \A q \in Writer : job'[q] = job[q] \/ job'[q].does \in {"page", "replay", "nothing"}
    BY <2>1, <2>4 DEF WritePage, ReplayWrite, Abandon, Nothing
  <2>5. CASE Tombstone \/ Seed \/ World \/ Tick
    BY <2>5 DEF Tombstone, Seed, World, Tick
  <2> QED
    BY <2>2, <2>3, <2>4, <2>5 DEF RowStep
<1>3. \A w \in Writer : job'[w].does \in {"post tags", "tag record"} => job'[w] = job[w]
  BY <1>2
<1> QED
  BY <1>1, <1>3 DEF TagInv

(* A row of a tag that is added is distinct if its name and identifier are new. *)
LEMMA TagAdded ==
  ASSUME NEW rows \in Seq(TagRow), Distinct(rows), NEW x \in TagRow,
         \A i \in DOMAIN rows : rows[i].name # x.name /\ (x.id = None \/ rows[i].id # x.id)
  PROVE  Distinct(Append(rows, x))
<1> DEFINE s2 == Append(rows, x)
           n == Len(rows) + 1
<1>1. /\ DOMAIN s2 = DOMAIN rows \cup {n} /\ s2[n] = x
      /\ \A i \in DOMAIN rows : s2[i] = rows[i]
  BY OneMore
<1> HIDE DEF s2, n
<1>2. Distinct(s2)
  <2> SUFFICES ASSUME NEW i \in DOMAIN s2, NEW j \in DOMAIN s2, i # j
               PROVE  s2[i].name # s2[j].name /\ (s2[i].id = None \/ s2[i].id # s2[j].id)
    BY DEF Distinct
  <2>1. CASE i \in DOMAIN rows /\ j \in DOMAIN rows
    BY <1>1, <2>1 DEF Distinct
  <2>2. CASE i \in DOMAIN rows /\ j = n
    BY <1>1, <2>2
  <2>3. CASE i = n /\ j \in DOMAIN rows
    BY <1>1, <2>3
  <2> QED
    BY <1>1, <2>1, <2>2, <2>3
<1> QED
  BY <1>2 DEF s2

(* A tag that a page of a post names. *)
LEMMA PostTagKeeps ==
  ASSUME RowsInv, TagInv, NEW w \in Writer, WritePostTag(w)
  PROVE  /\ tags' \in Seq(TagRow) /\ Distinct(tags') /\ DOMAIN tags \subseteq DOMAIN tags'
         /\ \A i \in DOMAIN tags' : tags'[i].id # None => tags'[i].name \in named[tags'[i].id]
         /\ \A i \in DOMAIN tags : tags[i].id # None => tags'[i].id = tags[i].id
         /\ \A l \in postTags' : l[1] \in DOMAIN tags'
<1> DEFINE n == job[w].name
           x == [id |-> None, name |-> n]
           found == RowsWith("name", n)
           k == IF found = {} THEN Len(tags) + 1 ELSE CHOOSE f \in found : TRUE
<1>1. /\ n \in Name /\ tags \in Seq(TagRow) /\ Distinct(tags)
      /\ \A i \in DOMAIN tags : tags[i].id # None => tags[i].name \in named[tags[i].id]
      /\ \A l \in postTags : l[1] \in DOMAIN tags
  BY JobFields DEF RowsInv, TagInv, WritePostTag
<1>2. /\ tags' = (IF found = {} THEN Append(tags, x) ELSE tags)
      /\ postTags' = postTags \cup {<<k, n>>}
  BY DEF WritePostTag
<1>3. CASE found # {}
  <2>1. k \in DOMAIN tags /\ tags' = tags
    BY <1>2, <1>3 DEF RowsWith
  <2> HIDE DEF k, n
  <2>2. \A l \in postTags' : l[1] \in DOMAIN tags
    BY <1>1, <1>2, <2>1
  <2> QED
    BY <1>1, <2>1, <2>2
<1>4. CASE found = {}
  <2>1. k = Len(tags) + 1 /\ tags' = Append(tags, x)
    BY <1>2, <1>4
  <2>2. x \in TagRow /\ x.id = None /\ x.name = n
    BY <1>1 DEF TagRow
  <2>3. \A i \in DOMAIN tags : tags[i].name # n
    BY <1>4 DEF RowsWith
  <2> HIDE DEF k, n, x, found
  <2>4. /\ tags' \in Seq(TagRow) /\ DOMAIN tags' = DOMAIN tags \cup {k} /\ tags'[k] = x
        /\ \A i \in DOMAIN tags : tags'[i] = tags[i]
    BY <1>1, <2>1, <2>2, OneMore
  <2>5. Distinct(tags')
    BY <1>1, <2>1, <2>2, <2>3, TagAdded
  <2>6. \A l \in postTags' : l[1] \in DOMAIN tags'
    BY <1>1, <1>2, <2>4
  <2> QED
    BY <1>1, <2>2, <2>4, <2>5, <2>6
<1> QED
  BY <1>3, <1>4

(* A record of a tag: the row of its identifier is renamed, the row of its *)
(* name is bound, or a row is added, unless another row is in the way.     *)
LEMMA TagRecordKeeps ==
  ASSUME RowsInv, TagInv, NEW w \in Writer, WriteTagRecord(w)
  PROVE  /\ tags' \in Seq(TagRow) /\ Distinct(tags') /\ DOMAIN tags \subseteq DOMAIN tags'
         /\ \A i \in DOMAIN tags' : tags'[i].id # None => tags'[i].name \in named[tags'[i].id]
         /\ \A i \in DOMAIN tags : tags[i].id # None => tags'[i].id = tags[i].id
         /\ \A l \in postTags' : l[1] \in DOMAIN tags'
<1> DEFINE t == job[w].tag
           n == job[w].name
           x == [id |-> t, name |-> n]
           bound == RowsWith("id", t)
           taken == {i \in RowsWith("name", n) \ bound : bound # {} \/ tags[i].id # None}
           target == IF bound # {} THEN bound ELSE RowsWith("name", n)
<1>1. /\ t \in Tag /\ n \in Name /\ n \in named[t]
      /\ tags \in Seq(TagRow) /\ Distinct(tags)
      /\ \A i \in DOMAIN tags : tags[i].id # None => tags[i].name \in named[tags[i].id]
      /\ \A l \in postTags : l[1] \in DOMAIN tags
  BY JobFields DEF RowsInv, TagInv, WriteTagRecord
<1>2. /\ tags' = IF taken # {} THEN tags
                 ELSE IF target # {}
                 THEN [i \in DOMAIN tags |-> IF i \in target THEN x ELSE tags[i]]
                 ELSE Append(tags, x)
      /\ postTags' = postTags
  BY DEF WriteTagRecord
<1>3. t # None /\ x \in TagRow /\ x.id = t /\ x.name = n
  BY <1>1, RowsAssumption DEF TagRow
<1>4. /\ \A i \in bound : i \in DOMAIN tags /\ tags[i].id = t
      /\ \A i \in DOMAIN tags : i \notin bound => tags[i].id # t
      /\ \A i \in DOMAIN tags : i \notin RowsWith("name", n) => tags[i].name # n
      /\ \A i \in RowsWith("name", n) : i \in DOMAIN tags /\ tags[i].name = n
  BY DEF RowsWith
<1>5. \A i, j \in target : i = j
  BY <1>1, <1>3, <1>4 DEF Distinct
<1>6. target \subseteq DOMAIN tags
  BY <1>4
<1>7. CASE taken # {}
  <2> HIDE DEF t, n, x, bound, taken, target
  <2>1. tags' = tags
    BY <1>2, <1>7
  <2> QED
    BY <1>1, <1>2, <2>1
<1>8. CASE taken = {} /\ target # {}
  <2>1. tags' = [i \in DOMAIN tags |-> IF i \in target THEN x ELSE tags[i]]
    BY <1>2, <1>8
  <2>2. \A i \in DOMAIN tags : i \notin target => tags[i].name # n /\ tags[i].id # t
    BY <1>4, <1>8
  <2>3. \A i \in target : tags[i].id \in {None, t}
    BY <1>4, <1>8
  <2> HIDE DEF t, n, x, bound, taken, target
  <2>4. tags' \in Seq(TagRow) /\ DOMAIN tags' = DOMAIN tags
    <3>1. DOMAIN tags = 1..Len(tags) /\ Len(tags) \in Nat /\ \A i \in DOMAIN tags : tags[i] \in TagRow
      BY <1>1
    <3>2. tags' \in [1..Len(tags) -> TagRow]
      BY <1>3, <2>1, <3>1
    <3> QED
      BY <3>1, <3>2
  <2>5. Distinct(tags')
    <3> SUFFICES ASSUME NEW i \in DOMAIN tags, NEW j \in DOMAIN tags, i # j
                 PROVE  tags'[i].name # tags'[j].name
                        /\ (tags'[i].id = None \/ tags'[i].id # tags'[j].id)
      BY <2>4 DEF Distinct
    <3>1. CASE i \in target
      <4>1. j \notin target
        BY <1>5, <3>1
      <4> QED
        BY <1>3, <2>1, <2>2, <3>1, <4>1
    <3>2. CASE i \notin target
      BY <1>1, <1>3, <2>1, <2>2, <3>2 DEF Distinct
    <3> QED
      BY <3>1, <3>2
  <2> QED
    BY <1>1, <1>2, <1>3, <2>1, <2>3, <2>4, <2>5
<1>9. CASE taken = {} /\ target = {}
  <2>1. tags' = Append(tags, x)
    BY <1>2, <1>9
  <2>2. \A i \in DOMAIN tags : tags[i].name # n /\ tags[i].id # t
    BY <1>4, <1>9
  <2> HIDE DEF t, n, x, bound, taken, target
  <2>3. /\ tags' \in Seq(TagRow) /\ DOMAIN tags' = DOMAIN tags \cup {Len(tags) + 1}
        /\ tags'[Len(tags) + 1] = x
        /\ \A i \in DOMAIN tags : tags'[i] = tags[i]
    BY <1>1, <1>3, <2>1, OneMore
  <2>4. Distinct(tags')
    BY <1>1, <1>3, <2>1, <2>2, TagAdded
  <2> QED
    BY <1>1, <1>2, <1>3, <2>3, <2>4
<1> QED
  BY <1>7, <1>8, <1>9

(* No step of a tag's writers takes a tag, or a name, from its row. *)
LEMMA TagStepKeepsTags ==
  ASSUME RowsInv, TagInv, TagStep
  PROVE  TagInv' /\ BindingSticks
<1>1. job \in [Writer -> Job]
  BY DEF RowsInv, WorldInv
<1>2. ASSUME NEW w \in Writer, FetchTags(w)
      PROVE  TagInv' /\ BindingSticks
  <2>1. PICK t \in Tag, does \in {"post tags", "tag record"} :
           job' = [job EXCEPT ![w] = [does |-> does, tag |-> t, name |-> tagSource[t]]]
    BY <1>2 DEF FetchTags
  <2>2. UNCHANGED <<tags, postTags, tagSource, named>>
    BY <1>2 DEF FetchTags
  <2>3. tagSource[t] \in named[t]
    BY DEF TagInv
  <2>4. \A q \in Writer : \/ job'[q] = job[q]
                          \/ job'[q].tag = t /\ job'[q].name = tagSource[t]
    BY <1>1, <2>1
  <2>5. \A q \in Writer :
           job'[q].does \in {"post tags", "tag record"} => job'[q].name \in named[job'[q].tag]
    BY <2>3, <2>4 DEF TagInv
  <2> QED
    BY <2>2, <2>5 DEF TagInv, BindingSticks
<1>3. ASSUME NEW w \in Writer, WriteTags(w)
      PROVE  TagInv' /\ BindingSticks
  <2>1. /\ tags' \in Seq(TagRow) /\ Distinct(tags') /\ DOMAIN tags \subseteq DOMAIN tags'
        /\ \A i \in DOMAIN tags' : tags'[i].id # None => tags'[i].name \in named[tags'[i].id]
        /\ \A i \in DOMAIN tags : tags[i].id # None => tags'[i].id = tags[i].id
        /\ \A l \in postTags' : l[1] \in DOMAIN tags'
    BY <1>3, PostTagKeeps, TagRecordKeeps DEF WriteTags
  <2>2. UNCHANGED <<tagSource, named>> /\ job' = [job EXCEPT ![w] = Nothing]
    BY <1>3 DEF WriteTags
  <2>3. \A q \in Writer : job'[q].does \in {"post tags", "tag record"} => job'[q] = job[q]
    BY <1>1, <2>2 DEF Nothing
  <2> QED
    BY <2>1, <2>2, <2>3 DEF TagInv, BindingSticks
<1>4. CASE TagsRenamed
  <2>1. /\ UNCHANGED <<job, tags, postTags>> /\ tagSource' \in [Tag -> Name]
        /\ named' = [t \in Tag |-> named[t] \cup {tagSource'[t]}]
    BY <1>4 DEF TagsRenamed, Injection, IsInjective
  <2>2. /\ named' \in [Tag -> SUBSET Name]
        /\ \A t \in Tag : named[t] \subseteq named'[t] /\ tagSource'[t] \in named'[t]
    BY <2>1 DEF TagInv
  <2>3. \A i \in DOMAIN tags : tags[i].id # None => tags[i].id \in Tag
    <3>1. tags \in Seq(TagRow)
      BY DEF TagInv
    <3>2. \A i \in DOMAIN tags : tags[i] \in TagRow
      BY <3>1
    <3> QED
      BY <3>2 DEF TagRow
  <2>4. \A q \in Writer : job[q].does \in {"post tags", "tag record"} => job[q].tag \in Tag
    BY JobFields DEF RowsInv
  <2> QED
    BY <2>1, <2>2, <2>3, <2>4 DEF TagInv, BindingSticks
<1> QED
  BY <1>2, <1>3, <1>4 DEF TagStep

-----------------------------------------------------------------------------
(* Theorems *)

(* An empty catalog is as the invariant says. *)
LEMMA InvInit == RowsInit => Inv
<1> SUFFICES ASSUME RowsInit PROVE Inv
  OBVIOUS
<1>1. /\ now = 1 /\ version = 1 /\ events = 0 /\ raws = <<>> /\ replays = {} /\ kind \in Kind
      /\ row = None /\ history = {} /\ said = <<>> /\ tags = <<>> /\ postTags = {}
      /\ job = [w \in Writer |-> Nothing]
  BY DEF RowsInit
<1>2. \A w \in Writer : job[w].does = "nothing"
  BY <1>1 DEF Nothing
<1>3. InFlight = {} /\ Cardinality(InFlight) = 0
  <2>1. InFlight = {}
    BY <1>2 DEF InFlight
  <2> QED
    BY <2>1, FS_EmptySet
<1>4. WorldInv
  <2>1. source \in [avail : Availability, detail : Fact]
    BY DEF RowsInit, Availability, Fact
  <2>2. job \in [Writer -> Job]
    BY <1>1 DEF Job
  <2>3. now \in 1..MaxClock /\ version \in 1..2 /\ events \in 0..MaxEvents
    BY <1>1, RowsAssumption
  <2>4. raws \in Seq(Raw) /\ Len(raws) = 0
    BY <1>1
  <2> QED
    BY <1>3, <2>1, <2>2, <2>3, <2>4, RowsAssumption DEF WorldInv
<1>5. ReplayInv /\ HistoryInv
  BY <1>1, <1>2 DEF ReplayInv, HistoryInv
<1>6. RowInv /\ NewestInv
  BY <1>1 DEF RowInv, NewestInv
<1>7. TagInv
  <2>1. tags \in Seq(TagRow) /\ DOMAIN tags = {}
    BY <1>1
  <2>2. tagSource \in [Tag -> Name] /\ named = [t \in Tag |-> {tagSource[t]}]
    BY DEF RowsInit, Injection, IsInjective
  <2>3. named \in [Tag -> SUBSET Name] /\ \A t \in Tag : tagSource[t] \in named[t]
    BY <2>2
  <2> QED
    BY <1>1, <1>2, <2>1, <2>2, <2>3 DEF TagInv, Distinct
<1> QED
  BY <1>4, <1>5, <1>6, <1>7 DEF Inv, RowsInv

(* Every step of the rows and tags keeps the invariant. *)
LEMMA InvNext == Inv /\ [RowsNext]_rowsVars => Inv'
<1> SUFFICES ASSUME Inv, [RowsNext]_rowsVars PROVE Inv'
  OBVIOUS
<1> USE DEF Inv
<1>1. CASE RowStep
  <2>1. TagInv'
    BY <1>1, RowStepKeepsTags
  <2>2. RowsInv'
    BY <1>1, FetchKeeps, WritePageKeeps, ReplayCheckKeeps, ReplayWriteKeeps, AbandonKeeps,
       TombstoneKeeps, SeedKeeps, WorldKeeps DEF RowStep
  <2> QED
    BY <2>1, <2>2
<1>2. CASE TagStep
  BY <1>2, TagStepKeepsRows, TagStepKeepsTags
<1>3. CASE UNCHANGED rowsVars
  <2>1. UNCHANGED rowVars /\ UNCHANGED <<now, version, source, job, events>>
        /\ UNCHANGED <<tagSource, tags, postTags, named>>
    BY <1>3 DEF rowsVars, tagVars
  <2>2. HistoryInv' /\ RowInv' /\ NewestInv'
    BY <2>1, RestingRows DEF RowsInv
  <2>3. WorldInv' /\ ReplayInv'
    BY <2>1 DEF RowsInv, WorldInv, ReplayInv, InFlight, rowVars
  <2>4. TagInv'
    BY <2>1 DEF TagInv
  <2> QED
    BY <2>2, <2>3, <2>4 DEF RowsInv
<1> QED
  BY <1>1, <1>2, <1>3 DEF RowsNext

(* The inductive invariant of the rows and of the tags. *)
THEOREM RowsInvariance == RowsSpec => []Inv
BY InvInit, InvNext, PTL DEF RowsSpec

(* The rows, the responses and the rows of tags are of their types: every  *)
(* page on its way finds room, two tags have neither a name nor an         *)
(* identifier in common, and a page's tags are in the table.               *)
THEOREM RowsTyped == RowsSpec => []RowsTypeOK
<1>1. Inv => RowsTypeOK
  <2> SUFFICES ASSUME Inv PROVE RowsTypeOK
    OBVIOUS
  <2>1. now \in 1..MaxClock /\ version \in 1..2 /\ events \in 0..MaxEvents
    BY DEF Inv, RowsInv, WorldInv
  <2>2. ASSUME NEW w \in Writer
        PROVE  job[w].does \in {"nothing", "page", "replay", "post tags", "tag record"}
    <3>1. job[w] \in Job
      BY JobFields DEF Inv, RowsInv
    <3>2. CASE job[w] \in [does : {"page"}, version : 1..2, answer : Raw]
      BY <3>2
    <3>3. CASE job[w] \in [does : {"replay"}, version : 1..2, raw : Nat]
      BY <3>3
    <3>4. CASE job[w] \in [does : {"post tags", "tag record"}, tag : Tag, name : Name]
      BY <3>4
    <3>5. CASE job[w] = Nothing
      BY <3>5 DEF Nothing
    <3> QED
      BY <3>1, <3>2, <3>3, <3>4, <3>5 DEF Job
  <2>3. Len(raws) \in Nat /\ Len(raws) <= MaxPages
    <3>1. IsFiniteSet(InFlight)
      BY RowsAssumption, FS_Subset DEF InFlight
    <3>2. Cardinality(InFlight) \in Nat
      BY <3>1, FS_CardinalityType
    <3> QED
      BY <3>2, RowsAssumption DEF Inv, RowsInv, WorldInv
  <2>4. row # None => row.seen \in 1..MaxClock /\ row.raw \in Bundle..Len(raws)
    <3>1. row # None => row \in Row /\ row.raw <= Len(raws)
      BY DEF Inv, RowsInv, RowInv
    <3>2. row # None => row.raw \in Bundle..MaxPages /\ row.seen \in 1..MaxClock
      BY <3>1 DEF Row
    <3> QED
      BY <2>3, <3>1, <3>2, RowsAssumption DEF Bundle
  <2>5. Distinct(tags) /\ \A l \in postTags : l[1] \in DOMAIN tags
    BY DEF Inv, TagInv
  <2> QED
    BY <2>1, <2>2, <2>3, <2>4, <2>5 DEF RowsTypeOK, Distinct
<1> QED
  BY <1>1, RowsInvariance, PTL

(* A row shows what the newest report said, in whatever order the pages,   *)
(* the replays and the operator's marks arrive.                            *)
THEOREM ProjectionShowsNewest == RowsSpec => []ProjectionIsNewest
<1>1. Inv => ProjectionIsNewest
  <2> SUFFICES ASSUME Inv, row # None PROVE ProjectionIsNewest
    BY DEF ProjectionIsNewest
  <2> DEFINE newest == {i \in DOMAIN said : said[i].time = row.seen}
             facts == {i \in newest : RowOf(said[i]).detail # None}
             responses == {i \in newest : RowOf(said[i]).raw # 0}
  <2>1. Shows(kind, row, said) /\ said \in Seq(Stated)
    BY DEF Inv, RowsInv, NewestInv, RowInv
  <2>2. /\ newest = RowsAt(said, row.seen) /\ facts = FactsAt(kind, said, row.seen)
        /\ responses = ResponsesAt(kind, said, row.seen)
    BY DEF RowsAt, FactsAt, ResponsesAt, RowOf, FactIn, ResponseIn
  <2>3. newest \in SUBSET Nat /\ facts \in SUBSET Nat /\ responses \in SUBSET Nat
    BY <2>1
  <2> HIDE DEF newest, facts, responses
  <2>4. \A i \in DOMAIN said : said[i].time <= row.seen
    BY <2>1 DEF Shows
  <2>5. newest # {} /\ row.avail = said[Max(newest)].avail
    <3>1. PICK i \in DOMAIN said : NewestOf(newest, i) /\ row.avail = said[i].avail
      BY <2>1, <2>2 DEF Shows
    <3>2. Max(newest) = i /\ i \in newest
      BY <2>3, <3>1, LatestIsMax DEF NewestOf
    <3> QED
      BY <3>1, <3>2
  <2>6. facts # {} => row.detail = said[Max(facts)].detail
    <3> SUFFICES ASSUME facts # {} PROVE row.detail = said[Max(facts)].detail
      OBVIOUS
    <3>1. PICK i \in DOMAIN said : NewestOf(facts, i) /\ row.detail = said[i].detail
      BY <2>1, <2>2 DEF Shows
    <3>2. Max(facts) = i
      BY <2>3, <3>1, LatestIsMax
    <3> QED
      BY <3>1, <3>2
  <2>7. responses # {} => row.raw = said[Max(responses)].raw
    <3> SUFFICES ASSUME responses # {} PROVE row.raw = said[Max(responses)].raw
      OBVIOUS
    <3>1. PICK i \in DOMAIN said : NewestOf(responses, i) /\ row.raw = said[i].raw
      BY <2>1, <2>2 DEF Shows
    <3>2. Max(responses) = i
      BY <2>3, <3>1, LatestIsMax
    <3> QED
      BY <3>1, <3>2
  <2> QED
    BY <2>4, <2>5, <2>6, <2>7 DEF ProjectionIsNewest, newest, facts, responses
<1> QED
  BY <1>1, RowsInvariance, PTL

(* A statement that is written erases nothing. *)
LEMMA WriteErasesNothing ==
  ASSUME RowInv, NEW st \in Stated, st.detail \in Fact, row' = Upsert(st)
  PROVE  NothingIsErased
<1> SUFFICES ASSUME row # None
             PROVE  /\ row'.detail = None => row.detail = None
                    /\ row.claim # None => row'.claim = row.claim
                    /\ row.raw # 0 => row'.raw # 0
  BY DEF NothingIsErased
<1>1. /\ FactIn(kind, st) \in {None, st.detail} /\ ResponseIn(kind, st) \in {0, st.raw}
  BY RowOfFields DEF RowInv
<1>2. row.claim # None => row'.claim = row.claim
  BY UpsertFields
<1>3. CASE st.time >= row.seen
  BY <1>1, <1>2, <1>3, UpsertFields
<1>4. CASE ~ st.time >= row.seen
  BY <1>2, <1>4, UpsertFields
<1> QED
  BY <1>3, <1>4

(* What each step of the rows leaves standing.                             *)
LEMMA RowStepOnlyAdds ==
  ASSUME Inv, RowStep
  PROVE  NothingIsErased /\ SecondReplayAddsNothing
<1>1. ASSUME NEW w \in Writer, WritePage(w)
      PROVE  NothingIsErased /\ SecondReplayAddsNothing
  <2> DEFINE st == Statement(job[w].answer, Len(raws) + 1, job[w].version)
  <2>1. row' = Upsert(st) /\ replays' = replays
    BY <1>1 DEF WritePage, Write
  <2>2. job[w].answer \in Raw /\ job[w].version \in 1..2
    BY <1>1, JobFields DEF Inv, RowsInv, WritePage
  <2>3. Len(raws) + 1 \in 1..MaxPages
    <3>1. IsFiniteSet(InFlight) /\ w \in InFlight
      BY <1>1, RowsAssumption, FS_Subset DEF InFlight, WritePage
    <3>2. Cardinality(InFlight) \in Nat /\ Cardinality(InFlight) # 0
      BY <3>1, FS_CardinalityType, FS_EmptySet
    <3> QED
      BY <3>2, RowsAssumption DEF Inv, RowsInv, WorldInv
  <2>4. st \in Stated /\ st.detail \in Fact
    BY <2>2, <2>3, StatementType
  <2> HIDE DEF st
  <2>5. NothingIsErased
    BY <2>1, <2>4, WriteErasesNothing DEF Inv, RowsInv
  <2> QED
    BY <2>1, <2>5 DEF SecondReplayAddsNothing
<1>2. ASSUME NEW w \in Writer, ReplayWrite(w)
      PROVE  NothingIsErased /\ SecondReplayAddsNothing
  <2> PICK r, v : r = job[w].raw /\ v = job[w].version
    OBVIOUS
  <2> DEFINE st == Statement(raws[r], r, v)
  <2>1. row' = Upsert(st) /\ replays' = replays \cup {ReplayRun(r, v)} /\ Observe(st)
    BY <1>2 DEF ReplayWrite, Write
  <2>2. /\ v \in 1..2 /\ r \in DOMAIN raws /\ raws \in Seq(Raw)
        /\ Len(raws) + Cardinality(InFlight) <= MaxPages
    BY <1>2, JobFields DEF Inv, RowsInv, ReplayWrite, WorldInv, ReplayInv
  <2>3. raws[r] \in Raw /\ r \in 1..MaxPages
    <3>1. IsFiniteSet(InFlight)
      BY RowsAssumption, FS_Subset DEF InFlight
    <3>2. Cardinality(InFlight) \in Nat
      BY <3>1, FS_CardinalityType
    <3> QED
      BY <2>2, <3>2, RowsAssumption
  <2>4. st \in Stated /\ st.detail \in Fact
    BY <2>2, <2>3, StatementType
  <2>5. NothingIsErased
    <3> HIDE DEF st
    <3> QED
      BY <2>1, <2>4, WriteErasesNothing DEF Inv, RowsInv
  <2>6. SecondReplayAddsNothing
    <3> SUFFICES ASSUME NEW run \in replays' \ replays, Replayed(run.raw, run.version)
                 PROVE  history' = history
      BY DEF SecondReplayAddsNothing
    <3>1. run.raw = r /\ run.version = v
      BY <2>1 DEF ReplayRun
    <3>2. PICK old \in replays : old.raw = r /\ old.version = v
      BY <3>1 DEF Replayed
    <3>3. Noted(Statement(raws[old.raw], old.raw, old.version))
      BY DEF Inv, RowsInv, HistoryInv
    <3>4. Noted(st)
      BY <3>2, <3>3
    <3> HIDE DEF st
    <3> QED
      BY <2>1, <3>4 DEF Noted, Observe
  <2> QED
    BY <2>5, <2>6
<1>3. CASE Seed
  <2> DEFINE st == [time |-> now, avail |-> "unknown", detail |-> None, raw |-> Bundle]
  <2>1. row' = Upsert(st) /\ replays' = replays
    BY <1>3 DEF Seed
  <2>2. st \in Stated /\ st.detail \in Fact
    <3>1. Bundle \in Bundle..MaxPages
      BY RowsAssumption DEF Bundle
    <3> QED
      BY <3>1 DEF Stated, Availability, Fact, Inv, RowsInv, WorldInv
  <2> HIDE DEF st
  <2>3. NothingIsErased
    BY <2>1, <2>2, WriteErasesNothing DEF Inv, RowsInv
  <2> QED
    BY <2>1, <2>3 DEF SecondReplayAddsNothing
<1>4. CASE Tombstone
  <2>1. row \in Row /\ row' = [row EXCEPT !.avail = "unavailable", !.detail = Marker]
    BY <1>4 DEF Tombstone, Inv, RowsInv, RowInv
  <2>2. row'.detail = Marker /\ row'.claim = row.claim /\ row'.raw = row.raw
    BY <2>1 DEF Row
  <2>3. Marker # None
    BY RowsAssumption DEF Marker
  <2>4. replays' = replays
    BY <1>4 DEF Tombstone
  <2> QED
    BY <2>2, <2>3, <2>4 DEF NothingIsErased, SecondReplayAddsNothing
<1>5. CASE World \/ Tick \/ \E w \in Writer : Fetch(w) \/ ReplayCheck(w) \/ Abandon(w)
  <2>1. row' = row /\ replays' = replays
    BY <1>5 DEF World, Tick, Fetch, ReplayCheck, Abandon, rowVars
  <2> QED
    BY <2>1 DEF NothingIsErased, SecondReplayAddsNothing
<1> QED
  BY <1>1, <1>2, <1>3, <1>4, <1>5 DEF RowStep

(* Reports only add: what is known is never erased, a claim never changes, *)
(* replaying a response again adds nothing to the history, and a tag keeps *)
(* its row.                                                                *)
THEOREM OnlyNewsIsAdded == RowsSpec => OnlyNewsAdds
<1>1. Inv /\ [RowsNext]_rowsVars => [ReportsOnlyAdd]_rowsVars
  <2> SUFFICES ASSUME Inv, RowsNext PROVE ReportsOnlyAdd
    OBVIOUS
  <2>1. CASE RowStep
    <3>1. BindingSticks
      <4>1. tags' = tags /\ named' = named
        BY <2>1 DEF RowStep, tagVars
      <4> QED
        BY <4>1 DEF BindingSticks, Inv, TagInv
    <3> QED
      BY <2>1, <3>1, RowStepOnlyAdds DEF ReportsOnlyAdd
  <2>2. CASE TagStep
    <3>1. BindingSticks
      BY <2>2, TagStepKeepsTags DEF Inv
    <3>2. row' = row /\ replays' = replays
      BY <2>2 DEF TagStep, rowVars
    <3> QED
      BY <3>1, <3>2 DEF ReportsOnlyAdd, NothingIsErased, SecondReplayAddsNothing
  <2> QED
    BY <2>1, <2>2 DEF RowsNext
<1> QED
  BY <1>1, RowsInvariance, PTL DEF OnlyNewsAdds, RowsSpec

(***************************************************************************)
(* Counting, repeating and appending                                       *)
(***************************************************************************)

(* Induction, on the members of a set of numbers.                          *)
LEMMA CountsOff ==
  ASSUME NEW n \in Nat, NEW T, 0 \in T, \A i \in 1..n : i - 1 \in T => i \in T
  PROVE  \A i \in 0..n : i \in T
<1> DEFINE out == {i \in 0..n : i \notin T}
           below == {0..i : i \in out}
<1> SUFFICES ASSUME out # {} PROVE FALSE
  OBVIOUS
<1>1. IsWellFoundedOn(StrictSubsetOrdering(0..n), SUBSET (0..n))
  <2>1. IsFiniteSet(0..n)
    BY FS_Interval
  <2> QED
    BY <2>1, FS_StrictSubsetOrderingWellFounded, FS_FiniteSubsetsOfFinite
<1>2. below \subseteq SUBSET (0..n) /\ below # {}
  OBVIOUS
<1>3. \E X \in below : \A Y \in below : ~ (<<Y, X>> \in StrictSubsetOrdering(0..n))
  BY <1>1, <1>2, WFMin
<1>4. PICK i \in out : \A j \in out : ~ (<<0..j, 0..i>> \in StrictSubsetOrdering(0..n))
  BY <1>3
<1>5. i # 0 /\ i \in 1..n
  OBVIOUS
<1>6. i - 1 \notin T
  BY <1>5
<1>7. i - 1 \in out
  BY <1>5, <1>6
<1>8. 0..(i - 1) \subseteq 0..i /\ 0..(i - 1) # 0..i /\ 0..i \subseteq 0..n
  <2>1. i \notin 0..(i - 1) /\ i \in 0..i
    BY <1>5
  <2> QED
    BY <1>5, <2>1
<1>9. <<0..(i - 1), 0..i>> \in StrictSubsetOrdering(0..n)
  BY <1>8 DEF StrictSubsetOrdering
<1> QED
  BY <1>4, <1>7, <1>9

(* A step repeated n times.                                                *)
Repeats(f, step, base, S, n) ==
    f \in [0..n -> S] /\ f[0] = base /\ \A i \in 1..n : f[i] = step[<<f[i - 1], i>>]

(* A step can be repeated any number of times, which is what a recursive   *)
(* function needs to be one.                                               *)
LEMMA RepeatsExist ==
  ASSUME NEW n \in Nat, NEW S, NEW base \in S, NEW step \in [S \X (1..n) -> S]
  PROVE  \E f : Repeats(f, step, base, S, n)
<1> DEFINE T == {m \in 0..n : \E f : Repeats(f, step, base, S, m)}
<1>1. 0 \in T
  <2>1. Repeats([i \in 0..0 |-> base], step, base, S, 0)
    BY DEF Repeats
  <2> QED
    BY <2>1
<1>2. ASSUME NEW m \in 1..n, m - 1 \in T
      PROVE  m \in T
  <2>1. PICK f : Repeats(f, step, base, S, m - 1)
    BY <1>2
  <2> DEFINE g == [i \in 0..m |-> IF i = m THEN step[<<f[m - 1], m>>] ELSE f[i]]
  <2>2. f[m - 1] \in S /\ step[<<f[m - 1], m>>] \in S
    BY <2>1 DEF Repeats
  <2>3. g \in [0..m -> S] /\ g[0] = base
    BY <2>1, <2>2 DEF Repeats
  <2>4. ASSUME NEW i \in 1..m
        PROVE  g[i] = step[<<g[i - 1], i>>]
    <3>1. g[i - 1] = f[i - 1]
      OBVIOUS
    <3>2. CASE i = m
      <4>1. g[i] = step[<<f[m - 1], m>>] /\ g[i - 1] = f[m - 1]
        BY <3>1, <3>2
      <4> HIDE DEF g
      <4> QED
        BY <3>2, <4>1
    <3>3. CASE i # m
      <4>1. i \in 1..(m - 1) /\ g[i] = f[i]
        BY <3>3
      <4>2. f[i] = step[<<f[i - 1], i>>]
        BY <2>1, <4>1 DEF Repeats
      <4> HIDE DEF g
      <4> QED
        BY <3>1, <4>1, <4>2
    <3> QED
      BY <3>2, <3>3
  <2> HIDE DEF g
  <2>5. Repeats(g, step, base, S, m)
    BY <2>3, <2>4 DEF Repeats
  <2> QED
    BY <2>5
<1> HIDE DEF T
<1>3. n \in T
  BY <1>1, <1>2, CountsOff
<1> QED
  BY <1>3 DEF T

(* Numbers up to a bound have a least one.                                 *)
LEMMA LeastOfSome ==
  ASSUME NEW n \in Nat, NEW S, S \subseteq 1..n, S # {}
  PROVE  \E x \in S : \A y \in S : x <= y
<1> SUFFICES ASSUME \A x \in S : \E y \in S : y < x PROVE FALSE
  BY SMT
<1> DEFINE T == {i \in 0..n : \A x \in S : x > i}
<1>1. 0 \in T
  OBVIOUS
<1>2. ASSUME NEW i \in 1..n, i - 1 \in T
      PROVE  i \in T
  <2>1. \A x \in S : x > i - 1 /\ x \in 1..n
    BY <1>2
  <2>2. i \notin S
    BY <2>1
  <2> QED
    BY <2>1, <2>2
<1>3. n \in T
  <2> HIDE DEF T
  <2>1. \A i \in 0..n : i \in T
    BY <1>1, <1>2, CountsOff
  <2> QED
    BY <2>1
<1>4. PICK x \in S : TRUE
  OBVIOUS
<1>5. x > n /\ x \in 1..n
  BY <1>3, <1>4
<1> QED
  BY <1>5

(* What a sequence is. *)
LEMMA SeqParts == \A S : \A s \in Seq(S) :
    Len(s) \in Nat /\ DOMAIN s = 1..Len(s) /\ \A i \in DOMAIN s : s[i] \in S
OBVIOUS

(* What appending to one does. *)
LEMMA AppendParts == \A S : \A s \in Seq(S) : \A x \in S :
    /\ Append(s, x) \in Seq(S) /\ Len(Append(s, x)) = Len(s) + 1
    /\ \A i \in DOMAIN s : i \in DOMAIN Append(s, x) /\ Append(s, x)[i] = s[i]
    /\ Len(s) + 1 \in DOMAIN Append(s, x) /\ Append(s, x)[Len(s) + 1] = x
OBVIOUS

(***************************************************************************)
(* Imports: the records of a content                                       *)
(***************************************************************************)

(* The rows that imports write, and what an import has done so far.        *)
SourceRecord == [post : PostIds, time : Nat, value : Nat, good : BOOLEAN]
PostRow == [time : Nat, value : Nat]
LikeRow == [post : PostIds, time : Nat, value : Nat, run : Content]
CountRow == [inserted : Nat, updated : Nat, existing : Nat, failed : Nat]
PostsRow == [PostIds -> PostRow \cup {NoValue}]

Progress == [good : BOOLEAN, posts : PostsRow, likes : SUBSET LikeRow, counts : CountRow]

(* The records of a content are of their type. *)
LEMMA RecordsAre ==
  ASSUME NEW c \in Content
  PROVE  /\ Len(RecordsOf[c]) \in Nat /\ DOMAIN RecordsOf[c] = 1..Len(RecordsOf[c])
         /\ \A i \in 1..Len(RecordsOf[c]) : RecordsOf[c][i] \in SourceRecord
<1> DEFINE R == RecordsOf[c]
<1>1. R \in Seq([post : Nat, time : Nat, value : Nat, good : BOOLEAN])
  BY ImportAssumption
<1>2. Len(R) \in Nat /\ DOMAIN R = 1..Len(R)
      /\ \A i \in 1..Len(R) : R[i] \in [post : Nat, time : Nat, value : Nat, good : BOOLEAN]
  <2>1. \A S : \A s \in Seq(S) : Len(s) \in Nat /\ DOMAIN s = 1..Len(s) /\ \A i \in 1..Len(s) : s[i] \in S
    OBVIOUS
  <2> HIDE DEF R
  <2> QED
    BY <1>1, <2>1
<1>3. \A i \in DOMAIN R : R[i].post \in PostIds
  BY DEF PostIds
<1>4. ASSUME NEW i \in 1..Len(R)
      PROVE  R[i] \in SourceRecord
  <2>1. R[i] \in [post : Nat, time : Nat, value : Nat, good : BOOLEAN] /\ R[i].post \in PostIds
    BY <1>2, <1>3
  <2> HIDE DEF R
  <2> QED
    BY <2>1 DEF SourceRecord
<1> QED
  BY <1>2, <1>4

(* A record leaves a post as it was or makes it its own, and inserts only  *)
(* one that is new.                                                        *)
LEMMA NewerIs ==
  ASSUME NEW old \in PostRow \cup {NoValue}, NEW r \in SourceRecord
  PROVE  /\ NewerPost(old, r) \in PostRow
         /\ NewerPost(old, r) = old \/ NewerPost(old, r) = [time |-> r.time, value |-> r.value]
         /\ Outcome(old, r) \in {"inserted", "updated", "existing"}
         /\ Outcome(old, r) = "inserted" => old = NoValue
<1>1. r.time \in Nat /\ r.value \in Nat
  BY DEF SourceRecord
<1>2. [time |-> r.time, value |-> r.value] \in PostRow
  BY <1>1 DEF PostRow
<1>3. NewerPost(old, r) \in PostRow
        /\ (NewerPost(old, r) = old \/ NewerPost(old, r) = [time |-> r.time, value |-> r.value])
  <2>1. CASE old = NoValue
    BY <1>2, <2>1 DEF NewerPost
  <2>2. CASE old # NoValue
    <3>1. old \in PostRow
      BY <2>2
    <3> HIDE DEF PostRow
    <3> QED
      BY <1>2, <3>1 DEF NewerPost
  <2> QED
    BY <2>1, <2>2
<1>4. CASE old = NoValue
  <2>1. Outcome(old, r) = "inserted"
    BY <1>4 DEF Outcome
  <2> QED
    BY <1>3, <1>4, <2>1
<1>5. CASE old # NoValue
  <2>1. Outcome(old, r) = IF r.time >= old.time /\ r.value # old.value THEN "updated" ELSE "existing"
    BY <1>5 DEF Outcome
  <2> QED
    BY <1>3, <1>5, <2>1
<1> QED
  BY <1>4, <1>5

(* The mark of a missing post is no post. *)
LEMMA ValuesAreRows == NoValue \notin PostRow
BY ImportAssumption DEF PostRow

(* What one record makes of the progress of an import.                     *)
RecordMakes(done, r, run, made) ==
    /\ made \in Progress
    /\ ~ done.good \/ ~ r.good =>
          /\ made.good = FALSE
          /\ made.posts = done.posts /\ made.likes = done.likes /\ made.counts = done.counts
    /\ done.good /\ r.good =>
          /\ made.good = TRUE
          /\ made.posts = [done.posts EXCEPT ![r.post] = NewerPost(done.posts[r.post], r)]
          /\ made.likes = done.likes \cup {Liked(r, run)}
          /\ done.posts[r.post] # NoValue => made.counts.inserted = done.counts.inserted

(* One record of an import does what RecordMakes says. *)
LEMMA RecordDoes ==
  ASSUME NEW done \in Progress, NEW r \in SourceRecord, NEW run \in Content,
         NEW made, made = ImportRecord(done, r, run)
  PROVE  RecordMakes(done, r, run, made)
<1> USE DEF RecordMakes
<1>1. PICK g \in BOOLEAN, p \in PostsRow, l \in SUBSET LikeRow, n \in CountRow :
         done = [good |-> g, posts |-> p, likes |-> l, counts |-> n]
  BY Zenon DEF Progress
<1>2. r.post \in PostIds /\ r.time \in Nat /\ r.value \in Nat
  BY DEF SourceRecord
<1>3. p[r.post] \in PostRow \cup {NoValue}
  BY <1>2 DEF PostsRow
<1> DEFINE o == Outcome(p[r.post], r)
<1>4. /\ NewerPost(p[r.post], r) \in PostRow
      /\ o \in {"inserted", "updated", "existing"} /\ (o = "inserted" => p[r.post] = NoValue)
  BY <1>3, NewerIs
<1>5. CASE ~ done.good \/ ~ r.good
  <2>1. ImportRecord(done, r, run) = [done EXCEPT !.good = FALSE]
    BY <1>5 DEF ImportRecord
  <2>2. made \in Progress /\ made.good = FALSE /\ made.posts = done.posts /\ made.likes = done.likes
        /\ made.counts = done.counts
    BY <2>1 DEF Progress
  <2> QED
    BY <1>5, <2>1, <2>2
<1>6. CASE done.good /\ r.good
  <2> DEFINE n2 == [n EXCEPT ![o] = n[o] + 1]
             p2 == [p EXCEPT ![r.post] = NewerPost(p[r.post], r)]
             l2 == l \cup {Liked(r, run)}
  <2>1. done.posts = p /\ done.likes = l /\ done.counts = n /\ done.good = g
    BY <1>1
  <2>2. made = [good |-> g, posts |-> p2, likes |-> l2, counts |-> n2]
    BY <1>6, <2>1 DEF ImportRecord
  <2>3. n2 \in CountRow /\ (p[r.post] # NoValue => n2.inserted = n.inserted)
    <3> HIDE DEF o
    <3> QED
      BY <1>4 DEF CountRow
  <2>4. p2 \in PostsRow
    BY <1>2, <1>4 DEF PostsRow
  <2>5. l2 \in SUBSET LikeRow
    BY <1>2 DEF LikeRow, Liked
  <2> HIDE DEF n2, p2, l2
  <2>6. made \in Progress
    BY <1>6, <2>1, <2>2, <2>3, <2>4, <2>5 DEF Progress
  <2>7. made.good = TRUE /\ made.posts = p2 /\ made.likes = l2 /\ made.counts = n2
    BY <1>6, <2>1, <2>2
  <2>8. p2 = [done.posts EXCEPT ![r.post] = NewerPost(done.posts[r.post], r)]
         /\ l2 = done.likes \cup {Liked(r, run)}
    BY <2>1 DEF p2, l2
  <2> QED
    BY <1>6, <2>1, <2>2, <2>3, <2>6, <2>7, <2>8
<1> QED
  BY <1>5, <1>6

(* What the first n records of a content have made of the catalog.         *)
FromRecord(entry, i, c) ==
    \E n \in DOMAIN RecordsOf[c] :
        /\ RecordsOf[c][n].post = i
        /\ entry = [time |-> RecordsOf[c][n].time, value |-> RecordsOf[c][n].value]

DoneUpTo(done, c, run, n) ==
    LET R == RecordsOf[c] IN
    /\ done \in Progress
    /\ done.good => /\ done.likes = likes \cup {Liked(R[i], run) : i \in 1..n}
                    /\ \A i \in 1..n : done.posts[R[i].post] # NoValue
    /\ \A j \in PostIds : /\ done.posts[j] = posts[j] \/ FromRecord(done.posts[j], j, c)
                          /\ posts[j] # NoValue => done.posts[j] # NoValue
    /\ (\A i \in DOMAIN R : posts[R[i].post] # NoValue) => done.counts.inserted = 0

(* One more record keeps what is said of those before it. *)
LEMMA OneMoreDone ==
  ASSUME NEW c \in Content, NEW run \in Content, NEW n \in 1..Len(RecordsOf[c]),
         NEW done, DoneUpTo(done, c, run, n - 1)
  PROVE  DoneUpTo(ImportRecord(done, RecordsOf[c][n], run), c, run, n)
<1> DEFINE R == RecordsOf[c]
           r == R[n]
           made == ImportRecord(done, r, run)
<1>1. Len(R) \in Nat /\ DOMAIN R = 1..Len(R) /\ \A i \in 1..Len(R) : R[i] \in SourceRecord
  BY RecordsAre
<1>2. r \in SourceRecord /\ n \in DOMAIN R /\ r.post \in PostIds
  BY <1>1 DEF SourceRecord
<1>3. done \in Progress
  BY DEF DoneUpTo
<1>4. RecordMakes(done, r, run, made)
  <2>1. made = ImportRecord(done, r, run)
    OBVIOUS
  <2> HIDE DEF r, made
  <2> QED
    BY <1>2, <1>3, <2>1, RecordDoes
<1>5. done.posts \in PostsRow
  BY <1>3 DEF Progress
<1>6. done.posts[r.post] \in PostRow \cup {NoValue}
  BY <1>2, <1>5 DEF PostsRow
<1> HIDE DEF made
<1>7. CASE ~ done.good \/ ~ r.good
  <2>1. made.good = FALSE /\ made.posts = done.posts /\ made.likes = done.likes /\ made.counts = done.counts
    BY <1>4, <1>7 DEF RecordMakes
  <2>2. DoneUpTo(made, c, run, n)
    BY <1>4, <1>7, <2>1 DEF DoneUpTo, RecordMakes
  <2> QED
    BY <2>2 DEF made
<1>8. CASE done.good /\ r.good
  <2>1. /\ NewerPost(done.posts[r.post], r) \in PostRow
        /\ NewerPost(done.posts[r.post], r) = done.posts[r.post]
           \/ NewerPost(done.posts[r.post], r) = [time |-> r.time, value |-> r.value]
    BY <1>2, <1>6, NewerIs
  <2>2. /\ made.posts[r.post] = NewerPost(done.posts[r.post], r)
        /\ \A j \in PostIds \ {r.post} : made.posts[j] = done.posts[j]
    BY <1>2, <1>4, <1>5, <1>8 DEF PostsRow, RecordMakes
  <2>3. made.posts[r.post] # NoValue
    BY <2>1, <2>2, ValuesAreRows
  <2>4. ASSUME NEW j \in PostIds
        PROVE  /\ made.posts[j] = posts[j] \/ FromRecord(made.posts[j], j, c)
               /\ posts[j] # NoValue => made.posts[j] # NoValue
    <3>1. /\ done.posts[j] = posts[j] \/ FromRecord(done.posts[j], j, c)
          /\ posts[j] # NoValue => done.posts[j] # NoValue
      BY DEF DoneUpTo
    <3>2. CASE j = r.post
      <4>1. FromRecord([time |-> r.time, value |-> r.value], j, c)
        BY <1>2, <3>2 DEF FromRecord
      <4> QED
        BY <2>1, <2>2, <2>3, <3>1, <3>2, <4>1
    <3> QED
      BY <2>2, <3>1, <3>2
  <2>5. made.likes = likes \cup {Liked(R[i], run) : i \in 1..n}
    <3>1. done.likes = likes \cup {Liked(R[i], run) : i \in 1..(n - 1)}
      BY <1>8 DEF DoneUpTo
    <3>2. 1..n = 1..(n - 1) \cup {n}
      BY <1>1
    <3> HIDE DEF R
    <3> QED
      BY <1>4, <1>8, <3>1, <3>2 DEF RecordMakes
  <2>6. ASSUME NEW i \in 1..n
        PROVE  made.posts[R[i].post] # NoValue
    <3>1. CASE i = n
      BY <2>3, <3>1
    <3>2. CASE i # n
      <4>1. i \in 1..(n - 1) /\ i \in 1..Len(R)
        BY <1>1, <3>2
      <4>2. done.posts[R[i].post] # NoValue /\ R[i].post \in PostIds
        BY <1>1, <1>8, <4>1 DEF DoneUpTo, SourceRecord
      <4> QED
        BY <2>2, <2>3, <4>2
    <3> QED
      BY <3>1, <3>2
  <2>7. ASSUME \A i \in DOMAIN R : posts[R[i].post] # NoValue
        PROVE  made.counts.inserted = 0
    <3>1. done.counts.inserted = 0 /\ posts[r.post] # NoValue
      BY <1>2, <2>7 DEF DoneUpTo
    <3>2. done.posts[r.post] # NoValue
      BY <1>2, <3>1 DEF DoneUpTo
    <3> QED
      BY <1>4, <1>8, <3>1, <3>2 DEF RecordMakes
  <2>8. DoneUpTo(made, c, run, n)
    BY <1>4, <2>4, <2>5, <2>6, <2>7 DEF DoneUpTo, RecordMakes
  <2> QED
    BY <2>8 DEF made
<1> QED
  BY <1>7, <1>8

(* The progress of an import, record by record, is what the definition of  *)
(* ImportRecords says it is.                                               *)
Imports(g, first, c, run) ==
    g = [n \in 0..Len(RecordsOf[c]) |->
            IF n = 0 THEN first ELSE ImportRecord(g[n - 1], RecordsOf[c][n], run)]

(* All records of a content, as ImportRecords defines them. *)
LEMMA ImportRecordsDo ==
  ASSUME NEW c \in Content, NEW run \in Content, posts \in PostsRow, likes \subseteq LikeRow
  PROVE  DoneUpTo(ImportRecords(c, run), c, run, Len(RecordsOf[c]))
<1> DEFINE R == RecordsOf[c]
           first == [good |-> TRUE, posts |-> posts, likes |-> likes, counts |-> NoCounts]
           step == [x \in Progress \X (1..Len(R)) |-> ImportRecord(x[1], R[x[2]], run)]
           g == CHOOSE f : Imports(f, first, c, run)
           T == {n \in 0..Len(R) : DoneUpTo(g[n], c, run, n)}
<1>1. Len(R) \in Nat /\ DOMAIN R = 1..Len(R) /\ \A i \in 1..Len(R) : R[i] \in SourceRecord
  BY RecordsAre
<1>2. first \in Progress
  BY DEF Progress, NoCounts, CountRow
<1>3. step \in [Progress \X (1..Len(R)) -> Progress]
  <2>1. \A x \in Progress \X (1..Len(R)) : ImportRecord(x[1], R[x[2]], run) \in Progress
    BY <1>1, RecordDoes DEF RecordMakes
  <2> QED
    BY <2>1
<1>4. PICK f : Repeats(f, step, first, Progress, Len(R))
  <2> HIDE DEF step, first, R
  <2> QED
    BY <1>1, <1>2, <1>3, RepeatsExist
<1>5. Imports(f, first, c, run)
  <2>1. /\ f \in [0..Len(R) -> Progress] /\ f[0] = first
        /\ \A i \in 1..Len(R) : f[i] = step[<<f[i - 1], i>>]
    BY <1>4 DEF Repeats
  <2>2. ASSUME NEW i \in 1..Len(R)
        PROVE  f[i] = ImportRecord(f[i - 1], R[i], run)
    <3>1. f[i - 1] \in Progress
      BY <1>1, <2>1
    <3>2. <<f[i - 1], i>> \in Progress \X (1..Len(R))
      BY <3>1
    <3>3. step[<<f[i - 1], i>>] = ImportRecord(f[i - 1], R[i], run)
      BY <3>2
    <3> HIDE DEF step
    <3> QED
      BY <2>1, <3>3
  <2>3. \A i \in 0..Len(R) : f[i] = IF i = 0 THEN first ELSE ImportRecord(f[i - 1], R[i], run)
    <3> HIDE DEF step, first
    <3> QED
      BY <1>1, <2>1, <2>2
  <2>4. f = [i \in 0..Len(R) |-> f[i]]
    BY <2>1
  <2> HIDE DEF step, first
  <2> QED
    BY <2>3, <2>4 DEF Imports
<1>6. Imports(g, first, c, run)
  BY <1>5
<1>7. ImportRecords(c, run) = g[Len(R)]
  BY Zenon DEF ImportRecords, Imports
<1> HIDE DEF g, step
<1>8. /\ g[0] = first
      /\ \A n \in 1..Len(R) : g[n] = ImportRecord(g[n - 1], R[n], run)
  <2> HIDE DEF first
  <2>1. g = [n \in 0..Len(R) |-> IF n = 0 THEN first ELSE ImportRecord(g[n - 1], R[n], run)]
    BY <1>6 DEF Imports
  <2>2. 0 \in 0..Len(R) /\ \A n \in 1..Len(R) : n \in 0..Len(R) /\ n # 0
    BY <1>1
  <2> HIDE DEF R
  <2> QED
    BY <2>1, <2>2
<1>9. 0 \in T
  <2>1. first.good = TRUE /\ first.posts = posts /\ first.likes = likes /\ first.counts.inserted = 0
    BY DEF NoCounts
  <2>2. {Liked(R[i], run) : i \in 1..0} = {} /\ 1..0 = {}
    OBVIOUS
  <2> HIDE DEF first
  <2>3. DoneUpTo(first, c, run, 0)
    BY <1>2, <2>1, <2>2 DEF DoneUpTo
  <2> QED
    BY <1>1, <1>8, <2>3
<1>10. ASSUME NEW n \in 1..Len(R), n - 1 \in T
       PROVE  n \in T
  <2>1. DoneUpTo(g[n - 1], c, run, n - 1)
    BY <1>10
  <2>2. DoneUpTo(ImportRecord(g[n - 1], R[n], run), c, run, n)
    BY <2>1, OneMoreDone
  <2> QED
    BY <1>1, <1>8, <2>2
<1> HIDE DEF T
<1>11. Len(R) \in T
  <2>1. \A n \in 1..Len(R) : n - 1 \in T => n \in T
    BY <1>10
  <2> HIDE DEF R
  <2>2. \A i \in 0..Len(R) : i \in T
    BY <1>1, <1>9, <2>1, CountsOff
  <2> QED
    BY <1>1, <2>2
<1> QED
  BY <1>7, <1>11 DEF T

(***************************************************************************)
(* Imports: the steps                                                      *)
(***************************************************************************)

ImporterPc == {"idle", "find", "begin", "import", "failing", "done", "reused", "raised"}
ImportStatus == {"none", "running", "complete", "failed"}
ImportRow == [status : ImportStatus, counts : CountRow, read : SUBSET Content]
ImporterRow ==
    [pc : ImporterPc, digest : Content \cup {NoValue}, found : ImportStatus, counts : CountRow]

ImportTypes ==
    /\ file \in Content /\ posts \in PostsRow /\ likes \subseteq LikeRow
    /\ importRun \in [Content -> ImportRow]
    /\ importer \in [Importer -> ImporterRow]
    /\ \A p \in Importer : importer[p].pc # "idle" => importer[p].digest \in Content

(* Everything of a content that was read is stored under its run, a run is *)
(* complete only if it has read one, and only then is one reported.        *)
ReadIsStored ==
    \A d \in Content : \A c \in importRun[d].read :
        /\ FactsOf(c, d) \subseteq likes
        /\ \A n \in DOMAIN RecordsOf[c] : posts[RecordsOf[c][n].post] # NoValue

ReportsHaveRead ==
    /\ \A d \in Content : importRun[d].status = "complete" => importRun[d].read # {}
    /\ \A p \in Importer : importer[p].pc \in {"done", "reused"} =>
          importRun[importer[p].digest].read # {}

ImportInv == ImportTypes /\ ReadIsStored /\ NothingUnreported /\ ReportsHaveRead

(* A seed that goes on has written its run, and the run of a file the      *)
(* file as a source; an asset of the occurrence stays.                     *)
SeederRow == [pc : {"idle", "adopt", "done", "raised"}, bundle : SeedBundle, reports : SeedBundle]

SeederStands(s, runs, written, adopted) ==
    /\ s \in SeederRow
    /\ s.pc # "idle" => written /\ s.bundle \in runs
    /\ s.pc = "adopt" => s.bundle # NoValue
    /\ s.pc = "done" /\ s.bundle # NoValue => s.reports # NoValue /\ s.reports = adopted

SeedInv ==
    /\ seedRun \subseteq SeedBundle /\ seedSources \subseteq SeedFile
    /\ seedRun \ {NoValue} \subseteq seedSources /\ seedAsset \in SeedBundle
    /\ DOMAIN seeder = Importer
    /\ \A p \in Importer : SeederStands(seeder[p], seedRun, stub, seedAsset)

(* Nothing is imported or seeded at first. *)
LEMMA ImportsBegin == ImportsInit => ImportInv /\ SeedInv
<1> SUFFICES ASSUME ImportsInit PROVE ImportInv /\ SeedInv
  OBVIOUS
<1> USE DEF ImportsInit
<1>1. NoCounts \in CountRow
  BY DEF NoCounts, CountRow
<1>2. NoRun \in ImportRow /\ NoRun.read = {} /\ NoRun.status = "none"
  BY <1>1 DEF NoRun, ImportRow, ImportStatus
<1>3. NoImport \in ImporterRow /\ NoImport.pc = "idle"
  BY <1>1 DEF NoImport, ImporterRow, ImporterPc, ImportStatus
<1>4. ImportTypes
  <2>1. posts \in PostsRow /\ likes \subseteq LikeRow
    BY DEF PostsRow
  <2> QED
    BY <1>2, <1>3, <2>1 DEF ImportTypes
<1>5. ReadIsStored
  BY <1>2 DEF ReadIsStored
<1>6. NothingUnreported
  BY DEF NothingUnreported
<1>7. ReportsHaveRead
  BY <1>2, <1>3 DEF ReportsHaveRead
<1>8. SeedInv
  BY DEF SeedInv, SeedBundle, SeederStands, SeederRow
<1> QED
  BY <1>4, <1>5, <1>6, <1>7, <1>8 DEF ImportInv

(* A step that reads no content and stores nothing.                        *)
LEMMA RowsKept ==
  ASSUME ImportInv, posts' = posts, likes' = likes, ImportTypes',
         \A d \in Content :
            /\ importRun'[d].read = importRun[d].read
            /\ importRun'[d].status = "complete" => importRun[d].status = "complete",
         \A p \in Importer : importer'[p].pc \in {"done", "reused"} =>
            importRun[importer'[p].digest].read # {} /\ importer'[p].digest \in Content
  PROVE  ImportInv'
<1>1. ReadIsStored'
  BY DEF ImportInv, ReadIsStored, FactsOf
<1>2. NothingUnreported'
  <2>1. \A l \in likes : l.run \in Content
    BY DEF ImportInv, ImportTypes, LikeRow
  <2>2. \A l \in likes' : \E c \in importRun'[l.run].read : l \in FactsOf(c, l.run)
    BY <2>1 DEF ImportInv, NothingUnreported
  <2>3. ASSUME NEW i \in PostIds, posts'[i] # NoValue
        PROVE  \E d \in Content : \E c \in importRun'[d].read : \E n \in DOMAIN RecordsOf[c] :
                  /\ RecordsOf[c][n].post = i
                  /\ posts'[i] = [time |-> RecordsOf[c][n].time, value |-> RecordsOf[c][n].value]
    BY <2>3 DEF ImportInv, NothingUnreported
  <2> QED
    BY <2>2, <2>3 DEF NothingUnreported, FactsOf, Liked
<1>3. ReportsHaveRead'
  BY DEF ImportInv, ReportsHaveRead
<1> QED
  BY <1>1, <1>2, <1>3 DEF ImportInv

(* An importer that only moves on, and a run that only changes its status. *)
LEMMA MovesFields ==
  ASSUME ImportInv, NEW p \in Importer, NEW pc \in ImporterPc, Moves(p, pc),
         importer[p].pc # "idle"
  PROVE  /\ importer' \in [Importer -> ImporterRow]
         /\ importer'[p].pc = pc /\ importer'[p].digest = importer[p].digest
         /\ \A q \in Importer \ {p} : importer'[q] = importer[q]
         /\ \A q \in Importer : importer'[q].pc # "idle" => importer'[q].digest \in Content
<1>1. importer \in [Importer -> ImporterRow]
      /\ \A q \in Importer : importer[q].pc # "idle" => importer[q].digest \in Content
  BY DEF ImportInv, ImportTypes
<1>2. importer' = [importer EXCEPT ![p] = [importer[p] EXCEPT !.pc = pc]]
  BY <1>1 DEF Moves
<1>3. importer[p] \in ImporterRow
  BY <1>1
<1>4. [importer[p] EXCEPT !.pc = pc] \in ImporterRow
      /\ [importer[p] EXCEPT !.pc = pc].pc = pc
      /\ [importer[p] EXCEPT !.pc = pc].digest = importer[p].digest
  BY <1>3 DEF ImporterRow
<1> QED
  BY <1>1, <1>2, <1>4

(* The digest of the file is taken. *)
LEMMA DigestKeeps ==
  ASSUME ImportInv, NEW p \in Importer, Digest(p)
  PROVE  ImportInv'
<1>1. /\ importer \in [Importer -> ImporterRow] /\ file \in Content
      /\ \A q \in Importer : importer[q].pc # "idle" => importer[q].digest \in Content
  BY DEF ImportInv, ImportTypes
<1> DEFINE entry == [importer[p] EXCEPT !.pc = "find", !.digest = file]
<1>2. importer' = [importer EXCEPT ![p] = entry]
  BY <1>1 DEF Digest
<1>3. importer[p] \in ImporterRow
  BY <1>1
<1>4. entry \in ImporterRow /\ entry.pc = "find" /\ entry.digest = file
  BY <1>1, <1>3 DEF ImporterRow, ImporterPc
<1> HIDE DEF entry
<1>5. importer' \in [Importer -> ImporterRow] /\ importer'[p] = entry
      /\ \A q \in Importer \ {p} : importer'[q] = importer[q]
  BY <1>1, <1>2, <1>4
<1>6. UNCHANGED <<file, posts, likes, importRun>>
  BY DEF Digest, Unrun
<1>7. ImportTypes'
  BY <1>1, <1>4, <1>5, <1>6 DEF ImportInv, ImportTypes
<1>8. \A q \in Importer : importer'[q].pc \in {"done", "reused"} =>
          importRun[importer'[q].digest].read # {} /\ importer'[q].digest \in Content
  BY <1>1, <1>4, <1>5 DEF ImportInv, ReportsHaveRead
<1> QED
  BY <1>6, <1>7, <1>8, RowsKept

(* A run that is found complete has read a content. *)
LEMMA FindRunKeeps ==
  ASSUME ImportInv, NEW p \in Importer, FindRun(p)
  PROVE  ImportInv'
<1>1. /\ importer \in [Importer -> ImporterRow] /\ importRun \in [Content -> ImportRow]
      /\ \A q \in Importer : importer[q].pc # "idle" => importer[q].digest \in Content
      /\ importer[p].pc = "find"
  BY DEF ImportInv, ImportTypes, FindRun, At
<1> DEFINE status == importRun[importer[p].digest].status
           pc == IF status = "complete" THEN "reused" ELSE "begin"
           entry == [importer[p] EXCEPT !.found = status, !.pc = pc]
<1>2. importer' = [importer EXCEPT ![p] = entry]
  BY <1>1 DEF FindRun
<1>3. importer[p] \in ImporterRow /\ importer[p].digest \in Content
  BY <1>1
<1>4. status \in ImportStatus
  BY <1>1, <1>3 DEF ImportRow
<1>5. pc \in ImporterPc /\ (pc = "reused" => status = "complete") /\ pc # "done"
  BY DEF ImporterPc
<1>6. status = "complete" => importRun[importer[p].digest].read # {}
  BY <1>3 DEF ImportInv, ReportsHaveRead
<1> HIDE DEF pc, status
<1>7. entry \in ImporterRow /\ entry.pc = pc /\ entry.digest = importer[p].digest
  BY <1>3, <1>4, <1>5 DEF ImporterRow
<1> HIDE DEF entry
<1>8. importer' \in [Importer -> ImporterRow] /\ importer'[p] = entry
      /\ \A q \in Importer \ {p} : importer'[q] = importer[q]
  BY <1>1, <1>2, <1>7
<1>9. UNCHANGED <<file, posts, likes, importRun>>
  BY DEF FindRun, Unrun
<1>10. ImportTypes'
  BY <1>1, <1>3, <1>7, <1>8, <1>9 DEF ImportInv, ImportTypes
<1>11. \A q \in Importer : importer'[q].pc \in {"done", "reused"} =>
          importRun[importer'[q].digest].read # {} /\ importer'[q].digest \in Content
  BY <1>1, <1>3, <1>5, <1>6, <1>7, <1>8 DEF ImportInv, ReportsHaveRead
<1> QED
  BY <1>9, <1>10, <1>11, RowsKept

(* A run that begins again has read what it had read. *)
LEMMA BeginImportKeeps ==
  ASSUME ImportInv, NEW p \in Importer, BeginImport(p)
  PROVE  ImportInv'
<1> DEFINE d == importer[p].digest
<1>1. /\ importRun \in [Content -> ImportRow] /\ importer[p].pc = "begin" /\ d \in Content
  BY DEF ImportInv, ImportTypes, BeginImport, At
<1>2. PICK pc \in {"raised", "import"} : Moves(p, pc)
  BY DEF BeginImport
<1>3. /\ importer' \in [Importer -> ImporterRow]
      /\ importer'[p].pc = pc /\ importer'[p].digest = importer[p].digest
      /\ \A q \in Importer \ {p} : importer'[q] = importer[q]
      /\ \A q \in Importer : importer'[q].pc # "idle" => importer'[q].digest \in Content
  BY <1>1, <1>2, MovesFields DEF ImporterPc
<1>4. UNCHANGED <<file, posts, likes>>
  BY DEF BeginImport, Unrun
<1>5. /\ importRun' \in [Content -> ImportRow]
      /\ \A c \in Content : /\ importRun'[c].read = importRun[c].read
                            /\ importRun'[c].status = "complete" => importRun[c].status = "complete"
  <2>1. CASE importRun' = importRun
    BY <1>1, <2>1
  <2>2. CASE importRun' = [importRun EXCEPT ![d].status = "running"]
    <3> DEFINE entry == [importRun[d] EXCEPT !.status = "running"]
    <3>1. entry \in ImportRow /\ entry.status = "running" /\ entry.read = importRun[d].read
      <4>1. "running" \in ImportStatus
        BY DEF ImportStatus
      <4> HIDE DEF d
      <4>2. importRun[d] \in ImportRow
        BY <1>1
      <4> QED
        BY <4>1, <4>2 DEF ImportRow
    <3>2. importRun' = [importRun EXCEPT ![d] = entry]
      BY <1>1, <2>2
    <3> HIDE DEF entry, d
    <3> QED
      BY <1>1, <3>1, <3>2
  <2> QED
    BY <2>1, <2>2 DEF BeginImport, Unrun
<1>6. ImportTypes'
  BY <1>3, <1>4, <1>5 DEF ImportInv, ImportTypes
<1>7. \A q \in Importer : importer'[q].pc \in {"done", "reused"} =>
          importRun[importer'[q].digest].read # {} /\ importer'[q].digest \in Content
  BY <1>2, <1>3 DEF ImportInv, ReportsHaveRead
<1> QED
  BY <1>4, <1>5, <1>6, <1>7, RowsKept

(* A failure changes the status of its run only. *)
LEMMA NoteFailureKeeps ==
  ASSUME ImportInv, NEW p \in Importer, NoteFailure(p)
  PROVE  ImportInv'
<1> DEFINE d == importer[p].digest
           counts == [importer[p].counts EXCEPT !.failed = 1]
           entry == [importRun[d] EXCEPT !.status = "failed", !.counts = counts]
<1>1. /\ importRun \in [Content -> ImportRow] /\ importer[p].pc = "failing" /\ d \in Content
      /\ importer[p] \in ImporterRow
  BY DEF ImportInv, ImportTypes, NoteFailure, At
<1>2. Moves(p, "raised") /\ "raised" \in ImporterPc
  BY DEF NoteFailure, ImporterPc
<1>3. /\ importer' \in [Importer -> ImporterRow]
      /\ importer'[p].pc = "raised" /\ importer'[p].digest = importer[p].digest
      /\ \A q \in Importer \ {p} : importer'[q] = importer[q]
      /\ \A q \in Importer : importer'[q].pc # "idle" => importer'[q].digest \in Content
  BY <1>1, <1>2, MovesFields
<1>4. UNCHANGED <<file, posts, likes>>
  BY DEF NoteFailure
<1>5. counts \in CountRow
  <2>1. importer[p].counts \in CountRow
    BY <1>1 DEF ImporterRow
  <2> QED
    BY <2>1 DEF CountRow
<1>6. importRun' = [importRun EXCEPT ![d] = entry]
  BY <1>1 DEF NoteFailure
<1> HIDE DEF counts
<1>7. entry \in ImportRow /\ entry.status = "failed" /\ entry.read = importRun[d].read
  <2>1. "failed" \in ImportStatus
    BY DEF ImportStatus
  <2> HIDE DEF d
  <2>2. importRun[d] \in ImportRow
    BY <1>1
  <2> QED
    BY <1>5, <2>1, <2>2 DEF ImportRow
<1> HIDE DEF entry, d
<1>8. /\ importRun' \in [Content -> ImportRow]
      /\ \A c \in Content : /\ importRun'[c].read = importRun[c].read
                            /\ importRun'[c].status = "complete" => importRun[c].status = "complete"
  BY <1>1, <1>6, <1>7
<1>9. ImportTypes'
  BY <1>3, <1>4, <1>8 DEF ImportInv, ImportTypes
<1>10. \A q \in Importer : importer'[q].pc \in {"done", "reused"} =>
          importRun[importer'[q].digest].read # {} /\ importer'[q].digest \in Content
  BY <1>3 DEF ImportInv, ReportsHaveRead
<1> QED
  BY <1>4, <1>8, <1>9, <1>10, RowsKept

(* The next command knows nothing of the last one. *)
LEMMA RestartKeeps ==
  ASSUME ImportInv, NEW p \in Importer, ImporterRestarts(p)
  PROVE  ImportInv'
<1>1. /\ importer \in [Importer -> ImporterRow]
      /\ \A q \in Importer : importer[q].pc # "idle" => importer[q].digest \in Content
  BY DEF ImportInv, ImportTypes
<1>2. NoImport \in ImporterRow /\ NoImport.pc = "idle"
  BY DEF NoImport, ImporterRow, ImporterPc, ImportStatus, NoCounts, CountRow
<1>3. importer' = [importer EXCEPT ![p] = NoImport] /\ UNCHANGED <<file, posts, likes, importRun>>
  BY DEF ImporterRestarts, Unrun
<1>4. ImportTypes'
  BY <1>1, <1>2, <1>3 DEF ImportInv, ImportTypes
<1>5. \A q \in Importer : importer'[q].pc \in {"done", "reused"} =>
          importRun[importer'[q].digest].read # {} /\ importer'[q].digest \in Content
  BY <1>1, <1>2, <1>3 DEF ImportInv, ReportsHaveRead
<1> QED
  BY <1>3, <1>4, <1>5, RowsKept

(* What happens to the file and to its asset concerns no run. *)
LEMMA OutsideKeepsImports ==
  ASSUME ImportInv, file' \in Content, UNCHANGED <<posts, likes, importRun, importer>>
  PROVE  ImportInv'
<1>1. ImportTypes'
  BY DEF ImportInv, ImportTypes
<1>2. \A q \in Importer : importer'[q].pc \in {"done", "reused"} =>
          importRun[importer'[q].digest].read # {} /\ importer'[q].digest \in Content
  BY DEF ImportInv, ReportsHaveRead, ImportTypes
<1> QED
  BY <1>1, <1>2, RowsKept

(* An import that comes to its end reads the file as a whole.              *)
LEMMA ImportReads ==
  ASSUME ImportInv, NEW d \in Content, ImportRecords(file, d).good
  PROVE  LET done == ImportRecords(file, d) IN
         /\ done.posts \in PostsRow /\ done.likes \in SUBSET LikeRow /\ done.counts \in CountRow
         /\ done.likes = likes \cup FactsOf(file, d)
         /\ \A n \in DOMAIN RecordsOf[file] : done.posts[RecordsOf[file][n].post] # NoValue
         /\ \A i \in PostIds : /\ done.posts[i] = posts[i] \/ FromRecord(done.posts[i], i, file)
                               /\ posts[i] # NoValue => done.posts[i] # NoValue
         /\ (\A n \in DOMAIN RecordsOf[file] : posts[RecordsOf[file][n].post] # NoValue) =>
               done.counts.inserted = 0
<1> DEFINE done == ImportRecords(file, d)
           R == RecordsOf[file]
<1>1. file \in Content /\ posts \in PostsRow /\ likes \subseteq LikeRow
  BY DEF ImportInv, ImportTypes
<1>2. DOMAIN R = 1..Len(R)
  BY <1>1, RecordsAre
<1>3. done.good
  OBVIOUS
<1>4. DoneUpTo(done, file, d, Len(R))
  BY <1>1, ImportRecordsDo
<1> HIDE DEF done
<1>5. done.posts \in PostsRow /\ done.likes \in SUBSET LikeRow /\ done.counts \in CountRow
  BY <1>4 DEF DoneUpTo, Progress
<1>6. done.likes = likes \cup FactsOf(file, d)
  BY <1>2, <1>3, <1>4 DEF DoneUpTo, FactsOf
<1>7. \A n \in DOMAIN R : done.posts[R[n].post] # NoValue
  BY <1>2, <1>3, <1>4 DEF DoneUpTo
<1>8. /\ \A i \in PostIds : /\ done.posts[i] = posts[i] \/ FromRecord(done.posts[i], i, file)
                            /\ posts[i] # NoValue => done.posts[i] # NoValue
      /\ (\A n \in DOMAIN R : posts[R[n].post] # NoValue) => done.counts.inserted = 0
  BY <1>4 DEF DoneUpTo
<1> QED
  BY <1>5, <1>6, <1>7, <1>8 DEF done

(* The transaction of an import that completes stores all that it reads. *)
LEMMA ImportCompletes ==
  ASSUME ImportInv, NEW p \in Importer, At(p, "import"), NEW d, d = importer[p].digest,
         NEW done, done = ImportRecords(file, d), done.good, Moves(p, "done"),
         importRun' = [importRun EXCEPT ![d] = [status |-> "complete", counts |-> done.counts,
                                                read |-> @.read \cup {file}]],
         posts' = done.posts, likes' = done.likes, file' = file
  PROVE  ImportInv'
<1>1. /\ importRun \in [Content -> ImportRow] /\ importer[p].pc = "import" /\ d \in Content
      /\ file \in Content
  BY DEF ImportInv, ImportTypes, At
<1>2. /\ importer' \in [Importer -> ImporterRow]
      /\ importer'[p].pc = "done" /\ importer'[p].digest = d
      /\ \A q \in Importer \ {p} : importer'[q] = importer[q]
      /\ \A q \in Importer : importer'[q].pc # "idle" => importer'[q].digest \in Content
  BY <1>1, MovesFields DEF ImporterPc
<1>3. /\ posts' \in PostsRow /\ likes' \in SUBSET LikeRow /\ done.counts \in CountRow
      /\ likes' = likes \cup FactsOf(file, d)
      /\ \A n \in DOMAIN RecordsOf[file] : posts'[RecordsOf[file][n].post] # NoValue
      /\ \A i \in PostIds : /\ posts'[i] = posts[i] \/ FromRecord(posts'[i], i, file)
                            /\ posts[i] # NoValue => posts'[i] # NoValue
  BY <1>1, ImportReads
<1> DEFINE entry == [status |-> "complete", counts |-> done.counts,
                   read |-> importRun[d].read \cup {file}]
<1>4. entry \in ImportRow /\ entry.status = "complete" /\ entry.read = importRun[d].read \cup {file}
  <2>1. importRun[d].read \in SUBSET Content /\ "complete" \in ImportStatus
    BY <1>1 DEF ImportRow, ImportStatus
  <2> QED
    BY <1>1, <1>3, <2>1 DEF ImportRow
<1>5. importRun' = [importRun EXCEPT ![d] = entry]
  BY <1>1
<1> HIDE DEF entry
<1>6. /\ importRun' \in [Content -> ImportRow]
      /\ importRun'[d].read = importRun[d].read \cup {file}
      /\ \A e \in Content \ {d} : importRun'[e] = importRun[e]
  BY <1>1, <1>4, <1>5
<1>7. ImportTypes'
  BY <1>1, <1>2, <1>3, <1>6 DEF ImportTypes
<1>8. ReadIsStored'
  <2> SUFFICES ASSUME NEW e \in Content, NEW c \in importRun'[e].read
               PROVE  /\ FactsOf(c, e) \subseteq likes'
                      /\ \A n \in DOMAIN RecordsOf[c] : posts'[RecordsOf[c][n].post] # NoValue
    BY DEF ReadIsStored, FactsOf, Liked
  <2>1. CASE c \in importRun[e].read
    <3>1. /\ FactsOf(c, e) \subseteq likes
          /\ \A n \in DOMAIN RecordsOf[c] : posts[RecordsOf[c][n].post] # NoValue
      BY <2>1 DEF ImportInv, ReadIsStored
    <3>2. c \in Content
      BY <1>6 DEF ImportRow
    <3>3. \A n \in DOMAIN RecordsOf[c] : RecordsOf[c][n].post \in PostIds
      BY <3>2 DEF PostIds
    <3> QED
      BY <1>3, <3>1, <3>3
  <2>2. CASE c \notin importRun[e].read
    <3>1. e = d /\ c = file
      BY <1>6, <2>2
    <3> QED
      BY <1>3, <3>1
  <2> QED
    BY <2>1, <2>2
<1>9. NothingUnreported'
  <2>1. ASSUME NEW l \in likes'
        PROVE  \E c \in importRun'[l.run].read : l \in FactsOf(c, l.run)
    <3>1. CASE l \in likes
      <4>1. l.run \in Content /\ \E c \in importRun[l.run].read : l \in FactsOf(c, l.run)
        BY <3>1 DEF ImportInv, NothingUnreported, ImportTypes, LikeRow
      <4> QED
        BY <1>6, <4>1
    <3>2. CASE l \in FactsOf(file, d)
      <4>1. l.run = d
        BY <3>2 DEF FactsOf, Liked
      <4> QED
        BY <1>6, <3>2, <4>1
    <3> QED
      BY <1>3, <3>1, <3>2
  <2>2. ASSUME NEW i \in PostIds, posts'[i] # NoValue
        PROVE  \E e \in Content : \E c \in importRun'[e].read : FromRecord(posts'[i], i, c)
    <3>1. CASE posts'[i] = posts[i]
      <4>1. PICK e \in Content : \E c \in importRun[e].read : FromRecord(posts[i], i, c)
        BY <2>2, <3>1 DEF ImportInv, NothingUnreported, FromRecord
      <4> QED
        BY <1>6, <3>1, <4>1
    <3>2. CASE FromRecord(posts'[i], i, file)
      BY <1>1, <1>6, <3>2
    <3> QED
      BY <1>3, <3>1, <3>2
  <2> QED
    BY <2>1, <2>2 DEF NothingUnreported, FromRecord, FactsOf, Liked
<1>10. ReportsHaveRead'
  <2>1. \A e \in Content : importRun'[e].status = "complete" => importRun'[e].read # {}
    BY <1>6 DEF ImportInv, ReportsHaveRead
  <2>2. ASSUME NEW q \in Importer, importer'[q].pc \in {"done", "reused"}
        PROVE  importRun'[importer'[q].digest].read # {}
    <3>1. CASE q = p
      BY <1>2, <1>6, <3>1
    <3>2. CASE q # p
      <4>1. importer'[q].digest \in Content
        BY <1>2, <2>2
      <4>2. importRun[importer'[q].digest].read # {}
        BY <1>2, <2>2, <3>2 DEF ImportInv, ReportsHaveRead
      <4> QED
        BY <1>6, <4>1, <4>2
    <3> QED
      BY <3>1, <3>2
  <2> QED
    BY <2>1, <2>2 DEF ReportsHaveRead
<1> QED
  BY <1>7, <1>8, <1>9, <1>10 DEF ImportInv

(* An import completes, or fails and stores nothing. *)
LEMMA ImportKeeps ==
  ASSUME ImportInv, NEW p \in Importer, Import(p)
  PROVE  ImportInv'
<1> DEFINE d == importer[p].digest
           done == ImportRecords(file, d)
<1>1. /\ importer \in [Importer -> ImporterRow] /\ importer[p].pc = "import" /\ d \in Content
      /\ \A q \in Importer : importer[q].pc # "idle" => importer[q].digest \in Content
      /\ file \in Content /\ posts \in PostsRow /\ likes \subseteq LikeRow
  BY DEF ImportInv, ImportTypes, Import, At
<1>2. file' = file
  BY DEF Import
<1>3. CASE /\ done.good /\ Moves(p, "done")
           /\ importRun' = [importRun EXCEPT ![d] = [status |-> "complete", counts |-> done.counts,
                                                read |-> @.read \cup {file}]]
           /\ posts' = done.posts /\ likes' = done.likes
  <2>1. At(p, "import")
    BY DEF Import
  <2> QED
    BY <1>2, <1>3, <2>1, ImportCompletes
<1>4. CASE /\ importer' = [importer EXCEPT ![p].pc = "failing", ![p].counts =
                              IF sourceKind = "xarchive" /\ ~ done.good THEN done.counts ELSE @]
           /\ Unrun
  <2>1. done.counts \in CountRow
    <3>1. DoneUpTo(done, file, d, Len(RecordsOf[file]))
      BY <1>1, ImportRecordsDo
    <3> HIDE DEF done
    <3> QED
      BY <3>1 DEF DoneUpTo, Progress
  <2> DEFINE counts == IF sourceKind = "xarchive" /\ ~ done.good THEN done.counts
                       ELSE importer[p].counts
             entry == [importer[p] EXCEPT !.pc = "failing", !.counts = counts]
  <2>2. importer' = [importer EXCEPT ![p] = entry]
    <3> HIDE DEF done
    <3> QED
      BY <1>1, <1>4
  <2>3. importer[p] \in ImporterRow
    BY <1>1
  <2>4. counts \in CountRow
    <3> HIDE DEF done
    <3> QED
      BY <2>1, <2>3 DEF ImporterRow
  <2> HIDE DEF counts, done
  <2>5. entry \in ImporterRow /\ entry.pc = "failing" /\ entry.digest = d
    BY <2>3, <2>4 DEF ImporterRow, ImporterPc
  <2> HIDE DEF entry, d
  <2>6. /\ importer' \in [Importer -> ImporterRow] /\ importer'[p] = entry
        /\ \A q \in Importer \ {p} : importer'[q] = importer[q]
    BY <1>1, <2>2, <2>5
  <2>7. UNCHANGED <<importRun, posts, likes>>
    BY <1>4 DEF Unrun
  <2>8. ImportTypes'
    BY <1>1, <1>2, <2>5, <2>6, <2>7 DEF ImportInv, ImportTypes
  <2>9. \A q \in Importer : importer'[q].pc \in {"done", "reused"} =>
          importRun[importer'[q].digest].read # {} /\ importer'[q].digest \in Content
    BY <1>1, <2>5, <2>6 DEF ImportInv, ReportsHaveRead
  <2> QED
    BY <2>7, <2>8, <2>9, RowsKept
<1> HIDE DEF done, d
<1> QED
  BY <1>3, <1>4 DEF Import, d, done

(***************************************************************************)
(* Imports and seeds                                                       *)
(***************************************************************************)

(* Every step of an import keeps its invariant. *)
LEMMA ImportStepKeeps ==
  ASSUME ImportInv, ImportStep
  PROVE  ImportInv'
<1>1. CASE \E p \in Importer : \/ Digest(p) \/ FindRun(p) \/ BeginImport(p)
                               \/ Import(p) \/ NoteFailure(p) \/ ImporterRestarts(p)
  BY <1>1, DigestKeeps, FindRunKeeps, BeginImportKeeps, ImportKeeps, NoteFailureKeeps, RestartKeeps
<1>2. CASE FileChanges
  BY <1>2, OutsideKeepsImports DEF FileChanges, Unrun
<1>3. CASE AssetAdopted
  BY <1>3, OutsideKeepsImports DEF AssetAdopted, ImportInv, ImportTypes
<1> QED
  BY <1>1, <1>2, <1>3 DEF ImportStep

(* A step of one seeder, by which nothing goes away.                       *)
LEMMA SeederKeeps ==
  ASSUME SeedInv, NEW p \in Importer, NEW entry,
         seeder' = [seeder EXCEPT ![p] = entry], SeederStands(entry, seedRun', stub', seedAsset'),
         stub => stub', seedRun \subseteq seedRun',
         seedAsset # NoValue => seedAsset' = seedAsset, seedAsset' \in SeedBundle,
         seedRun' \subseteq SeedBundle, seedSources' \subseteq SeedFile,
         seedRun' \ {NoValue} \subseteq seedSources'
  PROVE  SeedInv'
<1>1. DOMAIN seeder' = Importer
  BY DEF SeedInv
<1>2. ASSUME NEW q \in Importer
      PROVE  SeederStands(seeder'[q], seedRun', stub', seedAsset')
  <2>1. CASE q = p
    BY <2>1 DEF SeedInv
  <2>2. CASE q # p
    <3>1. seeder'[q] = seeder[q]
      BY <2>2 DEF SeedInv
    <3>2. SeederStands(seeder[q], seedRun, stub, seedAsset)
      BY DEF SeedInv
    <3> QED
      BY <3>1, <3>2 DEF SeederStands
  <2> QED
    BY <2>1, <2>2
<1> QED
  BY <1>1, <1>2 DEF SeedInv

(* A seed writes its run and its source in one transaction. *)
LEMMA MaterializeSeedKeeps ==
  ASSUME SeedInv, NEW p \in Importer, MaterializeSeed(p)
  PROVE  SeedInv'
<1>1. PICK b \in SeedBundle :
         /\ seeder' = [seeder EXCEPT ![p].bundle = b, ![p].pc = IF b = NoValue THEN "done" ELSE "adopt"]
         /\ seedRun' = seedRun \cup {b}
         /\ stub' = TRUE
         /\ seedSources' = IF b \in seedRun THEN seedSources ELSE (seedSources \cup {b}) \ {NoValue}
         /\ seedAsset' = seedAsset
  BY DEF MaterializeSeed
<1>2. seeder[p] \in SeederRow /\ DOMAIN seeder = Importer
  BY DEF SeedInv, SeederStands
<1> DEFINE made == IF b = NoValue THEN "done" ELSE "adopt"
           entry == [seeder[p] EXCEPT !.bundle = b, !.pc = made]
<1>3. seeder' = [seeder EXCEPT ![p] = entry]
  BY <1>1, <1>2
<1>4. made \in {"adopt", "done"} /\ (made = "done" => b = NoValue) /\ (made = "adopt" => b # NoValue)
  OBVIOUS
<1> HIDE DEF made
<1>5. entry \in SeederRow /\ entry.pc = made /\ entry.bundle = b
  BY <1>2, <1>4 DEF SeederRow
<1> HIDE DEF entry
<1>6. SeederStands(entry, seedRun', stub', seedAsset')
  BY <1>1, <1>4, <1>5 DEF SeederStands
<1>7. seedRun' \subseteq SeedBundle /\ seedSources' \subseteq SeedFile
      /\ seedRun' \ {NoValue} \subseteq seedSources'
  <2>1. NoValue \notin SeedFile /\ SeedBundle = SeedFile \cup {NoValue}
    BY ImportAssumption DEF SeedBundle
  <2>2. seedRun \subseteq SeedBundle /\ seedSources \subseteq SeedFile
        /\ seedRun \ {NoValue} \subseteq seedSources
    BY DEF SeedInv
  <2> QED
    BY <1>1, <2>1, <2>2
<1>8. seedAsset' \in SeedBundle
  BY <1>1 DEF SeedInv
<1> QED
  BY <1>1, <1>3, <1>6, <1>7, <1>8, SeederKeeps

(* A seed that reports an asset reports the one that is there, which then  *)
(* stays.                                                                  *)
LEMMA EnsureAdoptedKeeps ==
  ASSUME SeedInv, NEW p \in Importer, EnsureAdopted(p)
  PROVE  SeedInv'
<1>1. UNCHANGED <<seedRun, stub, seedSources>>
  BY DEF EnsureAdopted
<1>2. /\ seedRun \subseteq SeedBundle /\ seedSources \subseteq SeedFile
      /\ seedRun \ {NoValue} \subseteq seedSources
      /\ seedSources \subseteq SeedBundle /\ NoValue \notin seedSources
  BY ImportAssumption DEF SeedInv, SeedBundle
<1>3. /\ seeder[p] \in SeederRow /\ DOMAIN seeder = Importer /\ seedAsset \in SeedBundle
      /\ stub /\ seeder[p].bundle \in seedRun /\ seeder[p].bundle # NoValue
  BY DEF SeedInv, SeederStands, EnsureAdopted, SeederAt
<1>4. ASSUME NEW f \in SeedBundle \ {NoValue}, seedAsset' = f, seedAsset # NoValue => f = seedAsset,
             seeder' = [seeder EXCEPT ![p].pc = "done", ![p].reports = f]
      PROVE  SeedInv'
  <2> DEFINE entry == [seeder[p] EXCEPT !.pc = "done", !.reports = f]
  <2>1. seeder' = [seeder EXCEPT ![p] = entry]
    BY <1>3, <1>4
  <2>2. entry \in SeederRow /\ entry.pc = "done" /\ entry.reports = f /\ entry.bundle = seeder[p].bundle
    BY <1>3 DEF SeederRow
  <2> HIDE DEF entry
  <2>3. SeederStands(entry, seedRun', stub', seedAsset')
    BY <1>1, <1>3, <1>4, <2>2 DEF SeederStands
  <2> QED
    BY <1>1, <1>2, <1>4, <2>1, <2>3, SeederKeeps
<1>5. CASE seedAsset = NoValue /\ UNCHANGED seedAsset /\ seeder' = [seeder EXCEPT ![p].pc = "raised"]
  <2> DEFINE entry == [seeder[p] EXCEPT !.pc = "raised"]
  <2>1. seeder' = [seeder EXCEPT ![p] = entry]
    BY <1>3, <1>5
  <2>2. entry \in SeederRow /\ entry.pc = "raised" /\ entry.bundle = seeder[p].bundle
    BY <1>3 DEF SeederRow
  <2> HIDE DEF entry
  <2>3. SeederStands(entry, seedRun', stub', seedAsset')
    BY <1>1, <1>3, <2>2 DEF SeederStands
  <2> QED
    BY <1>1, <1>2, <1>3, <1>5, <2>1, <2>3, SeederKeeps
<1>6. CASE /\ seedAsset = NoValue
           /\ \E f \in seedSources : seedAsset' = f
           /\ seeder' = [seeder EXCEPT ![p].pc = "done", ![p].reports = seedAsset']
  <2>1. PICK f \in seedSources : seedAsset' = f
    BY <1>6
  <2>2. f \in SeedBundle \ {NoValue}
    BY <1>2, <2>1
  <2>3. seeder' = [seeder EXCEPT ![p].pc = "done", ![p].reports = f]
    BY <1>6, <2>1
  <2> QED
    BY <1>4, <1>6, <2>1, <2>2, <2>3
<1>7. CASE /\ seedAsset # NoValue
           /\ seeder' = [seeder EXCEPT ![p].pc = "done", ![p].reports = seedAsset]
           /\ UNCHANGED seedAsset
  BY <1>3, <1>4, <1>7
<1> QED
  BY <1>5, <1>6, <1>7 DEF EnsureAdopted

(* Every step of a seed keeps its invariant. *)
LEMMA SeedStepKeeps ==
  ASSUME SeedInv, SeedStep
  PROVE  SeedInv'
<1>1. CASE \E p \in Importer : MaterializeSeed(p) \/ EnsureAdopted(p)
  BY <1>1, MaterializeSeedKeeps, EnsureAdoptedKeeps
<1>2. CASE \E p \in Importer : SeederRestarts(p)
  <2>1. PICK p \in Importer : SeederRestarts(p)
    BY <1>2
  <2> DEFINE entry == [pc |-> "idle", bundle |-> NoValue, reports |-> NoValue]
  <2>2. seeder' = [seeder EXCEPT ![p] = entry] /\ UNCHANGED <<seedRun, stub, seedSources, seedAsset>>
    BY <2>1 DEF SeederRestarts
  <2>3. SeederStands(entry, seedRun, stub, seedAsset)
    BY DEF SeederStands, SeederRow, SeedBundle
  <2>4. /\ seedRun \subseteq SeedBundle /\ seedSources \subseteq SeedFile /\ seedAsset \in SeedBundle
        /\ seedRun \ {NoValue} \subseteq seedSources
    BY DEF SeedInv
  <2> HIDE DEF entry
  <2> QED
    BY <2>2, <2>3, <2>4, SeederKeeps
<1> QED
  BY <1>1, <1>2 DEF SeedStep

(* Every step of either keeps both invariants. *)
LEMMA ImportsStep == ImportInv /\ SeedInv /\ [ImportsNext]_importsVars => (ImportInv /\ SeedInv)'
<1> SUFFICES ASSUME ImportInv, SeedInv, [ImportsNext]_importsVars
             PROVE  ImportInv' /\ SeedInv'
  OBVIOUS
<1>1. ASSUME UNCHANGED importVars
      PROVE  ImportInv'
  BY <1>1, OutsideKeepsImports DEF importVars, ImportInv, ImportTypes
<1>2. ASSUME UNCHANGED seedVars
      PROVE  SeedInv'
  BY <1>2 DEF seedVars, SeedInv
<1>3. CASE ImportStep
  <2>1. UNCHANGED seedVars
    BY <1>3 DEF ImportStep
  <2> QED
    BY <1>2, <1>3, <2>1, ImportStepKeeps
<1>4. CASE SeedStep
  <2>1. UNCHANGED importVars
    BY <1>4 DEF SeedStep
  <2> QED
    BY <1>1, <1>4, <2>1, SeedStepKeeps
<1>5. CASE UNCHANGED importsVars
  BY <1>1, <1>2, <1>5 DEF importsVars
<1> QED
  BY <1>3, <1>4, <1>5 DEF ImportsNext

(* Imports and seeds keep what their reports rest on.                      *)
THEOREM ImportsInvariance == ImportsSpec => [](ImportInv /\ SeedInv)
<1>1. ImportsInit => ImportInv /\ SeedInv
  BY ImportsBegin
<1>2. ImportInv /\ SeedInv /\ [ImportsNext]_importsVars => (ImportInv /\ SeedInv)'
  BY ImportsStep
<1> QED
  BY <1>1, <1>2, PTL DEF ImportsSpec

(* What imports and seeds report is stored, and nothing else is, whichever *)
(* imports of one file race, fail or are killed (imports/common.py:59-102, *)
(* seeding/service.py:128-164).                                            *)
THEOREM ImportsStand == ImportsSpec => []ImportsAreTrue
<1>1. ImportInv /\ SeedInv => ImportsAreTrue
  <2> SUFFICES ASSUME ImportInv, SeedInv PROVE ImportsAreTrue
    OBVIOUS
  <2>1. ReportedIsStored
    <3> SUFFICES ASSUME NEW p \in Importer, importer[p].pc \in {"done", "reused"}
                 PROVE  LET run == importRun[importer[p].digest] IN
                        /\ run.read # {}
                        /\ \A c \in run.read : FactsOf(c, importer[p].digest) \subseteq likes
      BY DEF ReportedIsStored
    <3>1. importer[p].digest \in Content
      BY DEF ImportInv, ImportTypes
    <3> QED
      BY <3>1 DEF ImportInv, ReportsHaveRead, ReadIsStored
  <2>2. NothingUnreported
    BY DEF ImportInv
  <2>3. SeedReportIsTrue
    <3> SUFFICES ASSUME NEW p \in Importer, SeederAt(p, "done")
                 PROVE  /\ stub /\ seeder[p].bundle \in seedRun
                        /\ seeder[p].bundle # NoValue =>
                              /\ seeder[p].bundle \in seedSources
                              /\ seeder[p].reports # NoValue /\ seeder[p].reports = seedAsset
      BY DEF SeedReportIsTrue
    <3>1. SeederStands(seeder[p], seedRun, stub, seedAsset) /\ seeder[p].pc = "done"
      BY DEF SeedInv, SeederAt
    <3>2. seedRun \ {NoValue} \subseteq seedSources
      BY DEF SeedInv
    <3> QED
      BY <3>1, <3>2 DEF SeederStands
  <2> QED
    BY <2>1, <2>2, <2>3 DEF ImportsAreTrue
<1> QED
  BY <1>1, ImportsInvariance, PTL

(* An import of a content that its run has read adds no event and no post, *)
(* although a racing import has taken the run out of 'complete'            *)
(* (imports/common.py:72-101).                                             *)
THEOREM RepeatsAddNothing == ImportsSpec => ImportsAreIdempotent
<1>1. ImportInv /\ [ImportsNext]_importsVars => [RepeatAddsNothing]_importsVars
  <2> SUFFICES ASSUME ImportInv, ImportsNext, NEW p \in Importer,
                      importer[p].pc = "import", importer'[p].pc = "done",
                      file \in importRun[importer[p].digest].read
               PROVE  likes' = likes /\ importRun'[importer[p].digest].counts.inserted = 0
    BY DEF RepeatAddsNothing, importsVars
  <2> DEFINE d == importer[p].digest
  <2>1. /\ importer \in [Importer -> ImporterRow] /\ importRun \in [Content -> ImportRow]
        /\ \A q \in Importer : importer[q].pc # "idle" => importer[q].digest \in Content
    BY DEF ImportInv, ImportTypes
  <2>2. d \in Content
    BY <2>1
  <2>3. Import(p)
    <3>1. importer' # importer
      OBVIOUS
    <3>2. ImportStep
      BY <3>1 DEF ImportsNext, SeedStep, importVars
    <3>3. PICK q \in Importer : \/ Digest(q) \/ FindRun(q) \/ BeginImport(q)
                                \/ Import(q) \/ NoteFailure(q) \/ ImporterRestarts(q)
      BY <3>1, <3>2 DEF ImportStep, FileChanges, AssetAdopted
    <3>4. q = p
      <4>1. \A x \in Importer \ {q} : importer'[x] = importer[x]
        BY <2>1, <3>3 DEF Digest, FindRun, BeginImport, Import, NoteFailure, ImporterRestarts, Moves
      <4> QED
        BY <4>1
    <3> QED
      BY <2>1, <3>3, <3>4 DEF Digest, FindRun, BeginImport, NoteFailure, ImporterRestarts, At, Moves,
         NoImport
  <2>4. /\ ImportRecords(file, d).good
        /\ importRun' = [importRun EXCEPT ![d] = [status |-> "complete",
                 counts |-> ImportRecords(file, d).counts, read |-> @.read \cup {file}]]
        /\ likes' = ImportRecords(file, d).likes
    <3>1. CASE \E n : importer' = [importer EXCEPT ![p].pc = "failing", ![p].counts = n]
      BY <2>1, <3>1
    <3>2. CASE ~ \E n : importer' = [importer EXCEPT ![p].pc = "failing", ![p].counts = n]
      BY <2>3, <3>2, Zenon DEF Import
    <3> QED
      BY <3>1, <3>2
  <2>5. /\ FactsOf(file, d) \subseteq likes
        /\ \A n \in DOMAIN RecordsOf[file] : posts[RecordsOf[file][n].post] # NoValue
    BY <2>2 DEF ImportInv, ReadIsStored
  <2>6. /\ ImportRecords(file, d).likes = likes \cup FactsOf(file, d)
        /\ ImportRecords(file, d).counts.inserted = 0
    BY <2>2, <2>4, <2>5, ImportReads
  <2> HIDE DEF d
  <2>7. importRun'[d].counts = ImportRecords(file, d).counts
    BY <2>1, <2>2, <2>4
  <2> QED
    BY <2>4, <2>5, <2>6, <2>7 DEF d
<1> QED
  BY <1>1, ImportsInvariance, PTL DEF ImportsSpec, ImportsAreIdempotent

(***************************************************************************)
(* Texts: recording facts                                                  *)
(***************************************************************************)

(* What the rows of texts and the tables of runs hold.                     *)
TextRow == [op : TextOperation, id : {1, 2, Blank}, text : Caption \cup {Blank, Long}]

(* The rows there were are still there, and every fact so far is in one.   *)
RecordedUpTo(rows, stated, n) ==
    /\ rows \in Seq(TextRow) /\ Len(textRows) <= Len(rows)
    /\ \A i \in DOMAIN textRows : rows[i] = textRows[i]
    /\ \A i \in 1..n : \E j \in DOMAIN rows : rows[j] = stated[i]

(* Recording a fact keeps the rows there are and has one that states it. *)
LEMMA FactIsRecorded ==
  ASSUME NEW rows \in Seq(TextRow), NEW fact \in TextRow
  PROVE  /\ RecordFact(rows, fact) \in Seq(TextRow)
         /\ Len(rows) <= Len(RecordFact(rows, fact))
         /\ \A i \in DOMAIN rows : /\ i \in DOMAIN RecordFact(rows, fact)
                                   /\ RecordFact(rows, fact)[i] = rows[i]
         /\ \E j \in DOMAIN RecordFact(rows, fact) : RecordFact(rows, fact)[j] = fact
<1>1. Len(rows) \in Nat
  BY SeqParts
<1>2. CASE \E i \in DOMAIN rows : rows[i] = fact
  BY <1>1, <1>2 DEF RecordFact
<1>3. CASE ~ \E i \in DOMAIN rows : rows[i] = fact
  <2>1. RecordFact(rows, fact) = Append(rows, fact)
    BY <1>3 DEF RecordFact
  <2>2. /\ Append(rows, fact) \in Seq(TextRow) /\ Len(Append(rows, fact)) = Len(rows) + 1
        /\ \A i \in DOMAIN rows : i \in DOMAIN Append(rows, fact) /\ Append(rows, fact)[i] = rows[i]
        /\ Len(rows) + 1 \in DOMAIN Append(rows, fact) /\ Append(rows, fact)[Len(rows) + 1] = fact
    BY AppendParts
  <2>3. Len(rows) <= Len(Append(rows, fact))
    BY <1>1, <2>2
  <2> QED
    BY <2>1, <2>2, <2>3
<1> QED
  BY <1>2, <1>3

(* One more fact keeps what is said of those before it. *)
LEMMA OneMoreRecorded ==
  ASSUME NEW stated \in Seq(TextRow), NEW n \in 1..Len(stated), textRows \in Seq(TextRow),
         NEW rows, RecordedUpTo(rows, stated, n - 1)
  PROVE  RecordedUpTo(RecordFact(rows, stated[n]), stated, n)
<1>1. stated[n] \in TextRow /\ Len(stated) \in Nat
  BY SeqParts
<1>2. rows \in Seq(TextRow)
  BY DEF RecordedUpTo
<1> DEFINE made == RecordFact(rows, stated[n])
<1>3. /\ made \in Seq(TextRow) /\ Len(rows) <= Len(made)
      /\ \A i \in DOMAIN rows : i \in DOMAIN made /\ made[i] = rows[i]
      /\ \E j \in DOMAIN made : made[j] = stated[n]
  BY <1>1, <1>2, FactIsRecorded
<1> HIDE DEF made
<1>4. Len(textRows) \in Nat /\ Len(rows) \in Nat /\ Len(made) \in Nat
      /\ DOMAIN textRows = 1..Len(textRows) /\ DOMAIN rows = 1..Len(rows)
  BY <1>2, <1>3, SeqParts
<1>5. Len(textRows) <= Len(made) /\ \A i \in DOMAIN textRows : made[i] = textRows[i]
  BY <1>3, <1>4 DEF RecordedUpTo
<1>6. ASSUME NEW i \in 1..n
      PROVE  \E j \in DOMAIN made : made[j] = stated[i]
  <2>1. CASE i = n
    BY <1>3, <2>1
  <2>2. CASE i # n
    <3>1. i \in 1..(n - 1)
      BY <1>1, <2>2
    <3>2. PICK j \in DOMAIN rows : rows[j] = stated[i]
      BY <3>1 DEF RecordedUpTo
    <3> QED
      BY <1>3, <3>2
  <2> QED
    BY <2>1, <2>2
<1>7. RecordedUpTo(made, stated, n)
  BY <1>3, <1>5, <1>6 DEF RecordedUpTo
<1> QED
  BY <1>7 DEF made

Records(g, stated) ==
    g = [i \in 0..Len(stated) |->
            IF i = 0 THEN textRows ELSE RecordFact(g[i - 1], stated[i])]

(* Recording keeps every row and has a row for every fact.                 *)
LEMMA RecordFactsDo ==
  ASSUME NEW stated \in Seq(TextRow), textRows \in Seq(TextRow)
  PROVE  RecordedUpTo(RecordFacts(stated), stated, Len(stated))
<1> DEFINE N == Len(stated)
           S == Seq(TextRow)
           step == [x \in S \X (1..N) |-> RecordFact(x[1], stated[x[2]])]
           g == CHOOSE f : Records(f, stated)
           T == {n \in 0..N : RecordedUpTo(g[n], stated, n)}
<1>1. N \in Nat /\ \A i \in 1..N : stated[i] \in TextRow
  BY SeqParts
<1>2. step \in [S \X (1..N) -> S]
  <2>1. \A x \in S \X (1..N) : RecordFact(x[1], stated[x[2]]) \in S
    BY <1>1, FactIsRecorded
  <2> QED
    BY <2>1
<1>3. PICK f : Repeats(f, step, textRows, S, N)
  <2> HIDE DEF step, S, N
  <2>1. textRows \in S
    BY DEF S
  <2> QED
    BY <1>1, <1>2, <2>1, RepeatsExist
<1>4. Records(f, stated)
  <2>1. /\ f \in [0..N -> S] /\ f[0] = textRows
        /\ \A i \in 1..N : f[i] = step[<<f[i - 1], i>>]
    BY <1>3 DEF Repeats
  <2>2. ASSUME NEW i \in 1..N
        PROVE  f[i] = RecordFact(f[i - 1], stated[i])
    <3>1. f[i - 1] \in S
      <4> HIDE DEF N, S
      <4> QED
        BY <1>1, <2>1
    <3>2. <<f[i - 1], i>> \in S \X (1..N)
      BY <3>1
    <3>3. step[<<f[i - 1], i>>] = RecordFact(f[i - 1], stated[i])
      BY <3>2
    <3> HIDE DEF step
    <3> QED
      BY <2>1, <3>3
  <2> HIDE DEF step, S
  <2>3. \A i \in 0..N : f[i] = IF i = 0 THEN textRows ELSE RecordFact(f[i - 1], stated[i])
    BY <1>1, <2>1, <2>2
  <2>4. f = [i \in 0..N |-> f[i]]
    BY <2>1
  <2> QED
    BY <2>3, <2>4 DEF Records
<1>5. Records(g, stated)
  BY <1>4
<1>6. RecordFacts(stated) = g[N]
  BY Zenon DEF RecordFacts, Records
<1> HIDE DEF g, step
<1>7. g[0] = textRows /\ \A n \in 1..N : g[n] = RecordFact(g[n - 1], stated[n])
  <2>1. g = [n \in 0..N |-> IF n = 0 THEN textRows ELSE RecordFact(g[n - 1], stated[n])]
    BY <1>5 DEF Records
  <2>2. 0 \in 0..N /\ \A n \in 1..N : n \in 0..N /\ n # 0
    BY <1>1
  <2> HIDE DEF N
  <2> QED
    BY <2>1, <2>2
<1>8. 0 \in T
  <2>1. Len(textRows) \in Nat /\ 1..0 = {}
    BY SeqParts
  <2>2. RecordedUpTo(textRows, stated, 0)
    BY <2>1 DEF RecordedUpTo
  <2> QED
    BY <1>1, <1>7, <2>2
<1>9. ASSUME NEW n \in 1..N, n - 1 \in T
      PROVE  n \in T
  <2>1. RecordedUpTo(g[n - 1], stated, n - 1)
    BY <1>9
  <2>2. RecordedUpTo(RecordFact(g[n - 1], stated[n]), stated, n)
    BY <2>1, OneMoreRecorded
  <2> QED
    BY <1>1, <1>7, <2>2
<1> HIDE DEF T
<1>10. N \in T
  <2>1. \A n \in 1..N : n - 1 \in T => n \in T
    BY <1>9
  <2> HIDE DEF N
  <2>2. \A i \in 0..N : i \in T
    BY <1>1, <1>8, <2>1, CountsOff
  <2> QED
    BY <1>1, <2>2
<1> QED
  BY <1>6, <1>10 DEF T

(***************************************************************************)
(* Texts: what the runs count                                              *)
(***************************************************************************)

(* What a run adds to the rows that are counted.                           *)
Weight(x) == IF x.op = "fetch_pool" THEN 0 ELSE x.count

Weighs(rows, n) == Len(rows) = n /\ \A i \in 1..n : Weight(rows[i]) \in Nat

Sums(g, rows) ==
    g = [r \in 0..Len(rows) |->
            IF r = 0 THEN 0
            ELSE g[r - 1] + IF rows[r].op = "fetch_pool" THEN 0 ELSE rows[r].count]

SumsUp(g, rows, n) ==
    /\ g \in [0..n -> Nat] /\ g[0] = 0
    /\ \A i \in 1..n : g[i] = g[i - 1] + Weight(rows[i])
    /\ CountedRows(rows) = g[n]

(* CountedRows is the sum of the weights of the runs. *)
LEMMA CountedIs ==
  ASSUME NEW n \in Nat, NEW rows, Weighs(rows, n)
  PROVE  \E g : SumsUp(g, rows, n)
<1> DEFINE step == [x \in Nat \X (1..n) |-> x[1] + Weight(rows[x[2]])]
           h == CHOOSE f : Sums(f, rows)
<1>1. step \in [Nat \X (1..n) -> Nat]
  <2>1. \A i \in 1..n : Weight(rows[i]) \in Nat
    BY DEF Weighs
  <2>2. \A x \in Nat \X (1..n) : x[1] \in Nat /\ x[2] \in 1..n
    OBVIOUS
  <2>3. \A x \in Nat \X (1..n) : x[1] + Weight(rows[x[2]]) \in Nat
    BY <2>1, <2>2
  <2> QED
    BY <2>3
<1>2. PICK f : Repeats(f, step, 0, Nat, n)
  <2> HIDE DEF step
  <2> QED
    BY <1>1, RepeatsExist
<1>3. f \in [0..n -> Nat] /\ f[0] = 0 /\ \A i \in 1..n : f[i] = f[i - 1] + Weight(rows[i])
  <2>1. /\ f \in [0..n -> Nat] /\ f[0] = 0
        /\ \A i \in 1..n : f[i] = step[<<f[i - 1], i>>]
    BY <1>2 DEF Repeats
  <2>2. ASSUME NEW i \in 1..n
        PROVE  f[i] = f[i - 1] + Weight(rows[i])
    <3>1. f[i - 1] \in Nat
      BY <2>1
    <3>2. step[<<f[i - 1], i>>] = f[i - 1] + Weight(rows[i])
      BY <3>1
    <3> HIDE DEF step
    <3> QED
      BY <2>1, <3>2
  <2> QED
    BY <2>1, <2>2
<1>4. Len(rows) = n
  BY DEF Weighs
<1>5. Sums(f, rows)
  <2>1. \A r \in 0..n : f[r] = IF r = 0 THEN 0
            ELSE f[r - 1] + IF rows[r].op = "fetch_pool" THEN 0 ELSE rows[r].count
    BY <1>3 DEF Weight
  <2>2. f = [r \in 0..n |-> f[r]]
    BY <1>3
  <2> QED
    BY <1>4, <2>1, <2>2 DEF Sums
<1>6. Sums(h, rows)
  BY <1>5
<1>7. CountedRows(rows) = h[n]
  BY <1>4, Zenon DEF CountedRows, Sums
<1> HIDE DEF h
<1>8. /\ h[0] = 0 /\ DOMAIN h = 0..n
      /\ \A i \in 1..n : h[i] = h[i - 1] + Weight(rows[i])
  <2>1. h = [r \in 0..n |-> IF r = 0 THEN 0
            ELSE h[r - 1] + IF rows[r].op = "fetch_pool" THEN 0 ELSE rows[r].count]
    BY <1>4, <1>6 DEF Sums
  <2>2. 0 \in 0..n /\ \A i \in 1..n : i \in 0..n /\ i # 0
    OBVIOUS
  <2> QED
    BY <2>1, <2>2 DEF Weight
<1> DEFINE T == {i \in 0..n : h[i] = f[i]}
<1>9. \A i \in 0..n : i \in T
  <2>1. 0 \in T
    BY <1>3, <1>8
  <2>2. ASSUME NEW i \in 1..n, i - 1 \in T
        PROVE  i \in T
    BY <1>3, <1>8, <2>2
  <2> HIDE DEF T
  <2> QED
    BY <2>1, <2>2, CountsOff
<1>10. h[n] = f[n]
  BY <1>9
<1> QED
  BY <1>3, <1>7, <1>10 DEF SumsUp

(* The sum moves by what one run's weight moves.                           *)
LEMMA CountedChanges ==
  ASSUME NEW n \in Nat, NEW r \in 1..n, NEW rows, NEW rows2,
         Weighs(rows, n), Weighs(rows2, n),
         \A i \in (1..n) \ {r} : Weight(rows2[i]) = Weight(rows[i])
  PROVE  /\ CountedRows(rows) \in Nat /\ CountedRows(rows2) \in Nat
         /\ CountedRows(rows2) = CountedRows(rows) + (Weight(rows2[r]) - Weight(rows[r]))
<1>1. PICK g : SumsUp(g, rows, n)
  BY CountedIs
<1>2. PICK h : SumsUp(h, rows2, n)
  BY CountedIs
<1> DEFINE k == Weight(rows2[r]) - Weight(rows[r])
           T == {i \in 0..n : h[i] = IF i < r THEN g[i] ELSE g[i] + k}
<1>3. Weight(rows2[r]) \in Nat /\ Weight(rows[r]) \in Nat /\ k \in Int
      /\ Weight(rows2[r]) = Weight(rows[r]) + k
  BY DEF Weighs
<1>4. /\ g \in [0..n -> Nat] /\ g[0] = 0 /\ CountedRows(rows) = g[n]
      /\ \A i \in 1..n : g[i] = g[i - 1] + Weight(rows[i])
  BY <1>1 DEF SumsUp
<1>5. /\ h \in [0..n -> Nat] /\ h[0] = 0 /\ CountedRows(rows2) = h[n]
      /\ \A i \in 1..n : h[i] = h[i - 1] + Weight(rows2[i])
  BY <1>2 DEF SumsUp
<1> HIDE DEF k
<1>6. 0 \in T
  BY <1>4, <1>5
<1>7. ASSUME NEW i \in 1..n, i - 1 \in T
      PROVE  i \in T
  <2>1. /\ g[i] = g[i - 1] + Weight(rows[i]) /\ h[i] = h[i - 1] + Weight(rows2[i])
        /\ h[i - 1] = IF i - 1 < r THEN g[i - 1] ELSE g[i - 1] + k
        /\ g[i - 1] \in Nat /\ Weight(rows[i]) \in Nat
    BY <1>4, <1>5, <1>7 DEF Weighs
  <2>2. CASE i < r
    <3>1. Weight(rows2[i]) = Weight(rows[i])
      BY <2>2
    <3> QED
      BY <2>1, <2>2, <3>1
  <2>3. CASE i = r
    BY <1>3, <2>1, <2>3
  <2>4. CASE i > r
    <3>1. Weight(rows2[i]) = Weight(rows[i])
      BY <2>4
    <3> QED
      BY <1>3, <2>1, <2>4, <3>1
  <2> QED
    BY <2>2, <2>3, <2>4
<1>8. n \in T
  <2> HIDE DEF T
  <2>1. \A i \in 0..n : i \in T
    BY <1>6, <1>7, CountsOff
  <2> QED
    BY <2>1
<1> QED
  BY <1>3, <1>4, <1>5, <1>8 DEF k

(* A run that has counted nothing adds nothing to the sum. *)
LEMMA CountedAppends ==
  ASSUME NEW n \in Nat, NEW rows, NEW rows2,
         Weighs(rows, n), Weighs(rows2, n + 1),
         \A i \in 1..n : Weight(rows2[i]) = Weight(rows[i]), Weight(rows2[n + 1]) = 0
  PROVE  CountedRows(rows2) = CountedRows(rows) /\ CountedRows(rows) \in Nat
<1>1. PICK g : SumsUp(g, rows, n)
  BY CountedIs
<1>2. PICK h : SumsUp(h, rows2, n + 1)
  BY CountedIs
<1> DEFINE T == {i \in 0..n : h[i] = g[i]}
<1>3. /\ g \in [0..n -> Nat] /\ g[0] = 0 /\ CountedRows(rows) = g[n]
      /\ \A i \in 1..n : g[i] = g[i - 1] + Weight(rows[i])
  BY <1>1 DEF SumsUp
<1>4. /\ h \in [0..(n + 1) -> Nat] /\ h[0] = 0 /\ CountedRows(rows2) = h[n + 1]
      /\ \A i \in 1..(n + 1) : h[i] = h[i - 1] + Weight(rows2[i])
  BY <1>2 DEF SumsUp
<1>5. 0 \in T
  BY <1>3, <1>4
<1>6. ASSUME NEW i \in 1..n, i - 1 \in T
      PROVE  i \in T
  <2>1. i \in 1..(n + 1) /\ h[i - 1] = g[i - 1]
    BY <1>6
  <2> QED
    BY <1>3, <1>4, <2>1
<1>7. h[n] = g[n]
  <2> HIDE DEF T
  <2>1. \A i \in 0..n : i \in T
    BY <1>5, <1>6, CountsOff
  <2> QED
    BY <2>1 DEF T
<1>8. n + 1 \in 1..(n + 1) /\ (n + 1) - 1 = n
  OBVIOUS
<1>9. h[n + 1] = h[n] + 0
  BY <1>4, <1>8
<1> QED
  BY <1>3, <1>4, <1>7, <1>9

(***************************************************************************)
(* Texts: the fetches                                                      *)
(***************************************************************************)

(* The rows of pools, and the runs that fetch.                             *)
PoolRow == [members : Seq(Member \cup {Blank}), at : Nat, linked : SUBSET Nat]

FetchOutcomes ==
    {"none", "success", "authentication_required", "authorization_denied", "unavailable", "deleted",
     "rate_limited", "transient_provider", "malformed_response", "local_persistence"}

AnswerRow ==
    [status : Nat, at : Nat, document : PoolDocument \cup TextDocument \cup {<<>>}]

TextRunRow ==
    [op : TextOperation, status : {"running", "complete", "failed"}, outcome : FetchOutcomes,
     count : Nat, raw : AnswerRow, answer : AnswerRow,
     pc : {"asking", "answered", "refused", "killed", "done"}]

(* A run that is not over has counted nothing, and an answer that reports  *)
(* success holds a document of the kind that was asked for.                *)
RunStands(run) ==
    /\ run.pc # "done" => run.count = 0 /\ run.status = "running"
    /\ run.pc = "answered" /\ FetchOutcome(run.answer.status) = "success"
          => run.answer.document \in Document(run.op)

TextTables ==
    /\ textClock \in Nat /\ textRun \in Seq(TextRunRow)
    /\ poolRows \in Seq(PoolRow) /\ textRows \in Seq(TextRow)

TextInv == TextTables /\ (\A r \in DOMAIN textRun : RunStands(textRun[r])) /\ TextsAreTrue

(* Rows that are only added to.                                            *)
Adds(made, before) ==
    \A i \in DOMAIN before : i \in DOMAIN made /\ made[i] = before[i]

(* StatedInRows, of given rows.                                            *)
StatedIn(pools, texts, run) ==
    IF run.op = "fetch_pool"
    THEN \E i \in DOMAIN pools : pools[i].members = run.raw.document.members
    ELSE \A i \in DOMAIN TextFacts(run.op, run.raw.document) :
            \E j \in DOMAIN texts : texts[j] = TextFacts(run.op, run.raw.document)[i]

(* StatedInRows is StatedIn of the rows there are. *)
LEMMA StatedIs == \A run : StatedInRows(run) = StatedIn(poolRows, textRows, run)
BY DEF StatedInRows, StatedIn

(* What rows state, more rows state too. *)
LEMMA StatedStays ==
  ASSUME NEW pools, NEW texts, NEW pools2, NEW texts2, Adds(pools2, pools), Adds(texts2, texts),
         NEW run, StatedIn(pools, texts, run)
  PROVE  StatedIn(pools2, texts2, run)
<1> DEFINE facts == TextFacts(run.op, run.raw.document)
<1>1. CASE run.op = "fetch_pool"
  <2>1. PICK i \in DOMAIN pools : pools[i].members = run.raw.document.members
    BY <1>1 DEF StatedIn
  <2>2. i \in DOMAIN pools2 /\ pools2[i] = pools[i]
    BY DEF Adds
  <2> QED
    BY <1>1, <2>1, <2>2 DEF StatedIn
<1>2. CASE run.op # "fetch_pool"
  <2>1. \A i \in DOMAIN facts : \E j \in DOMAIN texts : texts[j] = facts[i]
    BY <1>2 DEF StatedIn
  <2> HIDE DEF facts
  <2>2. \A i \in DOMAIN facts : \E j \in DOMAIN texts2 : texts2[j] = facts[i]
    BY <2>1 DEF Adds
  <2> QED
    BY <1>2, <2>2 DEF StatedIn, facts
<1> QED
  BY <1>1, <1>2

(* The memberships that rows of pools state.                               *)
ViewsOf(rows) ==
    UNION {{<<rows[i].members[j], rows[i].at>> : j \in rows[i].linked} : i \in DOMAIN rows}

(* One more row of a pool adds the memberships that it links. *)
LEMMA ViewsAdded ==
  ASSUME NEW rows \in Seq(PoolRow), NEW entry \in PoolRow
  PROVE  ViewsOf(Append(rows, entry)) = ViewsOf(rows) \cup {<<entry.members[j], entry.at>> : j \in entry.linked}
<1> DEFINE made == Append(rows, entry)
<1>1. Len(rows) \in Nat /\ DOMAIN rows = 1..Len(rows) /\ DOMAIN made = 1..(Len(rows) + 1)
      /\ made[Len(rows) + 1] = entry /\ \A i \in DOMAIN rows : made[i] = rows[i]
  OBVIOUS
<1> HIDE DEF made
<1>2. DOMAIN made = DOMAIN rows \cup {Len(rows) + 1}
  BY <1>1
<1> DEFINE of(t, i) == {<<t[i].members[j], t[i].at>> : j \in t[i].linked}
<1>3. \A i \in DOMAIN rows : of(made, i) = of(rows, i)
  BY <1>1
<1>4. of(made, Len(rows) + 1) = {<<entry.members[j], entry.at>> : j \in entry.linked}
  BY <1>1
<1>5. ViewsOf(made) = UNION {of(made, i) : i \in DOMAIN made} /\ ViewsOf(rows) = UNION {of(rows, i) : i \in DOMAIN rows}
  BY DEF ViewsOf
<1> HIDE DEF of
<1>6. ViewsOf(made) = ViewsOf(rows) \cup of(made, Len(rows) + 1)
  BY <1>2, <1>3, <1>5
<1> QED
  BY <1>4, <1>6 DEF made

(* What a document says of a post is rows of texts.                        *)
LEMMA FactsAreRows ==
  ASSUME NEW op \in {"fetch_commentary", "fetch_notes"}, NEW d \in TextDocument
  PROVE  TextFacts(op, d) \in Seq(TextRow)
<1>1. d \in Seq([id : {1, 2, Blank}, text : Caption \cup {Blank, Long}])
  BY TextAssumption
<1>2. Len(d) \in Nat /\ DOMAIN d = 1..Len(d)
      /\ \A i \in DOMAIN d : d[i] \in [id : {1, 2, Blank}, text : Caption \cup {Blank, Long}]
  BY <1>1, SeqParts
<1>3. \A i \in DOMAIN d : TextFact(op, d[i]) \in TextRow
  BY <1>2 DEF TextFact, TextRow, TextOperation
<1> DEFINE told == {i \in DOMAIN d : d[i].text # Blank}
<1>4. CASE op = "fetch_notes"
  <2>1. [i \in DOMAIN d |-> TextFact(op, d[i])] \in [1..Len(d) -> TextRow]
    BY <1>2, <1>3
  <2>2. [i \in DOMAIN d |-> TextFact(op, d[i])] \in Seq(TextRow)
    BY <1>2, <2>1
  <2> QED
    BY <1>4, <2>2 DEF TextFacts
<1>5. CASE op # "fetch_notes" /\ told = {}
  BY <1>5 DEF TextFacts
<1>6. CASE op # "fetch_notes" /\ told # {}
  <2> DEFINE first == CHOOSE x \in told : \A y \in told : x <= y
  <2>1. TextFacts(op, d) = <<TextFact(op, d[first])>>
    BY <1>6, Zenon DEF TextFacts, Min
  <2>2. first \in told
    <3>1. told \subseteq 1..Len(d)
      BY <1>2
    <3> HIDE DEF told
    <3>2. \E x \in told : \A y \in told : x <= y
      BY <1>2, <1>6, <3>1, LeastOfSome
    <3> QED
      BY <3>2
  <2>3. TextFact(op, d[first]) \in TextRow
    BY <1>3, <2>2
  <2> QED
    BY <2>1, <2>3
<1> QED
  BY <1>4, <1>5, <1>6

(* Every status of an answer is an outcome, and never "none". *)
LEMMA OutcomesAre ==
  ASSUME NEW s
  PROVE  FetchOutcome(s) \in FetchOutcomes \ {"none"}
BY DEF FetchOutcome, FetchOutcomes

(* One run that becomes another row.                                       *)
LEMMA RunBecomes ==
  ASSUME NEW rows \in Seq(TextRunRow), NEW r \in DOMAIN rows, NEW entry \in TextRunRow,
         NEW rows2, rows2 = [rows EXCEPT ![r] = entry]
  PROVE  /\ rows2 \in Seq(TextRunRow) /\ Len(rows2) = Len(rows) /\ DOMAIN rows2 = DOMAIN rows
         /\ rows2[r] = entry /\ \A s \in DOMAIN rows \ {r} : rows2[s] = rows[s]
<1>1. Len(rows) \in Nat /\ DOMAIN rows = 1..Len(rows) /\ \A s \in DOMAIN rows : rows[s] \in TextRunRow
  BY SeqParts
<1>2. rows2 \in [1..Len(rows) -> TextRunRow]
  BY <1>1
<1>3. rows2 \in Seq(TextRunRow) /\ Len(rows2) = Len(rows)
  BY <1>1, <1>2
<1> QED
  BY <1>1, <1>3

(* Every run of the table counts for a number. *)
LEMMA RunsWeigh ==
  ASSUME NEW rows \in Seq(TextRunRow)
  PROVE  Len(rows) \in Nat /\ DOMAIN rows = 1..Len(rows) /\ Weighs(rows, Len(rows))
<1>1. Len(rows) \in Nat /\ DOMAIN rows = 1..Len(rows) /\ \A s \in DOMAIN rows : rows[s] \in TextRunRow
  BY SeqParts
<1>2. \A x \in TextRunRow : Weight(x) \in Nat
  BY DEF TextRunRow, Weight
<1> QED
  BY <1>1, <1>2 DEF Weighs

(* A run that had counted nothing adds to the sum what it counts now. *)
LEMMA CountedMoves ==
  ASSUME NEW rows \in Seq(TextRunRow), NEW rows2 \in Seq(TextRunRow), Len(rows2) = Len(rows),
         NEW r \in DOMAIN rows, Weight(rows[r]) = 0,
         \A s \in DOMAIN rows \ {r} : Weight(rows2[s]) = Weight(rows[s])
  PROVE  /\ CountedRows(rows) \in Nat
         /\ CountedRows(rows2) = CountedRows(rows) + Weight(rows2[r])
<1>1. /\ Len(rows) \in Nat /\ DOMAIN rows = 1..Len(rows) /\ DOMAIN rows2 = 1..Len(rows)
      /\ Weighs(rows, Len(rows)) /\ Weighs(rows2, Len(rows))
  BY RunsWeigh
<1>2. r \in 1..Len(rows) /\ \A s \in (1..Len(rows)) \ {r} : Weight(rows2[s]) = Weight(rows[s])
  BY <1>1
<1>3. /\ CountedRows(rows) \in Nat /\ CountedRows(rows2) \in Nat
      /\ CountedRows(rows2) = CountedRows(rows) + (Weight(rows2[r]) - Weight(rows[r]))
  BY ONLY <1>1, <1>2, CountedChanges
<1>4. Weight(rows2[r]) \in Nat
  BY <1>1, <1>2 DEF Weighs
<1> QED
  BY <1>3, <1>4

(* A step that moves one run, only adds rows and membership they state,    *)
(* and counts the texts it adds, keeps the invariant.                      *)
LEMMA MoveKeeps ==
  ASSUME TextInv, NEW r \in DOMAIN textRun, NEW entry \in TextRunRow,
         textRun' = [textRun EXCEPT ![r] = entry], RunStands(entry),
         textClock' \in Nat, poolRows' \in Seq(PoolRow), textRows' \in Seq(TextRow),
         Adds(poolRows', poolRows), Adds(textRows', textRows),
         entry.status = "complete" => StatedIn(poolRows', textRows', entry),
         Len(textRows') = Len(textRows) + Weight(entry), textRun[r].count = 0,
         memberships' = ViewsOf(poolRows')
  PROVE  TextInv'
<1>1. /\ textRun \in Seq(TextRunRow) /\ textRun' \in Seq(TextRunRow) /\ Len(textRun') = Len(textRun)
      /\ DOMAIN textRun' = DOMAIN textRun
      /\ textRun'[r] = entry /\ \A s \in DOMAIN textRun \ {r} : textRun'[s] = textRun[s]
  BY RunBecomes DEF TextInv, TextTables
<1>2. TextTables'
  BY <1>1 DEF TextTables
<1>3. \A s \in DOMAIN textRun' : RunStands(textRun'[s])
  BY <1>1 DEF TextInv
<1>4. CompleteIsObserved'
  <2>1. ASSUME NEW s \in DOMAIN textRun', textRun'[s].status = "complete"
        PROVE  StatedIn(poolRows', textRows', textRun'[s])
    <3>1. CASE s = r
      BY <1>1, <2>1, <3>1
    <3>2. CASE s # r
      <4>1. s \in DOMAIN textRun /\ textRun'[s] = textRun[s]
        BY <1>1, <3>2
      <4>2. StatedIn(poolRows, textRows, textRun[s])
        BY <2>1, <4>1, StatedIs DEF TextInv, TextsAreTrue, CompleteIsObserved
      <4>3. StatedIn(poolRows', textRows', textRun[s])
        BY <4>2, StatedStays
      <4> QED
        BY <4>1, <4>3
    <3> QED
      BY <3>1, <3>2
  <2>2. \A s \in DOMAIN textRun' : textRun'[s].status = "complete" => StatedIn(poolRows', textRows', textRun'[s])
    BY <2>1
  <2> QED
    BY <2>2 DEF CompleteIsObserved, StatedInRows, StatedIn
<1>5. CountsAreRows'
  <2>1. Weight(textRun[r]) = 0 /\ Weight(textRun'[r]) = Weight(entry)
    BY <1>1 DEF Weight
  <2>2. \A s \in DOMAIN textRun \ {r} : Weight(textRun'[s]) = Weight(textRun[s])
    BY <1>1
  <2>3. /\ CountedRows(textRun) \in Nat
        /\ CountedRows(textRun') = CountedRows(textRun) + Weight(textRun'[r])
    BY <1>1, <2>1, <2>2, CountedMoves
  <2>4. CountedRows(textRun) = Len(textRows)
    BY DEF TextInv, TextsAreTrue, CountsAreRows
  <2>5. CountedRows(textRun') = Len(textRows')
    BY <2>1, <2>3, <2>4
  <2> QED
    BY <2>5 DEF CountsAreRows
<1>6. ViewsAgree'
  BY DEF ViewsAgree, ViewsOf
<1> QED
  BY <1>2, <1>3, <1>4, <1>5, <1>6 DEF TextInv, TextsAreTrue

(* Nothing is written.                                                     *)
NothingWritten == UNCHANGED <<retained, poolRows, memberships, textRows>>

(* A run that moves, with nothing written or counted, keeps the invariant. *)
LEMMA QuietMoveKeeps ==
  ASSUME TextInv, NothingWritten, NEW r \in DOMAIN textRun, NEW entry \in TextRunRow,
         textRun' = [textRun EXCEPT ![r] = entry], RunStands(entry), textClock' \in Nat,
         entry.status # "complete", entry.count = 0, textRun[r].count = 0
  PROVE  TextInv'
<1>1. Adds(poolRows', poolRows) /\ Adds(textRows', textRows)
  BY DEF Adds, NothingWritten
<1>2. poolRows' \in Seq(PoolRow) /\ textRows' \in Seq(TextRow) /\ Len(textRows) \in Nat
  BY SeqParts DEF TextInv, TextTables, NothingWritten
<1>3. Weight(entry) = 0
  BY DEF Weight
<1>4. Len(textRows') = Len(textRows) + Weight(entry)
  BY <1>2, <1>3 DEF NothingWritten
<1>5. memberships' = ViewsOf(poolRows')
  BY DEF TextInv, TextsAreTrue, ViewsAgree, ViewsOf, NothingWritten
<1> QED
  BY <1>1, <1>2, <1>4, <1>5, MoveKeeps

(* What the invariant says of one run. *)
LEMMA RunParts ==
  ASSUME TextInv, NEW r \in DOMAIN textRun
  PROVE  /\ textRun[r] \in TextRunRow /\ RunStands(textRun[r]) /\ textClock \in Nat
         /\ textRun[r].pc # "done" => textRun[r].count = 0 /\ textRun[r].status = "running"
<1>1. textRun \in Seq(TextRunRow) /\ textClock \in Nat
  BY DEF TextInv, TextTables
<1> QED
  BY <1>1, SeqParts DEF TextInv, RunStands

(* No answer is of the type of answers. *)
LEMMA NoAnswerIsOne == NoAnswer \in AnswerRow
BY DEF NoAnswer, AnswerRow

(* A run begins with nothing counted. *)
LEMMA BeginFetchKeeps ==
  ASSUME TextInv, NEW op \in TextOperation, BeginFetch(op)
  PROVE  TextInv'
<1> DEFINE entry == [op |-> op, status |-> "running", outcome |-> "none", count |-> 0,
                   raw |-> NoAnswer, pc |-> "asking", answer |-> NoAnswer]
<1>1. entry \in TextRunRow
  BY NoAnswerIsOne DEF TextRunRow, FetchOutcomes
<1>2. entry.pc = "asking" /\ entry.count = 0 /\ entry.status = "running"
  OBVIOUS
<1>3. textRun' = Append(textRun, entry) /\ UNCHANGED <<textClock, retained, poolRows, memberships, textRows>>
  BY DEF BeginFetch
<1> HIDE DEF entry
<1>4. textRun \in Seq(TextRunRow)
  BY DEF TextInv, TextTables
<1>5. /\ textRun' \in Seq(TextRunRow) /\ Len(textRun') = Len(textRun) + 1
      /\ \A i \in DOMAIN textRun : textRun'[i] = textRun[i]
      /\ textRun'[Len(textRun) + 1] = entry
  BY <1>1, <1>3, <1>4, AppendParts
<1>6. /\ Len(textRun) \in Nat /\ DOMAIN textRun = 1..Len(textRun) /\ Weighs(textRun, Len(textRun))
      /\ DOMAIN textRun' = 1..(Len(textRun) + 1) /\ Weighs(textRun', Len(textRun) + 1)
  BY <1>4, <1>5, RunsWeigh
<1>7. TextTables'
  BY <1>3, <1>5 DEF TextTables, TextInv
<1>8. \A s \in DOMAIN textRun' : s \in DOMAIN textRun \/ s = Len(textRun) + 1
  BY <1>6
<1>9. RunStands(entry)
  BY <1>2 DEF RunStands
<1>10. \A s \in DOMAIN textRun' : RunStands(textRun'[s])
  BY <1>5, <1>8, <1>9 DEF TextInv
<1>11. CompleteIsObserved'
  <2>1. ASSUME NEW s \in DOMAIN textRun', textRun'[s].status = "complete"
        PROVE  StatedIn(poolRows', textRows', textRun'[s])
    <3>1. s \in DOMAIN textRun /\ textRun'[s] = textRun[s]
      BY <1>2, <1>5, <1>8, <2>1
    <3>2. StatedIn(poolRows, textRows, textRun[s])
      BY <2>1, <3>1, StatedIs DEF TextInv, TextsAreTrue, CompleteIsObserved
    <3> QED
      BY <1>3, <3>1, <3>2
  <2>2. \A s \in DOMAIN textRun' : textRun'[s].status = "complete" => StatedIn(poolRows', textRows', textRun'[s])
    BY <2>1
  <2> QED
    BY <2>2 DEF CompleteIsObserved, StatedInRows, StatedIn
<1>12. CountsAreRows'
  <2>1. Weight(textRun'[Len(textRun) + 1]) = 0
    BY <1>2, <1>5 DEF Weight
  <2>2. \A i \in 1..Len(textRun) : Weight(textRun'[i]) = Weight(textRun[i])
    BY <1>5, <1>6
  <2>3. CountedRows(textRun') = CountedRows(textRun)
    BY <1>6, <2>1, <2>2, CountedAppends
  <2>4. CountedRows(textRun') = Len(textRows')
    BY <1>3, <2>3 DEF TextInv, TextsAreTrue, CountsAreRows
  <2> QED
    BY <2>4 DEF CountsAreRows
<1>13. ViewsAgree'
  BY <1>3 DEF TextInv, TextsAreTrue, ViewsAgree
<1> QED
  BY <1>7, <1>10, <1>11, <1>12, <1>13 DEF TextInv, TextsAreTrue

(* An answer that reports success is a document of the operation. *)
LEMMA AskProviderKeeps ==
  ASSUME TextInv, NEW r \in DOMAIN textRun, AskProvider(r)
  PROVE  TextInv'
<1>1. PICK status \in Status, tick \in 0 .. 1 :
         \E document \in IF FetchOutcome(status) = "success" THEN Document(textRun[r].op) ELSE {<<>>} :
            /\ textClock' = textClock + tick
            /\ textRun' = [textRun EXCEPT ![r].pc = "answered",
                   ![r].answer = [status |-> status, at |-> textClock + tick, document |-> document]]
  BY DEF AskProvider
<1>2. PICK document \in IF FetchOutcome(status) = "success" THEN Document(textRun[r].op) ELSE {<<>>} :
            /\ textClock' = textClock + tick
            /\ textRun' = [textRun EXCEPT ![r].pc = "answered",
                   ![r].answer = [status |-> status, at |-> textClock + tick, document |-> document]]
  BY <1>1
<1>3. /\ textRun[r] \in TextRunRow /\ RunStands(textRun[r]) /\ textClock \in Nat
      /\ textRun[r].count = 0 /\ textRun[r].status = "running"
  BY RunParts DEF AskProvider
<1> DEFINE answer == [status |-> status, at |-> textClock + tick, document |-> document]
           entry == [textRun[r] EXCEPT !.pc = "answered", !.answer = answer]
<1>4. document \in PoolDocument \cup TextDocument \cup {<<>>}
  BY <1>2 DEF Document
<1>5. status \in Nat /\ textClock + tick \in Nat
  BY <1>3, TextAssumption
<1>6. answer \in AnswerRow /\ answer.status = status /\ answer.document = document
  BY <1>4, <1>5 DEF AnswerRow
<1>7. textRun' = [textRun EXCEPT ![r] = entry]
  BY <1>2
<1> HIDE DEF answer
<1>8. /\ entry \in TextRunRow /\ entry.pc = "answered" /\ entry.answer = answer /\ entry.op = textRun[r].op
      /\ entry.count = 0 /\ entry.status = "running"
  BY <1>3, <1>6 DEF TextRunRow
<1> HIDE DEF entry
<1>9. RunStands(entry)
  BY <1>2, <1>6, <1>8 DEF RunStands
<1>10. textClock' \in Nat /\ NothingWritten
  BY <1>2, <1>5 DEF AskProvider, NothingWritten
<1> QED
  BY <1>3, <1>7, <1>8, <1>9, <1>10, QuietMoveKeeps

(* A run that ends in a local failure states nothing. *)
LEMMA FetchRaisesKeeps ==
  ASSUME TextInv, NEW r \in DOMAIN textRun, FetchRaises(r)
  PROVE  TextInv'
<1>1. /\ textRun[r] \in TextRunRow /\ textClock \in Nat /\ textRun[r].count = 0
  BY RunParts DEF FetchRaises
<1> DEFINE entry == [textRun[r] EXCEPT !.status = "failed", !.outcome = "local_persistence", !.count = 0,
                                     !.raw = NoAnswer, !.pc = "done", !.answer = NoAnswer]
<1>2. textRun' = [textRun EXCEPT ![r] = entry]
  BY DEF FetchRaises, FinishTextRun
<1>3. entry \in TextRunRow /\ entry.pc = "done" /\ entry.count = 0 /\ entry.status = "failed"
  BY <1>1, NoAnswerIsOne DEF TextRunRow, FetchOutcomes
<1> HIDE DEF entry
<1>4. RunStands(entry)
  BY <1>3 DEF RunStands
<1>5. textClock' \in Nat /\ NothingWritten
  BY <1>1 DEF FetchRaises, NothingWritten
<1> QED
  BY <1>1, <1>2, <1>3, <1>4, <1>5, QuietMoveKeeps

(* A transaction that is rolled back writes nothing. *)
LEMMA RefuseFetchKeeps ==
  ASSUME TextInv, NEW r \in DOMAIN textRun, RefuseFetch(r)
  PROVE  TextInv'
<1>1. /\ textRun[r] \in TextRunRow /\ textClock \in Nat /\ textRun[r].count = 0
      /\ textRun[r].status = "running"
  BY RunParts DEF RefuseFetch
<1> DEFINE entry == [textRun[r] EXCEPT !.pc = "refused"]
<1>2. textRun' = [textRun EXCEPT ![r] = entry]
  BY DEF RefuseFetch
<1>3. entry \in TextRunRow /\ entry.pc = "refused" /\ entry.count = 0 /\ entry.status = "running"
  BY <1>1 DEF TextRunRow
<1> HIDE DEF entry
<1>4. RunStands(entry)
  BY <1>3 DEF RunStands
<1>5. textClock' \in Nat /\ NothingWritten
  BY <1>1 DEF RefuseFetch, NothingWritten
<1> QED
  BY <1>1, <1>2, <1>3, <1>4, <1>5, QuietMoveKeeps

(* A process that is killed leaves its run as it was begun. *)
LEMMA KillFetcherKeeps ==
  ASSUME TextInv, NEW r \in DOMAIN textRun, KillFetcher(r)
  PROVE  TextInv'
<1>1. /\ textRun[r] \in TextRunRow /\ textClock \in Nat /\ textRun[r].count = 0
      /\ textRun[r].status = "running"
  BY RunParts DEF KillFetcher
<1> DEFINE entry == [textRun[r] EXCEPT !.pc = "killed", !.answer = NoAnswer]
<1>2. textRun' = [textRun EXCEPT ![r] = entry]
  BY DEF KillFetcher
<1>3. entry \in TextRunRow /\ entry.pc = "killed" /\ entry.count = 0 /\ entry.status = "running"
  BY <1>1, NoAnswerIsOne DEF TextRunRow
<1> HIDE DEF entry
<1>4. RunStands(entry)
  BY <1>3 DEF RunStands
<1>5. textClock' \in Nat /\ NothingWritten
  BY <1>1 DEF KillFetcher, NothingWritten
<1> QED
  BY <1>1, <1>2, <1>3, <1>4, <1>5, QuietMoveKeeps

(* A post that is written later is linked by no row there is. *)
LEMMA RetainMemberKeeps ==
  ASSUME TextInv, NEW n \in Member, RetainMember(n)
  PROVE  TextInv'
BY DEF RetainMember, TextInv, TextTables, TextsAreTrue, CompleteIsObserved, StatedInRows,
       CountsAreRows, ViewsAgree

(* No fact, no row.                                                        *)
LEMMA NothingRecorded ==
  ASSUME textRows \in Seq(TextRow)
  PROVE  RecordFacts(<<>>) = textRows
<1> DEFINE g == CHOOSE f : Records(f, <<>>)
<1>1. Len(<<>>) = 0
  OBVIOUS
<1>2. Records([i \in 0..0 |-> textRows], <<>>)
  <2>1. \A i \in 0..0 : i = 0
    OBVIOUS
  <2> QED
    BY <1>1, <2>1 DEF Records
<1>3. Records(g, <<>>)
  BY <1>2
<1>4. RecordFacts(<<>>) = g[0]
  BY <1>1, Zenon DEF RecordFacts, Records
<1> HIDE DEF g
<1>5. g = [i \in 0..0 |-> IF i = 0 THEN textRows ELSE RecordFact(g[i - 1], <<>>[i])]
  BY <1>1, <1>3 DEF Records
<1>6. 0 \in 0..0
  OBVIOUS
<1>7. g[0] = textRows
  BY <1>5, <1>6
<1> QED
  BY <1>4, <1>7

(* Recording a pool adds its row, with the memberships it states.          *)
LEMMA PoolIsRecorded ==
  ASSUME poolRows \in Seq(PoolRow), memberships = ViewsOf(poolRows),
         NEW members \in Seq(Member \cup {Blank}), NEW at \in Nat, RecordPool(members, at)
  PROVE  /\ poolRows' \in Seq(PoolRow) /\ Adds(poolRows', poolRows)
         /\ memberships' = ViewsOf(poolRows')
         /\ \E i \in DOMAIN poolRows' : poolRows'[i].members = members
<1>1. CASE PoolKnown(members)
  <2>1. UNCHANGED <<poolRows, memberships>>
    BY <1>1 DEF RecordPool
  <2>2. \E i \in DOMAIN poolRows : poolRows[i].members = members
    BY <1>1 DEF PoolKnown, PoolDigest
  <2>3. Adds(poolRows', poolRows)
    BY <2>1 DEF Adds
  <2>4. memberships' = ViewsOf(poolRows')
    BY <2>1
  <2> QED
    BY <2>1, <2>2, <2>3, <2>4
<1>2. CASE ~ PoolKnown(members)
  <2> DEFINE linked == {i \in DOMAIN members : members[i] \in retained}
             entry == [members |-> members, at |-> at, linked |-> linked]
  <2>1. /\ poolRows' = Append(poolRows, entry)
        /\ memberships' = memberships \cup {<<members[i], at>> : i \in linked}
    BY <1>2 DEF RecordPool
  <2>2. DOMAIN members = 1..Len(members) /\ Len(members) \in Nat
    BY SeqParts
  <2>3. linked \in SUBSET Nat
    BY <2>2
  <2>4. entry \in PoolRow /\ entry.members = members /\ entry.at = at /\ entry.linked = linked
    <3> HIDE DEF linked
    <3> QED
      BY <2>3 DEF PoolRow
  <2> HIDE DEF entry, linked
  <2>5. /\ poolRows' \in Seq(PoolRow)
        /\ \A i \in DOMAIN poolRows : i \in DOMAIN poolRows' /\ poolRows'[i] = poolRows[i]
        /\ Len(poolRows) + 1 \in DOMAIN poolRows' /\ poolRows'[Len(poolRows) + 1] = entry
    BY <2>1, <2>4, AppendParts
  <2>6. ViewsOf(poolRows') = ViewsOf(poolRows) \cup {<<entry.members[j], entry.at>> : j \in entry.linked}
    BY <2>1, <2>4, ViewsAdded
  <2>7. memberships' = ViewsOf(poolRows')
    BY <2>1, <2>4, <2>6
  <2>8. Adds(poolRows', poolRows)
    BY <2>5 DEF Adds
  <2> QED
    BY <2>4, <2>5, <2>7, <2>8
<1> QED
  BY <1>1, <1>2

(* The transaction records what the raw report states, and counts the rows *)
(* that are new.                                                           *)
LEMMA CommitFetchKeeps ==
  ASSUME TextInv, NEW r \in DOMAIN textRun, CommitFetch(r)
  PROVE  TextInv'
<1> DEFINE facts == AnswerFacts(r)
           answer == textRun[r].answer
           pool == textRun[r].op = "fetch_pool" /\ AnswerOutcome(r) = "success"
           count == IF pool THEN 1 ELSE Inserted(facts)
           entry == [textRun[r] EXCEPT
                      !.status = IF AnswerOutcome(r) = "success" THEN "complete" ELSE "failed",
                      !.outcome = AnswerOutcome(r), !.count = count, !.raw = answer,
                      !.pc = "done", !.answer = NoAnswer]
<1>1. /\ textRun[r] \in TextRunRow /\ RunStands(textRun[r]) /\ textClock \in Nat
      /\ textRun[r].count = 0 /\ textRun[r].pc = "answered"
  BY RunParts DEF CommitFetch
<1>2. /\ textRun' = [textRun EXCEPT ![r] = entry] /\ textRows' = RecordFacts(facts)
      /\ UNCHANGED <<textClock, retained>>
      /\ IF pool THEN RecordPool(answer.document.members, answer.at)
         ELSE UNCHANGED <<poolRows, memberships>>
  BY DEF CommitFetch, FinishTextRun
<1>3. /\ textRun[r].op \in TextOperation /\ answer \in AnswerRow
  BY <1>1 DEF TextRunRow
<1>4. AnswerOutcome(r) \in FetchOutcomes
  BY OutcomesAre DEF AnswerOutcome, FetchOutcomes
<1>5. AnswerOutcome(r) = "success" =>
         /\ FetchOutcome(answer.status) = "success" /\ Parses(textRun[r].op, answer.document)
         /\ answer.document \in Document(textRun[r].op)
  BY <1>1 DEF AnswerOutcome, RunStands
<1>6. /\ poolRows \in Seq(PoolRow) /\ textRows \in Seq(TextRow)
      /\ memberships = ViewsOf(poolRows)
  BY DEF TextInv, TextTables, TextsAreTrue, ViewsAgree, ViewsOf
<1> DEFINE says == AnswerOutcome(r) = "success" /\ textRun[r].op # "fetch_pool"
<1>7. /\ says => facts = TextFacts(textRun[r].op, answer.document)
      /\ ~ says => facts = <<>>
  BY DEF AnswerFacts
<1>8. facts \in Seq(TextRow)
  <2>1. CASE says
    <3>1. textRun[r].op \in {"fetch_commentary", "fetch_notes"} /\ answer.document \in TextDocument
      BY <1>3, <1>5, <2>1 DEF TextOperation, Document
    <3> QED
      BY <1>7, <2>1, <3>1, FactsAreRows
  <2>2. CASE ~ says
    BY <1>7, <2>2
  <2> QED
    BY <2>1, <2>2
<1> HIDE DEF facts, answer
<1>9. RecordedUpTo(textRows', facts, Len(facts))
  BY <1>2, <1>6, <1>8, RecordFactsDo
<1>10. /\ textRows' \in Seq(TextRow) /\ Len(textRows) <= Len(textRows')
       /\ Len(textRows) \in Nat /\ Len(textRows') \in Nat
       /\ \A i \in DOMAIN facts : \E j \in DOMAIN textRows' : textRows'[j] = facts[i]
  BY <1>6, <1>8, <1>9, SeqParts DEF RecordedUpTo
<1>11. Adds(textRows', textRows)
  <2>1. DOMAIN textRows = 1..Len(textRows) /\ DOMAIN textRows' = 1..Len(textRows')
    BY <1>6, <1>10, SeqParts
  <2> QED
    BY <1>9, <1>10, <2>1 DEF Adds, RecordedUpTo
<1>12. Inserted(facts) \in Nat /\ Len(textRows') = Len(textRows) + Inserted(facts)
  <2>1. Inserted(facts) = Len(textRows') - Len(textRows)
    BY <1>2 DEF Inserted
  <2> QED
    BY <1>10, <2>1
<1>13. count \in Nat
  BY <1>12
<1>14. textRun[r].op = "fetch_pool" => Len(textRows') = Len(textRows)
  <2>1. CASE textRun[r].op = "fetch_pool"
    <3>1. facts = <<>>
      BY <1>7, <2>1
    <3>2. textRows' = textRows
      BY <1>2, <1>6, <3>1, NothingRecorded
    <3> QED
      BY <3>2
  <2> QED
    BY <2>1
<1> HIDE DEF count
<1>15. /\ entry \in TextRunRow /\ entry.pc = "done" /\ entry.count = count /\ entry.raw = answer
       /\ entry.op = textRun[r].op
       /\ entry.status = IF AnswerOutcome(r) = "success" THEN "complete" ELSE "failed"
  BY <1>1, <1>3, <1>4, <1>13, NoAnswerIsOne DEF TextRunRow
<1> HIDE DEF entry
<1>16. RunStands(entry)
  BY <1>15 DEF RunStands
<1>17. Len(textRows') = Len(textRows) + Weight(entry)
  <2>1. CASE textRun[r].op = "fetch_pool"
    <3>1. Weight(entry) = 0
      BY <1>15, <2>1 DEF Weight
    <3> QED
      BY <1>10, <1>14, <2>1, <3>1
  <2>2. CASE textRun[r].op # "fetch_pool"
    <3>1. Weight(entry) = Inserted(facts)
      BY <1>15, <2>2 DEF Weight, count
    <3> QED
      BY <1>12, <3>1
  <2> QED
    BY <2>1, <2>2
<1>18. /\ poolRows' \in Seq(PoolRow) /\ Adds(poolRows', poolRows)
       /\ memberships' = ViewsOf(poolRows')
       /\ pool => \E i \in DOMAIN poolRows' : poolRows'[i].members = answer.document.members
  <2>1. CASE pool
    <3>1. answer.document \in PoolDocument
      BY <1>5, <2>1 DEF Document
    <3>2. answer.document.members \in Seq(Member \cup {Blank}) /\ answer.at \in Nat
      BY <1>3, <3>1, TextAssumption DEF AnswerRow
    <3>3. RecordPool(answer.document.members, answer.at)
      BY <1>2, <2>1
    <3> HIDE DEF pool
    <3> QED
      BY <1>6, <3>2, <3>3, PoolIsRecorded
  <2>2. CASE ~ pool
    <3>1. UNCHANGED <<poolRows, memberships>>
      BY <1>2, <2>2
    <3>2. Adds(poolRows', poolRows)
      BY <3>1 DEF Adds
    <3> HIDE DEF pool
    <3> QED
      BY <1>6, <2>2, <3>1, <3>2
  <2> QED
    BY <2>1, <2>2
<1>19. entry.status = "complete" => StatedIn(poolRows', textRows', entry)
  <2>1. SUFFICES ASSUME entry.status = "complete" PROVE StatedIn(poolRows', textRows', entry)
    OBVIOUS
  <2>2. AnswerOutcome(r) = "success"
    BY <1>15, <2>1
  <2>3. CASE textRun[r].op = "fetch_pool"
    BY <1>15, <1>18, <2>2, <2>3 DEF StatedIn
  <2>4. CASE textRun[r].op # "fetch_pool"
    <3>1. facts = TextFacts(entry.op, entry.raw.document)
      BY <1>7, <1>15, <2>2, <2>4
    <3> QED
      BY <1>10, <1>15, <2>4, <3>1 DEF StatedIn
  <2> QED
    BY <2>3, <2>4
<1>20. textClock' \in Nat /\ textRun' = [textRun EXCEPT ![r] = entry]
  BY <1>1, <1>2
<1> HIDE DEF pool, says
<1> QED
  BY <1>1, <1>10, <1>11, <1>15, <1>16, <1>17, <1>18, <1>19, <1>20, MoveKeeps

(* Nothing is fetched at first. *)
LEMMA TextBegins ==
  ASSUME TextInit
  PROVE  TextInv
<1>1. /\ textClock = 0 /\ textRun = <<>> /\ poolRows = <<>> /\ memberships = {} /\ textRows = <<>>
  BY DEF TextInit
<1>2. TextTables
  BY <1>1 DEF TextTables
<1>3. DOMAIN textRun = {} /\ DOMAIN poolRows = {}
  BY <1>1
<1>4. CompleteIsObserved /\ ViewsAgree
  BY <1>1, <1>3 DEF CompleteIsObserved, ViewsAgree
<1>5. CountsAreRows
  <2>1. Len(textRun) = 0 /\ Len(textRows) = 0
    BY <1>1
  <2>2. Weighs(textRun, 0)
    BY <2>1 DEF Weighs
  <2>3. PICK g : SumsUp(g, textRun, 0)
    BY <2>2, CountedIs
  <2> QED
    BY <2>1, <2>3 DEF SumsUp, CountsAreRows
<1> QED
  BY <1>2, <1>3, <1>4, <1>5 DEF TextInv, TextsAreTrue

(* Every step of the fetches keeps the invariant. *)
LEMMA TextStepKeeps ==
  ASSUME TextInv, TextStep
  PROVE  TextInv'
<1>1. ASSUME NEW op \in TextOperation, BeginFetch(op)
      PROVE  TextInv'
  BY <1>1, BeginFetchKeeps
<1>2. ASSUME NEW r \in DOMAIN textRun,
             AskProvider(r) \/ FetchRaises(r) \/ CommitFetch(r) \/ RefuseFetch(r) \/ KillFetcher(r)
      PROVE  TextInv'
  BY <1>2, AskProviderKeeps, FetchRaisesKeeps, CommitFetchKeeps, RefuseFetchKeeps, KillFetcherKeeps, Zenon
<1>3. ASSUME NEW n \in Member, RetainMember(n)
      PROVE  TextInv'
  BY <1>3, RetainMemberKeeps
<1> QED
  BY <1>1, <1>2, <1>3, Zenon DEF TextStep

(* What fetches of pools and texts report is observed: a complete run has  *)
(* every fact of its raw report in a row, the counts of the runs add up to *)
(* the rows there are, and a membership is seen alike from the pool and    *)
(* from its post (remote_sync/enrichment.py, remote_sync/pools.py).        *)
THEOREM TextsStand == TextSpec => []TextsAreTrue
<1>1. TextInit => TextInv
  BY TextBegins
<1>2. TextInv /\ [TextStep]_textVars => TextInv'
  <2>1. CASE TextStep
    BY <2>1, TextStepKeeps
  <2>2. CASE UNCHANGED textVars
    BY <2>2 DEF textVars, TextInv, TextTables, TextsAreTrue, CompleteIsObserved, StatedInRows,
                CountsAreRows, ViewsAgree
  <2> QED
    BY <2>1, <2>2
<1>3. TextInv => TextsAreTrue
  BY DEF TextInv
<1> QED
  BY <1>1, <1>2, <1>3, PTL DEF TextSpec

================================================================================
