----------------------------- MODULE CatalogFile -----------------------------
(* The catalog file itself (database.py): the migrations that processes    *)
(* apply when they open it, and the snapshot a reader takes of the file    *)
(* without SQLite's locks, from one descriptor between two inspections of  *)
(* the file and of its sidecars.  SQLite is external: a writer appends to  *)
(* the WAL (or, before the file is in WAL mode, saves the old pages in a   *)
(* rollback journal), commits, copies the frames into the file page by     *)
(* page, and removes the WAL when the last connection closes; it can be    *)
(* killed between any two of these.                                        *)
EXTENDS Integers, FiniteSets

CONSTANTS
    Opener,         \* processes that open the catalog
    Supported,      \* the schema version of the software of each of them
    Latest,         \* the newest migration any of them has
    Replayable,     \* migrations whose script also runs on a catalog that has it
    MaxTransactions,\* a bound of the model
    Nobody

ASSUME FileAssumption ==
    /\ Latest \in Nat \ {0} /\ Supported \in [Opener -> 1..Latest]
    /\ Replayable \subseteq 1..Latest
    /\ MaxTransactions \in Nat
    /\ Nobody \notin Opener \cup Nat

VARIABLES
    userVersion,    \* PRAGMA user_version
    applied,        \* how often each migration was committed
    lock,           \* the process inside BEGIN EXCLUSIVE
    opener,         \* where each process is: [pc, at], at the migration of its loop
    \* the snapshot of a reader, and the writer beside it
    pages,          \* the transaction each page of the file is of
    wal,            \* <file>-wal: its kind, and the transaction its frames commit
    journal,        \* <file>-journal: its kind, and the pages it saves
    stamp,          \* the size and times fstat reports, as the number of writes
    writer,         \* [mode, pc, txn]: the journal mode and the open transaction
    begun,          \* transactions begun so far
    committed,      \* the last committed transaction
    reader          \* open_read_only: [pc, before, got, seen, disturbed, after]

migrationVars == <<userVersion, applied, lock, opener>>
fileVars == <<pages, wal, journal, stamp, writer, begun, committed>>
catalogFileVars == <<migrationVars, fileVars, reader>>

FilePage == 1..2
NoWal == [kind |-> "absent", txn |-> 0]
NoJournal == [kind |-> "absent", saved |-> <<0, 0>>]

FileInit ==
    /\ userVersion \in 0..Latest
    /\ applied = [v \in 1..Latest |-> IF v <= userVersion THEN 1 ELSE 0]
    /\ lock = Nobody
    /\ opener = [p \in Opener |-> [pc |-> "closed", at |-> 1]]
    /\ pages = <<0, 0>> /\ wal = NoWal /\ journal = NoJournal
    /\ stamp = 0 /\ begun = 0 /\ committed = 0
    /\ writer \in [mode : {"wal", "delete"}, pc : {"gone"}, txn : {0}]
    /\ reader = [pc |-> "closed", before |-> 0, got |-> <<0, 0>>, seen |-> {},
                 disturbed |-> FALSE, after |-> 0]

(***************************************************************************)
(* Opening a catalog for writing, and migrating it                         *)
(***************************************************************************)

OpenerAt(p, pc) == opener[p].pc = pc
OpenerMoves(p, pc) == opener' = [opener EXCEPT ![p].pc = pc]

(* _check_version, which __init__ and migrate() both call. *)
CheckVersion(p) ==
    /\ opener[p].pc \in {"closed", "checked"}
    /\ OpenerMoves(p, IF userVersion > Supported[p] THEN "refused"
               ELSE IF OpenerAt(p, "closed") THEN "checked" ELSE "loop")
    /\ UNCHANGED <<userVersion, applied, lock>>

(* Mutant: the last migration is left out. *)
NextMigrationButLast(p) ==
    /\ OpenerAt(p, "loop")
    /\ \/ opener[p].at >= Supported[p] /\ OpenerMoves(p, "open")
       \/ /\ opener[p].at < Supported[p]
          /\ IF opener[p].at <= userVersion
                THEN opener' = [opener EXCEPT ![p].at = @ + 1]
                ELSE OpenerMoves(p, "due")
    /\ UNCHANGED <<userVersion, applied, lock>>

(* migrate() reads the version again before each script, outside any       *)
(* transaction.                                                            *)
NextMigration(p) ==
    /\ OpenerAt(p, "loop")
    /\ \/ opener[p].at > Supported[p] /\ OpenerMoves(p, "open")
       \/ /\ opener[p].at <= Supported[p]
          /\ IF opener[p].at <= userVersion
                THEN opener' = [opener EXCEPT ![p].at = @ + 1]
                ELSE OpenerMoves(p, "due")
    /\ UNCHANGED <<userVersion, applied, lock>>

BeginExclusive(p) ==
    /\ OpenerAt(p, "due")
    /\ \/ lock = Nobody /\ lock' = p /\ OpenerMoves(p, "applying")
       \/ lock # Nobody /\ lock' = lock /\ OpenerMoves(p, "refused")     \* database is locked
    /\ UNCHANGED <<userVersion, applied>>

(* Does the script run on what the catalog holds, and leave no violation   *)
(* of a foreign key?  Either failure is rolled back and refused alike.     *)
ScriptRuns(v) ==
    /\ \A w \in 1..(v - 1) : applied[w] > 0
    /\ applied[v] > 0 => v \in Replayable

(* Mutant: a failed script keeps its transaction. *)
ApplyMigrationKeepingLock(p) ==
    /\ OpenerAt(p, "applying")
    /\ LET v == opener[p].at IN
          \/ /\ ScriptRuns(v)
             /\ applied' = [applied EXCEPT ![v] = @ + 1]
             /\ userVersion' = v /\ lock' = Nobody
             /\ opener' = [opener EXCEPT ![p] = [pc |-> "loop", at |-> v + 1]]
          \/ ~ ScriptRuns(v) /\ OpenerMoves(p, "refused") /\ UNCHANGED <<userVersion, applied, lock>>

(* Mutant: a failed script is tried again. *)
ApplyMigrationAgain(p) ==
    /\ OpenerAt(p, "applying")
    /\ lock' = Nobody
    /\ LET v == opener[p].at IN
          \/ /\ ScriptRuns(v)
             /\ applied' = [applied EXCEPT ![v] = @ + 1]
             /\ userVersion' = v
             /\ opener' = [opener EXCEPT ![p] = [pc |-> "loop", at |-> v + 1]]
          \/ ~ ScriptRuns(v) /\ OpenerMoves(p, "due") /\ UNCHANGED <<userVersion, applied>>

(* The end of executescript and the commit, or the rollback of a failure.  *)
ApplyMigration(p) ==
    /\ OpenerAt(p, "applying")
    /\ lock' = Nobody
    /\ LET v == opener[p].at IN
          \/ /\ ScriptRuns(v)
             /\ applied' = [applied EXCEPT ![v] = @ + 1]
             /\ userVersion' = v
             /\ opener' = [opener EXCEPT ![p] = [pc |-> "loop", at |-> v + 1]]
          \/ ~ ScriptRuns(v) /\ OpenerMoves(p, "refused") /\ UNCHANGED <<userVersion, applied>>

(* A process is killed; SQLite rolls its transaction back. *)
KillOpener(p) ==
    /\ opener[p].pc \in {"checked", "loop", "due", "applying"}
    /\ lock' = (IF lock = p THEN Nobody ELSE lock)
    /\ OpenerMoves(p, "killed")
    /\ UNCHANGED <<userVersion, applied>>

OpenStep(p) == CheckVersion(p) \/ NextMigration(p) \/ BeginExclusive(p) \/ ApplyMigration(p)

Migrations ==
    /\ \E p \in Opener : OpenStep(p) \/ KillOpener(p)
    /\ UNCHANGED <<fileVars, reader>>

(***************************************************************************)
(* A writer, as SQLite works (external)                                    *)
(***************************************************************************)

(* A connection is opened; a journal left behind is rolled back, frames    *)
(* left in the WAL are kept.                                               *)
WriterOpens ==
    /\ writer.pc = "gone"
    /\ writer' = [writer EXCEPT !.pc = "idle"]
    /\ IF journal.kind = "valid"
          THEN /\ pages' = journal.saved /\ journal' = NoJournal /\ stamp' = stamp + 1
          ELSE UNCHANGED <<pages, journal, stamp>>
    /\ wal' = [wal EXCEPT !.kind = IF writer.mode = "wal" /\ @ = "absent" THEN "empty" ELSE @]
    /\ UNCHANGED <<begun, committed>>

WriterBegins ==
    /\ writer.pc = "idle" /\ begun < MaxTransactions
    /\ begun' = begun + 1
    /\ writer' = [writer EXCEPT !.pc = "writing", !.txn = begun + 1]
    /\ IF writer.mode = "wal"
          THEN wal' = [wal EXCEPT !.kind = "frames"] /\ UNCHANGED journal
          ELSE journal' = [kind |-> "valid", saved |-> pages] /\ UNCHANGED wal
    /\ UNCHANGED <<pages, stamp, committed>>

(* A page of the file is written: of the open transaction under a rollback *)
(* journal, by a checkpoint of the WAL.                                    *)
WriterPutsPage ==
    \E n \in FilePage :
        LET txn == IF writer.mode = "wal" THEN wal.txn ELSE writer.txn IN
        /\ writer.pc = (IF writer.mode = "wal" THEN "idle" ELSE "writing")
        /\ writer.mode = "wal" => wal.kind = "frames"
        /\ pages[n] # txn
        /\ pages' = [pages EXCEPT ![n] = txn]
        /\ stamp' = stamp + 1
        /\ UNCHANGED <<wal, journal, writer, begun, committed>>

WriterCommits ==
    /\ writer.pc = "writing"
    /\ writer' = [writer EXCEPT !.pc = "idle", !.txn = 0]
    /\ committed' = writer.txn
    /\ IF writer.mode = "wal"
          THEN wal' = [wal EXCEPT !.txn = writer.txn] /\ UNCHANGED journal
          ELSE /\ \A n \in FilePage : pages[n] = writer.txn
               /\ journal' = NoJournal /\ UNCHANGED wal
    /\ UNCHANGED <<pages, stamp, begun>>

(* The last connection closes: the WAL has been copied and is removed. *)
WriterCloses ==
    /\ writer.pc = "idle"
    /\ wal.kind = "frames" => \A n \in FilePage : pages[n] = wal.txn
    /\ writer' = [writer EXCEPT !.pc = "gone"]
    /\ wal' = [wal EXCEPT !.kind = "absent"]
    /\ UNCHANGED <<pages, journal, stamp, begun, committed>>

(* The writer is killed: its uncommitted frames are never read. *)
WriterDies ==
    /\ writer.pc \in {"idle", "writing"}
    /\ writer' = [writer EXCEPT !.pc = "gone", !.txn = 0]
    /\ UNCHANGED <<pages, wal, journal, stamp, begun, committed>>

WriterStep ==
    \/ WriterOpens \/ WriterBegins \/ WriterPutsPage
    \/ WriterCommits \/ WriterCloses \/ WriterDies

(***************************************************************************)
(* open_read_only                                                          *)
(***************************************************************************)

(* What _require_absent_wal and _require_absent_rollback_journal accept: a *)
(* WAL of at most its header, a journal of no bytes.                       *)
WalAbsent == wal.kind # "frames"
JournalAbsent == journal.kind = "absent"

Reading(pc) == reader.pc = pc
Refused == reader' = [reader EXCEPT !.pc = "refused"]

StatBefore ==
    /\ Reading("closed")
    /\ reader' = [reader EXCEPT !.pc = "inspect", !.before = stamp, !.seen = {committed},
                                !.disturbed = \/ writer.pc # "gone"
                                               \/ wal.kind = "frames" \/ journal.kind = "valid"]

(* The two sidecars are inspected one after the other. *)
InspectSidecars ==
    \E from \in {<<"inspect", "journal">>, <<"again", "journal again">>} :
        /\ Reading(from[1])
        /\ IF WalAbsent THEN reader' = [reader EXCEPT !.pc = from[2]] ELSE Refused

InspectJournal ==
    \E from \in {<<"journal", "read 1">>, <<"journal again", "compare">>} :
        /\ Reading(from[1])
        /\ IF JournalAbsent THEN reader' = [reader EXCEPT !.pc = from[2]] ELSE Refused

ReadPage ==
    \E from \in {<<"read 1", 1, "read 2">>, <<"read 2", 2, "stat">>} :
        /\ Reading(from[1])
        /\ reader' = [reader EXCEPT !.pc = from[3], !.got[from[2]] = pages[from[2]]]

StatAfter ==
    /\ Reading("stat")
    /\ reader' = [reader EXCEPT !.pc = "again", !.after = stamp]

(* Mutant: a file that changes while it is read is accepted. *)
CompareNothing ==
    /\ Reading("compare")
    /\ reader' = [reader EXCEPT !.pc = "read"]

(* The file is the same before and after: its bytes are deserialized.  The *)
(* refusals of a file for its size, its header or its version are left out:*)
(* they do not depend on what is done to it meanwhile.                     *)
CompareStats ==
    /\ Reading("compare")
    /\ reader' = [reader EXCEPT !.pc = IF reader.before = reader.after THEN "read" ELSE "refused"]

ReaderStep ==
    /\ \/ StatBefore \/ InspectSidecars \/ InspectJournal
       \/ ReadPage \/ StatAfter \/ CompareStats
    /\ UNCHANGED fileVars

(* What the reader could have seen: every state committed during its call. *)
Snapshots ==
    /\ \/ ReaderStep
       \/ /\ WriterStep
          /\ reader' = IF reader.pc \in {"closed", "read", "refused"} THEN reader
                       ELSE [reader EXCEPT !.seen = @ \cup {committed'}, !.disturbed = TRUE]
    /\ UNCHANGED migrationVars

FileNext == Migrations \/ Snapshots

FileFairness == \A p \in Opener : WF_catalogFileVars(OpenStep(p) /\ UNCHANGED <<fileVars, reader>>)

FileSpec == FileInit /\ [][FileNext]_catalogFileVars /\ FileFairness

(***************************************************************************)
(* Properties                                                              *)
(***************************************************************************)

FileTypeOK ==
    /\ userVersion \in 0..Latest /\ applied \in [1..Latest -> Nat]
    /\ lock \in Opener \cup {Nobody} /\ \A p \in Opener : lock = p <=> OpenerAt(p, "applying")
    /\ opener \in [Opener -> [pc : {"closed", "checked", "loop", "due", "applying", "open",
                                    "refused", "killed"}, at : 1..(Latest + 1)]]
    /\ pages \in [FilePage -> 0..MaxTransactions] /\ stamp \in Nat
    /\ wal.kind \in {"absent", "empty", "frames"} /\ journal.kind \in {"absent", "valid"}
    /\ writer.pc \in {"gone", "idle", "writing"}
    /\ committed <= begun

(* A process that has opened the catalog finds every migration its         *)
(* software knows, and the version never claims one that is not there,     *)
(* whichever processes migrate beside it, with which software, and         *)
(* wherever they are killed (database.py:255, the version read outside the *)
(* transaction of the script).                                             *)
OpenedIsMigrated ==
    /\ \A v \in 1..userVersion : applied[v] > 0
    /\ \A p \in Opener : OpenerAt(p, "open") => \A v \in 1..Supported[p] : applied[v] > 0

(* Every opening ends, although others migrate and hold the lock: it finds *)
(* the catalog migrated, is refused, or its process is killed.             *)
OpeningEnds ==
    \A p \in Opener :
        OpenerAt(p, "checked") ~> opener[p].pc \in {"open", "refused", "killed"}

(* A snapshot is one committed state of the catalog, of the time of the    *)
(* call: never pages of two transactions, of one that is rolled back, or   *)
(* of one that was already superseded when the call began                  *)
(* (database.py:87, without any lock of SQLite's).                         *)
SnapshotIsCommitted ==
    Reading("read") => \E txn \in reader.seen : reader.got = [n \in FilePage |-> txn]

(* A reader that nothing disturbs is not refused: no writer connected, and *)
(* none killed before left a sidecar.  It speaks of a catalog of this      *)
(* version, within the size limit of a snapshot.                           *)
QuietReadSucceeds == Reading("refused") => reader.disturbed

(* A reader without locks gets one committed state or a refusal with a     *)
(* cause.                                                                  *)
SnapshotStands == SnapshotIsCommitted /\ QuietReadSucceeds

=============================================================================
