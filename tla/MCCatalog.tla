------------------------------ MODULE MCCatalog ------------------------------
(* Instance of the modules of the catalog for TLC: its file, its rows and  *)
(* tags, the imports and seeds that fill it, and the pools and texts that  *)
(* an operator fetches.  They share no variable: half names the one that   *)
(* moves, while the others rest in one initial state.                      *)
EXTENDS CatalogFile, CatalogRows, ImportRuns, PostText, TLC

CONSTANTS q1, q2, q3, w1, w2, i1, i2, d1, c1, c2, c3, m1, m2, x1

VARIABLE half

catalogVars == <<half, catalogFileVars, rowsVars, importsVars, textVars>>

(* One process has the software of an older release. *)
MCSupported == q1 :> 3 @@ q2 :> 3 @@ q3 :> 2

(* A record changed, one added that is repeated, and a malformed one. *)
Record(i, t, v, good) == [post |-> i, time |-> t, value |-> v, good |-> good]
MCRecordsOf ==
    c1 :> <<Record(1, 1, 1, TRUE), Record(2, 1, 1, TRUE)>> @@
    c2 :> <<Record(1, 1, 2, TRUE), Record(2, 2, 1, TRUE), Record(2, 2, 2, TRUE)>> @@
    c3 :> <<Record(1, 1, 2, TRUE), Record(1, 2, 1, FALSE)>>

(* A pool in two orders, shortened, with a member twice, with an entry     *)
(* that is no id, and another pool.                                        *)
MCPoolDocument ==
    {[ours |-> TRUE, members |-> s] : s \in {<<m1, m2>>, <<m2, m1>>, <<m1>>, <<m1, m1>>, <<Blank>>}}
    \cup {[ours |-> FALSE, members |-> <<m1>>]}

Entry(i, t) == [id |-> i, text |-> t]
MCTextDocument ==
    {<<>>, <<Entry(1, x1)>>, <<Entry(1, Blank)>>, <<Entry(1, Blank), Entry(1, x1)>>,
     <<Entry(1, x1), Entry(2, x1)>>, <<Entry(1, Long)>>, <<Entry(Blank, x1)>>,
     <<Entry(2, x1), Entry(1, Long)>>}

(* What the provider first calls the tags differs by a permutation of      *)
(* names, and nothing else names them.                                     *)
MCInit ==
    /\ half \in {"migrations", "snapshots", "rows", "tags", "imports", "seeds", "texts"}
    /\ FileInit /\ RowsInit /\ ImportsInit /\ TextInit
    /\ source.detail = d1
    /\ half # "migrations" => userVersion = 0
    /\ half # "snapshots" => writer.mode = "wal"
    /\ half # "rows" => kind = "post"
    /\ tagSource = CHOOSE f \in Injection(Tag, Name) : TRUE
    /\ half # "imports" => sourceKind = "xarchive" /\ file = c1
    /\ half # "texts" => retained = {}

(* Of two processes in one state the first moves: that the other does is   *)
(* the same with their names exchanged.                                    *)
FirstMoves(at, next, first, second) == at[first] = at[second] => next[second] = at[second]

(* A replay under the software that stored the raw repeats what it says:   *)
(* at most one, beside at most one other replay.                           *)
RepeatsItself(replay) == raws[replay.raw].version = replay.version

FewIdleReplays ==
    LET flying == {w \in Writer : job'[w].does = "replay"}
        idle   == Cardinality({run \in replays : RepeatsItself(run)})
                  + Cardinality({w \in flying : RepeatsItself(job'[w])})
    IN  idle > 0 => idle = 1 /\ Cardinality(replays) + Cardinality(flying) <= 2

(* After the last import none begins: a process need not end, nor the file *)
(* change that nobody is going to read.                                    *)
AfterLastImport ==
    begunImports = MaxImports =>
        /\ \A p \in Importer : importer'[p] = NoImport => importer[p] = NoImport
        /\ file' = file \/ \E p \in Importer : importer[p].pc \in {"find", "begin", "import"}

(* Pages of tags differ in when they were fetched, not in who writes them. *)
MCNext ==
    /\ UNCHANGED half
    /\ \/ half = "migrations" /\ Migrations /\ UNCHANGED <<rowsVars, importsVars, textVars>>
       \/ half = "snapshots" /\ Snapshots /\ UNCHANGED <<rowsVars, importsVars, textVars>>
       \/ half = "rows" /\ RowStep /\ FirstMoves(job, job', w1, w2) /\ FewIdleReplays
          /\ UNCHANGED <<catalogFileVars, importsVars, textVars>>
       \/ half = "tags" /\ TagStep /\ job'[w2] = job[w2]
          /\ UNCHANGED <<catalogFileVars, importsVars, textVars>>
       \/ half = "imports" /\ ImportStep /\ FirstMoves(importer, importer', i1, i2) /\ AfterLastImport
          /\ UNCHANGED <<catalogFileVars, rowsVars, textVars>>
       \/ half = "seeds" /\ SeedStep /\ UNCHANGED <<catalogFileVars, rowsVars, textVars>>
       \/ half = "texts" /\ TextStep /\ UNCHANGED <<catalogFileVars, rowsVars, importsVars>>

MCSpec ==
    /\ MCInit /\ [][MCNext]_catalogVars
    /\ \A p \in Opener : WF_catalogFileVars(half = "migrations" /\ OpenStep(p) /\ UNCHANGED <<fileVars, reader>>)

(* The file, its rows and those of imports, seeds and texts are of their   *)
(* types.                                                                  *)
TypesOK == FileTypeOK /\ RowsTypeOK /\ ImportsTypeOK /\ TextTypeOK

(* What the runs that fill the catalog report is in it: those of imports   *)
(* and seeds, and those that fetch pools and texts; and a file that is     *)
(* imported again is not reported, or counted, a second time.              *)
ReportsAreTrue == [](ImportsAreTrue /\ TextsAreTrue) /\ ImportsAreIdempotent

=============================================================================
