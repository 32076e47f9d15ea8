------------------------------ MODULE ImportRuns ------------------------------
(* Imports of source files (imports/common.py, x_likes_db.py, xarchive.py) *)
(* and the seeds an operator brings (seeding/service.py).  An import is    *)
(* known by the digest of its file: it is looked up and begun in separate  *)
(* transactions, its records are written in one, and a failure is noted in *)
(* another.  The file can change between its digest and its import, and    *)
(* two processes can import it at once.  A seed is one transaction,        *)
(* followed by the adoption of the file the operator holds, if any.        *)
EXTENDS Integers, Sequences, FiniteSets

CONSTANTS
    Importer,       \* processes that import and seed
    Content,        \* contents of the source file, which stand for their digests
    RecordsOf,      \* the records of each content: [post, time, value, good]
    SeedFile,       \* contents of the files an operator brings
    MaxImports,     \* a bound of the model: imports and seeds begun
    NoValue

ASSUME ImportAssumption ==
    /\ RecordsOf \in [Content -> Seq([post : Nat, time : Nat, value : Nat, good : BOOLEAN])]
    /\ MaxImports \in Nat
    /\ NoValue \notin SeedFile \cup Content \cup [time : Nat, value : Nat]

VARIABLES
    sourceKind,     \* "x-likes-db" or "xarchive"
    file,           \* what the source file holds
    importer,       \* [pc, digest, found, counts]
    importRun,      \* by digest: [status, counts], and the contents read (of the model)
    posts,          \* by native id: [time, value], or none
    likes,          \* observation_revisions: the post, the event's time and its run
    asset,          \* the asset of the file's media: [kind, facts]
    begunImports,
    \* seeds of one post
    seedRun,        \* operator_seed runs that are complete, by their bundle
    stub,           \* has the post been written?
    seedSources,    \* the files registered as sources of its occurrence
    seedAsset,      \* the file whose bytes its occurrence's asset holds
    seeder          \* [pc, bundle, reports]

importVars == <<sourceKind, file, importer, importRun, posts, likes, asset>>
seedVars == <<seedRun, stub, seedSources, seedAsset, seeder>>
importsVars == <<importVars, seedVars, begunImports>>

NoCounts == [inserted |-> 0, updated |-> 0, existing |-> 0, failed |-> 0]
NoRun == [status |-> "none", counts |-> NoCounts, read |-> {}]
PostIds == UNION {{RecordsOf[c][i].post : i \in DOMAIN RecordsOf[c]} : c \in Content}
NoImport == [pc |-> "idle", digest |-> NoValue, found |-> "none", counts |-> NoCounts]
SeedBundle == SeedFile \cup {NoValue}       \* of one set of URLs, with a file or without

ImportsInit ==
    /\ sourceKind \in {"x-likes-db", "xarchive"} /\ file \in Content
    /\ importer = [p \in Importer |-> NoImport]
    /\ importRun = [c \in Content |-> NoRun]
    /\ posts = [i \in PostIds |-> NoValue] /\ likes = {}
    /\ asset = [kind |-> "none", facts |-> NoValue]
    /\ begunImports = 0
    /\ seedRun = {} /\ stub = FALSE /\ seedSources = {} /\ seedAsset = NoValue
    /\ seeder = [p \in Importer |-> [pc |-> "idle", bundle |-> NoValue, reports |-> NoValue]]

(***************************************************************************)
(* What one record does                                                    *)
(***************************************************************************)

NewerPost(old, r) ==
    IF old = NoValue \/ r.time >= old.time THEN [time |-> r.time, value |-> r.value] ELSE old

(* What the upsert reports of a record. *)
Outcome(old, r) ==
    CASE old = NoValue -> "inserted"
      [] old # NoValue /\ r.time >= old.time /\ r.value # old.value -> "updated"
      [] OTHER -> "existing"

(* add_observation: an event is known by its post and its time, and its    *)
(* revision by the run and the raw observation, which the value stands for.*)
Liked(r, run) == [post |-> r.post, time |-> r.time, value |-> r.value, run |-> run]

(* One row of _import_rows or one bookmark of _import_bookmark: the post   *)
(* and the event of the operator's like or bookmark.                       *)
ImportRecord(done, r, run) ==
    IF ~ done.good \/ ~ r.good THEN [done EXCEPT !.good = FALSE]
    ELSE [good |-> TRUE, posts |-> [done.posts EXCEPT ![r.post] = NewerPost(@, r)],
          likes |-> done.likes \cup {Liked(r, run)},
          counts |-> [done.counts EXCEPT ![Outcome(done.posts[r.post], r)] = @ + 1]]

(* All records of a content, up to the first that is malformed. *)
ImportRecords(c, run) ==
    LET done[n \in 0 .. Len(RecordsOf[c])] ==
            IF n = 0 THEN [good |-> TRUE, posts |-> posts, likes |-> likes, counts |-> NoCounts]
            ELSE ImportRecord(done[n - 1], RecordsOf[c][n], run)
    IN  done[Len(RecordsOf[c])]

(* link_asset: a claim never downgrades an asset that is managed. *)
LinkAsset(kind, facts) ==
    IF asset.kind = "managed" /\ kind # "managed" THEN asset ELSE [kind |-> kind, facts |-> facts]

(***************************************************************************)
(* run_import                                                              *)
(***************************************************************************)

At(p, pc) == importer[p].pc = pc
Moves(p, pc) == importer' = [importer EXCEPT ![p].pc = pc]
Unrun == UNCHANGED <<importRun, posts, likes, asset>>

(* source_digest reads the whole file. *)
Digest(p) ==
    /\ At(p, "idle") /\ begunImports < MaxImports
    /\ begunImports' = begunImports + 1
    /\ importer' = [importer EXCEPT ![p].pc = "find", ![p].digest = file]
    /\ UNCHANGED <<sourceKind, file>> /\ Unrun

(* Mutant: a run that exists is reused, complete or not. *)
FindRunAnyStatus(p) ==
    /\ At(p, "find")
    /\ LET status == importRun[importer[p].digest].status IN
          importer' = [importer EXCEPT ![p].found = status,
                                       ![p].pc = IF status # "none" THEN "reused" ELSE "begin"]
    /\ UNCHANGED <<sourceKind, file, begunImports>> /\ Unrun

FindRun(p) ==
    /\ At(p, "find")
    /\ LET status == importRun[importer[p].digest].status IN
          importer' = [importer EXCEPT ![p].found = status,
                                       ![p].pc = IF status = "complete" THEN "reused" ELSE "begin"]
    /\ UNCHANGED <<sourceKind, file, begunImports>> /\ Unrun

(* What was found decides between INSERT, which another process may have   *)
(* done by now, and UPDATE, whatever the run has become.                   *)
BeginImport(p) ==
    /\ At(p, "begin")
    /\ LET d == importer[p].digest IN
          IF importer[p].found = "none" /\ importRun[d].status # "none"
          THEN Moves(p, "raised") /\ Unrun
          ELSE /\ Moves(p, "import")
               /\ importRun' = [importRun EXCEPT ![d].status = "running"]
               /\ UNCHANGED <<posts, likes, asset>>
    /\ UNCHANGED <<sourceKind, file, begunImports>>

(* The importer opens the file again and writes its records and the        *)
(* completed run in one transaction, which a malformed record, or an error *)
(* of another kind, rolls back.                                            *)
Import(p) ==
    /\ At(p, "import")
    /\ LET d == importer[p].digest
           done == ImportRecords(file, d)
       IN \/ /\ done.good
             /\ Moves(p, "done")
             /\ importRun' = [importRun EXCEPT ![d] = [status |-> "complete", counts |-> done.counts,
                                                       read |-> @.read \cup {file}]]
             /\ posts' = done.posts /\ likes' = done.likes
             /\ asset' = IF sourceKind = "x-likes-db" THEN LinkAsset("legacy", d) ELSE asset
          \/ /\ importer' = [importer EXCEPT ![p].pc = "failing", ![p].counts =
                                 IF sourceKind = "xarchive" /\ ~ done.good THEN done.counts ELSE @]
             /\ Unrun
    /\ UNCHANGED <<sourceKind, file, begunImports>>

(* The counts of a failed import; xarchive keeps what it had counted       *)
(* before a malformed record, although that was rolled back.               *)
NoteFailure(p) ==
    /\ At(p, "failing")
    /\ Moves(p, "raised")
    /\ importRun' = [importRun EXCEPT ![importer[p].digest].status = "failed",
                         ![importer[p].digest].counts = [importer[p].counts EXCEPT !.failed = 1]]
    /\ UNCHANGED <<sourceKind, file, posts, likes, asset, begunImports>>

(* The next command; a process can be killed at any point. *)
ImporterRestarts(p) ==
    /\ ~ At(p, "idle")
    /\ importer' = [importer EXCEPT ![p] = NoImport]
    /\ UNCHANGED <<sourceKind, file, begunImports>> /\ Unrun

FileChanges ==
    /\ file' \in Content \ {file}
    /\ UNCHANGED <<sourceKind, importer, begunImports>> /\ Unrun

(* Adoption verifies the bytes that the file's media names. *)
AssetAdopted ==
    /\ asset.kind = "legacy"
    /\ asset' = LinkAsset("managed", NoValue)
    /\ UNCHANGED <<sourceKind, file, importer, importRun, posts, likes, begunImports>>

ImportStep ==
    /\ \/ \E p \in Importer :
             \/ Digest(p) \/ FindRun(p) \/ BeginImport(p)
             \/ Import(p) \/ NoteFailure(p) \/ ImporterRestarts(p)
       \/ FileChanges \/ AssetAdopted
    /\ UNCHANGED seedVars

(***************************************************************************)
(* SeedMaterializationService.materialize                                  *)
(***************************************************************************)

SeederAt(p, pc) == seeder[p].pc = pc

(* One transaction writes the run, the raw bundle, the stub post, its      *)
(* references, the occurrence and the source of the file; a bundle whose   *)
(* run is complete writes nothing.                                         *)
MaterializeSeed(p) ==
    /\ SeederAt(p, "idle") /\ begunImports < MaxImports
    /\ begunImports' = begunImports + 1
    /\ \E b \in SeedBundle :
          /\ seeder' = [seeder EXCEPT ![p].bundle = b, ![p].pc = IF b = NoValue THEN "done" ELSE "adopt"]
          /\ seedRun' = seedRun \cup {b}
          /\ stub' = TRUE
          /\ seedSources' = IF b \in seedRun THEN seedSources ELSE (seedSources \cup {b}) \ {NoValue}
    /\ UNCHANGED seedAsset

(* An asset of the occurrence, of whichever file, ends it; otherwise the   *)
(* sources of the occurrence are adopted, which may fail.                  *)
EnsureAdopted(p) ==
    /\ SeederAt(p, "adopt")
    /\ \/ /\ seedAsset # NoValue
          /\ seeder' = [seeder EXCEPT ![p].pc = "done", ![p].reports = seedAsset]
          /\ UNCHANGED seedAsset
       \/ /\ seedAsset = NoValue
          /\ \E f \in seedSources : seedAsset' = f
          /\ seeder' = [seeder EXCEPT ![p].pc = "done", ![p].reports = seedAsset']
       \/ /\ seedAsset = NoValue /\ UNCHANGED seedAsset
          /\ seeder' = [seeder EXCEPT ![p].pc = "raised"]
    /\ UNCHANGED <<seedRun, stub, seedSources, begunImports>>

(* The next command, or the end of a process that was killed. *)
SeederRestarts(p) ==
    /\ ~ SeederAt(p, "idle")
    /\ seeder' = [seeder EXCEPT ![p] = [pc |-> "idle", bundle |-> NoValue, reports |-> NoValue]]
    /\ UNCHANGED <<seedRun, stub, seedSources, seedAsset, begunImports>>

SeedStep ==
    /\ \E p \in Importer : MaterializeSeed(p) \/ EnsureAdopted(p) \/ SeederRestarts(p)
    /\ UNCHANGED importVars

ImportsNext == ImportStep \/ SeedStep

ImportsSpec == ImportsInit /\ [][ImportsNext]_importsVars

(***************************************************************************)
(* Properties                                                              *)
(***************************************************************************)

FactsOf(c, run) ==
    {Liked(RecordsOf[c][i], run) : i \in DOMAIN RecordsOf[c]}

ImportsTypeOK ==
    /\ file \in Content /\ begunImports \in 0..MaxImports
    /\ \A p \in Importer : importer[p].pc \in {"idle", "find", "begin", "import", "failing",
                                               "done", "reused", "raised"}
    /\ \A c \in Content : importRun[c].status \in {"none", "running", "complete", "failed"}
    /\ asset.kind \in {"none", "legacy", "managed"}
    /\ seedRun \subseteq SeedBundle /\ seedSources \subseteq SeedFile
    /\ \A p \in Importer : seeder[p].pc \in {"idle", "adopt", "done", "raised"}

(* An import that reports success, also by the run of an earlier one, has  *)
(* all the facts of a content of the file stored, under its run: whatever  *)
(* another import of the same file does meanwhile, and however often one   *)
(* failed or was killed before (imports/common.py:59-101).                 *)
ReportedIsStored ==
    \A p \in Importer : importer[p].pc \in {"done", "reused"} =>
        LET run == importRun[importer[p].digest] IN
        /\ run.read # {}
        /\ \A c \in run.read : FactsOf(c, importer[p].digest) \subseteq likes

(* Nothing of an import that failed is stored: each post shows a record,   *)
(* and each event is one, of a content that a completed run has read       *)
(* (imports/common.py:102, one transaction of all records).                *)
NothingUnreported ==
    /\ \A l \in likes : \E c \in importRun[l.run].read : l \in FactsOf(c, l.run)
    /\ \A i \in PostIds : posts[i] # NoValue =>
          \E d \in Content : \E c \in importRun[d].read : \E n \in DOMAIN RecordsOf[c] :
              /\ RecordsOf[c][n].post = i
              /\ posts[i] = [time |-> RecordsOf[c][n].time, value |-> RecordsOf[c][n].value]

(* A content imported again under its run adds no event and inserts no     *)
(* post, although a racing import has taken the completed run back to      *)
(* 'running' or 'failed' (spec x-seed-import, the repeated file).          *)
RepeatAddsNothing ==
    \A p \in Importer :
     LET d == importer[p].digest IN
     importer[p].pc = "import" /\ importer'[p].pc = "done" /\ file \in importRun[d].read =>
         likes' = likes /\ importRun'[d].counts.inserted = 0

(* A seed with a file that reports success has an asset of a file of the   *)
(* post, its run and its stub, although the adoption of an earlier call    *)
(* failed or was killed, and two calls adopt at once                       *)
(* (seeding/service.py:128-164, 345).                                      *)
SeedReportIsTrue ==
    \A p \in Importer : SeederAt(p, "done") =>
        /\ stub /\ seeder[p].bundle \in seedRun
        /\ seeder[p].bundle # NoValue =>
              /\ seeder[p].bundle \in seedSources
              /\ seeder[p].reports # NoValue /\ seeder[p].reports = seedAsset

(* What imports and seeds report is stored, and nothing else is.           *)
ImportsAreTrue == ReportedIsStored /\ NothingUnreported /\ SeedReportIsTrue

(* A file may be imported any number of times.                             *)
ImportsAreIdempotent == [][RepeatAddsNothing]_importsVars

===============================================================================
