----------------------------- MODULE CatalogRows -----------------------------
(* The rows that describe one thing of a provider, and the history beside  *)
(* them (persistence/catalog.py, metadata.py, remote_sync/persistence.py). *)
(* Two processes fetch and write pages, out of the order of their times;   *)
(* a newer normalizer replays what was retained (reprocess.py); an         *)
(* operator seeds or tombstones the post.  One reported value stands for   *)
(* every fact: for the details a newer report overwrites but never erases, *)
(* and for the claims only the first report sets.                          *)
EXTENDS Integers, Sequences, FiniteSets, Functions, FiniteSetsExt

CONSTANTS
    Writer,         \* processes that write the catalog
    Detail,         \* values of a reported fact
    Tag,            \* stable identifiers of the provider's tags
    Name,           \* names of tags
    MaxClock, MaxPages, MaxEvents,      \* bounds of the model
    None

ASSUME RowsAssumption ==
    /\ None \notin Writer \cup Detail \cup Tag \cup Name \cup {"tombstone"}
    /\ IsFiniteSet(Writer)
    /\ MaxClock \in Nat \ {0} /\ MaxPages \in Nat /\ MaxEvents \in Nat

VARIABLES
    now,            \* the clock, in steps that order the pages
    version,        \* the adapter version: 2 finds facts that 1 left in the raw
    source,         \* what the provider reports: [avail, detail]
    tagSource,      \* the name that it gives to each tag
    job,            \* what each process has fetched, or replays
    raws,           \* retained responses: [time, avail, detail, stub, version]
    replays,        \* completed runs of origin "reprocess": raw, version and run
    kind,           \* the table: posts, accounts, media_occurrences or attributions
    row,            \* the current row
    history,        \* observations and snapshots of it
    said,           \* every statement written so far, in order (of the model)
    tags,           \* rows of tags: [id, name]
    postTags,       \* post_tags: the row of tags, and the name that the page used
    named,          \* the names the provider has given each tag (of the model)
    events          \* changes, seeds, tombstones and upgrades so far

rowVars == <<raws, replays, kind, row, history, said>>
tagVars == <<tagSource, tags, postTags, named>>
rowsVars == <<now, version, source, job, rowVars, tagVars, events>>

Kind == {"post", "account", "media", "attribution"}
Marker == "tombstone"
Bundle == -1            \* the raw that an operator's seed retains

(* A row of posts, accounts, media_occurrences or attributions; one never  *)
(* written is None.                                                        *)
Availability == {"available", "unavailable", "deleted", "unknown"}
Fact == Detail \cup {None}
Row == [seen : 1..MaxClock, avail : Availability, detail : Fact \cup {Marker},
        claim : Fact, raw : Bundle..MaxPages]

ASSUME NoRowAssumption == None \notin Row

Event == events < MaxEvents /\ events' = events + 1
Idle(w) == job[w].does = "nothing"
Nothing == [does |-> "nothing"]

RowsInit ==
    /\ now = 1 /\ version = 1 /\ events = 0
    /\ source \in [avail : {"available"}, detail : Detail]
    /\ tagSource \in Injection(Tag, Name)
    /\ job = [w \in Writer |-> Nothing]
    /\ raws = <<>> /\ replays = {} /\ kind \in Kind
    /\ row = None /\ history = {} /\ said = <<>>
    /\ tags = <<>> /\ postTags = {}
    /\ named = [t \in Tag |-> {tagSource[t]}]

(***************************************************************************)
(* Rows that the newest report wins                                        *)
(***************************************************************************)

Coalesce(a, b) == IF a # None THEN a ELSE b

(* A report of the thing itself, as the normalizer of a version reads it,  *)
(* or a mere reference to it (a relation's other post, a participant),     *)
(* which persists a record with nothing but its identifier.                *)
Statement(raw, r, v) ==
    [time |-> raw.time, avail |-> IF raw.stub THEN "available" ELSE raw.avail,
     detail |-> IF raw.stub \/ v = 1 THEN None ELSE raw.detail,
     raw |-> IF raw.stub /\ kind = "post" THEN 0 ELSE r]

(* The columns of each table: attributions keep their facts in snapshots,  *)
(* and only posts and media have claims and a pointer to the response.     *)
RowOf(st) ==
    [seen |-> st.time, avail |-> st.avail,
     detail |-> IF kind = "attribution" THEN None ELSE st.detail,
     claim |-> IF kind \in {"post", "media"} THEN st.detail ELSE None,
     raw |-> IF kind \in {"post", "media"} THEN st.raw ELSE 0]

(* Mutant: an equally old report does not count. *)
UpsertStrictly(st) ==
    LET new == RowOf(st) IN
    IF row = None THEN new
    ELSE IF new.seen > row.seen
    THEN [new EXCEPT !.detail = Coalesce(@, row.detail), !.claim = Coalesce(row.claim, @),
                     !.raw = IF @ = 0 THEN row.raw ELSE @]
    ELSE [row EXCEPT !.claim = Coalesce(@, new.claim)]

(* upsert_account, upsert_post, upsert_media and upsert_attribution: a     *)
(* report at least as new as the row sets it, a claim is set once.         *)
Upsert(st) ==
    LET new == RowOf(st) IN
    IF row = None THEN new
    ELSE IF new.seen >= row.seen
    THEN [new EXCEPT !.detail = Coalesce(@, row.detail), !.claim = Coalesce(row.claim, @),
                     !.raw = IF @ = 0 THEN row.raw ELSE @]
    ELSE [row EXCEPT !.claim = Coalesce(@, new.claim)]

(* Mutant: a snapshot is one of the time it is written at. *)
HistoryKeyOfWriting(st) == <<st.detail, st.raw, now>>

(* The identity of a history row: the snapshot of an account is one of a   *)
(* raw, that of an attribution also of the availability, and an            *)
(* observation of a post's metadata is one of its time.                    *)
HistoryKey(st) ==
    CASE kind = "account" -> <<st.detail, st.raw>>
      [] kind = "attribution" -> <<st.detail, st.raw, st.avail>>
      [] OTHER -> <<st.detail, st.time>>

(* Media keep no history, and a post without facts adds none. *)
Observe(st) ==
    history' = IF kind = "media" \/ (kind = "post" /\ st.detail = None) THEN history
               ELSE history \cup {HistoryKey(st)}

Write(st) ==
    /\ row' = Upsert(st)
    /\ Observe(st)
    /\ said' = Append(said, st)

(***************************************************************************)
(* Pages                                                                   *)
(***************************************************************************)

InFlight == {w \in Writer : job[w].does = "page"}

(* A process fetches a page; what it read is of this moment, and it runs   *)
(* the software it was started with.                                       *)
Fetch(w) ==
    /\ Idle(w) /\ Len(raws) + Cardinality(InFlight) < MaxPages
    /\ \E stub \in (IF kind \in {"post", "account"} THEN BOOLEAN ELSE {FALSE}) :
          job' = [job EXCEPT ![w] = [does |-> "page", version |-> version, answer |->
                     [time |-> now, avail |-> source.avail, detail |-> source.detail,
                      stub |-> stub, version |-> version]]]
    /\ UNCHANGED <<now, version, source, rowVars, events>>

(* store_raw: each request of a run keeps a response of its own. *)
StoreRaw(raw) == raws' = Append(raws, raw)

(* The response and the records of the page, in one transaction. *)
WritePage(w) ==
    /\ job[w].does = "page"
    /\ StoreRaw(job[w].answer)
    /\ Write(Statement(job[w].answer, Len(raws) + 1, job[w].version))
    /\ job' = [job EXCEPT ![w] = Nothing]
    /\ UNCHANGED <<now, version, source, replays, kind, events>>

(***************************************************************************)
(* Replaying what was retained                                             *)
(***************************************************************************)

Replayed(r, v) == \E run \in replays : run.raw = r /\ run.version = v

(* Is the raw not replayed under this software yet?  That is read outside  *)
(* the transaction of the replay; nothing asks whether a raw that is named *)
(* is stale, as those are that plan_reprocess lists.                       *)
ReplayCheck(w) ==
    /\ Idle(w)
    /\ \E r \in DOMAIN raws :
          /\ ~ Replayed(r, version)
          /\ job' = [job EXCEPT ![w] = [does |-> "replay", version |-> version, raw |-> r]]
    /\ UNCHANGED <<now, version, source, rowVars, events>>

(* The run of a replay (_begin_run, _finish_run). *)
ReplayRun(r, v) == [raw |-> r, version |-> v, run |-> Cardinality(replays) + 1]

(* The run and its facts, which keep the time of the retained response. *)
ReplayWrite(w) ==
    /\ job[w].does = "replay"
    /\ LET r == job[w].raw IN
          /\ Write(Statement(raws[r], r, job[w].version))
          /\ replays' = replays \cup {ReplayRun(r, job[w].version)}
    /\ job' = [job EXCEPT ![w] = Nothing]
    /\ UNCHANGED <<now, version, source, raws, kind, events>>

(* The process dies, or the normalizer refuses the response: nothing of a  *)
(* page or of a replay is committed.                                       *)
Abandon(w) ==
    /\ ~ Idle(w)
    /\ job' = [job EXCEPT ![w] = Nothing]
    /\ UNCHANGED <<now, version, source, rowVars, events>>

(***************************************************************************)
(* The operator, the provider and the clock                                *)
(***************************************************************************)

(* tombstone_posts: nothing but the marks, and no time. *)
Tombstone ==
    /\ kind = "post" /\ row # None /\ row.detail # Marker /\ Event
    /\ row' = [row EXCEPT !.avail = "unavailable", !.detail = Marker]
    /\ said' = Append(said, [time |-> row.seen, avail |-> "unavailable",
                             detail |-> Marker, raw |-> 0])
    /\ UNCHANGED <<now, version, source, job, raws, replays, kind, history>>

(* _write_stub of an operator's seed, which observes no facts. *)
Seed ==
    /\ kind = "post" /\ Event
    /\ LET st == [time |-> now, avail |-> "unknown", detail |-> None, raw |-> Bundle] IN
          /\ row' = Upsert(st)
          /\ said' = Append(said, st)
    /\ UNCHANGED <<now, version, source, job, raws, replays, kind, history>>

Upgrade == version = 1 /\ version' = 2 /\ UNCHANGED <<now, source>>

SourceChanges ==
    /\ source' \in [avail : {"available", "deleted"}, detail : Detail \cup {None}] \ {source}
    /\ UNCHANGED <<now, version>>

World ==
    /\ Event /\ (Upgrade \/ SourceChanges)
    /\ UNCHANGED <<job, rowVars>>

Tick ==
    /\ now < MaxClock /\ now' = now + 1
    /\ UNCHANGED <<version, source, job, rowVars, events>>

RowStep ==
    /\ \/ \E w \in Writer : Fetch(w) \/ WritePage(w) \/ ReplayCheck(w) \/ ReplayWrite(w) \/ Abandon(w)
       \/ Tombstone \/ Seed \/ World \/ Tick
    /\ UNCHANGED tagVars

(***************************************************************************)
(* Tags: rows that have a name before they have an identifier              *)
(***************************************************************************)

RowsWith(field, value) == {i \in DOMAIN tags : tags[i][field] = value}

(* upsert_tag: a page of the post names its tags.                          *)
WritePostTag(w) ==
    /\ job[w].does = "post tags"
    /\ LET n == job[w].name
           found == RowsWith("name", n)
           i == IF found = {} THEN Len(tags) + 1 ELSE CHOOSE f \in found : TRUE
       IN /\ tags' = (IF found = {} THEN Append(tags, [id |-> None, name |-> n]) ELSE tags)
          /\ postTags' = postTags \cup {<<i, n>>}

(* upsert_tag_record: the row of the identifier is renamed, also by an     *)
(* older record; otherwise the row of the name gets the identifier.  A     *)
(* name that another row or identifier holds fails the page.               *)
WriteTagRecord(w) ==
    /\ job[w].does = "tag record"
    /\ LET t == job[w].tag
           n == job[w].name
           bound == RowsWith("id", t)
           taken == {i \in RowsWith("name", n) \ bound : bound # {} \/ tags[i].id # None}
           target == IF bound # {} THEN bound ELSE RowsWith("name", n)
       IN tags' = IF taken # {} THEN tags
                  ELSE IF target # {}
                  THEN [i \in DOMAIN tags |->
                           IF i \in target THEN [id |-> t, name |-> n] ELSE tags[i]]
                  ELSE Append(tags, [id |-> t, name |-> n])
    /\ UNCHANGED postTags

FetchTags(w) ==
    /\ Idle(w)
    /\ \E t \in Tag, does \in {"post tags", "tag record"} :
          job' = [job EXCEPT ![w] = [does |-> does, tag |-> t, name |-> tagSource[t]]]
    /\ UNCHANGED <<tags, postTags, tagSource, named, events>>

WriteTags(w) ==
    /\ WritePostTag(w) \/ WriteTagRecord(w)
    /\ job' = [job EXCEPT ![w] = Nothing]
    /\ UNCHANGED <<tagSource, named, events>>

(* The provider renames tags; a name that one gives up another may get. *)
TagsRenamed ==
    /\ Event
    /\ tagSource' \in Injection(Tag, Name) \ {tagSource}
    /\ named' = [t \in Tag |-> named[t] \cup {tagSource'[t]}]
    /\ UNCHANGED <<job, tags, postTags>>

TagStep ==
    /\ (\E w \in Writer : FetchTags(w) \/ WriteTags(w)) \/ TagsRenamed
    /\ UNCHANGED <<now, version, source, rowVars>>

RowsNext == RowStep \/ TagStep

RowsSpec == RowsInit /\ [][RowsNext]_rowsVars

(***************************************************************************)
(* Properties                                                              *)
(***************************************************************************)

RowsTypeOK ==
    /\ now \in 1..MaxClock /\ version \in 1..2 /\ events \in 0..MaxEvents
    /\ \A w \in Writer : job[w].does \in {"nothing", "page", "replay", "post tags", "tag record"}
    /\ Len(raws) <= MaxPages
    /\ row # None => row.seen \in 1..MaxClock /\ row.raw \in Bundle..Len(raws)
    /\ \A i, j \in DOMAIN tags : i # j =>
          tags[i].name # tags[j].name /\ (tags[i].id = None \/ tags[i].id # tags[j].id)
    /\ \A l \in postTags : l[1] \in DOMAIN tags

(* The row shows what the newest report said, in whatever order the pages, *)
(* the replays and the operator's marks arrive: its time is that of the    *)
(* newest, its availability is what that said last, and so is each fact    *)
(* that it reported (catalog.py:52, 143 and 318; remote_sync/reprocess.py). *)
ProjectionIsNewest ==
    row # None =>
        LET newest == {i \in DOMAIN said : said[i].time = row.seen}
            facts == {i \in newest : RowOf(said[i]).detail # None}
            responses == {i \in newest : RowOf(said[i]).raw # 0}
        IN /\ \A i \in DOMAIN said : said[i].time <= row.seen
           /\ newest # {} /\ row.avail = said[Max(newest)].avail
           /\ facts # {} => row.detail = said[Max(facts)].detail
           /\ responses # {} => row.raw = said[Max(responses)].raw

(* A fact once known is never erased by a report that omits it, and a      *)
(* declared claim never changes, whatever newer pages, older replays and   *)
(* later seeds say (the COALESCE of each column, catalog.py:115-425).      *)
NothingIsErased ==
    row # None =>
     /\ row'.detail = None => row.detail = None
     /\ row.claim # None => row'.claim = row.claim
     /\ row.raw # 0 => row'.raw # 0

(* To replay a response again under the same software adds nothing to the  *)
(* history: two processes may both find it not replayed yet and both       *)
(* complete a run, but the second one's observations are those of the      *)
(* first (reprocess.py:222, the check outside the transaction).            *)
SecondReplayAddsNothing ==
    \A run \in replays' \ replays : Replayed(run.raw, run.version) => history' = history

(* A tag's identifier, once bound to a row, stays bound to it, although    *)
(* the provider swaps names between tags and pages with old names arrive   *)
(* late; and the row only has names that the provider gave to that tag     *)
(* (metadata.py:147-235).                                                  *)
BindingSticks ==
    \A i \in DOMAIN tags :
     /\ tags[i].id # None => tags'[i].id = tags[i].id
     /\ tags'[i].id # None => tags'[i].name \in named'[tags'[i].id]

(* Reports only add: no order of pages, replays, swapped names and seeds   *)
(* takes away what an earlier one established.                             *)
ReportsOnlyAdd == NothingIsErased /\ SecondReplayAddsNothing /\ BindingSticks

OnlyNewsAdds == [][ReportsOnlyAdd]_rowsVars

=============================================================================
