----------------------------- MODULE RemoteSync -----------------------------
(***************************************************************************)
(* remote_sync/: bounded synchronization runs against a provider, with the *)
(* request gate, the budget, the retained responses and the checkpoints of *)
(* persistence/remote.py, and the single request runs of enrichment.py and *)
(* pools.py.                                                               *)
(*                                                                         *)
(* A post is its native id; newer posts have greater ids.  A page is the   *)
(* set of posts a listing returns.  A catalog transaction is one step: it  *)
(* happens as a whole or, when SQLite or a constraint refuses it, not at   *)
(* all.  Elapsed time is a flag that may rise at any moment.               *)
(***************************************************************************)
EXTENDS Naturals, Sequences, FiniteSets, FiniteSetsExt

CONSTANTS
    Process,        \* invocations of the command line
    InitialPosts,   \* what the provider lists at first: 1 .. InitialPosts
    MaxPost,        \* a bound of the model: the newest post there will be
    PageSize,       \* posts on a full page
    Limits,         \* the SyncLimits an operator may choose
    MaxChanges,     \* a bound of the model: posts published and removed
    MaxRetries,     \* maximum_retries
    MaxRuns,        \* a bound of the model
    None

ASSUME SyncAssumption ==
    /\ {InitialPosts, MaxPost, MaxChanges, MaxRetries, MaxRuns} \subseteq Nat
    /\ InitialPosts <= MaxPost
    /\ PageSize \in Nat \ {0}
    /\ Limits \subseteq [requests : Nat \ {0}, pages : Nat \ {0}, records : Nat \ {0}]
    /\ None \notin Nat \cup {"request", "page", "record", "time"}

VARIABLES
    paging,     \* how it pages: "keyset" (danbooru, e621) or "offset" (gelbooru)
    live,       \* the posts the provider lists
    gone,       \* the posts it no longer lists
    posts,      \* the posts of the catalog
    limits,     \* the limits of every run of a behaviour
    runs        \* remote_runs, with their checkpoint and retained responses

VARIABLES
    pc,         \* where an invocation stands
    run,        \* the run it executes
    cursor,     \* the continuation it is at
    spent,      \* BudgetTracker: requests, pages and records so far
    retries,    \* retries of the request it is at
    reply,      \* the response it got last
    ending,     \* how its run is to be finished
    late        \* its elapsed-time budget is used up

provider == <<paging, limits, live, gone>>
local == <<run, cursor, spent, retries, reply, ending>>
vars == <<provider, posts, runs, pc, local, late>>

Post == 1..MaxPost
Cursor == 0..MaxPost
NoSpending == [requests |-> 0, pages |-> 0, records |-> 0]
Spending == [requests : Nat, pages : Nat, records : Nat]
Reply == [kind : {"page"}, posts : SUBSET Post, next : Cursor \cup {None}]
            \cup [kind : {"busy", "refused"}]
Ending == [status : {"complete", "paused", "failed"},
           boundary : {"request", "page", "record", "time", None}]

(* since and removed are history: what the provider listed, and had        *)
(* removed, when the first run of a chain of resumed runs began; committed *)
(* is the number of pages the run brought into the catalog; killed is set  *)
(* when its invocation ended without finishing it.                         *)
Run == [kind : {"listing", "single"},
        status : {"running", "complete", "paused", "failed"},
        boundary : {"request", "page", "record", "time", None},
        counts : Spending, checkpoint : Cursor \cup {None}, retained : Nat,
        committed : Nat, killed : BOOLEAN,
        since : SUBSET Post, removed : SUBSET Post]

TypeOK ==
    /\ paging \in {"keyset", "offset"} /\ limits \in Limits
    /\ live \cup posts \subseteq Post /\ gone \subseteq Post
    /\ \A r \in DOMAIN runs : runs[r] \in Run
    /\ pc \in [Process -> {"idle", "next", "send", "retain", "admit", "commit",
                           "finish", "fetch", "record"}]
    /\ late \in [Process -> BOOLEAN]
    /\ \A p \in Process :
          /\ run[p] \in (DOMAIN runs) \cup {None}
          /\ cursor[p] \in Cursor \cup {None}
          /\ spent[p] \in Spending
          /\ retries[p] \in 0..MaxRetries
          /\ reply[p] \in Reply \cup {None}
          /\ ending[p] \in Ending \cup {None}

Init ==
    /\ paging \in {"keyset", "offset"} /\ limits \in Limits
    /\ live = 1..InitialPosts /\ gone = {} /\ posts = {} /\ runs = <<>>
    /\ pc = [p \in Process |-> "idle"]
    /\ run = [p \in Process |-> None]
    /\ cursor = [p \in Process |-> None]
    /\ spent = [p \in Process |-> NoSpending]
    /\ retries = [p \in Process |-> 0]
    /\ reply = [p \in Process |-> None]
    /\ ending = [p \in Process |-> None]
    /\ late = [p \in Process |-> FALSE]

Goto(p, label) == pc' = [pc EXCEPT ![p] = label]

Leave(p) ==
    /\ Goto(p, "idle")
    /\ run' = [run EXCEPT ![p] = None]
    /\ cursor' = [cursor EXCEPT ![p] = None]
    /\ spent' = [spent EXCEPT ![p] = NoSpending]
    /\ retries' = [retries EXCEPT ![p] = 0]
    /\ reply' = [reply EXCEPT ![p] = None]
    /\ ending' = [ending EXCEPT ![p] = None]
    /\ late' = [late EXCEPT ![p] = FALSE]

-----------------------------------------------------------------------------
(* The provider: a listing is ordered by descending id *)

Newer(q) == Cardinality({x \in live : x > q})

(* danbooru and e621 ask for the posts below an id, gelbooru for those     *)
(* that many full pages into the listing.                                  *)
KeysetPage(c) ==
    LET rest == {q \in live : c = None \/ q < c}
    IN  {q \in rest : Cardinality({x \in rest : x > q}) < PageSize}

OffsetPage(c) ==
    LET first == IF c = None THEN 0 ELSE c * PageSize
    IN  {q \in live : Newer(q) \in first .. first + PageSize - 1}

(* A keyset listing ends with an empty page, an offset listing with one    *)
(* that is not full.                                                       *)
KeysetContinuation(page) == IF page = {} THEN None ELSE Min(page)

(* Mutant: a full page is taken for the last one. *)
OffsetContinuationEarly(c, page) ==
    IF Cardinality(page) <= PageSize THEN None ELSE IF c = None THEN 1 ELSE c + 1

OffsetContinuation(c, page) ==
    IF Cardinality(page) < PageSize THEN None ELSE IF c = None THEN 1 ELSE c + 1

Listing(c) ==
    LET page == IF paging = "keyset" THEN KeysetPage(c) ELSE OffsetPage(c)
    IN  [kind |-> "page", posts |-> page,
         next |-> IF paging = "keyset" THEN KeysetContinuation(page)
                  ELSE OffsetContinuation(c, page)]

Changes == Cardinality(gone) + Cardinality((live \cup gone) \ 1..InitialPosts)

Publish ==
    /\ Changes < MaxChanges
    /\ live \cup gone # Post
    /\ live' = live \cup {Min(Post \ (live \cup gone))}
    /\ UNCHANGED <<paging, limits, gone, posts, runs, pc, local, late>>

Remove(q) ==
    /\ Changes < MaxChanges
    /\ q \in live
    /\ live' = live \ {q} /\ gone' = gone \cup {q}
    /\ UNCHANGED <<paging, limits, posts, runs, pc, local, late>>

-----------------------------------------------------------------------------
(* Runs *)

NewRun(kind, since, removed) ==
    [kind |-> kind, status |-> "running", boundary |-> None, counts |-> NoSpending,
     checkpoint |-> None, retained |-> 0, committed |-> 0, killed |-> FALSE,
     since |-> since, removed |-> removed]

(* begin_remote_run, in a transaction of its own. *)
Begin(p, record, from, label) ==
    /\ pc[p] = "idle"
    /\ Len(runs) < MaxRuns
    /\ runs' = Append(runs, record)
    /\ run' = [run EXCEPT ![p] = Len(runs) + 1]
    /\ cursor' = [cursor EXCEPT ![p] = from]
    /\ Goto(p, label)
    /\ UNCHANGED <<provider, posts, spent, retries, reply, ending, late>>

Synchronize(p) == Begin(p, NewRun("listing", live, gone), None, "next")

(* _resume_continuation refuses a run that is running or failed, and one   *)
(* that has no checkpoint of its own.  What it reads of a finished run     *)
(* never changes, so it is one step with the begin of the new run.         *)
Resumable(r) == runs[r].status \in {"paused", "complete"} /\ runs[r].checkpoint # None

Resume(p, r) ==
    /\ Resumable(r)
    /\ Begin(p, NewRun("listing", runs[r].since, runs[r].removed), runs[r].checkpoint, "next")

-----------------------------------------------------------------------------
(* The executor *)

(* The call unwinds to synchronize(): of its state only the counts are     *)
(* used any more.                                                          *)
Finishing(p, status, boundary) ==
    /\ ending' = [ending EXCEPT ![p] = [status |-> status, boundary |-> boundary]]
    /\ cursor' = [cursor EXCEPT ![p] = None]
    /\ retries' = [retries EXCEPT ![p] = 0]
    /\ reply' = [reply EXCEPT ![p] = None]
    /\ Goto(p, "finish")

request == <<cursor, retries, reply, ending>>

(* Before a continuation is requested, pages and records must be left. *)
Exhausted(p) ==
    /\ pc[p] = "next"
    /\ cursor[p] # None
    /\ \/ spent[p].pages >= limits.pages /\ Finishing(p, "paused", "page")
       \/ /\ spent[p].pages < limits.pages
          /\ spent[p].records >= limits.records
          /\ Finishing(p, "paused", "record")
    /\ UNCHANGED <<provider, posts, runs, run, spent, late>>

NextPage(p) ==
    /\ pc[p] = "next"
    /\ \/ cursor[p] = None
       \/ spent[p].pages < limits.pages /\ spent[p].records < limits.records
    /\ Goto(p, "send")
    /\ UNCHANGED <<provider, posts, runs, run, spent, request, late>>

(* reserve_request; _pace gives up a little earlier, when the wait would   *)
(* use up the time that is left.                                           *)
ReserveRefused(p) ==
    /\ pc[p] = "send"
    /\ \/ late[p] /\ Finishing(p, "paused", "time")
       \/ /\ ~late[p]
          /\ spent[p].requests >= limits.requests
          /\ Finishing(p, "paused", "request")
    /\ UNCHANGED <<provider, posts, runs, run, spent, late>>

Reserve(p) ==
    /\ pc[p] = "send"
    /\ ~late[p]
    /\ spent[p].requests < limits.requests
    /\ spent' = [spent EXCEPT ![p].requests = @ + 1]

(* fetch: a page as the provider lists it now, a status worth a retry *)
(* (429 and 5xx), or one that normalize() raises AdapterFailure for.       *)
Fetch(p) ==
    /\ Reserve(p)
    /\ \E r \in [kind : {"busy", "refused"}]
                  \cup {Listing(cursor[p])} :
          reply' = [reply EXCEPT ![p] = r]
    /\ Goto(p, "retain")
    /\ UNCHANGED <<provider, posts, runs, run, cursor, retries, ending, late>>

(* No response: the adapter raised. *)
FetchFails(p) ==
    /\ Reserve(p)
    /\ Finishing(p, "failed", None)
    /\ UNCHANGED <<provider, posts, runs, run, late>>

(* record_remote_request and store_raw: the row of an attempt and its raw  *)
(* observation.                                                            *)
Retained(record) == [record EXCEPT !.retained = @ + 1]

(* Mutant: retries are bounded by the request budget alone. *)
CanRetryUnbounded(p) == spent[p].requests < limits.requests /\ ~late[p]

CanRetry(p) == retries[p] < MaxRetries /\ spent[p].requests < limits.requests /\ ~late[p]

(* _retain_response: the request row and the raw observation are written   *)
(* before the response is looked at.  A busy response is requested again   *)
(* while the gate allows it and its delay fits the time left.              *)
Retain(p) ==
    /\ pc[p] = "retain"
    /\ runs' = [runs EXCEPT ![run[p]] = Retained(@)]
    /\ \/ /\ reply[p].kind = "page"
          /\ Goto(p, "admit")
          /\ UNCHANGED request
       \/ /\ reply[p].kind = "busy" /\ CanRetry(p)
          /\ retries' = [retries EXCEPT ![p] = @ + 1]
          /\ reply' = [reply EXCEPT ![p] = None]
          /\ Goto(p, "send")
          /\ UNCHANGED <<cursor, ending>>
       \/ /\ reply[p].kind # "page"
          /\ Finishing(p, "failed", None)
    /\ UNCHANGED <<provider, posts, run, spent, late>>

RetainFails(p) ==
    /\ pc[p] = "retain"
    /\ Finishing(p, "failed", None)
    /\ UNCHANGED <<provider, posts, runs, run, spent, late>>

-----------------------------------------------------------------------------
(* Admission and commit of a page *)

Admitted(p) ==
    /\ ~late[p]
    /\ spent[p].pages < limits.pages
    /\ spent[p].records + Cardinality(reply[p].posts) <= limits.records

AdmitBoundary(p) ==
    IF late[p] THEN "time" ELSE IF spent[p].pages >= limits.pages THEN "page" ELSE "record"

Admit(p) ==
    /\ pc[p] = "admit"
    /\ \/ Admitted(p) /\ Goto(p, "commit") /\ UNCHANGED request
       \/ ~Admitted(p) /\ Finishing(p, "paused", AdmitBoundary(p))
    /\ UNCHANGED <<provider, posts, runs, run, spent, late>>

PageSpent(p) ==
    [spent[p] EXCEPT !.pages = @ + 1, !.records = @ + Cardinality(reply[p].posts)]

(* What _commit_page leaves of the run: the last page has no continuation  *)
(* and leaves the checkpoint of the page before it.                        *)
WithPage(record, next) ==
    [record EXCEPT !.committed = @ + 1,
                   !.checkpoint = IF next = None THEN @ ELSE next]

(* _commit_page: the page, the budget and the checkpoint are one           *)
(* transaction; the executor then goes on while there is a continuation.   *)
Commit(p) ==
    /\ pc[p] = "commit"
    /\ Admitted(p)
    /\ posts' = posts \cup reply[p].posts
    /\ spent' = [spent EXCEPT ![p] = PageSpent(p)]
    /\ runs' = [runs EXCEPT ![run[p]] = WithPage(@, reply[p].next)]
    /\ \/ /\ reply[p].next # None
          /\ cursor' = [cursor EXCEPT ![p] = reply[p].next]
          /\ retries' = [retries EXCEPT ![p] = 0]
          /\ reply' = [reply EXCEPT ![p] = None]
          /\ Goto(p, "next")
          /\ UNCHANGED ending
       \/ reply[p].next = None /\ Finishing(p, "complete", None)
    /\ UNCHANGED <<provider, run, late>>

(* The transaction admits the page again: time may have run out. *)
CommitLate(p) ==
    /\ pc[p] = "commit"
    /\ ~Admitted(p)
    /\ Finishing(p, "paused", AdmitBoundary(p))
    /\ UNCHANGED <<provider, posts, runs, run, spent, late>>

(* Mutant: the checkpoint is saved in a transaction before the page's. *)
CommitFailsCheckpointed(p) ==
    /\ pc[p] = "commit"
    /\ Admitted(p)
    /\ runs' = [runs EXCEPT ![run[p]].checkpoint = reply[p].next]
    /\ Finishing(p, "paused", "time")
    /\ UNCHANGED <<provider, posts, run, spent, late>>

(* The transaction is rolled back: the budget has counted the page when    *)
(* the checkpoint or the commit fails, and has not when a row of the page  *)
(* does.                                                                   *)
CommitFails(p) ==
    /\ pc[p] = "commit"
    /\ \/ UNCHANGED spent
       \/ Admitted(p) /\ spent' = [spent EXCEPT ![p] = PageSpent(p)]
    /\ Finishing(p, "failed", None)
    /\ UNCHANGED <<provider, posts, runs, run, late>>

(* finish_remote_run *)
Finished(record, status, boundary, counts) ==
    [record EXCEPT !.status = status, !.boundary = boundary, !.counts = counts]

(* Mutant: a failed run is not finished. *)
FinishUnlessFailed(p) ==
    /\ pc[p] = "finish"
    /\ runs' = IF ending[p].status = "failed" THEN runs
               ELSE [runs EXCEPT ![run[p]] =
                        Finished(@, ending[p].status, ending[p].boundary, spent[p])]
    /\ Leave(p)
    /\ UNCHANGED <<provider, posts>>

Finish(p) ==
    /\ pc[p] = "finish"
    /\ runs[run[p]].status = "running"
    /\ runs' = [runs EXCEPT ![run[p]] =
                    Finished(@, ending[p].status, ending[p].boundary, spent[p])]
    /\ Leave(p)
    /\ UNCHANGED <<provider, posts>>

-----------------------------------------------------------------------------
(* One request: _enrich, fetch_pool *)

EnrichBegin(p) == Begin(p, NewRun("single", {}, {}), None, "fetch")

(* The adapter raises: a transaction finishes the run with nothing counted. *)
EnrichRaises(p) ==
    /\ pc[p] = "fetch"
    /\ Finishing(p, "failed", None)
    /\ UNCHANGED <<provider, posts, runs, run, spent, late>>

EnrichFetch(p) ==
    /\ pc[p] = "fetch"
    /\ \E r \in [kind : {"busy", "refused"}] \cup
                {[kind |-> "page", posts |-> {}, next |-> None]} :
          reply' = [reply EXCEPT ![p] = r]
    /\ Goto(p, "record")
    /\ UNCHANGED <<provider, posts, runs, run, cursor, spent, retries, ending, late>>

(* Request, raw response, observation and finish are one transaction. *)
EnrichRecord(p) ==
    /\ pc[p] = "record"
    /\ runs' = [runs EXCEPT ![run[p]] =
                    Finished(Retained(@), IF reply[p].kind = "page" THEN "complete" ELSE "failed",
                             None, [requests |-> 1, pages |-> 1, records |-> 0])]
    /\ Leave(p)
    /\ UNCHANGED <<provider, posts>>

-----------------------------------------------------------------------------
(* Time passes; an invocation is killed, or its last transaction fails: in *)
(* both cases its run stays 'running'.                                     *)

Expire(p) ==
    /\ pc[p] \in {"send", "retain", "admit", "commit"}   \* where the clock is read
    /\ ~late[p]
    /\ late' = [late EXCEPT ![p] = TRUE]
    /\ UNCHANGED <<provider, posts, runs, pc, local>>

Kill(p) ==
    /\ pc[p] # "idle"
    /\ runs' = [runs EXCEPT ![run[p]].killed = TRUE]
    /\ Leave(p)
    /\ UNCHANGED <<provider, posts>>

BetweenCommits(p) ==
    \/ Exhausted(p) \/ NextPage(p)
    \/ ReserveRefused(p) \/ Fetch(p) \/ FetchFails(p)
    \/ Retain(p) \/ RetainFails(p)
    \/ Admit(p) \/ CommitLate(p) \/ CommitFails(p)
    \/ Finish(p)
    \/ EnrichRaises(p) \/ EnrichFetch(p) \/ EnrichRecord(p)

Step(p) == BetweenCommits(p) \/ Commit(p)

Next ==
    \/ Publish
    \/ \E q \in Post : Remove(q)
    \/ \E p \in Process :
          \/ Synchronize(p) \/ EnrichBegin(p)
          \/ \E r \in DOMAIN runs : Resume(p, r)
          \/ Step(p) \/ Expire(p) \/ Kill(p)

(* An invocation that is not killed keeps executing: requests time out,    *)
(* sleeps end and SQLite answers.                                          *)
Spec == Init /\ [][Next]_vars /\ \A p \in Process : WF_vars(Step(p))

-----------------------------------------------------------------------------
(* Properties *)

(* Nothing was removed from the listing since the chain of r began: what   *)
(* an offset listing needs for its pages not to skip a post.               *)
Undisturbed(r) == paging = "keyset" \/ gone = runs[r].removed

(* A checkpoint is never ahead of the catalog: every post at or above it   *)
(* that the provider listed all along is stored, whatever was killed,      *)
(* rolled back and resumed on the way (service.py:257-289).                *)
CheckpointCovered ==
    \A r \in DOMAIN runs :
        paging = "keyset" /\ runs[r].checkpoint # None =>
            \A q \in runs[r].since \cap live : q >= runs[r].checkpoint => q \in posts

(* A listing reported complete, over as many resumed runs as it took, has  *)
(* stored every post that the provider listed from its first request to    *)
(* its end; by offset only if nothing was removed meanwhile.               *)
CompleteCovers ==
    \A r \in DOMAIN runs :
        runs[r].kind = "listing" /\ runs[r].status = "complete" /\ Undisturbed(r) =>
            runs[r].since \cap live \subseteq posts

(* The counts of a finished run agree with what it left in the catalog:    *)
(* every page is counted once, but for a failed run that may have counted  *)
(* the page its last transaction rolled back; every counted page has its   *)
(* retained response, and every response its counted request.              *)
CountsAgree ==
    \A r \in DOMAIN runs :
        LET record == runs[r] IN
        record.status # "running" /\ record.kind = "listing" =>
            /\ record.committed <= record.retained
            /\ record.retained <= record.counts.requests
            /\ record.counts.requests <= limits.requests
            /\ record.counts.pages <= limits.pages /\ record.counts.records <= limits.records
            /\ \/ record.counts.pages = record.committed
               \/ record.status = "failed" /\ record.counts.pages = record.committed + 1

(* A paused run that stored a page can be resumed.  One that paused before *)
(* its first page cannot: its checkpoint is that of the run before it.     *)
PausedResumable ==
    \A r \in DOMAIN runs :
        runs[r].status = "paused" /\ runs[r].committed > 0 => Resumable(r)

(* Pausing for records without having stored a page means a page that no   *)
(* budget of this size can ever admit.                                     *)
PauseIsProgress ==
    \A r \in DOMAIN runs :
        runs[r].boundary = "record" /\ runs[r].committed = 0 => PageSize > limits.records

(* A checkpoint can be relied on: it has been reached, and it leads on.    *)
CheckpointStands == CheckpointCovered /\ PausedResumable

(* How a run ended is true of the catalog: what it says is complete, what  *)
(* it counted, and that a budget, not a page, made it pause.               *)
RunReportIsTrue == CompleteCovers /\ CountsAgree /\ PauseIsProgress

(* A run that is not killed ends, and its row says how. *)
RunEnds ==
    \A r \in 1..MaxRuns :
        (\E p \in Process : run[p] = r) ~>
            r \in DOMAIN runs /\ (runs[r].status # "running" \/ runs[r].killed)

=============================================================================
