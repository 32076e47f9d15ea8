------------------------------- MODULE PostText -------------------------------
(* What an operator fetches of one retained post or of one pool, outside   *)
(* of synchronization: the artist's commentary, the overlay notes           *)
(* (remote_sync/enrichment.py) and a pool's members (remote_sync/pools.py). *)
(* The run's row is committed, the provider is asked outside of any         *)
(* transaction, and the request, the raw report, the observations and the   *)
(* run's end are committed together.  Fetches of several processes          *)
(* interleave, answers are written in any order, and a process may be       *)
(* killed at any point.                                                     *)
EXTENDS Integers, Sequences, FiniteSetsExt

CONSTANTS
    Member,         \* native ids of posts of the platform
    Caption,        \* texts that are not blank and fit the rows
    Status,         \* the HTTP statuses of the model
    PoolDocument,   \* documents of a pool: [ours, members], the pool asked for or another
    TextDocument,   \* documents of commentary and of notes: entries [id, text]
    MaxTextRuns,    \* a bound of the model: fetches begun
    Blank, Long     \* a text of spaces, a text over the note rows' 10000 characters

ASSUME TextAssumption ==
    /\ MaxTextRuns \in Nat /\ Status \subseteq 100 .. 599
    /\ {Blank, Long} \cap Caption = {} /\ Blank \notin Member
    /\ \A d \in PoolDocument : d.ours \in BOOLEAN /\ d.members \in Seq(Member \cup {Blank})
    /\ TextDocument \subseteq Seq([id : {1, 2, Blank}, text : Caption \cup {Blank, Long}])

VARIABLES
    textClock,      \* the provider's clock
    retained,       \* the members whose posts are in the catalog
    textRun,        \* remote_runs of these operations in the order they begin, each with
                    \* the process that fetches it: [op, status, outcome, count, raw, pc, answer]
    poolRows,       \* pool_observations with their pool_member_observations
    memberships,    \* post_pool_observations: <<post, observed at>>
    textRows        \* post_commentary_observations and post_note_observations

textVars == <<textClock, retained, textRun, poolRows, memberships, textRows>>

TextOperation == {"fetch_pool", "fetch_commentary", "fetch_notes"}
NoAnswer == [status |-> 0, at |-> 0, document |-> <<>>]

TextInit ==
    /\ textClock = 0 /\ retained \in SUBSET Member
    /\ textRun = <<>> /\ poolRows = <<>> /\ memberships = {} /\ textRows = <<>>

(***************************************************************************)
(* What a provider answers                                                 *)
(***************************************************************************)

Document(op) == IF op = "fetch_pool" THEN PoolDocument ELSE TextDocument

(* _response_outcome *)
FetchOutcome(status) ==
    CASE status \in 200 .. 299 -> "success"
      [] status = 401 -> "authentication_required"
      [] status = 403 -> "authorization_denied"
      [] status = 404 -> "unavailable"
      [] status = 410 -> "deleted"
      [] status = 429 -> "rate_limited"
      [] status \in 500 .. 599 -> "transient_provider"
      [] OTHER -> "malformed_response"

(***************************************************************************)
(* Parsing, which accepts a document as a whole or not at all              *)
(***************************************************************************)

(* _parse_pool *)
PoolParses(d) == d.ours /\ \A i \in DOMAIN d.members : d.members[i] \in Member

(* parse_commentary: entries of another post reject the document.          *)
CommentaryParses(d) == \A i \in DOMAIN d : d[i].id = 1

(* parse_notes: an id that is none and a blank body reject the document.   *)
NotesParse(d) == \A i \in DOMAIN d : d[i].id # Blank /\ d[i].text # Blank

Parses(op, d) ==
    CASE op = "fetch_pool" -> PoolParses(d)
      [] op = "fetch_commentary" -> CommentaryParses(d)
      [] op = "fetch_notes" -> NotesParse(d)

\* The facts a document that parses states.  A blank commentary is absence,
\* and of several commentaries the first one counts.
TextFact(op, e) == [op |-> op, id |-> e.id, text |-> e.text]

TextFacts(op, d) ==
    LET told == {i \in DOMAIN d : d[i].text # Blank} IN
    IF op = "fetch_notes" THEN [i \in DOMAIN d |-> TextFact(op, d[i])]
    ELSE IF told = {} THEN <<>> ELSE <<TextFact(op, d[Min(told)])>>

(***************************************************************************)
(* Recording, inside the transaction that ends the run                     *)
(***************************************************************************)

(* The digest of a PoolObservationRecord, which leaves out the time.       *)
PoolDigest(members) == members

PoolKnown(members) == \E i \in DOMAIN poolRows : PoolDigest(poolRows[i].members) = PoolDigest(members)

(* record_pool_observation: the members that are retained are linked and   *)
(* given a membership of their own.                                        *)
RecordPool(members, at) ==
    IF PoolKnown(members) THEN UNCHANGED <<poolRows, memberships>>
    ELSE LET linked == {i \in DOMAIN members : members[i] \in retained} IN
         /\ poolRows' = Append(poolRows, [members |-> members, at |-> at, linked |-> linked])
         /\ memberships' = memberships \cup {<<members[i], at>> : i \in linked}

(* record_post_commentary and record_post_note, ON CONFLICT DO NOTHING on  *)
(* the digest of the facts.                                                *)
RecordFact(rows, fact) == IF \E i \in DOMAIN rows : rows[i] = fact THEN rows ELSE Append(rows, fact)

RecordFacts(facts) ==
    LET after[i \in 0 .. Len(facts)] ==
            IF i = 0 THEN textRows ELSE RecordFact(after[i - 1], facts[i])
    IN  after[Len(facts)]

(* Only rows that are new count as observations.                           *)
Inserted(facts) == Len(RecordFacts(facts)) - Len(textRows)

(* finish_remote_run *)
FinishTextRun(r, outcome, count, raw) ==
    textRun' = [textRun EXCEPT ![r].status = IF outcome = "success" THEN "complete" ELSE "failed",
                               ![r].outcome = outcome, ![r].count = count, ![r].raw = raw,
                               ![r].pc = "done", ![r].answer = NoAnswer]

(***************************************************************************)
(* fetch_pool and _enrich                                                  *)
(***************************************************************************)

(* The run's row, before the provider is asked.  Enrichment requires its   *)
(* post to be retained (_require_post); a pool needs none.                 *)
BeginFetch(op) ==
    /\ Len(textRun) < MaxTextRuns
    /\ op # "fetch_pool" => retained # {}
    /\ textRun' = Append(textRun, [op |-> op, status |-> "running", outcome |-> "none", count |-> 0,
                                   raw |-> NoAnswer, pc |-> "asking", answer |-> NoAnswer])
    /\ UNCHANGED <<textClock, retained, poolRows, memberships, textRows>>

\* An id that is Blank stands for one that is none.
(* The provider answers.                                                   *)
AskProvider(r) ==
    /\ textRun[r].pc = "asking"
    /\ \E status \in Status, tick \in 0 .. 1 :
       \E document \in IF FetchOutcome(status) = "success" THEN Document(textRun[r].op) ELSE {<<>>} :
          /\ textClock' = textClock + tick
          /\ textRun' = [textRun EXCEPT ![r].pc = "answered",
                 ![r].answer = [status |-> status, at |-> textClock + tick, document |-> document]]
    /\ UNCHANGED <<retained, poolRows, memberships, textRows>>

(* The adapter raises: the run ends as a local failure.                    *)
FetchRaises(r) ==
    /\ textRun[r].pc = "asking"
    /\ FinishTextRun(r, "local_persistence", 0, NoAnswer)
    /\ UNCHANGED <<textClock, retained, poolRows, memberships, textRows>>

\* What is made of the answer.
AnswerOutcome(r) ==
    LET outcome == FetchOutcome(textRun[r].answer.status) IN
    IF outcome = "success" /\ ~ Parses(textRun[r].op, textRun[r].answer.document)
    THEN "malformed_response" ELSE outcome
AnswerFacts(r) ==
    IF AnswerOutcome(r) = "success" /\ textRun[r].op # "fetch_pool"
    THEN TextFacts(textRun[r].op, textRun[r].answer.document) ELSE <<>>

\* A note whose body does not fit its row parses, and is refused by the
\* record's constructor inside the transaction.
TooLong(facts) == \E i \in DOMAIN facts : facts[i].op = "fetch_notes" /\ facts[i].text = Long

(* The transaction.                                                        *)
CommitFetch(r) ==
    LET facts == AnswerFacts(r)
        pool == textRun[r].op = "fetch_pool" /\ AnswerOutcome(r) = "success" IN
    /\ textRun[r].pc = "answered" /\ ~ TooLong(facts)
    /\ IF pool THEN RecordPool(textRun[r].answer.document.members, textRun[r].answer.at)
       ELSE UNCHANGED <<poolRows, memberships>>
    /\ textRows' = RecordFacts(facts)
    /\ FinishTextRun(r, AnswerOutcome(r), IF pool THEN 1 ELSE Inserted(facts), textRun[r].answer)
    /\ UNCHANGED <<textClock, retained>>

(* The transaction is rolled back, the error reaches the caller and the    *)
(* run stays as it was begun.                                              *)
RefuseFetch(r) ==
    /\ textRun[r].pc = "answered" /\ TooLong(AnswerFacts(r))
    /\ textRun' = [textRun EXCEPT ![r].pc = "refused"]
    /\ UNCHANGED <<textClock, retained, poolRows, memberships, textRows>>

(***************************************************************************)
(* Around them                                                             *)
(***************************************************************************)

(* A synchronization writes the post of a member.                          *)
RetainMember(n) ==
    /\ n \notin retained /\ retained' = retained \cup {n}
    /\ UNCHANGED <<textClock, textRun, poolRows, memberships, textRows>>

KillFetcher(r) ==
    /\ textRun[r].pc \in {"asking", "answered"}
    /\ textRun' = [textRun EXCEPT ![r].pc = "killed", ![r].answer = NoAnswer]
    /\ UNCHANGED <<textClock, retained, poolRows, memberships, textRows>>

TextStep ==
    \/ \E op \in TextOperation : BeginFetch(op)
    \/ \E r \in DOMAIN textRun :
          AskProvider(r) \/ FetchRaises(r) \/ CommitFetch(r) \/ RefuseFetch(r) \/ KillFetcher(r)
    \/ \E n \in Member : RetainMember(n)

TextSpec == TextInit /\ [][TextStep]_textVars

(***************************************************************************)
(* Properties                                                              *)
(***************************************************************************)

(* The rows are of their types, and a run that is over has its outcome.    *)
TextTypeOK ==
    /\ textClock \in 0 .. MaxTextRuns /\ retained \subseteq Member
    /\ \A r \in DOMAIN textRun :
          /\ textRun[r].op \in TextOperation /\ textRun[r].status \in {"running", "complete", "failed"}
          /\ textRun[r].count \in Nat
          /\ (textRun[r].status = "running") = (textRun[r].outcome = "none")
    /\ memberships \subseteq Member \X (0 .. textClock)
    /\ \A i \in DOMAIN poolRows : poolRows[i].at \in 0 .. textClock
    /\ \A i \in DOMAIN textRows : textRows[i].op \in TextOperation \ {"fetch_pool"}

\* What the raw report of a complete run says is among the observations.
StatedInRows(run) ==
    IF run.op = "fetch_pool"
    THEN \E i \in DOMAIN poolRows : poolRows[i].members = run.raw.document.members
    ELSE LET facts == TextFacts(run.op, run.raw.document) IN
         \A i \in DOMAIN facts : \E j \in DOMAIN textRows : textRows[j] = facts[i]

(* A run that ends complete has every fact of the report it retains in an  *)
(* observation: the pool with its members in the order reported, the       *)
(* caption and each note as they read, whichever fetches went before or    *)
(* beside it (records/metadata.py: a reordered pool is a new observation). *)
CompleteIsObserved ==
    \A r \in DOMAIN textRun : textRun[r].status = "complete" => StatedInRows(textRun[r])

\* What the enrichment runs count together.
CountedRows(rows) ==
    LET counted[r \in 0 .. Len(rows)] ==
            IF r = 0 THEN 0
            ELSE counted[r - 1] + IF rows[r].op = "fetch_pool" THEN 0 ELSE rows[r].count
    IN  counted[Len(rows)]

(* The counts of the enrichment runs add up to the observations there are: *)
(* a fact that is seen again, also by a fetch that was in flight at the    *)
(* same time, counts for the run that wrote it only (enrichment.py:14).    *)
CountsAreRows == CountedRows(textRun) = Len(textRows)

(* The two views of a pool agree: a member that is linked to its post has  *)
(* the membership seen from the post, and a post has no membership that no *)
(* observation of the pool states (record_pool_observation).               *)
ViewsAgree ==
    memberships = UNION {{<<poolRows[i].members[j], poolRows[i].at>> : j \in poolRows[i].linked}
                         : i \in DOMAIN poolRows}

(* What fetches of pools and texts report is observed, counted once, and   *)
(* seen alike from both of its ends.                                       *)
TextsAreTrue == CompleteIsObserved /\ CountsAreRows /\ ViewsAgree

===============================================================================
