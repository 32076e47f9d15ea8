--------------------------- MODULE RemoteTransfer ---------------------------
(***************************************************************************)
(* acquisition/transfer.py: the attempts of HTTPTransferEngine.transfer    *)
(* for one plan item, over the runs that execute and retry the item, with  *)
(* the partial row _DurableTransferState keeps between them.               *)
(*                                                                         *)
(* A representation is what the provider holds under one URL at one time.  *)
(* A chunk is the representation and the place in it that its bytes came   *)
(* from, so a file that combines two representations is visible as such.   *)
(* ManagedCas models what storage does with the same sessions; here the    *)
(* root lock is held, and a run that follows another one is a retry of it. *)
(***************************************************************************)
EXTENDS Naturals, Sequences

CONSTANTS
    Request,        \* request identities: policy, occurrence, variant and URL
    Version,        \* representations
    Resource,       \* the request a representation answers
    Size,           \* its length, in chunks
    Etag,           \* its validator; NoTag if it has none or a weak one
    NoTag,
    ErrorTags,      \* validators that error responses may carry
    MaxItemBytes,   \* AcquisitionLimits.max_item_bytes
    MaxTotalBytes,  \* AcquisitionLimits.max_total_bytes
    MaxAttempts,    \* AcquisitionLimits.max_attempts_per_item
    MaxRuns,        \* how many times the item is executed (a bound of the model)
    None

ASSUME VersionAssumption ==
    /\ Resource \in [Version -> Request]
    /\ Size \in [Version -> Nat \ {0}]
    /\ {MaxItemBytes, MaxTotalBytes, MaxAttempts, MaxRuns} \subseteq Nat \ {0}

(* A strong validator names one representation of its resource. *)
ASSUME ValidatorAssumption ==
    \A v, w \in Version :
        Resource[v] = Resource[w] /\ Etag[v] = Etag[w] /\ Etag[v] # NoTag => v = w

VARIABLES
    current,    \* per request, the representation the provider holds
    partial,    \* the active row of the item, or None
    file,       \* the bytes in the staging file the row names
    item,       \* what the run item says: its state and whether it is retryable
    runs,       \* executions so far
    reported    \* response_size of the item's last attempt row, or None

VARIABLES
    pc,         \* where transfer() stands
    recipe,     \* the request identity of this run
    attempt,    \* attempt_number
    used,       \* TransferBudget.used_bytes
    stop,       \* cancelled, or past the deadline
    resume,     \* current_resume
    active,     \* active_resume
    session,    \* the open staging session, or None
    response,   \* the response of this attempt, or None
    failure,    \* outcome and retryability of the attempt
    tracked,    \* _DurableTransferState.partial_record is not None
    staged      \* the finalized file

provider == <<current>>
durable == <<partial, file, item, runs, reported>>
engine == <<pc, recipe, attempt, used, stop, resume, active, session, response, failure,
            tracked, staged>>
vars == <<provider, durable, engine>>

Tag == {Etag[v] : v \in Version} \cup ErrorTags

(* What a row or a ResumeState says of its partial.  relabelled is history:*)
(* the validator came with an error response, after the bytes.             *)
ResumeState ==
    [request : Request, size : 1..MaxItemBytes, tag : Tag \ {NoTag},
     total : Nat \cup {None}, relabelled : BOOLEAN]

Bytes == Seq(Version \X Nat)

(* A staging session: its bytes, and whether it appends to the row's file. *)
SessionState == [bytes : Bytes, onRow : BOOLEAN]

(* A response: its validator, the length it declares, and the place in the *)
(* representation that its body goes on from; an error carries none.       *)
ResponseState ==
    [tag : Tag \cup {NoTag}, total : Nat \cup {None}, version : Version \cup {None},
     next : Nat]

ASSUME NoneAssumption ==
    None \notin ResumeState \cup SessionState \cup ResponseState \cup Version \cup Nat

Outcome == {"none", "timeout", "transient", "provider", "source_changed", "too_large",
            "budget_exhausted", "limit", "integrity"}

TypeOK ==
    /\ current \in [Request -> Version]
    /\ partial \in ResumeState \cup {None}
    /\ file \in Bytes /\ Len(file) <= MaxItemBytes
    /\ item \in [state : {"pending", "complete", "failed", "interrupted"},
                 outcome : Outcome, retryable : BOOLEAN]
    /\ runs \in 0..MaxRuns
    /\ reported \in Nat \cup {None}
    /\ pc \in {"idle", "control", "send", "check", "body", "failed", "raised", "ended",
               "staged"}
    /\ recipe \in Request
    /\ attempt \in 1..MaxAttempts
    /\ used \in 0..MaxTotalBytes
    /\ {stop, tracked} \subseteq BOOLEAN
    /\ {resume, active} \subseteq ResumeState \cup {None}
    /\ session \in SessionState \cup {None}
    /\ session # None => Len(session.bytes) <= MaxItemBytes
    /\ response \in ResponseState \cup {None}
    /\ failure \in [outcome : Outcome, retryable : BOOLEAN]
    /\ staged \in Bytes

NoFailure == [outcome |-> "none", retryable |-> FALSE]

Init ==
    /\ current \in {c \in [Request -> Version] : \A q \in Request : Resource[c[q]] = q}
    /\ partial = None /\ file = <<>>
    /\ item = [state |-> "pending", outcome |-> "none", retryable |-> FALSE]
    /\ runs = 0 /\ reported = None
    /\ pc = "idle"
    /\ recipe \in Request
    /\ attempt = 1 /\ used = 0
    /\ stop = FALSE /\ tracked = FALSE
    /\ resume = None /\ active = None /\ session = None /\ response = None
    /\ failure = NoFailure
    /\ staged = <<>>

-----------------------------------------------------------------------------
(* Runs *)

(* retry() pairs the active row with the response_size of the last attempt *)
(* row, whichever response that one is about; ResumeState raises if it is  *)
(* smaller than the partial.                                               *)
RetryAccepted == partial # None /\ reported # None => reported >= partial.size

(* execute() or retry(): the active row becomes the ResumeState of the     *)
(* first attempt.  The URL, and with it the request identity, may have     *)
(* changed since the row was written.                                      *)
Execute(q) ==
    /\ pc = "idle"
    /\ item.state # "complete"
    /\ RetryAccepted
    /\ runs < MaxRuns
    /\ runs' = runs + 1
    /\ recipe' = q
    /\ attempt' = 1 /\ used' = 0 /\ stop' = FALSE
    /\ resume' = IF partial = None THEN None ELSE [partial EXCEPT !.total = reported]
    /\ reported' = None
    /\ tracked' = (partial # None)
    /\ active' = None /\ session' = None /\ response' = None
    /\ failure' = NoFailure /\ staged' = <<>>
    /\ pc' = "control"
    /\ UNCHANGED <<provider, partial, file, item>>

(* The deadline passes, or the user cancels. *)
Stop ==
    /\ pc \notin {"idle", "ended", "staged"}
    /\ ~ stop
    /\ stop' = TRUE
    /\ UNCHANGED <<provider, durable, pc, recipe, attempt, used, resume, active, session,
                   response, failure, tracked, staged>>

(* The provider replaces what it holds under a URL. *)
ServerChanges(q, v) ==
    /\ Resource[v] = q
    /\ v # current[q]
    /\ current' = [current EXCEPT ![q] = v]
    /\ UNCHANGED <<durable, engine>>

(* execute() does not finish; recover_interrupted() closes the run item    *)
(* when the next retry starts.  Bytes a resumed session appended stay in   *)
(* the file its row names.                                                 *)
Unfinished ==
    /\ file' = IF session # None /\ session.onRow THEN session.bytes ELSE file
    /\ item' = [state |-> "interrupted", outcome |-> "none", retryable |-> TRUE]
    /\ pc' = "idle"
    /\ resume' = None /\ active' = None /\ session' = None /\ response' = None
    /\ failure' = NoFailure /\ tracked' = FALSE /\ staged' = <<>>
    /\ UNCHANGED <<provider, partial, runs, reported, recipe, attempt, used, stop>>

(* The process is killed. *)
Crash == pc # "idle" /\ Unfinished

(* An exception leaves execute(). *)
Unwind == pc = "raised" /\ Unfinished

-----------------------------------------------------------------------------
(* One attempt: opening the session *)

Fail(outcome, retryable) ==
    /\ failure' = [outcome |-> outcome, retryable |-> retryable]
    /\ pc' = "failed"

NewSession == [bytes |-> <<>>, onRow |-> FALSE]

(* The row of a running attempt has the response_size of its ResumeState. *)
RecordRunning == reported' = IF resume = None THEN None ELSE resume.total

(* _check_control before the session exists. *)
ControlStops ==
    /\ pc = "control"
    /\ stop
    /\ Fail("timeout", TRUE)
    /\ RecordRunning
    /\ UNCHANGED <<provider, partial, file, item, runs, recipe, attempt, used, stop, resume,
                   active, session, response, tracked, staged>>

(* reopen_remote_staging: the file still is the recorded prefix. *)
PrefixIntact == Len(file) = resume.size

(* _open_session without a ResumeState, or with one of another request,    *)
(* whose file is finalized and left behind.                                *)
OpenFresh ==
    /\ pc = "control" /\ ~ stop
    /\ \/ resume = None
       \/ resume # None /\ resume.request # recipe /\ PrefixIntact
    /\ session' = NewSession
    /\ active' = None
    /\ pc' = "send"
    /\ RecordRunning
    /\ UNCHANGED <<provider, partial, file, item, runs, recipe, attempt, used, stop, resume,
                   response, failure, tracked, staged>>

OpenResumed ==
    /\ pc = "control" /\ ~ stop
    /\ resume # None
    /\ resume.request = recipe
    /\ PrefixIntact
    /\ session' = [bytes |-> file, onRow |-> TRUE]
    /\ active' = resume
    /\ pc' = "send"
    /\ RecordRunning
    /\ UNCHANGED <<provider, partial, file, item, runs, recipe, attempt, used, stop, resume,
                   response, failure, tracked, staged>>

(* Mutant: a refused prefix is opened again, without an end to the attempt. *)
OpenRefusedRetrying ==
    /\ pc = "control" /\ ~ stop
    /\ resume # None
    /\ ~ PrefixIntact
    /\ UNCHANGED vars

(* StorageIntegrityError: the recorded prefix is not what the file holds. *)
OpenRefused ==
    /\ pc = "control" /\ ~ stop
    /\ resume # None
    /\ ~ PrefixIntact
    /\ Fail("integrity", FALSE)
    /\ RecordRunning
    /\ UNCHANGED <<provider, partial, file, item, runs, recipe, attempt, used, stop, resume,
                   active, session, response, tracked, staged>>

-----------------------------------------------------------------------------
(* One attempt: the response *)

(* No response: transport error, timeout or stop (retryable), missing      *)
(* credentials or a redirect the policy forbids (not).                     *)
SendFails(retryable) ==
    /\ pc = "send"
    /\ Fail(IF retryable THEN "transient" ELSE "provider", retryable)
    /\ UNCHANGED <<provider, durable, recipe, attempt, used, stop, resume, active, session,
                   response, tracked, staged>>

(* A status that classify_status does not call a success. *)
ErrorResponse(tag, retryable) ==
    /\ pc = "send"
    /\ response' = [tag |-> tag, total |-> None, version |-> None, next |-> 0]
    /\ Fail(IF retryable THEN "transient" ELSE "provider", retryable)
    /\ UNCHANGED <<provider, durable, recipe, attempt, used, stop, resume, active, session,
                   tracked, staged>>

(* Mutant: a full response does not end the resumption. *)
FullResponseStillActive(sized) ==
    /\ pc = "send"
    /\ LET v == current[recipe]
       IN  response' = [tag |-> Etag[v], total |-> IF sized THEN Size[v] ELSE None,
                        version |-> v, next |-> 1]
    /\ session' = IF active = None THEN session ELSE NewSession
    /\ pc' = "check"
    /\ UNCHANGED <<provider, durable, recipe, attempt, used, stop, resume, active, failure,
                   tracked, staged>>

(* 200: the whole representation, from byte zero, with or without a        *)
(* Content-Length.  A resumed session is left for a new one.               *)
FullResponse(sized) ==
    /\ pc = "send"
    /\ LET v == current[recipe]
       IN  response' = [tag |-> Etag[v], total |-> IF sized THEN Size[v] ELSE None,
                        version |-> v, next |-> 1]
    /\ session' = IF active = None THEN session ELSE NewSession
    /\ active' = None
    /\ pc' = "check"
    /\ UNCHANGED <<provider, durable, recipe, attempt, used, stop, resume, failure, tracked,
                   staged>>

(* What remains of the representation, from where the response stands. *)
Left == Size[response.version] + 1 - response.next

(* A 206 that was asked for, carries the validator of the partial, starts  *)
(* where the partial ends and goes to the end.                             *)
RangeMatches(v, first, toEnd) ==
    /\ active # None
    /\ Etag[v] = active.tag
    /\ first = Len(session.bytes) + 1
    /\ toEnd

(* Mutant: the validator of a 206 is not compared. *)
RangeAcceptedAnyTag(v, first, toEnd) ==
    /\ active # None
    /\ first = Len(session.bytes) + 1
    /\ toEnd
    /\ active.total \in {None, Size[v]}

(* It also has to be of a representation as long as the recorded one. *)
RangeAccepted(v, first, toEnd) ==
    /\ RangeMatches(v, first, toEnd)
    /\ active.total \in {None, Size[v]}

(* 206: the representation from some offset on, the requested one or not,  *)
(* to its end or not.                                                      *)
RangeResponse(first, toEnd) ==
    LET v == current[recipe]
        answer(total) == [tag |-> Etag[v], total |-> total, version |-> v, next |-> first]
    IN  /\ pc = "send"
        /\ first <= Size[v]
        /\ \/ /\ RangeAccepted(v, first, toEnd)
              /\ response' = answer(Size[v])
              /\ pc' = "check"
              /\ UNCHANGED failure
           \/ /\ ~ RangeAccepted(v, first, toEnd)
              /\ response' = answer(IF RangeMatches(v, first, toEnd) THEN Size[v] ELSE None)
              /\ Fail(IF active = None THEN "provider" ELSE "source_changed", FALSE)
        /\ UNCHANGED <<provider, durable, recipe, attempt, used, stop, resume, active,
                       session, tracked, staged>>

(* What is left of the response does not fit the item or the run limit. *)
TooLarge == response.total # None /\ response.total > MaxItemBytes

OverBudget == response.total # None /\ Left > MaxTotalBytes - used

(* The content type is refused, or the declared length is over a limit. *)
RejectResponse ==
    /\ pc = "check"
    /\ \/ Fail("provider", FALSE)
       \/ TooLarge /\ Fail("too_large", FALSE)
       \/ ~ TooLarge /\ OverBudget /\ Fail("budget_exhausted", TRUE)
    /\ UNCHANGED <<provider, durable, recipe, attempt, used, stop, resume, active, session,
                   response, tracked, staged>>

AcceptResponse ==
    /\ pc = "check"
    /\ ~ TooLarge /\ ~ OverBudget
    /\ pc' = "body"
    /\ UNCHANGED <<provider, durable, recipe, attempt, used, stop, resume, active, session,
                   response, failure, tracked, staged>>

-----------------------------------------------------------------------------
(* One attempt: the body *)

(* Mutant: the item limit is compared after the write. *)
ChunkBeforeLimit ==
    /\ pc = "body"
    /\ Left > 0
    /\ ~ stop
    /\ used < MaxTotalBytes
    /\ used' = used + 1
    /\ session' = [session EXCEPT !.bytes = Append(@, <<response.version, response.next>>)]
    /\ response' = [response EXCEPT !.next = @ + 1]
    /\ \/ Len(session.bytes) <= MaxItemBytes /\ UNCHANGED <<pc, failure>>
       \/ Len(session.bytes) > MaxItemBytes /\ Fail("limit", FALSE)
    /\ UNCHANGED <<provider, durable, recipe, attempt, stop, resume, active, tracked, staged>>

(* One chunk: control check, charge, write. *)
Chunk ==
    /\ pc = "body"
    /\ Left > 0
    /\ ~ stop
    /\ used < MaxTotalBytes
    /\ used' = used + 1
    /\ \/ /\ Len(session.bytes) < MaxItemBytes
          /\ session' = [session EXCEPT !.bytes = Append(@, <<response.version, response.next>>)]
          /\ response' = [response EXCEPT !.next = @ + 1]
          /\ UNCHANGED <<pc, failure>>
       \/ /\ Len(session.bytes) = MaxItemBytes
          /\ Fail("limit", FALSE)
          /\ UNCHANGED <<session, response>>
    /\ UNCHANGED <<provider, durable, recipe, attempt, stop, resume, active, tracked, staged>>

(* The body is cut: by the network, the deadline, a cancellation, or the   *)
(* run budget.  A body of no declared length can break after its last      *)
(* chunk.                                                                  *)
BodyBreaks ==
    /\ pc = "body"
    /\ \/ /\ Left > 0 \/ response.total = None
          /\ Fail("transient", TRUE)
       \/ /\ Left > 0 /\ stop
          /\ Fail("timeout", TRUE)
       \/ /\ Left > 0 /\ ~ stop /\ used = MaxTotalBytes
          /\ Fail("budget_exhausted", TRUE)
    /\ UNCHANGED <<provider, durable, recipe, attempt, used, stop, resume, active, session,
                   response, tracked, staged>>

(* The length checks after the last chunk. *)
LengthOK == response.total # None => Len(session.bytes) = response.total

(* The body ends in order, possibly before its declared end.  A download   *)
(* may be staged before its attempt row says so.                           *)
BodyEnds ==
    /\ pc = "body"
    /\ \/ /\ LengthOK
          /\ staged' = session.bytes
          /\ session' = None
          /\ file' = IF session.onRow THEN session.bytes ELSE file
          /\ reported' \in {reported, response.total}
          /\ pc' = "staged"
          /\ UNCHANGED failure
       \/ /\ ~ LengthOK
          /\ Fail("source_changed", TRUE)
          /\ UNCHANGED <<staged, session, file, reported>>
    /\ UNCHANGED <<provider, partial, item, runs, recipe, attempt, used, stop,
                   resume, active, response, tracked>>

-----------------------------------------------------------------------------
(* The end of an attempt and of a run *)

(* The validator and length the partial is saved with: those of the        *)
(* response, or the ones it was resumed with if the response has no        *)
(* strong validator.                                                       *)
ResponseTag == IF response = None THEN NoTag ELSE response.tag

PartialValidator ==
    IF active # None /\ ResponseTag = NoTag
    THEN [tag |-> active.tag, total |-> active.total]
    ELSE [tag |-> ResponseTag, total |-> IF response = None THEN None ELSE response.total]

Resumable ==
    /\ session # None
    /\ failure.retryable
    /\ Len(session.bytes) > 0
    /\ PartialValidator.tag # NoTag

(* The validator of an error response replaces that of the resumed partial.*)
Relabels ==
    response # None /\ response.version = None /\ response.tag \notin {NoTag, active.tag}

Saved ==
    [request |-> recipe, size |-> Len(session.bytes),
     tag |-> PartialValidator.tag, total |-> PartialValidator.total,
     relabelled |-> active # None /\ (active.relabelled \/ Relabels)]

(* The outcomes that the categories of AssetStorageError name, and that    *)
(* AcquisitionAttemptRecord does not accept; a stop replaces them.         *)
Unrecordable == failure.outcome \in {"limit", "integrity"} /\ ~ stop

(* The session is discarded; observe_attempt then raises ValueError.       *)
RecordRefused ==
    /\ pc = "failed"
    /\ Unrecordable
    /\ pc' = "raised"
    /\ UNCHANGED <<provider, durable, recipe, attempt, used, stop, resume, active, session,
                   response, failure, tracked, staged>>

(* After the failure: the session is detached and its row saved, or it   *)
(* is discarded; then the engine starts another attempt or returns.  A     *)
(* stop turns whatever happened into a retryable interruption.             *)
Conclude ==
    /\ pc = "failed"
    /\ ~ Unrecordable
    /\ IF Resumable
       THEN /\ resume' = Saved
            /\ partial' = Saved
            /\ file' = session.bytes
            /\ tracked' = TRUE
       ELSE /\ resume' = None
            /\ file' = IF session # None /\ session.onRow THEN session.bytes ELSE file
            /\ UNCHANGED <<partial, tracked>>
    /\ LET ended == IF stop THEN [outcome |-> "timeout", retryable |-> TRUE] ELSE failure
       IN  \/ /\ ended.retryable /\ ended.outcome # "budget_exhausted"
              /\ attempt < MaxAttempts
              /\ ~ stop
              /\ attempt' = attempt + 1
              /\ pc' = "control"
              /\ failure' = NoFailure
           \/ /\ failure' = ended
              /\ \/ ~ ended.retryable
                 \/ ended.outcome = "budget_exhausted"
                 \/ attempt = MaxAttempts
                 \/ stop
              /\ pc' = "ended"
              /\ UNCHANGED attempt
           \/ \* a stop comes now, or the backoff would reach the deadline
              /\ ended.retryable /\ ended.outcome # "budget_exhausted"
              /\ attempt < MaxAttempts
              /\ ~ stop
              /\ failure' \in {ended, [outcome |-> "timeout", retryable |-> TRUE]}
              /\ pc' = "ended"
              /\ UNCHANGED attempt
    /\ reported' = IF response = None THEN None ELSE response.total
    /\ active' = None /\ session' = None /\ response' = None
    /\ UNCHANGED <<provider, item, runs, recipe, used, stop, staged>>

(* finish_partial and the terminal state of the run item. *)
End ==
    /\ pc = "ended"
    /\ IF tracked /\ resume = None
       THEN partial' = None /\ file' = <<>>
       ELSE UNCHANGED <<partial, file>>
    /\ item' = [state |-> IF stop \/ resume # None THEN "interrupted" ELSE "failed",
                outcome |-> failure.outcome, retryable |-> failure.retryable]
    /\ pc' = "idle"
    /\ resume' = None /\ tracked' = FALSE /\ failure' = NoFailure
    /\ UNCHANGED <<provider, runs, reported, recipe, attempt, used, stop, active, session,
                   response, staged>>

(* finish_partial after a complete transfer; publication then completes    *)
(* the item.                                                               *)
EndComplete ==
    /\ pc = "staged"
    /\ IF tracked THEN partial' = None /\ file' = <<>> ELSE UNCHANGED <<partial, file>>
    /\ item' = [state |-> "complete", outcome |-> "none", retryable |-> FALSE]
    /\ pc' = "idle"
    /\ resume' = None /\ active' = None /\ tracked' = FALSE
    /\ UNCHANGED <<provider, runs, reported, recipe, attempt, used, stop, session, response,
                   failure, staged>>

-----------------------------------------------------------------------------
Engine ==
    \/ ControlStops \/ OpenFresh \/ OpenResumed \/ OpenRefused
    \/ \E retryable \in BOOLEAN :
          \/ SendFails(retryable)
          \/ \E tag \in ErrorTags \cup {NoTag} : ErrorResponse(tag, retryable)
    \/ \E sized \in BOOLEAN : FullResponse(sized)
    \/ \E first \in 1..MaxItemBytes, toEnd \in BOOLEAN : RangeResponse(first, toEnd)
    \/ RejectResponse \/ AcceptResponse
    \/ Chunk \/ BodyBreaks \/ BodyEnds
    \/ RecordRefused \/ Unwind \/ Conclude \/ End \/ EndComplete

Next ==
    \/ Engine
    \/ \E q \in Request : Execute(q)
    \/ \E q \in Request, v \in Version : ServerChanges(q, v)
    \/ Stop \/ Crash

Spec == Init /\ [][Next]_vars

(* The engine is a loop of its own process, and every request of its       *)
(* client has a timeout.                                                   *)
FairSpec == Spec /\ WF_vars(Engine)

-----------------------------------------------------------------------------
(* Properties *)

Whole(v) == [k \in 1..Size[v] |-> <<v, k>>]

(* The bytes are the first ones of one representation. *)
Begins(bytes, v) ==
    /\ Len(bytes) <= Size[v]
    /\ bytes = SubSeq(Whole(v), 1, Len(bytes))

(* What the attempt resumed, if anything, had been given the validator of  *)
(* an error response.                                                      *)
Relabelled == active # None /\ active.relabelled

(* Every chunk lies at its place in the representation it came from. *)
InPlace(bytes) == \A k \in DOMAIN bytes : bytes[k][2] = k

(* A file never joins two ranges that do not meet, and never combines two  *)
(* representations unless an error response relabelled its partial,        *)
(* whatever the provider replaces between the attempts and runs that fill  *)
(* it: transfer() sends If-Range and compares what a 206 declares.         *)
NeverCombined ==
    /\ InPlace(staged)
    /\ session # None => InPlace(session.bytes)
    /\ ~ Relabelled =>
          /\ pc = "staged" => \E v \in Version : Begins(staged, v)
          /\ session # None => \E v \in Version : Begins(session.bytes, v)

(* What transfer() reports as downloaded, if its response declared a       *)
(* length, has the length of a representation of the URL that was asked    *)
(* for, and is all of it unless an error response relabelled the partial.  *)
DownloadedWhole ==
    pc = "staged" /\ response.total # None =>
        \E v \in Version :
            /\ Resource[v] = recipe
            /\ Len(staged) = Size[v]
            /\ ~ Relabelled => staged = Whole(v)

(* The file of an active row has all the bytes that the row describes, in  *)
(* their places.  Unless an error response relabelled it, the row's        *)
(* validator is the one of the representation that those bytes begin: all  *)
(* that a later If-Range relies on.                                        *)
RowValidates ==
    partial # None =>
        /\ partial.size <= Len(file)
        /\ InPlace(SubSeq(file, 1, partial.size))
        /\ ~ partial.relabelled =>
              \E v \in Version :
                  /\ Resource[v] = partial.request
                  /\ Etag[v] = partial.tag
                  /\ Begins(SubSeq(file, 1, partial.size), v)

(* Between runs an active row belongs to an item that the default retry    *)
(* selects: finish_partial leaves none behind a failure that is final.     *)
RowIsRetryable == pc = "idle" /\ partial # None => item.retryable

(* What lies in a file is one representation, and a whole one where it is  *)
(* reported as downloaded; only a partial that an error response relabelled*)
(* goes on as a mixture, and then the places and the length still fit.     *)
FileIsOneVersion == NeverCombined /\ DownloadedWhole

(* An active row tells the truth about the bytes it counts, and belongs to *)
(* an item that a retry selects.  That the retry can use it is not claimed:*)
(* a file that a kill left longer than its row is refused ever after.      *)
RowStands == RowValidates /\ RowIsRetryable

(* Representations are never combined, as the specification of the         *)
(* transfer has it, without regard to error responses.                     *)
RepresentationsNeverCombined ==
    pc = "staged" => \E v \in Version : Begins(staged, v)

(* A run is never stuck in an item: it uses up its attempts. *)
RunEnds == pc # "idle" ~> pc = "idle"

=============================================================================
