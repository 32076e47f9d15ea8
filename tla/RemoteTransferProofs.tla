------------------------ MODULE RemoteTransferProofs ------------------------
(***************************************************************************)
(* Proofs about RemoteTransfer for any requests, representations, limits   *)
(* and numbers of attempts and runs.                                       *)
(*                                                                         *)
(* That no file mixes two representations is not inductive: a partial is   *)
(* filled by several attempts of several runs, and the provider changes    *)
(* what it holds in between.  What carries it from one run to the next is  *)
(* that the row's validator belongs to the representation whose bytes are  *)
(* in its file (Describes), and that a session, wherever it breaks off,    *)
(* would be saved under the validator of what it holds (FailedTruth).      *)
(* Both hold until an error response relabels the partial; that chunks lie *)
(* in their places (PlaceInv), and how many they are, holds beyond that.   *)
(***************************************************************************)
EXTENDS RemoteTransfer, TLAPS

(* A request is answered with a representation of its own resource. *)
ServerInv == \A q \in Request : Resource[current[q]] = q

(* A 200 or 206 that was let through declares what it brings. *)
Answered ==
    /\ response # None
    /\ response.version \in Version
    /\ Resource[response.version] = recipe
    /\ response.tag = Etag[response.version]
    /\ response.total \in {None, Size[response.version]}

(* What the locals of transfer() are at its stages. *)
StageInv ==
    /\ pc \in {"idle", "control", "ended", "staged"} => session = None
    /\ pc \in {"send", "check", "body"} => session # None
    /\ pc \in {"control", "send"} => response = None
    /\ pc = "send" /\ active = None => session.bytes = <<>>
    /\ pc = "send" /\ active # None => active.request = recipe
    /\ pc \in {"check", "body", "staged"} => Answered
    /\ pc \in {"check", "body"} =>
          /\ response.next = Len(session.bytes) + 1
          /\ active # None => active.tag = response.tag

(* Who still knows of the row, and how the run that leaves it ends. *)
RetryInv ==
    /\ pc = "idle" /\ partial # None => item.retryable
    /\ pc # "idle" /\ partial # None => tracked
    /\ pc = "ended" /\ resume # None => failure.retryable

ShapeInv ==
    /\ TypeOK
    /\ ServerInv
    /\ StageInv
    /\ RetryInv

(* Every chunk of every file lies where its range put it. *)
PlaceInv ==
    /\ InPlace(file)
    /\ InPlace(staged)
    /\ session # None => InPlace(session.bytes)

(* The row, or the ResumeState made from it, tells the truth about bytes,  *)
(* unless an error response relabelled it.                                 *)
Describes(row, bytes) ==
    /\ row.size <= Len(bytes)
    /\ ~ row.relabelled =>
          \E v \in Version :
              /\ Resource[v] = row.request
              /\ Etag[v] = row.tag
              /\ Begins(SubSeq(bytes, 1, row.size), v)

(* The open session holds the first bytes of what tag validates. *)
Holds(tag) ==
    \E v \in Version : Resource[v] = recipe /\ Etag[v] = tag /\ Begins(session.bytes, v)

RowTruth ==
    /\ partial # None => Describes(partial, file)
    /\ session # None /\ session.onRow /\ partial # None => Describes(partial, session.bytes)
    /\ pc = "control" /\ resume # None => Describes(resume, file)

SessionTruth ==
    ~ Relabelled =>
        /\ session # None => \E v \in Version : Begins(session.bytes, v)
        /\ pc = "send" /\ active # None => Holds(active.tag)
        /\ pc \in {"check", "body"} => Begins(session.bytes, response.version)

FailedTruth ==
    pc = "failed" /\ Resumable /\ ~ Saved.relabelled => Holds(PartialValidator.tag)

StagedTruth ==
    pc = "staged" =>
        /\ ~ Relabelled => Begins(staged, response.version)
        /\ response.total # None => Len(staged) = response.total

TruthInv ==
    /\ PlaceInv
    /\ RowTruth
    /\ SessionTruth
    /\ FailedTruth
    /\ StagedTruth

(* The inductive invariant of the file and its row. *)
IInv == ShapeInv /\ TruthInv

-----------------------------------------------------------------------------
(* Bytes *)

(* Representations have a length and a resource. *)
LEMMA SizeType == \A v \in Version : Size[v] \in Nat /\ Size[v] # 0 /\ Resource[v] \in Request
BY VersionAssumption

(* The first bytes of a representation, position by position. *)
LEMMA BeginsPointwise ==
  ASSUME NEW v \in Version, NEW b \in Bytes
  PROVE  Begins(b, v) <=> /\ Len(b) <= Size[v]
                          /\ \A k \in 1..Len(b) : b[k] = <<v, k>>
<1>1. Len(b) \in Nat /\ Size[v] \in Nat
  BY SizeType DEF Bytes
<1>2. ASSUME Len(b) <= Size[v]
      PROVE  SubSeq(Whole(v), 1, Len(b)) = [k \in 1..Len(b) |-> <<v, k>>]
  BY <1>1, <1>2 DEF Whole
<1>3. b = [k \in 1..Len(b) |-> b[k]]
  BY DEF Bytes
<1> QED
  BY <1>1, <1>2, <1>3 DEF Begins

(* A session that has just been opened holds the beginning of anything. *)
LEMMA NothingBegins ==
  /\ <<>> \in Bytes /\ Len(<<>>) = 0
  /\ \A v \in Version : Begins(<<>>, v)
<1>1. <<>> \in Bytes /\ Len(<<>>) = 0
  BY DEF Bytes
<1> QED
  BY <1>1, BeginsPointwise, SizeType

(* The next chunk of the same representation. *)
LEMMA NextChunkBegins ==
  ASSUME NEW v \in Version, NEW b \in Bytes, Begins(b, v), Len(b) < Size[v]
  PROVE  /\ Append(b, <<v, Len(b) + 1>>) \in Bytes
         /\ Len(Append(b, <<v, Len(b) + 1>>)) = Len(b) + 1
         /\ Begins(Append(b, <<v, Len(b) + 1>>), v)
<1> DEFINE c == Append(b, <<v, Len(b) + 1>>)
<1>1. Len(b) \in Nat /\ Size[v] \in Nat
  BY SizeType DEF Bytes
<1>2. c \in Bytes /\ Len(c) = Len(b) + 1
  BY <1>1 DEF Bytes
<1>3. \A k \in 1..Len(b) : b[k] = <<v, k>>
  BY BeginsPointwise
<1>4. \A k \in 1..Len(c) : c[k] = <<v, k>>
  BY <1>1, <1>2, <1>3 DEF Bytes
<1>5. Len(c) <= Size[v]
  BY <1>1, <1>2
<1> HIDE DEF c
<1>6. Begins(c, v)
  BY <1>2, <1>4, <1>5, BeginsPointwise
<1> QED
  BY <1>2, <1>6 DEF c

(* The first bytes of a representation, as many as it has, are all of it. *)
LEMMA AllIsWhole ==
  ASSUME NEW v \in Version, NEW b \in Bytes, Begins(b, v), Len(b) = Size[v]
  PROVE  b = Whole(v)
<1>1. b = [k \in 1..Len(b) |-> b[k]] /\ Size[v] \in Nat
  BY SizeType DEF Bytes
<1>2. \A k \in 1..Len(b) : b[k] = <<v, k>>
  BY BeginsPointwise
<1> QED
  BY <1>1, <1>2 DEF Whole

(* The first bytes of a file, as many as there are, are all of them. *)
LEMMA AllOfThem ==
  ASSUME NEW b \in Bytes
  PROVE  SubSeq(b, 1, Len(b)) = b
BY DEF Bytes

(* What a row says of its file stays true when a session appends to it. *)
LEMMA AppendKeepsPrefix ==
  ASSUME NEW row \in ResumeState, NEW b \in Bytes, NEW e \in Version \X Nat,
         Describes(row, b)
  PROVE  Describes(row, Append(b, e))
<1>1. row.size \in Nat /\ Len(b) \in Nat /\ row.size <= Len(b)
  BY VersionAssumption DEF ResumeState, Bytes, Describes
<1>2. SubSeq(Append(b, e), 1, row.size) = SubSeq(b, 1, row.size)
  BY <1>1 DEF Bytes
<1>3. row.size <= Len(Append(b, e))
  BY <1>1 DEF Bytes
<1> QED
  BY <1>2, <1>3, Zenon DEF Describes

-----------------------------------------------------------------------------
(* shape *)
(* A session that begins holds nothing; it is not None. *)
LEMMA NewSessionType ==
  /\ NewSession \in SessionState /\ NewSession # None /\ NewSession.bytes = <<>>
  /\ Len(NewSession.bytes) <= MaxItemBytes
<1>1. NewSession \in SessionState /\ NewSession.bytes = <<>>
  BY NothingBegins DEF NewSession, SessionState
<1>2. Len(NewSession.bytes) <= MaxItemBytes
  BY <1>1, NothingBegins, VersionAssumption
<1> QED
  BY <1>1, <1>2, NoneAssumption

(* A reopened session has the bytes of the row's file. *)
LEMMA ReopenedType ==
  ASSUME TypeOK
  PROVE  /\ [bytes |-> file, onRow |-> TRUE] \in SessionState
         /\ [bytes |-> file, onRow |-> TRUE] # None
<1>1. [bytes |-> file, onRow |-> TRUE] \in SessionState
  BY DEF TypeOK, SessionState
<1> QED
  BY <1>1, NoneAssumption

(* What a response to this request is. *)
LEMMA ResponseType ==
  ASSUME NEW v \in Version, NEW t \in {None, Size[v]}, NEW n \in Nat
  PROVE  LET r == [tag |-> Etag[v], total |-> t, version |-> v, next |-> n]
         IN  r \in ResponseState /\ r # None
<1> DEFINE r == [tag |-> Etag[v], total |-> t, version |-> v, next |-> n]
<1>1. t \in Nat \cup {None} /\ Etag[v] \in Tag
  BY SizeType DEF Tag
<1>2. r \in ResponseState
  BY <1>1 DEF ResponseState
<1> QED
  BY <1>2, NoneAssumption

(* Every failure has an outcome of its own, and ends the attempt. *)
FailureState == [outcome : Outcome, retryable : BOOLEAN]

(* Every failure ends the attempt with an outcome of the engine. *)
LEMMA FailType ==
  /\ NoFailure \in FailureState
  /\ \A r \in BOOLEAN, o \in {"timeout", "transient", "provider", "source_changed", "too_large",
                           "budget_exhausted", "limit", "integrity"} :
        Fail(o, r) => pc' = "failed" /\ failure' \in FailureState /\ failure'.retryable = r
BY DEF Fail, NoFailure, FailureState, Outcome

(* The fields of a row. *)
LEMMA RowFields ==
  \A r \in ResumeState : /\ r.size \in 1..MaxItemBytes /\ r.total \in Nat \cup {None}
                        /\ r.tag \in Tag \ {NoTag} /\ r.request \in Request
                        /\ r.relabelled \in BOOLEAN
BY DEF ResumeState

(* The fields of a session. *)
LEMMA SessionFields ==
  \A s \in SessionState : s.bytes \in Bytes /\ s.onRow \in BOOLEAN /\ Len(s.bytes) \in Nat
BY DEF SessionState, Bytes

(* The fields of a response. *)
LEMMA ResponseFields ==
  \A r \in ResponseState : /\ r.tag \in Tag \cup {NoTag} /\ r.total \in Nat \cup {None}
                          /\ r.version \in Version \cup {None} /\ r.next \in Nat
BY DEF ResponseState

(* A chunk is written, and nothing else of the attempt changes. *)
Arrives ==
    /\ session' = [session EXCEPT !.bytes = Append(@, <<response.version, response.next>>)]
    /\ response' = [response EXCEPT !.next = @ + 1]
    /\ UNCHANGED <<pc, failure>>

(* A chunk is written, or the item's limit is reached. *)
LEMMA ChunkCases ==
  ASSUME Chunk
  PROVE  \/ Arrives /\ Len(session.bytes) < MaxItemBytes
         \/ Fail("limit", FALSE) /\ UNCHANGED <<session, response>>
BY DEF Chunk, Arrives

(* What a chunk leaves of session and response. *)
LEMMA ArrivesFields ==
  ASSUME TypeOK, session # None, response # None, response.version \in Version, Arrives,
         Len(session.bytes) < MaxItemBytes
  PROVE  /\ session' \in SessionState /\ session' # None
         /\ session'.bytes = Append(session.bytes, <<response.version, response.next>>)
         /\ session'.onRow = session.onRow
         /\ Len(session'.bytes) = Len(session.bytes) + 1
         /\ Len(session'.bytes) <= MaxItemBytes
         /\ response' \in ResponseState /\ response' # None
         /\ response'.version = response.version /\ response'.tag = response.tag
         /\ response'.total = response.total /\ response'.next = response.next + 1
<1> DEFINE b == Append(session.bytes, <<response.version, response.next>>)
<1>1. /\ session \in SessionState /\ session.bytes \in Bytes
      /\ Len(session.bytes) \in Nat
  BY SessionFields DEF TypeOK
<1>2. response \in ResponseState /\ response.next \in Nat
  BY ResponseFields DEF TypeOK
<1>3. b \in Bytes /\ Len(b) = Len(session.bytes) + 1
  BY <1>1, <1>2 DEF Bytes
<1>4. Len(b) <= MaxItemBytes
  BY <1>1, <1>3, VersionAssumption
<1> HIDE DEF b
<1>5. session = [bytes |-> session.bytes, onRow |-> session.onRow] /\ session.onRow \in BOOLEAN
  BY <1>1 DEF SessionState
<1>6. session' = [bytes |-> b, onRow |-> session.onRow]
  BY <1>5 DEF Arrives, b
<1>7. session' \in SessionState
  BY <1>3, <1>5, <1>6 DEF SessionState
<1>8. /\ response = [tag |-> response.tag, total |-> response.total,
                   version |-> response.version, next |-> response.next]
  BY <1>2 DEF ResponseState
<1>9. response' = [tag |-> response.tag, total |-> response.total,
                   version |-> response.version, next |-> response.next + 1]
  BY <1>8 DEF Arrives
<1>10. response' \in ResponseState
  BY <1>2, <1>9, ResponseFields DEF ResponseState
<1>11. session' # None /\ response' # None
  BY <1>7, <1>10, NoneAssumption
<1> QED
  BY <1>3, <1>4, <1>6, <1>7, <1>9, <1>10, <1>11 DEF b

(* What a request is answered with. *)
LEMMA CurrentType ==
  ASSUME ServerInv, TypeOK
  PROVE  current[recipe] \in Version /\ Resource[current[recipe]] = recipe
BY DEF ServerInv, TypeOK

(* The provider answers under the URL that was asked. *)
LEMMA ServerStep ==
  ASSUME ServerInv, TypeOK, [Next]_vars
  PROVE  ServerInv'
<1>1. ASSUME NEW q \in Request, NEW v \in Version, ServerChanges(q, v)
      PROVE  ServerInv'
  BY <1>1 DEF ServerChanges, ServerInv, TypeOK
<1>2. CASE Engine
  <2>1. current' = current
    BY <1>2
       DEF Engine, provider, ControlStops, OpenFresh, OpenResumed, OpenRefused,
           SendFails, ErrorResponse, FullResponse, RangeResponse,
           RejectResponse, AcceptResponse, Chunk, BodyBreaks, BodyEnds,
           RecordRefused, Unwind, Unfinished, Conclude, End, EndComplete
  <2> QED
    BY <2>1 DEF ServerInv
<1>3. CASE Stop \/ Crash \/ \E q \in Request : Execute(q)
  BY <1>3 DEF Stop, Crash, Unfinished, Execute, provider, ServerInv
<1>4. CASE UNCHANGED vars
  BY <1>4 DEF vars, provider, ServerInv
<1> QED
  BY <1>1, <1>2, <1>3, <1>4 DEF Next

(* An active row is given up with the item, or the item can be retried. *)
LEMMA RetryStep ==
  ASSUME ShapeInv, [Next]_vars
  PROVE  RetryInv'
<1>1. CASE ControlStops
  BY <1>1
     DEF ControlStops, Fail, RecordRunning, ShapeInv, RetryInv, StageInv,
         TypeOK, provider
<1>2. CASE OpenFresh
  BY <1>2
     DEF OpenFresh, NewSession, RecordRunning, ShapeInv, RetryInv, StageInv,
         TypeOK, provider
<1>3. CASE OpenResumed
  BY <1>3
     DEF OpenResumed, RecordRunning, ShapeInv, RetryInv, StageInv, TypeOK,
         provider
<1>4. CASE OpenRefused
  BY <1>4
     DEF OpenRefused, Fail, RecordRunning, ShapeInv, RetryInv, StageInv,
         TypeOK, provider
<1>5. ASSUME NEW retryable \in BOOLEAN, SendFails(retryable)
      PROVE  RetryInv'
  BY <1>5
     DEF SendFails, Fail, ShapeInv, RetryInv, StageInv, TypeOK, provider,
         durable
<1>6. ASSUME NEW retryable \in BOOLEAN, NEW tag \in ErrorTags \cup {NoTag},
             ErrorResponse(tag, retryable)
      PROVE  RetryInv'
  BY <1>6
     DEF ErrorResponse, Fail, ShapeInv, RetryInv, StageInv, TypeOK, provider,
         durable
<1>7. ASSUME NEW sized \in BOOLEAN, FullResponse(sized)
      PROVE  RetryInv'
  BY <1>7
     DEF FullResponse, NewSession, ShapeInv, RetryInv, StageInv, TypeOK,
         provider, durable
<1>8. ASSUME NEW first \in 1..MaxItemBytes, NEW toEnd \in BOOLEAN, RangeResponse(first, toEnd)
      PROVE  RetryInv'
  BY <1>8
     DEF RangeResponse, RangeAccepted, RangeMatches, Fail, ShapeInv, RetryInv,
         StageInv, TypeOK, provider, durable
<1>9. CASE RejectResponse
  BY <1>9
     DEF RejectResponse, Fail, ShapeInv, RetryInv, StageInv, TypeOK, provider,
         durable
<1>10. CASE AcceptResponse
  BY <1>10
     DEF AcceptResponse, ShapeInv, RetryInv, StageInv, TypeOK, provider,
         durable
<1>11. CASE Chunk
  BY <1>11
     DEF Chunk, Fail, Left, ShapeInv, RetryInv, StageInv, TypeOK, provider,
         durable
<1>12. CASE BodyBreaks
  BY <1>12
     DEF BodyBreaks, Fail, ShapeInv, RetryInv, StageInv, TypeOK, provider,
         durable
<1>13. CASE BodyEnds
  BY <1>13
     DEF BodyEnds, Fail, LengthOK, ShapeInv, RetryInv, StageInv, TypeOK,
         provider
<1>14. CASE RecordRefused
  BY <1>14
     DEF RecordRefused, ShapeInv, RetryInv, StageInv, TypeOK, provider, durable
<1>15. CASE Unwind
  BY <1>15
     DEF Unwind, Unfinished, ShapeInv, RetryInv, StageInv, TypeOK, provider
<1>16. CASE Conclude
  BY <1>16
     DEF Conclude, ShapeInv, RetryInv, StageInv, TypeOK, Resumable, provider
<1>17. CASE End
  BY <1>17 DEF End, ShapeInv, RetryInv, StageInv, TypeOK
<1>18. CASE EndComplete
  BY <1>18 DEF EndComplete, ShapeInv, RetryInv, StageInv, TypeOK, provider
<1>19. ASSUME NEW q \in Request, Execute(q)
      PROVE  RetryInv'
  BY <1>19 DEF Execute, ShapeInv, RetryInv, StageInv, TypeOK, provider
<1>20. ASSUME NEW q \in Request, NEW v \in Version, ServerChanges(q, v)
      PROVE  RetryInv'
  BY <1>20
     DEF ServerChanges, ShapeInv, RetryInv, StageInv, TypeOK, durable, engine
<1>21. CASE Stop
  BY <1>21 DEF Stop, ShapeInv, RetryInv, StageInv, TypeOK, provider, durable
<1>22. CASE Crash
  BY <1>22
     DEF Crash, Unfinished, ShapeInv, RetryInv, StageInv, TypeOK, provider
<1>23. CASE UNCHANGED vars
  BY <1>23
     DEF vars, provider, durable, engine, ShapeInv, RetryInv, StageInv, TypeOK,
         Resumable, provider, durable, engine
<1> QED
  BY <1>1, <1>2, <1>3, <1>4, <1>5, <1>6, <1>7, <1>8, <1>9, <1>10, <1>11, <1>12,
     <1>13, <1>14, <1>15, <1>16, <1>17, <1>18, <1>19, <1>20, <1>21, <1>22,
     <1>23
     DEF Next, Engine

(* The locals of each stage. *)
LEMMA StageStep ==
  ASSUME ShapeInv, [Next]_vars
  PROVE  StageInv'
<1>1. CASE ControlStops
  BY <1>1, NewSessionType, ReopenedType, ResponseType, CurrentType
     DEF ControlStops, Fail, RecordRunning, ShapeInv, StageInv, Answered,
         TypeOK, provider
<1>2. CASE OpenFresh
  BY <1>2, NewSessionType, ReopenedType, ResponseType, CurrentType
     DEF OpenFresh, NewSession, RecordRunning, ShapeInv, StageInv, Answered,
         TypeOK, provider
<1>3. CASE OpenResumed
  BY <1>3, NewSessionType, ReopenedType, ResponseType, CurrentType
     DEF OpenResumed, RecordRunning, ShapeInv, StageInv, Answered, TypeOK,
         provider
<1>4. CASE OpenRefused
  BY <1>4, NewSessionType, ReopenedType, ResponseType, CurrentType
     DEF OpenRefused, Fail, RecordRunning, ShapeInv, StageInv, Answered,
         TypeOK, provider
<1>5. ASSUME NEW retryable \in BOOLEAN, SendFails(retryable)
      PROVE  StageInv'
  BY <1>5, NewSessionType, ReopenedType, ResponseType, CurrentType
     DEF SendFails, Fail, ShapeInv, StageInv, Answered, TypeOK, provider,
         durable
<1>6. ASSUME NEW retryable \in BOOLEAN, NEW tag \in ErrorTags \cup {NoTag},
             ErrorResponse(tag, retryable)
      PROVE  StageInv'
  BY <1>6, NewSessionType, ReopenedType, ResponseType, CurrentType
     DEF ErrorResponse, Fail, ShapeInv, StageInv, Answered, TypeOK, provider,
         durable
<1>7. ASSUME NEW sized \in BOOLEAN, FullResponse(sized)
      PROVE  StageInv'
  BY <1>7, NewSessionType, ReopenedType, ResponseType, CurrentType
     DEF FullResponse, NewSession, ShapeInv, StageInv, Answered, TypeOK,
         provider, durable
<1>8. ASSUME NEW first \in 1..MaxItemBytes, NEW toEnd \in BOOLEAN, RangeResponse(first, toEnd)
      PROVE  StageInv'
  BY <1>8, NewSessionType, ReopenedType, ResponseType, CurrentType
     DEF RangeResponse, RangeAccepted, RangeMatches, Fail, ShapeInv, StageInv,
         Answered, TypeOK, provider, durable
<1>9. CASE RejectResponse
  BY <1>9, NewSessionType, ReopenedType, ResponseType, CurrentType
     DEF RejectResponse, Fail, ShapeInv, StageInv, Answered, TypeOK, provider,
         durable
<1>10. CASE AcceptResponse
  BY <1>10, NewSessionType, ReopenedType, ResponseType, CurrentType
     DEF AcceptResponse, ShapeInv, StageInv, Answered, TypeOK, provider,
         durable
<1>11. CASE Chunk
  <2>1. /\ session # None /\ response # None /\ response.version \in Version
        /\ TypeOK /\ response.next \in Nat /\ Len(session.bytes) \in Nat
    BY <1>11, SessionFields, ResponseFields
       DEF ShapeInv, StageInv, Answered, TypeOK, Chunk
  <2>2. CASE Fail("limit", FALSE) /\ UNCHANGED <<session, response>>
    BY <1>11, <2>2 DEF ShapeInv, StageInv, Answered, TypeOK, Fail, Chunk
  <2>3. CASE Arrives /\ Len(session.bytes) < MaxItemBytes
    <3>1. /\ session' # None /\ Len(session'.bytes) = Len(session.bytes) + 1
          /\ response' # None /\ response'.next = response.next + 1
          /\ response'.version = response.version /\ response'.tag = response.tag
          /\ response'.total = response.total
      BY <2>1, <2>3, ArrivesFields
    <3> QED
      BY <1>11, <2>1, <2>3, <3>1
         DEF ShapeInv, StageInv, Answered, Arrives, Chunk
  <2> QED
    BY <1>11, <2>2, <2>3, ChunkCases
<1>12. CASE BodyBreaks
  BY <1>12, NewSessionType, ReopenedType, ResponseType, CurrentType
     DEF BodyBreaks, Fail, ShapeInv, StageInv, Answered, TypeOK, provider,
         durable
<1>13. CASE BodyEnds
  BY <1>13, NewSessionType, ReopenedType, ResponseType, CurrentType
     DEF BodyEnds, Fail, LengthOK, ShapeInv, StageInv, Answered, TypeOK,
         provider
<1>14. CASE RecordRefused
  BY <1>14, NewSessionType, ReopenedType, ResponseType, CurrentType
     DEF RecordRefused, ShapeInv, StageInv, Answered, TypeOK, provider, durable
<1>15. CASE Unwind
  BY <1>15, NewSessionType, ReopenedType, ResponseType, CurrentType
     DEF Unwind, Unfinished, ShapeInv, StageInv, Answered, TypeOK, provider
<1>16. CASE Conclude
  BY <1>16, NewSessionType, ReopenedType, ResponseType, CurrentType
     DEF Conclude, ShapeInv, StageInv, Answered, TypeOK, provider
<1>17. CASE End
  BY <1>17, NewSessionType, ReopenedType, ResponseType, CurrentType
     DEF End, ShapeInv, StageInv, Answered, TypeOK
<1>18. CASE EndComplete
  BY <1>18, NewSessionType, ReopenedType, ResponseType, CurrentType
     DEF EndComplete, ShapeInv, StageInv, Answered, TypeOK, provider
<1>19. ASSUME NEW q \in Request, Execute(q)
      PROVE  StageInv'
  BY <1>19, NewSessionType, ReopenedType, ResponseType, CurrentType
     DEF Execute, ShapeInv, StageInv, Answered, TypeOK, provider
<1>20. ASSUME NEW q \in Request, NEW v \in Version, ServerChanges(q, v)
      PROVE  StageInv'
  BY <1>20, NewSessionType, ReopenedType, ResponseType, CurrentType
     DEF ServerChanges, ShapeInv, StageInv, Answered, TypeOK, durable, engine
<1>21. CASE Stop
  BY <1>21, NewSessionType, ReopenedType, ResponseType, CurrentType
     DEF Stop, ShapeInv, StageInv, Answered, TypeOK, provider, durable
<1>22. CASE Crash
  BY <1>22, NewSessionType, ReopenedType, ResponseType, CurrentType
     DEF Crash, Unfinished, ShapeInv, StageInv, Answered, TypeOK, provider
<1>23. CASE UNCHANGED vars
  BY <1>23
     DEF vars, provider, durable, engine, ShapeInv, StageInv, Answered, TypeOK,
         provider, durable, engine
<1> QED
  BY <1>1, <1>2, <1>3, <1>4, <1>5, <1>6, <1>7, <1>8, <1>9, <1>10, <1>11, <1>12,
     <1>13, <1>14, <1>15, <1>16, <1>17, <1>18, <1>19, <1>20, <1>21, <1>22,
     <1>23
     DEF Next, Engine

(* What a failed attempt is saved as. *)
LEMMA SavedType ==
  ASSUME TypeOK, Resumable
  PROVE  Saved \in ResumeState
<1>1. Len(session.bytes) \in 1..MaxItemBytes
  BY SessionFields, VersionAssumption DEF TypeOK, Resumable
<1>2. PartialValidator.tag \in Tag \ {NoTag} /\ PartialValidator.total \in Nat \cup {None}
  BY RowFields, ResponseFields
     DEF TypeOK, Resumable, PartialValidator, ResponseTag
<1>3. (active # None /\ (active.relabelled \/ Relabels)) \in BOOLEAN
  OBVIOUS
<1> QED
  BY <1>1, <1>2, <1>3 DEF TypeOK, Saved, ResumeState

(* The types. *)
LEMMA TypeStep ==
  ASSUME ShapeInv, [Next]_vars
  PROVE  TypeOK'
<1>1. CASE ControlStops
  BY <1>1, FailType, RowFields
     DEF ControlStops, Fail, RecordRunning, ShapeInv, StageInv, TypeOK,
         FailureState, provider
<1>2. CASE OpenFresh
  BY <1>2, NewSessionType, RowFields
     DEF ShapeInv, TypeOK, provider, OpenFresh, RecordRunning
<1>3. CASE OpenResumed
  BY <1>3, ReopenedType, RowFields
     DEF ShapeInv, TypeOK, provider, OpenResumed, RecordRunning
<1>4. CASE OpenRefused
  BY <1>4, FailType, RowFields
     DEF OpenRefused, Fail, RecordRunning, ShapeInv, StageInv, TypeOK,
         FailureState, provider
<1>5. ASSUME NEW retryable \in BOOLEAN, SendFails(retryable)
      PROVE  TypeOK'
  BY <1>5, FailType, RowFields
     DEF SendFails, Fail, ShapeInv, StageInv, TypeOK, FailureState, provider,
         durable
<1>6. ASSUME NEW retryable \in BOOLEAN, NEW tag \in ErrorTags \cup {NoTag},
             ErrorResponse(tag, retryable)
      PROVE  TypeOK'
  <2>1. response' \in ResponseState
    BY <1>6 DEF ErrorResponse, ResponseState, Tag
  <2> QED
    BY <1>6, <2>1, FailType
       DEF ShapeInv, TypeOK, FailureState, provider, durable, ErrorResponse
<1>7. ASSUME NEW sized \in BOOLEAN, FullResponse(sized)
      PROVE  TypeOK'
  <2>1. response' \in ResponseState
    BY <1>7, CurrentType, ResponseType DEF ShapeInv, FullResponse
  <2> QED
    BY <1>7, <2>1, NewSessionType
       DEF ShapeInv, TypeOK, provider, durable, FullResponse
<1>8. ASSUME NEW first \in 1..MaxItemBytes, NEW toEnd \in BOOLEAN, RangeResponse(first, toEnd)
      PROVE  TypeOK'
  <2>1. current[recipe] \in Version /\ first \in Nat
    BY CurrentType, VersionAssumption DEF ShapeInv
  <2>2. response' \in ResponseState
    BY <1>8, <2>1, ResponseType DEF RangeResponse
  <2>3. /\ pc' \in {"check", "failed"}
        /\ failure' = failure \/ failure' \in FailureState
    BY <1>8, FailType DEF RangeResponse
  <2> QED
    BY <1>8, <2>2, <2>3
       DEF ShapeInv, TypeOK, FailureState, provider, durable, RangeResponse
<1>9. CASE RejectResponse
  BY <1>9, FailType, RowFields
     DEF RejectResponse, Fail, ShapeInv, StageInv, TypeOK, FailureState,
         provider, durable
<1>10. CASE AcceptResponse
  BY <1>10, FailType, RowFields
     DEF AcceptResponse, ShapeInv, StageInv, TypeOK, FailureState, provider,
         durable
<1>11. CASE Chunk
  <2>1. /\ session # None /\ response # None /\ response.version \in Version
        /\ TypeOK
    BY <1>11 DEF ShapeInv, StageInv, Answered, Chunk
  <2>2. used' \in 0..MaxTotalBytes
    BY <1>11, VersionAssumption DEF ShapeInv, TypeOK, Chunk
  <2>3. CASE Fail("limit", FALSE) /\ UNCHANGED <<session, response>>
    BY <1>11, <2>1, <2>2, <2>3, FailType
       DEF TypeOK, FailureState, provider, durable, Chunk
  <2>4. CASE Arrives /\ Len(session.bytes) < MaxItemBytes
    <3>1. /\ session' \in SessionState /\ Len(session'.bytes) <= MaxItemBytes
          /\ response' \in ResponseState
      BY <2>1, <2>4, ArrivesFields
    <3>2. UNCHANGED <<pc, failure>>
      BY <2>4 DEF Arrives
    <3> QED
      BY <1>11, <2>1, <2>2, <3>1, <3>2 DEF TypeOK, provider, durable, Chunk
  <2> QED
    BY <1>11, <2>3, <2>4, ChunkCases
<1>12. CASE BodyBreaks
  BY <1>12, FailType, RowFields
     DEF BodyBreaks, Fail, ShapeInv, StageInv, TypeOK, FailureState, provider,
         durable
<1>13. CASE BodyEnds
  <2>1. session \in SessionState /\ session.bytes \in Bytes /\ Len(session.bytes) <= MaxItemBytes
    BY <1>13, SessionFields DEF ShapeInv, StageInv, TypeOK, BodyEnds
  <2>2. response.total \in Nat \cup {None}
    BY <1>13, ResponseFields DEF ShapeInv, StageInv, TypeOK, Answered, BodyEnds
  <2> QED
    BY <1>13, <2>1, <2>2, FailType
       DEF ShapeInv, TypeOK, FailureState, provider, BodyEnds
<1>14. CASE RecordRefused
  BY <1>14, FailType, RowFields
     DEF RecordRefused, ShapeInv, StageInv, TypeOK, FailureState, provider,
         durable
<1>15. CASE Unwind
  <2>1. <<>> \in Bytes
    BY NothingBegins
  <2>2. file' \in Bytes /\ Len(file') <= MaxItemBytes
    BY <1>15, SessionFields DEF ShapeInv, TypeOK, Unfinished, Unwind
  <2>3. item' \in [state : {"pending", "complete", "failed", "interrupted"},
                    outcome : Outcome, retryable : BOOLEAN]
    BY <1>15 DEF Unfinished, Outcome, Unwind
  <2> QED
    BY <1>15, <2>1, <2>2, <2>3, FailType
       DEF ShapeInv, TypeOK, FailureState, provider, Unfinished, Unwind
<1>16. CASE Conclude
  <2>1. Resumable => Saved \in ResumeState
    BY <1>16, SavedType DEF ShapeInv
  <2>2. file' \in Bytes /\ Len(file') <= MaxItemBytes
    BY <1>16, SessionFields DEF ShapeInv, TypeOK, Conclude, Resumable
  <2>3. reported' \in Nat \cup {None}
    BY <1>16, ResponseFields DEF ShapeInv, TypeOK, Conclude
  <2>4. failure' \in FailureState
    <3>1. [outcome |-> "timeout", retryable |-> TRUE] \in FailureState
      BY DEF FailureState, Outcome
    <3>2. failure \in FailureState /\ NoFailure \in FailureState
      BY FailType DEF ShapeInv, TypeOK, FailureState
    <3>3. failure' \in {NoFailure, failure, [outcome |-> "timeout", retryable |-> TRUE]}
      BY <1>16, Zenon DEF Conclude
    <3> QED
      BY <3>1, <3>2, <3>3
  <2>5. attempt' \in 1..MaxAttempts /\ pc' \in {"control", "ended"}
    BY <1>16, VersionAssumption DEF ShapeInv, TypeOK, Conclude
  <2>6. /\ resume' \in ResumeState \cup {None}
        /\ partial' \in ResumeState \cup {None}
        /\ tracked' \in BOOLEAN
    BY <1>16, <2>1 DEF ShapeInv, TypeOK, Conclude
  <2> QED
    BY <1>16, <2>2, <2>3, <2>4, <2>5, <2>6
       DEF ShapeInv, TypeOK, FailureState, provider, Conclude
<1>17. CASE End
  <2>1. <<>> \in Bytes /\ Len(<<>>) <= MaxItemBytes
    BY NothingBegins, VersionAssumption
  <2>2. item' \in [state : {"pending", "complete", "failed", "interrupted"},
                    outcome : Outcome, retryable : BOOLEAN]
    BY <1>17 DEF End, ShapeInv, TypeOK
  <2> QED
    BY <1>17, <2>1, <2>2, FailType
       DEF ShapeInv, TypeOK, FailureState, provider, End
<1>18. CASE EndComplete
  <2>1. <<>> \in Bytes /\ Len(<<>>) <= MaxItemBytes
    BY NothingBegins, VersionAssumption
  <2>2. item' \in [state : {"pending", "complete", "failed", "interrupted"},
                    outcome : Outcome, retryable : BOOLEAN]
    BY <1>18 DEF EndComplete, Outcome
  <2> QED
    BY <1>18, <2>1, <2>2 DEF ShapeInv, TypeOK, provider, EndComplete
<1>19. ASSUME NEW q \in Request, Execute(q)
      PROVE  TypeOK'
  <2>1. resume' \in ResumeState \cup {None}
    BY <1>19 DEF Execute, ShapeInv, TypeOK, ResumeState
  <2>2. <<>> \in Bytes /\ 1 \in 1..MaxAttempts /\ 0 \in 0..MaxTotalBytes
    BY NothingBegins, VersionAssumption
  <2>3. runs' \in 0..MaxRuns
    BY <1>19, VersionAssumption DEF Execute, ShapeInv, TypeOK
  <2> QED
    BY <1>19, <2>1, <2>2, <2>3, FailType
       DEF ShapeInv, TypeOK, FailureState, provider, Execute
<1>20. ASSUME NEW q \in Request, NEW v \in Version, ServerChanges(q, v)
      PROVE  TypeOK'
  BY <1>20, FailType, RowFields
     DEF ServerChanges, ShapeInv, StageInv, TypeOK, FailureState, provider,
         durable, engine
<1>21. CASE Stop
  BY <1>21, FailType, RowFields
     DEF Stop, ShapeInv, StageInv, TypeOK, FailureState, provider, durable
<1>22. CASE Crash
  <2>1. <<>> \in Bytes
    BY NothingBegins
  <2>2. file' \in Bytes /\ Len(file') <= MaxItemBytes
    BY <1>22, SessionFields DEF ShapeInv, TypeOK, Unfinished, Crash
  <2>3. item' \in [state : {"pending", "complete", "failed", "interrupted"},
                    outcome : Outcome, retryable : BOOLEAN]
    BY <1>22 DEF Unfinished, Outcome, Crash
  <2> QED
    BY <1>22, <2>1, <2>2, <2>3, FailType
       DEF ShapeInv, TypeOK, FailureState, provider, Unfinished, Crash
<1>23. CASE UNCHANGED vars
  BY <1>23
     DEF vars, provider, durable, engine, ShapeInv, StageInv, TypeOK,
         FailureState, provider, durable, engine
<1> QED
  BY <1>1, <1>2, <1>3, <1>4, <1>5, <1>6, <1>7, <1>8, <1>9, <1>10, <1>11, <1>12,
     <1>13, <1>14, <1>15, <1>16, <1>17, <1>18, <1>19, <1>20, <1>21, <1>22,
     <1>23
     DEF Next, Engine

(* Before the first run nothing is open. *)
LEMMA ShapeInit == Init => ShapeInv
<1>1. ASSUME Init
      PROVE  TypeOK
  <2>1. <<>> \in Bytes /\ Len(<<>>) <= MaxItemBytes
    BY NothingBegins, VersionAssumption
  <2>2. 1 \in 1..MaxAttempts /\ 0 \in 0..MaxTotalBytes /\ 0 \in 0..MaxRuns
    BY VersionAssumption
  <2>3. item \in [state : {"pending", "complete", "failed", "interrupted"},
                  outcome : Outcome, retryable : BOOLEAN]
    BY <1>1 DEF Init, Outcome
  <2> QED
    BY <1>1, <2>1, <2>2, <2>3, FailType DEF Init, TypeOK, FailureState
<1>2. ASSUME Init
      PROVE  ServerInv /\ StageInv /\ RetryInv
  BY <1>2 DEF Init, ServerInv, StageInv, RetryInv
<1> QED
  BY <1>1, <1>2 DEF ShapeInv

(* Types, stages and retries together. *)
LEMMA ShapeStep == ShapeInv /\ [Next]_vars => ShapeInv'
BY ServerStep, StageStep, TypeStep, RetryStep DEF ShapeInv

(* Every state is well typed, and the locals of transfer() are what its    *)
(* stages say.                                                             *)
THEOREM ShapeInvariance == Spec => []ShapeInv
BY ShapeInit, ShapeStep, PTL DEF Spec

(* TypeOK: rows, files, sessions and budgets keep within the limits.       *)
THEOREM TransferTypesStand == Spec => []TypeOK
<1>1. ShapeInv => TypeOK
  BY DEF ShapeInv
<1> QED
  BY <1>1, ShapeInvariance, PTL

(* RowIsRetryable: whatever way a run ends, a row it leaves behind belongs *)
(* to an item the default retry selects.                                   *)
THEOREM LeftRowsAreRetryable == Spec => []RowIsRetryable
<1>1. ShapeInv => RowIsRetryable
  BY DEF ShapeInv, RetryInv, RowIsRetryable
<1> QED
  BY <1>1, ShapeInvariance, PTL

-----------------------------------------------------------------------------
(* What is in the files *)

(* A row that describes all of a file names what the file begins.          *)
LEMMA DescribesAll ==
  ASSUME NEW row, NEW b \in Bytes, Describes(row, b), row.size = Len(b)
  PROVE  ~ row.relabelled =>
            \E v \in Version : Resource[v] = row.request /\ Etag[v] = row.tag /\ Begins(b, v)
BY AllOfThem DEF Describes

(* What is saved after a failure tells the truth about the file it leaves. *)
LEMMA SavedTruth ==
  ASSUME TypeOK, Resumable, ~ Saved.relabelled => Holds(PartialValidator.tag)
  PROVE  Describes(Saved, session.bytes)
<1>1. /\ Saved.size = Len(session.bytes) /\ Saved.request = recipe
      /\ Saved.tag = PartialValidator.tag
  BY DEF Saved
<1>2. session.bytes \in Bytes /\ Len(session.bytes) \in Nat
  BY SessionFields DEF TypeOK, Resumable
<1>3. SubSeq(session.bytes, 1, Saved.size) = session.bytes
  BY <1>1, <1>2, AllOfThem
<1>4. Saved.size <= Len(session.bytes)
  BY <1>1, <1>2
<1>5. ASSUME ~ Saved.relabelled
      PROVE  \E v \in Version :
                /\ Resource[v] = Saved.request /\ Etag[v] = Saved.tag
                /\ Begins(SubSeq(session.bytes, 1, Saved.size), v)
  <2>1. PICK v \in Version :
           /\ Resource[v] = recipe /\ Etag[v] = PartialValidator.tag
           /\ Begins(session.bytes, v)
    BY <1>5 DEF Holds
  <2>2. Begins(SubSeq(session.bytes, 1, Saved.size), v)
    BY <1>3, <2>1, Zenon
  <2> QED
    BY <1>1, <2>1, <2>2, Zenon
<1> QED
  BY <1>4, <1>5, Zenon DEF Describes

(* The file that a run leaves, with what a resumed session appended.       *)
LEMMA LeftFile ==
  ASSUME RowTruth, partial # None,
         NEW f, f = IF session # None /\ session.onRow THEN session.bytes ELSE file
  PROVE  Describes(partial, f)
BY DEF RowTruth

(* A row describes the file it names, whoever appends to it. *)
LEMMA RowStep ==
  ASSUME ShapeInv, RowTruth, FailedTruth, [Next]_vars
  PROVE  RowTruth'
<1>1. CASE ControlStops
  BY <1>1 DEF ControlStops, Fail, RecordRunning, RowTruth, Fail, provider
<1>2. CASE OpenFresh
  BY <1>2 DEF RowTruth, OpenFresh, NewSession
<1>3. CASE OpenResumed
  BY <1>3 DEF RowTruth, OpenResumed
<1>4. CASE OpenRefused
  BY <1>4 DEF OpenRefused, Fail, RecordRunning, RowTruth, Fail, provider
<1>5. ASSUME NEW retryable \in BOOLEAN, SendFails(retryable)
      PROVE  RowTruth'
  BY <1>5 DEF SendFails, Fail, RowTruth, Fail, provider, durable
<1>6. ASSUME NEW retryable \in BOOLEAN, NEW tag \in ErrorTags \cup {NoTag},
             ErrorResponse(tag, retryable)
      PROVE  RowTruth'
  BY <1>6 DEF ErrorResponse, Fail, RowTruth, Fail, provider, durable
<1>7. ASSUME NEW sized \in BOOLEAN, FullResponse(sized)
      PROVE  RowTruth'
  BY <1>7 DEF RowTruth, FullResponse, NewSession, durable
<1>8. ASSUME NEW first \in 1..MaxItemBytes, NEW toEnd \in BOOLEAN, RangeResponse(first, toEnd)
      PROVE  RowTruth'
  BY <1>8
     DEF RangeResponse, RangeAccepted, RangeMatches, Fail, RowTruth, Fail,
         provider, durable
<1>9. CASE RejectResponse
  BY <1>9 DEF RejectResponse, Fail, RowTruth, Fail, provider, durable
<1>10. CASE AcceptResponse
  BY <1>10 DEF AcceptResponse, RowTruth, provider, durable
<1>11. CASE Chunk
  <2>1. /\ session # None /\ response # None /\ response.version \in Version
        /\ TypeOK /\ response.next \in Nat /\ session.bytes \in Bytes
    BY <1>11, SessionFields, ResponseFields
       DEF ShapeInv, StageInv, Answered, TypeOK, Chunk
  <2>2. CASE Fail("limit", FALSE) /\ UNCHANGED <<session, response>>
    BY <1>11, <2>2 DEF RowTruth, Fail, Chunk, durable
  <2>3. CASE Arrives /\ Len(session.bytes) < MaxItemBytes
    <3>1. /\ session'.bytes = Append(session.bytes, <<response.version, response.next>>)
          /\ session'.onRow = session.onRow
      BY <2>1, <2>3, ArrivesFields
    <3>2. partial \in ResumeState \cup {None} /\ UNCHANGED <<partial, file>> /\ pc' = "body"
      BY <1>11, <2>1, <2>3 DEF TypeOK, Chunk, durable, Arrives
    <3>3. ASSUME session.onRow, partial # None
          PROVE  Describes(partial, session'.bytes)
      <4>1. Describes(partial, session.bytes) /\ partial \in ResumeState
        BY <2>1, <3>2, <3>3 DEF RowTruth
      <4>2. <<response.version, response.next>> \in Version \X Nat
        BY <2>1
      <4> QED
        BY <2>1, <3>1, <4>1, <4>2, AppendKeepsPrefix
    <3> QED
      BY <3>1, <3>2, <3>3 DEF RowTruth
  <2> QED
    BY <1>11, <2>2, <2>3, ChunkCases
<1>12. CASE BodyBreaks
  BY <1>12 DEF BodyBreaks, Fail, RowTruth, Fail, provider, durable
<1>13. CASE BodyEnds
  BY <1>13, LeftFile DEF RowTruth, ShapeInv, StageInv, Fail, BodyEnds
<1>14. CASE RecordRefused
  BY <1>14 DEF RecordRefused, RowTruth, Fail, provider, durable
<1>15. CASE Unwind
  BY <1>15, LeftFile DEF RowTruth, Unfinished, Unwind
<1>16. CASE Conclude
  <2>1. session' = None
    BY <1>16 DEF Conclude
  <2>2. CASE Resumable
    <3>1. Describes(Saved, session.bytes)
      BY <1>16, <2>2, SavedTruth DEF ShapeInv, FailedTruth, Conclude
    <3>2. partial' = Saved /\ resume' = Saved /\ file' = session.bytes
      BY <1>16, <2>2 DEF Conclude
    <3> QED
      BY <2>1, <3>1, <3>2 DEF RowTruth
  <2>3. CASE ~ Resumable
    <3>1. /\ partial' = partial /\ resume' = None
          /\ file' = IF session # None /\ session.onRow THEN session.bytes ELSE file
      BY <1>16, <2>3 DEF Conclude
    <3>2. partial # None => Describes(partial, file')
      BY <3>1, LeftFile
    <3> QED
      BY <2>1, <3>1, <3>2 DEF RowTruth
  <2> QED
    BY <2>2, <2>3
<1>17. CASE End
  BY <1>17 DEF RowTruth, ShapeInv, StageInv, End
<1>18. CASE EndComplete
  BY <1>18 DEF RowTruth, ShapeInv, StageInv, EndComplete
<1>19. ASSUME NEW q \in Request, Execute(q)
      PROVE  RowTruth'
  <2>1. UNCHANGED <<partial, file>> /\ session' = None
    BY <1>19 DEF Execute
  <2>2. CASE partial = None
    BY <1>19, <2>1, <2>2 DEF RowTruth, Execute
  <2>3. CASE partial # None
    <3>1. partial \in ResumeState /\ resume' = [partial EXCEPT !.total = reported]
      BY <1>19, <2>3 DEF Execute, ShapeInv, TypeOK
    <3>2. /\ resume'.size = partial.size /\ resume'.request = partial.request
          /\ resume'.tag = partial.tag /\ resume'.relabelled = partial.relabelled
      BY <3>1 DEF ResumeState
    <3>3. Describes(resume', file)
      BY <2>3, <3>2 DEF RowTruth, Describes
    <3> QED
      BY <2>1, <2>3, <3>3 DEF RowTruth
  <2> QED
    BY <2>2, <2>3
<1>20. ASSUME NEW q \in Request, NEW v \in Version, ServerChanges(q, v)
      PROVE  RowTruth'
  BY <1>20 DEF ServerChanges, RowTruth, durable, engine
<1>21. CASE Stop
  BY <1>21 DEF Stop, RowTruth, provider, durable
<1>22. CASE Crash
  BY <1>22, LeftFile DEF RowTruth, Unfinished, Crash
<1>23. CASE UNCHANGED vars
  BY <1>23
     DEF vars, provider, durable, engine, RowTruth, Fail, provider, durable,
         engine
<1> QED
  BY <1>1, <1>2, <1>3, <1>4, <1>5, <1>6, <1>7, <1>8, <1>9, <1>10, <1>11, <1>12,
     <1>13, <1>14, <1>15, <1>16, <1>17, <1>18, <1>19, <1>20, <1>21, <1>22,
     <1>23
     DEF Next, Engine

(* The provider holds something. *)
LEMMA SomeVersion ==
  ASSUME ShapeInv
  PROVE  \E v \in Version : Begins(<<>>, v)
BY NothingBegins, CurrentType DEF ShapeInv

(* A session holds one representation: what a 206 sends follows on what is *)
(* there, because a strong validator names one representation of its URL.  *)
LEMMA SessionStep ==
  ASSUME ShapeInv, RowTruth, SessionTruth, [Next]_vars
  PROVE  SessionTruth'
<1>1. CASE ControlStops
  BY <1>1
     DEF ControlStops, Fail, RecordRunning, SessionTruth, Relabelled, Holds, Fail, provider
<1>2. CASE OpenFresh
  BY <1>2, NewSessionType, NothingBegins, SomeVersion
     DEF SessionTruth, Relabelled, OpenFresh
<1>3. CASE OpenResumed
  <2>1. /\ file \in Bytes /\ Describes(resume, file) /\ resume.size = Len(file)
        /\ resume.request = recipe
    BY <1>3 DEF ShapeInv, TypeOK, RowTruth, OpenResumed, PrefixIntact
  <2>2. /\ session'.bytes = file /\ recipe' = recipe /\ pc' = "send" /\ active' = resume
    BY <1>3 DEF OpenResumed
  <2>3. ~ resume.relabelled =>
           \E v \in Version : Resource[v] = recipe /\ Etag[v] = resume.tag /\ Begins(file, v)
    BY <2>1, DescribesAll
  <2>4. Relabelled' \/ ~ resume.relabelled
    BY <1>3, <2>2 DEF OpenResumed, Relabelled
  <2> QED
    BY <2>2, <2>3, <2>4, Zenon DEF SessionTruth, Holds
<1>4. CASE OpenRefused
  BY <1>4
     DEF OpenRefused, Fail, RecordRunning, SessionTruth, Relabelled, Holds, Fail, provider
<1>5. ASSUME NEW retryable \in BOOLEAN, SendFails(retryable)
      PROVE  SessionTruth'
  BY <1>5 DEF SendFails, Fail, SessionTruth, Relabelled, Holds, Fail, provider, durable
<1>6. ASSUME NEW retryable \in BOOLEAN, NEW tag \in ErrorTags \cup {NoTag},
             ErrorResponse(tag, retryable)
      PROVE  SessionTruth'
  BY <1>6 DEF ErrorResponse, Fail, SessionTruth, Relabelled, Holds, Fail, provider, durable
<1>7. ASSUME NEW sized \in BOOLEAN, FullResponse(sized)
      PROVE  SessionTruth'
  <2>1. current[recipe] \in Version
    BY CurrentType DEF ShapeInv
  <2>2. session'.bytes = <<>> /\ response'.version = current[recipe] /\ pc' = "check"
    BY <1>7, NewSessionType DEF ShapeInv, StageInv, FullResponse
  <2> QED
    BY <2>1, <2>2, NothingBegins DEF SessionTruth, Relabelled
<1>8. ASSUME NEW first \in 1..MaxItemBytes, NEW toEnd \in BOOLEAN, RangeResponse(first, toEnd)
      PROVE  SessionTruth'
  <2>1. UNCHANGED <<session, active, recipe>> /\ pc' \in {"check", "failed"}
    BY <1>8 DEF RangeResponse, Fail
  <2>2. CASE pc' = "failed" \/ Relabelled
    BY <2>1, <2>2 DEF SessionTruth, Relabelled
  <2>3. CASE pc' = "check" /\ ~ Relabelled
    <3>1. /\ RangeAccepted(current[recipe], first, toEnd)
          /\ response'.version = current[recipe] /\ pc = "send"
      BY <1>8, <2>3 DEF RangeResponse, Fail
    <3>2. current[recipe] \in Version /\ Resource[current[recipe]] = recipe
      BY CurrentType DEF ShapeInv
    <3>3. active # None /\ Etag[current[recipe]] = active.tag /\ active.tag # NoTag
      BY <3>1, RowFields DEF RangeAccepted, RangeMatches, ShapeInv, TypeOK
    <3>4. PICK v \in Version :
             Resource[v] = recipe /\ Etag[v] = active.tag /\ Begins(session.bytes, v)
      BY <2>3, <3>1, <3>3 DEF SessionTruth, Holds
    <3>5. v = current[recipe]
      BY <3>2, <3>3, <3>4, ValidatorAssumption
    <3> QED
      BY <2>1, <2>3, <3>1, <3>2, <3>4, <3>5 DEF SessionTruth, Relabelled
  <2> QED
    BY <2>1, <2>2, <2>3
<1>9. CASE RejectResponse
  BY <1>9
     DEF RejectResponse, Fail, SessionTruth, Relabelled, Holds, Fail, provider, durable
<1>10. CASE AcceptResponse
  BY <1>10 DEF AcceptResponse, SessionTruth, Relabelled, Holds, provider, durable
<1>11. CASE Chunk
  <2>1. /\ session # None /\ response # None /\ response.version \in Version
        /\ TypeOK /\ response.next = Len(session.bytes) + 1 /\ session.bytes \in Bytes
        /\ Len(session.bytes) \in Nat
        /\ ~ Relabelled => Begins(session.bytes, response.version)
        /\ Relabelled' = Relabelled
    BY <1>11, SessionFields, ResponseFields
       DEF ShapeInv, StageInv, SessionTruth, Answered, TypeOK, Chunk, Relabelled
  <2>2. CASE Fail("limit", FALSE) /\ UNCHANGED <<session, response>>
    BY <1>11, <2>1, <2>2 DEF SessionTruth, Fail, Chunk, durable
  <2>3. CASE Arrives /\ Len(session.bytes) < MaxItemBytes
    <3>1. /\ session'.bytes = Append(session.bytes, <<response.version, response.next>>)
          /\ response'.version = response.version
      BY <2>1, <2>3, ArrivesFields
    <3>2. Len(session.bytes) < Size[response.version]
      BY <1>11, <2>1, SizeType DEF Chunk, Left
    <3>3. ~ Relabelled => Begins(session'.bytes, response.version)
      BY <2>1, <3>1, <3>2, NextChunkBegins
    <3>4. pc' = "body"
      BY <1>11, <2>3 DEF Chunk, Arrives
    <3> QED
      BY <2>1, <3>1, <3>3, <3>4 DEF SessionTruth
  <2> QED
    BY <1>11, <2>2, <2>3, ChunkCases
<1>12. CASE BodyBreaks
  BY <1>12 DEF BodyBreaks, Fail, SessionTruth, Relabelled, Holds, Fail, provider, durable
<1>13. CASE BodyEnds
  BY <1>13 DEF BodyEnds, Fail, LengthOK, SessionTruth, Relabelled, Holds, Fail, provider
<1>14. CASE RecordRefused
  BY <1>14 DEF RecordRefused, SessionTruth, Relabelled, Holds, Fail, provider, durable
<1>15. CASE Unwind
  BY <1>15 DEF Unwind, Unfinished, SessionTruth, Relabelled, Holds, Fail, provider
<1>16. CASE Conclude
  BY <1>16 DEF Conclude, SessionTruth, Relabelled, Holds, Fail, provider
<1>17. CASE End
  BY <1>17 DEF End, SessionTruth, Relabelled, Holds, Fail
<1>18. CASE EndComplete
  BY <1>18 DEF EndComplete, SessionTruth, ShapeInv, StageInv
<1>19. ASSUME NEW q \in Request, Execute(q)
      PROVE  SessionTruth'
  BY <1>19 DEF Execute, SessionTruth, Relabelled, Holds, Fail, provider
<1>20. ASSUME NEW q \in Request, NEW v \in Version, ServerChanges(q, v)
      PROVE  SessionTruth'
  BY <1>20 DEF ServerChanges, SessionTruth, Relabelled, Holds, Fail, durable, engine
<1>21. CASE Stop
  BY <1>21 DEF Stop, SessionTruth, Relabelled, Holds, Fail, provider, durable
<1>22. CASE Crash
  BY <1>22 DEF Crash, Unfinished, SessionTruth, Relabelled, Holds, Fail, provider
<1>23. CASE UNCHANGED vars
  BY <1>23
     DEF vars, provider, durable, engine, SessionTruth, Relabelled, Holds, Fail, provider,
         durable, engine
<1> QED
  BY <1>1, <1>2, <1>3, <1>4, <1>5, <1>6, <1>7, <1>8, <1>9, <1>10, <1>11, <1>12,
     <1>13, <1>14, <1>15, <1>16, <1>17, <1>18, <1>19, <1>20, <1>21, <1>22,
     <1>23
     DEF Next, Engine

(* A body that breaks off is saved under the validator of its response,    *)
(* which is that of the bytes it brought.                                  *)
LEMMA BodyIsValidated ==
  ASSUME ShapeInv, SessionTruth, pc \in {"check", "body"}, PartialValidator.tag # NoTag,
         ~ Saved.relabelled
  PROVE  Holds(PartialValidator.tag)
<1>1. /\ Answered /\ Begins(session.bytes, response.version)
      /\ active # None => active.tag = response.tag
  BY DEF ShapeInv, StageInv, SessionTruth, Saved, Relabelled
<1>2. PartialValidator.tag = response.tag
  BY <1>1 DEF PartialValidator, ResponseTag, Answered
<1> QED
  BY <1>1, <1>2 DEF Answered, Holds

(* The same when nothing changed but the failure. *)
LEMMA FailsAsItStands ==
  ASSUME UNCHANGED <<recipe, active, session, response>>,
         PartialValidator.tag # NoTag /\ ~ Saved.relabelled => Holds(PartialValidator.tag)
  PROVE  FailedTruth'
<1>1. /\ Resumable' => PartialValidator.tag # NoTag
      /\ Saved'.relabelled = Saved.relabelled
  BY DEF Resumable, PartialValidator, ResponseTag, Saved, Relabels
<1>2. PartialValidator' = PartialValidator
  BY DEF PartialValidator, ResponseTag
<1>3. Holds(PartialValidator.tag) => Holds(PartialValidator.tag)'
  BY <1>2 DEF Holds
<1> QED
  BY <1>1, <1>3 DEF FailedTruth

(* Wherever an attempt breaks off, it is saved under the validator of what *)
(* its session holds.                                                      *)
LEMMA FailedStep ==
  ASSUME ShapeInv, SessionTruth, FailedTruth, [Next]_vars
  PROVE  FailedTruth'
<1>1. CASE ControlStops
  BY <1>1 DEF FailedTruth, Resumable, ShapeInv, StageInv, ControlStops
<1>2. CASE OpenFresh
  BY <1>2 DEF FailedTruth, OpenFresh
<1>3. CASE OpenResumed
  BY <1>3 DEF FailedTruth, OpenResumed
<1>4. CASE OpenRefused
  BY <1>4 DEF FailedTruth, Resumable, ShapeInv, StageInv, OpenRefused
<1>5. ASSUME NEW retryable \in BOOLEAN, SendFails(retryable)
      PROVE  FailedTruth'
  <2>1. PartialValidator.tag # NoTag /\ ~ Saved.relabelled => Holds(PartialValidator.tag)
    BY <1>5
       DEF ShapeInv, StageInv, SessionTruth, PartialValidator, ResponseTag, Saved,
           Relabelled, SendFails
  <2> QED
    BY <1>5, <2>1, FailsAsItStands DEF SendFails
<1>6. ASSUME NEW retryable \in BOOLEAN, NEW tag \in ErrorTags \cup {NoTag},
             ErrorResponse(tag, retryable)
      PROVE  FailedTruth'
  <2>1. /\ UNCHANGED <<recipe, active, session>> /\ pc = "send"
        /\ response' # None /\ response'.tag = tag /\ response'.version = None
    <3>1. response' = [tag |-> tag, total |-> None, version |-> None, next |-> 0]
      BY <1>6 DEF ErrorResponse
    <3>2. response' \in ResponseState
      BY <3>1 DEF ResponseState, Tag
    <3> QED
      BY <1>6, <3>1, <3>2, NoneAssumption DEF ErrorResponse
  <2>2. Resumable' => active # None
    BY <2>1, NothingBegins DEF Resumable, ShapeInv, StageInv
  <2>3. ASSUME active # None, ~ Saved'.relabelled
        PROVE  tag \in {NoTag, active.tag} /\ ~ Relabelled
    BY <2>1, <2>3 DEF Saved, Relabels, Relabelled
  <2>4. ASSUME active # None, ~ Saved'.relabelled
        PROVE  Holds(active.tag) /\ PartialValidator'.tag = active.tag
    BY <2>1, <2>3, <2>4 DEF SessionTruth, PartialValidator, ResponseTag
  <2> QED
    BY <2>1, <2>2, <2>4 DEF FailedTruth, Holds
<1>7. ASSUME NEW sized \in BOOLEAN, FullResponse(sized)
      PROVE  FailedTruth'
  BY <1>7 DEF FailedTruth, FullResponse
<1>8. ASSUME NEW first \in 1..MaxItemBytes, NEW toEnd \in BOOLEAN, RangeResponse(first, toEnd)
      PROVE  FailedTruth'
  <2>1. pc' = "failed" => ~ Resumable'
    BY <1>8 DEF RangeResponse, Fail, Resumable
  <2> QED
    BY <2>1 DEF FailedTruth
<1>9. CASE RejectResponse
  BY <1>9, BodyIsValidated, FailsAsItStands DEF RejectResponse
<1>10. CASE AcceptResponse
  BY <1>10 DEF FailedTruth, AcceptResponse
<1>11. CASE Chunk
  <2>1. CASE Fail("limit", FALSE) /\ UNCHANGED <<session, response>>
    BY <1>11, <2>1, BodyIsValidated, FailsAsItStands DEF Chunk
  <2>2. CASE Arrives
    BY <1>11, <2>2 DEF Arrives, Chunk, FailedTruth
  <2> QED
    BY <1>11, <2>1, <2>2, ChunkCases
<1>12. CASE BodyBreaks
  BY <1>12, BodyIsValidated, FailsAsItStands DEF BodyBreaks
<1>13. CASE BodyEnds
  <2>1. CASE pc' = "staged"
    BY <2>1 DEF FailedTruth
  <2>2. CASE pc' # "staged"
    <3>1. UNCHANGED <<recipe, active, session, response>> /\ pc = "body"
      BY <1>13, <2>2 DEF BodyEnds
    <3> QED
      BY <3>1, BodyIsValidated, FailsAsItStands
  <2> QED
    BY <2>1, <2>2
<1>14. CASE RecordRefused
  BY <1>14 DEF FailedTruth, RecordRefused
<1>15. CASE Unwind
  BY <1>15 DEF FailedTruth, Unfinished, Unwind
<1>16. CASE Conclude
  BY <1>16 DEF FailedTruth, Conclude
<1>17. CASE End
  BY <1>17 DEF FailedTruth, End
<1>18. CASE EndComplete
  BY <1>18 DEF FailedTruth, EndComplete
<1>19. ASSUME NEW q \in Request, Execute(q)
      PROVE  FailedTruth'
  BY <1>19 DEF FailedTruth, Execute
<1>20. ASSUME NEW q \in Request, NEW v \in Version, ServerChanges(q, v)
      PROVE  FailedTruth'
  BY <1>20
     DEF ServerChanges, FailedTruth, Resumable, PartialValidator, ResponseTag,
         Saved, Relabels, Holds, durable, engine
<1>21. CASE Stop
  BY <1>21
     DEF Stop, FailedTruth, Resumable, PartialValidator, ResponseTag, Saved,
         Relabels, Holds, provider, durable
<1>22. CASE Crash
  BY <1>22 DEF FailedTruth, Unfinished, Crash
<1>23. CASE UNCHANGED vars
  BY <1>23
     DEF vars, provider, durable, engine, FailedTruth, Resumable,
         PartialValidator, ResponseTag, Saved, Relabels, Holds
<1> QED
  BY <1>1, <1>2, <1>3, <1>4, <1>5, <1>6, <1>7, <1>8, <1>9, <1>10, <1>11, <1>12,
     <1>13, <1>14, <1>15, <1>16, <1>17, <1>18, <1>19, <1>20, <1>21, <1>22,
     <1>23
     DEF Next, Engine

(* What is staged is what the response brought, all of it if it said how   *)
(* much that is.                                                           *)
LEMMA StagedStep ==
  ASSUME ShapeInv, SessionTruth, StagedTruth, [Next]_vars
  PROVE  StagedTruth'
<1>1. CASE ControlStops
  BY <1>1 DEF ControlStops, Fail, RecordRunning, StagedTruth, Relabelled, provider
<1>2. CASE OpenFresh
  BY <1>2 DEF OpenFresh, NewSession, RecordRunning, StagedTruth, Relabelled, provider
<1>3. CASE OpenResumed
  BY <1>3 DEF OpenResumed, RecordRunning, StagedTruth, Relabelled, provider
<1>4. CASE OpenRefused
  BY <1>4 DEF OpenRefused, Fail, RecordRunning, StagedTruth, Relabelled, provider
<1>5. ASSUME NEW retryable \in BOOLEAN, SendFails(retryable)
      PROVE  StagedTruth'
  BY <1>5 DEF SendFails, Fail, StagedTruth, Relabelled, provider, durable
<1>6. ASSUME NEW retryable \in BOOLEAN, NEW tag \in ErrorTags \cup {NoTag},
             ErrorResponse(tag, retryable)
      PROVE  StagedTruth'
  BY <1>6 DEF ErrorResponse, Fail, StagedTruth, Relabelled, provider, durable
<1>7. ASSUME NEW sized \in BOOLEAN, FullResponse(sized)
      PROVE  StagedTruth'
  BY <1>7 DEF FullResponse, NewSession, StagedTruth, Relabelled, provider, durable
<1>8. ASSUME NEW first \in 1..MaxItemBytes, NEW toEnd \in BOOLEAN, RangeResponse(first, toEnd)
      PROVE  StagedTruth'
  BY <1>8
     DEF RangeResponse, RangeAccepted, RangeMatches, Fail, StagedTruth,
         Relabelled, provider, durable
<1>9. CASE RejectResponse
  BY <1>9 DEF RejectResponse, Fail, StagedTruth, Relabelled, provider, durable
<1>10. CASE AcceptResponse
  BY <1>10 DEF AcceptResponse, StagedTruth, Relabelled, provider, durable
<1>11. CASE Chunk
  BY <1>11 DEF Chunk, Fail, Left, StagedTruth, Relabelled, provider, durable
<1>12. CASE BodyBreaks
  BY <1>12 DEF BodyBreaks, Fail, StagedTruth, Relabelled, provider, durable
<1>13. CASE BodyEnds
  <2>1. /\ ~ Relabelled => Begins(session.bytes, response.version)
        /\ Relabelled' = Relabelled /\ response' = response
    BY <1>13 DEF SessionTruth, BodyEnds, Relabelled
  <2>2. CASE pc' # "staged"
    BY <2>2 DEF StagedTruth
  <2>3. CASE LengthOK /\ staged' = session.bytes
    BY <2>1, <2>3 DEF StagedTruth, LengthOK
  <2> QED
    BY <1>13, <2>2, <2>3 DEF BodyEnds, Fail
<1>14. CASE RecordRefused
  BY <1>14 DEF RecordRefused, StagedTruth, Relabelled, provider, durable
<1>15. CASE Unwind
  BY <1>15 DEF StagedTruth, Unfinished, Unwind
<1>16. CASE Conclude
  BY <1>16 DEF Conclude, StagedTruth, Relabelled, provider
<1>17. CASE End
  BY <1>17 DEF End, StagedTruth
<1>18. CASE EndComplete
  BY <1>18 DEF EndComplete, StagedTruth, Relabelled, provider
<1>19. ASSUME NEW q \in Request, Execute(q)
      PROVE  StagedTruth'
  BY <1>19 DEF StagedTruth, Execute
<1>20. ASSUME NEW q \in Request, NEW v \in Version, ServerChanges(q, v)
      PROVE  StagedTruth'
  BY <1>20 DEF ServerChanges, StagedTruth, Relabelled, durable, engine
<1>21. CASE Stop
  BY <1>21 DEF Stop, StagedTruth, Relabelled, provider, durable
<1>22. CASE Crash
  BY <1>22 DEF StagedTruth, Unfinished, Crash
<1>23. CASE UNCHANGED vars
  BY <1>23
     DEF vars, provider, durable, engine, StagedTruth, Relabelled, provider, durable,
         engine
<1> QED
  BY <1>1, <1>2, <1>3, <1>4, <1>5, <1>6, <1>7, <1>8, <1>9, <1>10, <1>11, <1>12,
     <1>13, <1>14, <1>15, <1>16, <1>17, <1>18, <1>19, <1>20, <1>21, <1>22,
     <1>23
     DEF Next, Engine

(* The next chunk comes to its place. *)
LEMMA AppendInPlace ==
  ASSUME NEW b \in Bytes, InPlace(b), NEW v \in Version
  PROVE  InPlace(Append(b, <<v, Len(b) + 1>>))
<1> DEFINE c == Append(b, <<v, Len(b) + 1>>)
<1>1. DOMAIN b = 1..Len(b) /\ DOMAIN c = 1..(Len(b) + 1) /\ Len(b) \in Nat
  BY DEF Bytes
<1>2. /\ \A k \in 1..Len(b) : c[k] = b[k]
      /\ c[Len(b) + 1] = <<v, Len(b) + 1>>
  BY DEF Bytes
<1> HIDE DEF c
<1>3. \A k \in DOMAIN c : c[k][2] = k
  BY <1>1, <1>2 DEF InPlace
<1> QED
  BY <1>3 DEF InPlace, c

(* Chunks are put where their range says, whatever the response is of. *)
LEMMA PlaceStep ==
  ASSUME ShapeInv, PlaceInv, [Next]_vars
  PROVE  PlaceInv'
<1>1. InPlace(<<>>) /\ NewSession.bytes = <<>>
  BY NewSessionType DEF InPlace
<1>2. CASE ControlStops \/ OpenRefused \/ RejectResponse \/ AcceptResponse \/ BodyBreaks
           \/ RecordRefused \/ Stop
  BY <1>2 DEF PlaceInv, ControlStops, OpenRefused, RejectResponse, AcceptResponse, BodyBreaks,
     RecordRefused, Stop, Fail, durable
<1>3. CASE OpenFresh \/ OpenResumed
  BY <1>1, <1>3 DEF PlaceInv, OpenFresh, OpenResumed
<1>4. ASSUME NEW retryable \in BOOLEAN, NEW tag \in ErrorTags \cup {NoTag},
             SendFails(retryable) \/ ErrorResponse(tag, retryable)
      PROVE  PlaceInv'
  BY <1>4 DEF PlaceInv, SendFails, ErrorResponse, durable
<1>5. ASSUME NEW sized \in BOOLEAN, FullResponse(sized)
      PROVE  PlaceInv'
  BY <1>1, <1>5 DEF PlaceInv, FullResponse, durable
<1>6. ASSUME NEW first \in 1..MaxItemBytes, NEW toEnd \in BOOLEAN, RangeResponse(first, toEnd)
      PROVE  PlaceInv'
  BY <1>6 DEF PlaceInv, RangeResponse, durable
<1>7. CASE Chunk
  <2>1. UNCHANGED <<file, staged>>
    BY <1>7 DEF Chunk, durable
  <2>2. CASE UNCHANGED session
    BY <2>1, <2>2 DEF PlaceInv
  <2>3. CASE Arrives /\ Len(session.bytes) < MaxItemBytes
    <3>1. /\ session # None /\ response # None /\ response.version \in Version /\ TypeOK
          /\ response.next = Len(session.bytes) + 1 /\ session.bytes \in Bytes
          /\ InPlace(session.bytes)
      BY <1>7, SessionFields DEF ShapeInv, StageInv, Answered, TypeOK, PlaceInv, Chunk
    <3>2. session'.bytes = Append(session.bytes, <<response.version, Len(session.bytes) + 1>>)
      BY <2>3, <3>1, ArrivesFields
    <3>3. InPlace(session'.bytes)
      BY <3>1, <3>2, AppendInPlace
    <3> QED
      BY <2>1, <3>3 DEF PlaceInv
  <2> QED
    BY <1>7, <2>2, <2>3, ChunkCases
<1>8. CASE BodyEnds
  BY <1>8 DEF PlaceInv, BodyEnds, ShapeInv, StageInv
<1>9. CASE Unwind \/ Crash
  BY <1>1, <1>9 DEF PlaceInv, Unwind, Crash, Unfinished
<1>10. CASE Conclude
  BY <1>10 DEF PlaceInv, Conclude, Resumable
<1>11. CASE End \/ EndComplete
  BY <1>1, <1>11 DEF PlaceInv, End, EndComplete
<1>12. ASSUME NEW q \in Request, Execute(q)
      PROVE  PlaceInv'
  BY <1>1, <1>12 DEF PlaceInv, Execute
<1>13. ASSUME NEW q \in Request, NEW v \in Version, ServerChanges(q, v)
      PROVE  PlaceInv'
  BY <1>13 DEF PlaceInv, ServerChanges, durable, engine
<1>14. CASE UNCHANGED vars
  BY <1>14 DEF PlaceInv, vars, durable, engine
<1> QED
  BY <1>2, <1>3, <1>4, <1>5, <1>6, <1>7, <1>8, <1>9, <1>10, <1>11, <1>12, <1>13, <1>14, Zenon
     DEF Next, Engine

(* Before the first run there are no bytes. *)
LEMMA TruthInit == Init => TruthInv
<1> SUFFICES ASSUME Init
             PROVE  TruthInv
  OBVIOUS
<1>1. ShapeInv
  BY ShapeInit
<1> QED
  BY <1>1
     DEF Init, TruthInv, PlaceInv, InPlace, RowTruth, SessionTruth, FailedTruth, StagedTruth

(* The whole invariant is inductive. *)
LEMMA TruthStep == IInv /\ [Next]_vars => IInv'
BY ShapeStep, PlaceStep, RowStep, SessionStep, FailedStep, StagedStep DEF IInv, TruthInv

(* What lies in the files and rows is what the provider's validators say,  *)
(* until an error response relabels a partial.                             *)
THEOREM TruthInvariance == Spec => []IInv
<1>1. Init => IInv
  BY ShapeInit, TruthInit DEF IInv
<1>2. IInv /\ [Next]_vars => IInv'
  BY TruthStep
<1> QED
  BY <1>1, <1>2, PTL DEF Spec

(* FileIsOneVersion: whatever the provider replaces between the attempts   *)
(* and runs that fill a file, it joins only ranges that meet and never     *)
(* mixes two representations, and a download of a declared length is one   *)
(* whole representation; after an error response relabelled the partial,   *)
(* the ranges still meet and the length is still that of one.              *)
THEOREM FilesAreOneVersion == Spec => []FileIsOneVersion
<1>1. ASSUME IInv
      PROVE  NeverCombined
  <2>1. pc = "staged" /\ ~ Relabelled => \E v \in Version : Begins(staged, v)
    BY <1>1 DEF IInv, ShapeInv, StageInv, Answered, TruthInv, StagedTruth
  <2> QED
    BY <1>1, <2>1 DEF IInv, TruthInv, PlaceInv, SessionTruth, NeverCombined
<1>2. ASSUME IInv, pc = "staged", response.total # None
      PROVE  \E v \in Version :
                 /\ Resource[v] = recipe
                 /\ Len(staged) = Size[v]
                 /\ ~ Relabelled => staged = Whole(v)
  <2>1. /\ response.version \in Version /\ Resource[response.version] = recipe
        /\ staged \in Bytes /\ Len(staged) = Size[response.version]
        /\ ~ Relabelled => Begins(staged, response.version)
    BY <1>2
       DEF IInv, ShapeInv, TypeOK, StageInv, Answered, TruthInv, StagedTruth
  <2>2. ~ Relabelled => staged = Whole(response.version)
    BY <2>1, AllIsWhole
  <2> QED
    BY <2>1, <2>2
<1>3. IInv => FileIsOneVersion
  BY <1>1, <1>2 DEF FileIsOneVersion, DownloadedWhole
<1>4. Spec => []IInv
  BY TruthInvariance
<1> QED
  BY <1>3, <1>4, PTL

(* RowStands: an active row describes bytes that are in its file, under    *)
(* their validator unless an error response relabelled it, and after the   *)
(* run it belongs to an item that a retry selects.                         *)
THEOREM RowsStand == Spec => []RowStands
<1>1. ASSUME IInv, partial # None
      PROVE  /\ partial.size <= Len(file)
             /\ InPlace(SubSeq(file, 1, partial.size))
  <2>1. /\ Describes(partial, file) /\ InPlace(file) /\ file \in Bytes
        /\ partial \in ResumeState
    BY <1>1 DEF IInv, ShapeInv, TypeOK, TruthInv, RowTruth, PlaceInv
  <2>2. partial.size \in Nat /\ partial.size <= Len(file) /\ Len(file) \in Nat
    BY <2>1, RowFields, VersionAssumption DEF Describes, Bytes
  <2>3. /\ DOMAIN SubSeq(file, 1, partial.size) = 1..partial.size
        /\ \A k \in 1..partial.size : SubSeq(file, 1, partial.size)[k] = file[k]
        /\ DOMAIN file = 1..Len(file)
    BY <2>1, <2>2 DEF Bytes
  <2> QED
    BY <2>1, <2>2, <2>3 DEF InPlace
<1>2. IInv => RowStands
  BY <1>1 DEF IInv, ShapeInv, RetryInv, TruthInv, RowTruth, Describes, RowStands,
         RowValidates, RowIsRetryable
<1>3. Spec => []IInv
  BY TruthInvariance
<1> QED
  BY <1>2, <1>3, PTL

=============================================================================
