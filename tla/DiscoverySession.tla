-------------------------- MODULE DiscoverySession --------------------------
(***************************************************************************)
(* discovery/orchestration.py: a session that puts the questions of one    *)
(* seed to the local catalog and to the providers, and follows the posts   *)
(* that were found for one more generation.  Its provider steps plan and   *)
(* execute lookups of CandidateLookup under one budget of requests.        *)
(***************************************************************************)
EXTENDS CandidateLookup

CONSTANTS
    SessionProcess, \* the invocations of catalog discover
    MaxSessions     \* a bound of the model

VARIABLES
    sessions,   \* discovery_sessions with their discovery_steps
    exec        \* what an invocation is executing

sessionVars == <<sessions, exec>>
vars == <<lookupVars, sessionVars>>

LocalMethods == <<"local_md5", "local_source_url", "local_platform_identity">>
StepStatus == {"planned", "skipped", "excluded", "complete", "failed"}
Outcome == {None, "success", "error", "provider_failure", "budget_exhausted"}

(* runs is what the detail of a step names. *)
Step == [source : Provider \cup {"catalog"}, method : Range(LocalMethods) \cup Strategy \cup {"fetch_post"},
         target : Post \cup Material \cup {None}, seed : Seed \cup {None},
         generation : 0..1, status : StepStatus, outcome : Outcome, runs : Seq(Nat)]

(* sent, peeked and killed are history: the requests really sent, whether  *)
(* someone reported the session while it was executed, and whether its     *)
(* execution was cut short.                                                *)
Session == [seed : Seed, live : BOOLEAN, budget : Nat \ {0}, steps : Seq(Step),
            status : {"planning", "planned", "complete"}, finished : BOOLEAN,
            sent : Nat, peeked : BOOLEAN, killed : BOOLEAN]

Exec == [session : Nat \ {0}, todo : SUBSET (Nat \ {0}), wave : 0..2, spent : Nat,
         fetched : Seq(Post), late : BOOLEAN]

ASSUME SessionAssumption ==
    /\ SessionProcess \subseteq Process /\ MaxSessions \in Nat
    /\ "catalog" \notin Provider /\ "fetch_post" \notin Strategy
    /\ None \notin Exec

SessionTypeOK ==
    /\ LookupTypeOK
    /\ sessions \in Seq(Session)
    /\ exec \in [SessionProcess -> Exec \cup {None}]

Init ==
    /\ LookupInit
    /\ sessions = <<>>
    /\ exec = [p \in SessionProcess |-> None]

-----------------------------------------------------------------------------
(* Entry and planning *)

NewStep(source, method, target, seed, generation, status) ==
    [source |-> source, method |-> method, target |-> target, seed |-> seed,
     generation |-> generation, status |-> status, outcome |-> None, runs |-> <<>>]

LocalStep(s, method) ==
    NewStep("catalog", method, None, None, 0,
            IF s \in Post \/ (s \in File /\ method = "local_md5") THEN "planned" ELSE "excluded")

ProviderStep(s, term, provider, strategy) ==
    NewStep(provider, strategy, None, None, 0,
            IF <<provider, strategy>> \notin Supported THEN "skipped"
            ELSE IF Plannable(s, strategy, term) /\ MaterialsFor(s, strategy) # <<>>
            THEN "planned" ELSE "excluded")

(* plan(): the three local methods, and every strategy of every provider. *)
PlannedSteps(s, term) ==
    [i \in DOMAIN LocalMethods |-> LocalStep(s, LocalMethods[i])] \o
    InOrder([x \in (DOMAIN Providers) \X (DOMAIN Strategies) \X {0} |->
                ProviderStep(s, term, Providers[x[1]], Strategies[x[2]])])

NewSession(s, live, budget, steps, status) ==
    [seed |-> s, live |-> live, budget |-> budget, steps |-> steps, status |-> status,
     finished |-> FALSE, sent |-> 0, peeked |-> FALSE, killed |-> FALSE]

IsLocal(step) == step.source = "catalog"

(* The rows execute() goes through.  What is excluded or skipped, and      *)
(* every provider step without authorization, stays as it is.              *)
ToDo(steps, live) ==
    {i \in DOMAIN steps : steps[i].status = "planned" /\ (IsLocal(steps[i]) \/ live)}

NewExec(session, todo) ==
    [session |-> session, todo |-> todo, wave |-> 0, spent |-> 0, fetched |-> <<>>, late |-> FALSE]

Starting(p) == At(p, "idle") /\ Len(sessions) < MaxSessions

(* A URL materializes its post first; the session and its steps are one    *)
(* transaction after that.                                                 *)
Materialize(s) ==
    /\ s \in Post /\ origin[s] = Absent
    /\ origin' = [origin EXCEPT ![s] = Seeded]
    /\ UNCHANGED <<answers, lookups, pc, work, sessionVars>>

Start(p, s, live, budget, term) ==
    /\ Starting(p)
    /\ s \notin File /\ origin[s] # Absent
    /\ LET steps == PlannedSteps(s, term) IN
         /\ sessions' = Append(sessions, NewSession(s, live, budget, steps, "planned"))
         /\ exec' = [exec EXCEPT ![p] = NewExec(Len(sessions) + 1, ToDo(steps, live))]
    /\ Goto(p, "step")
    /\ UNCHANGED <<answers, origin, lookups, work>>

(* A bare file: the session is inserted, then its seed; they are committed *)
(* before the steps are planned.                                           *)
StartFile(p, f, live, budget) ==
    /\ Starting(p)
    /\ f \in File
    /\ origin' = [origin EXCEPT ![f] = Seeded]
    /\ sessions' = Append(sessions, NewSession(f, live, budget, <<>>, "planning"))
    /\ exec' = [exec EXCEPT ![p] = NewExec(Len(sessions) + 1, {})]
    /\ Goto(p, "plan")
    /\ UNCHANGED <<answers, lookups, work>>

PlanFile(p) ==
    /\ At(p, "plan")
    /\ LET s == exec[p].session
           steps == PlannedSteps(sessions[s].seed, FALSE)
       IN  /\ sessions' = [sessions EXCEPT ![s].steps = steps, ![s].status = "planned"]
           /\ exec' = [exec EXCEPT ![p].todo = ToDo(steps, sessions[s].live)]
    /\ Goto(p, "step")
    /\ UNCHANGED <<answers, origin, lookups, work>>

-----------------------------------------------------------------------------
(* Execution *)

Mine(p) == sessions[exec[p].session]
CurrentStep(p) == Min(exec[p].todo)
Current(p) == Mine(p).steps[CurrentStep(p)]
Remaining(p) == Mine(p).budget - exec[p].spent

AtStep(p) == At(p, "step") /\ exec[p].todo # {}
Authorized(p) == Mine(p).live
Due(p) == AtStep(p) /\ ~IsLocal(Current(p))
Spent(p) == exec[p].late \/ Remaining(p) <= 0

(* _finish_step: commits at once. *)
FinishedStep(p, status, outcome, runs, sent) ==
    LET s == exec[p].session
        i == CurrentStep(p)
    IN  [sessions EXCEPT ![s].steps[i] = [@ EXCEPT !.status = status, !.outcome = outcome,
                                                   !.runs = runs],
                         ![s].sent = @ + sent]

NextStep(p, spent) ==
    exec' = [exec EXCEPT ![p].todo = @ \ {CurrentStep(p)}, ![p].spent = @ + spent]

(* The local questions are always answered. *)
ExecuteLocal(p) ==
    /\ AtStep(p) /\ IsLocal(Current(p))
    /\ sessions' = FinishedStep(p, "complete", "success", <<>>, 0)
    /\ NextStep(p, 0)
    /\ UNCHANGED lookupVars

StepExhausted(p) ==
    /\ Due(p) /\ Spent(p)
    /\ sessions' = FinishedStep(p, "failed", "budget_exhausted", <<>>, 0)
    /\ NextStep(p, 0)
    /\ UNCHANGED lookupVars

StepSeed(p) == IF Current(p).seed = None THEN Mine(p).seed ELSE Current(p).seed

(* _execute_provider: the plan of the step's strategy, each of its items   *)
(* with what is left of the budget.  A search term is kept for no session  *)
(* that could use one, so that an account's plan raises.                   *)
StepLookup(p) ==
    /\ Due(p) /\ ~Spent(p)
    /\ Current(p).method \in Strategy
    /\ IF Plannable(StepSeed(p), Current(p).method, FALSE)
       THEN /\ work' = [work EXCEPT ![p] =
                 NewWork(StepSeed(p), Current(p).source, Remaining(p),
                         PlanItems(StepSeed(p), Current(p).source, Current(p).method), 0, 1)]
            /\ Goto(p, "check")
            /\ UNCHANGED sessionVars
       ELSE /\ sessions' = FinishedStep(p, "failed", "error", <<>>, 0)
            /\ NextStep(p, 0)
            /\ UNCHANGED <<pc, work>>
    /\ UNCHANGED <<answers, origin, lookups>>

AllComplete(runs) == \A r \in Range(runs) : lookups[r].status = "complete"

(* The lookups of a step have returned, or one of them raised: then what   *)
(* the plan has done and requested so far is forgotten.                    *)
StepReturns(p) ==
    /\ At(p, "returned")
    /\ work[p].unwinds # "exit"
    /\ LET runs == work[p].ran
           sent == work[p].sent
           done == AllComplete(runs)
       IN  IF work[p].unwinds = "raise"
           THEN sessions' = FinishedStep(p, "failed", "error", <<>>, sent) /\ NextStep(p, 0)
           ELSE /\ sessions' = FinishedStep(p, IF done THEN "complete" ELSE "failed",
                                            IF done THEN "success" ELSE "provider_failure",
                                            runs, sent)
                /\ NextStep(p, sent)
    /\ work' = [work EXCEPT ![p] = None]
    /\ Goto(p, "step")
    /\ UNCHANGED <<answers, origin, lookups>>

(* fetch_post of a follow-up: a synchronization of one page (RemoteSync).  *)
StepFetches(p) ==
    /\ Due(p) /\ ~Spent(p)
    /\ Current(p).method = "fetch_post"
    /\ \/ /\ origin' = [origin EXCEPT ![Current(p).target] = Synced]
          /\ sessions' = FinishedStep(p, "complete", "success", <<>>, 1)
          /\ exec' = [exec EXCEPT ![p].todo = @ \ {CurrentStep(p)}, ![p].spent = @ + 1,
                                  ![p].fetched = Append(@, Current(p).target)]
       \/ /\ sessions' = FinishedStep(p, "failed", "provider_failure", <<>>, 1)
          /\ NextStep(p, 1)
          /\ UNCHANGED origin
       \/ /\ sessions' = FinishedStep(p, "failed", "error", <<>>, 1)
          /\ NextStep(p, 0)
          /\ UNCHANGED origin
    /\ UNCHANGED <<answers, lookups, pc, work>>

-----------------------------------------------------------------------------
(* The follow-up generation *)

Identity(step) == <<step.source, step.method, step.target>>

(* The first step of an identity the session does not have yet. *)
NewSteps(existing, found) ==
    LET identities == {Identity(existing[i]) : i \in DOMAIN existing}
        new == {x \in DOMAIN found :
                   /\ Identity(found[x]) \notin identities
                   /\ \A y \in DOMAIN found :
                         Before(y, x) => Identity(found[y]) # Identity(found[x])}
    IN  InOrder([x \in new |-> found[x]])

(* The posts found by any lookup for this seed, by this session or not. *)
Hits(s) ==
    UNION {{lookups[r].provider} \X lookups[r].results :
              r \in {x \in DOMAIN lookups : lookups[x].seed = s}}

FollowHits(s) ==
    LET hits == SetToSeq(Hits(s))
    IN  [x \in (DOMAIN hits) \X {0} \X {0} |->
            NewStep(hits[x[1]][1], "fetch_post", hits[x[1]][2], None, 1, "planned")]

(* Wave B: every material of a fetched post, at every provider.  The URL   *)
(* of a fetched post resolves to that post, whose fetch exists already.    *)
FollowPosts(posts) ==
    LET material(x) == Materials[posts[x[1]]][x[3]]
        places == {x \in UNION {{i} \X (DOMAIN Providers) \X (DOMAIN Materials[posts[i]]) :
                                    i \in DOMAIN posts} :
                      /\ <<Providers[x[2]], StrategyOf[material(x)]>> \in Supported
                      /\ StrategyOf[material(x)] \notin Artist}
    IN  [x \in places |-> NewStep(Providers[x[2]], StrategyOf[material(x)], material(x),
                                  posts[x[1]], 1, "planned")]

Follow(p, found) ==
    LET s == exec[p].session
        steps == Mine(p).steps
        new == NewSteps(steps, found)
    IN  /\ sessions' = [sessions EXCEPT ![s].steps = @ \o new]
        /\ exec' = [exec EXCEPT ![p].todo = {Len(steps) + i : i \in DOMAIN new},
                                ![p].wave = @ + 1]
        /\ UNCHANGED lookupVars

WaveOver(p, wave) == At(p, "step") /\ exec[p].todo = {} /\ exec[p].wave = wave

WaveA(p) == WaveOver(p, 0) /\ Authorized(p) /\ Follow(p, FollowHits(Mine(p).seed))

(* Mutant: the posts to fetch are followed whether they were fetched or not. *)
WaveBAll(p) ==
    LET fetches == SelectSeq(Mine(p).steps, LAMBDA step : step.method = "fetch_post")
    IN  WaveOver(p, 1) /\ Follow(p, FollowPosts([i \in DOMAIN fetches |-> fetches[i].target]))

WaveB(p) == WaveOver(p, 1) /\ exec[p].fetched # <<>> /\ Follow(p, FollowPosts(exec[p].fetched))

-----------------------------------------------------------------------------
(* Reporting *)

Pending(steps) == \E i \in DOMAIN steps : steps[i].status = "planned"

(* report(): the status is stored by the first report only. *)
Reported(session) ==
    IF session.finished THEN session
    ELSE [session EXCEPT !.finished = TRUE,
                         !.status = IF Pending(session.steps) THEN "planned" ELSE "complete"]

(* Mutant: a session that fetched nothing is not reported. *)
OverFetched(p) == (WaveOver(p, 0) /\ ~Authorized(p)) \/ WaveOver(p, 2)

Over(p) ==
    \/ WaveOver(p, 0) /\ ~Authorized(p)
    \/ WaveOver(p, 1) /\ exec[p].fetched = <<>>
    \/ WaveOver(p, 2)

Stop(p) ==
    /\ exec' = [exec EXCEPT ![p] = None]
    /\ Goto(p, "idle")
    /\ work' = [work EXCEPT ![p] = None]

Report(p) ==
    /\ Over(p)
    /\ sessions' = [sessions EXCEPT ![exec[p].session] = Reported(@)]
    /\ Stop(p)
    /\ UNCHANGED <<answers, origin, lookups>>

(* catalog discover --session, from elsewhere. *)
Executed(s) == \E p \in SessionProcess : exec[p] # None /\ exec[p].session = s

Inspected(session, executed) ==
    [Reported(session) EXCEPT !.peeked = Reported(session).peeked \/ executed]

Inspect(s) ==
    /\ sessions' = [sessions EXCEPT ![s] = Inspected(@, Executed(s))]
    /\ UNCHANGED <<lookupVars, exec>>

(* An interrupted lookup is paused, and the interrupt ends the session. *)
Aborted(p) ==
    /\ At(p, "returned")
    /\ work[p].unwinds = "exit"
    /\ sessions' = [sessions EXCEPT ![exec[p].session].killed = TRUE]
    /\ Stop(p)
    /\ UNCHANGED <<answers, origin, lookups>>

KillSession(p) ==
    /\ exec[p] # None
    /\ sessions' = [sessions EXCEPT ![exec[p].session].killed = TRUE]
    /\ lookups' = Abandoned(p)
    /\ Stop(p)
    /\ UNCHANGED <<answers, origin>>

Expire(p) ==
    /\ Due(p)
    /\ ~exec[p].late
    /\ exec' = [exec EXCEPT ![p].late = TRUE]
    /\ UNCHANGED <<lookupVars, sessions>>

SessionStep(p) ==
    \/ PlanFile(p)
    \/ ExecuteLocal(p) \/ StepExhausted(p)
    \/ StepLookup(p) \/ StepFetches(p) \/ StepReturns(p) \/ Aborted(p)
    \/ WaveA(p) \/ WaveB(p) \/ Report(p)
    \/ LookupStep(p) /\ UNCHANGED sessionVars

Discover ==
    \/ \E s \in Post : Materialize(s)
    \/ \E s \in DOMAIN sessions : Inspect(s)
    \/ \E p \in SessionProcess :
          \/ \E live \in BOOLEAN, budget \in Budgets :
                \/ \E s \in Seed, term \in BOOLEAN : Start(p, s, live, budget, term)
                \/ \E f \in File : StartFile(p, f, live, budget)
          \/ SessionStep(p) \/ Expire(p) \/ KillSession(p)

ByHand ==
    /\ \E p \in Process \ SessionProcess :
          \/ \E limit \in Budgets :
                \/ \E s \in Seed, provider \in Provider, strategy \in Strategy :
                      LookUp(p, s, provider, strategy, limit)
                \/ \E r \in DOMAIN lookups : Resume(p, r, limit)
          \/ LookupStep(p) \/ Done(p) \/ Kill(p)
    /\ UNCHANGED sessionVars

Synchronize == (\E s \in Seed : Synchronized(s)) /\ UNCHANGED sessionVars

Next == Discover \/ ByHand \/ Synchronize

Spec == Init /\ [][Next]_vars /\ \A p \in SessionProcess : WF_vars(SessionStep(p))

-----------------------------------------------------------------------------
(* Properties *)

(* A step that is complete rests on lookups that all are: one that was     *)
(* paused, failed or never begun is told as a failure, whatever the other  *)
(* lookups of its plan found (orchestration.py:499-514).                   *)
CompleteStepIsAnswered ==
    \A s \in DOMAIN sessions : \A i \in DOMAIN sessions[s].steps :
        LET step == sessions[s].steps[i] IN
        step.status = "complete" =>
            \A r \in Range(step.runs) :
                /\ lookups[r].status = "complete"
                /\ Collected(r) = AllHits(r)

(* What a session follows up, it was led to: a post it fetches was found   *)
(* by a lookup for its own seed, and a material it looks up belongs to a   *)
(* post that it fetched itself.  So nothing that the follow-up finds is    *)
(* followed in its turn (orchestration.py:527-661).                        *)
FollowupsAreLedTo ==
    \A s \in DOMAIN sessions : \A i \in DOMAIN sessions[s].steps :
        LET step == sessions[s].steps[i] IN
        step.generation = 1 =>
            LET fetched == {sessions[s].steps[j].target :
                           j \in {k \in 1..(i - 1) :
                                     /\ sessions[s].steps[k].method = "fetch_post"
                                     /\ sessions[s].steps[k].status = "complete"}}
            IN  IF step.method = "fetch_post"
                THEN \E r \in DOMAIN lookups :
                        /\ lookups[r].seed = sessions[s].seed
                        /\ lookups[r].provider = step.source
                        /\ step.target \in lookups[r].results
                ELSE step.seed \in fetched /\ step.target \in Range(Materials[step.seed])

(* While no step asked about more than one material or ended by an         *)
(* exception, a session has sent no more requests than its budget: each    *)
(* lookup is limited by what the ones before it left.  With several        *)
(* materials each of them gets all that is left (orchestration.py:483-503).*)
SingleMaterialWithinBudget ==
    \A s \in DOMAIN sessions :
        (\A i \in DOMAIN sessions[s].steps :
            /\ Len(sessions[s].steps[i].runs) <= 1
            /\ sessions[s].steps[i].outcome # "error") =>
        sessions[s].sent <= sessions[s].budget

(* What the report of an uninterrupted session stored is what its steps    *)
(* say: nothing is pending in a complete one, and a live session leaves    *)
(* nothing pending at all.                                                 *)
ReportTellsSteps ==
    \A s \in DOMAIN sessions :
        LET session == sessions[s] IN
        session.finished /\ ~session.peeked /\ ~session.killed =>
            /\ session.status = "complete" <=> ~Pending(session.steps)
            /\ session.live => ~Pending(session.steps)
            /\ \A i \in DOMAIN session.steps :
                  session.steps[i].status = "planned" => ~IsLocal(session.steps[i])

(* A session that is executed and not killed is reported. *)
SessionEnds ==
    \A s \in 1..MaxSessions :
        Executed(s) ~> s \in DOMAIN sessions /\ (sessions[s].finished \/ sessions[s].killed)

(* Complete means answered: a lookup and a step that say so rest on a      *)
(* chain of runs that asked one question to its end, and a lookup that     *)
(* does not say so says why.                                               *)
CompleteIsAnswered ==
    CompleteChainCovers /\ ChainAsksTheSame /\ NoRunLeftBehind /\ CompleteStepIsAnswered

(* A session keeps to its seed, its budget and its report.                 *)
SessionKeepsBounds == FollowupsAreLedTo /\ SingleMaterialWithinBudget /\ ReportTellsSteps

=============================================================================
