-------------------------- MODULE LibraryExpansion --------------------------
(***************************************************************************)
(* library/: artist-library expansions.  A plan names the one target that  *)
(* a seed authorizes; executing it is a synchronization of RemoteSync      *)
(* whose run is bound to the plan and whose pages leave the association    *)
(* of their posts with the execution.                                      *)
(*                                                                         *)
(* A digest is the material it digests.  A fact of the catalog is modelled *)
(* as far as a plan reads it: its revision counts how often it was         *)
(* observed.                                                               *)
(***************************************************************************)
EXTENDS RemoteSync

CONSTANTS
    Account,        \* accounts of the catalog
    Attribution,    \* attribution entities: artists of a booru
    Enumerable,     \* the accounts and attributions with a capability
    Counted,        \* those of them with a count probe
    Tagged,         \* those of them that are tags of e621
    Linked,         \* the two accounts of the one identity candidate
    SeedPost,       \* a post of the catalog that the provider lists, too
    KnownFacts,     \* what the catalog may know at first
    Asked,          \* the seeds and explicit targets an operator asks for
    MaxFacts,       \* bounds of the model: facts changed by others,
    MaxPlans,       \* rows of library_expansion_plans,
    MaxProbes,      \* and of library_expansion_probes,
    MaxClock        \* and different times of day

Target == Account \cup Attribution
Seed == Account \cup {SeedPost}

ASSUME LibraryAssumption ==
    /\ Account \cap Attribution = {} /\ None \notin Target
    /\ Enumerable \subseteq Target
    /\ Counted \subseteq Enumerable /\ Tagged \subseteq Attribution
    /\ \E x, y \in Account : x # y /\ Linked = {x, y}
    /\ SeedPost \in 1..InitialPosts /\ SeedPost \notin Target
    /\ Asked \subseteq Seed \X (Target \cup {None})
    /\ {MaxFacts, MaxPlans, MaxProbes, MaxClock} \subseteq Nat

VARIABLES
    facts,      \* what a plan reads of the catalog
    changes,    \* how many facts others have changed
    clock,      \* the time of day
    plans,      \* library_expansion_plans
    probes,     \* library_expansion_probes
    executions, \* library_expansion_executions
    listed,     \* library_expansion_posts
    work        \* what an invocation of catalog library is about

libraryVars == <<facts, changes, clock, plans, probes, executions, listed, work>>
allVars == <<vars, libraryVars>>

Review == {"none", "pending", "rejected", "confirmed"}
Participant == Account \X {"author", "uploader"}

(* candidate is the identity candidate of Linked with the number of its    *)
(* last decision, twin a post candidate of the seed post.  Of the artist   *)
(* tag: agrees tells that the tag row is still that of its latest          *)
(* standalone observation, redirects that an active alias leads away.      *)
Facts == [rev : [Target \cup {SeedPost} -> Nat],
          candidate : [state : Review, decision : Nat], twin : Review,
          participants : SUBSET Participant, cites : SUBSET Attribution, named : SUBSET Attribution,
          tag : [artist : BOOLEAN, count : Nat \cup {None}, seen : Nat,
                 agrees : BOOLEAN, redirects : BOOLEAN]]

ASSUME FactsAssumption == KnownFacts \subseteq Facts

Choice == [target : Target, revision : Nat \X (Nat \cup {None}) \X Nat \X BOOLEAN,
           mode : {"explicit", "confirmed"}, reference : Nat \cup {None},
           source : {"seed_account", "confirmed_identity", "observed_authorship",
                     "observed_attribution", "explicit_selection"}]
Estimate == [count : Nat, at : Nat] \cup {None}

IsPlan(plan) ==
    /\ plan.seed \in Seed /\ plan.choices \subseteq Choice
    /\ plan.selected \in Choice \cup {None} /\ plan.estimate \in Estimate

(* Of an execution, began, before and clash are history: the facts when it *)
(* was checked, what the provider had listed when its run began, and       *)
(* whether a page of it was refused for a post that it had already.        *)
IsExecution(e) ==
    /\ e.plan \in DOMAIN plans /\ e.run \in DOMAIN runs
    /\ e.predecessor \in (DOMAIN executions) \cup {None}
    /\ e.began \in Facts /\ e.before \subseteq Post /\ e.clash \in BOOLEAN

IsWork(w) ==
    /\ w.stage \in {"planned", "checked", "stored", "probing", "running"}
    /\ IsPlan(w.plan) /\ w.predecessor \in (DOMAIN executions) \cup {None}
    /\ w.row \in (DOMAIN plans) \cup {None} /\ w.began \in Facts \cup {None}

LibraryTypeOK ==
    /\ facts \in Facts /\ changes \in 0..MaxFacts /\ clock \in 0..MaxClock
    /\ \A i \in DOMAIN plans : IsPlan(plans[i].plan) /\ plans[i].at \in 0..MaxClock
    /\ \A i \in DOMAIN probes : probes[i].target \in Target /\ probes[i].count \in Nat \cup {None}
    /\ \A e \in DOMAIN executions : IsExecution(executions[e])
    /\ \A x \in listed : x.execution \in DOMAIN executions /\ x.post \in Post /\ x.page \in Nat
    /\ \A p \in Process : work[p] = None \/ IsWork(work[p])

LibraryIdle ==
    /\ changes = 0 /\ clock = 0
    /\ plans = <<>> /\ probes = <<>> /\ executions = <<>> /\ listed = {}
    /\ work = [p \in Process |-> None]

LibraryInit == Init /\ LibraryIdle /\ facts \in KnownFacts

-----------------------------------------------------------------------------
(* Others change the facts: a synchronization of something else, an import *)
(* or a review.                                                            *)

Decided(candidate, state) ==
    [state |-> state, decision |-> candidate.decision + 1]

Reobserved(x) == [facts EXCEPT !.rev[x] = @ + 1]

Standalone(tag, count) ==
    [tag EXCEPT !.count = count, !.seen = @ + 1, !.agrees = TRUE]

Recategorized(tag) == [tag EXCEPT !.artist = ~@]

Fact ==
    /\ changes < MaxFacts
    /\ changes' = changes + 1
    /\ \/ \E x \in Target \cup {SeedPost} : facts' = Reobserved(x)
       \/ \E state \in {"rejected", "confirmed", "pending"} :
             /\ state # facts.candidate.state
             /\ facts' = [facts EXCEPT !.candidate = Decided(@, state)]
       \/ facts.twin = "none" /\ facts' = [facts EXCEPT !.twin = "pending"]
       \/ \E a \in Account, role \in {"author", "uploader"} :
             /\ <<a, role>> \notin facts.participants
             /\ facts' = [Reobserved(SeedPost) EXCEPT !.participants = @ \cup {<<a, role>>}]
       \/ \E g \in Attribution \ facts.named :
             facts' = [Reobserved(g) EXCEPT !.named = @ \cup {g}]
       \/ \E count \in {None, facts.tag.count} :
             facts' = [facts EXCEPT !.tag = Standalone(@, count)]
       \/ facts' = [facts EXCEPT !.tag = Standalone(Recategorized(@), @.count)]
       \/ facts' = [facts EXCEPT !.tag.redirects = ~@]
    /\ UNCHANGED <<vars, clock, plans, probes, executions, listed, work>>

Tick ==
    /\ clock < MaxClock
    /\ clock' = clock + 1
    /\ UNCHANGED <<vars, facts, changes, plans, probes, executions, listed, work>>

-----------------------------------------------------------------------------
(* Planning reads the facts f and writes nothing *)

(* What it takes to enumerate a target: a capability, for an attribution   *)
(* also its primary name, for a tag of e621 that it is an artist's.        *)
Resolves(t, f) ==
    /\ t \in Enumerable
    /\ t \in Tagged => f.tag.artist
    /\ t \in Attribution \ Tagged => t \in f.named

(* A tag is revised by its standalone observations and by the aliases of   *)
(* its name, not by the posts that bear it.                                *)
TargetRevision(t, f) ==
    IF t \in Tagged THEN <<f.rev[t], f.tag.count, f.tag.seen, f.tag.redirects>>
    ELSE <<f.rev[t], None, 0, FALSE>>

Chosen(t, f, mode, reference, source) ==
    [target |-> t, revision |-> TargetRevision(t, f), mode |-> mode, reference |-> reference,
     source |-> source]

Observed(s, f) == {x[1] : x \in {x \in f.participants : s = SeedPost}}

(* _seed_revision: of a post also its participants and references. *)
SeedRevision(s, f) ==
    IF s \in Account THEN <<f.rev[s], {}, {}>> ELSE <<f.rev[s], f.participants, f.cites>>

(* Mutant: whoever an identity once joined stays a choice. *)
MembersOnceConfirmed(s, f) ==
    {a \in Linked : s \in Linked \ {a} /\ f.candidate.decision > 0}

(* The other accounts of the confirmed identity of a seed. *)
Members(s, f) ==
    {a \in Linked : s \in Linked \ {a} /\ f.candidate.state = "confirmed"}

(* _candidate_choices and _deduplicate: one choice for each target. *)
TargetChoices(s, f) ==
    IF s \in Account
    THEN {Chosen(t, f, "explicit", None, "seed_account") : t \in {s} \cap Enumerable}
         \cup {Chosen(t, f, "confirmed", f.candidate.decision, "confirmed_identity") :
                  t \in Members(s, f) \cap Enumerable}
    ELSE {Chosen(t, f, "explicit", None, "observed_authorship") :
              t \in {x[1] : x \in {x \in f.participants : x[2] = "author"}} \cap Enumerable}
         \cup {Chosen(t, f, "explicit", None, "observed_attribution") :
                  t \in {t \in f.cites : Resolves(t, f)}}

Undecided(state) == state \in {"pending", "rejected"}

(* What was left out, and why: undecided candidates of the seed, targets   *)
(* nothing can enumerate, uploaders.                                       *)
Exclusions(s, f) ==
    (IF Undecided(f.candidate.state) /\ ({s} \cup Observed(s, f)) \cap Linked # {}
     THEN {<<"candidate", f.candidate.state>>} ELSE {})
    \cup (IF s = SeedPost /\ Undecided(f.twin) THEN {<<"twin", f.twin>>} ELSE {})
    \cup {<<"target", t>> : t \in
              IF s = SeedPost THEN (Observed(s, f) \ Enumerable) \cup {t \in f.cites : ~Resolves(t, f)}
              ELSE ({s} \cup Members(s, f)) \ Enumerable}
    \cup {<<"uploader", x[1]>> : x \in {x \in f.participants : s = SeedPost /\ x[2] = "uploader"}}

(* The count of the latest probe that had one; for a tag, what its latest  *)
(* standalone observation says, unless the tag row or an alias disagrees.  *)
EstimateOf(t, f) ==
    LET counted == {i \in DOMAIN probes : probes[i].target = t /\ probes[i].count # None}
    IN  IF t \in Tagged
        THEN IF f.tag.agrees /\ f.tag.artist /\ f.tag.count # None /\ ~f.tag.redirects
             THEN [count |-> f.tag.count, at |-> f.tag.seen] ELSE None
        ELSE IF counted = {} THEN None
             ELSE [count |-> probes[Max(counted)].count, at |-> Max(counted)]

(* plan_library_expansion, with an explicit target or None.  The selection *)
(* note is the same in all plans.  An explicit target that does not        *)
(* resolve is an error, which a comparison takes for another plan.         *)
PlanOf(s, explicit, f) ==
    LET automatic == TargetChoices(s, f)
        named == {Chosen(t, f, "explicit", None, "explicit_selection") :
                    t \in {t \in Target : t = explicit /\ Resolves(t, f)}}
        choices == automatic \cup {c \in named : \A x \in automatic : x.target # c.target}
        selected == IF named # {} THEN CHOOSE c \in named : TRUE
                    ELSE IF Cardinality(choices) = 1 THEN CHOOSE c \in choices : TRUE ELSE None
    IN  [seed |-> s, seedRevision |-> SeedRevision(s, f), choices |-> choices,
         selected |-> selected, exclusions |-> Exclusions(s, f),
         estimate |-> IF selected = None THEN None ELSE EstimateOf(selected.target, f)]

(* execution_revision: everything but the estimate. *)
ExecutionRevision(plan) == [plan EXCEPT !.estimate = None]

(* _fresh_plan: the same plan, made again. *)
ExplicitTarget(plan) ==
    IF plan.selected # None /\ plan.selected.source = "explicit_selection"
    THEN plan.selected.target ELSE None

FreshPlan(plan, f) == PlanOf(plan.seed, ExplicitTarget(plan), f)

(* replan_library_execution: the plan without and with the explicit target, *)
(* each with the stored estimate; none of them is a stale plan.            *)
Replan(e, f) ==
    LET stored == plans[executions[e].plan].plan
    IN  {plan \in {[PlanOf(stored.seed, None, f) EXCEPT !.estimate = stored.estimate],
                   [FreshPlan(stored, f) EXCEPT !.estimate = stored.estimate]} : plan = stored}

-----------------------------------------------------------------------------
(* An invocation plans, and probes or executes what it planned *)

NewWork(plan, predecessor, row) ==
    [stage |-> "planned", plan |-> plan, predecessor |-> predecessor, row |-> row,
     began |-> None]

Work(p, w) == work' = [work EXCEPT ![p] = w]
At(p, stage) == work[p] # None /\ work[p].stage = stage
stored == <<plans, probes, executions, listed>>

Plan(p, s, explicit) ==
    /\ work[p] = None /\ pc[p] = "idle"
    /\ explicit = None \/ Resolves(explicit, facts)
    /\ LET plan == PlanOf(s, explicit, facts) IN
         /\ plan.selected # None
         /\ Work(p, NewWork(plan, None, None))
    /\ UNCHANGED <<vars, facts, changes, clock, stored>>

(* catalog library resume plans the execution e again. *)
PlanResume(p, e) ==
    /\ work[p] = None /\ pc[p] = "idle"
    /\ \E plan \in Replan(e, facts) : Work(p, NewWork(plan, e, executions[e].plan))
    /\ UNCHANGED <<vars, facts, changes, clock, stored>>

(* materialize_expansion_plan, in a transaction of its own: the row of the *)
(* plan's digest is inserted, or found with the same created_at.           *)
Materialize(p, label) ==
    \/ /\ \A i \in DOMAIN plans : plans[i].plan # work[p].plan
       /\ Len(plans) < MaxPlans
       /\ plans' = Append(plans, [plan |-> work[p].plan, at |-> clock])
       /\ Work(p, [work[p] EXCEPT !.stage = label, !.row = Len(plans) + 1])
    \/ /\ UNCHANGED plans
       /\ \E i \in DOMAIN plans :
             /\ plans[i] = [plan |-> work[p].plan, at |-> clock]
             /\ Work(p, [work[p] EXCEPT !.stage = label, !.row = i])

(* LibraryCountProbeService.probe stores the plan, then asks. *)
Probe(p) ==
    /\ At(p, "planned") /\ work[p].predecessor = None
    /\ Len(probes) < MaxProbes
    /\ Materialize(p, "probing")
    /\ UNCHANGED <<vars, facts, changes, clock, probes, executions, listed>>

(* The answer with its count, or any other outcome; a target without a     *)
(* count probe is recorded as unsupported and nothing is asked.            *)
ProbeAnswer(p) ==
    /\ At(p, "probing")
    /\ LET wanted == work[p].plan.selected.target IN
         \E count \in {None} \cup {x \in {Cardinality(live)} : wanted \in Counted} :
             probes' = Append(probes, [target |-> wanted, count |-> count])
    /\ Work(p, None)
    /\ UNCHANGED <<vars, facts, changes, clock, plans, executions, listed>>

(* ArtistLibraryExpansionService._execute compares the plan with a fresh   *)
(* one; a resume also makes the plan of its predecessor again and wants    *)
(* its run paused.                                                         *)
Check(p) ==
    /\ At(p, "planned")
    /\ ExecutionRevision(FreshPlan(work[p].plan, facts)) = ExecutionRevision(work[p].plan)
    /\ LET e == work[p].predecessor IN
         e # None =>
             /\ \E plan \in Replan(e, facts) : ExecutionRevision(plan) = ExecutionRevision(work[p].plan)
             /\ runs[executions[e].run].status = "paused"
    /\ Work(p, [work[p] EXCEPT !.began = facts,
                   !.stage = IF work[p].predecessor = None THEN "checked" ELSE "stored"])
    /\ UNCHANGED <<vars, facts, changes, clock, stored>>

Store(p) ==
    /\ At(p, "checked")
    /\ Materialize(p, "stored")
    /\ UNCHANGED <<vars, facts, changes, clock, probes, executions, listed>>

(* Whatever refuses the plan or kills the invocation before its run began. *)
Abandon(p) ==
    /\ work[p] # None /\ work[p].stage # "running"
    /\ Work(p, None)
    /\ UNCHANGED <<vars, facts, changes, clock, stored>>

-----------------------------------------------------------------------------
(* The run of an execution *)

(* The execution an invocation is running. *)
Running(p) == CHOOSE e \in DOMAIN executions : executions[e].run = run[p]

(* Mutant: a resumed execution does not name its predecessor. *)
NewExecutionAlone(p) ==
    [plan |-> work[p].row, run |-> Len(runs) + 1, predecessor |-> None,
     began |-> work[p].began, before |-> live \cup gone, clash |-> FALSE]

NewExecution(p) ==
    [plan |-> work[p].row, run |-> Len(runs) + 1, predecessor |-> work[p].predecessor,
     began |-> work[p].began, before |-> live \cup gone, clash |-> FALSE]

(* bind_run, in the transaction that begins the run. *)
Bind(p) ==
    /\ At(p, "stored")
    /\ IF work[p].predecessor = None THEN Synchronize(p)
       ELSE Resume(p, executions[work[p].predecessor].run)
    /\ executions' = Append(executions, NewExecution(p))
    /\ Work(p, [work[p] EXCEPT !.stage = "running"])
    /\ UNCHANGED <<facts, changes, clock, plans, probes, listed>>

PostsOf(e) == {x.post : x \in {x \in listed : x.execution = e}}

Repeated(p) == PostsOf(Running(p)) \cap reply[p].posts # {}

(* Writing a page observes its posts, the seed among them, and on e621 it  *)
(* touches the row of the artist tag that they all bear.                   *)
AfterPage(page, t) ==
    [facts EXCEPT !.rev[SeedPost] = IF SeedPost \in page THEN @ + 1 ELSE @,
                  !.tag.agrees = @ /\ (t \in Tagged => page = {})]

(* record_page, in the transaction of the page: every post is associated   *)
(* with the execution and the raw response that listed it.                 *)
CommitListed(p) ==
    /\ At(p, "running")
    /\ Commit(p)
    /\ ~Repeated(p)
    /\ listed' = listed \cup {[execution |-> Running(p), post |-> q, page |-> runs[run[p]].retained] :
                                  q \in reply[p].posts}
    /\ facts' = AfterPage(reply[p].posts, work[p].plan.selected.target)
    /\ UNCHANGED <<changes, clock, plans, probes, executions, work>>

(* The association exists with another raw response: "already has          *)
(* different provenance" rolls the page back and fails the run.            *)
Clash(p) ==
    /\ At(p, "running") /\ pc[p] = "commit"
    /\ Repeated(p)
    /\ Finishing(p, "failed", None)
    /\ executions' = [executions EXCEPT ![Running(p)].clash = TRUE]
    /\ UNCHANGED <<provider, posts, runs, run, spent, late>>
    /\ UNCHANGED <<facts, changes, clock, plans, probes, listed, work>>

(* The other steps of the run.  When it ends, so does the invocation. *)
RunStep(p) ==
    /\ At(p, "running")
    /\ BetweenCommits(p)
    /\ work' = IF pc'[p] = "idle" THEN [work EXCEPT ![p] = None] ELSE work
    /\ UNCHANGED <<facts, changes, clock, stored>>

RunGoesOn(p) == RunStep(p) \/ CommitListed(p) \/ Clash(p)

RunExpires(p) == At(p, "running") /\ Expire(p) /\ UNCHANGED libraryVars

RunKilled(p) ==
    /\ At(p, "running")
    /\ Kill(p)
    /\ Work(p, None)
    /\ UNCHANGED <<facts, changes, clock, stored>>

Invocation(p) ==
    \/ Probe(p) \/ ProbeAnswer(p)
    \/ Check(p) \/ Store(p) \/ Bind(p)
    \/ RunGoesOn(p) \/ RunExpires(p) \/ RunKilled(p)
    \/ Abandon(p)

LibraryNext ==
    \/ Tick
    \/ (Publish \/ \E q \in Post : Remove(q)) /\ UNCHANGED libraryVars
    \/ \E p \in Process :
          \/ \E x \in Asked : Plan(p, x[1], x[2])
          \/ \E e \in DOMAIN executions : PlanResume(p, e)
          \/ Invocation(p)
    \/ Fact

LibrarySpec ==
    /\ LibraryInit /\ [][LibraryNext]_allVars
    /\ \A p \in Process : WF_allVars(RunGoesOn(p))

-----------------------------------------------------------------------------
(* Properties *)

(* What authorizes the chosen target, by itself. *)
Stands(plan, f) ==
    LET c == plan.selected IN
    /\ Resolves(c.target, f)
    /\ \/ c.source = "explicit_selection"
       \/ c.source = "seed_account" /\ c.target = plan.seed
       \/ /\ c.source = "confirmed_identity"
          /\ {c.target, plan.seed} = Linked
          /\ f.candidate = [state |-> "confirmed", decision |-> c.reference]
       \/ c.source = "observed_authorship" /\ <<c.target, "author">> \in f.participants
       \/ c.source = "observed_attribution" /\ c.target \in f.cites

(* The target of an execution was authorized when the execution was        *)
(* checked, also when the plan was made before a review was withdrawn or   *)
(* decided anew, and when it is resumed (library/service.py:105-131).      *)
AuthorityStood ==
    \A e \in DOMAIN executions : Stands(plans[executions[e].plan].plan, executions[e].began)

(* The executions that an execution goes on with, itself and back to the   *)
(* first: the least set with it and the predecessor of each of its own.    *)
HoldsResumed(es) == \A x \in es : executions[x].predecessor \in es \cup {None}

Chain(e) ==
    {x \in DOMAIN executions :
        \A es \in SUBSET DOMAIN executions : e \in es /\ HoldsResumed(es) => x \in es}

(* Every run that an expansion began is bound to exactly one execution,    *)
(* whatever was killed, and a resumed execution is one of the same plan    *)
(* whose predecessor has paused (library/service.py:146-157, the triggers  *)
(* of migration 0008).                                                     *)
RunsAreBound ==
    executions # <<>> =>
        /\ \A r \in DOMAIN runs : \E e \in DOMAIN executions : executions[e].run = r
        /\ \A e, x \in DOMAIN executions :
              /\ e # x => executions[e].run # executions[x].run
              /\ executions[e].predecessor = x =>
                    executions[e].plan = executions[x].plan /\ runs[executions[x].run].status = "paused"

(* A post is associated once for each time its run counted it: what an     *)
(* execution reports as discovered is what its run reports as records.     *)
ProvenanceCounts ==
    \A e \in DOMAIN executions :
        LET r == runs[executions[e].run] IN
        r.status \in {"complete", "paused"} => r.counts.records = Cardinality(PostsOf(e))

(* A page is refused for a post of an earlier page only when a new post    *)
(* shifted a listing by offset: paging by id never lists a post twice.     *)
ClashMeansShift ==
    \A e \in DOMAIN executions :
        executions[e].clash => paging = "offset" /\ live \cup gone # executions[e].before

(* An expansion that completed, over as many resumed executions as it      *)
(* took, has associated every post that was listed all along; by offset    *)
(* only if nothing was removed meanwhile.                                  *)
ChainAssociatesAll ==
    \A e \in DOMAIN executions :
        LET r == executions[e].run IN
        runs[r].status = "complete" /\ Undisturbed(r) =>
            runs[r].since \cap live \subseteq UNION {PostsOf(x) : x \in Chain(e)}

(* Planning a paused execution again gives its plan while the facts are    *)
(* those it was checked with, also after probes and pages changed what is  *)
(* estimated (library/planning.py:826-876).                                *)
ReplanReproduces ==
    \A e \in DOMAIN executions :
        [facts EXCEPT !.tag.agrees = TRUE] = [executions[e].began EXCEPT !.tag.agrees = TRUE] =>
            Replan(e, facts) # {}

(* An execution does what its plan authorized, is bound to the runs that   *)
(* do it, and can be planned again while nothing it rests on has changed.  *)
ExpansionStands == AuthorityStood /\ RunsAreBound /\ ReplanReproduces

(* The library has of a listing what its executions say: every post they   *)
(* count, every post listed where they are complete, and none twice.       *)
LibraryIsListed == ProvenanceCounts /\ ClashMeansShift /\ ChainAssociatesAll

(* What the specification of library expansion promises of a paused        *)
(* execution that committed a page: as long as nobody else changes a fact, *)
(* it can be planned again to be resumed.                                  *)
PausedCanResume ==
    \A e \in DOMAIN executions :
        /\ runs[executions[e].run].status = "paused" /\ PostsOf(e) # {}
        /\ changes = 0
        => Replan(e, facts) # {}

=============================================================================
