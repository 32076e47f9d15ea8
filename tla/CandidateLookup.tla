-------------------------- MODULE CandidateLookup --------------------------
(***************************************************************************)
(* candidate_lookup/: bounded lookups that ask a provider for what matches *)
(* a seed of the catalog, their plans, their paged execution and the       *)
(* resumption of a paused one, with persistence/lookup.py.                 *)
(*                                                                         *)
(* A seed is a post, an account or a local file.  What a provider answers  *)
(* for a material is a sequence of pages, each a set of its posts.  The    *)
(* revision of a seed is what wrote its row last: identical bytes from one *)
(* source are one raw observation, so that a page received again leaves    *)
(* the revision as it was.  RemoteSync has the executor in full, with its  *)
(* retries; here one request with its answer is a step, a page another.    *)
(***************************************************************************)
EXTENDS Naturals, Sequences, FiniteSets, SequencesExt, FiniteSetsExt

CONSTANTS
    Process,        \* invocations of the command line
    Post, Account, File,    \* the seeds there may be
    Material,       \* what a lookup asks about: a hash, a URL, a name
    Providers,      \* LOOKUP_PROVIDERS, in order
    Strategies,     \* LookupStrategy, in order
    Artist,         \* the strategies that need an operator's search term
    Supported,      \* pairs of a provider and a strategy it declares
    StrategyOf,     \* of each material
    Materials,      \* of each seed, in order
    Answers,        \* what the providers may answer: pages of posts
    PageLimit,      \* limits.pages
    Budgets,        \* limits.requests an operator may choose
    MaxRuns,        \* a bound of the model: lookups begun by hand
    Watched,        \* a bound of the model: the seeds that are synchronized
    None

Seed == Post \cup Account \cup File
Provider == Range(Providers)
Strategy == Range(Strategies)
Asked == Provider \X Material

VARIABLES
    answers,    \* what the providers answer, in this behaviour
    origin,     \* what wrote the row of each seed last: its revision
    lookups,    \* candidate_lookup_runs with their checkpoint and results
    pc,         \* where an invocation stands
    work        \* the plan it executes and the lookup it is at

lookupVars == <<answers, origin, lookups, pc, work>>

Page == Nat \ {0}
Absent == <<"absent">>
Seeded == <<"seeded">>
Synced == <<"synced">>
FromPage(asked, page) == <<"page", asked, page>>
Origin == {Absent, Seeded, Synced} \cup {"page"} \X Asked \X Page
Item == [material : Material, revision : Origin]
Status == {"running", "complete", "paused", "failed"}

(* asked is history: the requests sent so far, counted in the row or not. *)
Lookup == [seed : Seed, provider : Provider, material : Material,
           revision : Origin, pred : Nat, status : Status, pages : Nat,
           checkpoint : Page \cup {None}, results : SUBSET Post,
           requests : Nat, asked : Nat, killed : BOOLEAN]

(* sent is the sum of what the lookups that ran have requested. *)
Work == [seed : Seed, provider : Provider, limit : Nat \ {0}, queue : Seq(Item),
         pred : Nat, run : Nat, page : Page, pages : Nat,
         ending : {None, "complete", "paused", "failed"},
         unwinds : {"no", "raise", "exit"}, ran : Seq(Nat), sent : Nat]

ASSUME LookupAssumption ==
    /\ Providers \in Seq(Provider) /\ Strategies \in Seq(Strategy)
    /\ Artist \subseteq Strategy /\ Supported \subseteq Provider \X Strategy
    /\ IsFiniteSet(Post)
    /\ StrategyOf \in [Material -> Strategy]
    /\ Materials \in [Seed -> Seq(Material)]
    /\ Answers \subseteq [Asked -> Seq(SUBSET Post) \ {<<>>}]
    /\ PageLimit \in Nat \ {0} /\ Budgets \subseteq Nat \ {0}
    /\ MaxRuns \in Nat /\ Watched \subseteq Post \cup Account
    /\ None \notin Work \cup Page \cup Seed

Question(r) == <<lookups[r].provider, lookups[r].material>>

LookupTypeOK ==
    /\ answers \in Answers
    /\ origin \in [Seed -> Origin]
    /\ lookups \in Seq(Lookup)
    /\ \A r \in DOMAIN lookups :
          lookups[r].checkpoint \in DOMAIN answers[Question(r)] \cup {None}
    /\ work \in [Process -> Work \cup {None}]

LookupInit ==
    /\ answers \in Answers
    /\ origin \in [Seed -> {Absent, Seeded}]
    /\ \A s \in Account : origin[s] # Absent
    /\ \A s \in File : origin[s] = Absent
    /\ lookups = <<>>
    /\ pc = [p \in Process |-> "idle"]
    /\ work = [p \in Process |-> None]

At(p, label) == pc[p] = label
Goto(p, label) == pc' = [pc EXCEPT ![p] = label]
Asking(p) == <<work[p].provider, Head(work[p].queue).material>>
Pages(p) == answers[Asking(p)]

-----------------------------------------------------------------------------
(* Planning: plan_candidate_lookup *)

(* Places in nested loops, what the outermost counts first, and what is    *)
(* found at places, in their order.                                        *)
Before(x, y) ==
    \/ x[1] < y[1]
    \/ x[1] = y[1] /\ x[2] < y[2]
    \/ x[1] = y[1] /\ x[2] = y[2] /\ x[3] < y[3]

InOrder(found) ==
    [n \in 1..Cardinality(DOMAIN found) |->
        found[CHOOSE x \in DOMAIN found :
                 Cardinality({y \in DOMAIN found : Before(y, x)}) = n - 1]]

MaterialsFor(s, strategy) ==
    LET at == {i \in DOMAIN Materials[s] : StrategyOf[Materials[s][i]] = strategy}
    IN  InOrder([x \in at \X {0} \X {0} |-> Materials[s][x[1]]])

(* A seed that is not in the catalog, or an artist strategy of an account  *)
(* without a search term, raises; the rest is planned or excluded.         *)
Plannable(s, strategy, term) ==
    origin[s] # Absent /\ (s \in Account /\ strategy \in Artist => term)

PlanItems(s, provider, strategy) ==
    IF <<provider, strategy>> \notin Supported THEN <<>>
    ELSE LET found == MaterialsFor(s, strategy)
         IN  [i \in DOMAIN found |-> [material |-> found[i], revision |-> origin[s]]]

NewWork(s, provider, limit, queue, pred, page) ==
    [seed |-> s, provider |-> provider, limit |-> limit, queue |-> queue, pred |-> pred,
     run |-> 0, page |-> page, pages |-> 0,
     ending |-> None, unwinds |-> "no", ran |-> <<>>, sent |-> 0]

(* Runs begun and to be begun: work is counted once, in the queue. *)
Planned == FoldSet(LAMBDA p, n : IF work[p] = None THEN n ELSE n + Len(work[p].queue),
                   Len(lookups), Process)

(* A lookup by hand: plan, then execute. *)
LookUp(p, s, provider, strategy, limit) ==
    /\ At(p, "idle")
    /\ Plannable(s, strategy, TRUE)
    /\ LET items == PlanItems(s, provider, strategy) IN
         /\ items # <<>>
         /\ Planned + Len(items) <= MaxRuns
         /\ work' = [work EXCEPT ![p] = NewWork(s, provider, limit, items, 0, 1)]
    /\ Goto(p, "check")
    /\ UNCHANGED <<answers, origin, lookups>>

Compatible(r) ==
    LET s == lookups[r].seed IN
    /\ lookups[r].status = "paused"
    /\ lookups[r].material \in Range(Materials[s])
    /\ lookups[r].revision = origin[s]

(* resume(): from the checkpoint of the run itself, or from the first page *)
(* when it has none.                                                       *)
Resume(p, r, limit) ==
    /\ At(p, "idle")
    /\ Compatible(r)
    /\ Planned < MaxRuns
    /\ LET item == [material |-> lookups[r].material, revision |-> origin[lookups[r].seed]]
           page == IF lookups[r].checkpoint = None THEN 1 ELSE lookups[r].checkpoint
       IN  work' = [work EXCEPT ![p] = NewWork(lookups[r].seed, lookups[r].provider, limit,
                                               <<item>>, r, page)]
    /\ Goto(p, "check")
    /\ UNCHANGED <<answers, origin, lookups>>

-----------------------------------------------------------------------------
(* Execution of an item: _execute_item *)

Return(p, unwinds) ==
    /\ work' = [work EXCEPT ![p].unwinds = unwinds]
    /\ Goto(p, "returned")

(* The material is planned once more, and an item whose seed was rewritten *)
(* since is refused: the plan ends there.                                  *)
Check(p) ==
    /\ At(p, "check")
    /\ \/ work[p].queue = <<>> /\ Return(p, "no")
       \/ /\ work[p].queue # <<>>
          /\ Head(work[p].queue).revision # origin[work[p].seed]
          /\ Return(p, "raise")
       \/ /\ work[p].queue # <<>>
          /\ Head(work[p].queue).revision = origin[work[p].seed]
          /\ Goto(p, "begin") /\ UNCHANGED work
    /\ UNCHANGED <<answers, origin, lookups>>

Begin(p) ==
    /\ At(p, "begin")
    /\ lookups' = Append(lookups,
          [seed |-> work[p].seed, provider |-> work[p].provider,
           material |-> Head(work[p].queue).material,
           revision |-> Head(work[p].queue).revision,
           pred |-> work[p].pred, status |-> "running", pages |-> 0, checkpoint |-> None,
           results |-> {}, requests |-> 0, asked |-> 0, killed |-> FALSE])
    /\ work' = [work EXCEPT ![p].run = Len(lookups) + 1]
    /\ Goto(p, "ask")
    /\ UNCHANGED <<answers, origin>>

Ending(p, status, unwinds) ==
    /\ work' = [work EXCEPT ![p].ending = status, ![p].unwinds = unwinds]
    /\ Goto(p, "finish")

PagesSpent(p) == work[p].pages > 0 /\ work[p].pages >= PageLimit
RequestsSpent(p) == lookups[work[p].run].asked >= work[p].limit

(* BudgetExhausted: of pages, of requests, or at any moment of time. *)
Exhausted(p) ==
    /\ At(p, "ask")
    /\ Ending(p, "paused", "no")
    /\ UNCHANGED <<answers, origin, lookups>>

(* The request is sent and its response retained.  A provider that is busy *)
(* pauses the run, one that refuses fails it.                              *)
Ask(p) ==
    /\ At(p, "ask")
    /\ ~PagesSpent(p) /\ ~RequestsSpent(p)
    /\ lookups' = [lookups EXCEPT ![work[p].run].asked = @ + 1]
    /\ \/ Goto(p, "commit") /\ UNCHANGED work
       \/ Ending(p, "paused", "no")
       \/ Ending(p, "failed", "no")
    /\ UNCHANGED <<answers, origin>>

(* Mutant: the last page has a checkpoint, too. *)
WithPageBeyond(run, hits, page, last) ==
    [run EXCEPT !.results = @ \cup hits, !.pages = @ + 1, !.checkpoint = page + 1]

(* What _commit_page leaves of the run. *)
WithPage(run, hits, page, last) ==
    [run EXCEPT !.results = @ \cup hits, !.pages = @ + 1,
                !.checkpoint = IF page = last THEN @ ELSE page + 1]

(* _commit_page: the posts of the page, its results and the checkpoint are *)
(* one transaction.  The page writes every post of it, the seed as well.   *)
Commit(p) ==
    /\ At(p, "commit")
    /\ LET page == work[p].page
           hits == Pages(p)[page]
           last == Len(Pages(p))
       IN  /\ origin' = [s \in Seed |-> IF s \in hits THEN FromPage(Asking(p), page) ELSE origin[s]]
           /\ lookups' = [lookups EXCEPT ![work[p].run] = WithPage(@, hits, page, last)]
           /\ \/ page = last /\ Ending(p, "complete", "no")
              \/ /\ page # last
                 /\ work' = [work EXCEPT ![p].page = @ + 1, ![p].pages = @ + 1]
                 /\ Goto(p, "ask")
    /\ UNCHANGED answers

(* Mutant: the checkpoint is saved although the page is not admitted. *)
CommitLateCheckpointed(p) ==
    /\ At(p, "commit")
    /\ Ending(p, "paused", "no")
    /\ lookups' = [lookups EXCEPT ![work[p].run] =
                      WithPage(@, {}, work[p].page, Len(Pages(p)))]
    /\ UNCHANGED <<answers, origin>>

(* Time ran out, the operator interrupts, or what is local fails: the page *)
(* is not committed.                                                       *)
CommitLate(p) ==
    /\ At(p, "commit")
    /\ Ending(p, "paused", "no")
    /\ UNCHANGED <<answers, origin, lookups>>

Interrupted(p) ==
    /\ pc[p] \in {"ask", "commit"}
    /\ Ending(p, "paused", "exit")
    /\ UNCHANGED <<answers, origin, lookups>>

Raises(p) ==
    /\ pc[p] \in {"ask", "commit"}
    /\ Ending(p, "failed", "raise")
    /\ UNCHANGED <<answers, origin, lookups>>

(* _finish: a transaction of its own, and the next item of the plan. *)
Finish(p) ==
    /\ At(p, "finish")
    /\ LET run == work[p].run IN
         /\ lookups' = [lookups EXCEPT ![run].status = work[p].ending,
                                       ![run].requests = lookups[run].asked]
         /\ work' = [work EXCEPT ![p].queue = Tail(@), ![p].ran = Append(@, run),
                                 ![p].sent = @ + lookups[run].asked,
                                 ![p].run = 0, ![p].page = 1, ![p].pages = 0,
                                 ![p].ending = None]
    /\ Goto(p, IF work[p].unwinds = "no" THEN "check" ELSE "returned")
    /\ UNCHANGED <<answers, origin>>

LookupStep(p) ==
    \/ Check(p) \/ Begin(p) \/ Exhausted(p) \/ Ask(p)
    \/ Commit(p) \/ CommitLate(p) \/ Interrupted(p) \/ Raises(p) \/ Finish(p)

(* A lookup by hand is over. *)
Done(p) ==
    /\ At(p, "returned")
    /\ Goto(p, "idle")
    /\ work' = [work EXCEPT ![p] = None]
    /\ UNCHANGED <<answers, origin, lookups>>

Abandoned(p) ==
    IF work[p] = None \/ work[p].run = 0 THEN lookups
    ELSE [lookups EXCEPT ![work[p].run].killed = TRUE]

Kill(p) ==
    /\ pc[p] # "idle"
    /\ lookups' = Abandoned(p)
    /\ Goto(p, "idle")
    /\ work' = [work EXCEPT ![p] = None]
    /\ UNCHANGED <<answers, origin>>

(* A synchronization or an import rewrites a post or an account. *)
Synchronized(s) ==
    /\ s \in Watched
    /\ origin' = [origin EXCEPT ![s] = Synced]
    /\ UNCHANGED <<answers, lookups, pc, work>>

-----------------------------------------------------------------------------
(* Properties *)

(* The runs that a run goes on with, itself and back to the first: the     *)
(* least set with the run and what each of its runs resumed.               *)
HoldsResumed(runs) == \A x \in runs : lookups[x].pred \in runs \cup {0}

Chain(r) ==
    {x \in DOMAIN lookups :
        \A runs \in SUBSET DOMAIN lookups : r \in runs /\ HoldsResumed(runs) => x \in runs}

AllHits(r) == UNION Range(answers[Question(r)])
Collected(r) == UNION {lookups[x].results : x \in Chain(r)}

(* A lookup reported complete, over as many resumed runs as it took, has   *)
(* recorded every post of every page its provider answers, whatever was    *)
(* paused, rolled back and killed on the way (service.py:398-463).         *)
CompleteChainCovers ==
    \A r \in DOMAIN lookups :
        lookups[r].status = "complete" =>
            Collected(r) = AllHits(r)

(* A run resumes one that asked the same provider about the same material  *)
(* of the same seed, as it was when the first of them was planned: no run  *)
(* goes on with a question whose seed was rewritten (service.py:155-171).  *)
ChainAsksTheSame ==
    \A r \in DOMAIN lookups :
        LET this == lookups[r]
            pred == lookups[this.pred]
        IN  this.pred # 0 =>
                /\ <<this.seed, this.provider, this.material, this.revision>>
                     = <<pred.seed, pred.provider, pred.material, pred.revision>>
                /\ pred.status = "paused"

(* However an execution ends short of being killed, also by an exception   *)
(* or an interrupt, it leaves no run that claims to be running.            *)
NoRunLeftBehind ==
    \A r \in DOMAIN lookups :
        lookups[r].status = "running" =>
            lookups[r].killed \/ \E p \in Process : work[p] # None /\ work[p].run = r

=============================================================================
