------------------------- MODULE MCLibraryExpansion -------------------------
(* Instance of RemoteSync and of LibraryExpansion for TLC.  A behaviour is *)
(* either one of plain synchronizations or one of expansions.  Three posts *)
(* on pages of two, and limits of which each is the first to be reached in *)
(* some run, down to a record budget that no full page fits; expansions    *)
(* keep to limits that pause after a page or two, and to a provider that   *)
(* answers.  Others change facts between runs, which do not read them.     *)
EXTENDS LibraryExpansion

CONSTANTS p1, a, u, g, t

VARIABLE half

MCPausing ==
    {[requests |-> 2, pages |-> 3, records |-> 4],
     [requests |-> 3, pages |-> 1, records |-> 3]}

MCLimits ==
    MCPausing \cup
        {[requests |-> 3, pages |-> 2, records |-> 2],
         [requests |-> 2, pages |-> 2, records |-> 1]}

Knowing(state, decision, author, cites, named) ==
    [rev |-> [x \in Target \cup {SeedPost} |-> 0],
     candidate |-> [state |-> state, decision |-> decision], twin |-> "none",
     participants |-> {<<author, "author">>}, cites |-> cites, named |-> named,
     tag |-> [artist |-> TRUE, count |-> 1, seen |-> 1, agrees |-> TRUE, redirects |-> FALSE]]

MCKnownFacts ==
    {Knowing("confirmed", 1, u, {t}, {}), Knowing("pending", 0, a, {g}, {})}

MCAsked == {<<u, None>>, <<a, None>>, <<SeedPost, None>>, <<SeedPost, t>>}

MCInit ==
    /\ LibraryInit
    /\ \/ half = "sync" /\ facts = Knowing("confirmed", 1, u, {t}, {})
       \/ half = "library" /\ limits \in MCPausing

(* What others and the clock do to an expansion: one event at most. *)
MCEvents ==
    changes + Changes + clock + Len(probes)
    + Cardinality({r \in DOMAIN runs : runs[r].killed \/ runs[r].boundary = "time"})
    + Cardinality({p \in Process : late[p]})

(* Every page arrives and, unless it repeats a post, is committed. *)
Answered ==
    \A p \in Process :
        /\ reply[p] # None => reply[p].kind = "page"
        /\ ending[p] # None /\ ending[p].status = "failed" => executions[Running(p)].clash

LibraryHalf ==
    \/ Tick
    \/ /\ \E p \in Process : pc[p] = "next"
       /\ Publish \/ \E q \in Post : Remove(q)
       /\ UNCHANGED libraryVars
    \/ \E p \in Process :
          \/ executions = <<>> /\ \E x \in Asked : Plan(p, x[1], x[2])
          \/ \E e \in DOMAIN executions : PlanResume(p, e)
          \/ Invocation(p)
    \/ /\ \A p \in Process : pc[p] = "idle"
       /\ executions # <<>> => runs[Len(runs)].status = "paused"
       /\ Fact

MCNext ==
    /\ UNCHANGED half
    /\ \/ half = "sync" /\ Next /\ UNCHANGED libraryVars
       \/ half = "library" /\ LibraryHalf /\ MCEvents' <= 1 /\ Answered'

MCSpec ==
    /\ MCInit /\ [][MCNext]_<<allVars, half>>
    /\ \A p \in Process :
          /\ WF_vars(half = "sync" /\ Step(p))
          /\ WF_allVars(half = "library" /\ RunGoesOn(p))

(* The rows of runs, plans and executions are of their types. *)
TypesOK == TypeOK /\ LibraryTypeOK

=============================================================================
