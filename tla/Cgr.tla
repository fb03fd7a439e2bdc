--------------------------------- MODULE Cgr --------------------------------
(***************************************************************************)
(* Contact Graph Routing: one call of cgr_select_route (dtn_core/cgr.c),   *)
(* one step per iteration of its loops.  The call does not change its      *)
(* arguments, which are chosen in the initial state.                       *)
(*                                                                         *)
(* For every contact out of the bundle's node (the seeds) a depth-first    *)
(* search over the plan runs on an explicit stack.  A frame's `rest` holds *)
(* the contacts its index has not passed: pushing a frame does NOT advance *)
(* the index, so the frame looks at the same contact again when the search *)
(* returns to it.  `found` is a history variable: every route offered to   *)
(* the beam, which keeps only the BeamCap cheapest.                        *)
(***************************************************************************)
EXTENDS Routes

CONSTANTS
  Problems,        \* the calls: records [plan, bundle, now, max_hops]
  BeamCap,         \* max_routes of the configuration
  FrontierNodes,   \* entries of the frontier table (8)
  MaxPareto        \* MAX_PARETO_PER_NODE (8)

BundleMaxHops == 10

\* Up to BundleMaxHops the stack array and a frame's visited array suffice,
\* and the full-stack test of the expansion loop never fires.
ASSUME ProblemsAssumption ==
  \A p \in Problems : /\ p.plan \in Seq(ContactType) /\ p.bundle \in BundleType
                      /\ p.now \in Int /\ p.max_hops \in 1 .. BundleMaxHops
ASSUME CapsAssumption == {BeamCap, FrontierNodes, MaxPareto} \subseteq Nat \ {0}

\* a path of BundleMaxHops + 1 contacts meets more nodes than the table has entries
ASSUME FrontierAssumption == FrontierNodes < BundleMaxHops - 1

VARIABLES
  plan, bundle, now,   \* the arguments of the call,
  max_hops,            \* cfg->max_hops among them
  pc,                  \* "seed", "expand", "done" or "corrupt"
  seeds,               \* the seed contacts not yet tried
  stack,               \* the frames of the search from the current seed
  frontier,            \* per node reached, the undominated signatures
  beam,                \* the routes kept
  found,               \* every route ever offered to the beam
  result               \* the route returned, NoRoute for -1

args   == <<plan, bundle, now, max_hops>>
search == <<seeds, stack, frontier, beam, found>>
vars   == <<plan, bundle, now, max_hops, pc, seeds, stack, frontier, beam, found, result>>

NoRoute == [hops |-> <<>>]

-----------------------------------------------------------------------------
(* The beam *)

Candidate(route) ==
  LET hops    == SubSeq(route, 1, Min({Len(route), BundleMaxHops}))
      arrival == Arrival(plan, route, bundle, now)
  IN  [hops    |-> hops,
       arrival |-> arrival,
       cost    |-> Cost(plan, hops, bundle, now)
                     + 10 * (arrival - Arrival(plan, hops, bundle, now))]

Worst(routes) ==
  CHOOSE i \in DOMAIN routes : \A j \in DOMAIN routes :
    routes[j].cost < routes[i].cost \/ (routes[j].cost = routes[i].cost /\ i <= j)

Best(routes) ==
  CHOOSE i \in DOMAIN routes : \A j \in DOMAIN routes :
    routes[i].cost < routes[j].cost \/ (routes[j].cost = routes[i].cost /\ i <= j)

\* fault: writes one route behind the end of the beam
BeamPushLate(r) == IF Len(beam) <= BeamCap THEN Append(beam, r) ELSE beam

\* fault: a full beam takes no better route
BeamPushFirst(r) == IF Len(beam) < BeamCap THEN Append(beam, r) ELSE beam

BeamPush(r) ==
  IF Len(beam) < BeamCap                     THEN Append(beam, r)
  ELSE IF r.cost < beam[Worst(beam)].cost    THEN [beam EXCEPT ![Worst(beam)] = r]
                                             ELSE beam

Offer(route) ==
  /\ beam' = BeamPush(Candidate(route))
  /\ found' = found \cup {Candidate(route)}

-----------------------------------------------------------------------------
(* The seeds *)

Init ==
  /\ \E p \in Problems :
       plan = p.plan /\ bundle = p.bundle /\ now = p.now /\ max_hops = p.max_hops
  /\ pc = "seed"
  /\ seeds = FromNode(plan, bundle.curr)
  /\ stack = <<>>
  /\ frontier = <<>>
  /\ beam = <<>>
  /\ found = {}
  /\ result = NoRoute

Seed == Min(seeds)

NextSeed == pc = "seed" /\ seeds # {} /\ seeds' = seeds \ {Seed}

SkipSeed ==
  /\ NextSeed
  /\ ~HopFits(plan[Seed], bundle, now)
  /\ UNCHANGED <<args, pc, stack, frontier, beam, found, result>>

DirectSeed ==
  /\ NextSeed
  /\ HopFits(plan[Seed], bundle, now)
  /\ plan[Seed].to = bundle.dst
  /\ Offer(<<Seed>>)
  /\ UNCHANGED <<args, pc, stack, frontier, result>>

Frame(i, arrival, visited) ==
  [contact |-> i, t_arrive |-> arrival, visited |-> visited,
   rest |-> FromNode(plan, plan[i].to)]

\* the node the seed leads to is not recorded as visited
StartSearch ==
  /\ NextSeed
  /\ HopFits(plan[Seed], bundle, now)
  /\ plan[Seed].to # bundle.dst
  /\ stack' = <<Frame(Seed, HopArrival(plan[Seed], bundle, now), {bundle.curr})>>
  /\ pc' = "expand"
  /\ UNCHANGED <<args, frontier, beam, found, result>>

Finish ==
  /\ pc = "seed" /\ seeds = {}
  /\ pc' = "done"
  /\ result' = IF beam = <<>> THEN NoRoute ELSE beam[Best(beam)]
  /\ UNCHANGED <<args, search>>

-----------------------------------------------------------------------------
(* The expansion of the top frame *)

Top     == stack[Len(stack)]
Current == Min(Top.rest)
Path    == Append([n \in DOMAIN stack |-> stack[n].contact], Current)

\* beyond max_hops a frame is dropped without a look at its contacts
Exhausted == Len(stack) > max_hops \/ Top.rest = {}

Signature ==
  [t_arrive |-> HopArrival(plan[Current], bundle, Top.t_arrive),
   loss     |-> Loss(plan, Path),
   margin   |-> HopMargin(plan[Current], bundle, Top.t_arrive)]

\* fault: compares arrival and margin only
DominatesBlindly(s, r) == s.t_arrive <= r.t_arrive /\ s.margin >= r.margin

Dominates(s, r) == s.t_arrive <= r.t_arrive /\ s.loss <= r.loss /\ s.margin >= r.margin

SignaturesAt(node) == IF node \in DOMAIN frontier THEN frontier[node] ELSE {}

\* fault: the table ends one entry early, at an instance's size
TrackedFew(node) == node \in DOMAIN frontier \/ frontier = <<>>

Tracked(node) == node \in DOMAIN frontier \/ Cardinality(DOMAIN frontier) < FrontierNodes

Undominated == {s \in SignaturesAt(plan[Current].to) : ~Dominates(Signature, s)}

\* fault: the timing and the capacity of the next hop are not tested
AdmissibleUntimed ==
  /\ plan[Current].to \notin Top.visited
  /\ ~ \E s \in SignaturesAt(plan[Current].to) : Dominates(s, Signature)

Admissible ==
  /\ plan[Current].to \notin Top.visited
  /\ HopFits(plan[Current], bundle, Top.t_arrive)
  /\ ~ \E s \in SignaturesAt(plan[Current].to) : Dominates(s, Signature)

RecordSignature ==
  LET node == plan[Current].to
  IN  frontier' = IF Tracked(node)
                  THEN [n \in DOMAIN frontier \cup {node} |->
                          IF n = node THEN Undominated \cup {Signature} ELSE frontier[n]]
                  ELSE frontier

\* the signature is written at index Cardinality(Undominated) of MaxPareto
Overflows == Tracked(plan[Current].to) /\ Cardinality(Undominated) >= MaxPareto

PassCurrent == stack' = [stack EXCEPT ![Len(stack)].rest = @ \ {Current}]

Expanding == pc = "expand" /\ ~Exhausted

PopFrame ==
  /\ pc = "expand" /\ Exhausted
  /\ stack' = Front(stack)
  /\ pc' = IF Len(stack) = 1 THEN "seed" ELSE "expand"
  /\ UNCHANGED <<args, seeds, frontier, beam, found, result>>

SkipContact ==
  /\ Expanding /\ ~Admissible
  /\ PassCurrent
  /\ UNCHANGED <<args, pc, seeds, frontier, beam, found, result>>

ReachDestination ==
  /\ Expanding /\ Admissible /\ ~Overflows
  /\ plan[Current].to = bundle.dst
  /\ RecordSignature
  /\ Offer(Path)
  /\ PassCurrent
  /\ UNCHANGED <<args, pc, seeds, result>>

PushFrame ==
  /\ Expanding /\ Admissible /\ ~Overflows
  /\ plan[Current].to # bundle.dst
  /\ RecordSignature
  /\ stack' = Append(stack, Frame(Current, Signature.t_arrive,
                                  Top.visited \cup {plan[Current].to}))
  /\ UNCHANGED <<args, pc, seeds, beam, found, result>>

\* The write behind the end of sigs: the search has no defined continuation.
Overflow ==
  /\ Expanding /\ Admissible /\ Overflows
  /\ pc' = "corrupt"
  /\ UNCHANGED <<args, search, result>>

-----------------------------------------------------------------------------

Step == \/ SkipSeed \/ DirectSeed \/ StartSearch \/ Finish
        \/ PopFrame \/ SkipContact \/ ReachDestination \/ PushFrame \/ Overflow

Spec == Init /\ [][Step]_vars

\* the call runs until it returns
FairSpec == Spec /\ WF_vars(Step)

-----------------------------------------------------------------------------
(* Properties *)

\* Type invariant: well-formed frames, the beam and the frontier within their bounds.
TypeOK ==
  /\ pc \in {"seed", "expand", "done", "corrupt"}
  /\ seeds \subseteq FromNode(plan, bundle.curr)
  /\ (pc = "expand") <=> (stack # <<>> /\ pc # "corrupt")
  /\ Len(stack) <= max_hops + 1
  /\ \A n \in DOMAIN stack : stack[n].rest \subseteq FromNode(plan, plan[stack[n].contact].to)
  /\ Len(beam) <= BeamCap
  /\ Cardinality(DOMAIN frontier) <= FrontierNodes

\* Whatever the search pruned and the beam evicted, what the call returns is a
\* connected chain of contacts the bundle can cross in time, ending at its
\* destination at the arrival time reported (the node sends on its first hop).
RouteSound ==
  pc = "done" /\ result # NoRoute =>
    /\ IsRoute(plan, result.hops, bundle, now)
    /\ result.arrival = Arrival(plan, result.hops, bundle, now)

\* The prunings lose nothing that arrival and confidence can tell: for every
\* loop-free feasible route the search met one that arrives no later with no
\* less confidence.  In particular it answers -1 only if there is no route.
\* (With the hop limit of cgr_config_default: a lower one cuts routes off.)
ParetoCovered ==
  pc = "done" /\ max_hops = BundleMaxHops =>
    \A route \in LooplessRoutes(plan, bundle, now) :
      \E r \in found : /\ r.arrival <= Arrival(plan, route, bundle, now)
                       /\ Loss(plan, r.hops) <= Loss(plan, route)

\* Evicting from a full beam never loses the cheapest route met.
BestOfFound ==
  pc = "done" => \A r \in found : result # NoRoute /\ result.cost <= r.cost

\* The search never looks at the same contact for ever: a frame does not pass
\* the contact it pushes, and on its return only the signature it recorded for
\* the next node makes it move on.  Overflowing the frontier ends the model.
ComesToAnEnd == <>(pc \in {"done", "corrupt"})

\* cgr.h:44: the call returns, with a route or with -1.
Terminates == <>(pc = "done")

\* cgr.c:4 and 252: the frontier of a node is bounded; a full one drops the
\* latest arrivals.
FrontierStaysInBounds == pc # "corrupt"
=============================================================================
