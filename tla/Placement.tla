----------------------------- MODULE Placement -----------------------------
(***************************************************************************)
(* Where a request goes.  Four routers choose among the regions that the   *)
(* registry lists as serving: the global router (routing/global_router.py) *)
(* and the placement engine (fabric/placement_engine.py) by a weighted     *)
(* score, the latency router (routing/latency_router.py) by measured       *)
(* latency and the geographic router (regions/geo_routing.py) by distance. *)
(* The planetary scheduler (fabric_core/planetary_scheduler.py) filters    *)
(* the regions of a telemetry report, giving up each wish that none meets. *)
(*                                                                         *)
(* Scores are exact here, in ten-thousandths times ten: percentages stand  *)
(* for the floats of the code, milliseconds are multiples of five, VRAM is *)
(* counted in gigabytes, and a request names at most one type of GPU.  The *)
(* weights of a placement have their defaults, with which the intelligence *)
(* context does not count.                                                 *)
(***************************************************************************)
EXTENDS Integers, FiniteSets, Sequences, SequencesExt

CONSTANTS
    Depot,      \* the regions
    Offer,      \* what a region can report: see OfferType
    Ask,        \* the requests: see AskType
    Millis,     \* the latencies that can be measured from the client to a region
    Unmeasured,
    Distance    \* from the client to each region

OfferType == [status : {"active", "degraded", "draining", "offline"},
              saturation : 0 .. 100, capacity : Nat, gpus : Nat, freeGpus : Nat, vram : Nat,
              typed : BOOLEAN, latency : Nat, edge : BOOLEAN]

\* A request: needs a GPU, a type of GPU, that much VRAM, a latency (0 for any), and may
\* name a region it prefers and a model some regions hold.
AskType == [gpu : BOOLEAN, type : BOOLEAN, vram : Nat, limit : Nat,
            prefers : {{}} \cup {{d} : d \in Depot}, local : SUBSET Depot]

ASSUME PlacementAssumption ==
    /\ IsFiniteSet(Depot) /\ Offer \subseteq OfferType /\ Ask \subseteq AskType
    /\ Distance \in [Depot -> Nat]
    /\ Millis \subseteq Nat /\ Unmeasured \notin Nat
    /\ \A o \in Offer : o.freeGpus <= o.gpus
    /\ \E o \in Offer : o.status = "active"

VARIABLES
    offers,    \* the row of each region
    measured   \* _client_region or _inter_region for the client

plVars == <<offers, measured>>

PlacementTypeOK ==
    /\ offers \in [Depot -> Offer]
    /\ measured \in [Depot -> Millis \cup {Unmeasured}]

\* One row as the registry has it when a region registers, the same for all regions.
PlInit ==
    /\ offers = [d \in Depot |-> CHOOSE o \in Offer : o.status = "active"]
    /\ measured = [d \in Depot |-> Unmeasured]

\* A heartbeat, a capacity update or a change of status, one region at a time.
OfferChanges(d, o) ==
    /\ offers' = [offers EXCEPT ![d] = o]
    /\ UNCHANGED measured

\* record_client_region and record_inter_region: the moving average of a pair takes a new
\* value; a pair that was measured once stays measured.
MeasuredChanges(d, ms) ==
    /\ measured' = [measured EXCEPT ![d] = ms]
    /\ UNCHANGED offers

PlNext == \E d \in Depot : \/ \E o \in Offer : OfferChanges(d, o)
                          \/ \E ms \in Millis : MeasuredChanges(d, ms)

PlSpec == PlInit /\ [][PlNext]_plVars

-----------------------------------------------------------------------------
(* The routers *)

\* Mutant of Serving: draining regions serve too.
ServingWhileDraining == {d \in Depot : offers[d].status # "offline"}

\* active_regions
Serving == {d \in Depot : offers[d].status \in {"active", "degraded"}}

WithGpu(gpu) == {d \in Serving : gpu => offers[d].freeGpus > 0}

\* _get_candidates of the global router.
Candidates(ask) == {d \in WithGpu(ask.gpu) : offers[d].vram >= ask.vram}

\* _filter_candidates: a region that reports no latency passes for any limit.
PlaceCandidates(ask) ==
    {d \in Candidates(ask) :
        /\ ask.type => offers[d].typed
        /\ ask.limit > 0 => offers[d].latency <= ask.limit}

AtLeast0(n) == IF n < 0 THEN 0 ELSE n
Percent(ms) == AtLeast0(100 - ms \div 5)
AtMost100(n) == IF n > 100 THEN 100 ELSE n
FreeShare(o) == IF o.gpus = 0 THEN 0 ELSE (100 * o.freeGpus) \div o.gpus
Penalty(o, score) == IF o.status = "degraded" THEN 7 * score ELSE 10 * score

\* _latency_score of the global router: measured, else reported, else one half.
LatencyScore(d) ==
    CASE measured[d] # Unmeasured -> Percent(measured[d])
      [] measured[d] = Unmeasured /\ offers[d].latency > 0 -> Percent(offers[d].latency)
      [] OTHER -> 50

GlobalScore(ask, d) ==
    LET o == offers[d] IN
    Penalty(o, 30 * LatencyScore(d) + 25 * (100 - o.saturation) + 20 * FreeShare(o)
             + 15 * (100 - (80 * o.saturation) \div 100) + (IF o.edge THEN 1000 ELSE 500)
             + (IF d \in ask.prefers THEN 1500 ELSE 0) + (IF d \in ask.local THEN 2000 ELSE 0))

\* _gpu_score of the placement engine: a GPU of the type, and twice the VRAM, count extra.
GpuScore(ask, o) ==
    CASE ~ ask.gpu               -> 50
      [] ask.gpu /\ o.gpus = 0   -> 0
      [] OTHER -> AtMost100(FreeShare(o) + (IF ask.type /\ o.typed THEN 10 ELSE 0)
                              + (IF ask.vram > 0 /\ o.vram >= 2 * ask.vram THEN 10 ELSE 0))

\* The placement engine with its default weights: cost 30, performance 50, efficiency 20.
PlacementScore(ask, d) ==
    LET o    == offers[d]
        free == 100 - o.saturation
        lat  == IF o.latency > 0 THEN Percent(o.latency) ELSE 70
    IN Penalty(o, 18 * free + 12 * AtMost100(o.capacity) + 25 * lat + 25 * GpuScore(ask, o)
                + (IF o.edge THEN 800 ELSE 400) + 12 * free
                + (IF d \in ask.prefers THEN 1000 ELSE 0))

\* A stable descending sort: among the best, the first in the order of the registry.
Best(score) == {d \in DOMAIN score : \A e \in DOMAIN score : score[e] <= score[d]}

GlobalRoute(ask) == Best([d \in Candidates(ask) |-> GlobalScore(ask, d)])
Place(ask) == Best([d \in PlaceCandidates(ask) |-> PlacementScore(ask, d)])

\* route_by_client: the least measured latency; only when none is measured the least
\* reported one, where a region that reports none counts as nearest.
LatencyRoute(gpu, exclude) ==
    LET cands == WithGpu(gpu) \ exclude
        timed == {d \in cands : measured[d] # Unmeasured}
    IN IF timed # {} THEN Best([d \in timed |-> 0 - measured[d]])
       ELSE Best([d \in cands |-> 0 - offers[d].latency])

\* route_by_region never stays where the request comes from.
RegionRoute(gpu, source, exclude) == LatencyRoute(gpu, exclude \cup {source})

\* nearest_region of the geographic router.
NearestRoute(gpu, exclude) == Best([d \in WithGpu(gpu) \ exclude |-> 0 - Distance[d]])

-----------------------------------------------------------------------------
(* The planetary scheduler *)

\* A filter of _filter_candidates: it applies only when it leaves something.
Kept(cands, meet) == IF cands \cap meet # {} THEN cands \cap meet ELSE cands

HasGpu(ask) == {d \in Depot : ask.gpu => offers[d].gpus > 0}
InTime(limit) == {d \in Depot : limit > 0 => offers[d].latency <= limit}
Wanted(ask) == {d \in Depot : ask.prefers # {} => d \in ask.prefers}

\* schedule: the candidates, or all regions when none is left.
Filtered(ask, limit) ==
    LET online == {d \in Depot : offers[d].status # "offline"}
        fit    == Kept(Kept(Kept(online, HasGpu(ask)), InTime(limit)), Wanted(ask))
    IN IF fit = {} THEN Depot ELSE fit

-----------------------------------------------------------------------------
(* Properties *)

\* Region a is at least as good as b for the request in all that a router can see.
AtLeastAsGood(ask, a, b) ==
    LET x == offers[a]
        y == offers[b]
    IN /\ y.status = "active" => x.status = "active"
       /\ x.saturation <= y.saturation /\ FreeShare(x) >= FreeShare(y)
       /\ x.capacity >= y.capacity /\ x.vram >= y.vram
       /\ y.edge => x.edge
       /\ y.typed => x.typed
       /\ x.latency = y.latency /\ measured[a] = measured[b]
       /\ b \in ask.prefers => a \in ask.prefers
       /\ b \in ask.local => a \in ask.local

\* The region has what the request needs of the global router, and of the placement engine.
Fits(ask, d) ==
    /\ offers[d].status \notin {"draining", "offline"}
    /\ ask.gpu => offers[d].freeGpus > 0
    /\ offers[d].vram >= ask.vram
FitsPlacement(ask, d) ==
    /\ Fits(ask, d)
    /\ ask.type => offers[d].typed
    /\ ask.limit = 0 \/ offers[d].latency <= ask.limit

\* A choice among the regions of a set: none exactly when the set is empty.
ChosenFrom(chosen, fit) == chosen \subseteq fit /\ (chosen = {} => fit = {})

\* Whatever the regions report: each router finds a region exactly when one is serving, is
\* not excluded and has what the request needs, and never another; the scores never
\* prefer a region to one that is as good in everything and less loaded.
ScoresAreServed ==
    \A ask \in Ask :
        /\ ChosenFrom(GlobalRoute(ask), {d \in Depot : Fits(ask, d)})
        /\ ChosenFrom(Place(ask), {d \in Depot : FitsPlacement(ask, d)})
        /\ \A d \in GlobalRoute(ask), e \in Depot :
              Fits(ask, e) /\ AtLeastAsGood(ask, e, d) => offers[e].saturation >= offers[d].saturation
        /\ \A d \in Place(ask), e \in Depot :
              FitsPlacement(ask, e) /\ AtLeastAsGood(ask, e, d)
                  => offers[e].saturation >= offers[d].saturation

\* No router by latency takes a region that is slower than another measured one, or one
\* that is not measured before one that is, the geographic router takes none that is
\* farther, and nobody is routed to an excluded region or back where he comes from.
NearestAreServed ==
    \A gpu \in BOOLEAN, exclude \in SUBSET Depot :
        LET free(d) == /\ offers[d].status \notin {"draining", "offline"} /\ d \notin exclude
                       /\ gpu => offers[d].freeGpus > 0
            Nearer(chosen, fit) ==
                /\ ChosenFrom(chosen, fit)
                /\ \A d \in chosen, e \in fit :
                      measured[e] # Unmeasured => measured[d] # Unmeasured /\ measured[d] <= measured[e]
        IN /\ Nearer(LatencyRoute(gpu, exclude), {d \in Depot : free(d)})
           /\ \A source \in Depot :
                 Nearer(RegionRoute(gpu, source, exclude), {d \in Depot \ {source} : free(d)})
           /\ ChosenFrom(NearestRoute(gpu, exclude), {d \in Depot : free(d)})
           /\ \A d \in NearestRoute(gpu, exclude), e \in Depot :
                 free(e) => Distance[d] <= Distance[e]

RoutesAreServed == ScoresAreServed /\ NearestAreServed

\* How many of the scheduler's wishes a region meets, the first ones first.
Merit(ask, limit, d) ==
    IF offers[d].status = "offline" THEN 0
    ELSE 8 + (IF d \in HasGpu(ask) THEN 4 ELSE 0) + (IF d \in InTime(limit) THEN 2 ELSE 0)
           + (IF d \in Wanted(ask) THEN 1 ELSE 0)

\* The cascade of filters keeps exactly the regions of the greatest merit: an offline one
\* is considered only when all are offline, one without a GPU only when no online one has
\* any, a late one only when all of those are late, and so on.
FilterKeepsTheBest ==
    \A ask \in [gpu : BOOLEAN, prefers : SUBSET Depot], limit \in {0, 100} :
        Filtered(ask, limit) = {d \in Depot : \A e \in Depot :
                                    Merit(ask, limit, e) <= Merit(ask, limit, d)}
=============================================================================
