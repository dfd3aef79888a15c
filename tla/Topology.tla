------------------------------ MODULE Topology ------------------------------
(***************************************************************************)
(* The topology of the regions (fabric/topology_manager.py): links under   *)
(* directed keys, each usable both ways while it is healthy, and a         *)
(* shortest path by Dijkstra's algorithm with a heap from which stale      *)
(* entries are dropped when they are popped.                               *)
(***************************************************************************)
EXTENDS Integers, FiniteSets, Sequences, FiniteSetsExt, Functions

CONSTANTS
    Hub,       \* the ends of links
    Cable,     \* the pairs <<source, target>> links are made for
    CableKind, \* the links: [latency, healthy]
    NoCable

ASSUME TopologyAssumption ==
    /\ IsFiniteSet(Hub) /\ Cable \subseteq Hub \X Hub
    /\ CableKind \subseteq [latency : Nat, healthy : BOOLEAN]

VARIABLE cables  \* _links: the link of a key, or NoCable

TopologyTypeOK == cables \in [Cable -> CableKind \cup {NoCable}]

ToInit == cables = [k \in Cable |-> NoCable]

UpdateLink(k, link) == cables' = [cables EXCEPT ![k] = link]
RemoveLink(k) == cables' = [cables EXCEPT ![k] = NoCable]

ToNext == \E k \in Cable : RemoveLink(k) \/ \E link \in CableKind : UpdateLink(k, link)

ToSpec == ToInit /\ [][ToNext]_cables

-----------------------------------------------------------------------------
(* shortest_path *)

\* The adjacency built from the healthy links: [from, to, latency], two for each link.
Edges ==
    UNION {{[from |-> k[1], to |-> k[2], latency |-> cables[k].latency],
            [from |-> k[2], to |-> k[1], latency |-> cables[k].latency]} :
           k \in {c \in Cable : cables[c] # NoCable /\ cables[c].healthy}}
Hubs == {e.from : e \in Edges}

Unreached == -1
Closer(d, old) == old = Unreached \/ d < old

\* Mutant of FirstOf: the heap orders its entries by the region.
FirstByHub(heap) == CHOOSE h \in heap : \A g \in heap : h.hub <= g.hub

\* The smallest entry of the heap.
FirstOf(heap) == CHOOSE h \in heap : \A g \in heap : h.dist <= g.dist

\* One turn of the loop: an entry of a visited region is dropped; else the region is
\* visited and each neighbour that comes closer gets a new entry.  The first edge that
\* brings a neighbour closest is the one that stays.
Popped(s) ==
    LET h    == FirstOf(s.heap)
        rest == s.heap \ {h}
        out  == {e \in Edges : e.from = h.hub /\ e.to \notin s.visited \cup {h.hub}}
        near(n) == Min({h.dist + e.latency : e \in {x \in out : x.to = n}})
        better  == {n \in {e.to : e \in out} : Closer(near(n), s.dist[n])}
    IN IF h.hub \in s.visited THEN [s EXCEPT !.heap = rest]
       ELSE [visited |-> s.visited \cup {h.hub},
             dist |-> [n \in Hub |-> IF n \in better THEN near(n) ELSE s.dist[n]],
             prev |-> [n \in Hub |-> IF n \in better THEN <<h.hub>> ELSE s.prev[n]],
             heap |-> rest \cup {[dist |-> near(n), hub |-> n] : n \in better}]

\* The loop from source, until target is visited or the heap is empty.  There are no more
\* entries than edges and one.
Explored(source, target) ==
    LET over(s) == s.heap = {} \/ target \in s.visited
        turns == 1 + Cardinality(Edges)
        run[k \in 0 .. turns] ==
            IF k = 0 THEN [visited |-> {}, prev |-> [n \in Hub |-> <<>>],
                           dist |-> [n \in Hub |-> IF n = source THEN 0 ELSE Unreached],
                           heap |-> {[dist |-> 0, hub |-> source]}]
            ELSE LET s == run[k - 1] IN IF over(s) THEN s ELSE Popped(s)
    IN run[turns]

\* The path back from the target, or <<>> for None.
ShortestPath(source, target) ==
    LET s == Explored(source, target)
        back[k \in 1 .. Cardinality(Hub)] ==
            IF k = 1 THEN <<target>> ELSE s.prev[Head(back[k - 1])] \o back[k - 1]
    IN IF source \notin Hubs \/ target \notin s.visited THEN <<>>
       ELSE back[Cardinality(Hub)]

-----------------------------------------------------------------------------
(* Properties *)

Hop(a, b) == {e.latency : e \in {x \in Edges : x.from = a /\ x.to = b}}
Itineraries == {p \in UNION {[1 .. n -> Hub] : n \in 1 .. Cardinality(Hub)} :
                    \A j, k \in DOMAIN p : p[j] = p[k] => j = k}
Routes(a, b) ==
    {p \in Itineraries :
        /\ p[1] = a /\ p[Len(p)] = b
        /\ \A k \in 1 .. Len(p) - 1 : Hop(p[k], p[k + 1]) # {}}
Cost(p) == SumFunction([k \in 1 .. Len(p) - 1 |-> Min(Hop(p[k], p[k + 1]))])

\* With links in one or both directions, healthy or not, added and removed: the heap finds
\* a path exactly when one is open, it is one of those that cost least, and there and back
\* cost the same (unlike the graph of the fabric core, where a link that is down hides the
\* one the other way).
RouteIsCheapest ==
    \A a, b \in Hubs :
        LET p == ShortestPath(a, b)
            open == Routes(a, b)
            cost == Cost(p)
        IN IF open = {} THEN p = <<>>
           ELSE p \in open /\ cost <= Cost(ShortestPath(b, a)) /\ \A q \in open : cost <= Cost(q)
=============================================================================
