---------------------------- MODULE FabricGraph ----------------------------
(***************************************************************************)
(* The infrastructure graph (fabric_core/infrastructure_graph.py): nodes,  *)
(* links under directed keys, and an adjacency that is kept symmetric next *)
(* to them; shortest_path runs Dijkstra's algorithm over the adjacency and *)
(* looks each link up in both directions.  Every operation holds the lock. *)
(***************************************************************************)
EXTENDS Integers, FiniteSets, Sequences, FiniteSetsExt, Functions

CONSTANTS
    GraphNode,   \* node ids
    Wire,        \* the pairs <<source, target>> links are added for
    LinkKind,    \* the links: [latency, up]
    NoLink

ASSUME FabricGraphAssumption ==
    /\ IsFiniteSet(GraphNode) /\ Wire \subseteq GraphNode \X GraphNode
    /\ LinkKind \subseteq [latency : Nat, up : BOOLEAN] /\ NoLink \notin LinkKind

VARIABLES
    graphNodes,  \* the ids in _nodes
    links,       \* _links: the link of a key, or NoLink
    adjacency    \* _adjacency; an id that has no entry has no neighbour here

fgVars == <<graphNodes, links, adjacency>>

Key_ == GraphNode \X GraphNode

FabricGraphTypeOK ==
    /\ graphNodes \subseteq GraphNode
    /\ links \in [Key_ -> LinkKind \cup {NoLink}]
    /\ adjacency \in [GraphNode -> SUBSET GraphNode]

FgInit ==
    /\ graphNodes = {} /\ links = [k \in Key_ |-> NoLink]
    /\ adjacency = [n \in GraphNode |-> {}]

AddNode(n) ==
    /\ graphNodes' = graphNodes \cup {n}
    /\ UNCHANGED <<links, adjacency>>

\* remove_node finds the links of the node through its neighbours.
RemoveGraphNode(n) ==
    /\ n \in graphNodes
    /\ graphNodes' = graphNodes \ {n}
    /\ adjacency' = [m \in GraphNode |->
          IF m = n THEN {} ELSE IF m \in adjacency[n] THEN adjacency[m] \ {n} ELSE adjacency[m]]
    /\ links' = [k \in Key_ |-> IF \E m \in adjacency[n] : k \in {<<n, m>>, <<m, n>>}
                                THEN NoLink ELSE links[k]]

\* add_link asks for no node of its ends; build_from_telemetry is AddNode for every
\* region and AddLink for every latency.
AddLink(k, link) ==
    /\ links' = [links EXCEPT ![k] = link]
    /\ adjacency' = [n \in GraphNode |-> adjacency[n]
                        \cup (IF n = k[1] THEN {k[2]} ELSE {})
                        \cup (IF n = k[2] THEN {k[1]} ELSE {})]
    /\ UNCHANGED graphNodes

FgNext ==
    \/ \E n \in GraphNode : AddNode(n) \/ RemoveGraphNode(n)
    \/ \E k \in Wire, link \in LinkKind : AddLink(k, link)

FgSpec == FgInit /\ [][FgNext]_fgVars

-----------------------------------------------------------------------------
(* shortest_path *)

\* get_link: the link of the key, else the one the other way, whatever its status.
GetLink(a, b) == IF links[<<a, b>>] # NoLink THEN links[<<a, b>>] ELSE links[<<b, a>>]
Passable(a, b) == GetLink(a, b) # NoLink /\ GetLink(a, b).up

\* float("inf"): longer than any path.
Infinite == -1
Shorter(d, e) == d # Infinite /\ (e = Infinite \/ d < e)

Nearest(s) == CHOOSE n \in s.unvisited : \A m \in s.unvisited : ~Shorter(s.dist[m], s.dist[n])

\* One round of the loop: the nearest unvisited node is taken out and its neighbours
\* that are still unvisited - and nodes - are relaxed.
Relaxed(s) ==
    LET c == Nearest(s)
        better == {n \in (s.unvisited \ {c}) \cap adjacency[c] :
                      /\ Passable(c, n)
                      /\ Shorter(s.dist[c] + GetLink(c, n).latency, s.dist[n])}
    IN [unvisited |-> s.unvisited \ {c},
        dist |-> [n \in graphNodes |-> IF n \in better THEN s.dist[c] + GetLink(c, n).latency
                                       ELSE s.dist[n]],
        prev |-> [n \in graphNodes |-> IF n \in better THEN <<c>> ELSE s.prev[n]]]

\* The search from src: it ends at tgt, or when no unvisited node is reached.
Search(src, tgt) ==
    LET over(s) == s.unvisited = {} \/ Nearest(s) = tgt \/ s.dist[Nearest(s)] = Infinite
        run[k \in 0 .. Cardinality(graphNodes)] ==
            IF k = 0
            THEN [unvisited |-> graphNodes,
                  dist |-> [n \in graphNodes |-> IF n = src THEN 0 ELSE Infinite],
                  prev |-> [n \in graphNodes |-> <<>>]]
            ELSE LET s == run[k - 1] IN IF over(s) THEN s ELSE Relaxed(s)
    IN run[Cardinality(graphNodes)]

\* The path back from tgt along prev, at most a node each.
PathTo(s, tgt) ==
    LET back[k \in 1 .. Cardinality(graphNodes)] ==
            IF k = 1 THEN <<tgt>>
            ELSE LET p == back[k - 1] IN s.prev[Head(p)] \o p
        whole(p) == s.prev[Head(p)] = <<>>
    IN back[CHOOSE k \in DOMAIN back : /\ whole(back[k])
                                       /\ \A j \in 1 .. k - 1 : ~whole(back[j])]

-----------------------------------------------------------------------------
(* Properties *)

Length(p) == SumFunction([k \in 1 .. Len(p) - 1 |-> GetLink(p[k], p[k + 1]).latency])

Paths == {p \in UNION {[1 .. n -> GraphNode] : n \in 1 .. Cardinality(GraphNode)} :
              \A j, k \in DOMAIN p : p[j] = p[k] => j = k}
Walks(a, b) ==
    {p \in Paths :
        /\ p[1] = a /\ p[Len(p)] = b /\ \A k \in DOMAIN p : p[k] \in graphNodes
        /\ \A k \in 1 .. Len(p) - 1 : p[k + 1] \in adjacency[p[k]] /\ Passable(p[k], p[k + 1])}

\* In every graph the operations can build - links to ids that are not nodes, a link in
\* each direction, links that are down, nodes removed and added again: shortest_path
\* finds a path exactly when there is one, and one that no path is shorter than.
\* (From a to b and back may differ: a link that is down hides the one the other way.)
ShortestPathIsShortest ==
    \A a, b \in graphNodes :
        LET s == Search(a, b)
            w == Walks(a, b)
        IN IF w = {} THEN s.dist[b] = Infinite
           ELSE /\ s.dist[b] = Min({Length(p) : p \in w})
                /\ PathTo(s, b) \in w /\ Length(PathTo(s, b)) = s.dist[b]

\* The adjacency and the links say the same whatever nodes are removed: two ids are
\* neighbours, both ways, exactly when there is a link between them.
LinksAreAdjacent ==
    \A a, b \in GraphNode :
        b \in adjacency[a] <=> (links[<<a, b>>] # NoLink \/ links[<<b, a>>] # NoLink)
=============================================================================
