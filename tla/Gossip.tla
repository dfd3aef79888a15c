------------------------------- MODULE Gossip -------------------------------
(***************************************************************************)
(* The peer registries of a mesh of clusters and the gossip between them   *)
(* (mesh/peer_registry.py, mesh/gossip.py).                                *)
(*                                                                         *)
(* Threads.  In each cluster the mesh thread runs the gossip loop; the     *)
(* pushes of one round are coroutines that wait for their answers together *)
(* (asyncio.gather).  Gossip that arrives is merged by the server's thread.*)
(* A registry call holds the registry's lock, so each is one step, and the *)
(* server may merge between any two calls of the mesh thread.              *)
(*                                                                         *)
(* Time.  Both numbers of a peer record are readings of a clock: version   *)
(* is int(now) of the cluster it describes, last_seen the moment of a      *)
(* contact with it.  The model keeps how long ago each was: an age goes up *)
(* as time passes, and "newer" means a smaller age.  Clocks agree.         *)
(*                                                                         *)
(* A cluster never pushes, picks or routes to its own record, so registries *)
(* are modelled without it.  Loads, health, latencies and hop counts have  *)
(* no part in what is kept; which peers a round picks is random.           *)
(*                                                                         *)
(* Freedom the code does not have, which only adds behaviours: seeds are   *)
(* pushed to together, not one after another; an answer to a push of an    *)
(* earlier life of a cluster, of the same age, counts for the new one.     *)
(* There are fewer clusters than _push_to_peer passes on (eight or more).  *)
(***************************************************************************)
EXTENDS Naturals, FiniteSets, FiniteSetsExt

CONSTANTS
    Cluster,      \* the clusters of the mesh
    Seeds,        \* ARSONIST_MESH_SEED_URLS of each cluster
    Fanout,       \* ARSONIST_GOSSIP_FANOUT
    TTL,          \* ARSONIST_PEER_TTL
    Slack,        \* the second that decides between versions
    Timeout,      \* bound: how long a push or a message lasts
    MaxStops,     \* bound: how often clusters stop
    MaxSent,      \* bound: messages on their way at a time
    GossipFaults, \* a subset of GossipFaultKinds
    NoPeer        \* no record

GossipFaultKinds == {"loss", "partition"}

\* Ages are counted up to Oldest.  A registry is swept once per time unit, or
\* when the pushes of the last round have ended, so no age kept by a cluster that
\* is up gets there.
Oldest == TTL + Timeout + 2
Age == 0 .. Oldest
Record == [ver : Age, seen : Age]

ASSUME ClusterAssumption == IsFiniteSet(Cluster) /\ Seeds \in [Cluster -> SUBSET Cluster]
ASSUME TimeAssumption == /\ TTL \in Nat /\ Slack \in Nat /\ Timeout \in Nat /\ Fanout \in Nat \ {0}
                         /\ MaxStops \in Nat /\ MaxSent \in Nat
ASSUME NoPeerAssumption == NoPeer \notin Record
ASSUME GossipFaultAssumption == GossipFaults \subseteq GossipFaultKinds

VARIABLES
    up,       \* clusters whose control plane runs
    downFor,  \* time since a cluster that is down stopped
    peers,    \* rows of each registry: NoPeer or the record of another cluster
    round,    \* the gossip loop of each cluster: sleeping, expired, pushing
    snap,     \* age of the snapshot of the current round
    push,     \* where each push of the round is
    read,     \* the record update_latency_hint has read
    sent,     \* POSTs /mesh/gossip on their way
    net,      \* "whole", or "split" while a side is cut off, or "healed"
    side,     \* the side that is cut off
    stops

meshThread == <<round, snap, push, read>>
gossipVars == <<up, downFor, peers, meshThread, sent, net, side, stops>>

Message == [from : Cluster, to : Cluster, age : Age, rows : [Cluster -> Record \cup {NoPeer}]]

GossipTypeOK ==
    /\ up \in SUBSET Cluster
    /\ downFor \in [Cluster -> Age]
    /\ peers \in [Cluster -> [Cluster -> Record \cup {NoPeer}]]
    /\ round \in [Cluster -> {"sleeping", "expired", "pushing", "seeding"}]
    /\ snap \in [Cluster -> Age]
    /\ push \in [Cluster -> [Cluster -> {"none", "list", "sent", "answered", "hint"}]]
    /\ read \in [Cluster -> Record \cup {NoPeer}]
    /\ sent \in SUBSET Message
    /\ net \in {"whole", "split", "healed"}
    /\ side \in SUBSET Cluster
    /\ stops \in 0 .. MaxStops
    /\ \A c \in Cluster : (\E d \in Cluster : push[c][d] = "hint") => read[c] \in Record

GossipInit ==
    /\ up = {}
    /\ downFor = [c \in Cluster |-> Oldest]
    /\ peers = [c \in Cluster |-> [d \in Cluster |-> NoPeer]]
    /\ round = [c \in Cluster |-> "sleeping"]
    /\ snap = [c \in Cluster |-> 0]
    /\ push = [c \in Cluster |-> [d \in Cluster |-> "none"]]
    /\ read = [c \in Cluster |-> NoPeer]
    /\ sent = {}
    /\ net = "whole" /\ side = {}
    /\ stops = 0

-----------------------------------------------------------------------------
(* PeerRegistry *)

Known(c) == {d \in Cluster : peers[c][d] # NoPeer}

\* _should_replace, on ages.
Replaces(cur, nxt) ==
    \/ nxt.ver < cur.ver
    \/ nxt.ver = cur.ver /\ nxt.seen <= cur.seen
    \/ nxt.seen + Slack < cur.seen

\* merge_state of the sender's snapshot and the rows it passed on.
Merged(rows, m) ==
    [d \in Cluster |->
        LET new == IF d = m.from THEN [ver |-> m.age, seen |-> m.age] ELSE m.rows[d] IN
        IF \/ new = NoPeer
           \/ rows[d] # NoPeer /\ ~ Replaces(rows[d], new)
        THEN rows[d]
        ELSE new]

\* Mutant of Unexpired: the sweep ends with the first row it removes.
UnexpiredButOne(c) ==
    LET stale == {d \in Known(c) : peers[c][d].seen > TTL} IN
    [d \in Cluster |-> IF d \in stale /\ d = (CHOOSE x \in stale : TRUE) THEN NoPeer ELSE peers[c][d]]

\* expire_stale.
Unexpired(c) ==
    [d \in Cluster |-> IF d \in Known(c) /\ peers[c][d].seen > TTL THEN NoPeer ELSE peers[c][d]]

-----------------------------------------------------------------------------
(* The gossip loop of cluster c *)

\* The mesh thread of c is not between the two registry calls of a latency hint.
Free(c) == \A d \in Cluster : push[c][d] # "hint"

\* _tick_once, expire_stale and the snapshot.
Expire(c) ==
    /\ c \in up
    /\ round[c] = "sleeping"
    /\ peers' = [peers EXCEPT ![c] = Unexpired(c)]
    /\ snap' = [snap EXCEPT ![c] = 0]
    /\ round' = [round EXCEPT ![c] = "expired"]
    /\ UNCHANGED <<up, downFor, push, read, sent, net, side, stops>>

\* _tick_once, the choice of peers, or of the seeds where no peer is known.
Pick(c) ==
    /\ round[c] = "expired"
    /\ \E chosen \in SUBSET Cluster :
          /\ IF Known(c) = {}
             THEN chosen = Seeds[c] \ {c}
             ELSE chosen \in kSubset(Min({Fanout, Cardinality(Known(c))}), Known(c))
          /\ push' = [push EXCEPT ![c] = [d \in Cluster |-> IF d \in chosen THEN "list" ELSE "none"]]
    /\ round' = [round EXCEPT ![c] = IF Known(c) = {} THEN "seeding" ELSE "pushing"]
    /\ UNCHANGED <<up, downFor, peers, snap, read, sent, net, side, stops>>

\* _push_to_peer up to its POST.
Push(c, d) ==
    /\ push[c][d] = "list"
    /\ Free(c)
    /\ Cardinality(sent) < MaxSent
    /\ sent' = sent \cup {[from |-> c, to |-> d, age |-> snap[c], rows |-> [peers[c] EXCEPT ![d] = NoPeer]]}
    /\ push' = [push EXCEPT ![c][d] = "sent"]
    /\ UNCHANGED <<up, downFor, peers, round, snap, read, net, side, stops>>

\* A message to or from the side that is cut off.
Crosses(m) == net = "split" /\ (m.from \in side) # (m.to \in side)

\* Mutant of PushFails: update_latency_hint follows whatever the outcome.
AnyOutcomeCounts(c, d) ==
    /\ push[c][d] = "sent"
    /\ Free(c)
    /\ push' = [push EXCEPT ![c][d] = "answered"]
    /\ UNCHANGED <<up, downFor, peers, round, snap, read, sent, net, side, stops>>

\* The POST fails: the peer is not there, or no answer came in time, in which
\* case the message may still arrive.
PushFails(c, d) ==
    LET posted == {m \in sent : m.from = c /\ m.to = d} IN
    /\ push[c][d] = "sent"
    /\ Free(c)
    /\ \/ /\ \A m \in posted : d \notin up \/ Crosses(m)
          /\ sent' = sent \ posted
       \/ "loss" \in GossipFaults /\ sent' \in {sent, sent \ posted}
    /\ push' = [push EXCEPT ![c][d] = "none"]
    /\ UNCHANGED <<up, downFor, peers, round, snap, read, net, side, stops>>

\* Mutant of HintRead: the test for a missing row is dropped.
ReadUnchecked(c, d) ==
    /\ push[c][d] = "answered"
    /\ Free(c)
    /\ push' = [push EXCEPT ![c][d] = "hint"]
    /\ read' = [read EXCEPT ![c] = peers[c][d]]
    /\ UNCHANGED <<up, downFor, peers, round, snap, sent, net, side, stops>>

\* update_latency_hint, its get.  A seed is pushed to under a name of its own,
\* which no row has.
HintRead(c, d) ==
    /\ push[c][d] = "answered"
    /\ Free(c)
    /\ IF round[c] = "seeding" \/ peers[c][d] = NoPeer
       THEN push' = [push EXCEPT ![c][d] = "none"] /\ UNCHANGED read
       ELSE push' = [push EXCEPT ![c][d] = "hint"] /\ read' = [read EXCEPT ![c] = peers[c][d]]
    /\ UNCHANGED <<up, downFor, peers, round, snap, sent, net, side, stops>>

\* update_latency_hint, its UPDATE: last_seen is now, and a row that has been
\* deleted in the meantime stays deleted.
HintWrite(c, d) ==
    /\ push[c][d] = "hint"
    /\ peers' = IF peers[c][d] = NoPeer THEN peers
                ELSE [peers EXCEPT ![c][d] = [read[c] EXCEPT !.seen = 0]]
    /\ push' = [push EXCEPT ![c][d] = "none"]
    /\ read' = [read EXCEPT ![c] = NoPeer]
    /\ UNCHANGED <<up, downFor, round, snap, sent, net, side, stops>>

\* All pushes of the round have ended, and the loop sleeps for the interval.
Done(c) == round[c] \in {"pushing", "seeding"} /\ \A d \in Cluster : push[c][d] = "none"

-----------------------------------------------------------------------------
(* The server, the network and the clusters *)

\* handle_incoming.  The answer counts if the push still waits for it, and may be lost.
Receive(m) ==
    /\ m \in sent
    /\ m.to \in up
    /\ ~ Crosses(m)
    /\ sent' = sent \ {m}
    /\ peers' = [peers EXCEPT ![m.to] = Merged(peers[m.to], m)]
    /\ \/ /\ push[m.from][m.to] = "sent" /\ snap[m.from] = m.age
          /\ push' = [push EXCEPT ![m.from][m.to] = "answered"]
       \/ /\ "loss" \in GossipFaults \/ push[m.from][m.to] # "sent" \/ snap[m.from] # m.age
          /\ UNCHANGED push
    /\ UNCHANGED <<up, downFor, round, snap, read, net, side, stops>>

\* maybe_start_mesh: the registry is read back from SQLite.
Start(c) ==
    /\ c \notin up
    /\ up' = up \cup {c}
    /\ downFor' = [downFor EXCEPT ![c] = 0]
    /\ UNCHANGED <<peers, meshThread, sent, net, side, stops>>

Stop(c) ==
    /\ c \in up
    /\ stops < MaxStops
    /\ stops' = stops + 1
    /\ up' = up \ {c}
    /\ round' = [round EXCEPT ![c] = "sleeping"]
    /\ snap' = [snap EXCEPT ![c] = 0]
    /\ push' = [push EXCEPT ![c] = [d \in Cluster |-> "none"]]
    /\ read' = [read EXCEPT ![c] = NoPeer]
    /\ UNCHANGED <<downFor, peers, sent, net, side>>

\* Every cluster runs and knows every other.
Acquainted == up = Cluster /\ \A c, d \in Cluster : c # d => peers[c][d] # NoPeer

Split ==
    /\ "partition" \in GossipFaults
    /\ net = "whole" /\ Acquainted
    /\ net' = "split"
    /\ side' \in SUBSET Cluster \ {{}} /\ 2 * Cardinality(side') <= Cardinality(Cluster)
    /\ UNCHANGED <<up, downFor, peers, meshThread, sent, stops>>

Heal ==
    /\ net = "split"
    /\ net' = "healed" /\ side' = {}
    /\ UNCHANGED <<up, downFor, peers, meshThread, sent, stops>>

Older(a) == IF a < Oldest THEN a + 1 ELSE a
OlderRow(r) == IF r = NoPeer THEN r ELSE [ver |-> Older(r.ver), seen |-> Older(r.seen)]
OlderRows(rows) == [d \in Cluster |-> OlderRow(rows[d])]

\* Time passes once every cluster has had its round, or waits in one that has not
\* timed out.  Messages that take longer are lost.
Time ==
    /\ \A c \in up : \/ Done(c)
                     \/ round[c] \in {"pushing", "seeding"} /\ snap[c] < Timeout
                        /\ \A d \in Cluster : push[c][d] \in {"none", "sent", "answered"}
    /\ downFor' = [c \in Cluster |-> IF c \in up THEN 0 ELSE Older(downFor[c])]
    /\ peers' = [c \in Cluster |-> OlderRows(peers[c])]
    /\ round' = [c \in Cluster |-> IF Done(c) THEN "sleeping" ELSE round[c]]
    /\ snap' = [c \in Cluster |-> IF round'[c] = "sleeping" THEN 0 ELSE Older(snap[c])]
    /\ sent' = {[m EXCEPT !.age = Older(@), !.rows = OlderRows(@)] : m \in {m \in sent : m.age < Timeout}}
    /\ UNCHANGED <<up, push, read, net, side, stops>>
-----------------------------------------------------------------------------
GossipLoop(c) ==
    \/ Expire(c)
    \/ Pick(c)
    \/ \E d \in Cluster : Push(c, d) \/ PushFails(c, d) \/ HintRead(c, d) \/ HintWrite(c, d)

GossipNext ==
    \/ \E c \in Cluster : GossipLoop(c) \/ Start(c) \/ Stop(c)
    \/ \E m \in sent : Receive(m)
    \/ Split
    \/ Heal
    \/ Time

GossipSpec == GossipInit /\ [][GossipNext]_gossipVars

-----------------------------------------------------------------------------
(* Properties *)

\* A record of a cluster that is down never says that it was seen later than the
\* duration of a push after it stopped, in no registry and in no message: however
\* gossip is relayed, merged, or overwritten by a latency hint read before a
\* merge, it makes no dead cluster look alive (merge_state, update_latency_hint).
HonestRecords ==
    \A d \in Cluster \ up :
        /\ \A c \in Cluster : peers[c][d] # NoPeer => peers[c][d].seen + Timeout >= downFor[d]
        /\ \A m \in sent : m.rows[d] # NoPeer => m.rows[d].seen + Timeout >= downFor[d]

\* Each round of the gossip loop begins by forgetting every cluster that has been
\* down for longer than the TTL and a push (_tick_once, expire_stale).
DeadIsSwept ==
    [][\A c \in Cluster : round[c] = "sleeping" /\ round'[c] = "expired" =>
          \A d \in Cluster \ up : downFor[d] > TTL + Timeout => peers'[c][d] = NoPeer]_gossipVars

\* c pushes to d, or will as things are.
Calls(c, d) == \/ peers[c][d] # NoPeer
               \/ push[c][d] = "list"
               \/ Known(c) = {} /\ d \in Seeds[c]
               \/ \E m \in sent : m.from = c /\ m.to = d

\* mesh/partition_handler.py: "After reconnection, peers are merged via gossip +
\* anti-entropy".  When a partition is over, no part of the mesh is without any
\* contact to the rest, in either direction.
PartsMeet ==
    net = "healed" =>
        \A part \in SUBSET Cluster \ {{}, Cluster} :
            \E c \in part, d \in Cluster \ part : Calls(c, d) \/ Calls(d, c)

=============================================================================
