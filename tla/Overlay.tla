------------------------------ MODULE Overlay ------------------------------
(***************************************************************************)
(* The overlay network of a region (networking/overlay_network.py): a      *)
(* bounded pool of peer connections that evicts the longest idle one, a    *)
(* thread that times connections out, and a table of services.  Every      *)
(* operation holds the lock, but add_peer and the thread read the clock    *)
(* before they take it.  Time is counted in ticks of idleness.             *)
(***************************************************************************)
EXTENDS Integers, FiniteSets, Sequences, SequencesExt, Lists

CONSTANTS
    Link,           \* peer ids
    Service,
    NotPooled,
    MaxConnections, \* max_connections
    Silence         \* three heartbeat intervals, in ticks

ASSUME OverlayAssumption ==
    NotPooled \notin Link /\ MaxConnections \in Nat \ {0} /\ Silence \in Nat

VARIABLES
    pool,      \* _peers, the longest idle one first
    quiet,     \* since how many ticks a peer in the pool has been idle
    linkUp,    \* the peers in the pool that are connected
    services   \* _service_registry: the peer of a service, or NotPooled

ovVars == <<pool, quiet, linkUp, services>>

Pooled == Range(pool)

OverlayTypeOK ==
    /\ pool \in Seq(Link) /\ IsInjective(pool) /\ linkUp \subseteq Pooled
    /\ quiet \in [Link -> 0 .. Silence + 1]
    /\ services \in [Service -> Link \cup {NotPooled}]

OvInit ==
    /\ pool = <<>> /\ quiet = [p \in Link |-> 0] /\ linkUp = {}
    /\ services = [s \in Service |-> NotPooled]

PoolWithout(list, p) == Selection(list, Link \ {p})

\* The peer becomes the most recently active one.
Touched(p) == Append(PoolWithout(pool, p), p)

\* add_peer: a full pool evicts the longest idle peer first, also when the peer it adds is
\* in the pool already.  The new connection was active when the caller read the clock,
\* before it took the lock: k of the others were last active earlier than that.
AddOverlayPeer(p, k, idle) ==
    LET others == PoolWithout(IF Len(pool) >= MaxConnections THEN Tail(pool) ELSE pool, p) IN
    /\ k <= Len(others)
    /\ \A j \in DOMAIN others : IF j <= k THEN quiet[others[j]] >= idle ELSE quiet[others[j]] <= idle
    /\ pool' = InsertAt(others, k + 1, p)
    /\ linkUp' = (linkUp \cap Range(others)) \cup {p}
    /\ quiet' = [quiet EXCEPT ![p] = idle]
    /\ UNCHANGED services

\* remove_peer leaves the services of the peer where they are.
RemoveOverlayPeer(p) ==
    /\ pool' = PoolWithout(pool, p) /\ linkUp' = linkUp \ {p}
    /\ UNCHANGED <<quiet, services>>

\* record_traffic keeps a peer from timing out, and does not reconnect one that did.
RecordTraffic(p) ==
    /\ p \in Pooled
    /\ pool' = Touched(p) /\ quiet' = [quiet EXCEPT ![p] = 0]
    /\ UNCHANGED <<linkUp, services>>

QuietTick ==
    /\ \E p \in Pooled : quiet[p] <= Silence
    /\ quiet' = [p \in Link |-> IF p \in Pooled /\ quiet[p] <= Silence THEN quiet[p] + 1
                                                                      ELSE quiet[p]]
    /\ UNCHANGED <<pool, linkUp, services>>

\* _check_peers, each heartbeat interval: the peers that were silent for too long when the
\* thread read the clock, some of the longest idle ones.
CheckPeers ==
    /\ \E n \in 0 .. Len(pool) :
          linkUp' = linkUp \ {pool[j] : j \in {i \in 1 .. n : quiet[pool[i]] > Silence}}
    /\ UNCHANGED <<pool, quiet, services>>

\* stop disconnects every peer and keeps it in the pool.
StopOverlay ==
    /\ linkUp' = {}
    /\ UNCHANGED <<pool, quiet, services>>

RegisterService(s, p) ==
    /\ services' = [services EXCEPT ![s] = p]
    /\ UNCHANGED <<pool, quiet, linkUp>>

OvNext ==
    \/ \E p \in Link :
          \/ \E k \in 0 .. Len(pool), idle \in 0 .. Silence + 1 : AddOverlayPeer(p, k, idle)
          \/ RemoveOverlayPeer(p) \/ RecordTraffic(p)
    \/ \E s \in Service, p \in Link : RegisterService(s, p)
    \/ QuietTick \/ CheckPeers \/ StopOverlay

OvSpec == OvInit /\ [][OvNext]_ovVars

-----------------------------------------------------------------------------
(* Properties *)

\* However connections come, late or not, go, idle and time out: the pool stays within its
\* limit, and the head of it, which an eviction takes, is never a peer that was active
\* after another.
PoolEvictsIdlest ==
    /\ Len(pool) <= MaxConnections
    /\ \A j, k \in DOMAIN pool : j < k => quiet[pool[j]] >= quiet[pool[k]]
=============================================================================
