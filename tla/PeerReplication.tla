--------------------------- MODULE PeerReplication ---------------------------
(***************************************************************************)
(* The incremental replicator of a region (replication/                    *)
(* state_replication.py): callers enqueue entries, a thread flushes them   *)
(* in batches to one peer after the other.                                 *)
(*                                                                         *)
(* The batch leaves the queue under the lock; the loop over the peers runs *)
(* without it, on the very list that add_peer and remove_peer change: it   *)
(* goes by position, so that a removal in front of it makes it skip a      *)
(* peer.  add_peer tests and appends without a lock: two callers may list  *)
(* a peer twice.  send_fn is external and may be missing, and then every   *)
(* send counts as a success; a call that fails is not repeated.  Entries   *)
(* are numbered by their versions.                                         *)
(***************************************************************************)
EXTENDS Integers, FiniteSets, Sequences, SequencesExt

CONSTANTS
    Peer,         \* regions that may be peers
    BatchSize,    \* batch_size
    MaxEntries,   \* bound: entries
    MaxPeerChanges \* bound: calls of add_peer and remove_peer, starts and stops

ASSUME PeerAssumption == IsFiniteSet(Peer) /\ BatchSize \in Nat \ {0}
ASSUME PeerBoundAssumption == MaxEntries \in Nat /\ MaxPeerChanges \in Nat

VARIABLES
    sendFn,      \* whether the replicator was made with a send_fn
    entries,     \* how many entries have been enqueued
    outbound,    \* _outbound_queue
    peerList,    \* peer_regions
    adding,      \* the callers of add_peer between its test and its append
    thread,      \* the thread: none, waiting, or sending
    stopping,    \* _stop
    sending,     \* the batch of the flush under way
    position,    \* the position of the loop in the list
    checkpoint,  \* _checkpoints
    arrived,     \* external: the entries each peer has received
    peerChanges

prVars == <<sendFn, entries, outbound, peerList, adding, thread, stopping, sending, position,
            checkpoint, arrived, peerChanges>>

PeerReplicationTypeOK ==
    /\ sendFn \in BOOLEAN /\ entries \in 0 .. MaxEntries
    /\ outbound \in Seq(1 .. MaxEntries) /\ sending \in Seq(1 .. MaxEntries)
    /\ peerList \in Seq(Peer) /\ adding \in [Peer -> 0 .. MaxPeerChanges]
    /\ thread \in {"none", "waiting", "sending"} /\ stopping \in BOOLEAN
    /\ position \in Nat
    /\ checkpoint \in [Peer -> 0 .. MaxEntries]
    /\ arrived \in [Peer -> Seq(1 .. MaxEntries)]
    /\ peerChanges \in 0 .. MaxPeerChanges

PrInit ==
    /\ sendFn \in BOOLEAN /\ entries = 0 /\ outbound = <<>>
    /\ peerList \in UNION {[1 .. n -> Peer] : n \in 0 .. Cardinality(Peer)}
    /\ adding = [p \in Peer |-> 0]
    /\ thread = "none" /\ stopping = FALSE
    /\ sending = <<>> /\ position = 1
    /\ checkpoint = [p \in Peer |-> 0]
    /\ arrived = [p \in Peer |-> <<>>]
    /\ peerChanges = 0

PeerChange == peerChanges < MaxPeerChanges /\ peerChanges' = peerChanges + 1

\* start: nothing while the thread is alive, even one that is about to stop.
StartReplicator ==
    /\ PeerChange
    /\ IF thread # "none" THEN UNCHANGED <<thread, stopping>>
       ELSE thread' = "waiting" /\ stopping' = FALSE
    /\ UNCHANGED <<sendFn, adding, entries, outbound, peerList, sending, position, checkpoint,
                   arrived>>

StopReplicator ==
    /\ PeerChange
    /\ stopping' = TRUE
    /\ UNCHANGED <<sendFn, adding, entries, outbound, peerList, thread, sending, position,
                   checkpoint, arrived>>

\* The loop sees the stop event between two flushes.
ThreadEnds ==
    /\ thread = "waiting" /\ stopping
    /\ thread' = "none"
    /\ UNCHANGED <<sendFn, adding, entries, outbound, peerList, stopping, sending, position,
                   checkpoint, arrived, peerChanges>>

EnqueueEntry ==
    /\ entries < MaxEntries
    /\ entries' = entries + 1
    /\ outbound' = Append(outbound, entries')
    /\ UNCHANGED <<sendFn, adding, peerList, thread, stopping, sending, position, checkpoint,
                   arrived, peerChanges>>

\* _flush takes the first entries of the queue.
TakeBatch ==
    /\ thread = "waiting" /\ ~ stopping /\ outbound # <<>>
    /\ LET n == IF Len(outbound) < BatchSize THEN Len(outbound) ELSE BatchSize IN
       /\ sending' = SubSeq(outbound, 1, n)
       /\ outbound' = SubSeq(outbound, n + 1, Len(outbound))
    /\ thread' = "sending" /\ position' = 1
    /\ UNCHANGED <<sendFn, adding, entries, peerList, stopping, checkpoint, arrived, peerChanges>>

\* Mutant of SendBatch: the checkpoint moves whether or not the call succeeded.
SendUnchecked ==
    /\ thread = "sending" /\ position <= Len(peerList)
    /\ LET p == peerList[position] IN
       /\ \/ arrived' = [arrived EXCEPT ![p] = @ \o sending]
          \/ UNCHANGED arrived
       /\ checkpoint' = [checkpoint EXCEPT ![p] = Last(sending)]
    /\ position' = position + 1
    /\ UNCHANGED <<sendFn, adding, entries, outbound, peerList, thread, stopping, sending,
                   peerChanges>>

BatchArrives(p) == arrived' = [arrived EXCEPT ![p] = @ \o sending]
Confirmed(p) ==
    checkpoint' = [checkpoint EXCEPT ![p] = IF @ < Last(sending) THEN Last(sending) ELSE @]

\* One turn of the loop: the call succeeds and the checkpoint moves to the newest entry,
\* or it fails, before or after the batch arrived.  Without a send_fn nothing arrives and
\* the checkpoint moves.
SendBatch ==
    /\ thread = "sending" /\ position <= Len(peerList)
    /\ LET p == peerList[position] IN
       \/ sendFn /\ BatchArrives(p) /\ (Confirmed(p) \/ UNCHANGED checkpoint)
       \/ sendFn /\ UNCHANGED <<arrived, checkpoint>>
       \/ ~ sendFn /\ Confirmed(p) /\ UNCHANGED arrived
    /\ position' = position + 1
    /\ UNCHANGED <<sendFn, adding, entries, outbound, peerList, thread, stopping, sending,
                   peerChanges>>

FlushEnds ==
    /\ thread = "sending" /\ position > Len(peerList)
    /\ thread' = "waiting" /\ sending' = <<>>
    /\ UNCHANGED <<sendFn, adding, entries, outbound, peerList, stopping, position, checkpoint,
                   arrived, peerChanges>>

\* add_peer up to its test, which finds the peer missing.
FindNoPeer(p) ==
    /\ PeerChange /\ ~ Contains(peerList, p)
    /\ adding' = [adding EXCEPT ![p] = @ + 1]
    /\ UNCHANGED <<sendFn, entries, outbound, peerList, thread, stopping, sending, position,
                   checkpoint, arrived>>

\* Its append, whatever the list holds by now.
AddPeer(p) ==
    /\ adding[p] > 0
    /\ adding' = [adding EXCEPT ![p] = @ - 1]
    /\ peerList' = Append(peerList, p)
    /\ UNCHANGED <<sendFn, entries, outbound, thread, stopping, sending, position, checkpoint,
                   arrived, peerChanges>>

\* remove_peer: list.remove takes the first occurrence, and raises if the peer went
\* since the test.
RemovePeer(p) ==
    /\ PeerChange
    /\ \E k \in DOMAIN peerList :
          /\ peerList[k] = p /\ \A j \in 1 .. k - 1 : peerList[j] # p
          /\ peerList' = RemoveAt(peerList, k)
    /\ UNCHANGED <<sendFn, adding, entries, outbound, thread, stopping, sending, position,
                   checkpoint, arrived>>

PrNext ==
    \/ StartReplicator \/ StopReplicator \/ ThreadEnds
    \/ EnqueueEntry \/ TakeBatch \/ SendBatch \/ FlushEnds
    \/ \E p \in Peer : FindNoPeer(p) \/ AddPeer(p) \/ RemovePeer(p)

PrSpec == PrInit /\ [][PrNext]_prVars

-----------------------------------------------------------------------------
(* Properties *)

\* With a send_fn a peer has received the entry its checkpoint names, also when sends fail
\* and the list of peers changes under the loop; and it receives entries in the order of
\* the queue: never an older one after a newer one for the first time.  It may lack any of
\* the earlier ones, and a peer that is listed twice, or removed and added again while a
\* batch is on its way, gets that batch twice.
CheckpointIsNewest ==
    sendFn => \A p \in Peer :
        /\ checkpoint[p] = 0 \/ \E j \in DOMAIN arrived[p] : arrived[p][j] = checkpoint[p]
        /\ \A j \in 1 .. Len(arrived[p]) :
              \/ \A i \in 1 .. j - 1 : arrived[p][i] < arrived[p][j]
              \/ \E i \in 1 .. j - 1 : arrived[p][i] = arrived[p][j]
=============================================================================
