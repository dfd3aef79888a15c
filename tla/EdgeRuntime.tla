---------------------------- MODULE EdgeRuntime ----------------------------
(***************************************************************************)
(* The runtime of an edge node (edge/edge_runtime.py): results are kept in *)
(* memory and in a database, and an outbox in the database is synchronised *)
(* upstream by a thread while the node is connected.                       *)
(*                                                                         *)
(* One caller stores results, another asks for them, others connect and    *)
(* disconnect the node; the node may stop and be started again, which      *)
(* empties the memory and keeps the database.  A result is its number, and *)
(* belongs to the key KeyOf gives it.  on_sync is external: it takes the   *)
(* rows or raises; a runtime built without it marks the rows all the same. *)
(* Request counters are left out.                                          *)
(***************************************************************************)
EXTENDS Integers, FiniteSets, Sequences, SequencesExt, Lists

CONSTANTS
    EdgeKey,      \* request keys
    MaxResults,   \* bound: results stored
    KeyOf,        \* the request key of each result
    CacheMax,     \* cache_max_entries
    OutboxLimit,  \* rows of one flush (100 in the code)
    MaxEdgeFaults \* bound: disconnections, restarts, stops, raising on_sync calls

Result == 1 .. MaxResults

ASSUME EdgeAssumption == /\ MaxResults \in Nat /\ KeyOf \in [Result -> EdgeKey]
                         /\ CacheMax \in Nat \ {0} /\ OutboxLimit \in Nat \ {0}
                         /\ MaxEdgeFaults \in Nat

VARIABLES
    callback,  \* whether the runtime was built with an on_sync
    memory,    \* _local_cache: its results, the least recently accessed first
    rows,      \* edge_cache: the result of each key, 0 when there is none
    outbox,    \* edge_outbox: the results enqueued, in the order of their ids
    synced,    \* the results whose row is marked synced
    storing,   \* the store_result under way: [result, step]
    loading,   \* the result a request read from the database, not yet in memory
    connected, \* _connected
    edgeState, \* _state
    syncer,    \* the sync thread: none, waiting, or flushing
    stopAsked, \* _stop
    flushing,  \* the rows the flush has read
    handed,    \* whether on_sync took them
    upstream,  \* external: the results on_sync was handed
    stored,    \* how many results were stored
    edgeFaults

edVars == <<callback, memory, rows, outbox, synced, storing, loading, connected, edgeState, syncer,
            stopAsked, flushing, handed, upstream, stored, edgeFaults>>

edgeDb == <<rows, outbox, synced>>
requests == <<memory, storing, loading, stored>>
syncing == <<callback, syncer, stopAsked, flushing, handed>>

Idle == [result |-> 0, step |-> "none"]

EdgeRuntimeTypeOK ==
    /\ callback \in BOOLEAN
    /\ memory \in Seq(Result) /\ rows \in [EdgeKey -> 0 .. MaxResults]
    /\ outbox \in Seq(Result) /\ synced \subseteq Result
    /\ storing \in [result : 0 .. MaxResults, step : {"none", "row", "outbox"}]
    /\ loading \in 0 .. MaxResults /\ stored \in 0 .. MaxResults
    /\ connected \in BOOLEAN /\ edgeState \in {"online", "offline", "syncing"}
    /\ syncer \in {"none", "waiting", "flushing"} /\ stopAsked \in BOOLEAN
    /\ flushing \subseteq Result /\ handed \in BOOLEAN /\ upstream \subseteq Result
    /\ edgeFaults \in 0 .. MaxEdgeFaults

EdInit ==
    /\ callback \in BOOLEAN
    /\ memory = <<>> /\ rows = [k \in EdgeKey |-> 0] /\ outbox = <<>> /\ synced = {}
    /\ storing = Idle /\ loading = 0 /\ stored = 0
    /\ connected = TRUE /\ edgeState = "online"
    /\ syncer = "none" /\ stopAsked = FALSE /\ flushing = {} /\ handed = FALSE
    /\ upstream = {} /\ edgeFaults = 0

EdgeFault == edgeFaults < MaxEdgeFaults /\ edgeFaults' = edgeFaults + 1

Remember(r) == Append(Selection(memory, {q \in Result : KeyOf[q] # KeyOf[r]}), r)

\* Mutant of Unsynced: the query takes the first rows before it drops the synced ones.
UnsyncedAmongFirst ==
    Selection(IF Len(outbox) > OutboxLimit THEN SubSeq(outbox, 1, OutboxLimit) ELSE outbox,
              Result \ synced)

Unsynced == Selection(outbox, Result \ synced)

\* store_result, its three steps: the memory, where one entry is evicted when there are
\* too many, then the row, then the outbox.
StoreInMemory ==
    /\ storing = Idle /\ stored < MaxResults
    /\ stored' = stored + 1 /\ storing' = [result |-> stored', step |-> "row"]
    /\ LET m == Remember(stored') IN memory' = IF Len(m) > CacheMax THEN Tail(m) ELSE m
    /\ UNCHANGED <<edgeDb, loading, connected, edgeState, syncing, upstream, edgeFaults>>

StoreRow ==
    /\ storing.step = "row"
    /\ rows' = [rows EXCEPT ![KeyOf[storing.result]] = storing.result]
    /\ storing' = [storing EXCEPT !.step = "outbox"]
    /\ UNCHANGED <<outbox, synced, memory, loading, stored, connected, edgeState, syncing,
                   upstream, edgeFaults>>

StoreInOutbox ==
    /\ storing.step = "outbox"
    /\ outbox' = Append(outbox, storing.result) /\ storing' = Idle
    /\ UNCHANGED <<rows, synced, memory, loading, stored, connected, edgeState, syncing,
                   upstream, edgeFaults>>

\* handle_request: a key in memory moves to its end; another is read from the database
\* and put into memory later, where nothing is evicted.
RequestHit(k) ==
    /\ loading = 0
    /\ \E i \in DOMAIN memory : KeyOf[memory[i]] = k /\ memory' = Remember(memory[i])
    /\ UNCHANGED <<edgeDb, storing, loading, stored, connected, edgeState, syncing,
                   upstream, edgeFaults>>

RequestReads(k) ==
    /\ loading = 0 /\ \A i \in DOMAIN memory : KeyOf[memory[i]] # k
    /\ rows[k] # 0 /\ loading' = rows[k]
    /\ UNCHANGED <<edgeDb, memory, storing, stored, connected, edgeState, syncing,
                   upstream, edgeFaults>>

RequestLoads ==
    /\ loading # 0 /\ loading' = 0 /\ memory' = Remember(loading)
    /\ UNCHANGED <<edgeDb, storing, stored, connected, edgeState, syncing, upstream, edgeFaults>>

SetConnected(c) ==
    /\ c # connected /\ connected' = c
    /\ IF c THEN UNCHANGED edgeFaults ELSE EdgeFault
    /\ edgeState' = IF c THEN "syncing" ELSE "offline"
    /\ UNCHANGED <<edgeDb, requests, syncing, upstream>>

StartSync ==
    /\ syncer = "none" /\ syncer' = "waiting" /\ stopAsked' = FALSE
    /\ UNCHANGED <<edgeDb, requests, connected, edgeState, callback, flushing, handed, upstream, edgeFaults>>

StopSync ==
    /\ syncer # "none" /\ EdgeFault /\ stopAsked' = TRUE
    /\ UNCHANGED <<edgeDb, requests, connected, edgeState, callback, syncer, flushing, handed, upstream>>

SyncEnds ==
    /\ syncer = "waiting" /\ stopAsked /\ syncer' = "none"
    /\ UNCHANGED <<edgeDb, requests, connected, edgeState, callback, stopAsked, flushing, handed,
                   upstream, edgeFaults>>

\* _flush_outbox, first part: the loop has seen the node connected.
ReadOutbox ==
    /\ syncer = "waiting" /\ ~ stopAsked /\ connected
    /\ IF Unsynced = <<>>
       THEN /\ edgeState' = IF edgeState = "syncing" THEN "online" ELSE edgeState
            /\ UNCHANGED <<syncer, flushing>>
       ELSE /\ syncer' = "flushing"
            /\ flushing' = {Unsynced[i] : i \in {j \in DOMAIN Unsynced : j <= OutboxLimit}}
            /\ UNCHANGED edgeState
    /\ UNCHANGED <<edgeDb, requests, connected, callback, stopAsked, handed, upstream, edgeFaults>>

\* _flush_outbox, the call of on_sync, or its absence.
HandOver ==
    /\ syncer = "flushing" /\ ~ handed
    /\ handed' = TRUE
    /\ upstream' = IF callback THEN upstream \cup flushing ELSE upstream
    /\ UNCHANGED <<edgeDb, requests, connected, edgeState, callback, syncer, stopAsked,
                   flushing, edgeFaults>>

\* on_sync raises, before or after it took the rows: the loop logs it and comes back.
SyncRaises ==
    /\ callback /\ syncer = "flushing" /\ ~ handed /\ EdgeFault
    /\ upstream' \in {upstream, upstream \cup flushing}
    /\ syncer' = "waiting" /\ flushing' = {}
    /\ UNCHANGED <<edgeDb, requests, connected, edgeState, callback, stopAsked, handed>>

\* Mutant of MarkSynced: the rows the query would return now are marked.
MarkAll ==
    /\ syncer = "flushing" /\ handed
    /\ synced' = synced \cup Range(outbox)
    /\ edgeState' = IF edgeState = "syncing" THEN "online" ELSE edgeState
    /\ syncer' = "waiting" /\ flushing' = {} /\ handed' = FALSE
    /\ UNCHANGED <<rows, outbox, requests, connected, callback, stopAsked, upstream, edgeFaults>>

\* Mark the rows, and leave the syncing state when none is left.
MarkSynced ==
    /\ syncer = "flushing" /\ handed
    /\ synced' = synced \cup flushing
    /\ edgeState' = IF edgeState = "syncing" /\ Range(outbox) \subseteq synced' THEN "online"
                    ELSE edgeState
    /\ syncer' = "waiting" /\ flushing' = {} /\ handed' = FALSE
    /\ UNCHANGED <<rows, outbox, requests, connected, callback, stopAsked, upstream, edgeFaults>>

\* The process stops anywhere and is built again on the same database.
EdgeRestarts ==
    /\ EdgeFault
    /\ memory' = <<>> /\ storing' = Idle /\ loading' = 0
    /\ connected' = TRUE /\ edgeState' = "online"
    /\ syncer' = "none" /\ stopAsked' = FALSE /\ flushing' = {} /\ handed' = FALSE
    /\ UNCHANGED <<edgeDb, stored, callback, upstream>>

EdNext ==
    \/ StoreInMemory \/ StoreRow \/ StoreInOutbox
    \/ \E k \in EdgeKey : RequestHit(k) \/ RequestReads(k)
    \/ RequestLoads
    \/ \E c \in BOOLEAN : SetConnected(c)
    \/ StartSync \/ StopSync \/ SyncEnds
    \/ ReadOutbox \/ HandOver \/ SyncRaises \/ MarkSynced
    \/ EdgeRestarts

\* The sync thread runs its loop, and the node is reconnected and its thread started
\* again after a fault.
EdFairness ==
    /\ WF_edVars(StartSync) /\ WF_edVars(SyncEnds) /\ WF_edVars(SetConnected(TRUE))
    /\ WF_edVars(ReadOutbox) /\ WF_edVars(HandOver) /\ WF_edVars(MarkSynced)

EdSpec == EdInit /\ [][EdNext]_edVars /\ EdFairness

-----------------------------------------------------------------------------
(* Properties *)

\* With an on_sync, a row is marked synced only when that was handed its result: a
\* failure between the two repeats a result upstream and never loses one.
SyncedWasHanded == callback => synced \subseteq upstream

\* With an on_sync, every result that reached the outbox reaches the other side, whatever
\* disconnections, restarts, stops and raising calls come between.
OutboxDrains == \A r \in Result : callback /\ Contains(outbox, r) ~> r \in upstream
=============================================================================
