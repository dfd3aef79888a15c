------------------------------- MODULE Caches -------------------------------
(***************************************************************************)
(* The two size-limited caches: the cache fabric of a region               *)
(* (replication/cache_replication.py), whose entries are invalidated from  *)
(* other regions, and the cache of an edge node (edge/edge_cache.py).      *)
(*                                                                         *)
(* A cache is the sequence of its entries, the least recently used first,  *)
(* and its running total of bytes.  Both evict before they insert; the     *)
(* fabric does so before it forgets the entry it replaces, and may evict   *)
(* that very entry.  Expiry is a flag that sets itself at any time.  Hit,  *)
(* miss and eviction counters are left out.  The transport between fabrics *)
(* is external: it delivers a notice to the other regions or loses it.     *)
(***************************************************************************)
EXTENDS Integers, FiniteSets, Sequences, SequencesExt, Lists

CONSTANTS
    Fabric,      \* regions with a cache fabric
    EdgeBox,     \* edge nodes with a cache
    Key,
    KeyType,     \* entry_type of a key's entries: [Key -> types]
    MaxBytes,    \* max_size_bytes
    MaxCached,   \* max_entries of an edge cache
    MaxPuts      \* bound: calls of put

ASSUME CacheAssumption == /\ IsFiniteSet(Fabric) /\ IsFiniteSet(EdgeBox) /\ Fabric \cap EdgeBox = {}
                          /\ MaxBytes \in Nat /\ MaxCached \in Nat \ {0} /\ MaxPuts \in Nat

VARIABLES
    cache,   \* _entries of each cache, ordered by the last access
    bytes,   \* _current_size
    notices, \* external: invalidations on their way, [what, from, to]
    puts

caVars == <<cache, bytes, notices, puts>>

Box == Fabric \cup EdgeBox
Size == 0 .. MaxBytes + 1
Entry == [key : Key, size : Size, expired : BOOLEAN, invalidated : BOOLEAN]
Notice == [what : Key \cup Range(KeyType), from : Fabric, to : Fabric]

CachesTypeOK ==
    /\ \A b \in Box : cache[b] \in Seq(Entry) /\ bytes[b] \in Int
    /\ notices \subseteq Notice
    /\ puts \in 0 .. MaxPuts

CaInit ==
    /\ cache = [b \in Box |-> <<>>] /\ bytes = [b \in Box |-> 0]
    /\ notices = {} /\ puts = 0

Total(c) == SumFunction([i \in DOMAIN c |-> c[i].size])
Without(c, k) == Selection(c, {e \in Range(c) : e.key # k})
Of(c, k) == Selection(c, {e \in Range(c) : e.key = k})
Fresh(k, n) == [key |-> k, size |-> n, expired |-> FALSE, invalidated |-> FALSE]

\* What the loop of _evict_lru leaves: the longest rest of c that lets an entry of
\* n bytes in beside the given total, and at most `room' entries.
Evicted(c, total, n, room) ==
    LET fits(i) == /\ Len(c) - i <= room
                   /\ \/ total - Total(SubSeq(c, 1, i)) + n <= MaxBytes
                      \/ i = Len(c)
        cut == CHOOSE i \in 0 .. Len(c) : fits(i) /\ \A j \in 0 .. i - 1 : ~ fits(j)
    IN  SubSeq(c, cut + 1, Len(c))

\* put of the fabric: evict, take the replaced entry off the total, insert.
FabricPut(b, k, n) ==
    /\ puts < MaxPuts /\ puts' = puts + 1
    /\ LET kept == Evicted(cache[b], bytes[b], n, Len(cache[b]))
           gone == Total(cache[b]) - Total(kept)
       IN  /\ cache' = [cache EXCEPT ![b] = Append(Without(kept, k), Fresh(k, n))]
           /\ bytes' = [bytes EXCEPT ![b] = @ - gone - Total(Of(kept, k)) + n]
    /\ UNCHANGED notices

\* Mutant of EdgePut: the replaced entry stays in the total.
EdgePutKeeps(b, k, n) ==
    /\ puts < MaxPuts /\ puts' = puts + 1
    /\ LET others == Without(cache[b], k)
           kept == Evicted(others, bytes[b], n, MaxCached - 1)
       IN  /\ cache' = [cache EXCEPT ![b] = Append(kept, Fresh(k, n))]
           /\ bytes' = [bytes EXCEPT ![b] = @ - Total(others) + Total(kept) + n]
    /\ UNCHANGED notices

\* put of an edge cache: remove the replaced entry, evict, insert.
EdgePut(b, k, n) ==
    /\ puts < MaxPuts /\ puts' = puts + 1
    /\ LET others == Without(cache[b], k)
           total == bytes[b] - Total(Of(cache[b], k))
           kept == Evicted(others, total, n, MaxCached - 1)
       IN  /\ cache' = [cache EXCEPT ![b] = Append(kept, Fresh(k, n))]
           /\ bytes' = [bytes EXCEPT ![b] = total - Total(others) + Total(kept) + n]
    /\ UNCHANGED notices

Drop(b, k) ==
    /\ cache' = [cache EXCEPT ![b] = Without(@, k)]
    /\ bytes' = [bytes EXCEPT ![b] = @ - Total(Of(cache[b], k))]
    /\ UNCHANGED <<notices, puts>>

\* get: a dead entry is removed, another becomes the most recently used.
CacheGet(b, k) ==
    \E i \in DOMAIN cache[b] :
        LET e == cache[b][i] IN
        /\ e.key = k
        /\ IF e.expired \/ e.invalidated THEN Drop(b, k)
           ELSE /\ cache' = [cache EXCEPT ![b] = Append(Without(@, k), e)]
                /\ UNCHANGED <<bytes, notices, puts>>

EdgeDelete(b, k) == Of(cache[b], k) # <<>> /\ Drop(b, k)

EdgeClear(b) ==
    /\ cache' = [cache EXCEPT ![b] = <<>>] /\ bytes' = [bytes EXCEPT ![b] = 0]
    /\ UNCHANGED <<notices, puts>>

CleanupExpired(b) ==
    /\ LET alive == Selection(cache[b], {e \in Range(cache[b]) : ~ (e.expired \/ e.invalidated)}) IN
       /\ cache' = [cache EXCEPT ![b] = alive]
       /\ bytes' = [bytes EXCEPT ![b] = @ - (Total(cache[b]) - Total(alive))]
    /\ UNCHANGED <<notices, puts>>

\* Time passes: the ttl of an entry runs out.
EntryExpires(b, k) ==
    /\ cache' = [cache EXCEPT ![b] =
                    [i \in DOMAIN @ |-> IF @[i].key = k THEN [@[i] EXCEPT !.expired = TRUE] ELSE @[i]]]
    /\ UNCHANGED <<bytes, notices, puts>>

Voided(b, keys) ==
    cache' = [cache EXCEPT ![b] =
                 [i \in DOMAIN @ |-> IF @[i].key \in keys THEN [@[i] EXCEPT !.invalidated = TRUE] ELSE @[i]]]

Tell(b, what) == notices' = notices \cup {[what |-> what, from |-> b, to |-> r] : r \in Fabric \ {b}}

\* invalidate returns early when the region does not hold the key: nobody is told.
Invalidate(b, k) ==
    /\ Of(cache[b], k) # <<>>
    /\ Voided(b, {k}) /\ Tell(b, k)
    /\ UNCHANGED <<bytes, puts>>

\* invalidate_by_type tells the others the name of the type.
InvalidateByType(b, t) ==
    LET held == {e.key : e \in {x \in Range(cache[b]) : KeyType[x.key] = t /\ ~ x.invalidated}} IN
    /\ held # {}
    /\ Voided(b, held) /\ Tell(b, t)
    /\ UNCHANGED <<bytes, puts>>

\* receive_invalidation looks the notice up as a key: one about a type finds nothing.
ReceiveInvalidation(m) ==
    /\ Voided(m.to, {m.what})
    /\ notices' = notices \ {m}
    /\ UNCHANGED <<bytes, puts>>

CaNext ==
    \/ \E b \in Fabric, k \in Key : \/ \E n \in Size : FabricPut(b, k, n)
                                    \/ Invalidate(b, k)
    \/ \E b \in EdgeBox, k \in Key : \/ \E n \in Size : EdgePut(b, k, n)
                                     \/ EdgeDelete(b, k)
    \/ \E b \in Box, k \in Key : CacheGet(b, k) \/ EntryExpires(b, k)
    \/ \E b \in Box : CleanupExpired(b)
    \/ \E b \in EdgeBox : EdgeClear(b)
    \/ \E b \in Fabric, t \in Range(KeyType) : InvalidateByType(b, t)
    \/ \E m \in notices : ReceiveInvalidation(m)

CaSpec == CaInit /\ [][CaNext]_caVars

-----------------------------------------------------------------------------
(* Properties *)

\* Whatever order entries are put, replaced, evicted, expired, invalidated and read in,
\* a cache's running total is the size of what it holds, each key is held once, and the
\* total is over the limit only when a single oversized entry is all it holds.
CacheAccounts ==
    \A b \in Box :
        /\ bytes[b] = Total(cache[b])
        /\ \A i, j \in DOMAIN cache[b] : cache[b][i].key = cache[b][j].key => i = j
        /\ bytes[b] > MaxBytes => Cardinality({i \in DOMAIN cache[b] : cache[b][i].size > 0}) = 1
=============================================================================
