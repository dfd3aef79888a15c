------------------------- MODULE CoordinationProofs -------------------------
(***************************************************************************)
(* Theorems about the components of MCCoordination, for any values of      *)
(* their constants: the edge runtime, the regions, the gateway, the        *)
(* replication of the global state and the two elections.                  *)
(***************************************************************************)
EXTENDS MCCoordination, DataLemmas, FiniteSetTheorems, TLAPS

-----------------------------------------------------------------------------
(* The edge runtime *)

\* A batch counts as handed over only while its flush lasts, and with an on_sync upstream
\* has it then.
HandedIsUpstream == handed => syncer = "flushing" /\ (callback => flushing \subseteq upstream)

SyncInv == SyncedWasHanded /\ HandedIsUpstream

LEMMA SyncInvInit == EdInit => SyncInv
  BY DEF EdInit, SyncInv, SyncedWasHanded, HandedIsUpstream

LEMMA SyncInvNext == SyncInv /\ [EdNext]_edVars => SyncInv'
  <1> SUFFICES ASSUME SyncInv, [EdNext]_edVars PROVE SyncInv'
    OBVIOUS
  <1> USE DEF SyncInv, SyncedWasHanded, HandedIsUpstream, edgeDb, syncing
  <1>1. CASE StoreInMemory \/ StoreRow \/ StoreInOutbox \/ RequestLoads
    BY <1>1 DEF StoreInMemory, StoreRow, StoreInOutbox, RequestLoads
  <1>2. ASSUME NEW k \in EdgeKey, RequestHit(k) \/ RequestReads(k) PROVE SyncInv'
    BY <1>2 DEF RequestHit, RequestReads
  <1>3. ASSUME NEW c \in BOOLEAN, SetConnected(c) PROVE SyncInv'
    BY <1>3 DEF SetConnected
  <1>4. CASE StartSync
    BY <1>4 DEF StartSync
  <1>5. CASE StopSync
    BY <1>5 DEF StopSync
  <1>6. CASE SyncEnds
    BY <1>6 DEF SyncEnds
  <1>7. CASE ReadOutbox
    BY <1>7 DEF ReadOutbox
  <1>8. CASE HandOver
    BY <1>8 DEF HandOver
  <1>9. CASE SyncRaises
    BY <1>9 DEF SyncRaises
  <1>10. CASE MarkSynced
    BY <1>10 DEF MarkSynced
  <1>11. CASE EdgeRestarts
    BY <1>11 DEF EdgeRestarts
  <1>12. CASE UNCHANGED edVars
    BY <1>12 DEF edVars
  <1> QED
    BY <1>1, <1>2, <1>3, <1>4, <1>5, <1>6, <1>7, <1>8, <1>9, <1>10, <1>11, <1>12 DEF EdNext

\* When the runtime has an on_sync, no row of the outbox is marked synced before that was
\* handed its result, whatever stops, restarts and raising calls come in between; without one
\* _flush_outbox marks the rows and hands them to nobody (EdgeRuntime._flush_outbox).
THEOREM MarkedRowsWereHanded == EdSpec => []SyncedWasHanded
  <1>1. SyncInv => SyncedWasHanded
    BY DEF SyncInv
  <1> QED
    BY SyncInvInit, SyncInvNext, <1>1, PTL DEF EdSpec

-----------------------------------------------------------------------------
(* The regions *)

\* The table has a place for every region, and each writer one for its copy.
Tables == /\ regionRow = [r \in Region |-> regionRow[r]]
          /\ copy = [w \in Writer |-> copy[w]]

LEMMA TablesInit == RgInit => Tables
  BY DEF RgInit, Tables

LEMMA TablesNext == Tables /\ [RgNext]_rgVars => Tables'
  <1> SUFFICES ASSUME Tables, [RgNext]_rgVars PROVE Tables'
    OBVIOUS
  <1> USE DEF Tables
  <1>1. ASSUME NEW r \in Region, RegisterRegion(r) PROVE Tables'
    BY <1>1 DEF RegisterRegion
  <1>2. ASSUME NEW r \in Region, RemoveRegion(r) PROVE Tables'
    BY <1>2 DEF RemoveRegion
  <1>3. ASSUME NEW r \in Region, BeatAges(r) PROVE Tables'
    BY <1>3 DEF BeatAges
  <1>4. ASSUME NEW r \in Region, NEW load \in Load, BeatReads(r, load) PROVE Tables'
    BY <1>4 DEF BeatReads
  <1>5. ASSUME NEW r \in Region, NEW status \in Status, OperatorReads(r, status) PROVE Tables'
    BY <1>5 DEF OperatorReads, StatusCopy
  <1>6. ASSUME NEW w \in Writer, WriteRow(w) PROVE Tables'
    BY <1>6 DEF WriteRow
  <1>7. ASSUME NEW m \in Monitor, ListRegions(m) PROVE Tables'
    BY <1>7 DEF ListRegions
  <1>8. CASE HealthChecks
    BY <1>8 DEF HealthChecks, StatusCopy
  <1>9. CASE FailoverChecks
    BY <1>9 DEF FailoverChecks, StatusCopy
  <1>10. CASE UNCHANGED rgVars
    BY <1>10 DEF rgVars
  <1> QED
    BY <1>1, <1>2, <1>3, <1>4, <1>5, <1>6, <1>7, <1>8, <1>9, <1>10 DEF RgNext, Status

LEMMA RowsComeByRegistration ==
    ASSUME Tables, [RgNext]_rgVars, NEW r \in Region,
           regionRow[r] = NoRegionRow, regionRow'[r] # NoRegionRow
    PROVE  RegisterRegion(r)
  <1> USE DEF Tables
  <1>1. ASSUME NEW q \in Region, RegisterRegion(q) PROVE RegisterRegion(r)
    BY <1>1 DEF RegisterRegion
  <1>2. ASSUME NEW q \in Region, RemoveRegion(q) PROVE FALSE
    BY <1>2 DEF RemoveRegion
  <1>3. ASSUME NEW q \in Region, BeatAges(q) PROVE FALSE
    BY <1>3 DEF BeatAges, Rows
  <1>4. ASSUME NEW w \in Writer, WriteRow(w) PROVE FALSE
    BY <1>4 DEF WriteRow
  <1>5. CASE UNCHANGED regionRow
    BY <1>5
  <1>6. ASSUME NEW q \in Region, NEW load \in Load, BeatReads(q, load) PROVE UNCHANGED regionRow
    BY <1>6 DEF BeatReads
  <1>7. ASSUME NEW q \in Region, NEW status \in Status, OperatorReads(q, status)
        PROVE  UNCHANGED regionRow
    BY <1>7 DEF OperatorReads
  <1>8. ASSUME NEW m \in Monitor, ListRegions(m) PROVE UNCHANGED regionRow
    BY <1>8 DEF ListRegions
  <1>9. CASE HealthChecks \/ FailoverChecks \/ UNCHANGED rgVars
    BY <1>9 DEF HealthChecks, FailoverChecks, rgVars
  <1> QED
    BY <1>1, <1>2, <1>3, <1>4, <1>5, <1>6, <1>7, <1>8, <1>9 DEF RgNext, Status

\* A removed region comes back by a registration only, whatever copies of its row the
\* heartbeats, monitors and operators still hold (RegionRegistry.heartbeat, update_status).
THEOREM LateWritesRestoreNothing == RgSpec => RemovedStaysRemoved
  <1>1. ASSUME Tables, [RgNext]_rgVars
        PROVE  [\A r \in Region : regionRow[r] = NoRegionRow /\ regionRow'[r] # NoRegionRow
                                      => RegisterRegion(r)]_rgVars
    BY <1>1, RowsComeByRegistration
  <1> QED
    BY TablesInit, TablesNext, <1>1, PTL DEF RgSpec, RemovedStaysRemoved

-----------------------------------------------------------------------------
(* The gateway *)

\* While no call has failed the counter is the number of requests inside.
GatewayInv ==
    /\ stage \in [Caller -> Stage] /\ inflight \in Int /\ gwFaults \in Nat
    /\ InflightIsExact

LEMMA GatewayInvInit == GwInit => GatewayInv
  <1> SUFFICES ASSUME GwInit PROVE GatewayInv
    OBVIOUS
  <1>1. Inside = {}
    BY DEF GwInit, Inside
  <1> QED
    BY <1>1, FS_EmptySet DEF GwInit, GatewayInv, InflightIsExact, Stage

\* A request goes on to a stage on the same side of the counter.
LEMMA InsideStays ==
    ASSUME GatewayInv, NEW c \in Caller, NEW s \in Stage, Go(c, s),
           stage[c] \in {"inside", "metering", "answered", "leaving"}
               <=> s \in {"inside", "metering", "answered", "leaving"}
    PROVE  stage' \in [Caller -> Stage] /\ Inside' = Inside
  BY DEF GatewayInv, Go, Inside

LEMMA InsideIsFinite == IsFiniteSet(Inside) /\ Cardinality(Inside) \in Nat
  <1>1. IsFiniteSet(Inside)
    BY FS_Subset, GatewayAssumption DEF Inside
  <1> QED
    BY <1>1, FS_CardinalityType

LEMMA GatewayInvNext == GatewayInv /\ [GwNext]_gwVars => GatewayInv'
  <1> SUFFICES ASSUME GatewayInv, [GwNext]_gwVars PROVE GatewayInv'
    OBVIOUS
  <1>1. /\ stage \in [Caller -> Stage] /\ inflight \in Int /\ gwFaults \in Nat
        /\ gwFaults = 0 => inflight = Cardinality(Inside)
    BY DEF GatewayInv, InflightIsExact
  <1>2. Fault => gwFaults' \in Nat /\ gwFaults' # 0
    BY <1>1 DEF Fault
  <1>3. ASSUME UNCHANGED <<stage, inflight, gwFaults>> PROVE GatewayInv'
    BY <1>1, <1>3 DEF GatewayInv, InflightIsExact, Inside
  <1>4. ASSUME NEW c \in Caller, NEW s \in Stage, Go(c, s), UNCHANGED inflight,
               stage[c] \in {"inside", "metering", "answered", "leaving"}
                   <=> s \in {"inside", "metering", "answered", "leaving"},
               UNCHANGED gwFaults \/ Fault
        PROVE  GatewayInv'
    BY <1>1, <1>2, <1>4, InsideStays DEF GatewayInv, InflightIsExact
  <1>5. ASSUME NEW t \in ApiToken, CreateToken(t) \/ \E rotates \in BOOLEAN : RevokeToken(t, rotates)
        PROVE  GatewayInv'
    BY <1>3, <1>5 DEF CreateToken, RevokeToken
  <1>6. ASSUME NEW t \in ApiToken, NEW c \in Caller, Authenticate(c, t) PROVE GatewayInv'
    BY <1>4, <1>6 DEF Authenticate, Stage
  <1>7. ASSUME NEW c \in Caller, RateLimit(c) PROVE GatewayInv'
    <2>1. PICK s \in {"idle", "rated"} : Go(c, s)
      BY <1>7 DEF RateLimit
    <2> QED
      BY <1>4, <1>7, <2>1 DEF RateLimit, Stage
  <1>8. ASSUME NEW c \in Caller, CheckConcurrency(c) PROVE GatewayInv'
    <2>1. PICK s \in {"idle", "admitted"} : Go(c, s)
      BY <1>8 DEF CheckConcurrency
    <2> QED
      BY <1>4, <1>8, <2>1 DEF CheckConcurrency, Stage
  <1>9. ASSUME NEW c \in Caller, IncrConcurrency(c) PROVE GatewayInv'
    <2>1. stage' \in [Caller -> Stage] /\ inflight' \in Int /\ gwFaults' \in Nat
      BY <1>1, <1>2, <1>9 DEF IncrConcurrency, Go, Stage
    <2>2. c \notin Inside /\ Inside' = Inside \cup {c}
      BY <1>1, <1>9 DEF IncrConcurrency, Go, Inside
    <2>3. Cardinality(Inside') = Cardinality(Inside) + 1
      BY <2>2, InsideIsFinite, FS_AddElement
    <2>4. (UNCHANGED gwFaults /\ inflight' = inflight + 1) \/ Fault
      BY <1>9 DEF IncrConcurrency
    <2>5. InflightIsExact'
      BY <1>1, <1>2, <2>3, <2>4 DEF InflightIsExact
    <2> QED
      BY <2>1, <2>5 DEF GatewayInv
  <1>10. ASSUME NEW c \in Caller, Answer(c) PROVE GatewayInv'
    <2>1. PICK s \in {"answered", "metering"} : Go(c, s)
      BY <1>10 DEF Answer
    <2> QED
      BY <1>4, <1>10, <2>1 DEF Answer, Stage
  <1>11. ASSUME NEW c \in Caller, Consume(c) \/ Raises(c) PROVE GatewayInv'
    BY <1>4, <1>11 DEF Consume, Raises, Stage
  <1>12. ASSUME NEW c \in Caller, DecrReads(c) PROVE GatewayInv'
    <2>1. stage[c] = "answered" /\ c \in Inside /\ UNCHANGED inflight
      BY <1>12 DEF DecrReads, Inside
    <2>2. CASE Fault /\ Go(c, "idle")
      BY <1>1, <1>2, <2>1, <2>2 DEF GatewayInv, InflightIsExact, Go, Stage
    <2>3. CASE Go(c, IF inflight > 0 THEN "leaving" ELSE "idle") /\ UNCHANGED gwFaults
      <3>1. CASE inflight > 0
        BY <1>4, <2>1, <2>3, <3>1 DEF Stage
      <3>2. CASE ~ inflight > 0
        <4>1. Cardinality(Inside) # 0
          BY <2>1, InsideIsFinite, FS_EmptySet
        <4>2. gwFaults # 0
          BY <1>1, <3>2, <4>1, InsideIsFinite
        <4> QED
          BY <1>1, <2>1, <2>3, <3>2, <4>2 DEF GatewayInv, InflightIsExact, Go, Stage
      <3> QED
        BY <3>1, <3>2
    <2> QED
      BY <1>12, <2>2, <2>3 DEF DecrReads
  <1>13. ASSUME NEW c \in Caller, DecrConcurrency(c) PROVE GatewayInv'
    <2>1. /\ stage' \in [Caller -> Stage] /\ inflight' = inflight - 1 /\ UNCHANGED gwFaults
      BY <1>1, <1>13 DEF DecrConcurrency, Go, Stage
    <2>2. c \in Inside /\ Inside' = Inside \ {c}
      BY <1>1, <1>13 DEF DecrConcurrency, Go, Inside
    <2>3. Cardinality(Inside') = Cardinality(Inside) - 1
      BY <2>2, InsideIsFinite, FS_RemoveElement
    <2>4. InflightIsExact'
      BY <1>1, <2>1, <2>3, InsideIsFinite DEF InflightIsExact
    <2> QED
      BY <1>1, <2>1, <2>4 DEF GatewayInv
  <1>14. CASE KeyExpires
    <2>1. inflight # 0 /\ inflight' = 0 /\ UNCHANGED stage
      BY <1>14 DEF KeyExpires
    <2>2. CASE Fault
      BY <1>1, <1>2, <2>1, <2>2 DEF GatewayInv, InflightIsExact
    <2>3. CASE Inside = {} /\ UNCHANGED gwFaults
      <3>1. gwFaults # 0
        BY <1>1, <2>1, <2>3, FS_EmptySet
      <3> QED
        BY <1>1, <2>1, <2>3, <3>1 DEF GatewayInv, InflightIsExact
    <2> QED
      BY <1>14, <2>2, <2>3 DEF KeyExpires
  <1>15. CASE NextSecond \/ NextMinute \/ Invoice \/ UNCHANGED gwVars
    BY <1>3, <1>15 DEF NextSecond, NextMinute, Invoice, gwVars
  <1> QED
    BY <1>5, <1>6, <1>7, <1>8, <1>9, <1>10, <1>11, <1>12, <1>13, <1>14, <1>15 DEF GwNext

\* While Redis answers and no request outlives the key, the counter of an organisation is the
\* number of its requests inside, for any number of callers (QuotaManager.decr_concurrency).
THEOREM InflightCountsRequests == GwSpec => []InflightIsExact
  <1>1. GatewayInv => InflightIsExact
    BY DEF GatewayInv
  <1> QED
    BY GatewayInvInit, GatewayInvNext, <1>1, PTL DEF GwSpec

-----------------------------------------------------------------------------
(* The replication of the global state *)

\* The newest version that has been enqueued, and the one before the oldest on its way.
Enqueued == IF writer = "put" THEN src.ver - 1 ELSE src.ver
Behind == Enqueued - Len(pending) - Len(batch)

\* In a simple history the n-th write has version n, and n stands for its value.  The
\* changes on their way are numbered on from Behind, the second region has all up to there,
\* and, while a batch is applied, all of it that came before the next one.
SimpleInv ==
    /\ src.ver = writes /\ src.val = writes /\ (writer = "put" => writes >= 1)
    /\ dst.val = dst.ver
    /\ \A i \in 1 .. Len(batch) : batch[i].ver = Behind + i /\ batch[i].val = Behind + i
    /\ \A i \in 1 .. Len(pending) : /\ pending[i].ver = Behind + Len(batch) + i
                                    /\ pending[i].val = Behind + Len(batch) + i
    /\ Behind <= dst.ver /\ dst.ver <= Enqueued
    /\ phase = "idle" => batch = <<>>
    /\ phase \in {"get", "put"} => Behind + next - 1 <= dst.ver
    /\ phase = "put" => read = dst.ver /\ Behind + next - 1 = dst.ver

\* The change to apply is one of the batch.
NextInBatch ==
    /\ next >= 1
    /\ phase = "sending" => next = 1
    /\ phase = "get" => next <= Len(batch) + 1
    /\ phase = "put" => next <= Len(batch)

SrTypes == StateReplicationTypeOK /\ NextInBatch

SrInv == SrTypes /\ (onSync /\ simple => SimpleInv)

LEMMA SrTypesNext == SrTypes /\ [SrNext]_srVars => SrTypes'
  <1> SUFFICES ASSUME SrTypes, [SrNext]_srVars PROVE SrTypes'
    OBVIOUS
  <1> USE DEF SrTypes, NextInBatch, StateReplicationTypeOK
  <1>0. SrFault => srFaults' \in Nat
    BY DEF SrFault
  <1>1. CASE Put
    <2>1. Stored(src, writes') \in KeyRow
      BY <1>1 DEF Put, Stored, KeyRow
    <2> QED
      BY <1>1, <2>1 DEF Put
  <1>2. CASE EnqueueChange
    BY <1>2 DEF EnqueueChange, KeyRow, Change
  <1>3. CASE Delete
    <2>1. [ver |-> 0, val |-> 0] \in KeyRow
      BY DEF KeyRow
    <2> QED
      BY <1>0, <1>3, <2>1 DEF Delete
  <1>4. CASE Restart
    <2>1. pending' = <<>> /\ batch' = <<>> /\ phase' = "idle" /\ writer' = "idle"
          /\ simple' = FALSE /\ srFaults' \in Nat /\ UNCHANGED <<onSync, src, dst, next, read, writes>>
      BY <1>0, <1>4 DEF Restart
    <2>2. <<>> \in Seq(Change)
      OBVIOUS
    <2> HIDE DEF Change
    <2> QED
      BY <2>1, <2>2
  <1>5. CASE SyncFails
    BY <1>0, <1>5 DEF SyncFails
  <1>6. CASE DstPut
    <2>1. Stored(dst, 0) \in KeyRow
      BY DEF Stored, KeyRow
    <2> QED
      BY <1>0, <1>6, <2>1 DEF DstPut
  <1>7. CASE SyncTake
    BY <1>7 DEF SyncTake
  <1>8. CASE SyncArrives
    BY <1>8 DEF SyncArrives
  <1>9. CASE SyncDone
    <2>1. CASE phase' = "idle" /\ batch' = <<>> /\ UNCHANGED srFaults
      BY <1>9, <2>1 DEF SyncDone
    <2>2. CASE phase' = "raised" /\ SrFault /\ UNCHANGED batch
      BY <1>0, <1>9, <2>2 DEF SyncDone
    <2> QED
      BY <1>9, <2>1, <2>2 DEF SyncDone
  <1>10. CASE Requeue
    BY <1>10 DEF Requeue
  <1>11. CASE ApplyGet
    BY <1>11 DEF ApplyGet, KeyRow
  <1>12. CASE ApplyPut
    <2>1. phase = "put" /\ next' = next + 1 /\ phase' = "get"
          /\ UNCHANGED <<onSync, src, writer, pending, batch, read, writes, simple, srFaults>>
      BY <1>12 DEF ApplyPut
    <2>2. batch[next].val \in Nat /\ dst.val \in Nat
      <3>1. batch \in Seq(Change) /\ next \in 1 .. Len(batch) /\ dst \in KeyRow
        BY <2>1
      <3>2. batch[next] \in Change
        BY <3>1
      <3> QED
        BY <3>1, <3>2 DEF Change, KeyRow
    <2>3. PICK v \in {batch[next].val, dst.val} : dst' = Stored(dst, v)
      BY <1>12 DEF ApplyPut
    <2>4. Stored(dst, v) \in KeyRow
      BY <2>2, <2>3 DEF Stored, KeyRow
    <2> QED
      BY <2>1, <2>3, <2>4
  <1>13. CASE UNCHANGED srVars
    BY <1>13 DEF srVars
  <1> QED
    BY <1>1, <1>2, <1>3, <1>4, <1>5, <1>6, <1>7, <1>8, <1>9, <1>10, <1>11, <1>12, <1>13
       DEF SrNext, Replicator

LEMMA SrInvInit == SrInit => SrInv
  BY DEF SrInit, SrInv, SrTypes, NextInBatch, StateReplicationTypeOK, SimpleInv, KeyRow, Change,
         Behind, Enqueued

\* What SrTypes says of the numbers.
LEMMA SrNumbers ==
  ASSUME SrTypes
  PROVE  /\ src.ver \in Nat /\ src.val \in Nat /\ dst.ver \in Nat /\ dst.val \in Nat
         /\ writes \in Nat /\ next \in Nat /\ Len(batch) \in Nat /\ Len(pending) \in Nat
         /\ Enqueued \in Int /\ Behind \in Int
  BY DEF SrTypes, StateReplicationTypeOK, KeyRow, Behind, Enqueued

LEMMA SimpleInvNext == SrTypes /\ SimpleInv /\ onSync /\ [SrNext]_srVars /\ simple' => SimpleInv'
  <1> SUFFICES ASSUME SrTypes, SimpleInv, onSync, [SrNext]_srVars, simple'
               PROVE  SimpleInv'
    OBVIOUS
  <1>0. SrTypes'
    BY SrTypesNext
  <1> USE SrNumbers
  <1>1. CASE Put
    <2>1. Enqueued' = Enqueued /\ Behind' = Behind
      <3>1. UNCHANGED <<pending, batch>> /\ src'.ver = src.ver + 1 /\ writer = "idle" /\ writer' = "put"
        BY <1>1 DEF Put, Stored
      <3>2. Enqueued' = Enqueued
        BY <3>1 DEF Enqueued
      <3> QED
        BY <3>1, <3>2 DEF Behind
    <2> QED
      BY <1>1, <2>1 DEF Put, Stored, SimpleInv
  <1>2. CASE EnqueueChange
    <2>1. Len(pending') = Len(pending) + 1 /\ UNCHANGED batch
      BY <1>2 DEF EnqueueChange, SrTypes, StateReplicationTypeOK, KeyRow, Change
    <2>2. Enqueued' = Enqueued + 1 /\ Behind' = Behind
      <3>1. UNCHANGED src /\ writer = "put" /\ writer' = "idle"
        BY <1>2 DEF EnqueueChange
      <3>2. Enqueued' = Enqueued + 1
        BY <3>1 DEF Enqueued
      <3> QED
        BY <2>1, <3>2 DEF Behind
    <2>3. Behind + Len(batch) + Len(pending) + 1 = src.ver
      BY <1>2 DEF EnqueueChange, Enqueued, Behind
    <2>4. ASSUME NEW i \in 1 .. Len(pending')
          PROVE  /\ pending'[i].ver = Behind + Len(batch) + i
                 /\ pending'[i].val = Behind + Len(batch) + i
      <3>1. CASE i \in 1 .. Len(pending)
        <4>1. pending' = Append(pending, [ver |-> src.ver, val |-> src.val])
          BY <1>2 DEF EnqueueChange
        <4>2. pending \in Seq(Change)
          BY DEF SrTypes, StateReplicationTypeOK
        <4>3. pending'[i] = pending[i]
          BY <3>1, <4>1, <4>2
        <4> QED
          BY <3>1, <4>3 DEF SimpleInv
      <3>2. CASE i = Len(pending) + 1
        <4>1. pending'[i] = [ver |-> src.ver, val |-> src.val]
          BY <1>2, <3>2 DEF EnqueueChange, SrTypes, StateReplicationTypeOK
        <4> QED
          BY <2>3, <3>2, <4>1 DEF SimpleInv
      <3> QED
        BY <2>1, <3>1, <3>2
    <2> QED
      BY <1>2, <2>1, <2>2, <2>4 DEF EnqueueChange, SimpleInv
  <1>3. CASE Delete \/ Restart \/ DstPut
    BY <1>3 DEF Delete, Restart, DstPut
  <1>4. CASE SyncTake
    <2>1. batch = <<>> /\ Len(batch) = 0 /\ batch' = pending /\ pending' = <<>> /\ Len(pending') = 0
      BY <1>4 DEF SyncTake, SimpleInv
    <2>2. Enqueued' = Enqueued /\ Behind' = Behind
      BY <1>4, <2>1 DEF SyncTake, Enqueued, Behind
    <2> QED
      BY <1>4, <2>1, <2>2 DEF SyncTake, SimpleInv
  <1>5. CASE SyncFails \/ SyncArrives
    <2>1. UNCHANGED <<src, dst, writer, pending, batch, next, writes>> /\ phase = "sending"
          /\ phase' \in {"raised", "get"}
      BY <1>5 DEF SyncFails, SyncArrives
    <2>2. Enqueued' = Enqueued /\ Behind' = Behind /\ next = 1
      BY <2>1 DEF Enqueued, Behind, SrTypes, NextInBatch
    <2> QED
      BY <2>1, <2>2 DEF SimpleInv
  <1>6. CASE SyncDone
    <2>0. UNCHANGED <<src, dst, writer, pending, next, read, writes>> /\ phase = "get"
          /\ next > Len(batch)
      BY <1>6 DEF SyncDone
    <2>1. Enqueued' = Enqueued
      BY <2>0 DEF Enqueued
    <2>2. CASE phase' = "idle" /\ batch' = <<>>
      <3>0. Len(batch') = 0 /\ Len(pending') = Len(pending)
        BY <2>0, <2>2
      <3>2. Behind' = Behind + Len(batch)
        BY <2>1, <3>0 DEF Behind
      <3>3. next = Len(batch) + 1
        BY <2>0 DEF SrTypes, NextInBatch
      <3>4. Behind + next - 1 <= dst.ver
        BY <2>0 DEF SimpleInv
      <3>1. Len(batch') = 0 /\ Behind' = Behind + Len(batch) /\ Behind' <= dst.ver
        BY <3>0, <3>2, <3>3, <3>4
      <3> QED
        BY <2>0, <2>1, <2>2, <3>1 DEF SimpleInv
    <2>3. CASE phase' = "raised" /\ UNCHANGED batch
      <3>1. Behind' = Behind
        BY <2>0, <2>1, <2>3 DEF Behind
      <3> QED
        BY <2>0, <2>1, <2>3, <3>1 DEF SimpleInv
    <2> QED
      BY <1>6, <2>2, <2>3 DEF SyncDone
  <1>7. CASE Requeue
    <2>0. UNCHANGED <<src, dst, writer, next, read, writes>> /\ phase' = "idle" /\ batch' = <<>>
          /\ pending' = batch \o pending
      BY <1>7 DEF Requeue
    <2>1. Len(batch') = 0 /\ Len(pending') = Len(batch) + Len(pending)
      BY <2>0 DEF SrTypes, StateReplicationTypeOK
    <2>2. Enqueued' = Enqueued /\ Behind' = Behind
      BY <2>0, <2>1 DEF Enqueued, Behind
    <2>3. ASSUME NEW i \in 1 .. Len(pending')
          PROVE  pending'[i].ver = Behind + i /\ pending'[i].val = Behind + i
      <3>1. CASE i \in 1 .. Len(batch)
        BY <2>0, <3>1 DEF SimpleInv, SrTypes, StateReplicationTypeOK
      <3>2. CASE i > Len(batch)
        <4>1. PICK j \in 1 .. Len(pending) : i = Len(batch) + j
          <5>1. i - Len(batch) \in 1 .. Len(pending) /\ i = Len(batch) + (i - Len(batch))
            BY <2>1, <3>2
          <5> QED
            BY <5>1
        <4>2. pending'[i] = pending[j]
          BY <2>0, <2>1, <3>2, <4>1 DEF SrTypes, StateReplicationTypeOK
        <4> QED
          BY <4>1, <4>2 DEF SimpleInv
      <3> QED
        BY <3>1, <3>2, <2>1
    <2> QED
      BY <2>0, <2>1, <2>2, <2>3 DEF SimpleInv
  <1>8. CASE ApplyGet
    <2>0. UNCHANGED <<src, dst, writer, pending, batch, writes>> /\ phase = "get"
          /\ next <= Len(batch) /\ read' = dst.ver
      BY <1>8 DEF ApplyGet
    <2>1. Enqueued' = Enqueued /\ Behind' = Behind
      BY <2>0 DEF Enqueued, Behind
    <2>2. batch[next].ver = Behind + next
      BY <2>0 DEF SimpleInv, SrTypes, NextInBatch
    <2>3. CASE batch[next].ver <= dst.ver
      <3>1. next' = next + 1 /\ phase' = "get"
        BY <1>8, <2>0, <2>3 DEF ApplyGet
      <3> QED
        BY <2>0, <2>1, <2>2, <2>3, <3>1 DEF SimpleInv
    <2>4. CASE ~(batch[next].ver <= dst.ver)
      <3>1. next' = next /\ phase' = "put"
        BY <1>8, <2>4 DEF ApplyGet
      <3> QED
        BY <2>0, <2>1, <2>2, <2>4, <3>1 DEF SimpleInv
    <2> QED
      BY <2>3, <2>4
  <1>9. CASE ApplyPut
    <2>0. UNCHANGED <<src, writer, pending, batch, writes>> /\ phase = "put" /\ phase' = "get"
          /\ next' = next + 1
      BY <1>9 DEF ApplyPut
    <2>1. Enqueued' = Enqueued /\ Behind' = Behind
      BY <2>0 DEF Enqueued, Behind
    <2>2. /\ batch[next].ver = Behind + next /\ batch[next].val = Behind + next
          /\ read = dst.ver /\ Behind + next - 1 = dst.ver /\ next <= Len(batch)
      BY <2>0 DEF SimpleInv, SrTypes, NextInBatch
    <2>3. dst' = Stored(dst, batch[next].val)
      BY <1>9, <2>2 DEF ApplyPut
    <2>4. dst'.ver = Behind + next /\ dst'.val = Behind + next
      BY <2>2, <2>3 DEF Stored
    <2>5. Behind + next <= Enqueued
      BY <2>2 DEF Behind
    <2> QED
      BY <2>0, <2>1, <2>2, <2>4, <2>5 DEF SimpleInv, SrTypes, NextInBatch
  <1>10. CASE UNCHANGED srVars
    BY <1>10 DEF srVars, SimpleInv, Enqueued, Behind
  <1> QED
    BY <1>1, <1>2, <1>3, <1>4, <1>5, <1>6, <1>7, <1>8, <1>9, <1>10 DEF SrNext, Replicator

LEMMA SrInvNext == SrInv /\ [SrNext]_srVars => SrInv'
  <1> SUFFICES ASSUME SrInv, [SrNext]_srVars PROVE SrInv'
    OBVIOUS
  <1>1. SrTypes'
    BY SrTypesNext DEF SrInv
  <1>2. (simple' => simple) /\ onSync' = onSync
    BY DEF SrInv, SrNext, srVars, Put, EnqueueChange, Delete, Restart, SyncFails, DstPut, Replicator,
           SyncTake, SyncArrives, SyncDone, Requeue, ApplyGet, ApplyPut
  <1> QED
    BY <1>1, <1>2, SimpleInvNext DEF SrInv

LEMMA SameRow ==
  ASSUME NEW r \in KeyRow, NEW c \in Change, r.ver = c.ver, r.val = c.val
  PROVE  c = r
  BY DEF KeyRow, Change

LEMMA SrInvImplies == SrInv => NoChangeIsLost
  <1> SUFFICES ASSUME SrTypes, SimpleInv PROVE NoChangeIsLost
    BY DEF SrInv, NoChangeIsLost
  <1> DEFINE unsent == batch \o pending
  <1> USE SrNumbers
  <1>1. /\ unsent \in Seq(Change) /\ Len(unsent) = Len(batch) + Len(pending)
        /\ src \in KeyRow /\ dst \in KeyRow
    BY DEF SrTypes, StateReplicationTypeOK
  <1>2. ASSUME NEW i \in 1 .. Len(unsent)
        PROVE  unsent[i].ver = Behind + i /\ unsent[i].val = Behind + i
    <2>1. CASE i \in 1 .. Len(batch)
      BY <2>1 DEF SimpleInv, SrTypes, StateReplicationTypeOK
    <2>2. CASE i > Len(batch)
      <3>1. PICK j \in 1 .. Len(pending) : i = Len(batch) + j
        <4>1. i - Len(batch) \in 1 .. Len(pending) /\ i = Len(batch) + (i - Len(batch))
          BY <1>1, <2>2
        <4> QED
          BY <4>1
      <3>2. unsent[i] = pending[j]
        BY <1>1, <2>2, <3>1 DEF SrTypes, StateReplicationTypeOK
      <3> HIDE DEF unsent
      <3> QED
        BY <3>1, <3>2 DEF SimpleInv
    <2> QED
      BY <1>1, <2>1, <2>2
  <1> HIDE DEF unsent
  <1>3. \A i \in 1 .. Len(unsent) - 1 : unsent[i + 1].ver = unsent[i].ver + 1
    <2> TAKE i \in 1 .. Len(unsent) - 1
    <2>1. i \in 1 .. Len(unsent) /\ i + 1 \in 1 .. Len(unsent) /\ i \in Int
      BY <1>1
    <2>2. unsent[i].ver = Behind + i /\ unsent[i + 1].ver = Behind + (i + 1)
      BY <1>2, <2>1
    <2>3. Behind \in Int
      BY SrNumbers
    <2> QED
      BY <2>1, <2>2, <2>3
  <1>4. unsent # <<>> => Len(unsent) \in 1 .. Len(unsent) /\ 1 \in 1 .. Len(unsent)
    BY <1>1
  <1>5. unsent # <<>> => unsent[1].ver <= dst.ver + 1
    BY <1>2, <1>4 DEF SimpleInv
  <1>6. ASSUME writer = "idle", unsent = <<>> PROVE dst = src
    <2>1. Len(unsent) = 0 /\ Behind = src.ver /\ Enqueued = src.ver
      BY <1>1, <1>6 DEF Behind, Enqueued
    <2>2. dst.ver = src.ver /\ dst.val = src.val
      BY <2>1 DEF SimpleInv
    <2> QED
      BY <1>1, <2>2, SameRow DEF KeyRow, Change
  <1>7. ASSUME writer = "idle", unsent # <<>> PROVE unsent[Len(unsent)] = src
    <2>1. unsent[Len(unsent)] \in Change
      BY <1>1, <1>4, <1>7
    <2>2. Behind + Len(unsent) = src.ver
      BY <1>1, <1>7 DEF Behind, Enqueued
    <2>3. unsent[Len(unsent)].ver = src.ver /\ unsent[Len(unsent)].val = src.val
      BY <1>2, <1>4, <1>7, <2>2 DEF SimpleInv
    <2> QED
      BY <1>1, <2>1, <2>3, SameRow
  <1> QED
    BY <1>3, <1>5, <1>6, <1>7 DEF NoChangeIsLost, unsent

\* With an on_sync, and as long as only the first region writes, its changes reach the second
\* one in order and none is left out, whatever calls of on_sync fail: _sync_tick takes the
\* pending changes under its lock and puts those of a failed call back before the newer ones
\* (global_control/replication.py).  Without one it drops what it takes.
THEOREM NoWriteIsLost == SrSpec => []NoChangeIsLost
  <1>1. SrInv => NoChangeIsLost
    BY SrInvImplies
  <1> QED
    BY SrInvInit, SrInvNext, <1>1, PTL DEF SrSpec

-----------------------------------------------------------------------------
(* The advisory lock *)

\* With PostgreSQL: an answer that grants the lock came over a session that has not been
\* closed since, and a plane that is about to ask without a session does not say it leads.
LockInv ==
    mode = "postgres" =>
        \A p \in Plane :
            /\ pc[p] # "watch"
            /\ flag[p] /\ conn[p] = "open" => holder = Current(p)
            /\ pc[p] \in {"started", "answered"} /\ answer[p] =>
                  conn[p] # "none" /\ (conn[p] = "open" => holder = Current(p))
            /\ pc[p] = "poll" /\ conn[p] = "none" => ~ flag[p]
            /\ pc[p] \in {"down", "start", "stepdown"} => ~ flag[p]

LdTables ==
    /\ flag \in [Plane -> BOOLEAN] /\ wasLeader \in [Plane -> BOOLEAN]
    /\ answer \in [Plane -> BOOLEAN]
    /\ pc = [p \in Plane |-> pc[p]] /\ conn \in [Plane -> {"none", "open", "lost"}]

LdInv == LdTables /\ LockInv

LEMMA LdInvInit == LdInit => LdInv
  BY DEF LdInit, LdInv, LdTables, LockInv

\* A session is neither nobody nor another plane's.
LEMMA Sessions ==
    \A p, q \in Plane : /\ Current(p) # NoPlane /\ <<p, "old">> # Current(q)
                        /\ Current(p) = Current(q) => p = q
  BY NoPlaneAssumption DEF Current

LEMMA LdInvNext == LdInv /\ [LdNext]_ldVars => LdInv'
  <1> SUFFICES ASSUME LdInv, [LdNext]_ldVars PROVE LdInv'
    OBVIOUS
  <1> USE Sessions DEF LdInv, LdTables, LockInv
  <1>1. ASSUME NEW p \in Plane, Build(p) PROVE LdInv'
    BY <1>1 DEF Build, database
  <1>2. ASSUME NEW p \in Plane, Query(p) PROVE LdInv'
    <2>0. LdTables'
      <3>1. (holder \in {NoPlane, Current(p)}) \in BOOLEAN
        OBVIOUS
      <3>2. answer' \in [Plane -> BOOLEAN]
        BY <1>2, <3>1 DEF Query
      <3> QED
        BY <1>2, <3>2 DEF Query
    <2>1. /\ UNCHANGED <<mode, flag>> /\ pc[p] \in {"start", "poll"}
          /\ pc'[p] \in {"started", "answered"} /\ conn'[p] = "open" /\ conn[p] # "lost"
      BY <1>2 DEF Query, Asks, Answered
    <2>2. answer'[p] => holder' = Current(p)
      BY <1>2 DEF Query
    <2>3. \A q \in Plane : holder = Current(q) => holder' = Current(q)
      BY <1>2 DEF Query
    <2>4. \A q \in Plane : q # p => pc'[q] = pc[q] /\ answer'[q] = answer[q] /\ conn'[q] = conn[q]
      BY <1>2 DEF Query
    <2>5. mode = "postgres" /\ flag[p] => holder' = Current(p)
      BY <2>1, <2>3
    <2> QED
      BY <2>0, <2>1, <2>2, <2>3, <2>4, <2>5
  <1>3. ASSUME NEW p \in Plane, QueryRaises(p) PROVE LdInv'
    BY <1>3 DEF QueryRaises, Asks, Answered, SessionEnds, database
  <1>4. ASSUME NEW p \in Plane, StartLoop(p) PROVE LdInv'
    BY <1>4 DEF StartLoop, database
  <1>5. ASSUME NEW p \in Plane, Publish(p) PROVE LdInv'
    BY <1>5 DEF Publish, database
  <1>6. ASSUME NEW p \in Plane, StepDown(p) PROVE LdInv'
    BY <1>6 DEF StepDown
  <1>7. ASSUME NEW p \in Plane, Watch(p) PROVE LdInv'
    BY <1>7 DEF Watch, database
  <1>8. ASSUME NEW p \in Plane, SessionLost(p) PROVE LdInv'
    BY <1>8 DEF SessionLost, SessionEnds
  <1>9. ASSUME NEW p \in Plane, PlaneStops(p) PROVE LdInv'
    BY <1>9 DEF PlaneStops, SessionEnds
  <1>10. CASE ServerNotices
    BY <1>10 DEF ServerNotices
  <1>11. CASE RaftElects
    BY <1>11 DEF RaftElects, database
  <1>12. CASE UNCHANGED ldVars
    BY <1>12 DEF ldVars
  <1> QED
    BY <1>1, <1>2, <1>3, <1>4, <1>5, <1>6, <1>7, <1>8, <1>9, <1>10, <1>11, <1>12
       DEF LdNext, LdThread

-----------------------------------------------------------------------------
(* The election of global control *)

GeTables ==
    /\ role = [n \in GNode |-> role[n]]
    /\ follows = [n \in GNode |-> follows[n]]
    /\ lease \in [GNode -> 0 .. NodeTTL]
    /\ onWay \subseteq Beat

\* A heartbeat goes to another node, and carries no longer lease than its sender has for as
\* long as it leads, even if it was deposed and promoted again since.
BeatsWithin ==
    \A b \in onWay : /\ b.from # b.to
                     /\ role[b.from] = "leader" => b.lease <= lease[b.from]

GeInv == GeTables /\ BeatsWithin /\ LeaseWithinLeaders

LEMMA GeInvInit == GeInit => GeInv
  BY NodeTTLAssumption DEF GeInit, GeInv, GeTables, BeatsWithin, LeaseWithinLeaders

LEMMA GeInvNext == GeInv /\ [GeNext]_geVars => GeInv'
  <1> SUFFICES ASSUME GeInv, [GeNext]_geVars PROVE GeInv'
    OBVIOUS
  <1> USE NodeTTLAssumption DEF GeInv, GeTables, BeatsWithin, LeaseWithinLeaders, Beat
  <1>1. ASSUME NEW n \in GNode, StartNode(n) PROVE GeInv'
    <2>0. 0 \in 0 .. NodeTTL /\ UNCHANGED onWay
      BY <1>1 DEF StartNode
    <2>6. lease' \in [GNode -> 0 .. NodeTTL]
      BY <1>1, <2>0 DEF StartNode
    <2>1. GeTables' /\ UNCHANGED onWay
      BY <1>1, <2>0, <2>6 DEF StartNode
    <2>2. role'[n] = "follower" /\ follows'[n] = NoNode /\ NoNode \notin GNode
      BY <1>1, GNodeAssumption DEF StartNode
    <2>3. \A m \in GNode : m # n => /\ role'[m] = role[m] /\ follows'[m] = follows[m]
                                   /\ lease'[m] = lease[m]
      BY <1>1 DEF StartNode
    <2>4. BeatsWithin'
      BY <2>1, <2>2, <2>3
    <2>5. LeaseWithinLeaders'
      BY <2>2, <2>3
    <2> QED
      BY <2>1, <2>4, <2>5
  <1>2. ASSUME NEW n \in GNode, StopNode(n) PROVE GeInv'
    BY <1>2 DEF StopNode
  <1>3. ASSUME NEW n \in GNode, Renew(n) PROVE GeInv'
    BY <1>3 DEF Renew
  <1>4. ASSUME NEW n \in GNode, Promote(n) PROVE GeInv'
    <2>0. NodeTTL \in 0 .. NodeTTL
      OBVIOUS
    <2>1. lease'[n] = NodeTTL /\ role'[n] = "leader" /\ follows'[n] = n /\ UNCHANGED onWay
      BY <1>4 DEF Promote
    <2>6. GeTables'
      BY <1>4, <2>0 DEF Promote
    <2>2. \A m \in GNode : lease'[m] <= lease'[n]
      BY <2>1, <2>6
    <2>3. \A m \in GNode : m # n => /\ role'[m] = role[m] /\ follows'[m] = follows[m]
                                   /\ lease'[m] = lease[m]
      BY <1>4 DEF Promote
    <2>4. BeatsWithin'
      BY <2>1, <2>2, <2>3, <2>6
    <2>5. LeaseWithinLeaders'
      BY <2>1, <2>2, <2>3
    <2> QED
      BY <2>4, <2>5, <2>6
  <1>5. ASSUME NEW n \in GNode, NEW m \in GNode, SendBeat(n, m) PROVE GeInv'
    BY <1>5 DEF SendBeat
  <1>6. ASSUME NEW b \in onWay, ReceiveHeartbeat(b) PROVE GeInv'
    BY <1>6 DEF ReceiveHeartbeat
  <1>7. ASSUME NEW b \in onWay, LoseBeat(b) PROVE GeInv'
    BY <1>7 DEF LoseBeat
  <1>8. CASE TimePasses
    BY <1>8 DEF TimePasses, Left
  <1>9. CASE UNCHANGED geVars
    BY <1>9 DEF geVars
  <1> QED
    BY <1>1, <1>2, <1>3, <1>4, <1>5, <1>6, <1>7, <1>8, <1>9 DEF GeNext

-----------------------------------------------------------------------------
(* Types of the tables that the proofs above do not need *)

\* A result that is being stored is one.
EdTypes == EdgeRuntimeTypeOK /\ (storing.step # "none" => storing.result \in Result)

LEMMA EdTypesInit == EdInit => EdTypes
  <1> SUFFICES ASSUME EdInit PROVE EdTypes
    OBVIOUS
  <1>1. <<>> \in Seq(Result) /\ 0 \in 0 .. MaxResults /\ 0 \in 0 .. MaxEdgeFaults
    BY EdgeAssumption
  <1>2. Idle \in [result : 0 .. MaxResults, step : {"none", "row", "outbox"}] /\ Idle.step = "none"
    BY <1>1 DEF Idle
  <1> QED
    BY <1>1, <1>2 DEF EdInit, EdTypes, EdgeRuntimeTypeOK

LEMMA Remembers ==
    ASSUME memory \in Seq(Result), NEW r \in Result
    PROVE  Remember(r) \in Seq(Result) /\ Remember(r) # <<>>
  <1> DEFINE T == {q \in Result : KeyOf[q] # KeyOf[r]}
  <1> HIDE DEF T
  <1>1. Selection(memory, T) \in Seq(Result)
    BY SelectionEmbeds
  <1> HIDE DEF Result
  <1>2. Append(Selection(memory, T), r) \in Seq(Result) /\ Append(Selection(memory, T), r) # <<>>
    BY <1>1
  <1> QED
    BY <1>2 DEF Remember, T

LEMMA EdTypesNext == EdTypes /\ [EdNext]_edVars => EdTypes'
  <1> SUFFICES ASSUME EdTypes, [EdNext]_edVars PROVE EdTypes'
    OBVIOUS
  <1> DEFINE
        DbOK == /\ rows \in [EdgeKey -> 0 .. MaxResults] /\ outbox \in Seq(Result)
                /\ synced \subseteq Result
        StoreOK == /\ storing \in [result : 0 .. MaxResults, step : {"none", "row", "outbox"}]
                   /\ storing.step # "none" => storing.result \in Result
        CallsOK == /\ memory \in Seq(Result) /\ loading \in 0 .. MaxResults
                   /\ stored \in 0 .. MaxResults /\ StoreOK
        SyncOK == /\ syncer \in {"none", "waiting", "flushing"} /\ stopAsked \in BOOLEAN
                  /\ flushing \subseteq Result /\ handed \in BOOLEAN /\ callback \in BOOLEAN
        NodeOK == /\ connected \in BOOLEAN /\ edgeState \in {"online", "offline", "syncing"}
                  /\ upstream \subseteq Result
        FaultsOK == edgeFaults \in 0 .. MaxEdgeFaults
  <1>1. DbOK /\ CallsOK /\ SyncOK /\ NodeOK /\ FaultsOK
    BY DEF EdTypes, EdgeRuntimeTypeOK
  <1>2. ASSUME DbOK', CallsOK', SyncOK', NodeOK', FaultsOK' PROVE EdTypes'
    BY <1>2 DEF EdTypes, EdgeRuntimeTypeOK
  <1>3. ASSUME EdgeFault PROVE FaultsOK'
    BY <1>1, <1>3, EdgeAssumption DEF EdgeFault
  <1>4. ASSUME UNCHANGED edgeDb PROVE DbOK'
    BY <1>1, <1>4 DEF edgeDb
  <1>5. ASSUME UNCHANGED requests PROVE CallsOK'
    BY <1>1, <1>5 DEF requests
  <1>6. ASSUME UNCHANGED syncing PROVE SyncOK'
    BY <1>1, <1>6 DEF syncing
  <1>7. ASSUME UNCHANGED <<connected, edgeState, upstream>> PROVE NodeOK'
    BY <1>1, <1>7
  <1>8. /\ Idle \in [result : 0 .. MaxResults, step : {"none", "row", "outbox"}]
        /\ Idle.step = "none" /\ 0 \in 0 .. MaxResults
    BY EdgeAssumption DEF Idle
  <1>9. CASE StoreInMemory
    <2>1. stored' = stored + 1 /\ stored' \in 0 .. MaxResults /\ stored' \in Result
      BY <1>1, <1>9, EdgeAssumption DEF StoreInMemory, Result
    <2>2. storing' = [result |-> stored', step |-> "row"]
      BY <1>9 DEF StoreInMemory
    <2>3. StoreOK'
      BY <2>1, <2>2
    <2>4. Remember(stored') \in Seq(Result) /\ Remember(stored') # <<>>
      BY <1>1, <2>1, Remembers
    <2>5. memory' \in {Remember(stored'), Tail(Remember(stored'))}
      BY <1>9 DEF StoreInMemory
    <2>6. memory' \in Seq(Result)
      <3> HIDE DEF Result
      <3> QED
        BY <2>4, <2>5
    <2>7. /\ UNCHANGED <<edgeDb, loading, syncing, edgeFaults>>
          /\ UNCHANGED <<connected, edgeState, upstream>>
      BY <1>9 DEF StoreInMemory
    <2> QED
      BY <1>1, <1>2, <1>4, <1>6, <1>7, <2>1, <2>3, <2>6, <2>7
  <1>10. CASE StoreRow
    <2>1. storing.result \in Result /\ storing.result \in 0 .. MaxResults
      BY <1>1, <1>10 DEF StoreRow
    <2>2. rows' \in [EdgeKey -> 0 .. MaxResults]
      BY <1>1, <1>10, <2>1 DEF StoreRow
    <2>3. storing' = [result |-> storing.result, step |-> "outbox"]
      BY <1>1, <1>10 DEF StoreRow
    <2>4. StoreOK'
      BY <2>1, <2>3
    <2>5. /\ UNCHANGED <<outbox, synced, memory, loading, stored, syncing, edgeFaults>>
          /\ UNCHANGED <<connected, edgeState, upstream>>
      BY <1>10 DEF StoreRow
    <2> QED
      BY <1>1, <1>2, <1>6, <1>7, <2>2, <2>4, <2>5
  <1>11. CASE StoreInOutbox
    <2>1. storing.result \in Result /\ outbox' = Append(outbox, storing.result) /\ storing' = Idle
      BY <1>1, <1>11 DEF StoreInOutbox
    <2>2. outbox' \in Seq(Result)
      <3> HIDE DEF Result
      <3> QED
        BY <1>1, <2>1
    <2>3. StoreOK'
      BY <1>8, <2>1
    <2>4. /\ UNCHANGED <<rows, synced, memory, loading, stored, syncing, edgeFaults>>
          /\ UNCHANGED <<connected, edgeState, upstream>>
      BY <1>11 DEF StoreInOutbox
    <2> QED
      BY <1>1, <1>2, <1>6, <1>7, <2>2, <2>3, <2>4
  <1>12. ASSUME NEW k \in EdgeKey, RequestHit(k) PROVE EdTypes'
    <2>1. PICK i \in DOMAIN memory : memory' = Remember(memory[i])
      BY <1>12 DEF RequestHit
    <2>2. memory[i] \in Result
      <3> HIDE DEF Result
      <3> QED
        BY <1>1
    <2>3. memory' \in Seq(Result)
      BY <1>1, <2>1, <2>2, Remembers
    <2>4. /\ UNCHANGED <<edgeDb, storing, loading, stored, syncing, edgeFaults>>
          /\ UNCHANGED <<connected, edgeState, upstream>>
      BY <1>12 DEF RequestHit
    <2> QED
      BY <1>1, <1>2, <1>4, <1>6, <1>7, <2>3, <2>4
  <1>13. ASSUME NEW k \in EdgeKey, RequestReads(k) PROVE EdTypes'
    <2>1. /\ loading' = rows[k]
          /\ UNCHANGED <<edgeDb, memory, storing, stored, syncing, edgeFaults>>
          /\ UNCHANGED <<connected, edgeState, upstream>>
      BY <1>13 DEF RequestReads
    <2>2. loading' \in 0 .. MaxResults
      BY <1>1, <2>1
    <2> QED
      BY <1>1, <1>2, <1>4, <1>6, <1>7, <2>1, <2>2
  <1>14. CASE RequestLoads
    <2>1. /\ loading # 0 /\ loading' = 0 /\ memory' = Remember(loading)
          /\ UNCHANGED <<edgeDb, storing, stored, syncing, edgeFaults>>
          /\ UNCHANGED <<connected, edgeState, upstream>>
      BY <1>14 DEF RequestLoads
    <2>2. loading \in Result
      BY <1>1, <2>1, EdgeAssumption DEF Result
    <2>3. memory' \in Seq(Result)
      BY <1>1, <2>1, <2>2, Remembers
    <2> QED
      BY <1>1, <1>2, <1>4, <1>6, <1>7, <1>8, <2>1, <2>3
  <1>15. ASSUME NEW c \in BOOLEAN, SetConnected(c) PROVE EdTypes'
    <2>1. /\ connected' = c /\ edgeState' \in {"syncing", "offline"} /\ UNCHANGED upstream
          /\ UNCHANGED edgeDb /\ UNCHANGED requests /\ UNCHANGED syncing
          /\ UNCHANGED edgeFaults \/ EdgeFault
      BY <1>15 DEF SetConnected
    <2>2. NodeOK'
      BY <1>1, <2>1
    <2> QED
      BY <1>1, <1>2, <1>3, <1>4, <1>5, <1>6, <2>1, <2>2
  <1>16. CASE StartSync \/ StopSync \/ SyncEnds
    <2>1. /\ UNCHANGED edgeDb /\ UNCHANGED requests /\ UNCHANGED <<connected, edgeState, upstream>>
          /\ UNCHANGED edgeFaults \/ EdgeFault
      BY <1>16 DEF StartSync, StopSync, SyncEnds
    <2>2. SyncOK'
      BY <1>1, <1>16 DEF StartSync, StopSync, SyncEnds
    <2> QED
      BY <1>1, <1>2, <1>3, <1>4, <1>5, <1>7, <2>1, <2>2
  <1>17. CASE ReadOutbox
    <2>1. Unsynced \in Seq(Result)
      <3>1. outbox \in Seq(Result)
        BY <1>1
      <3> QED
        BY <3>1, SelectionEmbeds DEF Unsynced
    <2>2. \A i \in DOMAIN Unsynced : Unsynced[i] \in Result
      <3> HIDE DEF Result
      <3> QED
        BY <2>1
    <2>3. /\ UNCHANGED edgeDb /\ UNCHANGED requests
          /\ UNCHANGED <<connected, upstream, edgeFaults, callback, stopAsked, handed>>
          /\ \/ edgeState' \in {"online", edgeState} /\ UNCHANGED <<syncer, flushing>>
             \/ /\ syncer' = "flushing" /\ UNCHANGED edgeState
                /\ flushing' = {Unsynced[i] : i \in {j \in DOMAIN Unsynced : j <= OutboxLimit}}
      BY <1>17 DEF ReadOutbox
    <2>4. flushing' \subseteq Result /\ syncer' \in {"none", "waiting", "flushing"}
          /\ edgeState' \in {"online", "offline", "syncing"}
      BY <1>1, <2>2, <2>3
    <2> QED
      BY <1>1, <1>2, <1>4, <1>5, <2>3, <2>4
  <1>18. CASE HandOver \/ SyncRaises
    <2>1. /\ UNCHANGED edgeDb /\ UNCHANGED requests /\ UNCHANGED <<connected, edgeState, callback, stopAsked>>
          /\ UNCHANGED edgeFaults \/ EdgeFault
          /\ syncer' \in {syncer, "waiting"} /\ flushing' \in {flushing, {}}
          /\ handed' \in {TRUE, handed} /\ upstream' \in {upstream, upstream \cup flushing}
      BY <1>18 DEF HandOver, SyncRaises
    <2>2. SyncOK' /\ NodeOK'
      BY <1>1, <2>1
    <2> QED
      BY <1>1, <1>2, <1>3, <1>4, <1>5, <2>1, <2>2
  <1>19. CASE MarkSynced
    <2>1. /\ synced' = synced \cup flushing /\ edgeState' \in {"online", edgeState}
          /\ syncer' = "waiting" /\ flushing' = {} /\ handed' = FALSE
          /\ UNCHANGED <<rows, outbox, connected, callback, stopAsked, upstream, edgeFaults>>
          /\ UNCHANGED requests
      BY <1>19 DEF MarkSynced
    <2>2. DbOK' /\ SyncOK' /\ NodeOK'
      BY <1>1, <2>1
    <2> QED
      BY <1>1, <1>2, <1>5, <2>1, <2>2
  <1>20. CASE EdgeRestarts
    <2>1. <<>> \in Seq(Result)
      OBVIOUS
    <2>2. /\ memory' = <<>> /\ storing' = Idle /\ loading' = 0 /\ UNCHANGED stored
          /\ connected' = TRUE /\ edgeState' = "online" /\ UNCHANGED upstream
          /\ syncer' = "none" /\ stopAsked' = FALSE /\ flushing' = {} /\ handed' = FALSE
          /\ UNCHANGED edgeDb /\ UNCHANGED callback /\ EdgeFault
      BY <1>20 DEF EdgeRestarts
    <2>3. CallsOK'
      BY <1>1, <1>8, <2>1, <2>2
    <2>4. SyncOK' /\ NodeOK'
      BY <1>1, <2>2
    <2> QED
      BY <1>2, <1>3, <1>4, <2>2, <2>3, <2>4
  <1>21. CASE UNCHANGED edVars
    <2>1. /\ UNCHANGED edgeDb /\ UNCHANGED requests /\ UNCHANGED syncing
          /\ UNCHANGED <<connected, edgeState, upstream>> /\ UNCHANGED edgeFaults
      BY <1>21 DEF edVars, edgeDb, requests, syncing
    <2> QED
      BY <1>1, <1>2, <1>4, <1>5, <1>6, <1>7, <2>1
  <1> QED
    BY <1>9, <1>10, <1>11, <1>12, <1>13, <1>14, <1>15, <1>16, <1>17, <1>18, <1>19, <1>20, <1>21
       DEF EdNext

\* The regions: what is listed or copied is a row, and a region stays one while it is written.
LEMMA RegionTypesInit == RgInit => RegionsTypeOK
  <1> SUFFICES ASSUME RgInit PROVE RegionsTypeOK
    OBVIOUS
  <1>1. NewRow \in RegionRow /\ 0 \in 0 .. MaxRegionOps
    BY RegionsAssumption DEF NewRow, RegionRow, Status
  <1>2. <<>> \in Seq(Copy)
    OBVIOUS
  <1> QED
    BY <1>1, <1>2 DEF RgInit, RegionsTypeOK

LEMMA RegionTypesNext == RegionsTypeOK /\ [RgNext]_rgVars => RegionsTypeOK'
  <1> SUFFICES ASSUME RegionsTypeOK, [RgNext]_rgVars PROVE RegionsTypeOK'
    OBVIOUS
  <1> DEFINE RowsOK == regionRow \in [Region -> RegionRow \cup {NoRegionRow}]
             CopyOK == copy \in [Writer -> Copy \cup {NoWrite}]
             ListOK == \A m \in Monitor : listed[m] \in Seq(Copy)
             OpsOK == regionOps \in 0 .. MaxRegionOps
  <1>1. RowsOK /\ CopyOK /\ ListOK /\ OpsOK
    BY DEF RegionsTypeOK
  <1>2. ASSUME RowsOK', CopyOK', ListOK', OpsOK' PROVE RegionsTypeOK'
    BY <1>2 DEF RegionsTypeOK
  <1>3. ASSUME RegionOp PROVE OpsOK'
    BY <1>1, <1>3, RegionsAssumption DEF RegionOp
  <1>4. \A r \in Rows : r \in Region /\ regionRow[r] \in RegionRow
    BY <1>1 DEF Rows
  <1>5. NewRow \in RegionRow /\ Writer = {"health", "failover", "beat", "operator"}
        /\ Monitor = {"health", "failover"}
    BY DEF NewRow, RegionRow, Status, Writer, Monitor
  <1>6. ASSUME NEW r \in Region, RegisterRegion(r) \/ RemoveRegion(r) PROVE RegionsTypeOK'
    <2>1. UNCHANGED <<copy, listed>> /\ RegionOp
          /\ \E x \in {NewRow, NoRegionRow} : regionRow' = [regionRow EXCEPT ![r] = x]
      BY <1>6 DEF RegisterRegion, RemoveRegion
    <2>2. RowsOK'
      BY <1>1, <1>5, <2>1
    <2> QED
      BY <1>1, <1>2, <1>3, <2>1, <2>2
  <1>7. ASSUME NEW r \in Region, BeatAges(r) PROVE RegionsTypeOK'
    <2>1. regionRow[r] \in RegionRow /\ UNCHANGED <<copy, listed, regionOps>>
          /\ regionRow' = [regionRow EXCEPT ![r].fresh = FALSE]
      BY <1>4, <1>7 DEF BeatAges
    <2>2. [regionRow[r] EXCEPT !.fresh = FALSE] \in RegionRow
      BY <2>1 DEF RegionRow
    <2>3. RowsOK'
      BY <1>1, <2>1, <2>2
    <2> QED
      BY <1>1, <1>2, <2>1, <2>3
  <1>8. ASSUME NEW r \in Region, NEW load \in Load, BeatReads(r, load) PROVE RegionsTypeOK'
    <2> DEFINE c == [region |-> r, row |-> [regionRow[r] EXCEPT !.fresh = TRUE, !.load = load]]
    <2>1. regionRow[r] \in RegionRow /\ UNCHANGED <<regionRow, listed>> /\ RegionOp
          /\ copy' = [copy EXCEPT !["beat"] = c]
      BY <1>4, <1>8 DEF BeatReads
    <2>2. c \in Copy
      BY <2>1 DEF RegionRow, Copy
    <2> HIDE DEF c
    <2>3. CopyOK'
      BY <1>1, <1>5, <2>1, <2>2
    <2> QED
      BY <1>1, <1>2, <1>3, <2>1, <2>3
  <1>9. ASSUME NEW w \in Writer, NEW r \in Region, NEW status \in Status, StatusCopy(w, r, status)
        PROVE  CopyOK'
    <2> DEFINE c == [region |-> r, row |-> [regionRow[r] EXCEPT !.status = status]]
    <2>1. copy' = [copy EXCEPT ![w] = IF r \in Rows THEN c ELSE NoWrite]
      BY <1>9 DEF StatusCopy
    <2>2. r \in Rows => c \in Copy
      BY <1>4 DEF RegionRow, Copy
    <2> HIDE DEF c
    <2> QED
      BY <1>1, <2>1, <2>2
  <1>10. ASSUME NEW r \in Region, NEW status \in {"active", "draining"}, OperatorReads(r, status)
         PROVE  RegionsTypeOK'
    <2>1. /\ StatusCopy("operator", r, status) /\ RegionOp /\ UNCHANGED <<regionRow, listed>>
          /\ status \in Status /\ "operator" \in Writer
      BY <1>5, <1>10 DEF OperatorReads, Status
    <2> QED
      BY <1>1, <1>2, <1>3, <1>9, <2>1
  <1>11. ASSUME NEW w \in Writer, WriteRow(w) PROVE RegionsTypeOK'
    <2>1. /\ copy[w] # NoWrite /\ copy' = [copy EXCEPT ![w] = NoWrite]
          /\ UNCHANGED <<listed, regionOps>>
          /\ regionRow' = [regionRow EXCEPT ![copy[w].region] = IF @ = NoRegionRow THEN @
                                                                ELSE copy[w].row]
      BY <1>11 DEF WriteRow
    <2>2. copy[w].region \in Region /\ copy[w].row \in RegionRow
      BY <1>1, <2>1 DEF Copy
    <2>3. RowsOK' /\ CopyOK'
      BY <1>1, <2>1, <2>2
    <2> QED
      BY <1>1, <1>2, <2>1, <2>3
  <1>12. ASSUME NEW m \in Monitor, ListRegions(m) PROVE RegionsTypeOK'
    <2> DEFINE ids == Selection(RegionOrder, Rows)
               l == [i \in DOMAIN ids |-> [region |-> ids[i], row |-> regionRow[ids[i]]]]
    <2>1. /\ UNCHANGED <<regionRow, copy>> /\ listed' = [listed EXCEPT ![m] = l]
          /\ UNCHANGED regionOps \/ RegionOp
      BY <1>12 DEF ListRegions
    <2>2. ids \in Seq(Region) /\ DOMAIN ids = 1 .. Len(ids) /\ Len(ids) \in Nat
          /\ \A i \in 1 .. Len(ids) : ids[i] \in Rows
      <3>1. RegionOrder \in Seq(Region)
        BY RegionsAssumption
      <3>2. ids \in Seq(Region \cap Rows)
        BY <3>1, SelectionType
      <3> HIDE DEF ids
      <3> QED
        BY <3>2
    <2> HIDE DEF ids
    <2>3. \A i \in 1 .. Len(ids) : [region |-> ids[i], row |-> regionRow[ids[i]]] \in Copy
      BY <1>4, <2>2 DEF Copy
    <2>4. l \in Seq(Copy)
      <3> HIDE DEF Copy
      <3> QED
        BY <2>2, <2>3
    <2> HIDE DEF l
    <2>5. ListOK'
      BY <1>1, <2>1, <2>4
    <2> QED
      BY <1>1, <1>2, <1>3, <2>1, <2>5
  <1>13. ASSUME NEW m \in Monitor, listed[m] # <<>>
         PROVE  Head(listed[m]) \in Copy /\ Tail(listed[m]) \in Seq(Copy)
    <2> HIDE DEF Copy
    <2> QED
      BY <1>1, <1>13
  <1>14. CASE HealthChecks
    <2> DEFINE c == Head(listed["health"])
    <2>1. /\ UNCHANGED <<regionRow, regionOps>> /\ listed' = [listed EXCEPT !["health"] = Tail(@)]
          /\ UNCHANGED copy \/ StatusCopy("health", c.region, Evaluated(c.row))
          /\ listed["health"] # <<>>
      BY <1>14 DEF HealthChecks
    <2>2. c.region \in Region /\ Evaluated(c.row) \in Status /\ Tail(listed["health"]) \in Seq(Copy)
      BY <1>5, <1>13, <2>1 DEF Copy, Evaluated, Status
    <2> HIDE DEF c
    <2>3. CopyOK'
      BY <1>1, <1>5, <1>9, <2>1, <2>2
    <2>4. ListOK'
      BY <1>1, <1>5, <2>1, <2>2
    <2> QED
      BY <1>1, <1>2, <2>1, <2>3, <2>4
  <1>15. CASE FailoverChecks
    <2> DEFINE c == Head(listed["failover"])
    <2>1. /\ UNCHANGED <<regionRow, regionOps>> /\ listed' = [listed EXCEPT !["failover"] = Tail(@)]
          /\ UNCHANGED copy \/ StatusCopy("failover", c.region, "draining")
          /\ listed["failover"] # <<>>
      BY <1>15 DEF FailoverChecks
    <2>2. c.region \in Region /\ "draining" \in Status /\ Tail(listed["failover"]) \in Seq(Copy)
      BY <1>5, <1>13, <2>1 DEF Copy, Status
    <2> HIDE DEF c
    <2>3. CopyOK'
      BY <1>1, <1>5, <1>9, <2>1, <2>2
    <2>4. ListOK'
      BY <1>1, <1>5, <2>1, <2>2
    <2> QED
      BY <1>1, <1>2, <2>1, <2>3, <2>4
  <1>16. CASE UNCHANGED rgVars
    BY <1>1, <1>2, <1>16 DEF rgVars
  <1> QED
    BY <1>6, <1>7, <1>8, <1>10, <1>11, <1>12, <1>14, <1>15, <1>16 DEF RgNext

\* The gateway.  A request goes on to be metered only below the quota, so that the meter of a
\* minute passes it by at most the requests that were under way.
Metering == {c \in Caller : stage[c] = "metering"}

GwTypes ==
    /\ GatewayTypeOK
    /\ meter + Cardinality(Metering) <= UsageBound

LEMMA MeteringIsFinite ==
    /\ IsFiniteSet(Metering) /\ Cardinality(Metering) \in Nat
    /\ Cardinality(Metering) <= Cardinality(Caller) /\ Cardinality(Caller) \in Nat
    /\ UsageBound \in Nat /\ TokenQuota \in Nat /\ UsageBound = TokenQuota + Cardinality(Caller)
  <1>1. /\ IsFiniteSet(Metering) /\ Cardinality(Metering) <= Cardinality(Caller)
        /\ IsFiniteSet(Caller)
    BY FS_Subset, GatewayAssumption DEF Metering
  <1>2. Cardinality(Metering) \in Nat /\ Cardinality(Caller) \in Nat
    BY <1>1, FS_CardinalityType
  <1> QED
    BY <1>1, <1>2, GatewayAssumption DEF UsageBound

LEMMA GwTypesInit == GwInit => GwTypes
  <1> SUFFICES ASSUME GwInit PROVE GwTypes
    OBVIOUS
  <1>1. Metering = {} /\ Cardinality(Metering) = 0
    BY FS_EmptySet DEF GwInit, Metering
  <1>2. 0 \in 0 .. RpsLimit + 1 /\ 0 \in 0 .. UsageBound /\ 0 \in 0 .. MaxGwFaults
        /\ 0 + 0 <= UsageBound
    BY MeteringIsFinite, GatewayAssumption
  <1>3. /\ tokenState \in [ApiToken -> {"none", "live", "revoked"}] /\ tokenIndex \subseteq ApiToken
        /\ rotating \in BOOLEAN /\ stage \in [Caller -> Stage]
    BY DEF GwInit, Stage
  <1>4. /\ rate \in 0 .. RpsLimit + 1 /\ inflight \in Int /\ meter \in 0 .. UsageBound
        /\ usage \in 0 .. UsageBound /\ invoiced \in 0 .. UsageBound /\ gwFaults \in 0 .. MaxGwFaults
        /\ meter + Cardinality(Metering) <= UsageBound
    BY <1>1, <1>2 DEF GwInit
  <1> QED
    BY <1>3, <1>4 DEF GwTypes, GatewayTypeOK

LEMMA GwTypesNext == GwTypes /\ [GwNext]_gwVars => GwTypes'
  <1> SUFFICES ASSUME GwTypes, [GwNext]_gwVars PROVE GwTypes'
    OBVIOUS
  <1> DEFINE TokensOK == /\ tokenState \in [ApiToken -> {"none", "live", "revoked"}]
                         /\ tokenIndex \subseteq ApiToken /\ rotating \in BOOLEAN
             StageOK == stage \in [Caller -> Stage]
             CountsOK == rate \in 0 .. RpsLimit + 1 /\ inflight \in Int /\ gwFaults \in 0 .. MaxGwFaults
             BillingOK == /\ meter \in Nat /\ usage \in 0 .. UsageBound /\ invoiced \in 0 .. UsageBound
                          /\ meter + Cardinality(Metering) <= UsageBound
  <1>1. TokensOK /\ StageOK /\ CountsOK /\ BillingOK
    BY MeteringIsFinite DEF GwTypes, GatewayTypeOK
  <1>2. ASSUME TokensOK', StageOK', CountsOK', BillingOK' PROVE GwTypes'
    <2>1. Cardinality(Metering)' \in Nat
      <3>1. IsFiniteSet(Metering')
        BY FS_Subset, GatewayAssumption DEF Metering
      <3> QED
        BY <3>1, FS_CardinalityType
    <2>2. UsageBound' = UsageBound /\ UsageBound \in Nat
      BY MeteringIsFinite DEF UsageBound
    <2>3. meter' \in 0 .. UsageBound
      BY <1>2, <2>1, <2>2
    <2> QED
      BY <1>2, <2>2, <2>3 DEF GwTypes, GatewayTypeOK
  <1>3. Fault \/ UNCHANGED gwFaults => gwFaults' \in 0 .. MaxGwFaults
    BY <1>1, GatewayAssumption DEF Fault
  <1>4. ASSUME UNCHANGED billing, Metering' = Metering PROVE BillingOK'
    BY <1>1, <1>4 DEF billing, UsageBound
  <1>5. ASSUME NEW c \in Caller, NEW s \in Stage, Go(c, s) PROVE StageOK'
    BY <1>1, <1>5 DEF Go
  <1>6. ASSUME NEW c \in Caller, NEW s \in Stage, Go(c, s), stage[c] # "metering", s # "metering"
        PROVE  Metering' = Metering
    BY <1>1, <1>6 DEF Go, Metering
  \* A step of one request that is not metered.
  <1>7. ASSUME NEW c \in Caller, NEW s \in Stage, Go(c, s), stage[c] # "metering", s # "metering",
               UNCHANGED tokens, UNCHANGED billing, CountsOK'
        PROVE  GwTypes'
    <2>1. StageOK' /\ BillingOK'
      BY <1>4, <1>5, <1>6, <1>7
    <2>2. TokensOK'
      BY <1>1, <1>7 DEF tokens
    <2> QED
      BY <1>2, <1>7, <2>1, <2>2
  <1>8. ASSUME UNCHANGED stage PROVE StageOK' /\ Metering' = Metering
    BY <1>1, <1>8 DEF Metering
  <1>9. ASSUME NEW t \in ApiToken, CreateToken(t) \/ \E rotates \in BOOLEAN : RevokeToken(t, rotates)
        PROVE  GwTypes'
    <2>1. UNCHANGED stage /\ UNCHANGED billing /\ UNCHANGED <<rate, inflight, gwFaults>>
      BY <1>9 DEF CreateToken, RevokeToken
    <2>2. TokensOK'
      BY <1>1, <1>9 DEF CreateToken, RevokeToken
    <2> QED
      BY <1>1, <1>2, <1>4, <1>8, <2>1, <2>2
  <1>10. ASSUME NEW t \in ApiToken, NEW c \in Caller, Authenticate(c, t) PROVE GwTypes'
    <2>1. /\ stage[c] = "idle" /\ Go(c, "authenticated") /\ "authenticated" \in Stage
          /\ UNCHANGED tokens /\ UNCHANGED billing /\ UNCHANGED <<rate, inflight, gwFaults>>
      BY <1>10 DEF Authenticate, Stage
    <2> QED
      BY <1>1, <1>7, <2>1
  <1>11. ASSUME NEW c \in Caller, RateLimit(c) PROVE GwTypes'
    <2>1. PICK s \in {"idle", "rated"} : Go(c, s)
      BY <1>11 DEF RateLimit
    <2>2. /\ stage[c] = "authenticated" /\ UNCHANGED tokens /\ UNCHANGED billing /\ UNCHANGED inflight
          /\ Fault \/ UNCHANGED gwFaults
          /\ rate' = rate \/ rate' = IF rate > RpsLimit THEN rate ELSE rate + 1
      BY <1>11 DEF RateLimit
    <2>3. CountsOK'
      BY <1>1, <1>3, <2>2, GatewayAssumption
    <2>4. s \in Stage /\ s # "metering"
      BY DEF Stage
    <2> QED
      BY <1>7, <2>1, <2>2, <2>3, <2>4
  <1>12. ASSUME NEW c \in Caller, CheckConcurrency(c) PROVE GwTypes'
    <2>1. PICK s \in {"idle", "admitted"} : Go(c, s)
      BY <1>12 DEF CheckConcurrency
    <2>2. /\ stage[c] = "rated" /\ UNCHANGED tokens /\ UNCHANGED billing /\ UNCHANGED <<rate, inflight>>
          /\ Fault \/ UNCHANGED gwFaults
      BY <1>12 DEF CheckConcurrency
    <2>3. CountsOK'
      BY <1>1, <1>3, <2>2
    <2>4. s \in Stage /\ s # "metering"
      BY DEF Stage
    <2> QED
      BY <1>7, <2>1, <2>2, <2>3, <2>4
  <1>13. ASSUME NEW c \in Caller, IncrConcurrency(c) PROVE GwTypes'
    <2>1. /\ stage[c] = "admitted" /\ Go(c, "inside") /\ "inside" \in Stage
          /\ UNCHANGED tokens /\ UNCHANGED billing /\ UNCHANGED rate
          /\ Fault \/ UNCHANGED gwFaults
          /\ inflight' = inflight \/ inflight' = inflight + 1
      BY <1>13 DEF IncrConcurrency, Stage
    <2>2. CountsOK'
      BY <1>1, <1>3, <2>1
    <2> QED
      BY <1>7, <2>1, <2>2
  <1>14. ASSUME NEW c \in Caller, Answer(c) PROVE GwTypes'
    <2>1. /\ stage[c] = "inside" /\ UNCHANGED tokens /\ UNCHANGED billing
          /\ UNCHANGED <<rate, inflight, gwFaults>>
          /\ Go(c, IF meter + 1 > TokenQuota THEN "answered" ELSE "metering")
          /\ "answered" \in Stage /\ "metering" \in Stage
      BY <1>14 DEF Answer, Stage
    <2>2. CASE meter + 1 > TokenQuota
      BY <1>1, <1>7, <2>1, <2>2
    <2>3. CASE ~ meter + 1 > TokenQuota
      <3>1. Go(c, "metering")
        BY <2>1, <2>3
      <3>2. StageOK'
        BY <1>5, <2>1, <3>1
      <3>3. Cardinality(Metering') <= Cardinality(Caller) /\ Cardinality(Metering') \in Nat
        <4>1. IsFiniteSet(Metering') /\ Cardinality(Metering') <= Cardinality(Caller)
          BY FS_Subset, GatewayAssumption DEF Metering
        <4> QED
          BY <4>1, FS_CardinalityType
      <3>4. UNCHANGED <<meter, usage, invoiced>>
        BY <2>1 DEF billing
      <3>5. meter + Cardinality(Metering') <= UsageBound
        BY <1>1, <2>3, <3>3, MeteringIsFinite
      <3>6. BillingOK'
        BY <1>1, <3>4, <3>5 DEF UsageBound
      <3>7. TokensOK' /\ CountsOK'
        BY <1>1, <2>1 DEF tokens
      <3> QED
        BY <1>2, <3>2, <3>6, <3>7
    <2> QED
      BY <2>2, <2>3
  <1>15. ASSUME NEW c \in Caller, Consume(c) PROVE GwTypes'
    <2>1. /\ stage[c] = "metering" /\ Go(c, "answered") /\ "answered" \in Stage
          /\ UNCHANGED tokens /\ UNCHANGED <<rate, inflight, invoiced, gwFaults>>
          /\ meter' = meter + 1 /\ usage' = IF usage < UsageBound THEN usage + 1 ELSE usage
      BY <1>15 DEF Consume, Stage
    <2>2. StageOK'
      BY <1>5, <2>1
    <2>3. c \in Metering /\ Metering' = Metering \ {c}
      BY <1>1, <2>1 DEF Go, Metering
    <2>4. Cardinality(Metering') = Cardinality(Metering) - 1
      BY <2>3, MeteringIsFinite, FS_RemoveElement
    <2>5. usage' \in 0 .. UsageBound /\ meter' \in Nat /\ meter' + Cardinality(Metering') <= UsageBound
      BY <1>1, <2>1, <2>4, MeteringIsFinite
    <2>6. BillingOK'
      BY <1>1, <2>1, <2>5 DEF UsageBound
    <2>7. TokensOK' /\ CountsOK'
      BY <1>1, <2>1 DEF tokens
    <2> QED
      BY <1>2, <2>2, <2>6, <2>7
  <1>16. ASSUME NEW c \in Caller, Raises(c) PROVE GwTypes'
    <2>1. /\ stage[c] = "inside" /\ Go(c, "answered") /\ "answered" \in Stage
          /\ UNCHANGED tokens /\ UNCHANGED billing /\ UNCHANGED <<rate, inflight, gwFaults>>
      BY <1>16 DEF Raises, Stage
    <2> QED
      BY <1>1, <1>7, <2>1
  <1>17. ASSUME NEW c \in Caller, DecrReads(c) PROVE GwTypes'
    <2>1. PICK s \in {"idle", "leaving"} : Go(c, s)
      BY <1>17 DEF DecrReads
    <2>2. /\ stage[c] = "answered" /\ UNCHANGED tokens /\ UNCHANGED billing /\ UNCHANGED <<rate, inflight>>
          /\ Fault \/ UNCHANGED gwFaults
      BY <1>17 DEF DecrReads
    <2>3. CountsOK'
      BY <1>1, <1>3, <2>2
    <2>4. s \in Stage /\ s # "metering"
      BY DEF Stage
    <2> QED
      BY <1>7, <2>1, <2>2, <2>3, <2>4
  <1>18. ASSUME NEW c \in Caller, DecrConcurrency(c) PROVE GwTypes'
    <2>1. /\ stage[c] = "leaving" /\ Go(c, "idle") /\ "idle" \in Stage
          /\ UNCHANGED tokens /\ UNCHANGED billing /\ UNCHANGED <<rate, gwFaults>>
          /\ inflight' = inflight - 1
      BY <1>18 DEF DecrConcurrency, Stage
    <2>2. CountsOK'
      BY <1>1, <2>1
    <2> QED
      BY <1>7, <2>1, <2>2
  <1>19. CASE NextSecond \/ KeyExpires
    <2>1. /\ UNCHANGED tokens /\ UNCHANGED stage /\ UNCHANGED billing
          /\ rate' \in {0, rate} /\ inflight' \in {0, inflight}
          /\ Fault \/ UNCHANGED gwFaults
      BY <1>19 DEF NextSecond, KeyExpires
    <2>2. CountsOK'
      <3>1. 0 \in 0 .. RpsLimit + 1 /\ 0 \in Int
        BY GatewayAssumption
      <3> QED
        BY <1>1, <1>3, <2>1, <3>1
    <2>3. TokensOK'
      BY <1>1, <2>1 DEF tokens
    <2> QED
      BY <1>2, <1>4, <1>8, <2>1, <2>2, <2>3
  <1>20. CASE NextMinute \/ Invoice
    <2>1. /\ UNCHANGED tokens /\ UNCHANGED stage /\ UNCHANGED <<rate, inflight, gwFaults, usage>>
          /\ meter' \in {0, meter} /\ invoiced' \in {usage, invoiced}
      BY <1>20 DEF NextMinute, Invoice
    <2>2. Metering' = Metering /\ StageOK'
      BY <1>8, <2>1
    <2>3. BillingOK'
      <3>1. meter' + Cardinality(Metering) <= UsageBound /\ meter' \in Nat
        BY <1>1, <2>1, MeteringIsFinite
      <3> QED
        BY <1>1, <2>1, <2>2, <3>1 DEF UsageBound
    <2>4. TokensOK' /\ CountsOK'
      BY <1>1, <2>1 DEF tokens
    <2> QED
      BY <1>2, <2>2, <2>3, <2>4
  <1>21. CASE UNCHANGED gwVars
    <2>1. UNCHANGED tokens /\ UNCHANGED stage /\ UNCHANGED billing /\ UNCHANGED <<rate, inflight, gwFaults>>
      BY <1>21 DEF gwVars, tokens, billing
    <2>2. TokensOK' /\ CountsOK'
      BY <1>1, <2>1 DEF tokens
    <2> QED
      BY <1>2, <1>4, <1>8, <2>1, <2>2
  <1> QED
    BY <1>9, <1>10, <1>11, <1>12, <1>13, <1>14, <1>15, <1>16, <1>17, <1>18, <1>19, <1>20, <1>21
       DEF GwNext

\* The agents of the clusters.
LEMMA AgentTypesHold ==
    (CgInit => ClusterAgentTypeOK) /\ (ClusterAgentTypeOK /\ [CgNext]_caVars => ClusterAgentTypeOK')
  <1>1. CgInit => ClusterAgentTypeOK
    BY ClusterAgentAssumption DEF CgInit, ClusterAgentTypeOK, Row
  <1>2. ASSUME ClusterAgentTypeOK, [CgNext]_caVars PROVE ClusterAgentTypeOK'
    <2> USE <1>2, ClusterAgentAssumption DEF ClusterAgentTypeOK, Row
    <2>1. ASSUME NEW m \in Member_, Alive(m) PROVE clusterRow' \in [Member_ -> Row]
      BY <2>1 DEF Alive
    <2>2. ASSUME NEW m \in Member_, Registers(m) \/ RegistersUnanswered(m) \/ Beats(m)
          PROVE  ClusterAgentTypeOK'
      <3>1. clusterRow' \in [Member_ -> Row]
        BY <2>1, <2>2 DEF Registers, RegistersUnanswered, Beats
      <3>2. agentAt' \in [Member_ -> {"registering", "beating"}] /\ UNCHANGED <<silent, reachable>>
        BY <2>2 DEF Registers, RegistersUnanswered, Beats
      <3>3. outagesLeft' \in 0 .. MaxOutages
        BY <2>2 DEF Registers, RegistersUnanswered, Beats
      <3> QED
        BY <3>1, <3>2, <3>3
    <2>3. ASSUME NEW m \in Member_, Silences(m) PROVE ClusterAgentTypeOK'
      BY <2>3 DEF Silences
    <2>4. ASSUME NEW m \in Member_, SweepWrites(m) PROVE ClusterAgentTypeOK'
      BY <2>4 DEF SweepWrites
    <2>5. CASE SweepReads
      BY <2>5 DEF SweepReads
    <2>6. CASE Outage_
      <3>1. outagesLeft' \in 0 .. MaxOutages
        BY <2>6 DEF Outage_
      <3> QED
        BY <2>6, <3>1 DEF Outage_
    <2>7. CASE BackAgain
      BY <2>7 DEF BackAgain
    <2>8. CASE UNCHANGED caVars
      BY <2>8 DEF caVars
    <2> QED
      BY <2>2, <2>3, <2>4, <2>5, <2>6, <2>7, <2>8 DEF CgNext
  <1> QED
    BY <1>1, <1>2

\* What the invariants of the two elections do not say of their tables.
LdTypes ==
    /\ mode \in Mode
    /\ pc \in [Plane -> {"down", "start", "started", "poll", "answered", "stepdown", "watch", "none"}]
    /\ holder \in {NoPlane} \cup Plane \X {"cur", "old"}
    /\ raftLeader \in {NoPlane} \cup Plane
    /\ ldFaults \in 0 .. MaxLdFaults

LEMMA LdTypesInit == LdInit => LdTypes
  BY PlaneAssumption DEF LdInit, LdTypes

LEMMA LdTypesNext == LdTypes /\ [LdNext]_ldVars => LdTypes'
  <1> SUFFICES ASSUME LdTypes, [LdNext]_ldVars PROVE LdTypes'
    OBVIOUS
  <1> USE DEF LdTypes
  <1>0. LdFault \/ UNCHANGED ldFaults => ldFaults' \in 0 .. MaxLdFaults
    BY PlaneAssumption DEF LdFault
  <1>1. ASSUME NEW p \in Plane, holder' \in {holder, NoPlane, Current(p), <<p, "old">>}
        PROVE  holder' \in {NoPlane} \cup Plane \X {"cur", "old"}
    BY <1>1 DEF Current
  <1>2. ASSUME NEW p \in Plane, SessionEnds(p)
        PROVE  holder' \in {holder, NoPlane, Current(p), <<p, "old">>}
    BY <1>2 DEF SessionEnds
  <1>3. ASSUME NEW p \in Plane, Build(p) \/ StartLoop(p) \/ Publish(p) PROVE LdTypes'
    BY <1>3 DEF Build, StartLoop, Publish, database
  <1>4. ASSUME NEW p \in Plane, Query(p) \/ StepDown(p) PROVE LdTypes'
    <2>1. holder' \in {holder, NoPlane, Current(p), <<p, "old">>}
      BY <1>4 DEF Query, StepDown
    <2>2. /\ UNCHANGED <<mode, raftLeader, ldFaults>>
          /\ \E x \in {"started", "answered", "poll"} : pc' = [pc EXCEPT ![p] = x]
      BY <1>4 DEF Query, StepDown, Answered
    <2> QED
      BY <1>1, <2>1, <2>2
  <1>5. ASSUME NEW p \in Plane, QueryRaises(p) PROVE LdTypes'
    <2>1. holder' \in {holder, NoPlane, Current(p), <<p, "old">>}
      BY <1>2, <1>5 DEF QueryRaises, database
    <2>2. UNCHANGED <<mode, raftLeader>>
      BY <1>5 DEF QueryRaises
    <2>3. ldFaults' \in 0 .. MaxLdFaults
      BY <1>0, <1>5 DEF QueryRaises
    <2>4. \E x \in {"started", "answered"} : pc' = [pc EXCEPT ![p] = x]
      BY <1>5 DEF QueryRaises, Answered
    <2> QED
      BY <1>1, <2>1, <2>2, <2>3, <2>4
  <1>6. ASSUME NEW p \in Plane, Watch(p) PROVE LdTypes'
    BY <1>0, <1>6 DEF Watch, database
  <1>7. ASSUME NEW p \in Plane, SessionLost(p) PROVE LdTypes'
    BY <1>0, <1>1, <1>2, <1>7 DEF SessionLost
  <1>8. ASSUME NEW p \in Plane, PlaneStops(p) PROVE LdTypes'
    <2>1. /\ UNCHANGED mode /\ pc' = [pc EXCEPT ![p] = "down"] /\ LdFault /\ SessionEnds(p)
          /\ raftLeader' \in {NoPlane, raftLeader}
      BY <1>8 DEF PlaneStops
    <2> QED
      BY <1>0, <1>1, <1>2, <2>1
  <1>9. CASE ServerNotices
    BY <1>9 DEF ServerNotices
  <1>10. CASE RaftElects
    BY <1>0, <1>10 DEF RaftElects, database
  <1>11. CASE UNCHANGED ldVars
    BY <1>11 DEF ldVars
  <1> QED
    BY <1>3, <1>4, <1>5, <1>6, <1>7, <1>8, <1>9, <1>10, <1>11 DEF LdNext, LdThread

GeTypes ==
    /\ role \in [GNode -> {"down", "leader", "follower"}]
    /\ follows \in [GNode -> GNode \cup {NoNode}]
    /\ stopped \in Nat

LEMMA GeTypesInit == GeInit => GeTypes
  BY DEF GeInit, GeTypes

LEMMA GeTypesNext == GeInv /\ GeTypes /\ [GeNext]_geVars => GeTypes'
  <1> SUFFICES ASSUME GeInv, GeTypes, [GeNext]_geVars PROVE GeTypes'
    OBVIOUS
  <1> USE DEF GeTypes
  <1>1. ASSUME NEW n \in GNode, StartNode(n) \/ StopNode(n) \/ Renew(n) \/ Promote(n) PROVE GeTypes'
    BY <1>1 DEF StartNode, StopNode, Renew, Promote
  <1>2. ASSUME NEW b \in onWay, ReceiveHeartbeat(b) \/ LoseBeat(b) PROVE GeTypes'
    <2>1. b.to \in GNode /\ b.from \in GNode
      BY DEF GeInv, GeTables, Beat
    <2> QED
      BY <1>2, <2>1 DEF ReceiveHeartbeat, LoseBeat
  <1>3. CASE UNCHANGED <<role, follows, stopped>>
    BY <1>3
  <1> QED
    BY <1>1, <1>2, <1>3 DEF GeNext, SendBeat, TimePasses, geVars

-----------------------------------------------------------------------------
(* The composition *)

\* A step of the whole is a step of one component, and leaves the others as they are.
LEMMA CoordinationStep ==
    ASSUME [Next]_vars
    PROVE  /\ part' = part
           /\ [LdNext]_ldVars /\ [GeNext]_geVars /\ [SrNext]_srVars /\ [EdNext]_edVars
           /\ [RgNext]_rgVars /\ [GwNext]_gwVars /\ [CgNext]_caVars
  <1>1. part' = part
    BY DEF Next, vars
  <1>2. [LdNext]_ldVars /\ [GeNext]_geVars
    BY DEF Next, vars
  <1>3. [SrNext]_srVars /\ [EdNext]_edVars
    BY DEF Next, vars
  <1>4. [RgNext]_rgVars /\ [GwNext]_gwVars
    BY DEF Next, vars
  <1>5. [CgNext]_caVars
    BY DEF Next, vars
  <1> QED
    BY <1>1, <1>2, <1>3, <1>4, <1>5

\* What every component keeps of its state, whichever runs.
CoordinationInv ==
    /\ part \in Component
    /\ LdInv /\ LdTypes
    /\ GeInv /\ GeTypes
    /\ SrInv
    /\ EdTypes
    /\ RegionsTypeOK
    /\ GwTypes
    /\ ClusterAgentTypeOK

LEMMA CoordinationInvInit == Init => CoordinationInv
  BY LdInvInit, LdTypesInit, GeInvInit, GeTypesInit, SrInvInit, EdTypesInit, RegionTypesInit,
     GwTypesInit, AgentTypesHold DEF Init, CoordinationInv

LEMMA CoordinationInvNext == CoordinationInv /\ [Next]_vars => CoordinationInv'
  <1> SUFFICES ASSUME CoordinationInv, [Next]_vars PROVE CoordinationInv'
    OBVIOUS
  <1>1. /\ part' = part
        /\ [LdNext]_ldVars /\ [GeNext]_geVars /\ [SrNext]_srVars /\ [EdNext]_edVars
        /\ [RgNext]_rgVars /\ [GwNext]_gwVars /\ [CgNext]_caVars
    BY CoordinationStep
  <1>2. /\ part \in Component /\ LdInv /\ LdTypes /\ GeInv /\ GeTypes /\ SrInv /\ EdTypes
        /\ RegionsTypeOK /\ GwTypes /\ ClusterAgentTypeOK
    BY DEF CoordinationInv
  <1>3. part' \in Component
    BY <1>1, <1>2
  <1>4. LdInv' /\ LdTypes'
    BY <1>1, <1>2, LdInvNext, LdTypesNext
  <1>5. GeInv' /\ GeTypes'
    BY <1>1, <1>2, GeInvNext, GeTypesNext
  <1>6. SrInv' /\ EdTypes'
    BY <1>1, <1>2, SrInvNext, EdTypesNext
  <1>7. RegionsTypeOK' /\ GwTypes' /\ ClusterAgentTypeOK'
    BY <1>1, <1>2, RegionTypesNext, GwTypesNext, AgentTypesHold
  <1> QED
    BY <1>3, <1>4, <1>5, <1>6, <1>7 DEF CoordinationInv

LEMMA CoordinationInvHolds == Spec => []CoordinationInv
  BY CoordinationInvInit, CoordinationInvNext, PTL DEF Spec

\* Every component keeps its tables well formed in any interleaving: the planes' threads and
\* sessions, leases and heartbeats, the changes on their way, the edge node's rows, the regions'
\* rows and stale copies; and the tokens metered in a minute pass the quota by at most one for
\* each request that was under way (consume_tokens, gateway/quota_manager.py).
THEOREM CoordinationTypeCorrect == Spec => []CoordinationTypeOK
  <1>1. CoordinationInv => CoordinationTypeOK
    <2> SUFFICES ASSUME CoordinationInv PROVE CoordinationTypeOK
      OBVIOUS
    <2>1. LeadershipTypeOK
      BY DEF CoordinationInv, LdInv, LdTables, LdTypes, LeadershipTypeOK
    <2>2. GlobalElectionTypeOK
      BY DEF CoordinationInv, GeInv, GeTables, GeTypes, GlobalElectionTypeOK
    <2>3. StateReplicationTypeOK /\ EdgeRuntimeTypeOK
      BY DEF CoordinationInv, SrInv, SrTypes, EdTypes
    <2>4. RegionsTypeOK /\ GatewayTypeOK /\ ClusterAgentTypeOK
      BY DEF CoordinationInv, GwTypes
    <2> QED
      BY <2>1, <2>2, <2>3, <2>4 DEF CoordinationInv, CoordinationTypeOK, Component
  <1> QED
    BY <1>1, CoordinationInvHolds, PTL

\* A plane that says it leads over an unbroken session holds the advisory lock, so two never
\* do (PostgresLockCoordinator of control_plane/coordinator.py), and no follower of global
\* control trusts a leader beyond the lease that this leader has (GlobalConsensus).
THEOREM LeadersStayBacked == Spec => []LeadersAreBacked
  <1>1. CoordinationInv => LeadersAreBacked
    BY DEF CoordinationInv, LdInv, LockInv, GeInv, LeadersAreBacked, LeaderHoldsLock
  <1> QED
    BY <1>1, CoordinationInvHolds, PTL
=============================================================================
