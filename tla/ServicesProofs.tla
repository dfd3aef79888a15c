--------------------------- MODULE ServicesProofs ---------------------------
(***************************************************************************)
(* Theorems about the specification of MCServices, for any values of its   *)
(* constants.  The invariants of most components are proved in             *)
(* ComponentProofs and those of the two voters in AgreementProofs; here    *)
(* are the zones, the replica table, the incremental replicator, the       *)
(* leases, the routers, the two graphs and their searches, and the         *)
(* composition.                                                            *)
(***************************************************************************)
EXTENDS MCServices, AgreementProofs, ComponentProofs, FiniteSetTheorems, TLAPS

-----------------------------------------------------------------------------
(* Infrastructure zones *)

ZnInv ==
    /\ zones = [z \in ZoneId |-> zones[z]]
    /\ \A z \in ZoneId : zones[z] # NoZone => zones[z] \in ZoneRecord

LEMMA ZnInvInit == ZnInit => ZnInv
  BY DEF ZnInit, ZnInv

\* What a report does to the record of a zone.
LEMMA Reports ==
    ASSUME ZnInv, NEW report, UpdateFromTelemetry(report), NEW z \in ZoneId, zones'[z] # NoZone
    PROVE  /\ zones[z] # NoZone /\ zones'[z].target = zones[z].target
           /\ zones'[z].status \in {"offline", "degraded", zones[z].status}
           /\ zones'[z] \in ZoneRecord
  <1>1. zones[z] # NoZone /\ zones'[z] = [zones[z] EXCEPT !.status = Judged(z, report)]
    BY DEF UpdateFromTelemetry
  <1>2. Judged(z, report) \in {"offline", "degraded", zones[z].status}
    BY DEF Judged
  <1>3. zones[z] \in ZoneRecord
    BY <1>1 DEF ZnInv
  <1> HIDE DEF Judged
  <1> QED
    BY <1>1, <1>2, <1>3 DEF ZoneRecord, ZoneStatus

LEMMA ZnInvNext == ZnInv /\ [ZnNext]_znVars => ZnInv'
  <1> SUFFICES ASSUME ZnInv, [ZnNext]_znVars PROVE ZnInv'
    OBVIOUS
  <1> USE DEF ZnInv
  <1>1. ASSUME NEW z \in ZoneId, NEW record \in ZoneRecord, RegisterZone(z, record) PROVE ZnInv'
    BY <1>1 DEF RegisterZone
  <1>2. ASSUME NEW z \in ZoneId, RemoveZone(z) PROVE ZnInv'
    BY <1>2 DEF RemoveZone
  <1>3. ASSUME NEW z \in ZoneId, NEW s \in ZoneStatus, UpdateZoneStatus(z, s) PROVE ZnInv'
    BY <1>3 DEF UpdateZoneStatus, ZoneRecord
  <1>4. ASSUME NEW report, UpdateFromTelemetry(report) PROVE ZnInv'
    <2>1. zones' = [z \in ZoneId |-> zones'[z]]
      BY <1>4 DEF UpdateFromTelemetry
    <2> QED
      BY <1>4, <2>1, Reports
  <1>5. CASE UNCHANGED znVars
    BY <1>5 DEF znVars
  <1> QED
    BY <1>1, <1>2, <1>3, <1>4, <1>5 DEF ZnNext

\* TargetsByOperatorsWord, of a step.
ByOperatorsWord ==
    told' # NoReport => \A z \in ZoneId :
        ~Takes(z) /\ Takes(z)' =>
           \/ zones[z].status = "active"
           \/ /\ zones[z].status \in {"draining", "isolated", "offline"}
              /\ zones'[z].status = "degraded"
              /\ Cardinality(Down(z)') > Cardinality(Up(z)') /\ Up(z)' # {}

\* A report that makes a zone degraded calls more of its regions offline than up.
LEMMA DegradedByMajority ==
    ASSUME NEW report, UpdateFromTelemetry(report), NEW z \in ZoneId,
           zones[z] # NoZone, zones[z].status # "degraded", Judged(z, report) = "degraded"
    PROVE  Cardinality(Down(z)') > Cardinality(Up(z)') /\ Up(z)' # {}
  <1> DEFINE named == RegionsOf[z] \cap DOMAIN report
             offline == {r \in named : report[r]}
  <1>1. Down(z)' = offline /\ Up(z)' = named \ offline
    <2>1. told' = report
      BY DEF UpdateFromTelemetry
    <2>2. Down(z)' = {r \in RegionsOf[z] \cap DOMAIN told' : told'[r]}
      BY DEF Down
    <2>3. Down(z)' = offline
      BY <2>1, <2>2
    <2>4. Up(z)' = (RegionsOf[z] \cap DOMAIN told') \ Down(z)'
      BY DEF Up
    <2>5. Up(z)' = named \ Down(z)'
      BY <2>1, <2>4
    <2> HIDE DEF named, offline
    <2> QED
      BY <2>3, <2>5
  <1>2. ~ (offline # {} /\ offline = named) /\ Cardinality(offline) > Cardinality(named \ offline)
    BY DEF Judged
  <1>3. ASSUME named \ offline = {} PROVE FALSE
    <2>1. offline = named
      BY <1>3
    <2>2. offline = {}
      BY <1>2, <2>1
    <2>3. Cardinality(offline) = 0 /\ Cardinality(named \ offline) = 0
      BY <1>3, <2>2, FS_EmptySet
    <2> QED
      BY <1>2, <2>3
  <1> QED
    BY <1>1, <1>2, <1>3

LEMMA ZnStep == ZnInv /\ ZnNext => ByOperatorsWord
  <1> SUFFICES ASSUME ZnInv, ZnNext, told' # NoReport, NEW z \in ZoneId, ~Takes(z), Takes(z)'
               PROVE  \/ zones[z].status = "active"
                      \/ /\ zones[z].status \in {"draining", "isolated", "offline"}
                         /\ zones'[z].status = "degraded"
                         /\ Cardinality(Down(z)') > Cardinality(Up(z)') /\ Up(z)' # {}
    BY DEF ByOperatorsWord
  <1>1. PICK report : UpdateFromTelemetry(report)
    BY DEF ZnNext, RegisterZone, RemoveZone, UpdateZoneStatus
  <1>2. PICK o \in ZoneId \ {z} : zones'[o] # NoZone /\ z \in FailoverTargets(o)'
    BY DEF Takes
  <1>3. zones[o] # NoZone /\ zones'[o].target = zones[o].target
    BY <1>1, <1>2, Reports
  <1>4. z \notin FailoverTargets(o)
    BY <1>2, <1>3 DEF Takes
  <1>5. /\ zones'[z] # NoZone /\ zones'[z].status \in {"active", "degraded"}
        /\ zones'[o].target = z \/ zones'[z].status = "active"
    BY <1>2 DEF FailoverTargets
  <1>6. /\ zones[z] # NoZone /\ zones[z].status \in ZoneStatus
        /\ zones'[z].status \in {"offline", "degraded", zones[z].status}
    BY <1>1, <1>5, Reports DEF ZnInv, ZoneRecord
  <1>7. CASE zones'[z].status = "active"
    BY <1>6, <1>7
  <1>8. CASE zones'[z].status = "degraded" /\ zones'[o].target = z
    <2>1. zones[z].status \notin {"active", "degraded"}
      BY <1>3, <1>4, <1>6, <1>8, ZonesAssumption DEF FailoverTargets
    <2>2. Judged(z, report) = "degraded"
      <3>1. zones'[z] = [zones[z] EXCEPT !.status = Judged(z, report)] /\ zones[z] \in ZoneRecord
        BY <1>1, <1>6 DEF UpdateFromTelemetry, ZnInv
      <3> QED
        BY <1>8, <3>1 DEF ZoneRecord
    <2>3. Cardinality(Down(z)') > Cardinality(Up(z)') /\ Up(z)' # {}
      BY <1>1, <1>6, <2>1, <2>2, DegradedByMajority
    <2> QED
      BY <1>6, <1>8, <2>1, <2>3 DEF ZoneStatus
  <1> QED
    BY <1>5, <1>7, <1>8

-----------------------------------------------------------------------------
(* Model replicas *)

\* Neither a row nor a copy on its way back counts more accesses than there were, on top
\* of what a record was added with.
MrInv ==
    /\ accesses \in [ReplicaRegion -> Nat] /\ brought \in [ReplicaRegion -> Nat]
    /\ replicas = [r \in ReplicaRegion |-> replicas[r]]
    /\ writing = [w \in Writer |-> writing[w]]
    /\ \A r \in ReplicaRegion : replicas[r] # NoReplica =>
          /\ replicas[r] \in ReplicaRow
          /\ replicas[r].frequency <= brought[r] + accesses[r]
    /\ \A w \in Writer : writing[w] # NoReplica =>
          /\ writing[w] \in [region : ReplicaRegion, row : ReplicaRow]
          /\ writing[w].row.frequency <= brought[writing[w].region] + accesses[writing[w].region]

LEMMA MrInvInit == MrInit => MrInv
  BY DEF MrInit, MrInv

LEMMA MrInvNext == MrInv /\ [MrNext]_mrVars => MrInv'
  <1> SUFFICES ASSUME MrInv, [MrNext]_mrVars PROVE MrInv'
    OBVIOUS
  <1> USE DEF MrInv
  <1>1. ASSUME NEW r \in ReplicaRegion, NEW given \in Given, AddReplica(r, given) PROVE MrInv'
    <2>1. /\ given \in ReplicaRow /\ given.frequency \in Nat
          /\ replicas' = [replicas EXCEPT ![r] = given] /\ UNCHANGED <<writing, accesses>>
          /\ brought' = [brought EXCEPT ![r] = IF @ < given.frequency THEN given.frequency ELSE @]
      BY <1>1, ModelReplicasAssumption DEF AddReplica, ReplicaRow
    <2>2. /\ brought' \in [ReplicaRegion -> Nat] /\ given.frequency <= brought'[r]
          /\ \A q \in ReplicaRegion : brought[q] <= brought'[q]
      BY <2>1
    <2>3. ASSUME NEW q \in ReplicaRegion, replicas'[q] # NoReplica
          PROVE  replicas'[q] \in ReplicaRow /\ replicas'[q].frequency <= brought'[q] + accesses'[q]
      <3>1. CASE q = r
        BY <2>1, <2>2, <3>1
      <3>2. CASE q # r
        BY <2>1, <2>2, <2>3, <3>2 DEF ReplicaRow
      <3> QED
        BY <3>1, <3>2
    <2>4. ASSUME NEW w \in Writer, writing'[w] # NoReplica
          PROVE  /\ writing'[w] \in [region : ReplicaRegion, row : ReplicaRow]
                 /\ writing'[w].row.frequency <= brought'[writing'[w].region] + accesses'[writing'[w].region]
      BY <2>1, <2>2, <2>4 DEF ReplicaRow
    <2> QED
      BY <2>1, <2>2, <2>3, <2>4
  <1>2. ASSUME NEW r \in ReplicaRegion, RemoveReplica(r) PROVE MrInv'
    BY <1>2 DEF RemoveReplica
  <1>3. ASSUME NEW w \in Writer, NEW r \in ReplicaRegion, ReadForAccess(w, r) PROVE MrInv'
    <2>1. /\ replicas[r] \in ReplicaRow /\ replicas[r].frequency <= brought[r] + accesses[r]
          /\ accesses' = [accesses EXCEPT ![r] = @ + 1] /\ UNCHANGED <<replicas, brought>>
          /\ writing' = [writing EXCEPT ![w] =
                            [region |-> r, row |-> [replicas[r] EXCEPT !.frequency = @ + 1]]]
      BY <1>3 DEF ReadForAccess
    <2>2. accesses' \in [ReplicaRegion -> Nat] /\ accesses'[r] = accesses[r] + 1
          /\ \A q \in ReplicaRegion : accesses[q] <= accesses'[q]
      BY <2>1
    <2>3. ASSUME NEW q \in ReplicaRegion, replicas'[q] # NoReplica
          PROVE  replicas'[q] \in ReplicaRow /\ replicas'[q].frequency <= brought'[q] + accesses'[q]
      BY <2>1, <2>2, <2>3 DEF ReplicaRow
    <2>4. ASSUME NEW v \in Writer, writing'[v] # NoReplica
          PROVE  /\ writing'[v] \in [region : ReplicaRegion, row : ReplicaRow]
                 /\ writing'[v].row.frequency <= brought'[writing'[v].region] + accesses'[writing'[v].region]
      <3>1. CASE v = w
        BY <2>1, <2>2, <3>1 DEF ReplicaRow
      <3>2. CASE v # w
        <4>1. /\ writing'[v] = writing[v] /\ writing[v] \in [region : ReplicaRegion, row : ReplicaRow]
              /\ writing[v].row.frequency <= brought[writing[v].region] + accesses[writing[v].region]
          BY <2>1, <2>4, <3>2
        <4> QED
          BY <2>1, <2>2, <4>1 DEF ReplicaRow
      <3> QED
        BY <3>1, <3>2
    <2> QED
      BY <2>1, <2>2, <2>3, <2>4
  <1>4. ASSUME NEW w \in Writer, NEW r \in ReplicaRegion, NEW s \in Reached, ReadForState(w, r, s)
        PROVE  MrInv'
    <2>1. s \in ReplicationState
      BY ModelReplicasAssumption
    <2> QED
      BY <1>4, <2>1 DEF ReadForState, ReplicaRow
  <1>5. ASSUME NEW w \in Writer, WriteReplica(w) PROVE MrInv'
    BY <1>5 DEF WriteReplica
  <1>6. CASE UNCHANGED mrVars
    BY <1>6 DEF mrVars
  <1> QED
    BY <1>1, <1>2, <1>3, <1>4, <1>5, <1>6 DEF MrNext

\* ReplicasByAddOnly, of a step.
ByAddOnly ==
    \A r \in ReplicaRegion : replicas'[r] # NoReplica =>
        /\ replicas[r] = NoReplica => added' = added + 1
        /\ replicas'[r].frequency <= brought'[r] + accesses'[r]

LEMMA MrStep == MrInv /\ MrNext => ByAddOnly
  <1> SUFFICES ASSUME MrInv, MrNext, NEW r \in ReplicaRegion, replicas'[r] # NoReplica
               PROVE  /\ replicas[r] = NoReplica => added' = added + 1
                      /\ replicas'[r].frequency <= brought'[r] + accesses'[r]
    BY DEF ByAddOnly
  <1>1. replicas'[r].frequency <= brought'[r] + accesses'[r]
    BY MrInvNext DEF MrInv
  <1>2. ASSUME replicas[r] = NoReplica PROVE added' = added + 1
    BY <1>2 DEF MrInv, MrNext, AddReplica, RemoveReplica, ReadForAccess, ReadForState, WriteReplica
  <1> QED
    BY <1>1, <1>2

-----------------------------------------------------------------------------
(* The incremental replicator *)

Rising(s) == \A i, j \in 1 .. Len(s) : i < j => s[i] < s[j]
Below(s, t) == \A i \in 1 .. Len(s), j \in 1 .. Len(t) : s[i] < t[j]
UpTo(s, n) == \A i \in 1 .. Len(s) : s[i] <= n

PrTables ==
    /\ entries \in Nat /\ outbound \in Seq(Nat) /\ sending \in Seq(Nat)
    /\ arrived \in [Peer -> Seq(Nat)] /\ checkpoint \in [Peer -> Nat]
    /\ thread = "sending" => sending # <<>>

\* The queue rises to the last entry; the batch and what a peer has are in front of it.
QueueInOrder ==
    /\ Rising(outbound) /\ Rising(sending)
    /\ UpTo(outbound, entries) /\ UpTo(sending, entries)
    /\ Below(sending, outbound)
    /\ \A p \in Peer : UpTo(arrived[p], entries) /\ Below(arrived[p], outbound)

\* The batch is new to a peer, or the peer is listed twice, or was removed and added again,
\* and has it.
HasBatch(p) == \A k \in 1 .. Len(sending) : \E i \in 1 .. Len(arrived[p]) : arrived[p][i] = sending[k]

BatchIsNext == \A p \in Peer : Below(arrived[p], sending) \/ HasBatch(p)

PrInv == PrTables /\ QueueInOrder /\ BatchIsNext /\ CheckpointIsNewest

LEMMA PrInvInit == PrInit => PrInv
  <1> SUFFICES ASSUME PrInit PROVE PrInv
    OBVIOUS
  <1>1. /\ entries = 0 /\ outbound = <<>> /\ sending = <<>> /\ thread = "none"
        /\ arrived = [p \in Peer |-> <<>>] /\ checkpoint = [p \in Peer |-> 0]
    BY DEF PrInit
  <1>2. <<>> \in Seq(Nat) /\ Len(<<>>) = 0
    OBVIOUS
  <1> QED
    BY <1>1, <1>2
       DEF PrInv, PrTables, QueueInOrder, BatchIsNext, CheckpointIsNewest, Rising, Below, UpTo

\* What a peer has after a batch: the old entries, then those of the batch.
LEMMA Joined ==
    ASSUME NEW a \in Seq(Nat), NEW b \in Seq(Nat)
    PROVE  /\ a \o b \in Seq(Nat) /\ Len(a \o b) = Len(a) + Len(b)
           /\ \A i \in 1 .. Len(a) : (a \o b)[i] = a[i]
           /\ \A k \in 1 .. Len(b) : (a \o b)[Len(a) + k] = b[k]
           /\ \A i \in 1 .. Len(a \o b) :
                 i \in 1 .. Len(a) \/ \E k \in 1 .. Len(b) : i = Len(a) + k
  <1>1. /\ a \o b \in Seq(Nat) /\ Len(a \o b) = Len(a) + Len(b)
        /\ \A i \in 1 .. Len(a) : (a \o b)[i] = a[i]
        /\ \A k \in 1 .. Len(b) : (a \o b)[Len(a) + k] = b[k]
    OBVIOUS
  <1>2. ASSUME NEW i \in 1 .. Len(a \o b), i \notin 1 .. Len(a)
        PROVE  \E k \in 1 .. Len(b) : i = Len(a) + k
    <2>1. i - Len(a) \in 1 .. Len(b) /\ i = Len(a) + (i - Len(a))
      BY <1>1, <1>2
    <2> QED
      BY <2>1
  <1> QED
    BY <1>1, <1>2

\* The entries of a peer are in the order CheckpointIsNewest asks for.
InOrder(s) ==
    \A j \in 1 .. Len(s) : \/ \A i \in 1 .. j - 1 : s[i] < s[j]
                           \/ \E i \in 1 .. j - 1 : s[i] = s[j]

LEMMA JoinedInOrder ==
    ASSUME NEW a \in Seq(Nat), NEW b \in Seq(Nat), InOrder(a), Rising(b),
           \/ Below(a, b)
           \/ \A k \in 1 .. Len(b) : \E i \in 1 .. Len(a) : a[i] = b[k]
    PROVE  InOrder(a \o b)
  <1> SUFFICES ASSUME NEW j \in 1 .. Len(a \o b)
               PROVE  \/ \A i \in 1 .. j - 1 : (a \o b)[i] < (a \o b)[j]
                      \/ \E i \in 1 .. j - 1 : (a \o b)[i] = (a \o b)[j]
    BY DEF InOrder
  <1> DEFINE c == a \o b
  <1> HIDE DEF c
  <1>1. /\ c \in Seq(Nat) /\ Len(c) = Len(a) + Len(b) /\ Len(a) \in Nat /\ Len(b) \in Nat
        /\ \A i \in 1 .. Len(a) : c[i] = a[i]
        /\ \A k \in 1 .. Len(b) : c[Len(a) + k] = b[k]
        /\ \A i \in 1 .. Len(c) : i \in 1 .. Len(a) \/ \E k \in 1 .. Len(b) : i = Len(a) + k
    BY Joined DEF c
  <1>2. j \in 1 .. Len(c)
    BY DEF c
  <1>3. CASE j \in 1 .. Len(a)
    <2>1. \A i \in 1 .. j - 1 : i \in 1 .. Len(a) /\ c[i] = a[i] /\ c[j] = a[j]
      BY <1>1, <1>3
    <2> QED
      BY <1>3, <2>1 DEF InOrder, c
  <1>4. ASSUME NEW k \in 1 .. Len(b), j = Len(a) + k
        PROVE  \/ \A i \in 1 .. j - 1 : c[i] < c[j]
               \/ \E i \in 1 .. j - 1 : c[i] = c[j]
    <2>1. c[j] = b[k]
      BY <1>1, <1>4
    <2>2. CASE Below(a, b)
      <3>1. ASSUME NEW i \in 1 .. j - 1 PROVE c[i] < c[j]
        <4>1. CASE i \in 1 .. Len(a)
          BY <1>1, <2>1, <2>2, <4>1 DEF Below
        <4>2. ASSUME NEW m \in 1 .. Len(b), i = Len(a) + m PROVE c[i] < c[j]
          <5>1. m < k /\ c[i] = b[m]
            BY <1>1, <1>4, <3>1, <4>2
          <5> QED
            BY <2>1, <5>1 DEF Rising
        <4>3. i \in 1 .. Len(c)
          BY <1>2, <3>1
        <4> QED
          BY <1>1, <4>1, <4>2, <4>3
      <3> QED
        BY <3>1
    <2>3. CASE \A m \in 1 .. Len(b) : \E i \in 1 .. Len(a) : a[i] = b[m]
      <3>1. PICK i \in 1 .. Len(a) : a[i] = b[k]
        BY <2>3
      <3>2. i \in 1 .. j - 1 /\ c[i] = c[j]
        BY <1>1, <1>4, <2>1, <3>1
      <3> QED
        BY <3>2
    <2> QED
      BY <2>2, <2>3
  <1> QED
    BY <1>1, <1>2, <1>3, <1>4 DEF c

\* A step that changes neither the entries nor what a peer has.
LEMMA PrQuiet ==
    ASSUME PrInv, UNCHANGED <<sendFn, entries, outbound, sending, checkpoint, arrived>>,
           thread' = "sending" => thread = "sending"
    PROVE  PrInv'
  BY DEF PrInv, PrTables, QueueInOrder, BatchIsNext, HasBatch, CheckpointIsNewest, Rising, Below,
         UpTo, Last

LEMMA PrEnqueues == PrInv /\ EnqueueEntry => PrInv'
  <1> SUFFICES ASSUME PrInv, EnqueueEntry PROVE PrInv'
    OBVIOUS
  <1>1. /\ entries' = entries + 1 /\ outbound' = Append(outbound, entries + 1)
        /\ UNCHANGED <<sendFn, thread, sending, checkpoint, arrived>>
        /\ entries \in Nat /\ outbound \in Seq(Nat) /\ entries' \in Nat
    BY DEF EnqueueEntry, PrInv, PrTables
  <1>2. /\ outbound' \in Seq(Nat) /\ Len(outbound') = Len(outbound) + 1
        /\ \A i \in 1 .. Len(outbound) : outbound'[i] = outbound[i]
        /\ outbound'[Len(outbound) + 1] = entries + 1
    BY <1>1
  <1>3. \A i \in 1 .. Len(outbound') : i \in 1 .. Len(outbound) \/ i = Len(outbound) + 1
    BY <1>1, <1>2
  <1>4. PrTables'
    BY <1>1, <1>2 DEF PrInv, PrTables
  <1>5. ASSUME NEW t \in Seq(Nat), UpTo(t, entries)
        PROVE  UpTo(t, entries + 1) /\ (Below(t, outbound) => Below(t, outbound'))
    <2>1. UpTo(t, entries + 1)
      BY <1>1, <1>5 DEF UpTo
    <2>2. ASSUME Below(t, outbound), NEW i \in 1 .. Len(t), NEW j \in 1 .. Len(outbound')
          PROVE  t[i] < outbound'[j]
      <3>1. CASE j \in 1 .. Len(outbound)
        BY <1>2, <2>2, <3>1 DEF Below
      <3>2. CASE j = Len(outbound) + 1
        BY <1>1, <1>2, <1>5, <2>2, <3>2 DEF UpTo
      <3> QED
        BY <1>3, <3>1, <3>2
    <2> QED
      BY <2>1, <2>2 DEF Below
  <1>6. Rising(outbound') /\ UpTo(outbound', entries')
    <2>1. Rising(outbound) /\ UpTo(outbound, entries)
      BY DEF PrInv, QueueInOrder
    <2> QED
      BY <1>1, <1>2, <1>3, <2>1 DEF Rising, UpTo
  <1>7. QueueInOrder'
    <2>1. Rising(sending') /\ UpTo(sending', entries') /\ Below(sending', outbound')
      BY <1>1, <1>5 DEF PrInv, PrTables, QueueInOrder
    <2>2. ASSUME NEW p \in Peer PROVE UpTo(arrived'[p], entries') /\ Below(arrived'[p], outbound')
      BY <1>1, <1>5 DEF PrInv, PrTables, QueueInOrder
    <2> QED
      BY <1>6, <2>1, <2>2 DEF QueueInOrder
  <1>8. BatchIsNext'
    BY <1>1 DEF PrInv, BatchIsNext, HasBatch, Below
  <1>9. CheckpointIsNewest'
    BY <1>1 DEF PrInv, CheckpointIsNewest
  <1> QED
    BY <1>4, <1>7, <1>8, <1>9 DEF PrInv

LEMMA PrTakes == PrInv /\ TakeBatch => PrInv'
  <1> SUFFICES ASSUME PrInv, TakeBatch PROVE PrInv'
    OBVIOUS
  <1>0. outbound \in Seq(Nat) /\ outbound # <<>> /\ Len(outbound) \in Nat \ {0}
    BY DEF PrInv, PrTables, TakeBatch
  <1>1. PICK n \in 1 .. Len(outbound) : /\ sending' = SubSeq(outbound, 1, n)
                                        /\ outbound' = SubSeq(outbound, n + 1, Len(outbound))
    <2>1. (IF Len(outbound) < BatchSize THEN Len(outbound) ELSE BatchSize) \in 1 .. Len(outbound)
      BY <1>0, PeerAssumption
    <2> QED
      BY <2>1 DEF TakeBatch
  <1>2. thread' = "sending" /\ UNCHANGED <<sendFn, entries, checkpoint, arrived>>
    BY DEF TakeBatch
  <1>3. /\ sending' \in Seq(Nat) /\ Len(sending') = n
        /\ \A i \in 1 .. n : sending'[i] = outbound[i]
    BY <1>0, <1>1
  <1>4. /\ outbound' \in Seq(Nat) /\ Len(outbound') = Len(outbound) - n
        /\ \A i \in 1 .. Len(outbound) - n : outbound'[i] = outbound[i + n]
    BY <1>0, <1>1
  <1>5. PrTables'
    BY <1>2, <1>3, <1>4 DEF PrInv, PrTables
  <1>6. \A i \in 1 .. n : i \in 1 .. Len(outbound)
    BY <1>0
  <1>7. \A i \in 1 .. Len(outbound) - n : i + n \in 1 .. Len(outbound) /\ n < i + n
    BY <1>0
  <1>8. QueueInOrder'
    <2>1. Rising(sending') /\ UpTo(sending', entries')
      BY <1>2, <1>3, <1>6 DEF PrInv, QueueInOrder, Rising, UpTo
    <2>2. Rising(outbound') /\ UpTo(outbound', entries')
      <3>1. Rising(outbound) /\ UpTo(outbound, entries)
        BY DEF PrInv, QueueInOrder
      <3>2. ASSUME NEW i \in 1 .. Len(outbound'), NEW j \in 1 .. Len(outbound'), i < j
            PROVE  outbound'[i] < outbound'[j]
        <4>1. /\ i + n \in 1 .. Len(outbound) /\ j + n \in 1 .. Len(outbound) /\ i + n < j + n
              /\ outbound'[i] = outbound[i + n] /\ outbound'[j] = outbound[j + n]
          BY <1>0, <1>4, <1>7, <3>2
        <4> QED
          BY <3>1, <4>1 DEF Rising
      <3>3. ASSUME NEW i \in 1 .. Len(outbound') PROVE outbound'[i] <= entries
        BY <1>4, <1>7, <3>1 DEF UpTo
      <3> QED
        BY <1>2, <3>2, <3>3 DEF Rising, UpTo
    <2>3. Below(sending', outbound')
      <3>1. ASSUME NEW i \in 1 .. Len(sending'), NEW j \in 1 .. Len(outbound')
            PROVE  sending'[i] < outbound'[j]
        <4>1. /\ i \in 1 .. Len(outbound) /\ j + n \in 1 .. Len(outbound) /\ i < j + n
              /\ sending'[i] = outbound[i] /\ outbound'[j] = outbound[j + n]
          BY <1>0, <1>3, <1>4, <1>6, <1>7
        <4> QED
          BY <4>1 DEF PrInv, QueueInOrder, Rising
      <3> QED
        BY <3>1 DEF Below
    <2>4. ASSUME NEW p \in Peer PROVE UpTo(arrived'[p], entries') /\ Below(arrived'[p], outbound')
      BY <1>2, <1>4, <1>7 DEF PrInv, QueueInOrder, UpTo, Below
    <2> QED
      BY <2>1, <2>2, <2>3, <2>4 DEF QueueInOrder
  <1>9. BatchIsNext'
    <2>1. \A p \in Peer : Below(arrived[p], sending')
      BY <1>3, <1>6 DEF PrInv, QueueInOrder, Below
    <2> QED
      BY <1>2, <2>1 DEF BatchIsNext
  <1>10. CheckpointIsNewest'
    BY <1>2 DEF PrInv, CheckpointIsNewest, Last
  <1> QED
    BY <1>5, <1>8, <1>9, <1>10 DEF PrInv

LEMMA PrFlushEnds == PrInv /\ FlushEnds => PrInv'
  <1> SUFFICES ASSUME PrInv, FlushEnds PROVE PrInv'
    OBVIOUS
  <1>1. /\ thread' = "waiting" /\ sending' = <<>> /\ Len(sending') = 0
        /\ UNCHANGED <<sendFn, entries, outbound, checkpoint, arrived>>
    BY DEF FlushEnds
  <1>2. sending' \in Seq(Nat)
    BY <1>1
  <1>3. PrTables'
    BY <1>1, <1>2 DEF PrInv, PrTables
  <1>4. Rising(sending') /\ UpTo(sending', entries') /\ Below(sending', outbound')
    BY <1>1 DEF Rising, UpTo, Below
  <1>5. \A p \in Peer : Below(arrived'[p], sending')
    BY <1>1 DEF Below
  <1>6. CheckpointIsNewest'
    BY <1>1 DEF PrInv, CheckpointIsNewest, Last
  <1> QED
    BY <1>1, <1>3, <1>4, <1>5, <1>6 DEF PrInv, QueueInOrder, BatchIsNext, Rising, UpTo, Below

LEMMA PrSends == PrInv /\ SendBatch => PrInv'
  <1> SUFFICES ASSUME PrInv, SendBatch PROVE PrInv'
    OBVIOUS
  <1>1. thread = "sending" /\ UNCHANGED <<sendFn, entries, outbound, thread, sending>>
    BY DEF SendBatch
  <1>2. PICK q : \/ sendFn /\ BatchArrives(q) /\ (Confirmed(q) \/ UNCHANGED checkpoint)
                 \/ sendFn /\ UNCHANGED <<arrived, checkpoint>>
                 \/ ~ sendFn /\ Confirmed(q) /\ UNCHANGED arrived
    BY DEF SendBatch
  <1> DEFINE last == sending[Len(sending)]
  <1>3. /\ sending \in Seq(Nat) /\ Len(sending) \in 1 .. Len(sending) /\ last \in Nat /\ Last(sending) = last
    BY <1>1 DEF PrInv, PrTables, Last
  <1> HIDE DEF last
  <1>4. /\ checkpoint \in [Peer -> Nat] /\ checkpoint' \in [Peer -> Nat]
        /\ \A r \in Peer : checkpoint'[r] = checkpoint[r] \/ (r = q /\ checkpoint'[r] = last)
    <2>1. checkpoint \in [Peer -> Nat]
      BY DEF PrInv, PrTables
    <2>2. CASE Confirmed(q)
      BY <1>3, <2>1, <2>2 DEF Confirmed
    <2>3. CASE UNCHANGED checkpoint
      BY <2>1, <2>3
    <2> QED
      BY <1>2, <2>1, <2>2, <2>3
  <1>5. CASE UNCHANGED arrived
    <2>1. PrTables' /\ QueueInOrder' /\ BatchIsNext'
      BY <1>1, <1>4, <1>5
         DEF PrInv, PrTables, QueueInOrder, BatchIsNext, HasBatch, Rising, Below, UpTo
    <2>2. CASE sendFn /\ UNCHANGED checkpoint
      BY <1>1, <1>5, <2>1, <2>2 DEF PrInv, CheckpointIsNewest
    <2>3. CASE ~ sendFn
      BY <1>1, <2>1, <2>3 DEF PrInv, CheckpointIsNewest
    <2>4. CASE sendFn /\ BatchArrives(q)
      <3>1. q \notin Peer
        <4>1. ASSUME q \in Peer PROVE FALSE
          <5>1. arrived'[q] = arrived[q] \o sending /\ arrived'[q] = arrived[q] /\ arrived[q] \in Seq(Nat)
            BY <1>5, <2>4, <4>1 DEF BatchArrives, PrInv, PrTables
          <5>2. /\ Len(arrived[q] \o sending) = Len(arrived[q]) + Len(sending)
                /\ Len(arrived[q]) \in Nat /\ Len(sending) \in Nat /\ Len(sending) # 0
            <6>1. Len(sending) \in Nat /\ Len(sending) # 0
              BY <1>3
            <6>2. /\ Len(arrived[q] \o sending) = Len(arrived[q]) + Len(sending)
                  /\ Len(arrived[q]) \in Nat
              <7>1. arrived[q] \in Seq(Nat) /\ sending \in Seq(Nat)
                BY <1>3, <5>1
              <7> QED
                BY <7>1
            <6> QED
              BY <6>1, <6>2
          <5>3. arrived[q] \o sending = arrived[q]
            BY <5>1
          <5> QED
            BY <5>2, <5>3
        <4> QED
          BY <4>1
      <3>2. \A r \in Peer : checkpoint'[r] = checkpoint[r]
        BY <1>4, <3>1
      <3> QED
        BY <1>1, <1>5, <2>1, <3>2 DEF PrInv, CheckpointIsNewest
    <2> QED
      BY <1>2, <2>2, <2>3, <2>4
  <1>6. CASE sendFn /\ BatchArrives(q) /\ q \in Peer
    <2> DEFINE a == arrived[q]
               c == a \o sending
    <2>1. a \in Seq(Nat) /\ Len(sending) \in Nat
      BY <1>3, <1>6 DEF PrInv, PrTables
    <2>2. /\ c \in Seq(Nat) /\ Len(c) = Len(a) + Len(sending) /\ Len(a) \in Nat
          /\ \A i \in 1 .. Len(a) : c[i] = a[i]
          /\ \A k \in 1 .. Len(sending) : c[Len(a) + k] = sending[k]
          /\ \A i \in 1 .. Len(c) :
                i \in 1 .. Len(a) \/ \E k \in 1 .. Len(sending) : i = Len(a) + k
      BY <1>3, <2>1, Joined
    <2>3. /\ \A i \in 1 .. Len(a) : i \in 1 .. Len(c)
          /\ \A k \in 1 .. Len(sending) : Len(a) + k \in 1 .. Len(c)
      BY <2>1, <2>2
    <2>4. arrived'[q] = c /\ \A r \in Peer : r # q => arrived'[r] = arrived[r]
      BY <1>6 DEF BatchArrives, PrInv, PrTables
    <2>5. InOrder(c)
      <3>1. InOrder(a) /\ Rising(sending) /\ (Below(a, sending) \/ HasBatch(q))
        <4>1. DOMAIN a = 1 .. Len(a)
          BY <2>1
        <4> QED
          BY <1>6, <4>1 DEF PrInv, CheckpointIsNewest, InOrder, QueueInOrder, BatchIsNext
      <3> QED
        BY <1>3, <2>1, <3>1, JoinedInOrder DEF HasBatch
    <2>6. UpTo(c, entries) /\ Below(c, outbound)
      <3>1. /\ UpTo(a, entries) /\ Below(a, outbound)
            /\ UpTo(sending, entries) /\ Below(sending, outbound)
        BY <1>6 DEF PrInv, QueueInOrder
      <3> HIDE DEF c, a
      <3> QED
        BY <2>2, <3>1 DEF UpTo, Below
    <2>7. \A k \in 1 .. Len(sending) : \E i \in 1 .. Len(c) : c[i] = sending[k]
      <3> HIDE DEF c, a
      <3> QED
        BY <2>2, <2>3
    <2> HIDE DEF c
    <2>8. PrTables'
      <3>1. arrived' \in [Peer -> Seq(Nat)]
        BY <1>6, <2>2, <2>4 DEF BatchArrives, PrInv, PrTables
      <3> QED
        BY <1>1, <1>4, <3>1 DEF PrInv, PrTables
    <2>9. QueueInOrder'
      <3>1. ASSUME NEW r \in Peer PROVE UpTo(arrived'[r], entries) /\ Below(arrived'[r], outbound)
        BY <2>4, <2>6 DEF PrInv, QueueInOrder
      <3>2. Rising(outbound) /\ Rising(sending) /\ UpTo(outbound, entries)
            /\ UpTo(sending, entries) /\ Below(sending, outbound)
        BY DEF PrInv, QueueInOrder
      <3> QED
        BY <1>1, <3>1, <3>2 DEF QueueInOrder
    <2>10. BatchIsNext'
      <3>1. HasBatch(q)'
        BY <1>1, <2>4, <2>7 DEF HasBatch
      <3>2. ASSUME NEW r \in Peer, r # q PROVE Below(arrived'[r], sending') \/ HasBatch(r)'
        BY <1>1, <2>4, <3>2 DEF PrInv, BatchIsNext, HasBatch
      <3> QED
        BY <3>1, <3>2 DEF BatchIsNext
    <2>11. ASSUME NEW r \in Peer
           PROVE  /\ checkpoint'[r] = 0 \/ \E j \in DOMAIN arrived'[r] : arrived'[r][j] = checkpoint'[r]
                  /\ InOrder(arrived'[r])
      <3>1. /\ checkpoint[r] = 0 \/ \E j \in DOMAIN arrived[r] : arrived[r][j] = checkpoint[r]
            /\ InOrder(arrived[r])
        BY <1>6 DEF PrInv, CheckpointIsNewest, InOrder
      <3>2. CASE r # q
        BY <1>4, <2>4, <3>1, <3>2
      <3>3. CASE r = q
        <4>1. DOMAIN a = 1 .. Len(a) /\ DOMAIN c = 1 .. Len(c)
          BY <2>1, <2>2
        <4>2. CASE checkpoint'[r] = checkpoint[r]
          BY <2>2, <2>3, <2>4, <2>5, <3>1, <3>3, <4>1, <4>2
        <4>3. CASE checkpoint'[r] = last
          <5>1. \E i \in 1 .. Len(c) : c[i] = last
            BY <1>3, <2>7 DEF last
          <5> QED
            BY <2>4, <2>5, <3>3, <4>1, <4>3, <5>1
        <4> QED
          BY <1>4, <4>2, <4>3
      <3> QED
        BY <3>2, <3>3
    <2> QED
      BY <2>8, <2>9, <2>10, <2>11 DEF PrInv, CheckpointIsNewest, InOrder
  <1>7. CASE sendFn /\ BatchArrives(q) /\ q \notin Peer
    <2>1. UNCHANGED arrived
      BY <1>7 DEF BatchArrives, PrInv, PrTables
    <2> QED
      BY <1>5, <2>1
  <1> QED
    BY <1>2, <1>5, <1>6, <1>7

LEMMA PrInvNext == PrInv /\ [PrNext]_prVars => PrInv'
  <1> SUFFICES ASSUME PrInv, [PrNext]_prVars PROVE PrInv'
    OBVIOUS
  <1>1. CASE StartReplicator \/ StopReplicator \/ ThreadEnds
    BY <1>1, PrQuiet DEF StartReplicator, StopReplicator, ThreadEnds
  <1>2. ASSUME NEW p \in Peer, FindNoPeer(p) \/ AddPeer(p) \/ RemovePeer(p) PROVE PrInv'
    BY <1>2, PrQuiet DEF FindNoPeer, AddPeer, RemovePeer
  <1>3. CASE UNCHANGED prVars
    BY <1>3, PrQuiet DEF prVars
  <1> QED
    BY <1>1, <1>2, <1>3, PrEnqueues, PrTakes, PrSends, PrFlushEnds DEF PrNext

-----------------------------------------------------------------------------
(* Leases *)

\* Types: clocks and leases stay within the bounds, and no clock is ahead of the time.
LeaseTypes == LeasesTypeOK /\ \A h \in Holder : clock[h] <= now

LEMMA LeaseTypesInit == LsInit => LeaseTypes
  BY LeaseAssumption DEF LsInit, LeaseTypes, LeasesTypeOK, LeaseRow, LeaseTime

LEMMA LeaseTypesNext == LeaseTypes /\ [LsNext]_lsVars => LeaseTypes'
  <1> SUFFICES ASSUME LeaseTypes, [LsNext]_lsVars PROVE LeaseTypes'
    OBVIOUS
  <1> USE LeaseAssumption DEF LeaseTypes, LeasesTypeOK, LeaseRow, LeaseTime
  <1>1. CASE Tick
    BY <1>1 DEF Tick
  <1>2. ASSUME NEW h \in Holder, ReadClock(h) PROVE LeaseTypes'
    BY <1>2 DEF ReadClock
  <1>3. ASSUME NEW h \in Holder, SelectRow(h) PROVE LeaseTypes'
    BY <1>3 DEF SelectRow
  <1>4. ASSUME NEW h \in Holder, WriteRow(h) PROVE LeaseTypes'
    <2>1. clock[h] + LeaseTTL \in 0 .. MaxNow + LeaseTTL
      OBVIOUS
    <2>2. row' \in LeaseRow /\ granted' \in [Holder -> LeaseTime]
      BY <1>4, <2>1 DEF WriteRow
    <2> QED
      BY <1>4, <2>2 DEF WriteRow
  <1>5. ASSUME NEW h \in Holder, ReleaseRead(h) PROVE LeaseTypes'
    BY <1>5 DEF ReleaseRead
  <1>6. ASSUME NEW h \in Holder, ReleaseDelete(h) PROVE LeaseTypes'
    BY <1>6 DEF ReleaseDelete
  <1>7. CASE UNCHANGED lsVars
    BY <1>7 DEF lsVars
  <1> QED
    BY <1>1, <1>2, <1>3, <1>4, <1>5, <1>6, <1>7 DEF LsNext

\* The clock, the row and what callers take to be granted keep their types (consensus/).
THEOREM LeaseTypeCorrect == LsSpec => []LeasesTypeOK
  <1>1. LeaseTypes => LeasesTypeOK
    BY DEF LeaseTypes
  <1> QED
    BY LeaseTypesInit, LeaseTypesNext, <1>1, PTL DEF LsSpec

-----------------------------------------------------------------------------
(* Exclusion *)

OneProcess == Cardinality({Home[h] : h \in Holder}) = 1

Inside(h) == at[h] \in {"read", "releasing"}

\* In one process: one caller is between its SELECT and its write, it has found the row
\* free, expired or its own, one about to delete the row has given up its lease, and the
\* owner of a live lease finds the row under its name.
OneInside == \A g, h \in Holder : Inside(g) /\ Inside(h) => g = h
ReaderMayWrite ==
    \A h \in Holder : at[h] = "read" => ~ Live(row, clock[h]) \/ row.holder = h
ReleaserGaveUp ==
    \A h \in Holder : at[h] = "releasing" => row.holder = h /\ granted[h] = 0
OwnersRow == \A h \in Holder : Owns(h) => row = [holder |-> h, until |-> granted[h]]

LeaseInv ==
    /\ LeaseTypes
    /\ OneProcess => OneInside /\ ReaderMayWrite /\ ReleaserGaveUp /\ OwnersRow

LEMMA OneHome == OneProcess => \A g, h \in Holder : Home[g] = Home[h]
  <1> DEFINE Homes == {Home[h] : h \in Holder}
  <1>1. IsFiniteSet(Homes)
    <2>1. Home \in Surjection(Holder, Homes)
      BY HolderAssumption DEF Surjection
    <2> QED
      BY <2>1, FS_Surjection, HolderAssumption
  <1>2. ASSUME Cardinality(Homes) = 1 PROVE \E p : Homes = {p}
    BY <1>1, <1>2, FS_Singleton
  <1> QED
    BY <1>2 DEF OneProcess

LEMMA LeaseInvInit == LsInit => LeaseInv
  BY LeaseTypesInit DEF LsInit, LeaseInv, OneInside, ReaderMayWrite, ReleaserGaveUp, OwnersRow,
     Inside, Owns

LEMMA LeaseInvNext == LeaseInv /\ [LsNext]_lsVars => LeaseInv'
  <1> SUFFICES ASSUME LeaseInv, [LsNext]_lsVars, OneProcess
               PROVE  (OneInside /\ ReaderMayWrite /\ ReleaserGaveUp /\ OwnersRow)'
    BY LeaseTypesNext DEF LeaseInv, OneProcess
  <1>1. LeaseTypes /\ LeaseTypes' /\ OneInside /\ ReaderMayWrite /\ ReleaserGaveUp /\ OwnersRow
    BY LeaseTypesNext DEF LeaseInv
  <1>2. \A g, h \in Holder : Home[g] = Home[h]
    BY OneHome
  <1> USE LeaseAssumption DEF LeaseTypes, LeasesTypeOK, LeaseRow, LeaseTime, Inside, Owns, Live
  <1>3. CASE Tick
    BY <1>1, <1>3 DEF Tick, OneInside, ReaderMayWrite, ReleaserGaveUp, OwnersRow
  <1>4. ASSUME NEW h \in Holder, ReadClock(h)
        PROVE  (OneInside /\ ReaderMayWrite /\ ReleaserGaveUp /\ OwnersRow)'
    BY <1>1, <1>4 DEF ReadClock, OneInside, ReaderMayWrite, ReleaserGaveUp, OwnersRow
  <1>5. ASSUME NEW h \in Holder, SelectRow(h)
        PROVE  (OneInside /\ ReaderMayWrite /\ ReleaserGaveUp /\ OwnersRow)'
    <2>1. \A g \in Holder : ~ Inside(g)
      BY <1>2, <1>5 DEF SelectRow, LockFree
    <2> QED
      BY <1>1, <1>5, <2>1 DEF SelectRow, OneInside, ReaderMayWrite, ReleaserGaveUp, OwnersRow
  <1>6. ASSUME NEW h \in Holder, WriteRow(h)
        PROVE  (OneInside /\ ReaderMayWrite /\ ReleaserGaveUp /\ OwnersRow)'
    <2>1. \A g \in Holder \ {h} : ~ Inside(g)
      BY <1>1, <1>6 DEF WriteRow, OneInside
    <2>2. \A g \in Holder \ {h} : ~ Owns(g)
      <3> SUFFICES ASSUME NEW g \in Holder \ {h}, Owns(g) PROVE FALSE
        OBVIOUS
      <3>1. row.holder = g /\ row.until > clock[h]
        BY <1>1 DEF OwnersRow
      <3> QED
        BY <1>1, <1>6, <3>1 DEF WriteRow, ReaderMayWrite
    <2>3. OwnersRow'
      BY <1>1, <1>6, <2>2 DEF WriteRow, OwnersRow
    <2> QED
      BY <1>1, <1>6, <2>1, <2>3 DEF WriteRow, OneInside, ReaderMayWrite, ReleaserGaveUp
  <1>7. ASSUME NEW h \in Holder, ReleaseRead(h)
        PROVE  (OneInside /\ ReaderMayWrite /\ ReleaserGaveUp /\ OwnersRow)'
    <2>1. \A g \in Holder : ~ Inside(g)
      BY <1>2, <1>7 DEF ReleaseRead, LockFree
    <2> QED
      BY <1>1, <1>7, <2>1 DEF ReleaseRead, OneInside, ReaderMayWrite, ReleaserGaveUp, OwnersRow
  <1>8. ASSUME NEW h \in Holder, ReleaseDelete(h)
        PROVE  (OneInside /\ ReaderMayWrite /\ ReleaserGaveUp /\ OwnersRow)'
    <2>1. \A g \in Holder \ {h} : ~ Inside(g)
      BY <1>1, <1>8 DEF ReleaseDelete, OneInside
    <2>2. \A g \in Holder : ~ Owns(g)
      BY <1>1, <1>8 DEF ReleaseDelete, ReleaserGaveUp, OwnersRow
    <2> QED
      BY <1>1, <1>8, <2>1, <2>2
         DEF ReleaseDelete, OneInside, ReaderMayWrite, ReleaserGaveUp, OwnersRow
  <1>9. CASE UNCHANGED lsVars
    BY <1>1, <1>9 DEF lsVars, OneInside, ReaderMayWrite, ReleaserGaveUp, OwnersRow
  <1> QED
    BY <1>3, <1>4, <1>5, <1>6, <1>7, <1>8, <1>9 DEF LsNext

\* Of the callers of one process at most one has a lease that has not expired
\* (DistributedLock.acquire, LeaderElection.try_acquire, GlobalConsensus.acquire_lock).
THEOREM LeasesAreExclusive == LsSpec => []LeaseExclusive
  <1>1. LeaseInv => LeaseExclusive
    BY DEF LeaseInv, LeaseExclusive, OneProcess, OwnersRow
  <1> QED
    BY LeaseInvInit, LeaseInvNext, <1>1, PTL DEF LsSpec

-----------------------------------------------------------------------------
(* Types of the other components *)

\* The history and the count of approvals, which the votes do not depend on.
DeHistory == completed \in Seq(Proposal) /\ approvals \in Nat

LEMMA DeHistoryInit == DeInit => DeHistory
  <1> SUFFICES ASSUME DeInit PROVE DeHistory
    OBVIOUS
  <1> QED
    BY DEF DeInit, DeHistory

LEMMA DeHistoryNext == DeInv /\ DeHistory /\ [DeNext]_deVars => DeHistory'
  <1> SUFFICES ASSUME DeInv, DeHistory, [DeNext]_deVars PROVE DeHistory'
    OBVIOUS
  <1>1. ASSUME NEW i \in Pid, active[i] # NoProposal, Finalize(i) PROVE completed' \in Seq(Proposal)
    <2>1. active[i] \in Proposal /\ completed \in Seq(Proposal)
      BY <1>1 DEF DeInv, DeTables, DeHistory
    <2> DEFINE all == Append(completed, active[i])
               m == IF Len(all) > KeptHistory THEN Len(all) - KeptHistory + 1 ELSE 1
    <2>2. all \in Seq(Proposal) /\ Len(all) \in Nat
      BY <2>1
    <2>3. completed' = SubSeq(all, m, Len(all))
      BY <1>1 DEF Finalize
    <2> HIDE DEF all
    <2>4. m \in Nat \ {0}
      BY <2>2, QuorumAssumption
    <2> HIDE DEF m
    <2>5. \A k \in m .. Len(all) : k \in 1 .. Len(all)
      BY <2>2, <2>4
    <2> QED
      BY <2>2, <2>3, <2>4, <2>5
  <1>2. ASSUME NEW i \in Pid, NEW yes \in BOOLEAN, Vote(i, yes) PROVE DeHistory'
    <2>1. active[i] # NoProposal /\ Judge(active[i])
      BY <1>2 DEF Vote
    <2>2. active[i] \in Proposal /\ IdOf[active[i]] = i
      BY <2>1 DEF DeInv, DeTables, ActiveIsOpen
    <2>3. CASE Approve(active[i]) /\ UNCHANGED <<active, completed>>
      BY <2>3 DEF Approve, DeHistory
    <2>4. CASE Finalize(i) /\ UNCHANGED approvals
      BY <1>1, <2>1, <2>4 DEF DeHistory
    <2>5. CASE UNCHANGED <<status, approvals, active, completed>>
      BY <2>5 DEF DeHistory
    <2> QED
      BY <2>1, <2>2, <2>3, <2>4, <2>5 DEF Judge
  <1>3. ASSUME NEW i \in Pid, NEW yes \in BOOLEAN, Complete(i, yes) PROVE DeHistory'
    BY <1>1, <1>3 DEF Complete, DeHistory
  <1>4. CASE UNCHANGED deVars
    BY <1>4 DEF deVars, DeHistory
  <1>5. ASSUME NEW o \in Proposal, Propose(o) PROVE DeHistory'
    BY <1>5 DEF Propose, DeHistory
  <1>6. ASSUME NEW i \in Pid, AutoApprove(i) \/ Execute(i) PROVE DeHistory'
    BY <1>6 DEF AutoApprove, Execute, Approve, DeHistory
  <1> QED
    BY <1>2, <1>3, <1>4, <1>5, <1>6 DEF DeNext

LEMMA CmInvType == CmInv => ConsensusMeshTypeOK
  BY DEF CmInv, BallotInv, MembersInv, OneMeshLeader, Registered, ConsensusMeshTypeOK

ToldIsReport == told \in Reported

LEMMA ToldHolds == (ZnInit => ToldIsReport) /\ (ToldIsReport /\ [ZnNext]_znVars => ToldIsReport')
  <1>1. NoReport \in Reported
    <2>1. NoReport \in [{} -> BOOLEAN]
      BY DEF NoReport
    <2> QED
      BY <2>1 DEF Reported
  <1> QED
    BY <1>1 DEF ZnInit, ZnNext, znVars, ToldIsReport, RegisterZone, RemoveZone, UpdateZoneStatus,
                UpdateFromTelemetry

AccessesAreBounded ==
    added \in 0 .. MaxReplicaAdds /\ \A r \in ReplicaRegion : accesses[r] <= MaxAccesses

LEMMA AccessesInit == MrInit => AccessesAreBounded
  BY ModelReplicasAssumption DEF MrInit, AccessesAreBounded

LEMMA AccessesNext == MrInv /\ AccessesAreBounded /\ [MrNext]_mrVars => AccessesAreBounded'
  <1> SUFFICES ASSUME MrInv, AccessesAreBounded, [MrNext]_mrVars PROVE AccessesAreBounded'
    OBVIOUS
  <1>1. accesses \in [ReplicaRegion -> Nat] /\ MaxAccesses \in Nat /\ MaxReplicaAdds \in Nat
    BY ModelReplicasAssumption DEF MrInv
  <1>2. ASSUME NEW r \in ReplicaRegion, NEW given \in Given, AddReplica(r, given)
        PROVE  AccessesAreBounded'
    BY <1>1, <1>2 DEF AddReplica, AccessesAreBounded
  <1>3. ASSUME NEW w \in Writer, NEW r \in ReplicaRegion, ReadForAccess(w, r) PROVE AccessesAreBounded'
    BY <1>1, <1>3 DEF ReadForAccess, AccessesAreBounded
  <1>4. CASE UNCHANGED <<added, accesses>>
    BY <1>4 DEF AccessesAreBounded
  <1> QED
    BY <1>2, <1>3, <1>4 DEF MrNext, RemoveReplica, ReadForState, WriteReplica, mrVars

LEMMA ReplicasType == MrInv /\ AccessesAreBounded => ModelReplicasTypeOK
  <1> SUFFICES ASSUME MrInv, AccessesAreBounded PROVE ModelReplicasTypeOK
    OBVIOUS
  <1>1. /\ accesses \in [ReplicaRegion -> Nat] /\ MaxAccesses \in Nat
        /\ \A r \in ReplicaRegion : accesses[r] <= MaxAccesses
    BY ModelReplicasAssumption DEF MrInv, AccessesAreBounded
  <1>2. accesses \in [ReplicaRegion -> 0 .. MaxAccesses]
    BY <1>1
  <1> QED
    BY <1>2 DEF MrInv, ModelReplicasTypeOK, AccessesAreBounded

LEMMA GraphTypeHolds ==
    (FgInit => FabricGraphTypeOK) /\ (FabricGraphTypeOK /\ [FgNext]_fgVars => FabricGraphTypeOK')
  <1>1. FgInit => FabricGraphTypeOK
    BY DEF FgInit, FabricGraphTypeOK
  <1>2. ASSUME FabricGraphTypeOK, [FgNext]_fgVars PROVE FabricGraphTypeOK'
    <2>1. ASSUME NEW n \in GraphNode, AddNode(n) PROVE FabricGraphTypeOK'
      BY <1>2, <2>1 DEF AddNode, FabricGraphTypeOK
    <2>2. ASSUME NEW n \in GraphNode, RemoveGraphNode(n) PROVE FabricGraphTypeOK'
      BY <1>2, <2>2 DEF RemoveGraphNode, FabricGraphTypeOK
    <2>3. ASSUME NEW k \in Wire, NEW link \in LinkKind, AddLink(k, link) PROVE FabricGraphTypeOK'
      <3>1. k \in Key_ /\ k[1] \in GraphNode /\ k[2] \in GraphNode
        BY FabricGraphAssumption DEF Key_
      <3> QED
        BY <1>2, <2>3, <3>1 DEF AddLink, FabricGraphTypeOK
    <2> QED
      BY <1>2, <2>1, <2>2, <2>3 DEF FgNext, fgVars, FabricGraphTypeOK
  <1> QED
    BY <1>1, <1>2

\* The adjacency follows the links: remove_node finds every link of a node through its
\* neighbours because the adjacency is symmetric.
LEMMA AdjacencyInit == FgInit => LinksAreAdjacent
  BY DEF FgInit, LinksAreAdjacent, Key_

LEMMA AdjacencyNext == FabricGraphTypeOK /\ LinksAreAdjacent /\ [FgNext]_fgVars => LinksAreAdjacent'
  <1> SUFFICES ASSUME FabricGraphTypeOK, LinksAreAdjacent, [FgNext]_fgVars PROVE LinksAreAdjacent'
    OBVIOUS
  <1>1. /\ links \in [Key_ -> LinkKind \cup {NoLink}] /\ adjacency \in [GraphNode -> SUBSET GraphNode]
        /\ \A a, b \in GraphNode : <<a, b>> \in Key_
        /\ \A a, b \in GraphNode :
              b \in adjacency[a] <=> (links[<<a, b>>] # NoLink \/ links[<<b, a>>] # NoLink)
    BY DEF FabricGraphTypeOK, LinksAreAdjacent, Key_
  <1>2. ASSUME NEW n \in GraphNode, RemoveGraphNode(n) PROVE LinksAreAdjacent'
    <2>1. /\ adjacency' = [m \in GraphNode |->
                IF m = n THEN {} ELSE IF m \in adjacency[n] THEN adjacency[m] \ {n} ELSE adjacency[m]]
          /\ links' = [k \in Key_ |-> IF \E m \in adjacency[n] : k \in {<<n, m>>, <<m, n>>}
                                      THEN NoLink ELSE links[k]]
      BY <1>2 DEF RemoveGraphNode
    <2>2. ASSUME NEW a \in GraphNode, NEW b \in GraphNode
          PROVE  links'[<<a, b>>] = IF (a = n /\ b \in adjacency[n]) \/ (b = n /\ a \in adjacency[n])
                                    THEN NoLink ELSE links[<<a, b>>]
      <3>1. (\E m \in adjacency[n] : <<a, b>> \in {<<n, m>>, <<m, n>>})
            <=> (a = n /\ b \in adjacency[n]) \/ (b = n /\ a \in adjacency[n])
        OBVIOUS
      <3> QED
        BY <1>1, <2>1, <3>1
    <2>3. \A a, b \in GraphNode : a \in adjacency[b] <=> b \in adjacency[a]
      BY <1>1
    <2>4. \A a, b \in GraphNode : b \in adjacency'[a] <=> b \in adjacency[a] /\ a # n /\ b # n
      BY <1>1, <2>1, <2>3
    <2>5. ASSUME NEW a \in GraphNode, NEW b \in GraphNode
          PROVE  b \in adjacency'[a] <=> (links'[<<a, b>>] # NoLink \/ links'[<<b, a>>] # NoLink)
      <3>1. CASE a # n /\ b # n
        BY <1>1, <2>2, <2>4, <3>1
      <3>2. CASE a = n
        BY <1>1, <2>2, <2>3, <2>4, <3>2
      <3>3. CASE b = n
        BY <1>1, <2>2, <2>3, <2>4, <3>3
      <3> QED
        BY <3>1, <3>2, <3>3
    <2> QED
      BY <2>5 DEF LinksAreAdjacent
  <1>3. ASSUME NEW k \in Wire, NEW link \in LinkKind, AddLink(k, link) PROVE LinksAreAdjacent'
    <2>1. PICK c \in GraphNode, d \in GraphNode : k = <<c, d>>
      BY FabricGraphAssumption
    <2>2. link # NoLink /\ k \in Key_
      BY <1>1, <2>1, FabricGraphAssumption
    <2>3. ASSUME NEW a \in GraphNode, NEW b \in GraphNode
          PROVE  /\ links'[<<a, b>>] = IF a = c /\ b = d THEN link ELSE links[<<a, b>>]
                 /\ b \in adjacency'[a] <=> \/ b \in adjacency[a]
                                            \/ a = c /\ b = d
                                            \/ a = d /\ b = c
      BY <1>1, <1>3, <2>1, <2>2 DEF AddLink
    <2>4. ASSUME NEW a \in GraphNode, NEW b \in GraphNode
          PROVE  b \in adjacency'[a] <=> (links'[<<a, b>>] # NoLink \/ links'[<<b, a>>] # NoLink)
      BY <1>1, <2>2, <2>3
    <2> QED
      BY <2>4 DEF LinksAreAdjacent
  <1>4. CASE UNCHANGED <<links, adjacency>>
    BY <1>4 DEF LinksAreAdjacent
  <1> QED
    BY <1>2, <1>3, <1>4 DEF FgNext, AddNode, fgVars

LEMMA TopologyTypeHolds ==
    (ToInit => TopologyTypeOK) /\ (TopologyTypeOK /\ [ToNext]_cables => TopologyTypeOK')
  BY DEF ToInit, TopologyTypeOK, ToNext, UpdateLink, RemoveLink

LEMMA PlacementTypeHolds ==
    (PlInit => PlacementTypeOK) /\ (PlacementTypeOK /\ [PlNext]_plVars => PlacementTypeOK')
  <1>1. PlInit => PlacementTypeOK
    <2>1. (CHOOSE o \in Offer : o.status = "active") \in Offer
      BY PlacementAssumption
    <2> QED
      BY <2>1 DEF PlInit, PlacementTypeOK
  <1> QED
    BY <1>1 DEF PlacementTypeOK, PlNext, OfferChanges, MeasuredChanges, plVars

\* The incremental replicator: the loop has a position, and as many callers are between the
\* test and the append of add_peer as have called it.
PeersInv == position # 0 /\ \A p \in Peer : adding[p] <= peerChanges

LEMMA PeersInit == PrInit => PeerReplicationTypeOK /\ PeersInv
  <1> SUFFICES ASSUME PrInit PROVE PeerReplicationTypeOK /\ PeersInv
    OBVIOUS
  <1>1. <<>> \in Seq(1 .. MaxEntries) /\ 0 \in 0 .. MaxEntries /\ 0 \in 0 .. MaxPeerChanges
    BY PeerBoundAssumption
  <1>2. peerList \in Seq(Peer)
    <2>1. Cardinality(Peer) \in Nat
      BY PeerAssumption, FS_CardinalityType
    <2>2. PICK n \in 0 .. Cardinality(Peer) : peerList \in [1 .. n -> Peer]
      BY DEF PrInit
    <2>3. n \in Nat
      BY <2>1
    <2> QED
      BY <2>2, <2>3
  <1>3. entries \in 0 .. MaxEntries /\ outbound \in Seq(1 .. MaxEntries) /\ sending \in Seq(1 .. MaxEntries)
    BY <1>1 DEF PrInit
  <1>4. /\ checkpoint \in [Peer -> 0 .. MaxEntries] /\ arrived \in [Peer -> Seq(1 .. MaxEntries)]
        /\ peerChanges \in 0 .. MaxPeerChanges /\ adding \in [Peer -> 0 .. MaxPeerChanges]
    BY <1>1 DEF PrInit
  <1>5. thread \in {"none", "waiting", "sending"} /\ stopping \in BOOLEAN /\ sendFn \in BOOLEAN
    BY DEF PrInit
  <1>6. position \in Nat /\ PeersInv
    <2>1. position = 1 /\ peerChanges = 0 /\ adding = [p \in Peer |-> 0]
      BY DEF PrInit
    <2> QED
      BY <2>1 DEF PeersInv
  <1> QED
    BY <1>2, <1>3, <1>4, <1>5, <1>6 DEF PeerReplicationTypeOK

LEMMA PeersNext ==
    ASSUME PrInv, PeerReplicationTypeOK, PeersInv, [PrNext]_prVars
    PROVE  PeerReplicationTypeOK' /\ PeersInv'
  <1> DEFINE E == 1 .. MaxEntries
             QueuesOK == /\ entries \in 0 .. MaxEntries /\ outbound \in Seq(E) /\ sending \in Seq(E)
                         /\ checkpoint \in [Peer -> 0 .. MaxEntries] /\ arrived \in [Peer -> Seq(E)]
             ThreadOK == /\ thread \in {"none", "waiting", "sending"} /\ stopping \in BOOLEAN
                         /\ position \in Nat /\ position # 0 /\ peerChanges \in 0 .. MaxPeerChanges
                         /\ sendFn \in BOOLEAN
             ListOK == /\ peerList \in Seq(Peer) /\ adding \in [Peer -> 0 .. MaxPeerChanges]
                       /\ \A q \in Peer : adding[q] <= peerChanges
  <1>1. QueuesOK /\ ThreadOK /\ ListOK /\ MaxEntries \in Nat /\ MaxPeerChanges \in Nat
    BY PeerBoundAssumption DEF PeerReplicationTypeOK, PeersInv
  <1>2. ASSUME QueuesOK', ThreadOK', ListOK' PROVE PeerReplicationTypeOK' /\ PeersInv'
    BY <1>2 DEF PeerReplicationTypeOK, PeersInv
  <1>3. ASSUME PeerChange
        PROVE  /\ peerChanges' \in 0 .. MaxPeerChanges /\ peerChanges' = peerChanges + 1
               /\ \A q \in Peer : adding[q] <= peerChanges'
    BY <1>1, <1>3 DEF PeerChange
  <1>4. CASE StartReplicator \/ StopReplicator
    <2>1. /\ UNCHANGED <<sendFn, adding, entries, outbound, peerList, sending, position, checkpoint,
                          arrived>>
          /\ PeerChange
      BY <1>4 DEF StartReplicator, StopReplicator
    <2>2. thread' \in {"none", "waiting", "sending"} /\ stopping' \in BOOLEAN
      BY <1>1, <1>4 DEF StartReplicator, StopReplicator
    <2> QED
      BY <1>1, <1>2, <1>3, <2>1, <2>2
  <1>5. CASE ThreadEnds \/ FlushEnds
    <2>1. <<>> \in Seq(E)
      OBVIOUS
    <2>2. /\ UNCHANGED <<sendFn, adding, entries, outbound, peerList, stopping, position, checkpoint,
                          arrived, peerChanges>>
          /\ thread' \in {"none", "waiting"} /\ sending' \in {sending, <<>>}
      BY <1>5 DEF ThreadEnds, FlushEnds
    <2> QED
      BY <1>1, <1>2, <2>1, <2>2
  <1>6. CASE EnqueueEntry
    <2>1. /\ UNCHANGED <<sendFn, adding, peerList, thread, stopping, sending, position, checkpoint,
                          arrived, peerChanges>>
          /\ entries < MaxEntries /\ entries' = entries + 1 /\ outbound' = Append(outbound, entries + 1)
      BY <1>6 DEF EnqueueEntry
    <2>2. entries' \in 0 .. MaxEntries /\ entries + 1 \in E
      BY <1>1, <2>1
    <2>3. outbound' \in Seq(E)
      <3> HIDE DEF E
      <3> QED
        BY <1>1, <2>1, <2>2
    <2> QED
      BY <1>1, <1>2, <2>1, <2>2, <2>3
  <1>7. CASE TakeBatch
    <2> DEFINE n == IF Len(outbound) < BatchSize THEN Len(outbound) ELSE BatchSize
    <2>1. /\ UNCHANGED <<sendFn, adding, entries, peerList, stopping, checkpoint, arrived, peerChanges>>
          /\ thread' = "sending" /\ position' = 1
          /\ sending' = SubSeq(outbound, 1, n) /\ outbound' = SubSeq(outbound, n + 1, Len(outbound))
      BY <1>7 DEF TakeBatch
    <2>2. Len(outbound) \in Nat /\ n \in 0 .. Len(outbound)
      BY <1>1, PeerAssumption
    <2> HIDE DEF n, E
    <2>3. \A k \in 1 .. n : k \in 1 .. Len(outbound)
      BY <2>2
    <2>4. \A k \in n + 1 .. Len(outbound) : k \in 1 .. Len(outbound)
      BY <2>2
    <2>5. sending' \in Seq(E) /\ outbound' \in Seq(E)
      BY <1>1, <2>1, <2>2, <2>3, <2>4
    <2> QED
      BY <1>1, <1>2, <2>1, <2>5 DEF E
  <1>8. CASE SendBatch
    <2> DEFINE p == peerList[position]
    <2>1. /\ UNCHANGED <<sendFn, adding, entries, outbound, peerList, thread, stopping, sending,
                          peerChanges>>
          /\ thread = "sending" /\ position <= Len(peerList) /\ position' = position + 1
          /\ arrived' = [arrived EXCEPT ![p] = @ \o sending] \/ UNCHANGED arrived
          /\ \/ checkpoint' = [checkpoint EXCEPT ![p] = IF @ < Last(sending) THEN Last(sending) ELSE @]
             \/ UNCHANGED checkpoint
      BY <1>8 DEF SendBatch, BatchArrives, Confirmed
    <2>2. p \in Peer
      BY <1>1, <2>1
    <2>3. sending # <<>>
      BY <2>1 DEF PrInv, PrTables
    <2>4. Last(sending) \in 0 .. MaxEntries
      <3>1. Len(sending) \in 1 .. Len(sending)
        BY <1>1, <2>3
      <3>2. sending[Len(sending)] \in E
        <4> HIDE DEF E
        <4> QED
          BY <1>1, <3>1
      <3> QED
        BY <1>1, <3>2 DEF Last
    <2>5. arrived[p] \o sending \in Seq(E)
      <3> HIDE DEF E, p
      <3> QED
        BY <1>1, <2>2
    <2> HIDE DEF p, E
    <2>6. arrived' \in [Peer -> Seq(E)] /\ checkpoint' \in [Peer -> 0 .. MaxEntries]
      BY <1>1, <2>1, <2>2, <2>4, <2>5
    <2>7. position' \in Nat /\ position' # 0
      BY <1>1, <2>1
    <2> QED
      BY <1>1, <1>2, <2>1, <2>6, <2>7 DEF E
  <1>9. ASSUME NEW p \in Peer, FindNoPeer(p) PROVE PeerReplicationTypeOK' /\ PeersInv'
    <2>1. /\ UNCHANGED <<sendFn, entries, outbound, peerList, thread, stopping, sending, position,
                          checkpoint, arrived>>
          /\ PeerChange /\ adding' = [adding EXCEPT ![p] = @ + 1]
      BY <1>9 DEF FindNoPeer
    <2>2. adding[p] + 1 \in 0 .. MaxPeerChanges /\ adding[p] + 1 <= peerChanges'
      BY <1>1, <1>3, <2>1
    <2>3. adding' \in [Peer -> 0 .. MaxPeerChanges] /\ \A q \in Peer : adding'[q] <= peerChanges'
      BY <1>1, <1>3, <2>1, <2>2
    <2> QED
      BY <1>1, <1>2, <1>3, <2>1, <2>3
  <1>10. ASSUME NEW p \in Peer, AddPeer(p) PROVE PeerReplicationTypeOK' /\ PeersInv'
    <2>1. /\ UNCHANGED <<sendFn, entries, outbound, thread, stopping, sending, position, checkpoint,
                          arrived, peerChanges>>
          /\ peerList' = Append(peerList, p) /\ adding[p] > 0 /\ adding' = [adding EXCEPT ![p] = @ - 1]
      BY <1>10 DEF AddPeer
    <2>2. adding[p] - 1 \in 0 .. MaxPeerChanges /\ adding[p] - 1 <= peerChanges
      BY <1>1, <2>1
    <2>3. adding' \in [Peer -> 0 .. MaxPeerChanges] /\ \A q \in Peer : adding'[q] <= peerChanges
      BY <1>1, <2>1, <2>2
    <2>4. peerList' \in Seq(Peer)
      BY <1>1, <2>1
    <2> QED
      BY <1>1, <1>2, <2>1, <2>3, <2>4
  <1>11. ASSUME NEW p \in Peer, RemovePeer(p) PROVE PeerReplicationTypeOK' /\ PeersInv'
    <2>1. /\ UNCHANGED <<sendFn, adding, entries, outbound, thread, stopping, sending, position,
                          checkpoint, arrived>>
          /\ PeerChange
      BY <1>11 DEF RemovePeer
    <2>2. PICK k \in DOMAIN peerList : peerList' = RemoveAt(peerList, k)
      BY <1>11 DEF RemovePeer
    <2>3. /\ k \in 1 .. Len(peerList) /\ Len(peerList) \in Nat /\ peerList \in Seq(Peer)
          /\ peerList' = SubSeq(peerList, 1, k - 1) \o SubSeq(peerList, k + 1, Len(peerList))
      <3>1. peerList \in Seq(Peer)
        BY <1>1
      <3>2. DOMAIN peerList = 1 .. Len(peerList) /\ Len(peerList) \in Nat
        BY <3>1
      <3> QED
        BY <2>2, <3>1, <3>2 DEF RemoveAt
    <2>4. /\ \A i \in 1 .. k - 1 : i \in 1 .. Len(peerList)
          /\ \A i \in k + 1 .. Len(peerList) : i \in 1 .. Len(peerList)
          /\ k - 1 \in Int /\ k + 1 \in Int /\ 1 \in Int
      BY <2>3
    <2>5. SubSeq(peerList, 1, k - 1) \in Seq(Peer) /\ SubSeq(peerList, k + 1, Len(peerList)) \in Seq(Peer)
      BY <2>3, <2>4
    <2>6. peerList' \in Seq(Peer)
      BY <2>3, <2>5
    <2> QED
      BY <1>1, <1>2, <1>3, <2>1, <2>6
  <1>12. CASE UNCHANGED prVars
    BY <1>1, <1>2, <1>12 DEF prVars
  <1> QED
    BY <1>4, <1>5, <1>6, <1>7, <1>8, <1>9, <1>10, <1>11, <1>12 DEF PrNext

-----------------------------------------------------------------------------
(* The routers and the planetary scheduler's filter *)

\* A list of candidates that is not empty has a best one.
LEMMA BestExists ==
    ASSUME NEW C \in SUBSET Depot, NEW s \in [C -> Int]
    PROVE  /\ Best(s) \subseteq C /\ (C # {} => Best(s) # {})
           /\ \A d \in Best(s), e \in C : s[e] <= s[d]
  <1>1. IsFiniteSet(C)
    BY PlacementAssumption, FS_Subset
  <1>2. ASSUME C # {} PROVE \E d \in C : \A e \in C : s[e] <= s[d]
    BY <1>1, <1>2, GreatestExists
  <1> QED
    BY <1>2 DEF Best

LEMMA ScoreParts ==
    ASSUME PlacementTypeOK, NEW d \in Depot
    PROVE  /\ offers[d].saturation \in 0 .. 100 /\ offers[d].latency \in Nat
           /\ offers[d].capacity \in Nat /\ offers[d].vram \in Nat /\ offers[d].gpus \in Nat
           /\ offers[d].edge \in BOOLEAN /\ offers[d].typed \in BOOLEAN
           /\ offers[d].status \in {"active", "degraded", "draining", "offline"}
           /\ FreeShare(offers[d]) \in Nat /\ LatencyScore(d) \in Nat
           /\ (IF offers[d].latency > 0 THEN Percent(offers[d].latency) ELSE 70) \in Nat
  <1>1. offers[d] \in OfferType
    BY PlacementAssumption DEF PlacementTypeOK
  <1>2. /\ offers[d].saturation \in 0 .. 100 /\ offers[d].latency \in Nat
        /\ offers[d].capacity \in Nat /\ offers[d].vram \in Nat
        /\ offers[d].gpus \in Nat /\ offers[d].freeGpus \in Nat
        /\ offers[d].edge \in BOOLEAN /\ offers[d].typed \in BOOLEAN
        /\ offers[d].status \in {"active", "degraded", "draining", "offline"}
    BY <1>1 DEF OfferType
  <1>3. FreeShare(offers[d]) \in Nat
    <2>1. ASSUME NEW n \in Nat, NEW k \in Nat, k # 0 PROVE n \div k \in Nat
      BY <2>1
    <2>2. 100 * offers[d].freeGpus \in Nat
      BY <1>2
    <2> QED
      BY <1>2, <2>1, <2>2 DEF FreeShare
  <1>4. \A n \in Nat : Percent(n) \in Nat
    BY DEF Percent, AtLeast0
  <1>5. measured[d] # Unmeasured => measured[d] \in Nat
    BY PlacementAssumption DEF PlacementTypeOK
  <1>6. LatencyScore(d) \in Nat
    BY <1>2, <1>4, <1>5 DEF LatencyScore
  <1> QED
    BY <1>2, <1>3, <1>4, <1>6

\* What a region has for a request counts no less when it has more of everything.
LEMMA GpuScoreIsFair ==
    ASSUME PlacementTypeOK, NEW ask \in Ask, NEW d \in Depot, NEW e \in Depot
    PROVE  /\ GpuScore(ask, offers[d]) \in Nat
           /\ AtLeastAsGood(ask, e, d) /\ (ask.gpu => offers[e].freeGpus > 0)
                 => GpuScore(ask, offers[d]) <= GpuScore(ask, offers[e])
  <1> DEFINE typed(x) == IF ask.type /\ offers[x].typed THEN 10 ELSE 0
             twice(x) == IF ask.vram > 0 /\ offers[x].vram >= 2 * ask.vram THEN 10 ELSE 0
             share(x) == FreeShare(offers[x])
  <1>1. ask.vram \in Nat /\ ask.gpu \in BOOLEAN /\ ask.type \in BOOLEAN
    BY PlacementAssumption DEF AskType
  <1>2. \A x \in {d, e} : /\ share(x) \in Nat /\ typed(x) \in Nat /\ twice(x) \in Nat
                          /\ offers[x].vram \in Nat
    BY ScoreParts
  <1>3. \A x \in {d, e} : GpuScore(ask, offers[x]) =
            IF ~ ask.gpu THEN 50
            ELSE IF offers[x].gpus = 0 THEN 0 ELSE AtMost100(share(x) + typed(x) + twice(x))
    BY <1>1 DEF GpuScore
  <1>4. AtLeastAsGood(ask, e, d)
          => share(d) <= share(e) /\ typed(d) <= typed(e) /\ twice(d) <= twice(e)
    <2> SUFFICES ASSUME AtLeastAsGood(ask, e, d)
                 PROVE  share(d) <= share(e) /\ typed(d) <= typed(e) /\ twice(d) <= twice(e)
      OBVIOUS
    <2>1. /\ share(e) >= share(d) /\ offers[e].vram >= offers[d].vram
          /\ offers[d].typed => offers[e].typed
      BY DEF AtLeastAsGood
    <2>2. share(d) <= share(e)
      <3> HIDE DEF share
      <3> QED
        BY <1>2, <2>1
    <2>3. typed(d) <= typed(e)
      BY <2>1
    <2>4. twice(d) <= twice(e)
      BY <1>1, <1>2, <2>1
    <2> QED
      BY <2>2, <2>3, <2>4
  <1> HIDE DEF share, typed, twice
  <1>5. \A x \in {d, e} : AtMost100(share(x) + typed(x) + twice(x)) \in Nat
    BY <1>2 DEF AtMost100
  <1>6. AtLeastAsGood(ask, e, d)
          => AtMost100(share(d) + typed(d) + twice(d)) <= AtMost100(share(e) + typed(e) + twice(e))
    BY <1>2, <1>4 DEF AtMost100
  <1>7. offers[e].freeGpus > 0 => offers[e].gpus # 0
    <2>1. offers[e] \in Offer /\ offers[e].freeGpus <= offers[e].gpus /\ offers[e] \in OfferType
      BY PlacementAssumption DEF PlacementTypeOK
    <2>2. offers[e].freeGpus \in Nat /\ offers[e].gpus \in Nat
      BY <2>1 DEF OfferType
    <2> QED
      BY <2>1, <2>2
  <1> QED
    BY <1>3, <1>5, <1>6, <1>7

\* Of two regions that serve, the better and less loaded one scores higher.
LEMMA PenaltyIsFair ==
    ASSUME NEW x, NEW y, NEW m \in Nat, NEW n \in Nat, n < m,
           x.status \in {"active", "degraded"}, y.status \in {"active", "degraded"},
           y.status = "active" => x.status = "active"
    PROVE  Penalty(y, n) < Penalty(x, m)
  BY DEF Penalty

LEMMA PenaltyIsInt == ASSUME NEW x, NEW n \in Nat PROVE Penalty(x, n) \in Int
  BY DEF Penalty

\* The sums that the two scores weigh, part by part.
LEMMA ScoresAreSums ==
    ASSUME PlacementTypeOK, NEW ask \in Ask, NEW d \in Depot, NEW e \in Depot,
           ask.gpu => offers[e].freeGpus > 0
    PROVE  \E m, n \in Nat, k, l \in Nat :
              /\ GlobalScore(ask, d) = Penalty(offers[d], m) /\ GlobalScore(ask, e) = Penalty(offers[e], n)
              /\ PlacementScore(ask, d) = Penalty(offers[d], k)
              /\ PlacementScore(ask, e) = Penalty(offers[e], l)
              /\ AtLeastAsGood(ask, e, d) /\ offers[e].saturation < offers[d].saturation => m < n /\ k < l
  <1> DEFINE share(x) == FreeShare(offers[x])
             late(x) == LatencyScore(x)
             lat(x) == IF offers[x].latency > 0 THEN Percent(offers[x].latency) ELSE 70
             gpu(x) == GpuScore(ask, offers[x])
             full(x) == AtMost100(offers[x].capacity)
             used(x) == (80 * offers[x].saturation) \div 100
             room(x) == 100 - offers[x].saturation
             edgeA(x) == IF offers[x].edge THEN 1000 ELSE 500
             edgeB(x) == IF offers[x].edge THEN 800 ELSE 400
             likeA(x) == IF x \in ask.prefers THEN 1500 ELSE 0
             likeB(x) == IF x \in ask.prefers THEN 1000 ELSE 0
             has(x) == IF x \in ask.local THEN 2000 ELSE 0
             a(x) == 30 * late(x) + 25 * room(x) + 20 * share(x)
                       + 15 * (100 - used(x)) + edgeA(x) + likeA(x) + has(x)
             b(x) == 18 * room(x) + 12 * full(x) + 25 * lat(x) + 25 * gpu(x)
                       + edgeB(x) + 12 * room(x) + likeB(x)
  <1>1. \A x \in {d, e} : /\ offers[x].saturation \in 0 .. 100 /\ share(x) \in Nat
                          /\ late(x) \in Nat /\ lat(x) \in Nat
    BY ScoreParts
  <1>2. \A x \in {d, e} : /\ GlobalScore(ask, x) = Penalty(offers[x], a(x))
                          /\ PlacementScore(ask, x) = Penalty(offers[x], b(x))
    BY DEF GlobalScore, PlacementScore
  <1>3. \A x \in {d, e} : /\ edgeA(x) \in Nat /\ edgeB(x) \in Nat
                          /\ likeA(x) \in Nat /\ likeB(x) \in Nat /\ has(x) \in Nat
    OBVIOUS
  <1>4. \A x \in {d, e} : gpu(x) \in Nat /\ room(x) \in Nat /\ full(x) \in Nat
    <2>1. \A x \in {d, e} : gpu(x) \in Nat
      BY GpuScoreIsFair
    <2>2. \A x \in {d, e} : room(x) \in Nat /\ full(x) \in Nat
      BY ScoreParts DEF AtMost100
    <2> QED
      BY <2>1, <2>2
  <1>5. \A x \in {d, e} : used(x) \in 0 .. 80
    <2>1. \A n \in 0 .. 100 : (80 * n) \div 100 \in 0 .. 80
      OBVIOUS
    <2> QED
      BY <1>1, <2>1
  <1>6. ASSUME AtLeastAsGood(ask, e, d), offers[e].saturation < offers[d].saturation
        PROVE  /\ share(d) <= share(e) /\ late(d) = late(e) /\ lat(d) = lat(e) /\ gpu(d) <= gpu(e)
               /\ full(d) <= full(e)
               /\ room(d) < room(e) /\ used(e) <= used(d)
               /\ edgeA(d) <= edgeA(e) /\ edgeB(d) <= edgeB(e)
               /\ likeA(d) <= likeA(e) /\ likeB(d) <= likeB(e) /\ has(d) <= has(e)
    <2>1. share(d) <= share(e) /\ late(d) = late(e) /\ lat(d) = lat(e)
      BY <1>6 DEF AtLeastAsGood, LatencyScore
    <2>2. gpu(d) <= gpu(e) /\ full(d) <= full(e)
      <3>1. gpu(d) <= gpu(e)
        BY <1>6, GpuScoreIsFair
      <3>2. /\ offers[e].capacity >= offers[d].capacity
            /\ offers[e].capacity \in Nat /\ offers[d].capacity \in Nat
        BY <1>6, ScoreParts DEF AtLeastAsGood
      <3>3. full(d) <= full(e)
        BY <3>2 DEF AtMost100
      <3> QED
        BY <3>1, <3>3
    <2>3. room(d) < room(e)
      <3>1. offers[d].saturation \in 0 .. 100 /\ offers[e].saturation \in 0 .. 100
        BY <1>1
      <3>2. \A n, k \in 0 .. 100 : n < k => 100 - k < 100 - n
        OBVIOUS
      <3>3. 100 - offers[d].saturation < 100 - offers[e].saturation
        BY <1>6, <3>1, <3>2
      <3> QED
        BY <3>3
    <2>4. used(e) <= used(d)
      <3>1. \A n, k \in 0 .. 100 : n < k => (80 * n) \div 100 <= (80 * k) \div 100
        OBVIOUS
      <3> QED
        BY <1>1, <1>6, <3>1
    <2>5. /\ edgeA(d) <= edgeA(e) /\ edgeB(d) <= edgeB(e)
          /\ likeA(d) <= likeA(e) /\ likeB(d) <= likeB(e) /\ has(d) <= has(e)
      BY <1>6 DEF AtLeastAsGood
    <2> QED
      BY <2>1, <2>2, <2>3, <2>4, <2>5
  <1> HIDE DEF share, late, lat, gpu, full, used, room, edgeA, edgeB, likeA, likeB, has
  <1>7. a(d) \in Nat /\ a(e) \in Nat /\ b(d) \in Nat /\ b(e) \in Nat
    BY <1>1, <1>3, <1>4, <1>5
  <1>8. AtLeastAsGood(ask, e, d) /\ offers[e].saturation < offers[d].saturation
          => a(d) < a(e) /\ b(d) < b(e)
    BY <1>1, <1>3, <1>4, <1>5, <1>6
  <1> HIDE DEF a, b
  <1> QED
    BY <1>2, <1>7, <1>8

LEMMA ScoresAreInts ==
    ASSUME PlacementTypeOK, NEW ask \in Ask, NEW d \in Depot, ask.gpu => offers[d].freeGpus > 0
    PROVE  GlobalScore(ask, d) \in Int /\ PlacementScore(ask, d) \in Int
  BY ScoresAreSums, PenaltyIsInt

LEMMA ScoresAreFair ==
    ASSUME PlacementTypeOK, NEW ask \in Ask, NEW d \in Depot, NEW e \in Depot,
           ask.gpu => offers[e].freeGpus > 0, AtLeastAsGood(ask, e, d),
           offers[e].saturation < offers[d].saturation, offers[e].status \in {"active", "degraded"},
           offers[d].status \in {"active", "degraded"}
    PROVE  /\ GlobalScore(ask, d) < GlobalScore(ask, e)
           /\ PlacementScore(ask, d) < PlacementScore(ask, e)
  <1>1. offers[d].status = "active" => offers[e].status = "active"
    BY DEF AtLeastAsGood
  <1>2. PICK m, n \in Nat, k, l \in Nat :
              /\ GlobalScore(ask, d) = Penalty(offers[d], m) /\ GlobalScore(ask, e) = Penalty(offers[e], n)
              /\ PlacementScore(ask, d) = Penalty(offers[d], k)
              /\ PlacementScore(ask, e) = Penalty(offers[e], l)
              /\ AtLeastAsGood(ask, e, d) /\ offers[e].saturation < offers[d].saturation => m < n /\ k < l
    BY ScoresAreSums
  <1> QED
    BY <1>1, <1>2, PenaltyIsFair

\* The regions each router chooses among are those that have what the request needs.
LEMMA CandidatesFit ==
    ASSUME PlacementTypeOK, NEW ask \in Ask
    PROVE  /\ Candidates(ask) = {d \in Depot : Fits(ask, d)}
           /\ PlaceCandidates(ask) = {d \in Depot : FitsPlacement(ask, d)}
  <1>1. \A d \in Depot : offers[d].status \in {"active", "degraded", "draining", "offline"}
    BY ScoreParts
  <1>2. Candidates(ask) = {d \in Depot : Fits(ask, d)}
    BY <1>1 DEF Candidates, WithGpu, Serving, Fits
  <1>3. ask.limit \in Nat
    BY PlacementAssumption DEF AskType
  <1> QED
    BY <1>2, <1>3 DEF PlaceCandidates, FitsPlacement

\* A router that takes the best by a score that is higher for the less loaded of two regions,
\* the other being no better.
LEMMA ScoreServes ==
    ASSUME PlacementTypeOK, NEW ask \in Ask, NEW C, C \subseteq Candidates(ask), NEW s \in [C -> Int],
           \/ s = [d \in C |-> GlobalScore(ask, d)]
           \/ s = [d \in C |-> PlacementScore(ask, d)]
    PROVE  /\ ChosenFrom(Best(s), C)
           /\ \A d \in Best(s), e \in C :
                 AtLeastAsGood(ask, e, d) => offers[e].saturation >= offers[d].saturation
  <1>1. C \in SUBSET Depot
    BY DEF Candidates, WithGpu, Serving
  <1>2. /\ Best(s) \subseteq C /\ (C # {} => Best(s) # {})
        /\ \A d \in Best(s), e \in C : s[e] <= s[d]
    BY <1>1, BestExists
  <1>3. ASSUME NEW d \in Best(s), NEW e \in C, AtLeastAsGood(ask, e, d)
        PROVE  offers[e].saturation >= offers[d].saturation
    <2>1. d \in C /\ e \in Depot /\ d \in Depot
      BY <1>1, <1>2
    <2>2. /\ offers[e].status \in {"active", "degraded"} /\ offers[d].status \in {"active", "degraded"}
          /\ ask.gpu => offers[e].freeGpus > 0 /\ offers[d].freeGpus > 0
      BY <2>1 DEF Candidates, WithGpu, Serving
    <2>3. /\ GlobalScore(ask, e) \in Int /\ GlobalScore(ask, d) \in Int
          /\ PlacementScore(ask, e) \in Int /\ PlacementScore(ask, d) \in Int
          /\ offers[e].saturation \in Int /\ offers[d].saturation \in Int
      BY <2>1, <2>2, ScoresAreInts, ScoreParts
    <2>4. s[e] <= s[d]
      BY <1>2
    <2>5. \/ GlobalScore(ask, e) <= GlobalScore(ask, d)
          \/ PlacementScore(ask, e) <= PlacementScore(ask, d)
      BY <2>1, <2>4
    <2>6. ~ offers[e].saturation < offers[d].saturation
      BY <1>3, <2>1, <2>2, <2>3, <2>5, ScoresAreFair
    <2> QED
      BY <2>3, <2>6
  <1> QED
    BY <1>2, <1>3 DEF ChosenFrom

LEMMA ScoresServe == PlacementTypeOK => ScoresAreServed
  <1> SUFFICES ASSUME PlacementTypeOK, NEW ask \in Ask
               PROVE  /\ ChosenFrom(GlobalRoute(ask), {d \in Depot : Fits(ask, d)})
                      /\ ChosenFrom(Place(ask), {d \in Depot : FitsPlacement(ask, d)})
                      /\ \A d \in GlobalRoute(ask), e \in Depot :
                            Fits(ask, e) /\ AtLeastAsGood(ask, e, d)
                                => offers[e].saturation >= offers[d].saturation
                      /\ \A d \in Place(ask), e \in Depot :
                            FitsPlacement(ask, e) /\ AtLeastAsGood(ask, e, d)
                                => offers[e].saturation >= offers[d].saturation
    BY DEF ScoresAreServed
  <1> DEFINE C == Candidates(ask)
             P == PlaceCandidates(ask)
             scores == [d \in C |-> GlobalScore(ask, d)]
             ranks == [d \in P |-> PlacementScore(ask, d)]
  <1>1. C \subseteq Depot /\ P \subseteq C /\ \A d \in C : ask.gpu => offers[d].freeGpus > 0
    BY DEF PlaceCandidates, Candidates, WithGpu, Serving
  <1>2. scores \in [C -> Int]
    BY <1>1, ScoresAreInts
  <1>3. ranks \in [P -> Int]
    BY <1>1, ScoresAreInts
  <1>4. GlobalRoute(ask) = Best(scores) /\ Place(ask) = Best(ranks)
    BY DEF GlobalRoute, Place
  <1>5. /\ ChosenFrom(Best(scores), C)
        /\ \A d \in Best(scores), e \in C :
              AtLeastAsGood(ask, e, d) => offers[e].saturation >= offers[d].saturation
    BY <1>2, ScoreServes
  <1>6. /\ ChosenFrom(Best(ranks), P)
        /\ \A d \in Best(ranks), e \in P :
              AtLeastAsGood(ask, e, d) => offers[e].saturation >= offers[d].saturation
    BY <1>1, <1>3, ScoreServes
  <1>7. C = {d \in Depot : Fits(ask, d)} /\ P = {d \in Depot : FitsPlacement(ask, d)}
    BY CandidatesFit
  <1> HIDE DEF C, P, scores, ranks
  <1>8. \A e \in Depot : (Fits(ask, e) => e \in C) /\ (FitsPlacement(ask, e) => e \in P)
    BY <1>7
  <1>9. /\ ChosenFrom(GlobalRoute(ask), {d \in Depot : Fits(ask, d)})
        /\ ChosenFrom(Place(ask), {d \in Depot : FitsPlacement(ask, d)})
    BY <1>4, <1>5, <1>6, <1>7
  <1> QED
    BY <1>4, <1>5, <1>6, <1>8, <1>9

\* The latency router, among the regions that are not excluded.
LEMMA LatencyServes ==
    ASSUME PlacementTypeOK, NEW gpu \in BOOLEAN, NEW X \in SUBSET Depot,
           NEW C, C = WithGpu(gpu) \ X
    PROVE  /\ ChosenFrom(LatencyRoute(gpu, X), C)
           /\ \A d \in LatencyRoute(gpu, X), e \in C :
                 measured[e] # Unmeasured => measured[d] # Unmeasured /\ measured[d] <= measured[e]
  <1> DEFINE timed == {d \in C : measured[d] # Unmeasured}
             fast == [d \in timed |-> 0 - measured[d]]
             near == [d \in C |-> 0 - offers[d].latency]
  <1>1. C \in SUBSET Depot
    BY DEF WithGpu, Serving
  <1>2. timed \in SUBSET Depot /\ fast \in [timed -> Int] /\ \A d \in timed : measured[d] \in Nat
    <2>1. \A d \in Depot : measured[d] \in Nat \/ measured[d] = Unmeasured
      BY PlacementAssumption DEF PlacementTypeOK
    <2>2. timed \in SUBSET Depot /\ \A d \in timed : measured[d] \in Nat
      BY <1>1, <2>1
    <2> QED
      BY <2>2
  <1>3. near \in [C -> Int]
    BY <1>1, ScoreParts
  <1>4. LatencyRoute(gpu, X) = IF timed # {} THEN Best(fast) ELSE Best(near)
    BY DEF LatencyRoute
  <1>5. /\ Best(fast) \subseteq timed /\ (timed # {} => Best(fast) # {})
        /\ \A d \in Best(fast), e \in timed : 0 - measured[e] <= 0 - measured[d]
    <2> HIDE DEF fast
    <2>1. /\ Best(fast) \subseteq timed /\ (timed # {} => Best(fast) # {})
          /\ \A d \in Best(fast), e \in timed : fast[e] <= fast[d]
      <3> HIDE DEF timed
      <3> QED
        BY <1>2, BestExists
    <2> QED
      BY <2>1 DEF fast
  <1>6. Best(near) \subseteq C /\ (C # {} => Best(near) # {})
    <2> HIDE DEF near
    <2> QED
      BY <1>1, <1>3, BestExists
  <1>7. ChosenFrom(LatencyRoute(gpu, X), C)
    <2> HIDE DEF fast, near
    <2> QED
      BY <1>4, <1>5, <1>6 DEF ChosenFrom
  <1>8. ASSUME NEW d \in LatencyRoute(gpu, X), NEW e \in C, measured[e] # Unmeasured
        PROVE  measured[d] # Unmeasured /\ measured[d] <= measured[e]
    <2>1. e \in timed
      BY <1>8
    <2>2. d \in Best(fast)
      <3> HIDE DEF fast, near, timed
      <3> QED
        BY <1>4, <2>1
    <2>3. d \in timed /\ 0 - measured[e] <= 0 - measured[d]
      <3> HIDE DEF fast
      <3> QED
        BY <1>5, <2>1, <2>2
    <2>4. measured[d] \in Nat /\ measured[e] \in Nat
      BY <1>2, <2>1, <2>3
    <2> QED
      BY <2>3, <2>4
  <1> HIDE DEF timed, fast, near
  <1> QED
    BY <1>7, <1>8

LEMMA NearestServe == PlacementTypeOK => NearestAreServed
  <1> SUFFICES ASSUME PlacementTypeOK, NEW gpu \in BOOLEAN, NEW exclude \in SUBSET Depot
               PROVE  LET free(d) == /\ offers[d].status \notin {"draining", "offline"} /\ d \notin exclude
                                     /\ gpu => offers[d].freeGpus > 0
                          Nearer(chosen, fit) ==
                              /\ ChosenFrom(chosen, fit)
                              /\ \A d \in chosen, e \in fit :
                                    measured[e] # Unmeasured
                                      => measured[d] # Unmeasured /\ measured[d] <= measured[e]
                      IN /\ Nearer(LatencyRoute(gpu, exclude), {d \in Depot : free(d)})
                         /\ \A source \in Depot :
                               Nearer(RegionRoute(gpu, source, exclude),
                                      {d \in Depot \ {source} : free(d)})
                         /\ ChosenFrom(NearestRoute(gpu, exclude), {d \in Depot : free(d)})
                         /\ \A d \in NearestRoute(gpu, exclude), e \in Depot :
                               free(e) => Distance[d] <= Distance[e]
    BY DEF NearestAreServed
  <1> DEFINE free(d) == /\ offers[d].status \notin {"draining", "offline"} /\ d \notin exclude
                        /\ gpu => offers[d].freeGpus > 0
             C == {d \in Depot : free(d)}
             away == [d \in C |-> 0 - Distance[d]]
  <1>1. \A d \in Depot : offers[d].status \in {"active", "degraded", "draining", "offline"}
    BY ScoreParts
  <1>2. C = WithGpu(gpu) \ exclude
    BY <1>1 DEF WithGpu, Serving
  <1>3. /\ ChosenFrom(LatencyRoute(gpu, exclude), C)
        /\ \A d \in LatencyRoute(gpu, exclude), e \in C :
              measured[e] # Unmeasured => measured[d] # Unmeasured /\ measured[d] <= measured[e]
    <2> HIDE DEF C
    <2> QED
      BY <1>2, LatencyServes
  <1>4. ASSUME NEW source \in Depot
        PROVE  /\ ChosenFrom(RegionRoute(gpu, source, exclude), {d \in Depot \ {source} : free(d)})
               /\ \A d \in RegionRoute(gpu, source, exclude), e \in {f \in Depot \ {source} : free(f)} :
                     measured[e] # Unmeasured => measured[d] # Unmeasured /\ measured[d] <= measured[e]
    <2> DEFINE F == {d \in Depot \ {source} : free(d)}
    <2>1. F = WithGpu(gpu) \ (exclude \cup {source})
      BY <1>1 DEF WithGpu, Serving
    <2>2. RegionRoute(gpu, source, exclude) = LatencyRoute(gpu, exclude \cup {source})
      BY DEF RegionRoute
    <2>3. exclude \cup {source} \in SUBSET Depot
      OBVIOUS
    <2> HIDE DEF F
    <2>4. /\ ChosenFrom(LatencyRoute(gpu, exclude \cup {source}), F)
          /\ \A d \in LatencyRoute(gpu, exclude \cup {source}), e \in F :
                measured[e] # Unmeasured => measured[d] # Unmeasured /\ measured[d] <= measured[e]
      BY <2>1, <2>3, LatencyServes
    <2> QED
      BY <2>2, <2>4 DEF F
  <1>5. NearestRoute(gpu, exclude) = Best(away)
    BY <1>2 DEF NearestRoute
  <1>6. C \in SUBSET Depot /\ away \in [C -> Int] /\ \A d \in Depot : Distance[d] \in Nat
    BY PlacementAssumption
  <1>7. /\ ChosenFrom(NearestRoute(gpu, exclude), C)
        /\ \A d \in NearestRoute(gpu, exclude), e \in C : Distance[d] <= Distance[e]
    <2>1. /\ Best(away) \subseteq C /\ (C # {} => Best(away) # {})
          /\ \A d \in Best(away), e \in C : away[e] <= away[d]
      <3> HIDE DEF C, away
      <3> QED
        BY <1>6, BestExists
    <2> HIDE DEF C
    <2>2. \A d \in Best(away), e \in C : 0 - Distance[e] <= 0 - Distance[d]
      BY <2>1
    <2>3. \A d \in Best(away), e \in C : Distance[d] <= Distance[e]
      BY <1>6, <2>1, <2>2
    <2> HIDE DEF away
    <2> QED
      BY <1>5, <2>1, <2>3 DEF ChosenFrom
  <1> HIDE DEF away
  <1> QED
    BY <1>3, <1>4, <1>7

LEMMA RoutersServe == PlacementTypeOK => RoutesAreServed
  BY ScoresServe, NearestServe DEF RoutesAreServed

\* One wish of the filter: a region that is kept and one that is not.
LEMMA KeptMeets ==
    ASSUME NEW cands, NEW meet
    PROVE  /\ Kept(cands, meet) \subseteq cands /\ (cands # {} => Kept(cands, meet) # {})
           /\ \A d \in Kept(cands, meet), e \in cands \ Kept(cands, meet) : d \in meet /\ e \notin meet
           /\ \A d, e \in Kept(cands, meet) : d \in meet <=> e \in meet
  BY DEF Kept

\* Wishes that weigh 4, 2 and 1 and are given up in this order leave the greatest merit.
LEMMA CascadeIsGreatest ==
    ASSUME NEW D, NEW O \in SUBSET D, O # {}, NEW G, NEW T, NEW W, NEW m,
           \A d \in D : m[d] = IF d \notin O THEN 0
                               ELSE 8 + (IF d \in G THEN 4 ELSE 0) + (IF d \in T THEN 2 ELSE 0)
                                      + (IF d \in W THEN 1 ELSE 0)
    PROVE  Kept(Kept(Kept(O, G), T), W) = {d \in D : \A e \in D : m[e] <= m[d]}
  <1> DEFINE A == Kept(O, G)
             B == Kept(A, T)
             C == Kept(B, W)
  <1>1. /\ A \subseteq O /\ A # {}
        /\ \A d \in A, e \in O \ A : d \in G /\ e \notin G
        /\ \A d, e \in A : d \in G <=> e \in G
    BY KeptMeets
  <1> HIDE DEF A
  <1>2. /\ B \subseteq A /\ B # {}
        /\ \A d \in B, e \in A \ B : d \in T /\ e \notin T
        /\ \A d, e \in B : d \in T <=> e \in T
    BY <1>1, KeptMeets
  <1> HIDE DEF B
  <1>3. /\ C \subseteq B /\ C # {}
        /\ \A d \in C, e \in B \ C : d \in W /\ e \notin W
        /\ \A d, e \in C : d \in W <=> e \in W
    BY <1>2, KeptMeets
  <1> HIDE DEF C
  <1>4. \A d \in D : m[d] \in 0 .. 15
    OBVIOUS
  <1>5. ASSUME NEW d \in C, NEW e \in D \ C PROVE m[e] < m[d]
    <2>1. d \in O /\ d \in D
      BY <1>1, <1>2, <1>3
    <2>2. CASE e \notin O
      BY <2>1, <2>2
    <2>3. CASE e \in O \ A
      BY <1>1, <1>2, <1>3, <2>1, <2>3
    <2>4. CASE e \in A \ B
      <3>1. d \in T /\ e \notin T /\ (d \in G <=> e \in G) /\ e \in O
        BY <1>1, <1>2, <1>3, <2>4
      <3> QED
        BY <2>1, <3>1
    <2>5. CASE e \in B \ C
      <3>1. d \in W /\ e \notin W /\ (d \in T <=> e \in T) /\ (d \in G <=> e \in G) /\ e \in O
        BY <1>1, <1>2, <1>3, <2>5
      <3> QED
        BY <2>1, <3>1
    <2> QED
      BY <2>2, <2>3, <2>4, <2>5
  <1>6. ASSUME NEW d \in C, NEW e \in C PROVE m[e] = m[d]
    <2>1. /\ d \in O /\ e \in O /\ d \in D /\ e \in D
          /\ (d \in W <=> e \in W) /\ (d \in T <=> e \in T) /\ (d \in G <=> e \in G)
      BY <1>1, <1>2, <1>3
    <2> QED
      BY <2>1
  <1>7. C \subseteq D
    BY <1>1, <1>2, <1>3
  <1>8. C = {d \in D : \A e \in D : m[e] <= m[d]}
    <2>1. ASSUME NEW d \in C, NEW e \in D PROVE m[e] <= m[d]
      BY <1>4, <1>5, <1>6, <1>7
    <2>2. ASSUME NEW d \in D, \A e \in D : m[e] <= m[d] PROVE d \in C
      BY <1>3, <1>4, <1>5, <1>7, <2>2
    <2> QED
      BY <1>7, <2>1, <2>2
  <1> QED
    BY <1>8 DEF A, B, C

LEMMA FilterKeeps == FilterKeepsTheBest
  <1> SUFFICES ASSUME NEW ask \in [gpu : BOOLEAN, prefers : SUBSET Depot], NEW limit \in {0, 100}
               PROVE  Filtered(ask, limit) = {d \in Depot : \A e \in Depot :
                                                 Merit(ask, limit, e) <= Merit(ask, limit, d)}
    BY DEF FilterKeepsTheBest
  <1> DEFINE online == {d \in Depot : offers[d].status # "offline"}
             fit == Kept(Kept(Kept(online, HasGpu(ask)), InTime(limit)), Wanted(ask))
             m == [d \in Depot |-> Merit(ask, limit, d)]
             best == {d \in Depot : \A e \in Depot : m[e] <= m[d]}
  <1>1. Filtered(ask, limit) = IF fit = {} THEN Depot ELSE fit
    BY DEF Filtered
  <1>2. best = {d \in Depot : \A e \in Depot : Merit(ask, limit, e) <= Merit(ask, limit, d)}
    OBVIOUS
  <1>3. \A d \in Depot : m[d] = IF d \notin online THEN 0
                                ELSE 8 + (IF d \in HasGpu(ask) THEN 4 ELSE 0)
                                       + (IF d \in InTime(limit) THEN 2 ELSE 0)
                                       + (IF d \in Wanted(ask) THEN 1 ELSE 0)
    BY DEF Merit
  <1>4. CASE online = {}
    <2>1. fit = {}
      BY <1>4, KeptMeets
    <2>2. \A d \in Depot : m[d] = 0
      BY <1>3, <1>4
    <2>3. best = Depot
      <3> HIDE DEF m
      <3> QED
        BY <2>2
    <2> QED
      BY <1>1, <1>2, <2>1, <2>3
  <1>5. CASE online # {}
    <2>1. online \in SUBSET Depot
      OBVIOUS
    <2> HIDE DEF online, m
    <2>2. fit = best
      BY ONLY <1>3, <1>5, <2>1, CascadeIsGreatest
    <2>3. fit # {}
      <3> HIDE DEF fit
      <3> QED
        BY <1>5, KeptMeets DEF fit
    <2> QED
      BY <1>1, <1>2, <2>2, <2>3
  <1> QED
    BY <1>4, <1>5

-----------------------------------------------------------------------------
(* The shortest paths of the infrastructure graph *)

\* What a search goes over, and what a link costs.
Passages == {e \in graphNodes \X graphNodes : e[2] \in adjacency[e[1]] /\ Passable(e[1], e[2])}
Latencies == [e \in Passages |-> GetLink(e[1], e[2]).latency]

LEMMA PassagesCost ==
    ASSUME FabricGraphTypeOK, NEW m \in graphNodes, NEW n \in graphNodes
    PROVE  /\ <<m, n>> \in Passages <=> n \in adjacency[m] /\ Passable(m, n)
           /\ <<m, n>> \in Passages => /\ Latencies[<<m, n>>] = GetLink(m, n).latency
                                       /\ Latencies[<<m, n>>] \in Nat
  <1>1. <<m, n>> \in Passages <=> n \in adjacency[m] /\ Passable(m, n)
    BY DEF Passages
  <1>2. m \in GraphNode /\ n \in GraphNode
    BY DEF FabricGraphTypeOK
  <1>3. ASSUME <<m, n>> \in Passages
        PROVE  Latencies[<<m, n>>] = GetLink(m, n).latency /\ Latencies[<<m, n>>] \in Nat
    <2>1. Latencies[<<m, n>>] = GetLink(m, n).latency
      BY <1>3 DEF Latencies
    <2>2. GetLink(m, n) \in LinkKind \cup {NoLink} /\ GetLink(m, n) # NoLink
      BY <1>1, <1>2, <1>3 DEF FabricGraphTypeOK, Key_, GetLink, Passable
    <2>3. GetLink(m, n).latency \in Nat
      BY <2>2, FabricGraphAssumption
    <2> QED
      BY <2>1, <2>3
  <1> QED
    BY <1>1, <1>3

LEMMA PassagesAreLinks ==
    ASSUME FabricGraphTypeOK
    PROVE  \A e \in Passages : e \in graphNodes \X graphNodes /\ Latencies[e] \in Nat
  <1> SUFFICES ASSUME NEW e \in Passages PROVE e \in graphNodes \X graphNodes /\ Latencies[e] \in Nat
    OBVIOUS
  <1>1. PICK m \in graphNodes, n \in graphNodes : e = <<m, n>>
    BY DEF Passages
  <1> QED
    BY <1>1, PassagesCost

\* The states of a search from a, and the condition on which it ends.
SearchStates(a) ==
    {s \in [unvisited : SUBSET graphNodes, dist : [graphNodes -> Nat \cup {-1}],
            prev : [graphNodes -> Seq(graphNodes)]] :
        SearchInv(graphNodes, Passages, Latencies, a, graphNodes \ s.unvisited, s.dist, s.prev)}
SearchOver(s, b) == s.unvisited = {} \/ Nearest(s) = b \/ s.dist[Nearest(s)] = Infinite

LEMMA NearestIsFirst ==
    ASSUME NEW a, NEW s \in SearchStates(a), s.unvisited # {}
    PROVE  /\ Nearest(s) \in s.unvisited
           /\ \A u \in s.unvisited : s.dist[u] # -1 =>
                 s.dist[Nearest(s)] # -1 /\ s.dist[Nearest(s)] <= s.dist[u]
  <1>1. \A u \in s.unvisited : s.dist[u] \in Nat \cup {-1}
    BY DEF SearchStates
  <1>2. \E n \in s.unvisited : \A m \in s.unvisited : ~Shorter(s.dist[m], s.dist[n])
    <2>1. CASE \A u \in s.unvisited : s.dist[u] = -1
      BY <2>1 DEF Shorter, Infinite
    <2>2. CASE \E u \in s.unvisited : s.dist[u] # -1
      <3>1. PICK n \in s.unvisited :
                s.dist[n] # -1 /\ \A u \in s.unvisited : s.dist[u] # -1 => s.dist[n] <= s.dist[u]
        <4> DEFINE U == s.unvisited
                   d == s.dist
        <4>1. PICK m \in U : d[m] # -1
          BY <2>2
        <4>2. \A n \in U : d[n] \in Nat \cup {-1}
          BY <1>1
        <4> HIDE DEF U, d
        <4>3. \E n \in U : d[n] # -1 /\ \A u \in U : d[u] # -1 => d[n] <= d[u]
          BY <4>1, <4>2, NearestExists
        <4> QED
          BY <4>3 DEF U, d
      <3>2. ASSUME NEW m \in s.unvisited PROVE ~Shorter(s.dist[m], s.dist[n])
        BY <1>1, <3>1 DEF Shorter, Infinite
      <3> QED
        BY <3>2
    <2> QED
      BY <2>1, <2>2
  <1>3. Nearest(s) \in s.unvisited /\ \A m \in s.unvisited : ~Shorter(s.dist[m], s.dist[Nearest(s)])
    BY <1>2, Zenon DEF Nearest
  <1> QED
    BY <1>1, <1>3 DEF Shorter, Infinite

LEMMA RelaxedIsKnown ==
    ASSUME FabricGraphTypeOK, NEW a \in graphNodes, NEW b, NEW s \in SearchStates(a),
           ~SearchOver(s, b)
    PROVE  /\ Relaxed(s) \in SearchStates(a)
           /\ Nearest(s) \in s.unvisited /\ Relaxed(s).unvisited = s.unvisited \ {Nearest(s)}
  <1> DEFINE N == graphNodes
             U == s.unvisited
             V == N \ U
             d == s.dist
             pr == s.prev
             c == Nearest(s)
             B == {n \in (U \ {c}) \cap adjacency[c] :
                      Passable(c, n) /\ Shorter(d[c] + GetLink(c, n).latency, d[n])}
             newDist == [n \in N |-> IF n \in B THEN d[c] + Latencies[<<c, n>>] ELSE d[n]]
             newPrev == [n \in N |-> IF n \in B THEN <<c>> ELSE pr[n]]
  <1>1. /\ U \in SUBSET N /\ d \in [N -> Nat \cup {-1}] /\ pr \in [N -> Seq(N)]
        /\ SearchInv(N, Passages, Latencies, a, V, d, pr)
    BY DEF SearchStates
  <1>2. c \in U /\ d[c] # -1 /\ \A u \in U : d[u] # -1 => d[c] <= d[u]
    BY NearestIsFirst DEF SearchOver, Infinite
  <1>3. c \in N \ V /\ N \ V = U /\ N \ (U \ {c}) = V \cup {c}
    BY <1>1, <1>2
  <1>4. d[c] \in Nat /\ \A n \in N : d[n] \in Nat \cup {-1}
    BY <1>1, <1>2
  <1>5. ASSUME NEW n \in N
        PROVE  n \in B <=> /\ n \notin V /\ n # c /\ <<c, n>> \in Passages
                           /\ (d[n] = -1 \/ d[c] + Latencies[<<c, n>>] < d[n])
    <2>1. n \in B <=> /\ n \notin V /\ n # c /\ n \in adjacency[c] /\ Passable(c, n)
                      /\ Shorter(d[c] + GetLink(c, n).latency, d[n])
      OBVIOUS
    <2>2. CASE ~(n \in adjacency[c] /\ Passable(c, n))
      BY <1>3, <2>1, <2>2, PassagesCost
    <2>3. CASE n \in adjacency[c] /\ Passable(c, n)
      <3>1. <<c, n>> \in Passages /\ Latencies[<<c, n>>] = GetLink(c, n).latency /\ Latencies[<<c, n>>] \in Nat
        BY <1>3, <2>3, PassagesCost
      <3>2. Shorter(d[c] + GetLink(c, n).latency, d[n])
            <=> (d[n] = -1 \/ d[c] + Latencies[<<c, n>>] < d[n])
        BY <1>4, <3>1 DEF Shorter, Infinite
      <3> QED
        BY <2>1, <2>3, <3>1, <3>2
    <2> QED
      BY <2>2, <2>3
  <1>6. Relaxed(s) = [unvisited |-> U \ {c}, dist |-> newDist, prev |-> newPrev]
    <2>1. \A n \in B : n \in N /\ Latencies[<<c, n>>] = GetLink(c, n).latency
      BY <1>1, <1>3, <1>5, PassagesCost
    <2>2. newDist = [n \in N |-> IF n \in B THEN d[c] + GetLink(c, n).latency ELSE d[n]]
      BY <2>1
    <2> QED
      BY <2>2 DEF Relaxed
  <1>7. \A e \in Passages : Latencies[e] \in Nat
    BY PassagesAreLinks
  <1>8. newDist = [n \in N |-> IF n \in B THEN d[c] + Latencies[<<c, n>>] ELSE d[n]]
        /\ newPrev = [n \in N |-> IF n \in B THEN <<c>> ELSE pr[n]]
    OBVIOUS
  <1>9. a \in N /\ \A u \in N \ V : d[u] # -1 => d[c] <= d[u]
    BY <1>2, <1>3
  <1> HIDE DEF N, U, V, d, pr, c, B, newDist, newPrev
  <1>10. SearchInv(N, Passages, Latencies, a, V \cup {c}, newDist, newPrev)
    <2>1. Visits(N, Passages, Latencies, V, d, pr, c, B, newDist, newPrev)
      BY ONLY <1>2, <1>3, <1>5, <1>8, <1>9 DEF Visits
    <2> QED
      BY ONLY <1>1, <1>7, <1>9, <2>1, SearchVisits
  <1>11. newDist \in [N -> Nat \cup {-1}] /\ newPrev \in [N -> Seq(N)]
    BY <1>10 DEF SearchInv
  <1>12. Relaxed(s) \in [unvisited : SUBSET N, dist : [N -> Nat \cup {-1}], prev : [N -> Seq(N)]]
    BY <1>1, <1>6, <1>11
  <1>13. /\ Relaxed(s).unvisited = U \ {c} /\ Relaxed(s).dist = newDist
         /\ Relaxed(s).prev = newPrev
    BY <1>6
  <1>14. Relaxed(s) \in SearchStates(a)
    BY <1>3, <1>10, <1>12, <1>13 DEF SearchStates, N
  <1> QED
    BY <1>2, <1>13, <1>14 DEF c, U
LEMMA SearchEnds ==
    ASSUME FabricGraphTypeOK, NEW a \in graphNodes, NEW b \in graphNodes
    PROVE  Search(a, b) \in SearchStates(a) /\ SearchOver(Search(a, b), b)
  <1> DEFINE N == graphNodes
             C == Cardinality(N)
             S == SearchStates(a)
             x == [unvisited |-> N, dist |-> [n \in N |-> IF n = a THEN 0 ELSE -1],
                   prev |-> [n \in N |-> <<>>]]
             Ended == {s \in S : SearchOver(s, b)}
             f == [s \in S |-> Relaxed(s)]
             size == [s \in S |-> Cardinality(s.unvisited)]
             Run(run) == run = [k \in 0 .. C |->
                            IF k = 0 THEN x
                            ELSE LET s == run[k - 1] IN IF SearchOver(s, b) THEN s ELSE Relaxed(s)]
             Chosen == CHOOSE run : Run(run)
  <1>1. IsFiniteSet(N) /\ C \in Nat
    BY FabricGraphAssumption, FS_Subset, FS_CardinalityType DEF FabricGraphTypeOK
  <1>2. x \in S
    <2> DEFINE d == [n \in N |-> IF n = a THEN 0 ELSE -1]
               pr == [n \in N |-> <<>>]
    <2>1. a \in N /\ N \ N = {} /\ d = [n \in N |-> IF n = a THEN 0 ELSE -1] /\ pr = [n \in N |-> <<>>]
      OBVIOUS
    <2>2. x.unvisited = N /\ x.dist = d /\ x.prev = pr /\ x = [unvisited |-> N, dist |-> d, prev |-> pr]
      OBVIOUS
    <2> HIDE DEF N, d, pr, x
    <2>3. SearchInv(N, Passages, Latencies, a, {}, d, pr)
      BY <2>1, SearchBegins
    <2>4. d \in [N -> Nat \cup {-1}] /\ pr \in [N -> Seq(N)]
      BY <2>3 DEF SearchInv
    <2> QED
      BY <2>1, <2>2, <2>3, <2>4 DEF SearchStates, N
  <1>3. \A s \in S : size[s] \in Nat
    BY <1>1, FS_Subset, FS_CardinalityType DEF SearchStates
  <1>4. ASSUME NEW s \in S \ Ended PROVE f[s] \in S /\ size[f[s]] < size[s]
    <2>1. /\ Relaxed(s) \in S /\ Nearest(s) \in s.unvisited
          /\ Relaxed(s).unvisited = s.unvisited \ {Nearest(s)}
      BY RelaxedIsKnown
    <2>2. IsFiniteSet(s.unvisited)
      BY <1>1, FS_Subset DEF SearchStates
    <2>3. Cardinality(Relaxed(s).unvisited) < Cardinality(s.unvisited)
      BY <2>1, <2>2, OneLess
    <2> QED
      BY <2>1, <2>3
  <1>5. size[x] <= C
    BY <1>1, <1>2
  <1>6. \A s \in S : /\ s \in Ended <=> SearchOver(s, b)
                     /\ f[s] = Relaxed(s)
    OBVIOUS
  <1> HIDE DEF N, C, S, x, Ended, f, size
  <1>7. PICK run \in [0 .. C -> S] : Looping(f, Ended, x, C, run) /\ run[C] \in Ended
    BY <1>1, <1>2, <1>3, <1>4, <1>5, LoopEnds
  <1>8. ASSUME NEW k \in 1 .. C
        PROVE  /\ run[k - 1] \in S
               /\ run[k] = IF SearchOver(run[k - 1], b) THEN run[k - 1] ELSE Relaxed(run[k - 1])
    <2>1. k \in 0 .. C /\ k # 0 /\ k - 1 \in 0 .. C
      BY <1>1
    <2>2. run[k] = IF run[k - 1] \in Ended THEN run[k - 1] ELSE f[run[k - 1]]
      BY <1>7, <2>1, Zenon DEF Looping
    <2>3. run[k - 1] \in S
      BY <1>7, <2>1
    <2> QED
      BY <1>6, <2>2, <2>3
  <1>9. 0 \in 0 .. C /\ run[0] = x
    <2>1. 0 \in 0 .. C
      BY <1>1
    <2> QED
      BY <1>7, <2>1, Zenon DEF Looping
  <1>10. Run(run)
    <2>1. ASSUME NEW k \in 0 .. C
          PROVE  run[k] = IF k = 0 THEN x ELSE LET s == run[k - 1]
                                               IN IF SearchOver(s, b) THEN s ELSE Relaxed(s)
      <3>1. k = 0 \/ k \in 1 .. C
        BY <1>1
      <3> QED
        BY <1>8, <1>9, <3>1
    <2>2. run = [k \in 0 .. C |-> run[k]]
      BY <1>7
    <2> QED
      BY <2>1, <2>2
  <1>11. Run(Chosen)
    BY <1>10, Zenon
  <1>12. Search(a, b) = Chosen[C]
    BY DEF Search, SearchOver, N, C, x, Infinite
  <1> HIDE DEF Chosen
  <1>13. \A k \in 0 .. C : Chosen[k] = IF k = 0 THEN x ELSE LET s == Chosen[k - 1]
                                                    IN IF SearchOver(s, b) THEN s ELSE Relaxed(s)
    BY <1>11, Zenon
  <1>14. ASSUME NEW k \in 1 .. C, Chosen[k - 1] = run[k - 1] PROVE Chosen[k] = run[k]
    <2>1. k \in 0 .. C /\ k # 0
      BY <1>1
    <2> QED
      BY <1>8, <1>13, <1>14, <2>1
  <1>15. Chosen[0] = run[0]
    BY <1>9, <1>13
  <1>16. Chosen[C] = run[C]
    BY <1>1, <1>14, <1>15, RunsAgree
  <1>17. run[C] \in S
    <2>1. C \in 0 .. C
      BY <1>1
    <2> QED
      BY <1>7, <2>1
  <1> QED
    BY <1>6, <1>7, <1>12, <1>16, <1>17 DEF S

\* A walk is a path of the search, and the search's path to b is a walk.
LEMMA WalksArePaths ==
    ASSUME FabricGraphTypeOK, NEW a, NEW b, NEW p \in Walks(a, b)
    PROVE  /\ p \in Seq(graphNodes) /\ Len(p) # 0 /\ p[1] = a /\ p[Len(p)] = b
           /\ \A k \in 1 .. Len(p) - 1 : <<p[k], p[k + 1]>> \in Passages
           /\ Length(p) = PathCost(Latencies, p) /\ Length(p) \in Nat
  <1>1. PICK n \in 1 .. Cardinality(GraphNode) : p \in [1 .. n -> GraphNode]
    BY DEF Walks, Paths
  <1>2. n \in Nat \ {0}
    BY <1>1
  <1>3. /\ p[1] = a /\ p[Len(p)] = b /\ \A k \in DOMAIN p : p[k] \in graphNodes
        /\ \A k \in 1 .. Len(p) - 1 : p[k + 1] \in adjacency[p[k]] /\ Passable(p[k], p[k + 1])
    BY DEF Walks
  <1>4. p \in Seq(graphNodes) /\ Len(p) = n
    <2>1. p \in [1 .. n -> graphNodes]
      BY <1>1, <1>3
    <2> QED
      BY <1>2, <2>1
  <1>5. ASSUME NEW k \in 1 .. Len(p) - 1
        PROVE  /\ <<p[k], p[k + 1]>> \in Passages
               /\ Latencies[<<p[k], p[k + 1]>>] = GetLink(p[k], p[k + 1]).latency
               /\ Latencies[<<p[k], p[k + 1]>>] \in Nat
    <2>1. p[k] \in graphNodes /\ p[k + 1] \in graphNodes
      BY <1>4
    <2> QED
      BY <1>3, <2>1, PassagesCost
  <1>6. Length(p) = PathCost(Latencies, p)
    <2> DEFINE w == [k \in 1 .. Len(p) - 1 |-> GetLink(p[k], p[k + 1]).latency]
               v == [k \in 1 .. Len(p) - 1 |-> Latencies[<<p[k], p[k + 1]>>]]
    <2>1. w = v
      BY <1>5
    <2>2. Length(p) = SumFunctionOnSet(w, 1 .. Len(p) - 1)
      BY DEF Length, SumFunction
    <2>3. PathCost(Latencies, p) = SumFunctionOnSet(v, 1 .. Len(p) - 1)
      BY DEF PathCost
    <2> QED
      BY <2>1, <2>2, <2>3
  <1>7. PathCost(Latencies, p) \in Nat
    BY <1>2, <1>4, <1>5, PathCostType
  <1> QED
    BY <1>2, <1>3, <1>4, <1>5, <1>6, <1>7

LEMMA TracesAreWalks ==
    ASSUME FabricGraphTypeOK, NEW a, NEW b, NEW V, NEW prev, NEW p,
           Trace(graphNodes, Passages, a, V, prev, b, p)
    PROVE  p \in Walks(a, b)
  <1>1. /\ p \in Seq(graphNodes) /\ Len(p) # 0 /\ p[1] = a /\ p[Len(p)] = b
        /\ \A i, j \in 1 .. Len(p) : p[i] = p[j] => i = j
        /\ \A k \in 1 .. Len(p) - 1 : <<p[k], p[k + 1]>> \in Passages
    BY DEF Trace
  <1>2. p \in Seq(GraphNode) /\ \A k \in 1 .. Len(p) : p[k] \in graphNodes
    BY <1>1 DEF FabricGraphTypeOK
  <1>3. Len(p) <= Cardinality(GraphNode) /\ Cardinality(GraphNode) \in Nat
    BY <1>1, <1>2, PathsFit, FabricGraphAssumption
  <1>4. DOMAIN p = 1 .. Len(p) /\ Len(p) \in 1 .. Cardinality(GraphNode)
        /\ p \in [1 .. Len(p) -> GraphNode]
    BY <1>1, <1>2, <1>3
  <1>5. p \in Paths
    BY <1>1, <1>4 DEF Paths
  <1>6. ASSUME NEW k \in 1 .. Len(p) - 1
        PROVE  p[k + 1] \in adjacency[p[k]] /\ Passable(p[k], p[k + 1])
    <2>1. p[k] \in graphNodes /\ p[k + 1] \in graphNodes
      BY <1>1
    <2> QED
      BY <1>1, <2>1, PassagesCost
  <1> QED
    BY <1>1, <1>2, <1>4, <1>5, <1>6 DEF Walks

\* The path back from b is the one of the trace.
LEMMA PathToFollows ==
    ASSUME FabricGraphTypeOK, NEW s, NEW a, NEW b, NEW V, NEW p, s.prev[a] = <<>>,
           Trace(graphNodes, Passages, a, V, s.prev, b, p)
    PROVE  PathTo(s, b) = p
  <1> DEFINE C == Cardinality(graphNodes)
             l == Len(p)
             Chosen == CHOOSE back : BackFrom(s.prev, b, C, back)
             Whole(q) == s.prev[Head(q)] = <<>>
  <1>1. /\ p \in Seq(graphNodes) /\ Len(p) # 0 /\ p[1] = a
        /\ \A i, j \in 1 .. Len(p) : p[i] = p[j] => i = j
        /\ \A k \in 1 .. Len(p) - 1 : s.prev[p[k + 1]] = <<p[k]>>
    BY DEF Trace
  <1>2. l \in Nat \ {0} /\ l <= C /\ C \in Nat
    <2>1. IsFiniteSet(graphNodes)
      BY FabricGraphAssumption, FS_Subset DEF FabricGraphTypeOK
    <2> QED
      BY <1>1, <2>1, PathsFit
  <1>3. /\ \E back : BackFrom(s.prev, b, C, back)
        /\ \A back : BackFrom(s.prev, b, C, back) =>
              \A k \in 1 .. C : back[k] = IF k <= Len(p) THEN PathEnd(p, k) ELSE p
    <2>1. Len(p) <= C /\ C \in Nat
      BY <1>2
    <2> DEFINE pr == s.prev
    <2>2. pr[a] = <<>> /\ Trace(graphNodes, Passages, a, V, pr, b, p)
      OBVIOUS
    <2> HIDE DEF C, pr
    <2>3. LeadsBack(pr, b, C, p)
      BY ONLY <2>1, <2>2, BackFollows
    <2> QED
      BY <2>3 DEF LeadsBack, pr
  <1>4. BackFrom(s.prev, b, C, Chosen)
    BY <1>3, Zenon
  <1>5. \A k \in 1 .. C : Chosen[k] = IF k <= l THEN PathEnd(p, k) ELSE p
    BY <1>3, <1>4
  <1>6. DOMAIN Chosen = 1 .. C
    BY <1>4, Zenon DEF BackFrom
  <1>7. PathTo(s, b) = Chosen[CHOOSE k \in DOMAIN Chosen :
                                 /\ Whole(Chosen[k]) /\ \A j \in 1 .. k - 1 : ~Whole(Chosen[j])]
    BY DEF PathTo, BackFrom
  <1> HIDE DEF Chosen, C
  <1>8. PathEnd(p, l) = p /\ \A k \in 1 .. l : Head(PathEnd(p, k)) = p[l - k + 1]
    BY <1>1, PathEnds
  <1>9. \A k \in 1 .. l - 1 : s.prev[p[k + 1]] # <<>>
    <2> TAKE k \in 1 .. l - 1
    <2>1. s.prev[p[k + 1]] = <<p[k]>>
      BY <1>1
    <2> QED
      BY <2>1
  <1>10. s.prev[p[1]] = <<>>
    BY <1>1
  <1> HIDE DEF l
  <1>11. ASSUME NEW k \in 1 .. l PROVE Whole(Chosen[k]) <=> k = l
    <2>1. k \in 1 .. C /\ k <= l
      BY <1>2
    <2>2. Head(Chosen[k]) = p[l - k + 1]
      BY <1>5, <1>8, <2>1
    <2>3. CASE k = l
      <3>1. l - k + 1 = 1
        BY <1>2, <2>3
      <3> QED
        BY <1>10, <2>2, <2>3, <3>1
    <2>4. CASE k # l
      <3>1. l - k \in 1 .. l - 1 /\ l - k + 1 = (l - k) + 1
        BY <1>2, <2>4
      <3> QED
        BY <1>9, <2>2, <2>4, <3>1
    <2> QED
      BY <2>3, <2>4
  <1> HIDE DEF Whole
  <1>12. \A k \in DOMAIN Chosen :
            (Whole(Chosen[k]) /\ \A j \in 1 .. k - 1 : ~Whole(Chosen[j])) <=> k = l
    <2> TAKE k \in DOMAIN Chosen
    <2>1. k \in 1 .. C /\ l \in 1 .. l
      BY <1>2, <1>6
    <2>2. CASE k <= l
      <3>1. k \in 1 .. l /\ \A j \in 1 .. k - 1 : j \in 1 .. l /\ j # l
        BY <1>2, <2>1, <2>2
      <3> QED
        BY <1>11, <3>1
    <2>3. CASE ~(k <= l)
      <3>1. l \in 1 .. k - 1 /\ k # l
        BY <1>2, <2>1, <2>3
      <3> QED
        BY <1>11, <2>1, <3>1
    <2> QED
      BY <2>2, <2>3
  <1>13. l \in DOMAIN Chosen
    BY <1>2, <1>6
  <1>14. (CHOOSE k \in DOMAIN Chosen :
             /\ Whole(Chosen[k]) /\ \A j \in 1 .. k - 1 : ~Whole(Chosen[j])) = l
    BY <1>12, <1>13
  <1>15. Chosen[l] = p
    BY <1>2, <1>5, <1>6, <1>8, <1>13
  <1> QED
    BY <1>7, <1>14, <1>15 DEF Whole

\* In every graph a search ends with a shortest path, or none when there is none.
LEMMA GraphPathsAreShortest == FabricGraphTypeOK => ShortestPathIsShortest
  <1> SUFFICES ASSUME FabricGraphTypeOK, NEW a \in graphNodes, NEW b \in graphNodes
               PROVE  LET s == Search(a, b)
                          w == Walks(a, b)
                      IN IF w = {} THEN s.dist[b] = Infinite
                         ELSE /\ s.dist[b] = Min({Length(p) : p \in w})
                              /\ PathTo(s, b) \in w /\ Length(PathTo(s, b)) = s.dist[b]
    BY DEF ShortestPathIsShortest
  <1> DEFINE s == Search(a, b)
             w == Walks(a, b)
             N == graphNodes
             V == N \ s.unvisited
             d == s.dist
  <1>1. s \in SearchStates(a) /\ SearchOver(s, b)
    BY SearchEnds
  <1> HIDE DEF s, w
  <1>2. s.unvisited \subseteq N /\ N \ V = s.unvisited
        /\ SearchInv(N, Passages, Latencies, a, V, d, s.prev)
    BY <1>1 DEF SearchStates
  <1>3. /\ \A n \in N : d[n] \in Nat \cup {-1}
        /\ d[a] = 0 /\ s.prev[a] = <<>>
        /\ \A v \in V, n \in N : <<v, n>> \in Passages =>
              d[n] # -1 /\ (d[v] # -1 => d[n] <= d[v] + Latencies[<<v, n>>])
        /\ d[b] # -1 =>
              \E p : Trace(N, Passages, a, V, s.prev, b, p) /\ PathCost(Latencies, p) = d[b]
    BY <1>2 DEF SearchInv
  <1>4. ASSUME NEW n \in N \ V, d[n] # -1 PROVE d[b] # -1 /\ d[b] <= d[n]
    <2>1. n \in s.unvisited
      BY <1>2
    <2>2. d[Nearest(s)] # -1 /\ d[Nearest(s)] <= d[n]
      BY <1>1, <1>4, <2>1, NearestIsFirst
    <2>3. Nearest(s) = b
      BY <1>1, <2>1, <2>2 DEF SearchOver, Infinite
    <2> QED
      BY <2>2, <2>3
  <1>5. \A e \in Passages : Latencies[e] \in Nat
    BY PassagesAreLinks
  <1> HIDE DEF V, d, N
  <1>6. ASSUME NEW p \in w PROVE d[b] # -1 /\ d[b] <= Length(p) /\ Length(p) \in Nat
    <2>1. /\ p \in Seq(N) /\ Len(p) # 0 /\ p[1] = a /\ p[Len(p)] = b
          /\ \A k \in 1 .. Len(p) - 1 : <<p[k], p[k + 1]>> \in Passages
          /\ Length(p) = PathCost(Latencies, p) /\ Length(p) \in Nat
      BY <1>6, WalksArePaths DEF w, N
    <2>2. d[b] # -1 /\ d[b] <= PathCost(Latencies, p)
      <3>1. AllFollowed(N, Passages, Latencies, a, b, V, d)
        BY <1>3, <1>4 DEF AllFollowed
      <3>2. Leads(N, Passages, a, b, p)
        BY <2>1 DEF Leads
      <3> QED
        BY <1>5, <3>1, <3>2, NoPathIsShorter
    <2> QED
      BY <2>1, <2>2
  <1>7. CASE d[b] = -1
    BY <1>6, <1>7 DEF w, d, s, Infinite
  <1>8. CASE d[b] # -1
    <2>1. PICK p : Trace(N, Passages, a, V, s.prev, b, p) /\ PathCost(Latencies, p) = d[b]
      BY <1>3, <1>8
    <2>2. p \in w
      BY <2>1, TracesAreWalks DEF w, N
    <2>3. Length(p) = d[b]
      BY <2>1, <2>2, WalksArePaths DEF w
    <2>4. PathTo(s, b) = p
      BY <1>3, <2>1, PathToFollows DEF N
    <2>5. Min({Length(q) : q \in w}) = d[b]
      <3> DEFINE L == {Length(q) : q \in w}
      <3>1. d[b] \in L /\ \A x \in L : d[b] <= x /\ x \in Nat
        BY <1>6, <2>2, <2>3
      <3> HIDE DEF L
      <3>2. \A x \in L : (\A y \in L : x <= y) <=> x = d[b]
        BY <3>1
      <3>3. (CHOOSE x \in L : \A y \in L : x <= y) = d[b]
        BY <3>1, <3>2
      <3> QED
        BY <3>3 DEF Min, L
    <2> QED
      BY <2>2, <2>3, <2>4, <2>5 DEF w, d, s
  <1> QED
    BY <1>7, <1>8

LEMMA MinIsLeast ==
    ASSUME NEW S \in SUBSET Nat, S # {}
    PROVE  Min(S) \in S /\ \A x \in S : Min(S) <= x
  <1>1. \E m \in S : \A x \in S : m <= x
    BY LeastElement
  <1> QED
    BY <1>1, Zenon DEF Min

-----------------------------------------------------------------------------
(* The cheapest routes of the topology *)

EdgeType == [from : Hub, to : Hub, latency : Nat]

\* The edges are there in both directions.
LEMMA EdgesAreFinite ==
    ASSUME TopologyTypeOK
    PROVE  /\ Edges \subseteq EdgeType /\ IsFiniteSet(Edges)
           /\ \A e \in Edges : [from |-> e.to, to |-> e.from, latency |-> e.latency] \in Edges
  <1> DEFINE K == {c \in Cable : cables[c] # NoCable /\ cables[c].healthy}
             F == [k \in K |-> [from |-> k[1], to |-> k[2], latency |-> cables[k].latency]]
             G == [k \in K |-> [from |-> k[2], to |-> k[1], latency |-> cables[k].latency]]
             Out == {F[k] : k \in K}
             Back == {G[k] : k \in K}
  <1>1. Edges = Out \cup Back
    <2>1. \A k \in K : /\ F[k] = [from |-> k[1], to |-> k[2], latency |-> cables[k].latency]
                       /\ G[k] = [from |-> k[2], to |-> k[1], latency |-> cables[k].latency]
      OBVIOUS
    <2> HIDE DEF F, G
    <2>2. Edges = UNION {{F[k], G[k]} : k \in K}
      BY <2>1 DEF Edges, K
    <2> HIDE DEF K
    <2> QED
      BY <2>2
  <1>2. IsFiniteSet(K)
    <2>1. IsFiniteSet(Hub \X Hub)
      BY TopologyAssumption, FS_Product
    <2>2. K \subseteq Hub \X Hub
      BY TopologyAssumption
    <2> QED
      BY <2>1, <2>2, FS_Subset
  <1>3. \A k \in K : F[k] \in EdgeType /\ G[k] \in EdgeType
    <2> TAKE k \in K
    <2>1. k[1] \in Hub /\ k[2] \in Hub
      BY TopologyAssumption
    <2>2. cables[k].latency \in Nat
      BY TopologyAssumption DEF TopologyTypeOK
    <2> QED
      BY <2>1, <2>2 DEF EdgeType
  <1>4. \A k \in K : /\ [from |-> F[k].to, to |-> F[k].from, latency |-> F[k].latency] = G[k]
                     /\ [from |-> G[k].to, to |-> G[k].from, latency |-> G[k].latency] = F[k]
    OBVIOUS
  <1> HIDE DEF K, F, G
  <1>5. IsFiniteSet(Out) /\ IsFiniteSet(Back)
    BY <1>2, ImageIsFinite
  <1>6. IsFiniteSet(Edges)
    BY <1>1, <1>5, FS_Union
  <1> QED
    BY <1>1, <1>3, <1>4, <1>6

Ways == {e \in Hub \X Hub : Hop(e[1], e[2]) # {}}
Fares == [e \in Ways |-> Min(Hop(e[1], e[2]))]

LEMMA WaysCost ==
    ASSUME TopologyTypeOK, NEW m \in Hub, NEW n \in Hub
    PROVE  /\ Hop(m, n) \in SUBSET Nat /\ Hop(m, n) = Hop(n, m)
           /\ <<m, n>> \in Ways <=> Hop(m, n) # {}
           /\ <<m, n>> \in Ways => /\ Fares[<<m, n>>] = Min(Hop(m, n))
                                   /\ Fares[<<m, n>>] \in Hop(m, n)
                                   /\ \A x \in Hop(m, n) : Fares[<<m, n>>] <= x
  <1>1. Hop(m, n) \in SUBSET Nat
    BY EdgesAreFinite DEF Hop, EdgeType
  <1>2. ASSUME NEW x \in Hub, NEW y \in Hub PROVE Hop(x, y) \subseteq Hop(y, x)
    <2> SUFFICES ASSUME NEW l \in Hop(x, y) PROVE l \in Hop(y, x)
      OBVIOUS
    <2>1. PICK e \in Edges : e.from = x /\ e.to = y /\ e.latency = l
      BY DEF Hop
    <2> DEFINE r == [from |-> e.to, to |-> e.from, latency |-> e.latency]
    <2>2. r \in Edges /\ r.from = y /\ r.to = x /\ r.latency = l
      BY <2>1, EdgesAreFinite
    <2> HIDE DEF r
    <2> QED
      BY <2>2 DEF Hop
  <1>3. <<m, n>> \in Ways <=> Hop(m, n) # {}
    BY DEF Ways
  <1>4. ASSUME <<m, n>> \in Ways
        PROVE  Fares[<<m, n>>] = Min(Hop(m, n))
    BY <1>4 DEF Fares
  <1> QED
    BY <1>1, <1>2, <1>3, <1>4, MinIsLeast

LEMMA WaysAreHops ==
    ASSUME TopologyTypeOK
    PROVE  \A e \in Ways : e \in Hub \X Hub /\ Fares[e] \in Nat
  <1> SUFFICES ASSUME NEW e \in Ways PROVE e \in Hub \X Hub /\ Fares[e] \in Nat
    OBVIOUS
  <1>1. PICK m \in Hub, n \in Hub : e = <<m, n>>
    BY DEF Ways
  <1> QED
    BY <1>1, WaysCost

\* The states of a search from a.  A region that is reached and not visited is in the heap
\* with its distance; the other entries are stale and no nearer.
HubEntry == [dist : Nat, hub : Hub]

HeapInv(V, dist, heap) ==
    /\ IsFiniteSet(heap) /\ heap \subseteq HubEntry
    /\ \A n \in Hub \ V : dist[n] # -1 => [dist |-> dist[n], hub |-> n] \in heap
    /\ \A h \in heap : dist[h.hub] # -1 /\ dist[h.hub] <= h.dist

ExploreStates(a) ==
    {s \in [visited : SUBSET Hub, dist : [Hub -> Nat \cup {-1}], prev : [Hub -> Seq(Hub)],
            heap : SUBSET HubEntry] :
        /\ SearchInv(Hub, Ways, Fares, a, s.visited, s.dist, s.prev)
        /\ HeapInv(s.visited, s.dist, s.heap)}
ExploreOver(s, b) == s.heap = {} \/ b \in s.visited

\* The entries and the edges that are left.
EdgesLeft(V) == {e \in Edges : e.from \notin V}
TurnsLeft(s) == Cardinality(s.heap) + Cardinality(EdgesLeft(s.visited))

LEMMA FirstIsLeast ==
    ASSUME NEW heap \in SUBSET HubEntry, heap # {}
    PROVE  FirstOf(heap) \in heap /\ \A g \in heap : FirstOf(heap).dist <= g.dist
  <1> DEFINE D == {g.dist : g \in heap}
  <1>1. D \in SUBSET Nat /\ D # {}
    BY DEF HubEntry
  <1> HIDE DEF D
  <1>2. PICK d \in D : \A x \in D : d <= x
    BY <1>1, LeastElement
  <1>3. \E h \in heap : \A g \in heap : h.dist <= g.dist
    BY <1>2 DEF D
  <1> QED
    BY <1>3, Zenon DEF FirstOf

\* What a turn does with an entry of a region that is not visited: the region is the
\* nearest one, and its neighbours that come closer are B.
LEMMA PoppedVisits ==
    ASSUME TopologyTypeOK, NEW a \in Hub, NEW s \in ExploreStates(a), s.heap # {},
           FirstOf(s.heap).hub \notin s.visited
    PROVE  \E B \in SUBSET Hub :
              LET c == FirstOf(s.heap).hub
                  t == Popped(s)
              IN /\ \A n \in B : <<c, n>> \in Ways
                 /\ Visits(Hub, Ways, Fares, s.visited, s.dist, s.prev, c, B, t.dist, t.prev)
                 /\ t = [visited |-> s.visited \cup {c}, dist |-> t.dist, prev |-> t.prev,
                         heap |-> (s.heap \ {FirstOf(s.heap)})
                                  \cup {[dist |-> t.dist[n], hub |-> n] : n \in B}]
  <1> DEFINE h == FirstOf(s.heap)
             c == h.hub
             V == s.visited
             d == s.dist
             pr == s.prev
             rest == s.heap \ {h}
             out == {e \in Edges : e.from = h.hub /\ e.to \notin V \cup {h.hub}}
             near(n) == Min({h.dist + e.latency : e \in {x \in out : x.to = n}})
             B == {n \in {e.to : e \in out} : Closer(near(n), d[n])}
             newDist == [n \in Hub |-> IF n \in B THEN d[c] + Fares[<<c, n>>] ELSE d[n]]
             newPrev == [n \in Hub |-> IF n \in B THEN <<c>> ELSE pr[n]]
  <1>1. /\ V \in SUBSET Hub /\ d \in [Hub -> Nat \cup {-1}] /\ pr \in [Hub -> Seq(Hub)]
        /\ s.heap \in SUBSET HubEntry /\ HeapInv(V, d, s.heap)
    BY DEF ExploreStates
  <1>2. h \in s.heap /\ \A g \in s.heap : h.dist <= g.dist
    BY <1>1, FirstIsLeast
  <1>3. c \in Hub /\ h.dist \in Nat /\ c \notin V
    BY <1>1, <1>2 DEF HubEntry
  <1>4. \A u \in Hub \ V : d[u] # -1 => h.dist <= d[u]
    <2> SUFFICES ASSUME NEW u \in Hub \ V, d[u] # -1 PROVE h.dist <= d[u]
      OBVIOUS
    <2> DEFINE g == [dist |-> d[u], hub |-> u]
    <2>1. g \in s.heap /\ g.dist = d[u]
      BY <1>1 DEF HeapInv
    <2> HIDE DEF g
    <2> QED
      BY <1>2, <2>1
  <1>5. d[c] = h.dist /\ d[c] # -1
    <2>1. d[c] # -1 /\ d[c] <= h.dist
      BY <1>1, <1>2 DEF HeapInv
    <2>2. d[c] \in Nat /\ h.dist <= d[c]
      BY <1>1, <1>3, <1>4, <2>1
    <2> QED
      BY <1>3, <2>1, <2>2
  <1>6. \A e \in Edges : e \in EdgeType
    BY EdgesAreFinite
  <1>7. ASSUME NEW n \in Hub
        PROVE  n \in {e.to : e \in out} <=> n \notin V /\ n # c /\ <<c, n>> \in Ways
    <2>1. <<c, n>> \in Ways <=> \E e \in Edges : e.from = c /\ e.to = n
      <3> HIDE DEF c
      <3>1. <<c, n>> \in Ways <=> Hop(c, n) # {}
        BY <1>3, WaysCost
      <3>2. Hop(c, n) # {} <=> \E e \in Edges : e.from = c /\ e.to = n
        BY DEF Hop
      <3> QED
        BY <3>1, <3>2
    <2>2. n \in {e.to : e \in out} <=> \E e \in Edges : e.from = c /\ e.to = n /\ n \notin V /\ n # c
      OBVIOUS
    <2> QED
      BY <2>1, <2>2
  <1>8. ASSUME NEW n \in Hub, n \in {e.to : e \in out} PROVE near(n) = d[c] + Fares[<<c, n>>]
    <2> DEFINE S == {h.dist + e.latency : e \in {x \in out : x.to = n}}
    <2>1. <<c, n>> \in Ways /\ n \notin V /\ n # c
      BY <1>7, <1>8
    <2>2. /\ Hop(c, n) \in SUBSET Nat /\ Fares[<<c, n>>] \in Hop(c, n)
          /\ \A x \in Hop(c, n) : Fares[<<c, n>>] <= x
      BY <1>3, <2>1, WaysCost
    <2>3. S = {h.dist + l : l \in Hop(c, n)}
      BY <2>1 DEF Hop
    <2>4. near(n) = Min(S)
      OBVIOUS
    <2> HIDE DEF S, h
    <2>5. S \in SUBSET Nat /\ h.dist + Fares[<<c, n>>] \in S /\ \A x \in S : h.dist + Fares[<<c, n>>] <= x
      BY <1>3, <2>2, <2>3
    <2>6. Min(S) \in S /\ \A x \in S : Min(S) <= x
      BY <2>5, MinIsLeast
    <2> DEFINE v == h.dist + Fares[<<c, n>>]
               m == Min(S)
    <2>7. /\ v \in S /\ (\A x \in S : v <= x)
          /\ m \in S /\ (\A x \in S : m <= x) /\ S \in SUBSET Nat
      BY <2>5, <2>6
    <2> HIDE DEF v, m
    <2>8. v \in Nat /\ m \in Nat /\ v <= m /\ m <= v
      BY <2>7
    <2>9. m = v
      BY <2>8
    <2> QED
      BY <1>5, <2>4, <2>9 DEF m, v
  <1>9. ASSUME NEW n \in Hub
        PROVE  n \in B <=> /\ n \notin V /\ n # c /\ <<c, n>> \in Ways
                           /\ (d[n] = -1 \/ d[c] + Fares[<<c, n>>] < d[n])
    <2>1. n \in B <=> n \in {e.to : e \in out} /\ Closer(near(n), d[n])
      OBVIOUS
    <2>2. n \in {e.to : e \in out} => near(n) = d[c] + Fares[<<c, n>>]
      BY <1>8
    <2> HIDE DEF B, out, near
    <2> QED
      BY <1>7, <2>1, <2>2 DEF Closer, Unreached
  <1>10. B \in SUBSET Hub
    BY <1>6 DEF EdgeType
  <1>11. \A n \in B : near(n) = d[c] + Fares[<<c, n>>] /\ newDist[n] = near(n)
    <2> TAKE n \in B
    <2>1. n \in Hub /\ n \in {e.to : e \in out}
      BY <1>10
    <2>2. newDist[n] = d[c] + Fares[<<c, n>>]
      BY <2>1
    <2> QED
      BY <1>8, <2>1, <2>2
  <1>12. Popped(s) = [visited |-> V \cup {c}, dist |-> newDist, prev |-> newPrev,
                      heap |-> rest \cup {[dist |-> newDist[n], hub |-> n] : n \in B}]
    <2>1. Popped(s) = [visited |-> V \cup {c},
                       dist |-> [n \in Hub |-> IF n \in B THEN near(n) ELSE d[n]],
                       prev |-> newPrev,
                       heap |-> rest \cup {[dist |-> near(n), hub |-> n] : n \in B}]
      BY <1>3 DEF Popped
    <2> HIDE DEF B, near
    <2>2. [n \in Hub |-> IF n \in B THEN near(n) ELSE d[n]] = newDist
      BY <1>11
    <2> HIDE DEF newDist, newPrev
    <2>3. {[dist |-> near(n), hub |-> n] : n \in B} = {[dist |-> newDist[n], hub |-> n] : n \in B}
      <3>1. \A n \in B : [dist |-> near(n), hub |-> n] = [dist |-> newDist[n], hub |-> n]
        BY <1>11
      <3> QED
        BY <3>1
    <2> QED
      BY <2>1, <2>2, <2>3
  <1>13. newDist = [n \in Hub |-> IF n \in B THEN d[c] + Fares[<<c, n>>] ELSE d[n]]
         /\ newPrev = [n \in Hub |-> IF n \in B THEN <<c>> ELSE pr[n]]
    OBVIOUS
  <1>14. Visits(Hub, Ways, Fares, V, d, pr, c, B, newDist, newPrev)
    <2> HIDE DEF V, d, pr, c, B, newDist, newPrev
    <2>1. c \in Hub \ V /\ d[c] # -1 /\ \A u \in Hub \ V : d[u] # -1 => d[c] <= d[u]
      BY <1>3, <1>4, <1>5
    <2> QED
      BY ONLY <1>9, <1>13, <2>1 DEF Visits
  <1>15. \A n \in B : <<c, n>> \in Ways
    BY <1>9, <1>10
  <1>16. Popped(s).dist = newDist /\ Popped(s).prev = newPrev
    <2> HIDE DEF B, newDist, newPrev, rest, V, c
    <2> QED
      BY <1>12
  <1> HIDE DEF B, newDist, newPrev
  <1> QED
    BY <1>10, <1>12, <1>14, <1>15, <1>16

LEMMA TurnsLeftIsNat ==
    ASSUME TopologyTypeOK, NEW a, NEW s \in ExploreStates(a)
    PROVE  TurnsLeft(s) \in Nat
  <1>1. IsFiniteSet(s.heap)
    BY DEF ExploreStates, HeapInv
  <1>2. IsFiniteSet(EdgesLeft(s.visited))
    BY EdgesAreFinite, FS_Subset DEF EdgesLeft
  <1> QED
    BY <1>1, <1>2, FS_CardinalityType DEF TurnsLeft

\* A stale entry is dropped.
LEMMA PopsStale ==
    ASSUME TopologyTypeOK, NEW a \in Hub, NEW s \in ExploreStates(a), s.heap # {},
           FirstOf(s.heap).hub \in s.visited
    PROVE  Popped(s) \in ExploreStates(a) /\ TurnsLeft(Popped(s)) < TurnsLeft(s)
  <1> DEFINE h == FirstOf(s.heap)
             t == [s EXCEPT !.heap = s.heap \ {h}]
  <1>1. /\ s \in [visited : SUBSET Hub, dist : [Hub -> Nat \cup {-1}],
                  prev : [Hub -> Seq(Hub)], heap : SUBSET HubEntry]
        /\ SearchInv(Hub, Ways, Fares, a, s.visited, s.dist, s.prev)
        /\ HeapInv(s.visited, s.dist, s.heap)
    BY DEF ExploreStates
  <1>2. Popped(s) = t
    BY DEF Popped
  <1>3. h \in s.heap
    BY <1>1, FirstIsLeast
  <1>4. /\ t.visited = s.visited /\ t.dist = s.dist /\ t.prev = s.prev
        /\ t.heap = s.heap \ {h}
        /\ t \in [visited : SUBSET Hub, dist : [Hub -> Nat \cup {-1}],
                  prev : [Hub -> Seq(Hub)], heap : SUBSET HubEntry]
    BY <1>1
  <1>5. HeapInv(s.visited, s.dist, s.heap \ {h})
    <2>1. IsFiniteSet(s.heap \ {h}) /\ s.heap \ {h} \subseteq HubEntry
      BY <1>1, FS_Subset DEF HeapInv
    <2>2. ASSUME NEW n \in Hub \ s.visited, s.dist[n] # -1
          PROVE  [dist |-> s.dist[n], hub |-> n] \in s.heap \ {h}
      <3> DEFINE g == [dist |-> s.dist[n], hub |-> n]
      <3>1. g \in s.heap /\ g.hub = n
        BY <1>1, <2>2 DEF HeapInv
      <3> HIDE DEF g
      <3>2. g # h
        BY <3>1
      <3> QED
        BY <3>1, <3>2 DEF g
    <2>3. \A g \in s.heap \ {h} : s.dist[g.hub] # -1 /\ s.dist[g.hub] <= g.dist
      BY <1>1 DEF HeapInv
    <2> QED
      BY <2>1, <2>2, <2>3 DEF HeapInv
  <1> HIDE DEF t, h
  <1>6. t \in ExploreStates(a)
    BY <1>1, <1>4, <1>5 DEF ExploreStates
  <1>7. TurnsLeft(t) < TurnsLeft(s)
    <2>1. IsFiniteSet(s.heap)
      BY <1>1 DEF HeapInv
    <2>2. /\ Cardinality(s.heap \ {h}) = Cardinality(s.heap) - 1
          /\ Cardinality(s.heap) \in Nat
      BY <1>3, <2>1, OneLess
    <2>3. TurnsLeft(s) = Cardinality(s.heap) + Cardinality(EdgesLeft(s.visited))
          /\ TurnsLeft(t) = Cardinality(s.heap) - 1 + Cardinality(EdgesLeft(s.visited))
      BY <1>4, <2>2 DEF TurnsLeft
    <2>4. Cardinality(EdgesLeft(s.visited)) \in Nat
      BY EdgesAreFinite, FS_Subset, FS_CardinalityType DEF EdgesLeft
    <2> QED
      BY <2>2, <2>3, <2>4
  <1> QED
    BY <1>2, <1>6, <1>7

\* A region is visited.
LEMMA PopsNearest ==
    ASSUME TopologyTypeOK, NEW a \in Hub, NEW s \in ExploreStates(a), s.heap # {},
           FirstOf(s.heap).hub \notin s.visited
    PROVE  Popped(s) \in ExploreStates(a) /\ TurnsLeft(Popped(s)) < TurnsLeft(s)
  <1> DEFINE h == FirstOf(s.heap)
             c == h.hub
             t == Popped(s)
             V == s.visited
             d == s.dist
             new(B) == {[dist |-> t.dist[n], hub |-> n] : n \in B}
  <1>1. PICK B \in SUBSET Hub :
            /\ \A n \in B : <<c, n>> \in Ways
            /\ Visits(Hub, Ways, Fares, V, d, s.prev, c, B, t.dist, t.prev)
            /\ t = [visited |-> V \cup {c}, dist |-> t.dist, prev |-> t.prev,
                    heap |-> (s.heap \ {h}) \cup new(B)]
    BY PoppedVisits
  <1> DEFINE Pushed == new(B)
  <1>2. /\ s \in [visited : SUBSET Hub, dist : [Hub -> Nat \cup {-1}],
                  prev : [Hub -> Seq(Hub)], heap : SUBSET HubEntry]
        /\ SearchInv(Hub, Ways, Fares, a, V, d, s.prev)
        /\ HeapInv(V, d, s.heap)
    BY DEF ExploreStates
  <1>3. h \in s.heap
    BY <1>2, FirstIsLeast
  <1> HIDE DEF h
  <1>4. c \in Hub
    BY <1>2, <1>3 DEF HubEntry
  <1>5. t.visited = V \cup {c} /\ t.heap = (s.heap \ {h}) \cup Pushed
    <2> DEFINE td == t.dist
               tp == t.prev
    <2>1. t = [visited |-> V \cup {c}, dist |-> td, prev |-> tp, heap |-> (s.heap \ {h}) \cup Pushed]
      BY <1>1
    <2> HIDE DEF td, tp, t, V, c, Pushed
    <2> QED
      BY <2>1
  <1>6. SearchInv(Hub, Ways, Fares, a, V \cup {c}, t.dist, t.prev)
    <2>1. \A e \in Ways : Fares[e] \in Nat
      BY WaysAreHops
    <2> HIDE DEF V, c, d, t
    <2> QED
      BY <1>1, <1>2, <2>1, SearchVisits
  <1>7. t.dist \in [Hub -> Nat \cup {-1}] /\ t.prev \in [Hub -> Seq(Hub)]
    BY <1>6 DEF SearchInv
  <1> HIDE DEF t
  <1>8. \A n \in Hub : /\ n \in B => t.dist[n] = d[c] + Fares[<<c, n>>]
                       /\ n \in B => t.dist[n] # -1
                       /\ n \in B => (d[n] = -1 \/ t.dist[n] < d[n])
                       /\ n \notin B => t.dist[n] = d[n]
    <2> TAKE n \in Hub
    <2>1. /\ t.dist = [m \in Hub |-> IF m \in B THEN d[c] + Fares[<<c, m>>] ELSE d[m]]
          /\ d[c] # -1
          /\ n \in B => (d[n] = -1 \/ d[c] + Fares[<<c, n>>] < d[n])
      BY <1>1, Zenon DEF Visits
    <2>2. t.dist[n] = IF n \in B THEN d[c] + Fares[<<c, n>>] ELSE d[n]
      BY <2>1
    <2>3. d[c] \in Nat
      BY <1>2, <1>4, <2>1
    <2>4. n \in B => Fares[<<c, n>>] \in Nat
      BY <1>1, WaysAreHops
    <2> QED
      BY <2>1, <2>2, <2>3, <2>4
  <1>9. \A n \in Hub : t.dist[n] \in Nat \cup {-1} /\ d[n] \in Nat \cup {-1}
    BY <1>2, <1>7
  <1> HIDE DEF V, d, c
  <1>10. /\ IsFiniteSet(B) /\ IsFiniteSet(Pushed) /\ Cardinality(Pushed) <= Cardinality(B)
         /\ Pushed \subseteq HubEntry
    <2>1. IsFiniteSet(B)
      BY TopologyAssumption, FS_Subset
    <2> DEFINE f == [n \in B |-> [dist |-> t.dist[n], hub |-> n]]
    <2>2. Pushed = {f[n] : n \in B}
      OBVIOUS
    <2> HIDE DEF f
    <2>3. IsFiniteSet(Pushed) /\ Cardinality(Pushed) <= Cardinality(B)
      BY <2>1, <2>2, ImageIsFinite
    <2>4. Pushed \subseteq HubEntry
      <3> SUFFICES ASSUME NEW n \in B PROVE [dist |-> t.dist[n], hub |-> n] \in HubEntry
        OBVIOUS
      <3>1. n \in Hub /\ t.dist[n] \in Nat
        BY <1>8, <1>9
      <3> QED
        BY <3>1 DEF HubEntry
    <2> QED
      BY <2>1, <2>3, <2>4
  <1>11. HeapInv(V \cup {c}, t.dist, (s.heap \ {h}) \cup Pushed)
    <2>1. IsFiniteSet((s.heap \ {h}) \cup Pushed) /\ (s.heap \ {h}) \cup Pushed \subseteq HubEntry
      <3>1. IsFiniteSet(s.heap \ {h}) /\ s.heap \ {h} \subseteq HubEntry
        BY <1>2, FS_Subset DEF HeapInv
      <3> HIDE DEF Pushed
      <3> QED
        BY <1>10, <3>1, FS_Union
    <2>2. ASSUME NEW n \in Hub \ (V \cup {c}), t.dist[n] # -1
          PROVE  [dist |-> t.dist[n], hub |-> n] \in (s.heap \ {h}) \cup Pushed
      <3>1. CASE n \in B
        BY <3>1
      <3>2. CASE n \notin B
        <4> DEFINE g == [dist |-> d[n], hub |-> n]
        <4>1. d[n] = t.dist[n]
          BY <1>8, <3>2
        <4>2. g \in s.heap /\ g.hub = n
          BY <1>2, <2>2, <4>1 DEF HeapInv
        <4> HIDE DEF g
        <4>3. g # h
          BY <2>2, <4>2 DEF c
        <4> QED
          BY <4>1, <4>2, <4>3 DEF g
      <3> QED
        BY <3>1, <3>2
    <2>3. ASSUME NEW g \in (s.heap \ {h}) \cup Pushed
          PROVE  t.dist[g.hub] # -1 /\ t.dist[g.hub] <= g.dist
      <3>1. CASE g \in s.heap
        <4>1. g.hub \in Hub /\ g.dist \in Nat /\ d[g.hub] # -1 /\ d[g.hub] <= g.dist
          BY <1>2, <3>1 DEF HeapInv, HubEntry
        <4> DEFINE n == g.hub
        <4>2. t.dist[n] # -1 /\ t.dist[n] <= d[n] /\ t.dist[n] \in Nat /\ d[n] \in Nat
          <5>1. n \in Hub /\ d[n] # -1
            BY <4>1
          <5> HIDE DEF n
          <5>2. d[n] \in Nat /\ t.dist[n] \in Nat \cup {-1}
            BY <1>9, <5>1
          <5>3. CASE n \in B
            <6>1. t.dist[n] # -1 /\ t.dist[n] < d[n]
              BY <1>8, <5>1, <5>3
            <6> QED
              BY <5>2, <6>1
          <5>4. CASE n \notin B
            <6>1. t.dist[n] = d[n]
              BY <1>8, <5>1, <5>4
            <6> QED
              BY <5>2, <6>1
          <5> QED
            BY <5>3, <5>4
        <4> QED
          BY <4>1, <4>2
      <3>2. CASE g \in Pushed
        <4>1. PICK n \in B : g = [dist |-> t.dist[n], hub |-> n]
          BY <3>2
        <4>2. n \in Hub /\ t.dist[n] \in Nat
          BY <1>8, <1>9
        <4>3. g.hub = n /\ g.dist = t.dist[n]
          BY <4>1
        <4> QED
          BY <1>8, <4>2, <4>3
      <3> QED
        BY <3>1, <3>2
    <2> QED
      BY <2>1, <2>2, <2>3 DEF HeapInv
  <1>12. t \in ExploreStates(a)
    <2>1. (s.heap \ {h}) \cup Pushed \subseteq HubEntry /\ V \cup {c} \subseteq Hub
      BY <1>2, <1>4, <1>11 DEF HeapInv, V
    <2> HIDE DEF Pushed
    <2>2. t.visited \in SUBSET Hub /\ t.heap \in SUBSET HubEntry
      BY <1>5, <2>1
    <2> DEFINE vi == V \cup {c}
               di == t.dist
               pv == t.prev
               he == (s.heap \ {h}) \cup Pushed
    <2>3. t = [visited |-> vi, dist |-> di, prev |-> pv, heap |-> he]
      BY <1>1 DEF Pushed
    <2>4. vi \in SUBSET Hub /\ he \in SUBSET HubEntry
      BY <2>1
    <2> HIDE DEF vi, di, pv, he
    <2>5. t \in [visited : SUBSET Hub, dist : [Hub -> Nat \cup {-1}],
                 prev : [Hub -> Seq(Hub)], heap : SUBSET HubEntry]
      BY <1>7, <2>3, <2>4 DEF di, pv
    <2> QED
      BY <1>5, <1>6, <1>11, <2>5 DEF ExploreStates
  <1>13. TurnsLeft(t) < TurnsLeft(s)
    <2> DEFINE O == {e \in Edges : e.from = c}
               F == EdgesLeft(V)
               G == EdgesLeft(V \cup {c})
    <2>1. IsFiniteSet(Edges) /\ O \subseteq F /\ G = F \ O /\ O \subseteq Edges /\ F \subseteq Edges
      <3>1. c \notin V
        BY <1>1, Zenon DEF Visits
      <3> QED
        BY <3>1, EdgesAreFinite DEF EdgesLeft
    <2>2. B \subseteq {e.to : e \in O}
      <3> SUFFICES ASSUME NEW n \in B PROVE \E e \in O : e.to = n
        OBVIOUS
      <3>1. Hop(c, n) # {}
        BY <1>1, <1>4, WaysCost
      <3> QED
        BY <3>1 DEF Hop
    <2> HIDE DEF O, F, G, Pushed
    <2>3. IsFiniteSet(O) /\ IsFiniteSet(F)
      BY <2>1, FS_Subset
    <2>4. Cardinality(B) <= Cardinality(O) /\ Cardinality(O) \in Nat /\ Cardinality(B) \in Nat
      <3> DEFINE f == [e \in O |-> e.to]
      <3>1. B \subseteq {f[e] : e \in O}
        BY <2>2
      <3> HIDE DEF f
      <3>2. IsFiniteSet({f[e] : e \in O}) /\ Cardinality({f[e] : e \in O}) <= Cardinality(O)
        BY <2>3, ImageIsFinite
      <3>3. Cardinality(B) <= Cardinality({f[e] : e \in O})
        BY <3>1, <3>2, FS_Subset
      <3>4. /\ Cardinality(B) \in Nat /\ Cardinality(O) \in Nat
            /\ Cardinality({f[e] : e \in O}) \in Nat
        BY <1>10, <2>3, <3>2, FS_CardinalityType
      <3> QED
        BY <3>2, <3>3, <3>4
    <2>5. Cardinality(G) = Cardinality(F) - Cardinality(O) /\ Cardinality(F) \in Nat
      <3>1. F \cap O = O
        BY <2>1
      <3>2. Cardinality(F \ O) = Cardinality(F) - Cardinality(F \cap O)
        BY <2>3, FS_Difference
      <3> QED
        BY <2>1, <2>3, <3>1, <3>2, FS_CardinalityType
    <2> DEFINE R == s.heap \ {h}
    <2>6. IsFiniteSet(s.heap) /\ IsFiniteSet(R) /\ Cardinality(R) = Cardinality(s.heap) - 1
          /\ Cardinality(s.heap) \in Nat /\ Cardinality(R) \in Nat
      <3>1. IsFiniteSet(s.heap)
        BY <1>2 DEF HeapInv
      <3> QED
        BY <1>3, <3>1, OneLess
    <2> HIDE DEF R
    <2>7. Cardinality(R \cup Pushed) <= Cardinality(R) + Cardinality(Pushed)
          /\ Cardinality(R \cup Pushed) \in Nat /\ Cardinality(Pushed) \in Nat
      <3>1. IsFiniteSet(R \cup Pushed)
            /\ Cardinality(R \cup Pushed) = Cardinality(R) + Cardinality(Pushed) - Cardinality(R \cap Pushed)
        BY <1>10, <2>6, FS_Union
      <3>2. IsFiniteSet(R \cap Pushed)
        BY <2>6, FS_Subset
      <3>3. Cardinality(R \cap Pushed) \in Nat /\ Cardinality(R \cup Pushed) \in Nat /\ Cardinality(Pushed) \in Nat
        BY <1>10, <3>1, <3>2, FS_CardinalityType
      <3> QED
        BY <2>6, <3>1, <3>3
    <2>8. TurnsLeft(s) = Cardinality(s.heap) + Cardinality(F)
          /\ TurnsLeft(t) = Cardinality(R \cup Pushed) + Cardinality(G)
      BY <1>5 DEF TurnsLeft, F, G, R, V
    <2> QED
      BY <1>10, <2>4, <2>5, <2>6, <2>7, <2>8
  <1> QED
    BY <1>12, <1>13 DEF t
LEMMA ExploreEnds ==
    ASSUME TopologyTypeOK, NEW a \in Hub, NEW b
    PROVE  Explored(a, b) \in ExploreStates(a) /\ ExploreOver(Explored(a, b), b)
  <1> DEFINE C == 1 + Cardinality(Edges)
             S == ExploreStates(a)
             x == [visited |-> {}, prev |-> [n \in Hub |-> <<>>],
                   dist |-> [n \in Hub |-> IF n = a THEN 0 ELSE Unreached],
                   heap |-> {[dist |-> 0, hub |-> a]}]
             Ended == {s \in S : ExploreOver(s, b)}
             f == [s \in S |-> Popped(s)]
             size == [s \in S |-> TurnsLeft(s)]
             Run(run) == run = [k \in 0 .. C |->
                            IF k = 0 THEN x
                            ELSE LET s == run[k - 1] IN IF ExploreOver(s, b) THEN s ELSE Popped(s)]
             Chosen == CHOOSE run : Run(run)
  <1>1. C \in Nat
    BY EdgesAreFinite, FS_CardinalityType
  <1>2. x \in S /\ TurnsLeft(x) = C
    <2> DEFINE d == [n \in Hub |-> IF n = a THEN 0 ELSE -1]
               pr == [n \in Hub |-> <<>>]
               h == [dist |-> 0, hub |-> a]
    <2>1. d = [n \in Hub |-> IF n = a THEN 0 ELSE -1] /\ pr = [n \in Hub |-> <<>>]
      OBVIOUS
    <2>2. h \in HubEntry
      BY DEF HubEntry
    <2>3. x = [visited |-> {}, prev |-> pr, dist |-> d, heap |-> {h}]
      BY DEF Unreached
    <2>4. d[a] = 0 /\ \A n \in Hub : d[n] # -1 => n = a
      OBVIOUS
    <2>5. h.hub = a /\ h.dist = 0 /\ h = [dist |-> 0, hub |-> a]
      OBVIOUS
    <2> HIDE DEF d, pr, x, h
    <2>6. x.visited = {} /\ x.dist = d /\ x.prev = pr /\ x.heap = {h}
      BY <2>3
    <2>7. SearchInv(Hub, Ways, Fares, a, {}, d, pr)
      BY <2>1, SearchBegins
    <2>8. d \in [Hub -> Nat \cup {-1}] /\ pr \in [Hub -> Seq(Hub)]
      BY <2>7 DEF SearchInv
    <2>9. HeapInv({}, d, {h})
      <3>1. IsFiniteSet({h}) /\ {h} \subseteq HubEntry
        BY <2>2, FS_Singleton
      <3>2. d[h.hub] # -1 /\ d[h.hub] <= h.dist
        BY <2>4, <2>5
      <3>3. \A n \in Hub : d[n] # -1 => [dist |-> d[n], hub |-> n] = h
        BY <2>4, <2>5
      <3> QED
        BY <3>1, <3>2, <3>3 DEF HeapInv
    <2>10. x \in [visited : SUBSET Hub, dist : [Hub -> Nat \cup {-1}], prev : [Hub -> Seq(Hub)],
                  heap : SUBSET HubEntry]
      BY <2>2, <2>3, <2>8
    <2>11. x \in S
      BY <2>6, <2>7, <2>9, <2>10 DEF ExploreStates
    <2>12. Cardinality({h}) = 1 /\ EdgesLeft({}) = Edges
      BY FS_Singleton DEF EdgesLeft
    <2> QED
      BY <2>6, <2>11, <2>12 DEF TurnsLeft
  <1>3. \A s \in S : size[s] \in Nat
    BY TurnsLeftIsNat
  <1>4. ASSUME NEW s \in S \ Ended PROVE f[s] \in S /\ size[f[s]] < size[s]
    <2>1. s.heap # {}
      BY DEF ExploreOver
    <2>2. Popped(s) \in S /\ TurnsLeft(Popped(s)) < TurnsLeft(s)
      BY <2>1, PopsStale, PopsNearest
    <2> QED
      BY <2>2
  <1>5. size[x] <= C
    BY <1>1, <1>2
  <1>6. \A s \in S : /\ s \in Ended <=> ExploreOver(s, b)
                     /\ f[s] = Popped(s)
    OBVIOUS
  <1> HIDE DEF C, S, x, Ended, f, size
  <1>7. PICK run \in [0 .. C -> S] : Looping(f, Ended, x, C, run) /\ run[C] \in Ended
    BY <1>1, <1>2, <1>3, <1>4, <1>5, LoopEnds
  <1>8. ASSUME NEW k \in 1 .. C
        PROVE  /\ run[k - 1] \in S
               /\ run[k] = IF ExploreOver(run[k - 1], b) THEN run[k - 1] ELSE Popped(run[k - 1])
    <2>1. k \in 0 .. C /\ k # 0 /\ k - 1 \in 0 .. C
      BY <1>1
    <2>2. run[k] = IF run[k - 1] \in Ended THEN run[k - 1] ELSE f[run[k - 1]]
      BY <1>7, <2>1, Zenon DEF Looping
    <2>3. run[k - 1] \in S
      BY <1>7, <2>1
    <2> QED
      BY <1>6, <2>2, <2>3
  <1>9. run[0] = x
    <2>1. 0 \in 0 .. C
      BY <1>1
    <2> QED
      BY <1>7, <2>1, Zenon DEF Looping
  <1>10. Run(run)
    <2>1. ASSUME NEW k \in 0 .. C
          PROVE  run[k] = IF k = 0 THEN x ELSE LET s == run[k - 1]
                                               IN IF ExploreOver(s, b) THEN s ELSE Popped(s)
      <3>1. k = 0 \/ k \in 1 .. C
        BY <1>1
      <3> QED
        BY <1>8, <1>9, <3>1
    <2>2. run = [k \in 0 .. C |-> run[k]]
      BY <1>7
    <2> QED
      BY <2>1, <2>2
  <1>11. Run(Chosen)
    BY <1>10, Zenon
  <1>12. Explored(a, b) = Chosen[C]
    BY DEF Explored, ExploreOver, C, x
  <1> HIDE DEF Chosen
  <1>13. \A k \in 0 .. C : Chosen[k] = IF k = 0 THEN x ELSE LET s == Chosen[k - 1]
                                                    IN IF ExploreOver(s, b) THEN s ELSE Popped(s)
    BY <1>11, Zenon
  <1>14. ASSUME NEW k \in 1 .. C, Chosen[k - 1] = run[k - 1] PROVE Chosen[k] = run[k]
    <2>1. k \in 0 .. C /\ k # 0
      BY <1>1
    <2> QED
      BY <1>8, <1>13, <1>14, <2>1
  <1>15. Chosen[0] = run[0]
    <2>1. 0 \in 0 .. C
      BY <1>1
    <2> QED
      BY <1>9, <1>13, <2>1
  <1>16. Chosen[C] = run[C]
    BY <1>1, <1>14, <1>15, RunsAgree
  <1>17. run[C] \in S
    <2>1. C \in 0 .. C
      BY <1>1
    <2> QED
      BY <1>7, <2>1
  <1> QED
    BY <1>6, <1>7, <1>12, <1>16, <1>17 DEF S

LEMMA RoutesLead ==
    ASSUME TopologyTypeOK, NEW a, NEW b, NEW p \in Routes(a, b)
    PROVE  /\ Leads(Hub, Ways, a, b, p) /\ \A i, j \in 1 .. Len(p) : p[i] = p[j] => i = j
           /\ Cost(p) = PathCost(Fares, p) /\ Cost(p) \in Nat
  <1>1. PICK n \in 1 .. Cardinality(Hub) : p \in [1 .. n -> Hub]
    BY DEF Routes, Itineraries
  <1>2. n \in Nat \ {0} /\ DOMAIN p = 1 .. n
    BY <1>1
  <1>3. /\ p[1] = a /\ p[Len(p)] = b /\ \A i, j \in DOMAIN p : p[i] = p[j] => i = j
        /\ \A k \in 1 .. Len(p) - 1 : Hop(p[k], p[k + 1]) # {}
    BY DEF Routes, Itineraries
  <1>4. p \in Seq(Hub) /\ Len(p) = n
    BY <1>1, <1>2
  <1>5. ASSUME NEW k \in 1 .. Len(p) - 1
        PROVE  /\ <<p[k], p[k + 1]>> \in Ways
               /\ Fares[<<p[k], p[k + 1]>>] = Min(Hop(p[k], p[k + 1]))
               /\ Fares[<<p[k], p[k + 1]>>] \in Nat
    <2> DEFINE m == p[k]
               o == p[k + 1]
    <2>1. m \in Hub /\ o \in Hub /\ Hop(m, o) # {}
      BY <1>3, <1>4
    <2> HIDE DEF m, o
    <2>2. /\ <<m, o>> \in Ways /\ Fares[<<m, o>>] = Min(Hop(m, o))
          /\ Fares[<<m, o>>] \in Nat
      BY <2>1, WaysCost
    <2> QED
      BY <2>2 DEF m, o
  <1>6. Cost(p) = PathCost(Fares, p)
    <2> DEFINE w == [k \in 1 .. Len(p) - 1 |-> Min(Hop(p[k], p[k + 1]))]
               v == [k \in 1 .. Len(p) - 1 |-> Fares[<<p[k], p[k + 1]>>]]
    <2>1. w = v
      BY <1>5
    <2>2. Cost(p) = SumFunctionOnSet(w, 1 .. Len(p) - 1)
      BY DEF Cost, SumFunction
    <2>3. PathCost(Fares, p) = SumFunctionOnSet(v, 1 .. Len(p) - 1)
      BY DEF PathCost
    <2> QED
      BY <2>1, <2>2, <2>3
  <1>7. PathCost(Fares, p) \in Nat
    BY <1>2, <1>4, <1>5, PathCostType
  <1>8. Leads(Hub, Ways, a, b, p)
    BY <1>2, <1>3, <1>4, <1>5 DEF Leads
  <1> QED
    BY <1>2, <1>3, <1>4, <1>6, <1>7, <1>8

LEMMA LeadsAreRoutes ==
    ASSUME TopologyTypeOK, NEW a, NEW b, NEW p, Leads(Hub, Ways, a, b, p),
           \A i, j \in 1 .. Len(p) : p[i] = p[j] => i = j
    PROVE  p \in Routes(a, b)
  <1>1. /\ p \in Seq(Hub) /\ Len(p) # 0 /\ p[1] = a /\ p[Len(p)] = b
        /\ \A k \in 1 .. Len(p) - 1 : <<p[k], p[k + 1]>> \in Ways
    BY DEF Leads
  <1>2. Len(p) <= Cardinality(Hub) /\ Cardinality(Hub) \in Nat
    BY <1>1, PathsFit, TopologyAssumption
  <1>3. DOMAIN p = 1 .. Len(p) /\ Len(p) \in 1 .. Cardinality(Hub) /\ p \in [1 .. Len(p) -> Hub]
    BY <1>1, <1>2
  <1>4. p \in Itineraries
    BY <1>3 DEF Itineraries
  <1>5. \A k \in 1 .. Len(p) - 1 : Hop(p[k], p[k + 1]) # {}
    <2> TAKE k \in 1 .. Len(p) - 1
    <2>1. p[k] \in Hub /\ p[k + 1] \in Hub
      BY <1>1
    <2> QED
      BY <1>1, <2>1, WaysCost
  <1> QED
    BY <1>1, <1>4, <1>5 DEF Routes

\* A route taken the other way.
LEMMA RoutesGoBack ==
    ASSUME TopologyTypeOK, NEW a, NEW b, NEW p \in Routes(a, b)
    PROVE  Backwards(p) \in Routes(b, a) /\ Cost(Backwards(p)) = Cost(p)
  <1> DEFINE q == Backwards(p)
             l == Len(p)
  <1>1. /\ p \in Seq(Hub) /\ l # 0 /\ p[1] = a /\ p[l] = b
        /\ \A k \in 1 .. l - 1 : <<p[k], p[k + 1]>> \in Ways
        /\ \A i, j \in 1 .. l : p[i] = p[j] => i = j
    BY RoutesLead DEF Leads
  <1>2. /\ q \in Seq(Hub) /\ Len(q) = l /\ q[1] = p[l] /\ q[l] = p[1]
        /\ \A k \in 1 .. l : l - k + 1 \in 1 .. l /\ q[k] = p[l - k + 1]
    BY <1>1, BackwardsIsAPath
  <1>3. l \in Nat \ {0}
    BY <1>1
  <1>4. ASSUME NEW k \in 1 .. l - 1
        PROVE  /\ Fares[<<p[k], p[k + 1]>>] \in Nat /\ <<p[k + 1], p[k]>> \in Ways
               /\ Fares[<<p[k + 1], p[k]>>] = Fares[<<p[k], p[k + 1]>>]
    <2> DEFINE m == p[k]
               n == p[k + 1]
    <2>1. m \in Hub /\ n \in Hub /\ <<m, n>> \in Ways
      BY <1>1
    <2> HIDE DEF m, n
    <2>2. Hop(m, n) = Hop(n, m) /\ Hop(m, n) \in SUBSET Nat /\ Hop(m, n) # {}
      BY <2>1, WaysCost
    <2>3. /\ <<n, m>> \in Ways /\ Fares[<<n, m>>] = Min(Hop(n, m))
          /\ Fares[<<m, n>>] = Min(Hop(m, n)) /\ Fares[<<m, n>>] \in Hop(m, n)
      BY <2>1, <2>2, WaysCost
    <2>4. Fares[<<m, n>>] \in Nat /\ <<n, m>> \in Ways /\ Fares[<<n, m>>] = Fares[<<m, n>>]
      BY <2>2, <2>3
    <2> QED
      BY <2>4 DEF m, n
  <1> HIDE DEF q, l
  <1>5. \A k \in 1 .. l - 1 : <<q[k], q[k + 1]>> \in Ways
    <2> TAKE k \in 1 .. l - 1
    <2>1. /\ k \in 1 .. l /\ k + 1 \in 1 .. l /\ l - k \in 1 .. l - 1
          /\ l - k + 1 = (l - k) + 1 /\ l - (k + 1) + 1 = l - k
      BY <1>3
    <2>2. q[k] = p[(l - k) + 1] /\ q[k + 1] = p[l - k]
      BY <1>2, <2>1
    <2> QED
      BY <1>4, <2>1, <2>2
  <1>6. \A i, j \in 1 .. l : q[i] = q[j] => i = j
    <2> SUFFICES ASSUME NEW i \in 1 .. l, NEW j \in 1 .. l, q[i] = q[j] PROVE i = j
      OBVIOUS
    <2>1. l - i + 1 \in 1 .. l /\ l - j + 1 \in 1 .. l /\ p[l - i + 1] = p[l - j + 1]
      BY <1>2
    <2>2. l - i + 1 = l - j + 1
      BY <1>1, <2>1
    <2> QED
      BY <1>3, <2>2
  <1>7. Leads(Hub, Ways, b, a, q)
    BY <1>1, <1>2, <1>3, <1>5 DEF Leads
  <1>8. q \in Routes(b, a)
    BY <1>2, <1>6, <1>7, LeadsAreRoutes
  <1>9. PathCost(Fares, q) = PathCost(Fares, p)
    BY <1>1, <1>4, BackwardsCostsTheSame DEF q, l
  <1> QED
    BY <1>8, <1>9, RoutesLead DEF q

LEMMA CheapestFound ==
    ASSUME TopologyTypeOK, NEW a \in Hubs, NEW b \in Hubs
    PROVE  IF Routes(a, b) = {} THEN ShortestPath(a, b) = <<>>
           ELSE /\ ShortestPath(a, b) \in Routes(a, b)
                /\ \A q \in Routes(a, b) : Cost(ShortestPath(a, b)) <= Cost(q)
  <1> DEFINE s == Explored(a, b)
             V == s.visited
             d == s.dist
             pr == s.prev
             C == Cardinality(Hub)
             Chosen == CHOOSE back : BackFrom(pr, b, C, back)
  <1>1. a \in Hub /\ b \in Hub
    BY EdgesAreFinite DEF Hubs, EdgeType
  <1>2. s \in ExploreStates(a) /\ ExploreOver(s, b)
    BY <1>1, ExploreEnds
  <1>3. /\ b \notin V => ShortestPath(a, b) = <<>>
        /\ b \in V => ShortestPath(a, b) = Chosen[C]
    <2>1. ASSUME b \in V PROVE ShortestPath(a, b) = Chosen[C]
      BY <2>1, Zenon DEF ShortestPath, BackFrom
    <2>2. ASSUME b \notin V PROVE ShortestPath(a, b) = <<>>
      BY <2>2, Zenon DEF ShortestPath
    <2> QED
      BY <2>1, <2>2
  <1> HIDE DEF s, Chosen
  <1>4. SearchInv(Hub, Ways, Fares, a, V, d, pr) /\ HeapInv(V, d, s.heap)
    BY <1>2 DEF ExploreStates
  <1> HIDE DEF V, d, pr
  <1>5. /\ \A n \in Hub : d[n] \in Nat \cup {-1}
        /\ d[a] = 0 /\ pr[a] = <<>>
        /\ \A v \in V : d[v] # -1 /\ \A u \in Hub \ V : d[u] # -1 => d[v] <= d[u]
        /\ \A v \in V, n \in Hub : <<v, n>> \in Ways =>
              d[n] # -1 /\ (d[v] # -1 => d[n] <= d[v] + Fares[<<v, n>>])
        /\ d[b] # -1 => \E p : Trace(Hub, Ways, a, V, pr, b, p) /\ PathCost(Fares, p) = d[b]
    BY <1>1, <1>4 DEF SearchInv
  <1>6. \A n \in Hub \ V : d[n] # -1 => b \in V
    BY <1>2, <1>4 DEF HeapInv, ExploreOver, V
  <1>7. AllFollowed(Hub, Ways, Fares, a, b, V, d)
    BY <1>5, <1>6 DEF AllFollowed
  <1>8. ASSUME NEW q \in Routes(a, b) PROVE d[b] # -1 /\ d[b] <= Cost(q)
    <2>1. Leads(Hub, Ways, a, b, q) /\ Cost(q) = PathCost(Fares, q)
      BY RoutesLead
    <2>2. \A e \in Ways : Fares[e] \in Nat
      BY WaysAreHops
    <2>3. d[b] # -1 /\ d[b] <= PathCost(Fares, q)
      BY <1>7, <2>1, <2>2, NoPathIsShorter
    <2> QED
      BY <2>1, <2>3
  <1>9. CASE b \notin V
    <2>1. d[b] = -1
      BY <1>1, <1>6, <1>9
    <2>2. Routes(a, b) = {}
      BY <1>8, <2>1
    <2> QED
      BY <1>3, <1>9, <2>2
  <1>10. CASE b \in V
    <2>1. PICK p : Trace(Hub, Ways, a, V, pr, b, p) /\ PathCost(Fares, p) = d[b]
      BY <1>5, <1>10
    <2>2. /\ Leads(Hub, Ways, a, b, p) /\ \A i, j \in 1 .. Len(p) : p[i] = p[j] => i = j
          /\ p \in Seq(Hub) /\ Len(p) # 0
      BY <2>1 DEF Trace, Leads
    <2>3. p \in Routes(a, b) /\ Cost(p) = d[b]
      BY <2>1, <2>2, LeadsAreRoutes, RoutesLead
    <2>4. Len(p) <= C /\ C \in Nat /\ Len(p) \in Nat
      BY <2>2, PathsFit, TopologyAssumption
    <2> HIDE DEF C
    <2>5. LeadsBack(pr, b, C, p)
      BY <1>5, <2>1, <2>4, BackFollows
    <2>6. BackFrom(pr, b, C, Chosen)
      BY <2>5, Zenon DEF LeadsBack, Chosen
    <2>7. C \in 1 .. C
      BY <2>2, <2>4
    <2>8. Chosen[C] = IF C <= Len(p) THEN PathEnd(p, C) ELSE p
      BY <2>5, <2>6, <2>7 DEF LeadsBack
    <2>9. PathEnd(p, Len(p)) = p
      BY <2>2, PathEnds
    <2>10. Chosen[C] = p
      <3>1. C <= Len(p) => C = Len(p)
        BY <2>4
      <3> QED
        BY <2>8, <2>9, <3>1
    <2> QED
      BY <1>3, <1>8, <1>10, <2>3, <2>10
  <1> QED
    BY <1>9, <1>10

\* The heap finds the cheapest routes, and there and back cost the same.
LEMMA RoutesAreCheapest == TopologyTypeOK => RouteIsCheapest
  <1> SUFFICES ASSUME TopologyTypeOK, NEW a \in Hubs, NEW b \in Hubs
               PROVE  LET p == ShortestPath(a, b)
                          open == Routes(a, b)
                          cost == Cost(p)
                      IN IF open = {} THEN p = <<>>
                         ELSE p \in open /\ cost <= Cost(ShortestPath(b, a))
                              /\ \A q \in open : cost <= Cost(q)
    BY DEF RouteIsCheapest
  <1>1. CASE Routes(a, b) = {}
    BY <1>1, CheapestFound
  <1>2. CASE Routes(a, b) # {}
    <2> DEFINE p == ShortestPath(a, b)
               r == ShortestPath(b, a)
    <2>1. p \in Routes(a, b) /\ \A q \in Routes(a, b) : Cost(p) <= Cost(q)
      BY <1>2, CheapestFound
    <2>2. Routes(b, a) # {}
      BY <2>1, RoutesGoBack
    <2>3. r \in Routes(b, a)
      BY <2>2, CheapestFound
    <2>4. Backwards(r) \in Routes(a, b) /\ Cost(Backwards(r)) = Cost(r)
      BY <2>3, RoutesGoBack
    <2>5. Cost(p) <= Cost(r)
      BY <2>1, <2>4
    <2> QED
      BY <1>2, <2>1, <2>5
  <1> QED
    BY <1>1, <1>2

-----------------------------------------------------------------------------
(* The composition *)

\* A step of the whole is a step of one component, and leaves the others as they are.
LEMMA ServicesStep ==
    ASSUME [Next]_vars
    PROVE  /\ part' = part
           /\ [MjNext]_mjVars
           /\ [LsNext]_lsVars
           /\ [DeNext]_deVars
           /\ [CmNext]_cmVars
           /\ [PoNext]_poVars
           /\ [PrNext]_prVars
           /\ [CaNext]_caVars
           /\ [EsNext]_esVars
           /\ [RqNext]_rqVars
           /\ [ShNext]_shVars
           /\ [ReNext]_reVars
           /\ [RcNext]_rcVars
           /\ [MiNext]_miVars
           /\ [AsNext]_asVars
           /\ [CfNext]_cfVars
           /\ [ZnNext]_znVars
           /\ [MrNext]_mrVars
           /\ [FgNext]_fgVars
           /\ [PlNext]_plVars
           /\ [OvNext]_ovVars
           /\ [CpNext]_cpVars
           /\ [ToNext]_cables
  <1>1. CASE UNCHANGED vars
    BY <1>1 DEF vars
  <1>2. [MjNext]_mjVars
    <2>1. ASSUME NEW c, Step(c), c # "mesh" PROVE UNCHANGED mjVars
      BY <2>1 DEF Step, Rest
    <2> QED
      BY <1>1, <2>1 DEF Next
  <1>3. [LsNext]_lsVars
    <2>1. ASSUME NEW c, Step(c), c # "leases" PROVE UNCHANGED lsVars
      BY <2>1 DEF Step, Rest
    <2> QED
      BY <1>1, <2>1 DEF Next
  <1>4. [DeNext]_deVars
    <2>1. ASSUME NEW c, Step(c), c # "engine" PROVE UNCHANGED deVars
      BY <2>1 DEF Step, Rest
    <2> QED
      BY <1>1, <2>1 DEF Next
  <1>5. [CmNext]_cmVars
    <2>1. ASSUME NEW c, Step(c), c # "rounds" PROVE UNCHANGED cmVars
      BY <2>1 DEF Step, Rest
    <2> QED
      BY <1>1, <2>1 DEF Next
  <1>6. [PoNext]_poVars
    <2>1. ASSUME NEW c, Step(c), c # "policies" PROVE UNCHANGED poVars
      BY <2>1 DEF Step, Rest
    <2> QED
      BY <1>1, <2>1 DEF Next
  <1>7. [PrNext]_prVars
    <2>1. ASSUME NEW c, Step(c), c # "peers" PROVE UNCHANGED prVars
      BY <2>1 DEF Step, Rest
    <2> QED
      BY <1>1, <2>1 DEF Next
  <1>8. [CaNext]_caVars
    <2>1. ASSUME NEW c, Step(c), c # "caches" PROVE UNCHANGED caVars
      BY <2>1 DEF Step, Rest
    <2> QED
      BY <1>1, <2>1 DEF Next
  <1>9. [EsNext]_esVars
    <2>1. ASSUME NEW c, Step(c), c # "edge jobs" PROVE UNCHANGED esVars
      BY <2>1 DEF Step, Rest
    <2> QED
      BY <1>1, <2>1 DEF Next
  <1>10. [RqNext]_rqVars
    <2>1. ASSUME NEW c, Step(c), c # "runtime" PROVE UNCHANGED rqVars
      BY <2>1 DEF Step, Rest
    <2> QED
      BY <1>1, <2>1 DEF Next
  <1>11. [ShNext]_shVars
    <2>1. ASSUME NEW c, Step(c), c # "shards" PROVE UNCHANGED shVars
      BY <2>1 DEF Step, Rest
    <2> QED
      BY <1>1, <2>1 DEF Next
  <1>12. [ReNext]_reVars
    <2>1. ASSUME NEW c, Step(c), c # "repairs" PROVE UNCHANGED reVars
      BY <2>1 DEF Step, Rest
    <2> QED
      BY <1>1, <2>1 DEF Next
  <1>13. [RcNext]_rcVars
    <2>1. ASSUME NEW c, Step(c), c # "recovery" PROVE UNCHANGED rcVars
      BY <2>1 DEF Step, Rest
    <2> QED
      BY <1>1, <2>1 DEF Next
  <1>14. [MiNext]_miVars
    <2>1. ASSUME NEW c, Step(c), c # "migrations" PROVE UNCHANGED miVars
      BY <2>1 DEF Step, Rest
    <2> QED
      BY <1>1, <2>1 DEF Next
  <1>15. [AsNext]_asVars
    <2>1. ASSUME NEW c, Step(c), c # "scaling" PROVE UNCHANGED asVars
      BY <2>1 DEF Step, Rest
    <2> QED
      BY <1>1, <2>1 DEF Next
  <1>16. [CfNext]_cfVars
    <2>1. ASSUME NEW c, Step(c), c # "continents" PROVE UNCHANGED cfVars
      BY <2>1 DEF Step, Rest
    <2> QED
      BY <1>1, <2>1 DEF Next
  <1>17. [ZnNext]_znVars
    <2>1. ASSUME NEW c, Step(c), c # "zones" PROVE UNCHANGED znVars
      BY <2>1 DEF Step, Rest
    <2> QED
      BY <1>1, <2>1 DEF Next
  <1>18. [MrNext]_mrVars
    <2>1. ASSUME NEW c, Step(c), c # "replicas" PROVE UNCHANGED mrVars
      BY <2>1 DEF Step, Rest
    <2> QED
      BY <1>1, <2>1 DEF Next
  <1>19. [FgNext]_fgVars
    <2>1. ASSUME NEW c, Step(c), c # "graph" PROVE UNCHANGED fgVars
      BY <2>1 DEF Step, Rest
    <2> QED
      BY <1>1, <2>1 DEF Next
  <1>20. [PlNext]_plVars
    <2>1. ASSUME NEW c, Step(c), c # "placement" PROVE UNCHANGED plVars
      BY <2>1 DEF Step, Rest
    <2> QED
      BY <1>1, <2>1 DEF Next
  <1>21. [OvNext]_ovVars
    <2>1. ASSUME NEW c, Step(c), c # "overlay" PROVE UNCHANGED ovVars
      BY <2>1 DEF Step, Rest
    <2> QED
      BY <1>1, <2>1 DEF Next
  <1>22. [CpNext]_cpVars
    <2>1. ASSUME NEW c, Step(c), c # "fabric" PROVE UNCHANGED cpVars
      BY <2>1 DEF Step, Rest
    <2> QED
      BY <1>1, <2>1 DEF Next
  <1>23. [ToNext]_cables
    <2>1. ASSUME NEW c, Step(c), c # "topology" PROVE UNCHANGED cables
      BY <2>1 DEF Step, Rest
    <2> QED
      BY <1>1, <2>1 DEF Next
  <1>24. part' = part
    <2>1. ASSUME NEW c, Step(c) PROVE part' = part
      BY <2>1 DEF Step, Rest
    <2> QED
      BY <1>1, <2>1 DEF Next
  <1> QED
    BY <1>2, <1>3, <1>4, <1>5, <1>6, <1>7, <1>8, <1>9, <1>10, <1>11, <1>12, <1>13, <1>14, <1>15,
       <1>16, <1>17, <1>18, <1>19, <1>20, <1>21, <1>22, <1>23, <1>24

\* What every component keeps of its state, whichever runs.
ServicesInv ==
    /\ part \in Component
    /\ MjInv /\ PoInv /\ CaInv /\ EsInv /\ RqInv /\ ShInv /\ ReInv /\ RcInv /\ MiInv /\ AsInv
    /\ CfInv /\ OvInv /\ CpInv
    /\ LeaseTypes
    /\ DeInv /\ DeHistory /\ CmInv
    /\ ZnInv /\ ToldIsReport
    /\ MrInv /\ AccessesAreBounded
    /\ PrInv /\ PeerReplicationTypeOK /\ PeersInv
    /\ FabricGraphTypeOK /\ LinksAreAdjacent
    /\ PlacementTypeOK /\ TopologyTypeOK

LEMMA ServicesInvInit == Init => ServicesInv
  BY MjInvInit, PoInvInit, CaInvInit, EsInvInit, RqInvInit, ShInvInit, ReInvInit, RcInvInit,
     MiInvInit, AsInvInit, CfInvInit, OvInvInit, CpInvInit, LeaseTypesInit, DeInvInit,
     DeHistoryInit, CmInvInit, ZnInvInit, ToldHolds, MrInvInit, AccessesInit, PrInvInit,
     PeersInit, GraphTypeHolds, AdjacencyInit, PlacementTypeHolds, TopologyTypeHolds
     DEF Init, ServicesInv

LEMMA ServicesInvNext == ServicesInv /\ [Next]_vars => ServicesInv'
  <1> SUFFICES ASSUME ServicesInv, [Next]_vars PROVE ServicesInv'
    OBVIOUS
  <1>1. MjInv'
    <2>1. MjInv /\ [MjNext]_mjVars
      BY ServicesStep DEF ServicesInv
    <2> QED
      BY <2>1, MjInvNext
  <1>2. PoInv'
    <2>1. PoInv /\ [PoNext]_poVars
      BY ServicesStep DEF ServicesInv
    <2> QED
      BY <2>1, PoInvNext
  <1>3. CaInv'
    <2>1. CaInv /\ [CaNext]_caVars
      BY ServicesStep DEF ServicesInv
    <2> QED
      BY <2>1, CaInvNext
  <1>4. EsInv'
    <2>1. EsInv /\ [EsNext]_esVars
      BY ServicesStep DEF ServicesInv
    <2> QED
      BY <2>1, EsInvNext
  <1>5. RqInv'
    <2>1. RqInv /\ [RqNext]_rqVars
      BY ServicesStep DEF ServicesInv
    <2> QED
      BY <2>1, RqInvNext
  <1>6. ShInv'
    <2>1. ShInv /\ [ShNext]_shVars
      BY ServicesStep DEF ServicesInv
    <2> QED
      BY <2>1, ShInvNext
  <1>7. ReInv'
    <2>1. ReInv /\ [ReNext]_reVars
      BY ServicesStep DEF ServicesInv
    <2> QED
      BY <2>1, ReInvNext
  <1>8. RcInv'
    <2>1. RcInv /\ [RcNext]_rcVars
      BY ServicesStep DEF ServicesInv
    <2> QED
      BY <2>1, RcInvNext
  <1>9. MiInv'
    <2>1. MiInv /\ [MiNext]_miVars
      BY ServicesStep DEF ServicesInv
    <2> QED
      BY <2>1, MiInvNext
  <1>10. AsInv'
    <2>1. AsInv /\ [AsNext]_asVars
      BY ServicesStep DEF ServicesInv
    <2> QED
      BY <2>1, AsInvNext
  <1>11. CfInv'
    <2>1. CfInv /\ [CfNext]_cfVars
      BY ServicesStep DEF ServicesInv
    <2> QED
      BY <2>1, CfInvNext
  <1>12. OvInv'
    <2>1. OvInv /\ [OvNext]_ovVars
      BY ServicesStep DEF ServicesInv
    <2> QED
      BY <2>1, OvInvNext
  <1>13. CpInv'
    <2>1. CpInv /\ [CpNext]_cpVars
      BY ServicesStep DEF ServicesInv
    <2> QED
      BY <2>1, CpInvNext
  <1>14. part' \in Component
    <2>1. part \in Component /\ part' = part
      BY ServicesStep DEF ServicesInv
    <2> QED
      BY <2>1
  <1>15. LeaseTypes'
    <2>1. LeaseTypes /\ [LsNext]_lsVars
      BY ServicesStep DEF ServicesInv
    <2> QED
      BY <2>1, LeaseTypesNext
  <1>16. DeInv' /\ DeHistory'
    <2>1. DeInv /\ DeHistory /\ [DeNext]_deVars
      BY ServicesStep DEF ServicesInv
    <2> QED
      BY <2>1, DeNextAgrees, DeHistoryNext DEF DeAgrees
  <1>17. CmInv'
    <2>1. CmInv /\ [CmNext]_cmVars
      BY ServicesStep DEF ServicesInv
    <2> QED
      BY <2>1, CmNextAgrees DEF CmAgrees
  <1>18. ZnInv' /\ ToldIsReport'
    <2>1. ZnInv /\ ToldIsReport /\ [ZnNext]_znVars
      BY ServicesStep DEF ServicesInv
    <2> QED
      BY <2>1, ZnInvNext, ToldHolds
  <1>19. MrInv' /\ AccessesAreBounded'
    <2>1. MrInv /\ AccessesAreBounded /\ [MrNext]_mrVars
      BY ServicesStep DEF ServicesInv
    <2> QED
      BY <2>1, MrInvNext, AccessesNext
  <1>20. PrInv' /\ PeerReplicationTypeOK' /\ PeersInv'
    <2>1. PrInv /\ PeerReplicationTypeOK /\ PeersInv /\ [PrNext]_prVars
      BY ServicesStep DEF ServicesInv
    <2> QED
      BY <2>1, PrInvNext, PeersNext
  <1>21. FabricGraphTypeOK' /\ LinksAreAdjacent'
    <2>1. FabricGraphTypeOK /\ LinksAreAdjacent /\ [FgNext]_fgVars
      BY ServicesStep DEF ServicesInv
    <2> QED
      BY <2>1, GraphTypeHolds, AdjacencyNext
  <1>22. PlacementTypeOK'
    <2>1. PlacementTypeOK /\ [PlNext]_plVars
      BY ServicesStep DEF ServicesInv
    <2> QED
      BY <2>1, PlacementTypeHolds
  <1>23. TopologyTypeOK'
    <2>1. TopologyTypeOK /\ [ToNext]_cables
      BY ServicesStep DEF ServicesInv
    <2> QED
      BY <2>1, TopologyTypeHolds
  <1> QED
    BY <1>1, <1>2, <1>3, <1>4, <1>5, <1>6, <1>7, <1>8, <1>9, <1>10, <1>11, <1>12, <1>13, <1>14,
       <1>15, <1>16, <1>17, <1>18, <1>19, <1>20, <1>21, <1>22, <1>23
       DEF ServicesInv

LEMMA ServicesInvHolds == Spec => []ServicesInv
  BY ServicesInvInit, ServicesInvNext, PTL DEF Spec

\* Whatever its callers, threads and messages do, each component keeps its tables well formed:
\* queues and histories within their limits, references to rows that exist, counters in range
\* (the classes the modules of MCServices name, under their constants' assumptions).  The list
\* of peers of the replicator may name a peer twice (IncrementalReplicator.add_peer).
THEOREM ServicesTypeCorrect == Spec => []ServicesTypeOK
  <1>1. ServicesInv => ServicesTypeOK
    <2> SUFFICES ASSUME ServicesInv PROVE ServicesTypeOK
      OBVIOUS
    <2>1. MeshJobsTypeOK
      BY MjInvImplies DEF ServicesInv
    <2>2. LeasesTypeOK
      BY DEF ServicesInv, LeaseTypes
    <2>3. DecisionEngineTypeOK
      BY DEF ServicesInv, DeInv, DeTables, DeHistory, DecisionEngineTypeOK
    <2>4. ConsensusMeshTypeOK
      BY CmInvType DEF ServicesInv
    <2>5. PoliciesTypeOK
      BY PoInvImplies DEF ServicesInv
    <2>6. PeerReplicationTypeOK
      BY DEF ServicesInv
    <2>7. CachesTypeOK
      BY CaInvType DEF ServicesInv
    <2>8. EdgeSchedulerTypeOK
      BY EsInvType DEF ServicesInv
    <2>9. RuntimeQueueTypeOK
      BY DEF ServicesInv, RqInv
    <2>10. ShardedRunsTypeOK
      BY ShInvImplies DEF ServicesInv
    <2>11. RepairsTypeOK
      BY ReInvImplies DEF ServicesInv
    <2>12. RecoveryTypeOK
      BY RcInvImplies DEF ServicesInv
    <2>13. MigrationsTypeOK
      BY MiInvImplies DEF ServicesInv
    <2>14. AdaptiveScalingTypeOK
      BY AsInvImplies DEF ServicesInv
    <2>15. ContinentTypeOK
      BY CfInvImplies DEF ServicesInv
    <2>16. ZonesTypeOK
      BY DEF ServicesInv, ZnInv, ToldIsReport, ZonesTypeOK
    <2>17. ModelReplicasTypeOK
      BY ReplicasType DEF ServicesInv
    <2>18. FabricGraphTypeOK
      BY DEF ServicesInv
    <2>19. PlacementTypeOK
      BY DEF ServicesInv
    <2>20. OverlayTypeOK
      BY OvInvImplies DEF ServicesInv
    <2>21. ComputeFabricTypeOK
      BY CpInvImplies DEF ServicesInv
    <2>22. TopologyTypeOK
      BY DEF ServicesInv
    <2> QED
      BY <2>1, <2>2, <2>3, <2>4, <2>5, <2>6, <2>7, <2>8, <2>9, <2>10, <2>11, <2>12, <2>13,
         <2>14, <2>15, <2>16, <2>17, <2>18, <2>19, <2>20, <2>21, <2>22
         DEF ServicesInv, ServicesTypeOK, Component
  <1> QED
    BY <1>1, ServicesInvHolds, PTL

\* A job that a cluster of the mesh records as migrated is stored where it went; and every log
\* has an event once, about a job that the cluster of the event has stored: whatever answers
\* are late or lost, whoever restarts and however logs are merged (control_plane/mesh_routes.py).
THEOREM MeshKeepsItsJobs == Spec => []MeshJobsAreKept
  <1>1. ServicesInv => MeshJobsAreKept
    BY MjInvImplies DEF ServicesInv, MeshJobsAreKept
  <1> QED
    BY <1>1, ServicesInvHolds, PTL

\* A cache's running total is the size of what it holds, each key is held once, and the total
\* is over the limit only when one entry is all of its size, in whatever order entries are
\* put, replaced, evicted, expired, invalidated and read (DistributedCacheFabric, EdgeCache).
THEOREM CachesAccount == Spec => []CacheAccounts
  <1>1. ServicesInv => CacheAccounts
    BY CaInvImplies DEF ServicesInv
  <1> QED
    BY <1>1, ServicesInvHolds, PTL

\* What is kept beside what it counts agrees with it in every order of submissions, reports and
\* drains: an edge node is charged for all it runs and for no more than the largest capacity it
\* registered with since it last left (EdgeScheduler), the runtime's table holds
\* what runs and nothing that neither runs nor waits (UltraScaleRuntime), no run whose shards have
\* all reported stays open, evaluations of policies add up to the triggers counted, and a drain
\* leaves only workloads that came to its region after it listed them.
THEOREM WorkStaysAccountedFor == Spec => []WorkIsAccountedFor
  <1>1. ServicesInv => WorkIsAccountedFor
    BY ShInvImplies, PoInvImplies, CpInvImplies DEF ServicesInv, EsInv, RqInv, WorkIsAccountedFor
  <1> QED
    BY <1>1, ServicesInvHolds, PTL

\* Limits that are read in one step and used in a later one: no more migrations than the limit
\* are under way, save those that share an id, and each that completed is counted or about to
\* be by its caller, who writes the status before it takes the lock; a resource is scaled in one
\* cooldown at most once by each caller for each of its readings; the pool of connections stays within its limit and is in the order of
\* last activity (DynamicRoutingAdapter, AdaptiveScaler, OverlayNetwork).
THEOREM LimitsStayHeld == Spec => []LimitsHold
  <1>1. ServicesInv => LimitsHold
    BY MiInvImplies, AsInvImplies, OvInvImplies DEF ServicesInv, LimitsHold
  <1> QED
    BY <1>1, ServicesInvHolds, PTL

\* A request of repair runs at most once, and one that is over has run; a failure that is not
\* settled is in the table, in a caller's hands or shares its id, and its retries pass the limit
\* by less than one for each caller; an outage that has not recovered is listed, in a caller's
\* hands or shares its id, and the count of failovers is not behind: though ids repeat and
\* several callers go through the same records (repair/, planetary/continental_failover.py).
THEOREM FailuresStayHandled == Spec => []FailuresAreHandled
  <1>1. ServicesInv => FailuresAreHandled
    BY ReInvImplies, RcInvImplies, CfInvImplies DEF ServicesInv, FailuresAreHandled
  <1> QED
    BY <1>1, ServicesInvHolds, PTL

\* Whatever the regions report and in whatever order: each router, for every request with its
\* filters and exclusions, finds a region exactly when one is left that serves, never one that
\* drains or is offline; the scores prefer none to one that is as good in everything and less
\* loaded, the latency router takes none that is slower than another measured one, in another
\* region than the source when it routes from one, the geographic router none that is farther;
\* and the planetary scheduler's cascade of filters keeps the regions that meet most of its
\* wishes (routing/, regions/geo_routing.py, fabric/placement_engine.py,
\* fabric_core/planetary_scheduler.py).
THEOREM RoutersAlwaysFindTheBest == Spec => []RoutersFindTheBest
  <1>1. ServicesInv => RoutersFindTheBest
    BY RoutersServe, FilterKeeps DEF ServicesInv, RoutersFindTheBest
  <1> QED
    BY <1>1, ServicesInvHolds, PTL

\* Whatever links and nodes are added, removed or down: the adjacency of the infrastructure graph
\* says what its links say, its search finds a path exactly when there is one and none is shorter
\* (InfrastructureGraph.shortest_path); and the heap of the topology finds a route exactly when
\* one is open, a cheapest one, that costs the same both ways (TopologyManager.shortest_path).
THEOREM PathsStayShortest == Spec => []PathsAreShortest
  <1>1. ServicesInv => PathsAreShortest
    BY GraphPathsAreShortest, RoutesAreCheapest DEF ServicesInv, PathsAreShortest
  <1> QED
    BY <1>1, ServicesInvHolds, PTL

\* A report of telemetry lets a zone take work again only because it was active all along or
\* when the report calls more of its regions offline than up
\* (InfrastructureZoneManager.update_from_telemetry); and a copy that is written back late brings
\* no removed replica back and counts no access that was not, beyond what the record was added
\* with (ModelReplicationManager.add_replica, update_replica_state, record_access).
THEOREM LateDataIsBounded == Spec => LateDataStaysInBounds
  <1>1. Init => ZnInv /\ MrInv
    BY ZnInvInit, MrInvInit DEF Init
  <1>2. ZnInv /\ MrInv /\ [Next]_vars => ZnInv' /\ MrInv'
    BY ServicesStep, ZnInvNext, MrInvNext
  <1>3. ZnInv /\ MrInv /\ [Next]_vars => [ByOperatorsWord]_znVars /\ [ByAddOnly]_mrVars
    BY ServicesStep, ZnStep, MrStep
  <1> QED
    BY <1>1, <1>2, <1>3, PTL
       DEF Spec, LateDataStaysInBounds, TargetsByOperatorsWord, ReplicasByAddOnly, ByOperatorsWord,
           ByAddOnly

\* With a send_fn each peer has received entries in the order of the queue, repeats aside, and
\* has received the one its checkpoint names, though calls fail and peers are added, even twice,
\* and removed under the flush; without one the checkpoint moves with nothing sent
\* (IncrementalReplicator._flush, add_peer, replication/state_replication.py).
THEOREM CheckpointsAreNewest == Spec => []CheckpointIsNewest
  <1>1. Init => PrInv
    BY PrInvInit DEF Init
  <1>2. PrInv /\ [Next]_vars => PrInv'
    BY ServicesStep, PrInvNext
  <1>3. PrInv => CheckpointIsNewest
    BY DEF PrInv
  <1> QED
    BY <1>1, <1>2, <1>3, PTL DEF Spec
=============================================================================
