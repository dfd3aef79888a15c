--------------------------- MODULE ComponentProofs ---------------------------
(***************************************************************************)
(* The inductive invariants of the components of MCServices whose          *)
(* properties are about sequences, sums and cardinalities: what each       *)
(* invariant implies, that it holds initially, and that every step of the  *)
(* component keeps it.  ServicesProofs draws the theorems from them.       *)
(***************************************************************************)
EXTENDS MeshJobs, Policies, Caches, EdgeScheduler, RuntimeQueue, ShardedRuns, ComputeFabric,
        Migrations, AdaptiveScaling, Overlay, Recovery, Repairs, ContinentFailover,
        SequencesExt, DataLemmas, SequenceTheorems, TLAPS

-----------------------------------------------------------------------------
(* Lists that the components put together *)

LEMMA Joining ==
    ASSUME NEW S, NEW s \in Seq(S), NEW t \in Seq(S)
    PROVE  /\ s \o t \in Seq(S) /\ Len(s \o t) = Len(s) + Len(t)
           /\ Len(s) \in Nat /\ Len(t) \in Nat
           /\ \A i \in 1 .. Len(s) : i \in 1 .. Len(s \o t) /\ (s \o t)[i] = s[i]
           /\ \A k \in 1 .. Len(t) : Len(s) + k \in 1 .. Len(s \o t) /\ (s \o t)[Len(s) + k] = t[k]
           /\ \A i \in 1 .. Len(s \o t) :
                 i \in 1 .. Len(s) \/ \E k \in 1 .. Len(t) : i = Len(s) + k
  <1>1. /\ s \o t \in Seq(S) /\ Len(s \o t) = Len(s) + Len(t)
        /\ Len(s) \in Nat /\ Len(t) \in Nat
    BY ConcatProperties
  <1>2. \A i \in 1 .. Len(s) : i \in 1 .. Len(s \o t) /\ (s \o t)[i] = s[i]
    BY <1>1, ConcatProperties
  <1>3. \A k \in 1 .. Len(t) : Len(s) + k \in 1 .. Len(s \o t) /\ (s \o t)[Len(s) + k] = t[k]
    <2> TAKE k \in 1 .. Len(t)
    <2>1. Len(s) + k \in 1 .. Len(s) + Len(t) /\ ~ (Len(s) + k <= Len(s)) /\ (Len(s) + k) - Len(s) = k
      BY <1>1
    <2>2. (s \o t)[Len(s) + k] = t[(Len(s) + k) - Len(s)]
      BY <2>1, ConcatProperties
    <2> QED
      BY <1>1, <2>1, <2>2
  <1>4. ASSUME NEW i \in 1 .. Len(s \o t), i \notin 1 .. Len(s)
        PROVE  \E k \in 1 .. Len(t) : i = Len(s) + k
    <2>1. i - Len(s) \in 1 .. Len(t) /\ i = Len(s) + (i - Len(s))
      BY <1>1, <1>4
    <2> QED
      BY <2>1
  <1> QED
    BY <1>1, <1>2, <1>3, <1>4

\* A finite set as a sequence, in any order.
LEMMA SetToSeqLists ==
    ASSUME NEW S, IsFiniteSet(S)
    PROVE  /\ SetToSeq(S) \in Seq(S) /\ Len(SetToSeq(S)) = Cardinality(S) /\ Cardinality(S) \in Nat
           /\ \A i, j \in 1 .. Len(SetToSeq(S)) : SetToSeq(S)[i] = SetToSeq(S)[j] => i = j
           /\ \A x \in S : \E i \in 1 .. Len(SetToSeq(S)) : SetToSeq(S)[i] = x
  <1> DEFINE n == Cardinality(S)
             f == SetToSeq(S)
  <1>1. n \in Nat
    BY FS_CardinalityType
  <1>2. ExistsBijection(1 .. n, S)
    BY <1>1, FS_CardinalityType
  <1>3. PICK g \in Bijection(1 .. n, S) : TRUE
    BY <1>2 DEF ExistsBijection
  <1>4. g \in [1 .. n -> S] /\ IsInjective(g)
    BY <1>3 DEF Bijection, Injection, IsInjective
  <1>5. f \in [1 .. n -> S] /\ IsInjective(f)
    <2> HIDE DEF n
    <2> QED
      BY <1>4 DEF SetToSeq, n
  <1>6. f \in Injection(1 .. n, S)
    BY <1>5 DEF Injection
  <1> HIDE DEF f
  <1>7. IsFiniteSet(1 .. n) /\ Cardinality(1 .. n) = n
    BY <1>1, FS_Interval
  <1>8. f \in Surjection(1 .. n, S)
    <2> HIDE DEF n
    <2>1. f \in Injection(1 .. n, S) /\ IsFiniteSet(S) /\ Cardinality(S) = Cardinality(1 .. n)
      BY <1>6, <1>7 DEF n
    <2> QED
      BY <1>7, <2>1, FS_Injection
  <1>9. f \in Seq(S) /\ Len(f) = n
    BY <1>1, <1>5
  <1>10. \A i, j \in 1 .. n : f[i] = f[j] => i = j
    BY <1>5 DEF IsInjective
  <1>11. \A x \in S : \E i \in 1 .. n : f[i] = x
    BY <1>8 DEF Surjection
  <1> QED
    BY <1>1, <1>9, <1>10, <1>11 DEF f

LEMMA FirstAndRest ==
    ASSUME NEW S, NEW s \in Seq(S), s # <<>>
    PROVE  /\ Head(s) = s[1] /\ 1 \in 1 .. Len(s) /\ Tail(s) \in Seq(S)
           /\ Len(Tail(s)) \in Nat /\ Len(s) = Len(Tail(s)) + 1
           /\ \A n \in 1 .. Len(Tail(s)) : n + 1 \in 1 .. Len(s) /\ Tail(s)[n] = s[n + 1]
  OBVIOUS

LEMMA ListWithin ==
    ASSUME NEW A, NEW s \in Seq(A), NEW B, \A n \in 1 .. Len(s) : s[n] \in B
    PROVE  s \in Seq(B)
  <1> DEFINE N == Len(s)
  <1>1. N \in Nat /\ s \in [1 .. N -> A]
    OBVIOUS
  <1>2. s \in [1 .. N -> B]
    BY <1>1
  <1> HIDE DEF N
  <1> QED
    BY <1>1, <1>2

-----------------------------------------------------------------------------
(* The jobs of the mesh *)

Served(s, j) == held[s][j] # "no"

\* A reception of a cluster is past its duplicate check.
Receiving(f) == serving[f] \in {"upserted", "enqueued"}

InSomeLog(e) == \E s \in Site : \E i \in 1 .. Len(log[s]) : log[s][i] = e

MjTables ==
    /\ MeshJobsTypeOK
    /\ log = [s \in Site |-> log[s]]

OneReception == \A f, g \in Forward : Receiving(f) /\ Receiving(g) /\ f.to = g.to => f = g

\* An answer that says the job was taken is right, and the log of a reception under way
\* does not have the event that it ends with.
ReceptionsAreNew ==
    \A f \in Forward :
        /\ serving[f] \in {"ok", "enqueued"} => Served(f.to, f.job)
        /\ Receiving(f) => ~ InSomeLog([source |-> f.to, job |-> f.job])

LoggedIsServed == \A e \in MeshEvent : InSomeLog(e) => Served(e.source, e.job)

OnceInALog == \A s \in Site : \A i, k \in 1 .. Len(log[s]) : log[s][i] = log[s][k] => i = k

MjInv ==
    /\ MjTables /\ OneReception /\ ReceptionsAreNew /\ LoggedIsServed /\ OnceInALog
    /\ MigratedIsReceived

LEMMA MjInvImplies == MjInv => MeshJobsTypeOK /\ MigratedIsReceived /\ CreatedIsHeld
  <1> SUFFICES ASSUME MjInv PROVE CreatedIsHeld
    BY DEF MjInv, MjTables
  <1> SUFFICES ASSUME NEW s \in Site
               PROVE  /\ IsInjective(log[s])
                      /\ \A i \in DOMAIN log[s] : held[log[s][i].source][log[s][i].job] # "no"
    BY DEF CreatedIsHeld
  <1>1. log[s] \in Seq(MeshEvent)
    BY DEF MjInv, MjTables, MeshJobsTypeOK
  <1>2. DOMAIN log[s] = 1 .. Len(log[s]) /\ \A i \in 1 .. Len(log[s]) : log[s][i] \in MeshEvent
    BY <1>1
  <1>3. IsInjective(log[s])
    BY <1>2 DEF MjInv, OnceInALog, IsInjective
  <1>4. \A i \in DOMAIN log[s] : held[log[s][i].source][log[s][i].job] # "no"
    BY <1>2 DEF MjInv, LoggedIsServed, InSomeLog, Served
  <1> QED
    BY <1>3, <1>4

LEMMA MjInvInit == MjInit => MjInv
  <1> SUFFICES ASSUME MjInit PROVE MjInv
    OBVIOUS
  <1>1. \A s \in Site : log[s] = <<>> /\ Len(log[s]) = 0 /\ log[s] \in Seq(MeshEvent)
    BY DEF MjInit
  <1>2. MjTables
    BY <1>1, RowAssumption DEF MjInit, MjTables, MeshJobsTypeOK
  <1>3. \A e : ~ InSomeLog(e)
    BY <1>1 DEF InSomeLog
  <1>4. OneReception /\ ReceptionsAreNew
    BY DEF MjInit, OneReception, ReceptionsAreNew, Receiving
  <1>5. LoggedIsServed /\ OnceInALog
    BY <1>1, <1>3 DEF LoggedIsServed, OnceInALog
  <1>6. MigratedIsReceived
    BY DEF MjInit, MigratedIsReceived
  <1> QED
    BY <1>2, <1>4, <1>5, <1>6 DEF MjInv

\* What a step does, by the parts of the state that it changes.  The jobs that a cluster
\* has are never forgotten.
HeldGrows == \A s \in Site, j \in MeshJob : Served(s, j) => Served(s, j)'

LEMMA HeldChanges ==
    ASSUME MjInv, MjTables', HeldGrows, UNCHANGED <<rep, log, serving>>
    PROVE  MjInv'
  <1>1. OneReception' /\ OnceInALog' /\ \A e : InSomeLog(e)' <=> InSomeLog(e)
    BY DEF MjInv, OneReception, Receiving, OnceInALog, InSomeLog
  <1>2. ReceptionsAreNew'
    <2> SUFFICES ASSUME NEW f \in Forward
                 PROVE  /\ serving[f] \in {"ok", "enqueued"} => Served(f.to, f.job)'
                        /\ Receiving(f)' => ~ InSomeLog([source |-> f.to, job |-> f.job])'
      BY DEF ReceptionsAreNew
    <2>1. f.to \in Site /\ f.job \in MeshJob
      BY DEF Forward
    <2> QED
      BY <1>1, <2>1 DEF MjInv, ReceptionsAreNew, HeldGrows, Receiving
  <1>3. LoggedIsServed'
    BY <1>1 DEF MjInv, LoggedIsServed, HeldGrows, MeshEvent
  <1>4. MigratedIsReceived'
    <2> SUFFICES ASSUME NEW s \in Site, NEW j \in MeshJob, rep[s][j] # NoRow,
                        rep[s][j].state = "migrated"
                 PROVE  Served(rep[s][j].owner, j)'
      BY DEF MigratedIsReceived, Served
    <2>1. rep[s][j].owner \in Site
      BY DEF MjInv, MjTables, MeshJobsTypeOK, Row
    <2> QED
      BY <2>1 DEF MjInv, MigratedIsReceived, HeldGrows, Served
  <1> QED
    BY <1>1, <1>2, <1>3, <1>4 DEF MjInv

LEMMA HeldSet ==
    ASSUME MjInv, NEW s \in Site, NEW j \in MeshJob, NEW v \in {"queued", "ran"},
           held' = [held EXCEPT ![s][j] = v]
    PROVE  HeldGrows /\ Served(s, j)' /\ held' \in [Site -> [MeshJob -> {"no", "queued", "ran"}]]
  <1>1. held \in [Site -> [MeshJob -> {"no", "queued", "ran"}]]
    BY DEF MjInv, MjTables, MeshJobsTypeOK
  <1>2. \A t \in Site, k \in MeshJob : held'[t][k] = IF t = s /\ k = j THEN v ELSE held[t][k]
    BY <1>1
  <1> QED
    BY <1>1, <1>2 DEF HeldGrows, Served

LEMMA MjHere ==
    ASSUME MjInv, NEW s \in Site, NEW j \in MeshJob, SubmitHere(s, j) \/ RunHere(s, j) PROVE MjInv'
  <1>1. HeldGrows /\ held' \in [Site -> [MeshJob -> {"no", "queued", "ran"}]]
    BY HeldSet DEF SubmitHere, RunHere
  <1>2. MjTables' /\ UNCHANGED <<rep, log, serving>>
    BY <1>1 DEF SubmitHere, RunHere, MjInv, MjTables, MeshJobsTypeOK
  <1> QED
    BY <1>1, <1>2, HeldChanges

\* The steps of a forward that start, end or refuse a reception.
LEMMA ServingChanges ==
    ASSUME MjInv, MjTables', UNCHANGED <<held, rep, log>>,
           \A f \in Forward : \/ serving'[f] = serving[f]
                              \/ serving'[f] \notin {"ok", "upserted", "enqueued"}
                              \/ serving'[f] = "ok" /\ Served(f.to, f.job)
    PROVE  MjInv'
  <1>1. LoggedIsServed' /\ OnceInALog' /\ MigratedIsReceived'
    BY DEF MjInv, LoggedIsServed, OnceInALog, MigratedIsReceived, InSomeLog, Served
  <1>2. \A f \in Forward : Receiving(f)' => Receiving(f)
    BY DEF Receiving
  <1>3. OneReception'
    BY <1>2 DEF MjInv, OneReception
  <1>4. ReceptionsAreNew'
    BY <1>2 DEF MjInv, ReceptionsAreNew, InSomeLog, Served
  <1> QED
    BY <1>1, <1>3, <1>4 DEF MjInv

LEMMA MjSends ==
    ASSUME MjInv, NEW f \in Forward, ForwardJob(f) \/ ForwardFails(f) \/ ForwardTimesOut(f) \/ Refuse(f)
    PROVE  MjInv'
  <1>1. /\ serving' \in [Forward -> {"none", "sent", "upserted", "enqueued", "ok", "refused"}]
        /\ meshWaiting' \in SUBSET Forward /\ meshFaults' \in 0 .. MaxMeshFaults
        /\ UNCHANGED <<trusted, held, rep, log>>
        /\ \A g \in Forward : \/ serving'[g] = serving[g]
                              \/ serving'[g] \notin {"ok", "upserted", "enqueued"}
    <2> USE DEF MjInv, MjTables, MeshJobsTypeOK
    <2>1. CASE ForwardJob(f)
      BY <2>1 DEF ForwardJob
    <2>2. CASE ForwardFails(f)
      BY <2>2 DEF ForwardFails
    <2>3. CASE ForwardTimesOut(f)
      BY <2>3, RowAssumption DEF ForwardTimesOut, MeshFault
    <2>4. CASE Refuse(f)
      BY <2>4 DEF Refuse
    <2> QED
      BY <2>1, <2>2, <2>3, <2>4
  <1>2. MjTables'
    BY <1>1 DEF MjInv, MjTables, MeshJobsTypeOK
  <1> QED
    BY <1>1, <1>2, ServingChanges

LEMMA MjRestarts ==
    ASSUME MjInv, NEW s \in Site, SiteRestarts(s) PROVE MjInv'
  <1>1. /\ serving' \in [Forward -> {"none", "sent", "upserted", "enqueued", "ok", "refused"}]
        /\ meshWaiting' \in SUBSET Forward /\ meshFaults' \in 0 .. MaxMeshFaults
        /\ UNCHANGED <<trusted, held, rep, log>>
        /\ \A g \in Forward : \/ serving'[g] = serving[g]
                              \/ serving'[g] \notin {"ok", "upserted", "enqueued"}
    BY RowAssumption DEF SiteRestarts, MeshFault, MjInv, MjTables, MeshJobsTypeOK
  <1>2. MjTables'
    BY <1>1 DEF MjInv, MjTables, MeshJobsTypeOK
  <1> QED
    BY <1>1, <1>2, ServingChanges

\* A write to the replicated queue whose job, if it says migrated, is stored at the owner.
LEMMA RowSet ==
    ASSUME MjInv, NEW s \in Site, NEW j \in MeshJob, NEW st \in {"queued", "migrated"},
           NEW owner \in Site, Upsert(s, j, st, owner)
    PROVE  /\ rep' \in [Site -> [MeshJob -> Row \cup {NoRow}]]
           /\ UNCHANGED held /\ (st = "migrated" => Served(owner, j)) => MigratedIsReceived'
  <1>1. rep \in [Site -> [MeshJob -> Row \cup {NoRow}]]
    BY DEF MjInv, MjTables, MeshJobsTypeOK
  <1> DEFINE new == [state |-> st, owner |-> owner]
  <1>2. new \in Row /\ new.state = st /\ new.owner = owner
    BY DEF Row
  <1>3. rep' = [rep EXCEPT ![s][j] = new]
    BY DEF Upsert
  <1> HIDE DEF new
  <1>4. /\ rep' \in [Site -> [MeshJob -> Row \cup {NoRow}]]
        /\ \A t \in Site, k \in MeshJob : rep'[t][k] = IF t = s /\ k = j THEN new ELSE rep[t][k]
    BY <1>1, <1>2, <1>3
  <1>5. ASSUME UNCHANGED held, st = "migrated" => Served(owner, j),
               NEW t \in Site, NEW k \in MeshJob, rep'[t][k] # NoRow, rep'[t][k].state = "migrated"
        PROVE  held'[rep'[t][k].owner][k] # "no"
    <2>1. CASE t = s /\ k = j
      BY <1>2, <1>4, <1>5, <2>1 DEF Served
    <2>2. CASE ~ (t = s /\ k = j)
      BY <1>4, <1>5, <2>2 DEF MjInv, MigratedIsReceived
    <2> QED
      BY <2>1, <2>2
  <1> QED
    BY <1>4, <1>5 DEF MigratedIsReceived

LEMMA MjForwards ==
    ASSUME MjInv, NEW f \in Forward, ForwardDone(f) PROVE MjInv'
  <1>1. /\ serving[f] = "ok" /\ serving' = [serving EXCEPT ![f] = "none"]
        /\ meshWaiting' = meshWaiting \ {f} /\ Upsert(f.from, f.job, "migrated", f.to)
        /\ UNCHANGED <<trusted, held, log, meshFaults>>
    BY DEF ForwardDone
  <1>2. f.from \in Site /\ f.to \in Site /\ f.job \in MeshJob
    BY DEF Forward
  <1>3. Served(f.to, f.job)
    BY <1>1 DEF MjInv, ReceptionsAreNew
  <1>4. rep' \in [Site -> [MeshJob -> Row \cup {NoRow}]] /\ MigratedIsReceived'
    BY <1>1, <1>2, <1>3, RowSet
  <1>5. MjTables'
    BY <1>1, <1>4 DEF MjInv, MjTables, MeshJobsTypeOK
  <1>6. \A g \in Forward : serving'[g] = IF g = f THEN "none" ELSE serving[g]
    BY <1>1 DEF MjInv, MjTables, MeshJobsTypeOK
  <1>7. \A g \in Forward : Receiving(g)' => Receiving(g)
    BY <1>6 DEF Receiving
  <1>8. OneReception'
    BY <1>7 DEF MjInv, OneReception
  <1>9. ReceptionsAreNew'
    BY <1>1, <1>6, <1>7 DEF MjInv, ReceptionsAreNew, InSomeLog, Served
  <1>10. LoggedIsServed' /\ OnceInALog'
    BY <1>1 DEF MjInv, LoggedIsServed, OnceInALog, InSomeLog, Served
  <1> QED
    BY <1>4, <1>5, <1>8, <1>9, <1>10 DEF MjInv

LEMMA MjReceives ==
    ASSUME MjInv, NEW f \in Forward, ReceiveMigration(f) PROVE MjInv'
  <1>1. f.from \in Site /\ f.to \in Site /\ f.job \in MeshJob
    BY DEF Forward
  <1>2. CASE Served(f.to, f.job)
    <2>1. /\ serving' = [serving EXCEPT ![f] = "ok"]
          /\ UNCHANGED <<trusted, held, rep, log, meshWaiting, meshFaults>>
      BY <1>2 DEF ReceiveMigration, Served
    <2>2. MjTables'
      BY <2>1 DEF MjInv, MjTables, MeshJobsTypeOK
    <2>3. \A g \in Forward : serving'[g] = IF g = f THEN "ok" ELSE serving[g]
      BY <2>1 DEF MjInv, MjTables, MeshJobsTypeOK
    <2> QED
      BY <1>2, <2>1, <2>2, <2>3, ServingChanges
  <1>3. CASE ~ Served(f.to, f.job)
    <2>1. /\ serving' = [serving EXCEPT ![f] = "upserted"] /\ Upsert(f.to, f.job, "queued", f.to)
          /\ LoopFree(f.to) /\ UNCHANGED <<trusted, held, log, meshWaiting, meshFaults>>
      BY <1>3 DEF ReceiveMigration, Served
    <2>2. rep' \in [Site -> [MeshJob -> Row \cup {NoRow}]] /\ MigratedIsReceived'
      BY <1>1, <2>1, RowSet
    <2>3. MjTables'
      BY <2>1, <2>2 DEF MjInv, MjTables, MeshJobsTypeOK
    <2>4. \A g \in Forward : serving'[g] = IF g = f THEN "upserted" ELSE serving[g]
      BY <2>1 DEF MjInv, MjTables, MeshJobsTypeOK
    <2>5. \A g \in Forward : Receiving(g)' => g = f \/ (Receiving(g) /\ g.to # f.to)
      BY <2>1, <2>4 DEF Receiving, LoopFree
    <2>6. OneReception'
      BY <2>5 DEF MjInv, OneReception
    <2>7. ~ InSomeLog([source |-> f.to, job |-> f.job])
      BY <1>1, <1>3 DEF MjInv, LoggedIsServed, MeshEvent
    <2>8. \A e : InSomeLog(e)' <=> InSomeLog(e)
      BY <2>1 DEF InSomeLog
    <2>9. ReceptionsAreNew'
      <3> SUFFICES ASSUME NEW g \in Forward
                   PROVE  /\ serving'[g] \in {"ok", "enqueued"} => Served(g.to, g.job)'
                          /\ Receiving(g)' => ~ InSomeLog([source |-> g.to, job |-> g.job])'
        BY DEF ReceptionsAreNew
      <3>1. serving'[g] \in {"ok", "enqueued"} => Served(g.to, g.job)'
        <4>1. serving'[g] \in {"ok", "enqueued"} => serving[g] = serving'[g]
          BY <2>4
        <4> QED
          BY <2>1, <4>1 DEF MjInv, ReceptionsAreNew, Served
      <3>2. Receiving(g)' => ~ InSomeLog([source |-> g.to, job |-> g.job])
        BY <2>5, <2>7 DEF MjInv, ReceptionsAreNew
      <3> QED
        BY <2>8, <3>1, <3>2
    <2>10. LoggedIsServed' /\ OnceInALog'
      BY <2>1 DEF MjInv, LoggedIsServed, OnceInALog, InSomeLog, Served
    <2> QED
      BY <2>2, <2>3, <2>6, <2>9, <2>10 DEF MjInv
  <1> QED
    BY <1>2, <1>3

LEMMA MjEnqueues ==
    ASSUME MjInv, NEW f \in Forward, ReceiveEnqueue(f) PROVE MjInv'
  <1>1. /\ serving[f] = "upserted" /\ serving' = [serving EXCEPT ![f] = "enqueued"]
        /\ held' = [held EXCEPT ![f.to][f.job] = "queued"]
        /\ UNCHANGED <<trusted, rep, log, meshWaiting, meshFaults>>
    BY DEF ReceiveEnqueue
  <1>2. f.from \in Site /\ f.to \in Site /\ f.job \in MeshJob
    BY DEF Forward
  <1>3. /\ HeldGrows /\ Served(f.to, f.job)'
        /\ held' \in [Site -> [MeshJob -> {"no", "queued", "ran"}]]
    BY <1>1, <1>2, HeldSet
  <1>4. MjTables'
    BY <1>1, <1>3 DEF MjInv, MjTables, MeshJobsTypeOK
  <1>5. \A g \in Forward : serving'[g] = IF g = f THEN "enqueued" ELSE serving[g]
    BY <1>1 DEF MjInv, MjTables, MeshJobsTypeOK
  <1>6. \A g \in Forward : Receiving(g)' => Receiving(g)
    BY <1>1, <1>5 DEF Receiving
  <1>7. OneReception'
    BY <1>6 DEF MjInv, OneReception
  <1>8. \A e : InSomeLog(e)' <=> InSomeLog(e)
    BY <1>1 DEF InSomeLog
  <1>9. ReceptionsAreNew'
    <2> SUFFICES ASSUME NEW g \in Forward
                 PROVE  /\ serving'[g] \in {"ok", "enqueued"} => Served(g.to, g.job)'
                        /\ Receiving(g)' => ~ InSomeLog([source |-> g.to, job |-> g.job])'
      BY DEF ReceptionsAreNew
    <2>1. g.to \in Site /\ g.job \in MeshJob
      BY DEF Forward
    <2>2. serving'[g] \in {"ok", "enqueued"} => Served(g.to, g.job)'
      BY <1>3, <1>5, <2>1 DEF MjInv, ReceptionsAreNew, HeldGrows
    <2> QED
      BY <1>6, <1>8, <2>2 DEF MjInv, ReceptionsAreNew
  <1>10. LoggedIsServed'
    BY <1>3, <1>8 DEF MjInv, LoggedIsServed, HeldGrows, MeshEvent
  <1>11. OnceInALog'
    BY <1>1 DEF MjInv, OnceInALog
  <1>12. MigratedIsReceived'
    <2> SUFFICES ASSUME NEW s \in Site, NEW j \in MeshJob, rep[s][j] # NoRow,
                        rep[s][j].state = "migrated"
                 PROVE  Served(rep[s][j].owner, j)'
      BY <1>1 DEF MigratedIsReceived, Served
    <2>1. rep[s][j].owner \in Site
      BY DEF MjInv, MjTables, MeshJobsTypeOK, Row
    <2>2. Served(rep[s][j].owner, j)
      BY DEF MjInv, MigratedIsReceived, Served
    <2>3. \A o \in Site : Served(o, j) => held'[o][j] # "no"
      BY <1>3 DEF HeldGrows, Served
    <2>4. held'[rep[s][j].owner][j] # "no"
      BY <2>1, <2>2, <2>3
    <2> QED
      BY <1>1, <2>4 DEF Served
  <1> QED
    BY <1>4, <1>7, <1>9, <1>10, <1>11, <1>12 DEF MjInv

LEMMA MjLogs ==
    ASSUME MjInv, NEW f \in Forward, ReceiveLog(f) PROVE MjInv'
  <1> DEFINE e == [source |-> f.to, job |-> f.job]
  <1>1. /\ serving[f] = "enqueued" /\ serving' = [serving EXCEPT ![f] = "ok"]
        /\ log' = [log EXCEPT ![f.to] = Append(@, e)]
        /\ UNCHANGED <<trusted, held, rep, meshWaiting, meshFaults>>
    BY DEF ReceiveLog
  <1>2. f.from \in Site /\ f.to \in Site /\ f.job \in MeshJob
    BY DEF Forward
  <1>3. e \in MeshEvent /\ e.source = f.to /\ e.job = f.job
    BY <1>2 DEF MeshEvent
  <1>4. Served(f.to, f.job) /\ ~ InSomeLog(e) /\ Receiving(f)
    BY <1>1 DEF MjInv, ReceptionsAreNew, Receiving
  <1>5. \A g \in Forward : [source |-> g.to, job |-> g.job] = e => g.to = f.to
    OBVIOUS
  <1> HIDE DEF e
  <1>6. \A s \in Site : /\ log[s] \in Seq(MeshEvent) /\ Len(log[s]) \in Nat
                        /\ log'[s] = IF s = f.to THEN Append(log[s], e) ELSE log[s]
    BY <1>1 DEF MjInv, MjTables, MeshJobsTypeOK
  <1>7. MjTables'
    <2>1. \A s \in Site : log'[s] \in Seq(MeshEvent)
      <3>1. \A l \in Seq(MeshEvent) : Append(l, e) \in Seq(MeshEvent)
        BY <1>3
      <3> QED
        BY <1>6, <3>1
    <2>2. log' = [s \in Site |-> log'[s]]
      BY <1>1 DEF MjInv, MjTables
    <2> QED
      BY <1>1, <2>1, <2>2 DEF MjInv, MjTables, MeshJobsTypeOK
  <1>8. \A g \in Forward : serving'[g] = IF g = f THEN "ok" ELSE serving[g]
    BY <1>1 DEF MjInv, MjTables, MeshJobsTypeOK
  <1>9. \A g \in Forward : Receiving(g)' => Receiving(g) /\ g.to # f.to
    BY <1>4, <1>8 DEF MjInv, OneReception, Receiving
  <1>10. OneReception'
    BY <1>9 DEF MjInv, OneReception
  <1>11. \A d : InSomeLog(d)' => InSomeLog(d) \/ d = e
    <2> SUFFICES ASSUME NEW d, NEW s \in Site, NEW i \in 1 .. Len(log'[s]), log'[s][i] = d, d # e
                 PROVE  InSomeLog(d)
      BY DEF InSomeLog
    <2>1. CASE s = f.to
      <3>1. log'[s] = Append(log[s], e) /\ log[s] \in Seq(MeshEvent) /\ Len(log[s]) \in Nat
        BY <1>6, <2>1
      <3>2. i \in 1 .. Len(log[s]) /\ log[s][i] = d
        BY <1>3, <3>1
      <3> QED
        BY <3>2 DEF InSomeLog
    <2>2. CASE s # f.to
      BY <1>6, <2>2 DEF InSomeLog
    <2> QED
      BY <2>1, <2>2
  <1>12. ReceptionsAreNew'
    <2> SUFFICES ASSUME NEW g \in Forward
                 PROVE  /\ serving'[g] \in {"ok", "enqueued"} => Served(g.to, g.job)'
                        /\ Receiving(g)' => ~ InSomeLog([source |-> g.to, job |-> g.job])'
      BY DEF ReceptionsAreNew
    <2>1. serving'[g] \in {"ok", "enqueued"} => Served(g.to, g.job)'
      BY <1>1, <1>4, <1>8 DEF MjInv, ReceptionsAreNew, Served
    <2>2. Receiving(g)' => ~ InSomeLog([source |-> g.to, job |-> g.job])'
      BY <1>5, <1>9, <1>11 DEF MjInv, ReceptionsAreNew
    <2> QED
      BY <2>1, <2>2
  <1>13. LoggedIsServed'
    BY <1>1, <1>3, <1>4, <1>11 DEF MjInv, LoggedIsServed, Served
  <1>14. OnceInALog'
    <2> SUFFICES ASSUME NEW s \in Site
                 PROVE  \A i, k \in 1 .. Len(log'[s]) : log'[s][i] = log'[s][k] => i = k
      BY DEF OnceInALog
    <2>1. CASE s = f.to
      <3> DEFINE l == log[s]
                 m == log'[s]
      <3>1. m = Append(l, e) /\ l \in Seq(MeshEvent) /\ Len(l) \in Nat
        BY <1>6, <2>1
      <3>2. \A i, k \in 1 .. Len(l) : l[i] = l[k] => i = k
        BY DEF MjInv, OnceInALog
      <3>3. \A i \in 1 .. Len(l) : l[i] # e
        BY <1>4 DEF InSomeLog
      <3> HIDE DEF l, m
      <3>4. /\ Len(m) = Len(l) + 1 /\ m[Len(l) + 1] = e /\ \A i \in 1 .. Len(l) : m[i] = l[i]
            /\ \A i \in 1 .. Len(m) : i \in 1 .. Len(l) \/ i = Len(l) + 1
        BY <1>3, <3>1
      <3>5. \A i, k \in 1 .. Len(m) : m[i] = m[k] => i = k
        BY <3>2, <3>3, <3>4
      <3> QED
        BY <3>5 DEF m
    <2>2. CASE s # f.to
      BY <1>6, <2>2 DEF MjInv, OnceInALog
    <2> QED
      BY <2>1, <2>2
  <1>15. MigratedIsReceived'
    BY <1>1 DEF MjInv, MigratedIsReceived
  <1> QED
    BY <1>7, <1>10, <1>12, <1>13, <1>14, <1>15 DEF MjInv

LEMMA MjCopies ==
    ASSUME MjInv, NEW s \in Site, NEW t \in Site, CopyEvents(s, t) PROVE MjInv'
  <1>1. PICK since \in 0 .. Len(log[s]) - 1, limit \in 1 .. 2 :
            log' = [log EXCEPT ![t] = MergeEvents(@, Replay(s, since, limit))]
    BY DEF CopyEvents
  <1>2. UNCHANGED <<trusted, held, rep, serving, meshWaiting, meshFaults>>
    BY DEF CopyEvents
  <1> DEFINE l == log[t]
             events == Replay(s, since, limit)
             m == Extended(l, events)
  <1>3. /\ \A r \in Site : log[r] \in Seq(MeshEvent)
        /\ \A r \in Site : log'[r] = IF r = t THEN m ELSE log[r]
        /\ log' = [r \in Site |-> log'[r]]
    BY <1>1 DEF MergeEvents, MjInv, MjTables, MeshJobsTypeOK
  <1>4. /\ events \in Seq(MeshEvent)
        /\ \A i \in 1 .. Len(events) : \E k \in 1 .. Len(log[s]) : events[i] = log[s][k]
    <2> DEFINE last == IF since + limit < Len(log[s]) THEN since + limit ELSE Len(log[s])
    <2>1. log[s] \in Seq(MeshEvent) /\ Len(log[s]) \in Nat /\ since \in Nat /\ limit \in Nat
          /\ since + 1 \in 1 .. Len(log[s]) /\ last \in Nat /\ last <= Len(log[s])
      BY <1>3
    <2>2. events = SubSeq(log[s], since + 1, last)
      BY DEF Replay
    <2> HIDE DEF last
    <2>3. events \in Seq(MeshEvent)
      BY <2>1, <2>2
    <2>4. ASSUME NEW i \in 1 .. Len(events) PROVE \E k \in 1 .. Len(log[s]) : events[i] = log[s][k]
      <3>1. since + i \in 1 .. Len(log[s]) /\ events[i] = log[s][since + i]
        BY <2>1, <2>2
      <3> QED
        BY <3>1
    <2> QED
      BY <2>3, <2>4
  <1>5. \A i, k \in 1 .. Len(l) : l[i] = l[k] => i = k
    BY DEF MjInv, OnceInALog
  <1>6. l \in Seq(MeshEvent)
    BY <1>3
  <1> HIDE DEF l, events
  <1>7. /\ m \in Seq(MeshEvent)
        /\ \A i, k \in 1 .. Len(m) : m[i] = m[k] => i = k
        /\ \A k \in 1 .. Len(m) : \/ \E i \in 1 .. Len(l) : m[k] = l[i]
                                  \/ \E i \in 1 .. Len(events) : m[k] = events[i]
    <2>1. events \in Seq(MeshEvent)
      BY <1>4
    <2>2. /\ Extended(l, events) \in Seq(MeshEvent)
          /\ \A i, j \in 1 .. Len(Extended(l, events)) :
                Extended(l, events)[i] = Extended(l, events)[j] => i = j
          /\ \A k \in 1 .. Len(Extended(l, events)) :
                \/ \E i \in 1 .. Len(l) : Extended(l, events)[k] = l[i]
                \/ \E i \in 1 .. Len(events) : Extended(l, events)[k] = events[i]
      BY ONLY <1>5, <1>6, <2>1, ExtendedKeeps
    <2> QED
      BY ONLY <2>2
  <1> HIDE DEF m
  <1>8. \A d : InSomeLog(d)' => InSomeLog(d)
    <2> SUFFICES ASSUME NEW d, NEW r \in Site, NEW i \in 1 .. Len(log'[r]), log'[r][i] = d
                 PROVE  InSomeLog(d)
      BY DEF InSomeLog
    <2>1. CASE r = t
      <3>1. i \in 1 .. Len(m) /\ m[i] = d
        BY <1>3, <2>1
      <3>2. \/ \E k \in 1 .. Len(l) : m[i] = l[k]
            \/ \E k \in 1 .. Len(events) : m[i] = events[k]
        BY ONLY <1>7, <3>1
      <3>3. \/ \E k \in 1 .. Len(l) : d = l[k]
            \/ \E k \in 1 .. Len(log[s]) : d = log[s][k]
        BY ONLY <1>4, <3>1, <3>2
      <3> QED
        BY <3>3 DEF InSomeLog, l
    <2>2. CASE r # t
      BY <1>3, <2>2 DEF InSomeLog
    <2> QED
      BY <2>1, <2>2
  <1>9. MjTables'
    BY <1>2, <1>3, <1>7 DEF MjInv, MjTables, MeshJobsTypeOK
  <1>10. OneReception' /\ MigratedIsReceived'
    BY <1>2 DEF MjInv, OneReception, Receiving, MigratedIsReceived
  <1>11. ReceptionsAreNew'
    BY <1>2, <1>8 DEF MjInv, ReceptionsAreNew, Receiving, Served
  <1>12. LoggedIsServed'
    BY <1>2, <1>8 DEF MjInv, LoggedIsServed, Served
  <1>13. OnceInALog'
    BY <1>3, <1>7 DEF MjInv, OnceInALog
  <1> QED
    BY <1>9, <1>10, <1>11, <1>12, <1>13 DEF MjInv

LEMMA MjInvNext == MjInv /\ [MjNext]_mjVars => MjInv'
  <1> SUFFICES ASSUME MjInv, [MjNext]_mjVars PROVE MjInv'
    OBVIOUS
  <1>1. CASE UNCHANGED mjVars
    <2>1. MjTables' /\ UNCHANGED <<held, rep, log, serving>>
      BY <1>1 DEF mjVars, MjInv, MjTables, MeshJobsTypeOK
    <2>2. HeldGrows
      BY <2>1 DEF HeldGrows, Served
    <2> QED
      BY <2>1, <2>2, HeldChanges
  <1> QED
    BY <1>1, MjHere, MjSends, MjForwards, MjReceives, MjEnqueues, MjLogs, MjRestarts, MjCopies
    DEF MjNext

-----------------------------------------------------------------------------
(* The threads that evaluate the policies *)

TriggerSum == SumFunctionOnSet(triggers, Policy)
ResultSum == SumFunctionOnSet(results, Evaluator)

PoInv ==
    /\ PoliciesTypeOK
    /\ \A e \in Evaluator : judging[e] = Idle => results[e] = 0
    /\ TriggerSum = evaluations + ResultSum

\* The sums of the property are sums of functions.
LEMMA PolicySums ==
    /\ MapThenSumSet(LAMBDA p : triggers[p], Policy) = TriggerSum
    /\ MapThenSumSet(LAMBDA e : results[e], Evaluator) = ResultSum
  BY DEF MapThenSumSet, MapThenFoldSet, SumFunctionOnSet, FoldFunctionOnSet, TriggerSum, ResultSum

LEMMA PoInvImplies == PoInv => PoliciesTypeOK /\ EvaluationsAddUp
  BY PolicySums DEF PoInv, EvaluationsAddUp

LEMMA PoInvInit == PoInit => PoInv
  <1> SUFFICES ASSUME PoInit PROVE PoInv
    OBVIOUS
  <1>1. TriggerSum = 0 /\ ResultSum = 0
    BY SumOfZeros, PolicyAssumption DEF PoInit, TriggerSum, ResultSum
  <1> QED
    BY <1>1 DEF PoInit, PoInv, PoliciesTypeOK, PolicyMode, Idle

\* A step that leaves the sums alone, or counts a trigger and a result, or hands the
\* results of one thread over.
LEMMA ResultsChange ==
    ASSUME PoliciesTypeOK, PoliciesTypeOK', NEW e \in Evaluator,
           results' = [results EXCEPT ![e] = results'[e]]
    PROVE  ResultSum' = ResultSum - results[e] + results'[e] /\ ResultSum \in Nat /\ results[e] \in Nat
  <1>1. \A d \in Evaluator : results[d] \in Nat /\ results'[d] \in Nat
    BY DEF PoliciesTypeOK
  <1>2. \A d \in Evaluator \ {e} : results[d] = results'[d]
    BY DEF PoliciesTypeOK
  <1>3. SumFunctionOnSet(results', Evaluator)
            = SumFunctionOnSet(results, Evaluator) - results[e] + results'[e]
    BY <1>1, <1>2, PolicyAssumption, SumChanges
  <1>4. SumFunctionOnSet(results, Evaluator) \in Nat
    BY <1>1, PolicyAssumption, SumIsNat
  <1> QED
    BY <1>1, <1>3, <1>4 DEF ResultSum

LEMMA TriggersCount ==
    ASSUME PoliciesTypeOK, PoliciesTypeOK', NEW p \in Policy,
           triggers' = [triggers EXCEPT ![p] = triggers'[p]], triggers'[p] = triggers[p] + 1
    PROVE  TriggerSum' = TriggerSum + 1 /\ TriggerSum \in Nat
  <1>1. \A q \in Policy : triggers[q] \in Nat /\ triggers'[q] \in Nat
    BY DEF PoliciesTypeOK
  <1>5. \A q \in Policy \ {p} : triggers[q] = triggers'[q]
    BY DEF PoliciesTypeOK
  <1>6. IsFiniteSet(Policy)
    BY PolicyAssumption
  <1>3. SumFunctionOnSet(triggers', Policy)
            = SumFunctionOnSet(triggers, Policy) - triggers[p] + triggers'[p]
    BY <1>1, <1>5, <1>6, SumChanges
  <1>4. SumFunctionOnSet(triggers, Policy) \in Nat
    BY <1>1, PolicyAssumption, SumIsNat
  <1> QED
    BY <1>1, <1>3, <1>4 DEF TriggerSum

LEMMA PoRegisters ==
    ASSUME PoInv, NEW p \in Policy, RegisterPolicy(p) \/ RemovePolicy(p) PROVE PoInv'
  BY DEF RegisterPolicy, RemovePolicy, PoInv, PoliciesTypeOK, TriggerSum, ResultSum

LEMMA PoJudges ==
    ASSUME PoInv, NEW e \in Evaluator, Untriggered(e) \/ Triggered(e) PROVE PoInv'
  <1>1. UNCHANGED <<registered, triggers, results, evaluations, adaptations>>
    BY DEF Untriggered, Triggered
  <1>2. CASE Untriggered(e)
    BY <1>1, <1>2 DEF Untriggered, PoInv, PoliciesTypeOK, TriggerSum, ResultSum
  <1>3. CASE Triggered(e)
    <2>1. PICK p \in todo[e] :
              /\ todo' = [todo EXCEPT ![e] = @ \ {p}]
              /\ judging' = [judging EXCEPT ![e] = p]
              /\ oldMode' = [oldMode EXCEPT ![e] = pmode[p]]
              /\ \E m \in TriggeredModes(p) : pmode' = [pmode EXCEPT ![p] = m]
      BY <1>3 DEF Triggered
    <2>2. p \in Policy /\ pmode[p] \in PolicyMode
      BY DEF PoInv, PoliciesTypeOK
    <2>3. TriggeredModes(p) \subseteq PolicyMode
      BY <2>2 DEF TriggeredModes, PolicyMode
    <2>4. p # Idle
      BY <2>2, PolicyAssumption
    <2>5. pmode' \in [Policy -> PolicyMode]
      BY <2>1, <2>3 DEF PoInv, PoliciesTypeOK
    <2>6. PoliciesTypeOK'
      BY <1>1, <2>1, <2>2, <2>5 DEF PoInv, PoliciesTypeOK
    <2>7. \A d \in Evaluator : judging'[d] = Idle => results'[d] = 0
      BY <1>1, <2>1, <2>4 DEF PoInv, PoliciesTypeOK
    <2> QED
      BY <1>1, <2>6, <2>7 DEF PoInv, TriggerSum, ResultSum
  <1> QED
    BY <1>2, <1>3

LEMMA PoBegins ==
    ASSUME PoInv, NEW e \in Evaluator, BeginEvaluation(e) PROVE PoInv'
  <1>1. PoliciesTypeOK'
    BY DEF BeginEvaluation, PoInv, PoliciesTypeOK
  <1>2. results' = results
    BY DEF BeginEvaluation, PoInv, PoliciesTypeOK
  <1> QED
    BY <1>1, <1>2 DEF BeginEvaluation, PoInv, PoliciesTypeOK, TriggerSum, ResultSum, Idle

LEMMA PoCounts ==
    ASSUME PoInv, NEW e \in Evaluator, CountTrigger(e) PROVE PoInv'
  <1> DEFINE p == judging[e]
  <1>1. p \in Policy /\ triggers' = [triggers EXCEPT ![p] = @ + 1]
        /\ results' = [results EXCEPT ![e] = @ + 1] /\ evaluations' = evaluations
        /\ judging' = [judging EXCEPT ![e] = "between"]
        /\ adaptations' = (IF oldMode[e] # pmode[p] THEN adaptations + 1 ELSE adaptations)
        /\ UNCHANGED <<registered, pmode, todo, oldMode>>
    BY DEF CountTrigger
  <1> HIDE DEF p
  <1>2. PoliciesTypeOK'
    BY <1>1 DEF PoInv, PoliciesTypeOK
  <1>3. TriggerSum' = TriggerSum + 1 /\ TriggerSum \in Nat
    <2>1. triggers'[p] = triggers[p] + 1 /\ triggers' = [triggers EXCEPT ![p] = triggers'[p]]
      BY <1>1 DEF PoInv, PoliciesTypeOK
    <2> QED
      BY <1>1, <1>2, <2>1, TriggersCount DEF PoInv
  <1>4. results'[e] = results[e] + 1
    BY <1>1 DEF PoInv, PoliciesTypeOK
  <1>5. ResultSum' = ResultSum - results[e] + results'[e] /\ ResultSum \in Nat /\ results[e] \in Nat
    BY <1>1, <1>2, <1>4, ResultsChange DEF PoInv
  <1>6. TriggerSum' = evaluations' + ResultSum'
    BY <1>1, <1>3, <1>4, <1>5 DEF PoInv, PoliciesTypeOK
  <1>7. \A d \in Evaluator : judging'[d] = Idle => results'[d] = 0
    BY <1>1 DEF PoInv, PoliciesTypeOK, Idle
  <1> QED
    BY <1>2, <1>6, <1>7 DEF PoInv

LEMMA PoEnds ==
    ASSUME PoInv, NEW e \in Evaluator, EndEvaluation(e) PROVE PoInv'
  <1>1. /\ judging' = [judging EXCEPT ![e] = Idle] /\ evaluations' = evaluations + results[e]
        /\ results' = [results EXCEPT ![e] = 0]
        /\ UNCHANGED <<registered, pmode, triggers, todo, oldMode, adaptations>>
    BY DEF EndEvaluation
  <1>2. PoliciesTypeOK'
    BY <1>1 DEF PoInv, PoliciesTypeOK
  <1>3. results'[e] = 0
    BY <1>1 DEF PoInv, PoliciesTypeOK
  <1>4. ResultSum' = ResultSum - results[e] + results'[e] /\ ResultSum \in Nat /\ results[e] \in Nat
    BY <1>1, <1>2, <1>3, ResultsChange DEF PoInv
  <1>5. TriggerSum' = evaluations' + ResultSum'
    BY <1>1, <1>3, <1>4 DEF PoInv, PoliciesTypeOK, TriggerSum
  <1>6. \A d \in Evaluator : judging'[d] = Idle => results'[d] = 0
    BY <1>1 DEF PoInv, PoliciesTypeOK
  <1> QED
    BY <1>2, <1>5, <1>6 DEF PoInv

LEMMA PoInvNext == PoInv /\ [PoNext]_poVars => PoInv'
  <1> SUFFICES ASSUME PoInv, [PoNext]_poVars PROVE PoInv'
    OBVIOUS
  <1>1. CASE UNCHANGED poVars
    BY <1>1 DEF poVars, PoInv, PoliciesTypeOK, TriggerSum, ResultSum
  <1> QED
    BY <1>1, PoRegisters, PoJudges, PoBegins, PoCounts, PoEnds DEF PoNext

-----------------------------------------------------------------------------
(* The size-limited caches *)

Sizes(c) == [i \in DOMAIN c |-> c[i].size]

OncePerKey(c) == \A i, j \in 1 .. Len(c) : c[i].key = c[j].key => i = j

OneSized(c) == \A i, j \in 1 .. Len(c) : c[i].size > 0 /\ c[j].size > 0 => i = j

\* What the accounts say of the entries of one cache.
InBounds(c) == /\ c \in Seq(Entry) /\ OncePerKey(c)
               /\ Total(c) > MaxBytes => OneSized(c)

CaInv ==
    /\ CachesTypeOK
    /\ cache = [b \in Box |-> cache[b]] /\ bytes = [b \in Box |-> bytes[b]]
    /\ \A b \in Box : bytes[b] = Total(cache[b]) /\ InBounds(cache[b])

LEMMA CacheDomain ==
    ASSUME NEW c \in Seq(Entry)
    PROVE  /\ DOMAIN c = 1 .. Len(c) /\ Len(c) \in Nat /\ IsFiniteSet(1 .. Len(c))
           /\ \A i \in 1 .. Len(c) : c[i] \in Entry /\ c[i].size \in Nat /\ Sizes(c)[i] = c[i].size
           /\ Total(c) = SumFunctionOnSet(Sizes(c), 1 .. Len(c))
  <1>1. DOMAIN c = 1 .. Len(c) /\ Len(c) \in Nat
    OBVIOUS
  <1>2. IsFiniteSet(1 .. Len(c))
    BY <1>1, FS_Interval
  <1>3. \A e \in Entry : e.size \in Nat
    BY CacheAssumption DEF Entry, Size
  <1>4. \A i \in 1 .. Len(c) : c[i] \in Entry
    OBVIOUS
  <1>5. Total(c) = SumFunctionOnSet(Sizes(c), 1 .. Len(c))
    BY <1>1 DEF Total, Sizes, SumFunction
  <1> QED
    BY <1>1, <1>2, <1>3, <1>4, <1>5 DEF Sizes

LEMMA SizeIsNat == \A e \in Entry : e.size \in Nat
  BY CacheAssumption DEF Entry, Size

LEMMA TotalIsNat == ASSUME NEW c \in Seq(Entry) PROVE Total(c) \in Nat
  BY CacheDomain, SumIsNat

LEMMA TotalOfNone == ASSUME NEW c \in Seq(Entry), Len(c) = 0 PROVE Total(c) = 0
  <1>1. 1 .. Len(c) = {}
    OBVIOUS
  <1> QED
    BY <1>1, CacheDomain, SumOfNone

LEMMA TotalAppends ==
    ASSUME NEW c \in Seq(Entry), NEW e \in Entry
    PROVE  Total(Append(c, e)) = Total(c) + e.size
  <1> DEFINE d == Append(c, e)
             n == Len(c) + 1
  <1>1. d \in Seq(Entry) /\ Len(d) = n /\ d[n] = e /\ \A i \in 1 .. Len(c) : d[i] = c[i]
    OBVIOUS
  <1> HIDE DEF d
  <1>2. /\ IsFiniteSet(1 .. n) /\ n \in 1 .. n /\ (1 .. n) \ {n} = 1 .. Len(c)
        /\ \A i \in 1 .. n : Sizes(d)[i] \in Int
    BY <1>1, CacheDomain
  <1>3. SumFunctionOnSet(Sizes(d), 1 .. n) = Sizes(d)[n] + SumFunctionOnSet(Sizes(d), (1 .. n) \ {n})
    BY <1>2, SumTakesOut
  <1>4. SumFunctionOnSet(Sizes(d), 1 .. Len(c)) = SumFunctionOnSet(Sizes(c), 1 .. Len(c))
    <2>1. \A i \in 1 .. Len(c) : Sizes(d)[i] = Sizes(c)[i]
      BY <1>1, CacheDomain
    <2>2. IsFiniteSet(1 .. Len(c))
      BY CacheDomain
    <2> QED
      BY <2>1, <2>2, SumAgrees
  <1>5. Sizes(d)[n] = e.size
    BY <1>1, <1>2, CacheDomain
  <1>6. Total(d) = SumFunctionOnSet(Sizes(d), 1 .. n)
    BY <1>1, CacheDomain
  <1>7. Total(c) = SumFunctionOnSet(Sizes(c), 1 .. Len(c)) /\ Total(c) \in Nat /\ e.size \in Nat
    BY CacheDomain, TotalIsNat, SizeIsNat
  <1> QED
    <2>1. Total(d) = e.size + Total(c)
      BY <1>2, <1>3, <1>4, <1>5, <1>6, <1>7
    <2> QED
      BY <1>7, <2>1 DEF d

\* Entries of the same sizes.
LEMMA TotalAgrees ==
    ASSUME NEW c \in Seq(Entry), NEW d \in Seq(Entry), Len(c) = Len(d),
           \A i \in 1 .. Len(c) : c[i].size = d[i].size
    PROVE  Total(c) = Total(d)
  <1>1. \A i \in 1 .. Len(c) : Sizes(c)[i] = Sizes(d)[i]
    BY CacheDomain
  <1>2. IsFiniteSet(1 .. Len(c))
    BY CacheDomain
  <1>3. SumFunctionOnSet(Sizes(c), 1 .. Len(c)) = SumFunctionOnSet(Sizes(d), 1 .. Len(c))
    BY <1>1, <1>2, SumAgrees
  <1> QED
    BY <1>3, CacheDomain

LEMMA TotalIsOfSome ==
    ASSUME NEW c \in Seq(Entry), Total(c) > 0
    PROVE  \E i \in 1 .. Len(c) : c[i].size > 0
  <1> SUFFICES ASSUME \A i \in 1 .. Len(c) : ~ (c[i].size > 0) PROVE FALSE
    OBVIOUS
  <1>1. \A i \in 1 .. Len(c) : Sizes(c)[i] = 0
    BY CacheDomain
  <1>2. IsFiniteSet(1 .. Len(c))
    BY CacheDomain
  <1>3. SumFunctionOnSet(Sizes(c), 1 .. Len(c)) = 0
    BY <1>1, <1>2, SumOfZeros
  <1> QED
    BY <1>3, CacheDomain

\* The entries of T and the others.
LEMMA TotalParts ==
    ASSUME NEW T, NEW U, T \cap U = {}, T \cup U \subseteq Entry, NEW c \in Seq(T \cup U)
    PROVE  Total(c) = Total(Selection(c, T)) + Total(Selection(c, U))
  <1> DEFINE A == T \cup U
             Good == {s \in Seq(A) : Total(s) = Total(Selection(s, T)) + Total(Selection(s, U))}
  <1>1. <<>> \in Good
    <2>1. <<>> \in Seq(A) /\ <<>> \in Seq(Entry) /\ Len(<<>>) = 0
      OBVIOUS
    <2>2. Total(<<>>) = 0
      BY <2>1, TotalOfNone
    <2>3. Selection(<<>>, T) = <<>> /\ Selection(<<>>, U) = <<>>
      BY SelectionOfNone
    <2>4. Total(<<>>) = Total(Selection(<<>>, T)) + Total(Selection(<<>>, U))
      BY <2>2, <2>3
    <2> QED
      BY <2>1, <2>4
  <1>2. ASSUME NEW s \in Seq(A), NEW x \in A, s \in Good PROVE Append(s, x) \in Good
    <2> DEFINE p == Selection(s, T)
               q == Selection(s, U)
    <2>1. s \in Seq(Entry) /\ x \in Entry /\ Append(s, x) \in Seq(A)
      OBVIOUS
    <2>7. x.size \in Nat
      BY <2>1, SizeIsNat
    <2>2. p \in Seq(Entry) /\ q \in Seq(Entry)
      BY <2>1, SelectionEmbeds
    <2>3. Total(Append(s, x)) = Total(s) + x.size
      BY <2>1, TotalAppends
    <2>4. Total(s) = Total(p) + Total(q) /\ Total(p) \in Nat /\ Total(q) \in Nat
      BY <1>2, <2>2, TotalIsNat
    <2>5. CASE x \in T
      <3>1. Selection(Append(s, x), T) = Append(p, x) /\ Selection(Append(s, x), U) = q
        <4>1. x \notin U
          BY <2>5
        <4> HIDE DEF A
        <4> QED
          BY <2>5, <4>1, SelectionAppends
      <3>2. Total(Append(p, x)) = Total(p) + x.size
        BY <2>1, <2>2, TotalAppends
      <3>3. Total(Append(s, x)) = Total(Selection(Append(s, x), T)) + Total(Selection(Append(s, x), U))
        <4> HIDE DEF p, q
        <4>1. Total(Append(s, x)) = Total(p) + Total(q) + x.size
          BY <2>3, <2>4
        <4> QED
          BY <2>4, <2>7, <3>1, <3>2, <4>1
      <3> QED
        BY <2>1, <3>3
    <2>6. CASE x \notin T
      <3>1. Selection(Append(s, x), T) = p /\ Selection(Append(s, x), U) = Append(q, x)
        <4>1. x \in U
          BY <2>6
        <4> HIDE DEF A
        <4> QED
          BY <2>6, <4>1, SelectionAppends
      <3>2. Total(Append(q, x)) = Total(q) + x.size
        BY <2>1, <2>2, TotalAppends
      <3>3. Total(Append(s, x)) = Total(Selection(Append(s, x), T)) + Total(Selection(Append(s, x), U))
        <4> HIDE DEF p, q
        <4>1. Total(Append(s, x)) = Total(p) + Total(q) + x.size
          BY <2>3, <2>4
        <4> QED
          BY <2>4, <2>7, <3>1, <3>2, <4>1
      <3> QED
        BY <2>1, <3>3
    <2> QED
      BY <2>5, <2>6
  <1> HIDE DEF Good
  <1>3. c \in Good
    BY <1>1, <1>2, SequenceInduction
  <1> QED
    BY <1>3 DEF Good

\* The entries before a cut and behind it.
LEMMA TotalCut ==
    ASSUME NEW c \in Seq(Entry), NEW m \in 0 .. Len(c)
    PROVE  Total(c) = Total(SubSeq(c, 1, m)) + Total(SubSeq(c, m + 1, Len(c)))
  <1> DEFINE Split(s, k) == Total(s) = Total(SubSeq(s, 1, k)) + Total(SubSeq(s, k + 1, Len(s)))
             Good == {s \in Seq(Entry) : \A k \in 0 .. Len(s) : Split(s, k)}
  <1>1. ASSUME NEW s \in Seq(Entry), NEW k \in 0 .. Len(s), k = Len(s) PROVE Split(s, k)
    <2>1. SubSeq(s, 1, k) = s
      BY <1>1
    <2>2. SubSeq(s, k + 1, Len(s)) \in Seq(Entry) /\ Len(SubSeq(s, k + 1, Len(s))) = 0
      BY <1>1
    <2>3. Total(SubSeq(s, k + 1, Len(s))) = 0
      BY <2>2, TotalOfNone
    <2>4. Total(s) \in Nat
      BY TotalIsNat
    <2>5. Total(s) = Total(s) + 0
      BY <2>4
    <2> QED
      BY <2>1, <2>3, <2>5
  <1>2. ASSUME NEW s \in Seq(Entry), s = <<>> PROVE s \in Good
    <2>1. \A k \in 0 .. Len(s) : k = Len(s)
      BY <1>2
    <2> HIDE DEF Split
    <2> QED
      BY <1>1, <2>1
  <1>3. ASSUME NEW s \in Seq(Entry), NEW x \in Entry, s \in Good PROVE Append(s, x) \in Good
    <2> DEFINE t == Append(s, x)
    <2>1. t \in Seq(Entry) /\ Len(t) = Len(s) + 1 /\ Len(s) \in Nat
      OBVIOUS
    <2>2. ASSUME NEW k \in 0 .. Len(t) PROVE Split(t, k)
      <3>1. CASE k = Len(t)
        <4> HIDE DEF Split, t
        <4> QED
          BY <1>1, <2>1, <3>1
      <3>2. CASE k # Len(t)
        <4> DEFINE p == SubSeq(s, 1, k)
                   q == SubSeq(s, k + 1, Len(s))
        <4>1. k \in 0 .. Len(s) /\ k \in Nat
          BY <2>1, <3>2
        <4>2. SubSeq(t, 1, k) = p
          BY <4>1
        <4>3. p \in Seq(Entry) /\ q \in Seq(Entry)
          BY <4>1
        <4>4. SubSeq(t, k + 1, Len(t)) = Append(q, x)
          <5> DEFINE u == SubSeq(t, k + 1, Len(t))
                     v == Append(q, x)
          <5>1. u \in Seq(Entry) /\ Len(u) = Len(s) + 1 - k
                /\ \A i \in 1 .. Len(u) : u[i] = t[k + i]
            BY <2>1, <4>1
          <5>2. v \in Seq(Entry) /\ Len(q) = Len(s) - k /\ Len(v) = Len(s) + 1 - k
            BY <2>1, <4>1, <4>3
          <5>3. \A i \in 1 .. Len(v) : v[i] = t[k + i]
            BY <2>1, <4>1, <4>3, <5>2
          <5> HIDE DEF u, v
          <5>4. u = v
            BY <5>1, <5>2, <5>3
          <5> QED
            BY <5>4 DEF u, v
        <4>5. Total(s) = Total(p) + Total(q)
          BY <1>3, <4>1
        <4>6. Total(t) = Total(s) + x.size /\ Total(Append(q, x)) = Total(q) + x.size
          BY <4>3, TotalAppends
        <4>7. Total(p) \in Nat /\ Total(q) \in Nat /\ x.size \in Nat
          BY <4>3, TotalIsNat, SizeIsNat
        <4> HIDE DEF t, p, q
        <4>8. Total(t) = Total(p) + Total(Append(q, x))
          BY <4>5, <4>6, <4>7
        <4> QED
          BY <4>2, <4>4, <4>8
      <3> QED
        BY <3>1, <3>2
    <2> HIDE DEF t, Split
    <2> QED
      BY <2>1, <2>2 DEF t
  <1>4. <<>> \in Seq(Entry)
    OBVIOUS
  <1>5. <<>> \in Good
    BY <1>2, <1>4
  <1> HIDE DEF Good
  <1>6. c \in Good
    BY <1>3, <1>5, SequenceInduction
  <1> QED
    BY <1>6 DEF Good

\* What a selection of the entries has of the bounds.
LEMMA SelectionInBounds ==
    ASSUME NEW c, InBounds(c), NEW T
    PROVE  /\ InBounds(Selection(c, T)) /\ Total(Selection(c, T)) <= Total(c)
           /\ OneSized(c) => OneSized(Selection(c, T))
           /\ \A i \in 1 .. Len(Selection(c, T)) :
                  Selection(c, T)[i] \in T /\ \E j \in 1 .. Len(c) : Selection(c, T)[i] = c[j]
  <1> DEFINE t == Selection(c, T)
             In == T \cap Range(c)
             Out == Range(c) \ T
  <1>1. c \in Seq(Entry) /\ Len(c) \in Nat /\ DOMAIN c = 1 .. Len(c)
    BY DEF InBounds
  <1>2. t \in Seq(Entry)
    BY <1>1, SelectionEmbeds
  <1>3. \E h \in [1 .. Len(t) -> 1 .. Len(c)] :
            /\ \A i \in 1 .. Len(t) : c[h[i]] \in T /\ t[i] = c[h[i]]
            /\ \A i, j \in 1 .. Len(t) : i < j => h[i] < h[j]
            /\ \A k \in 1 .. Len(c) : c[k] \in T => \E i \in 1 .. Len(t) : h[i] = k
    BY <1>1, SelectionEmbeds
  <1> HIDE DEF t
  <1>4. PICK h \in [1 .. Len(t) -> 1 .. Len(c)] :
            /\ \A i \in 1 .. Len(t) : c[h[i]] \in T /\ t[i] = c[h[i]]
            /\ \A i, j \in 1 .. Len(t) : i < j => h[i] < h[j]
    BY <1>3
  <1>5. Len(t) \in Nat
    BY <1>2
  <1>6. \A i, j \in 1 .. Len(t) : h[i] = h[j] => i = j
    BY <1>1, <1>4, <1>5
  <1>7. OncePerKey(t)
    BY <1>4, <1>6 DEF OncePerKey, InBounds
  <1>8. OneSized(c) => OneSized(t)
    BY <1>4, <1>6 DEF OneSized
  <1>9. Total(t) <= Total(c)
    <2>1. In \cap Out = {} /\ In \cup Out = Range(c)
      OBVIOUS
    <2>2. Range(c) \subseteq Entry /\ c \in Seq(Range(c))
      BY <1>1 DEF Range
    <2> HIDE DEF In, Out
    <2>3. Total(c) = Total(Selection(c, In)) + Total(Selection(c, Out))
      BY <2>1, <2>2, TotalParts
    <2>4. Selection(c, In) = t
      BY <2>2, SelectionWithin DEF In, t
    <2>5. Selection(c, Out) \in Seq(Entry)
      BY <1>1, SelectionEmbeds
    <2>6. Total(t) \in Nat /\ Total(Selection(c, Out)) \in Nat
      BY <1>2, <2>5, TotalIsNat
    <2> QED
      BY <2>3, <2>4, <2>6
  <1>10. InBounds(t)
    <2>1. Total(t) \in Nat /\ Total(c) \in Nat /\ MaxBytes \in Nat
      BY <1>1, <1>2, TotalIsNat, CacheAssumption
    <2> QED
      BY <1>2, <1>7, <1>8, <1>9, <2>1 DEF InBounds
  <1>11. \A i \in 1 .. Len(t) : t[i] \in T /\ \E j \in 1 .. Len(c) : t[i] = c[j]
    BY <1>4
  <1> QED
    BY <1>8, <1>9, <1>10, <1>11 DEF t

\* What the eviction leaves: nothing, or what fits beside the new entry.
LEMMA EvictedFits ==
    ASSUME NEW c, InBounds(c), NEW n \in Nat, NEW room \in Nat
    PROVE  LET t == Evicted(c, Total(c), n, room) IN
           /\ InBounds(t) /\ Total(t) <= Total(c)
           /\ \A i \in 1 .. Len(t) : \E j \in 1 .. Len(c) : t[i] = c[j]
           /\ Len(t) = 0 \/ Total(t) + n <= MaxBytes
  <1> DEFINE fits(i) == /\ Len(c) - i <= room
                        /\ \/ Total(c) - Total(SubSeq(c, 1, i)) + n <= MaxBytes
                           \/ i = Len(c)
             I == {i \in 0 .. Len(c) : fits(i)}
             cut == CHOOSE i \in 0 .. Len(c) : fits(i) /\ \A j \in 0 .. i - 1 : ~ fits(j)
             t == SubSeq(c, cut + 1, Len(c))
  <1>1. c \in Seq(Entry) /\ Len(c) \in Nat
    BY DEF InBounds
  <1>2. fits(Len(c))
    BY <1>1
  <1>3. cut \in 0 .. Len(c) /\ fits(cut)
    <2> HIDE DEF fits
    <2>1. I \in SUBSET Nat /\ I # {}
      BY <1>1, <1>2
    <2>2. PICK m \in I : \A k \in I : m <= k
      BY <2>1, LeastElement
    <2>3. m \in 0 .. Len(c) /\ fits(m) /\ \A j \in 0 .. m - 1 : ~ fits(j)
      BY <1>1, <2>2
    <2> QED
      BY <2>3
  <1>4. Evicted(c, Total(c), n, room) = t
    BY DEF Evicted
  <1>5. /\ Len(c) - cut <= room
        /\ \/ Total(c) - Total(SubSeq(c, 1, cut)) + n <= MaxBytes
           \/ cut = Len(c)
    BY <1>3
  <1> HIDE DEF cut, fits
  <1>6. /\ t \in Seq(Entry) /\ Len(t) = Len(c) - cut
        /\ \A i \in 1 .. Len(t) : cut + i \in 1 .. Len(c) /\ t[i] = c[cut + i]
        /\ SubSeq(c, 1, cut) \in Seq(Entry)
    BY <1>1, <1>3
  <1>7. Total(c) = Total(SubSeq(c, 1, cut)) + Total(t)
    BY <1>1, <1>3, TotalCut
  <1> HIDE DEF t
  <1>8. Total(t) \in Nat /\ Total(c) \in Nat /\ Total(SubSeq(c, 1, cut)) \in Nat /\ MaxBytes \in Nat
    BY <1>1, <1>6, TotalIsNat, CacheAssumption
  <1>9. Total(t) <= Total(c)
    BY <1>7, <1>8
  <1>10. OncePerKey(t)
    <2> SUFFICES ASSUME NEW i \in 1 .. Len(t), NEW j \in 1 .. Len(t), t[i].key = t[j].key PROVE i = j
      BY DEF OncePerKey
    <2>1. cut + i = cut + j
      BY <1>6 DEF InBounds, OncePerKey
    <2> QED
      BY <1>3, <1>6, <2>1
  <1>11. OneSized(c) => OneSized(t)
    <2> SUFFICES ASSUME OneSized(c), NEW i \in 1 .. Len(t), NEW j \in 1 .. Len(t),
                        t[i].size > 0, t[j].size > 0
                 PROVE  i = j
      BY DEF OneSized
    <2>1. cut + i = cut + j
      BY <1>6 DEF OneSized
    <2> QED
      BY <1>3, <1>6, <2>1
  <1>12. InBounds(t)
    BY <1>6, <1>8, <1>9, <1>10, <1>11 DEF InBounds
  <1>13. Len(t) = 0 \/ Total(t) + n <= MaxBytes
    BY <1>1, <1>3, <1>5, <1>6, <1>7, <1>8
  <1>14. \A i \in 1 .. Len(t) : \E j \in 1 .. Len(c) : t[i] = c[j]
    BY <1>6
  <1> QED
    BY <1>4, <1>9, <1>12, <1>13, <1>14

\* An entry of a new key goes behind the others.
LEMMA AppendInBounds ==
    ASSUME NEW c, InBounds(c), NEW e \in Entry, \A i \in 1 .. Len(c) : c[i].key # e.key,
           Len(c) = 0 \/ Total(c) + e.size <= MaxBytes
    PROVE  InBounds(Append(c, e)) /\ Total(Append(c, e)) = Total(c) + e.size
  <1> DEFINE d == Append(c, e)
  <1>1. c \in Seq(Entry) /\ Len(c) \in Nat
    BY DEF InBounds
  <1>2. /\ d \in Seq(Entry) /\ Len(d) = Len(c) + 1 /\ d[Len(c) + 1] = e
        /\ \A i \in 1 .. Len(c) : d[i] = c[i]
        /\ \A i \in 1 .. Len(d) : i \in 1 .. Len(c) \/ i = Len(c) + 1
    BY <1>1
  <1>3. Total(d) = Total(c) + e.size
    BY <1>1, TotalAppends
  <1> HIDE DEF d
  <1>4. OncePerKey(d)
    BY <1>2 DEF InBounds, OncePerKey
  <1>5. Total(d) > MaxBytes => OneSized(d)
    <2> SUFFICES ASSUME Total(d) > MaxBytes PROVE OneSized(d)
      OBVIOUS
    <2>1. Total(c) \in Nat /\ e.size \in Nat /\ MaxBytes \in Nat
      BY <1>1, TotalIsNat, SizeIsNat, CacheAssumption
    <2>2. Len(c) = 0
      BY <1>3, <2>1
    <2> QED
      BY <1>2, <2>2 DEF OneSized
  <1>6. InBounds(d)
    BY <1>2, <1>4, <1>5 DEF InBounds
  <1> QED
    BY <1>3, <1>6 DEF d

\* The entries of a key and the others.
LEMMA KeyParts ==
    ASSUME NEW c, InBounds(c), NEW k
    PROVE  /\ InBounds(Without(c, k))
           /\ OneSized(c) => OneSized(Without(c, k))
           /\ Total(c) = Total(Without(c, k)) + Total(Of(c, k))
           /\ Total(Without(c, k)) <= Total(c)
           /\ \A i \in 1 .. Len(Without(c, k)) :
                  /\ Without(c, k)[i].key # k
                  /\ \E j \in 1 .. Len(c) : Without(c, k)[i] = c[j]
           /\ InBounds(Of(c, k))
  <1> DEFINE T == {e \in Range(c) : e.key # k}
             U == {e \in Range(c) : e.key = k}
  <1>1. c \in Seq(Entry) /\ DOMAIN c = 1 .. Len(c)
    BY DEF InBounds
  <1>2. T \cap U = {} /\ T \cup U = Range(c) /\ Range(c) \subseteq Entry /\ c \in Seq(Range(c))
    BY <1>1 DEF Range
  <1>3. Without(c, k) = Selection(c, T) /\ Of(c, k) = Selection(c, U)
    BY DEF Without, Of
  <1>4. \A e \in T : e.key # k
    OBVIOUS
  <1> HIDE DEF T, U
  <1>5. Total(c) = Total(Selection(c, T)) + Total(Selection(c, U))
    BY <1>2, TotalParts
  <1>6. /\ InBounds(Selection(c, T))
        /\ OneSized(c) => OneSized(Selection(c, T))
        /\ Total(Selection(c, T)) <= Total(c)
        /\ \A i \in 1 .. Len(Selection(c, T)) :
               Selection(c, T)[i] \in T /\ \E j \in 1 .. Len(c) : Selection(c, T)[i] = c[j]
    BY SelectionInBounds
  <1>7. InBounds(Selection(c, U))
    BY SelectionInBounds
  <1> QED
    BY <1>3, <1>4, <1>5, <1>6, <1>7

\* Reading an entry moves it to the end.
LEMMA MovedInBounds ==
    ASSUME NEW c, InBounds(c), NEW i \in 1 .. Len(c)
    PROVE  /\ InBounds(Append(Without(c, c[i].key), c[i]))
           /\ Total(Append(Without(c, c[i].key), c[i])) = Total(c)
  <1> DEFINE e == c[i]
             k == e.key
             w == Without(c, k)
             o == Of(c, k)
             d == Append(w, e)
  <1>1. c \in Seq(Entry) /\ Len(c) \in Nat /\ e \in Entry /\ DOMAIN c = 1 .. Len(c)
    BY DEF InBounds
  <1>2. /\ InBounds(w)
        /\ OneSized(c) => OneSized(w)
        /\ Total(c) = Total(w) + Total(o)
        /\ \A j \in 1 .. Len(w) : w[j].key # k /\ \E m \in 1 .. Len(c) : w[j] = c[m]
    BY KeyParts
  <1>3. Len(o) = 1 /\ o[1] = e /\ o \in Seq(Entry)
    <2> DEFINE U == {x \in Range(c) : x.key = k}
    <2>1. o = Selection(c, U)
      BY DEF Of
    <2>2. \A m \in 1 .. Len(c) : c[m] \in U <=> m = i
      BY <1>1 DEF InBounds, OncePerKey, Range
    <2> HIDE DEF U, o
    <2>10. Selection(c, U) \in Seq(Entry)
      BY <1>1, SelectionEmbeds
    <2>11. \E h \in [1 .. Len(Selection(c, U)) -> 1 .. Len(c)] :
              /\ \A j \in 1 .. Len(Selection(c, U)) : c[h[j]] \in U /\ Selection(c, U)[j] = c[h[j]]
              /\ \A a, b \in 1 .. Len(Selection(c, U)) : a < b => h[a] < h[b]
              /\ \A m \in 1 .. Len(c) : c[m] \in U => \E j \in 1 .. Len(Selection(c, U)) : h[j] = m
      <3>1. c \in Seq(Entry)
        BY <1>1
      <3> HIDE DEF e, k, w, d
      <3> QED
        BY ONLY <3>1, SelectionEmbeds
    <2>3. o \in Seq(Entry)
      BY <2>1, <2>10
    <2>4. PICK h \in [1 .. Len(o) -> 1 .. Len(c)] :
              /\ \A j \in 1 .. Len(o) : c[h[j]] \in U /\ o[j] = c[h[j]]
              /\ \A a, b \in 1 .. Len(o) : a < b => h[a] < h[b]
              /\ \A m \in 1 .. Len(c) : c[m] \in U => \E j \in 1 .. Len(o) : h[j] = m
      BY <2>1, <2>11
    <2>5. \A j \in 1 .. Len(o) : h[j] = i
      BY <2>2, <2>4
    <2>6. Len(o) \in Nat
      BY <2>3
    <2>7. Len(o) # 0
      BY <2>2, <2>4, <2>6
    <2>8. ~ (Len(o) > 1)
      <3> SUFFICES ASSUME Len(o) > 1 PROVE FALSE
        OBVIOUS
      <3>1. 1 \in 1 .. Len(o) /\ 2 \in 1 .. Len(o)
        BY <2>6
      <3>2. h[1] < h[2] /\ h[1] = i /\ h[2] = i
        BY <2>4, <2>5, <3>1
      <3> QED
        BY <1>1, <3>2
    <2>9. Len(o) = 1
      <3> DEFINE n == Len(o)
      <3>1. n \in Nat /\ n # 0 /\ ~ (n > 1)
        BY <2>6, <2>7, <2>8
      <3> HIDE DEF n
      <3>2. n = 1
        BY <3>1
      <3> QED
        BY <3>2 DEF n
    <2> QED
      BY <2>3, <2>4, <2>5, <2>9
  <1>4. Total(o) = e.size
    <2>1. <<>> \in Seq(Entry) /\ Len(<<>>) = 0
      OBVIOUS
    <2>2. Append(<<>>, e) \in Seq(Entry) /\ Len(Append(<<>>, e)) = 1 /\ Append(<<>>, e)[1] = e
      BY <1>1
    <2>3. o = Append(<<>>, e)
      <3> HIDE DEF o, e
      <3> QED
        BY <1>3, <2>2, SeqEqual
    <2>4. Total(Append(<<>>, e)) = Total(<<>>) + e.size /\ Total(<<>>) = 0
      BY <1>1, <2>1, TotalAppends, TotalOfNone
    <2>5. e.size \in Nat
      BY <1>1, SizeIsNat
    <2> QED
      BY <2>3, <2>4, <2>5
  <1> HIDE DEF w, o
  <1>5. w \in Seq(Entry) /\ Len(w) \in Nat
    BY <1>2 DEF InBounds
  <1>6. Total(d) = Total(c)
    BY <1>1, <1>2, <1>4, <1>5, TotalAppends
  <1>7. /\ d \in Seq(Entry) /\ Len(d) = Len(w) + 1 /\ d[Len(w) + 1] = e
        /\ \A j \in 1 .. Len(w) : d[j] = w[j]
        /\ \A j \in 1 .. Len(d) : j \in 1 .. Len(w) \/ j = Len(w) + 1
    BY <1>1, <1>5
  <1> HIDE DEF d
  <1>8. OncePerKey(d)
    BY <1>2, <1>7 DEF InBounds, OncePerKey
  <1>9. OneSized(c) => OneSized(d)
    <2> SUFFICES ASSUME OneSized(c) PROVE OneSized(d)
      OBVIOUS
    <2>1. OneSized(w)
      BY <1>2
    <2>2. \A j \in 1 .. Len(w) : w[j].size > 0 => ~ (e.size > 0)
      BY <1>2 DEF OneSized
    <2> QED
      BY <1>7, <2>1, <2>2 DEF OneSized
  <1>10. InBounds(d)
    BY <1>6, <1>7, <1>8, <1>9 DEF InBounds
  <1> QED
    BY <1>6, <1>10 DEF d, w

\* Entries of the same keys and sizes.
LEMMA SameInBounds ==
    ASSUME NEW c, InBounds(c), NEW d \in Seq(Entry), Len(d) = Len(c),
           \A i \in 1 .. Len(c) : d[i].key = c[i].key /\ d[i].size = c[i].size
    PROVE  InBounds(d) /\ Total(d) = Total(c)
  <1>1. c \in Seq(Entry)
    BY DEF InBounds
  <1>2. Total(d) = Total(c)
    BY <1>1, TotalAgrees
  <1>3. OncePerKey(d)
    BY DEF InBounds, OncePerKey
  <1>4. OneSized(c) => OneSized(d)
    BY DEF OneSized
  <1> QED
    BY <1>2, <1>3, <1>4 DEF InBounds

LEMMA CaInvType == CaInv => CachesTypeOK
  BY DEF CaInv

\* One cache changes.
LEMMA CacheStep ==
    ASSUME CaInv, NEW b \in Box, InBounds(cache'[b]), bytes'[b] = Total(cache'[b]),
           cache' = [cache EXCEPT ![b] = cache'[b]], bytes' = [bytes EXCEPT ![b] = bytes'[b]],
           notices' \subseteq Notice, puts' \in 0 .. MaxPuts
    PROVE  CaInv'
  <1>1. /\ cache = [x \in Box |-> cache[x]] /\ bytes = [x \in Box |-> bytes[x]]
        /\ \A x \in Box : bytes[x] = Total(cache[x]) /\ InBounds(cache[x])
    BY DEF CaInv
  <1>2. \A x \in Box : x # b => cache'[x] = cache[x] /\ bytes'[x] = bytes[x]
    BY <1>1
  <1>3. \A x \in Box : bytes'[x] = Total(cache'[x]) /\ InBounds(cache'[x])
    BY <1>1, <1>2
  <1>4. cache' = [x \in Box |-> cache'[x]] /\ bytes' = [x \in Box |-> bytes'[x]]
    BY <1>1
  <1>5. \A x \in Box : cache'[x] \in Seq(Entry) /\ bytes'[x] \in Int
    BY <1>3, TotalIsNat DEF InBounds
  <1> QED
    BY <1>3, <1>4, <1>5 DEF CaInv, CachesTypeOK

LEMMA FabricPutHolds ==
    ASSUME CaInv, NEW b \in Fabric, NEW k \in Key, NEW n \in Size, FabricPut(b, k, n)
    PROVE  CaInv'
  <1> DEFINE c == cache[b]
             kept == Evicted(c, Total(c), n, Len(c))
             rest == Without(kept, k)
             e == Fresh(k, n)
             d == Append(rest, e)
  <1>1. InBounds(c) /\ bytes[b] = Total(c) /\ b \in Box
        /\ cache = [x \in Box |-> cache[x]] /\ bytes = [x \in Box |-> bytes[x]]
    BY DEF CaInv, Box
  <1>2. Len(c) \in Nat /\ c \in Seq(Entry)
    BY <1>1 DEF InBounds
  <1>3. n \in Nat /\ e \in Entry /\ e.key = k /\ e.size = n
    BY CacheAssumption DEF Size, Entry, Fresh
  <1>4. /\ InBounds(kept) /\ Total(kept) <= Total(c)
        /\ Len(kept) = 0 \/ Total(kept) + n <= MaxBytes
    BY <1>1, <1>2, <1>3, EvictedFits
  <1>5. /\ cache' = [cache EXCEPT ![b] = d]
        /\ bytes' = [bytes EXCEPT ![b] = bytes[b] - (Total(c) - Total(kept)) - Total(Of(kept, k)) + n]
        /\ notices' = notices /\ puts' = puts + 1 /\ puts < MaxPuts
    BY <1>1 DEF FabricPut
  <1> HIDE DEF c, kept, e
  <1>6. /\ InBounds(rest)
        /\ Total(kept) = Total(rest) + Total(Of(kept, k))
        /\ Total(rest) <= Total(kept)
        /\ InBounds(Of(kept, k))
    BY <1>4, KeyParts
  <1>7. \A i \in 1 .. Len(rest) :
            rest[i].key # k /\ \E j \in 1 .. Len(kept) : rest[i] = kept[j]
    BY <1>4, KeyParts
  <1> HIDE DEF rest
  <1>8. /\ Total(c) \in Nat /\ Total(kept) \in Nat /\ Total(rest) \in Nat
        /\ Total(Of(kept, k)) \in Nat /\ MaxBytes \in Nat
    BY <1>1, <1>4, <1>6, TotalIsNat, CacheAssumption DEF InBounds
  <1>9. Len(rest) = 0 \/ Total(rest) + n <= MaxBytes
    <2>1. Len(kept) = 0 => Len(rest) = 0
      <3>1. rest \in Seq(Entry)
        BY <1>6 DEF InBounds
      <3>2. Len(rest) \in Nat
        BY <3>1
      <3>3. Len(kept) = 0 /\ Len(rest) # 0 => FALSE
        <4> SUFFICES ASSUME Len(kept) = 0, Len(rest) # 0 PROVE FALSE
          OBVIOUS
        <4>1. 1 \in 1 .. Len(rest)
          BY <3>2
        <4>2. \E j \in 1 .. Len(kept) : rest[1] = kept[j]
          BY <1>7, <4>1
        <4> QED
          BY <4>2
      <3> QED
        BY <3>3
    <2>2. Total(kept) + n <= MaxBytes => Total(rest) + n <= MaxBytes
      BY <1>3, <1>6, <1>8
    <2> QED
      BY <1>4, <2>1, <2>2
  <1>10. InBounds(d) /\ Total(d) = Total(rest) + n
    BY <1>3, <1>6, <1>7, <1>9, AppendInBounds
  <1> HIDE DEF d
  <1>11. cache'[b] = d
    BY <1>1, <1>5
  <1>12. bytes'[b] = bytes[b] - (Total(c) - Total(kept)) - Total(Of(kept, k)) + n
    BY <1>1, <1>5
  <1>13. bytes'[b] = Total(d)
    BY <1>1, <1>3, <1>6, <1>8, <1>10, <1>12
  <1>14. notices' \subseteq Notice /\ puts' \in 0 .. MaxPuts
    BY <1>5, CacheAssumption DEF CaInv, CachesTypeOK
  <1>15. cache' = [cache EXCEPT ![b] = cache'[b]] /\ bytes' = [bytes EXCEPT ![b] = bytes'[b]]
    BY <1>1, <1>5
  <1> QED
    BY <1>1, <1>10, <1>11, <1>13, <1>14, <1>15, CacheStep

LEMMA EdgePutHolds ==
    ASSUME CaInv, NEW b \in EdgeBox, NEW k \in Key, NEW n \in Size, EdgePut(b, k, n)
    PROVE  CaInv'
  <1> DEFINE c == cache[b]
             rest == Without(c, k)
             kept == Evicted(rest, Total(rest), n, MaxCached - 1)
             e == Fresh(k, n)
             d == Append(kept, e)
  <1>1. InBounds(c) /\ bytes[b] = Total(c) /\ b \in Box
        /\ cache = [x \in Box |-> cache[x]] /\ bytes = [x \in Box |-> bytes[x]]
    BY DEF CaInv, Box
  <1>2. n \in Nat /\ e \in Entry /\ e.key = k /\ e.size = n /\ MaxCached - 1 \in Nat
    BY CacheAssumption DEF Size, Entry, Fresh
  <1>3. /\ InBounds(rest)
        /\ Total(c) = Total(rest) + Total(Of(c, k))
        /\ InBounds(Of(c, k))
    BY <1>1, KeyParts
  <1>4. \A i \in 1 .. Len(rest) : rest[i].key # k
    BY <1>1, KeyParts
  <1>5. /\ Total(c) \in Nat /\ Total(rest) \in Nat /\ Total(Of(c, k)) \in Nat
    BY <1>1, <1>3, TotalIsNat DEF InBounds
  <1>6. bytes[b] - Total(Of(c, k)) = Total(rest)
    BY <1>1, <1>3, <1>5
  <1>7. /\ cache' = [cache EXCEPT ![b] = d]
        /\ bytes' = [bytes EXCEPT ![b] = Total(rest) - Total(rest) + Total(kept) + n]
        /\ notices' = notices /\ puts' = puts + 1 /\ puts < MaxPuts
    BY <1>6 DEF EdgePut
  <1>8. /\ InBounds(kept)
        /\ \A i \in 1 .. Len(kept) : \E j \in 1 .. Len(rest) : kept[i] = rest[j]
        /\ Len(kept) = 0 \/ Total(kept) + n <= MaxBytes
    BY <1>2, <1>3, EvictedFits
  <1> HIDE DEF c, kept, rest, e
  <1>9. \A i \in 1 .. Len(kept) : kept[i].key # k
    BY <1>4, <1>8
  <1>10. InBounds(d) /\ Total(d) = Total(kept) + n
    BY <1>2, <1>8, <1>9, AppendInBounds
  <1>11. Total(kept) \in Nat
    BY <1>8, TotalIsNat DEF InBounds
  <1> HIDE DEF d
  <1>12. cache'[b] = d
    BY <1>1, <1>7
  <1>13. bytes'[b] = Total(rest) - Total(rest) + Total(kept) + n
    BY <1>1, <1>7
  <1>14. bytes'[b] = Total(d)
    BY <1>2, <1>5, <1>10, <1>11, <1>13
  <1>15. notices' \subseteq Notice /\ puts' \in 0 .. MaxPuts
    BY <1>7, CacheAssumption DEF CaInv, CachesTypeOK
  <1>16. cache' = [cache EXCEPT ![b] = cache'[b]] /\ bytes' = [bytes EXCEPT ![b] = bytes'[b]]
    BY <1>1, <1>7
  <1> QED
    BY <1>1, <1>10, <1>12, <1>14, <1>15, <1>16, CacheStep

LEMMA DropHolds ==
    ASSUME CaInv, NEW b \in Box, NEW k, Drop(b, k)
    PROVE  CaInv'
  <1> DEFINE c == cache[b]
             rest == Without(c, k)
  <1>1. InBounds(c) /\ bytes[b] = Total(c)
        /\ cache = [x \in Box |-> cache[x]] /\ bytes = [x \in Box |-> bytes[x]]
    BY DEF CaInv
  <1>2. /\ InBounds(rest)
        /\ Total(c) = Total(rest) + Total(Of(c, k))
        /\ InBounds(Of(c, k))
    BY <1>1, KeyParts
  <1>3. Total(c) \in Nat /\ Total(rest) \in Nat /\ Total(Of(c, k)) \in Nat
    BY <1>1, <1>2, TotalIsNat DEF InBounds
  <1>4. /\ cache' = [cache EXCEPT ![b] = rest]
        /\ bytes' = [bytes EXCEPT ![b] = bytes[b] - Total(Of(c, k))]
        /\ notices' = notices /\ puts' = puts
    BY DEF Drop
  <1> HIDE DEF c, rest
  <1>5. cache'[b] = rest
    BY <1>1, <1>4
  <1>6. bytes'[b] = bytes[b] - Total(Of(c, k))
    BY <1>1, <1>4
  <1>7. bytes'[b] = Total(rest)
    BY <1>1, <1>2, <1>3, <1>6
  <1>8. notices' \subseteq Notice /\ puts' \in 0 .. MaxPuts
    BY <1>4 DEF CaInv, CachesTypeOK
  <1>9. cache' = [cache EXCEPT ![b] = cache'[b]] /\ bytes' = [bytes EXCEPT ![b] = bytes'[b]]
    BY <1>1, <1>4
  <1> QED
    BY <1>2, <1>5, <1>7, <1>8, <1>9, CacheStep

LEMMA CacheGetKeeps ==
    ASSUME CaInv, NEW b \in Box, NEW k \in Key, CacheGet(b, k)
    PROVE  CaInv'
  <1> DEFINE c == cache[b]
  <1>1. InBounds(c) /\ bytes[b] = Total(c)
        /\ cache = [x \in Box |-> cache[x]] /\ bytes = [x \in Box |-> bytes[x]]
    BY DEF CaInv
  <1>2. DOMAIN c = 1 .. Len(c)
    BY <1>1 DEF InBounds
  <1>3. PICK i \in 1 .. Len(c) :
            /\ c[i].key = k
            /\ IF c[i].expired \/ c[i].invalidated THEN Drop(b, k)
               ELSE /\ cache' = [cache EXCEPT ![b] = Append(Without(cache[b], k), c[i])]
                    /\ UNCHANGED <<bytes, notices, puts>>
    BY <1>2 DEF CacheGet
  <1>4. CASE c[i].expired \/ c[i].invalidated
    BY <1>3, <1>4, DropHolds
  <1>5. CASE ~ (c[i].expired \/ c[i].invalidated)
    <2> DEFINE d == Append(Without(c, c[i].key), c[i])
    <2>1. InBounds(d) /\ Total(d) = Total(c)
      BY <1>1, MovedInBounds
    <2>2. cache' = [cache EXCEPT ![b] = d] /\ bytes' = bytes /\ notices' = notices /\ puts' = puts
      BY <1>3, <1>5
    <2> HIDE DEF d
    <2>3. cache'[b] = d /\ cache' = [cache EXCEPT ![b] = cache'[b]]
      BY <1>1, <2>2
    <2>4. bytes'[b] = Total(d) /\ bytes' = [bytes EXCEPT ![b] = bytes'[b]]
      BY <1>1, <2>1, <2>2
    <2>5. notices' \subseteq Notice /\ puts' \in 0 .. MaxPuts
      BY <2>2 DEF CaInv, CachesTypeOK
    <2> QED
      BY <2>1, <2>3, <2>4, <2>5, CacheStep
  <1> QED
    BY <1>4, <1>5

LEMMA EdgeClearKeeps ==
    ASSUME CaInv, NEW b \in EdgeBox, EdgeClear(b)
    PROVE  CaInv'
  <1>1. b \in Box /\ cache = [x \in Box |-> cache[x]] /\ bytes = [x \in Box |-> bytes[x]]
    BY DEF CaInv, Box
  <1>2. \E e : e = <<>> /\ e \in Seq(Entry) /\ Len(e) = 0
    <2>1. <<>> \in Seq(Entry) /\ Len(<<>>) = 0
      OBVIOUS
    <2> QED
      BY <2>1
  <1>3. PICK e : e = <<>> /\ e \in Seq(Entry) /\ Len(e) = 0
    BY <1>2
  <1>4. cache' = [cache EXCEPT ![b] = e] /\ bytes' = [bytes EXCEPT ![b] = 0]
        /\ notices' = notices /\ puts' = puts
    BY <1>3 DEF EdgeClear
  <1>5. Total(e) = 0
    BY <1>3, TotalOfNone
  <1>6. InBounds(e)
    BY <1>3 DEF InBounds, OncePerKey, OneSized
  <1>7. cache'[b] = e /\ cache' = [cache EXCEPT ![b] = cache'[b]]
    BY <1>1, <1>4
  <1>8. bytes'[b] = 0 /\ bytes' = [bytes EXCEPT ![b] = bytes'[b]]
    BY <1>1, <1>4
  <1>9. notices' \subseteq Notice /\ puts' \in 0 .. MaxPuts
    BY <1>4 DEF CaInv, CachesTypeOK
  <1> QED
    BY <1>1, <1>5, <1>6, <1>7, <1>8, <1>9, CacheStep

LEMMA CleanupExpiredKeeps ==
    ASSUME CaInv, NEW b \in Box, CleanupExpired(b)
    PROVE  CaInv'
  <1> DEFINE c == cache[b]
             T == {e \in Range(c) : ~ (e.expired \/ e.invalidated)}
             alive == Selection(c, T)
  <1>1. InBounds(c) /\ bytes[b] = Total(c)
        /\ cache = [x \in Box |-> cache[x]] /\ bytes = [x \in Box |-> bytes[x]]
    BY DEF CaInv
  <1>2. /\ cache' = [cache EXCEPT ![b] = alive]
        /\ bytes' = [bytes EXCEPT ![b] = bytes[b] - (Total(c) - Total(alive))]
        /\ notices' = notices /\ puts' = puts
    BY DEF CleanupExpired
  <1> HIDE DEF c, T
  <1>3. InBounds(alive)
    BY <1>1, SelectionInBounds
  <1>4. Total(c) \in Nat /\ Total(alive) \in Nat
    BY <1>1, <1>3, TotalIsNat DEF InBounds
  <1> HIDE DEF alive
  <1>5. cache'[b] = alive /\ cache' = [cache EXCEPT ![b] = cache'[b]]
    BY <1>1, <1>2
  <1>6. bytes'[b] = bytes[b] - (Total(c) - Total(alive)) /\ bytes' = [bytes EXCEPT ![b] = bytes'[b]]
    BY <1>1, <1>2
  <1>7. bytes'[b] = Total(alive)
    BY <1>1, <1>4, <1>6
  <1>8. notices' \subseteq Notice /\ puts' \in 0 .. MaxPuts
    BY <1>2 DEF CaInv, CachesTypeOK
  <1> QED
    BY <1>3, <1>5, <1>6, <1>7, <1>8, CacheStep

\* Marking entries changes neither keys nor sizes.
LEMMA MarkKeeps ==
    ASSUME CaInv, NEW b \in Box, NEW d \in Seq(Entry), Len(d) = Len(cache[b]),
           \A i \in 1 .. Len(d) : d[i].key = cache[b][i].key /\ d[i].size = cache[b][i].size,
           cache' = [cache EXCEPT ![b] = d], bytes' = bytes,
           notices' \subseteq Notice, puts' \in 0 .. MaxPuts
    PROVE  CaInv'
  <1>1. InBounds(cache[b]) /\ bytes[b] = Total(cache[b])
        /\ cache = [x \in Box |-> cache[x]] /\ bytes = [x \in Box |-> bytes[x]]
    BY DEF CaInv
  <1>2. InBounds(d) /\ Total(d) = Total(cache[b])
    BY <1>1, SameInBounds
  <1>3. cache'[b] = d /\ cache' = [cache EXCEPT ![b] = cache'[b]]
    BY <1>1
  <1>4. bytes'[b] = Total(d) /\ bytes' = [bytes EXCEPT ![b] = bytes'[b]]
    BY <1>1, <1>2
  <1> QED
    BY <1>2, <1>3, <1>4, CacheStep

LEMMA EntryExpiresKeeps ==
    ASSUME CaInv, NEW b \in Box, NEW k, EntryExpires(b, k)
    PROVE  CaInv'
  <1> DEFINE c == cache[b]
             d == [i \in 1 .. Len(c) |-> IF c[i].key = k THEN [c[i] EXCEPT !.expired = TRUE] ELSE c[i]]
  <1>1. c \in Seq(Entry) /\ cache = [x \in Box |-> cache[x]]
    BY DEF CaInv, CachesTypeOK
  <1>2. DOMAIN c = 1 .. Len(c) /\ Len(c) \in Nat /\ \A i \in 1 .. Len(c) : c[i] \in Entry
    BY <1>1
  <1>3. cache' = [cache EXCEPT ![b] = d] /\ bytes' = bytes /\ notices' = notices /\ puts' = puts
    BY <1>2 DEF EntryExpires
  <1> HIDE DEF c
  <1>4. \A i \in 1 .. Len(c) : d[i] \in Entry /\ d[i].key = c[i].key /\ d[i].size = c[i].size
    BY <1>2 DEF Entry
  <1>5. Len(d) = Len(c) /\ d \in Seq(Entry)
    BY <1>2, <1>4
  <1>6. notices' \subseteq Notice /\ puts' \in 0 .. MaxPuts
    BY <1>3 DEF CaInv, CachesTypeOK
  <1>7. \A i \in 1 .. Len(d) : d[i].key = cache[b][i].key /\ d[i].size = cache[b][i].size
    BY <1>4, <1>5 DEF c
  <1>8. Len(d) = Len(cache[b])
    BY <1>5 DEF c
  <1> HIDE DEF d
  <1> QED
    BY <1>3, <1>5, <1>6, <1>7, <1>8, MarkKeeps

LEMMA VoidedKeeps ==
    ASSUME CaInv, NEW b \in Box, NEW keys, Voided(b, keys), bytes' = bytes,
           notices' \subseteq Notice, puts' = puts
    PROVE  CaInv'
  <1> DEFINE c == cache[b]
             d == [i \in 1 .. Len(c) |->
                      IF c[i].key \in keys THEN [c[i] EXCEPT !.invalidated = TRUE] ELSE c[i]]
  <1>1. c \in Seq(Entry) /\ cache = [x \in Box |-> cache[x]]
    BY DEF CaInv, CachesTypeOK
  <1>2. DOMAIN c = 1 .. Len(c) /\ Len(c) \in Nat /\ \A i \in 1 .. Len(c) : c[i] \in Entry
    BY <1>1
  <1>3. cache' = [cache EXCEPT ![b] = d]
    BY <1>2 DEF Voided
  <1> HIDE DEF c
  <1>4. \A i \in 1 .. Len(c) : d[i] \in Entry /\ d[i].key = c[i].key /\ d[i].size = c[i].size
    BY <1>2 DEF Entry
  <1>5. Len(d) = Len(c) /\ d \in Seq(Entry)
    BY <1>2, <1>4
  <1>6. puts' \in 0 .. MaxPuts
    BY DEF CaInv, CachesTypeOK
  <1>7. \A i \in 1 .. Len(d) : d[i].key = cache[b][i].key /\ d[i].size = cache[b][i].size
    BY <1>4, <1>5 DEF c
  <1>8. Len(d) = Len(cache[b])
    BY <1>5 DEF c
  <1> HIDE DEF d
  <1> QED
    BY <1>3, <1>5, <1>6, <1>7, <1>8, MarkKeeps

LEMMA CaInvImplies == CaInv => CachesTypeOK /\ CacheAccounts
  <1> SUFFICES ASSUME CaInv PROVE CacheAccounts
    BY DEF CaInv
  <1> SUFFICES ASSUME NEW b \in Box
               PROVE  /\ bytes[b] = Total(cache[b])
                      /\ \A i, j \in DOMAIN cache[b] : cache[b][i].key = cache[b][j].key => i = j
                      /\ bytes[b] > MaxBytes =>
                             Cardinality({i \in DOMAIN cache[b] : cache[b][i].size > 0}) = 1
    BY DEF CacheAccounts
  <1> DEFINE c == cache[b]
  <1>1. InBounds(c) /\ bytes[b] = Total(c)
    BY DEF CaInv
  <1>2. c \in Seq(Entry) /\ DOMAIN c = 1 .. Len(c)
    BY <1>1 DEF InBounds
  <1> HIDE DEF c
  <1>3. \A i, j \in DOMAIN c : c[i].key = c[j].key => i = j
    BY <1>1, <1>2 DEF InBounds, OncePerKey
  <1>4. ASSUME Total(c) > MaxBytes PROVE Cardinality({i \in DOMAIN c : c[i].size > 0}) = 1
    <2>1. OneSized(c)
      BY <1>1, <1>4 DEF InBounds
    <2>2. Total(c) > 0
      <3>1. Total(c) \in Nat /\ MaxBytes \in Nat
        BY <1>2, TotalIsNat, CacheAssumption
      <3> QED
        BY <1>4, <3>1
    <2>3. PICK i \in 1 .. Len(c) : c[i].size > 0
      BY <1>2, <2>2, TotalIsOfSome
    <2>4. {j \in DOMAIN c : c[j].size > 0} = {i}
      BY <1>2, <2>1, <2>3 DEF OneSized
    <2> QED
      BY <2>4, FS_Singleton
  <1> QED
    BY <1>1, <1>3, <1>4 DEF c

LEMMA CaInvInit == CaInit => CaInv
  <1> SUFFICES ASSUME CaInit PROVE CaInv
    OBVIOUS
  <1>2. \E e : e = <<>> /\ e \in Seq(Entry) /\ Len(e) = 0
    <2>1. <<>> \in Seq(Entry) /\ Len(<<>>) = 0
      OBVIOUS
    <2> QED
      BY <2>1
  <1>3. PICK e : e = <<>> /\ e \in Seq(Entry) /\ Len(e) = 0
    BY <1>2
  <1>4. Total(e) = 0
    BY <1>3, TotalOfNone
  <1>5. InBounds(e)
    BY <1>3 DEF InBounds, OncePerKey, OneSized
  <1>6. cache = [b \in Box |-> e] /\ bytes = [b \in Box |-> 0] /\ notices = {} /\ puts = 0
    BY <1>3 DEF CaInit
  <1>7. CachesTypeOK
    BY <1>3, <1>6, CacheAssumption DEF CachesTypeOK
  <1>8. \A b \in Box : bytes[b] = Total(cache[b]) /\ InBounds(cache[b])
    BY <1>4, <1>5, <1>6
  <1> QED
    BY <1>6, <1>7, <1>8 DEF CaInv

LEMMA CaInvNext ==
    ASSUME CaInv, [CaNext]_caVars
    PROVE  CaInv'
  <1>1. ASSUME NEW b \in Fabric, NEW k \in Key, NEW n \in Size, FabricPut(b, k, n) PROVE CaInv'
    BY <1>1, FabricPutHolds
  <1>2. ASSUME NEW b \in EdgeBox, NEW k \in Key, NEW n \in Size, EdgePut(b, k, n) PROVE CaInv'
    BY <1>2, EdgePutHolds
  <1>3. ASSUME NEW b \in Fabric, NEW k \in Key, Invalidate(b, k) PROVE CaInv'
    <2>1. b \in Box /\ Voided(b, {k}) /\ bytes' = bytes /\ puts' = puts
      BY <1>3 DEF Box, Invalidate
    <2>2. notices' \subseteq Notice
      BY <1>3 DEF Invalidate, Tell, Notice, CaInv, CachesTypeOK
    <2> QED
      BY <2>1, <2>2, VoidedKeeps
  <1>4. ASSUME NEW b \in EdgeBox, NEW k \in Key, EdgeDelete(b, k) PROVE CaInv'
    BY <1>4, DropHolds DEF EdgeDelete, Box
  <1>5. ASSUME NEW b \in Box, NEW k \in Key, CacheGet(b, k) PROVE CaInv'
    BY <1>5, CacheGetKeeps
  <1>6. ASSUME NEW b \in Box, NEW k \in Key, EntryExpires(b, k) PROVE CaInv'
    BY <1>6, EntryExpiresKeeps
  <1>7. ASSUME NEW b \in Box, CleanupExpired(b) PROVE CaInv'
    BY <1>7, CleanupExpiredKeeps
  <1>8. ASSUME NEW b \in EdgeBox, EdgeClear(b) PROVE CaInv'
    BY <1>8, EdgeClearKeeps
  <1>9. ASSUME NEW b \in Fabric, NEW t \in Range(KeyType), InvalidateByType(b, t) PROVE CaInv'
    <2>1. PICK keys : Voided(b, keys)
      BY <1>9 DEF InvalidateByType
    <2>2. b \in Box /\ bytes' = bytes /\ puts' = puts
      BY <1>9 DEF Box, InvalidateByType
    <2>3. notices' \subseteq Notice
      BY <1>9 DEF InvalidateByType, Tell, Notice, CaInv, CachesTypeOK
    <2> QED
      BY <2>1, <2>2, <2>3, VoidedKeeps
  <1>10. ASSUME NEW m \in notices, ReceiveInvalidation(m) PROVE CaInv'
    <2>1. m.to \in Box /\ notices' \subseteq Notice
      BY <1>10 DEF ReceiveInvalidation, CaInv, CachesTypeOK, Notice, Box
    <2>2. Voided(m.to, {m.what}) /\ bytes' = bytes /\ puts' = puts
      BY <1>10 DEF ReceiveInvalidation
    <2> QED
      BY <2>1, <2>2, VoidedKeeps
  <1>11. CASE UNCHANGED caVars
    BY <1>11 DEF caVars, CaInv, CachesTypeOK
  <1> QED
    BY <1>1, <1>2, <1>3, <1>4, <1>5, <1>6, <1>7, <1>8, <1>9, <1>10, <1>11 DEF CaNext

-----------------------------------------------------------------------------
(* The scheduler of the edge nodes *)

OnNode(n) == {w \in Workload : runsOn[w] = n}

EsTables ==
    /\ edgeQueue \in Seq(Workload)
    /\ runsOn \in [Workload -> EdgeNode \cup {NoEdgeNode}]
    /\ edgeNodes \subseteq EdgeNode
    /\ capacity \in [EdgeNode -> Nat] /\ most \in [EdgeNode -> Nat]
    /\ load \in [EdgeNode -> Nat]
    /\ submits \in 0 .. MaxSubmits

\* What nodes are charged for, and what is queued, was submitted.
SubmittedCovers == SumFunction(load) + Len(edgeQueue) <= submits

EsInv ==
    /\ EsTables
    /\ \A n \in EdgeNode : IsFiniteSet(OnNode(n))
    /\ EdgeLoadCovers
    /\ SubmittedCovers

LEMMA LoadSum == EsTables => SumFunction(load) = SumFunctionOnSet(load, EdgeNode)
  BY DEF EsTables, SumFunction

LEMMA EsInvType == EsInv => EdgeSchedulerTypeOK
  <1> SUFFICES ASSUME EsInv PROVE EdgeSchedulerTypeOK
    OBVIOUS
  <1>1. ASSUME NEW n \in EdgeNode PROVE load[n] \in 0 .. MaxSubmits
    <2>1. /\ SumFunctionOnSet(load, EdgeNode) \in Nat
          /\ load[n] <= SumFunctionOnSet(load, EdgeNode)
      BY EdgeSchedulerAssumption, SumIsNat DEF EsInv, EsTables
    <2>2. SumFunctionOnSet(load, EdgeNode) + Len(edgeQueue) <= submits
      BY LoadSum DEF EsInv, SubmittedCovers
    <2> QED
      BY <2>1, <2>2, EdgeSchedulerAssumption DEF EsInv, EsTables
  <1> QED
    BY <1>1 DEF EsInv, EsTables, EdgeSchedulerTypeOK

LEMMA EsInvInit == EsInit => EsInv
  <1> SUFFICES ASSUME EsInit PROVE EsInv
    OBVIOUS
  <1>1. EsTables
    BY EdgeSchedulerAssumption DEF EsInit, EsTables
  <1>2. ASSUME NEW n \in EdgeNode PROVE OnNode(n) = {}
    BY EdgeSchedulerAssumption DEF EsInit, OnNode
  <1>3. \A n \in EdgeNode : IsFiniteSet(OnNode(n)) /\ Cardinality(OnNode(n)) = 0
    BY <1>2, FS_EmptySet
  <1>4. SumFunctionOnSet(load, EdgeNode) = 0
    BY EdgeSchedulerAssumption, SumOfZeros DEF EsInit
  <1>5. EdgeLoadCovers
    <2>1. \A n \in EdgeNode : load[n] = 0 /\ capacity[n] = 0 /\ most[n] = 0
      BY DEF EsInit
    <2>2. \A n \in EdgeNode : Cardinality(OnNode(n)) <= load[n] /\ load[n] <= most[n]
                              /\ capacity[n] <= most[n]
      BY <1>3, <2>1
    <2> QED
      BY <2>2 DEF EdgeLoadCovers, OnNode
  <1>6. SubmittedCovers
    BY <1>1, <1>4, LoadSum DEF EsInit, SubmittedCovers
  <1> QED
    BY <1>1, <1>3, <1>5, <1>6 DEF EsInv

\* The load of one node changes by d.
LEMMA LoadChanges ==
    ASSUME EsTables, EsTables', NEW n \in EdgeNode,
           \A m \in EdgeNode \ {n} : load'[m] = load[m]
    PROVE  /\ SumFunction(load') = SumFunction(load) - load[n] + load'[n]
           /\ SumFunction(load) \in Nat /\ load[n] <= SumFunction(load)
  <1>1. \A m \in EdgeNode : load[m] \in Nat /\ load'[m] \in Nat
    BY DEF EsTables
  <1>2. SumFunctionOnSet(load', EdgeNode) = SumFunctionOnSet(load, EdgeNode) - load[n] + load'[n]
    BY <1>1, EdgeSchedulerAssumption, SumChanges
  <1>3. SumFunctionOnSet(load, EdgeNode) \in Nat /\ load[n] <= SumFunctionOnSet(load, EdgeNode)
    BY <1>1, EdgeSchedulerAssumption, SumIsNat
  <1>4. SumFunction(load') = SumFunctionOnSet(load', EdgeNode)
    BY DEF EsTables, SumFunction
  <1> QED
    BY <1>2, <1>3, <1>4, LoadSum

LEMMA EsRegisters ==
    ASSUME EsInv, NEW n \in EdgeNode, NEW slots \in Capacities, RegisterEdge(n, slots) PROVE EsInv'
  <1>1. /\ edgeNodes' = edgeNodes \cup {n} /\ capacity' = [capacity EXCEPT ![n] = slots]
        /\ most' = [most EXCEPT ![n] = IF @ < slots THEN slots ELSE @]
        /\ UNCHANGED <<edgeQueue, runsOn, load, submits>> /\ slots \in Nat
    BY EdgeSchedulerAssumption DEF RegisterEdge
  <1>2. EsTables'
    BY <1>1 DEF EsInv, EsTables
  <1>3. \A m \in EdgeNode : OnNode(m)' = OnNode(m)
    BY <1>1 DEF OnNode
  <1>4. ASSUME NEW m \in EdgeNode PROVE load'[m] <= most'[m] /\ capacity'[m] <= most'[m]
    <2>1. load[m] <= most[m] /\ capacity[m] <= most[m] /\ load[m] \in Nat /\ capacity[m] \in Nat
          /\ most[m] \in Nat
      BY DEF EsInv, EsTables, EdgeLoadCovers
    <2>2. CASE m = n
      BY <1>1, <2>1, <2>2 DEF EsInv, EsTables
    <2>3. CASE m # n
      BY <1>1, <2>1, <2>3 DEF EsInv, EsTables
    <2> QED
      BY <2>2, <2>3
  <1>5. EdgeLoadCovers'
    BY <1>1, <1>4 DEF EsInv, EdgeLoadCovers
  <1> QED
    BY <1>1, <1>2, <1>3, <1>5 DEF EsInv, SubmittedCovers

LEMMA EsUnregisters ==
    ASSUME EsInv, NEW n \in EdgeNode, UnregisterEdge(n) PROVE EsInv'
  <1> DEFINE orphaned == OnNode(n)
  <1>1. /\ load' = [load EXCEPT ![n] = 0] /\ edgeNodes' = edgeNodes \ {n} /\ UNCHANGED submits
        /\ capacity' = [capacity EXCEPT ![n] = 0] /\ most' = [most EXCEPT ![n] = 0]
        /\ runsOn' = [w \in Workload |-> IF w \in orphaned THEN NoEdgeNode ELSE runsOn[w]]
    BY DEF UnregisterEdge, OnNode
  <1>2. PICK order \in SetToSeqs(orphaned) : edgeQueue' = edgeQueue \o order
    BY DEF UnregisterEdge, OnNode
  <1>3. IsFiniteSet(orphaned) /\ Cardinality(orphaned) \in Nat /\ Cardinality(orphaned) <= load[n]
    BY FS_CardinalityType DEF EsInv, EdgeLoadCovers, OnNode
  <1>4. order \in Seq(Workload) /\ Len(order) = Cardinality(orphaned)
    <2>1. order \in [1 .. Cardinality(orphaned) -> orphaned]
      BY DEF SetToSeqs
    <2>2. orphaned \subseteq Workload
      BY DEF OnNode
    <2> HIDE DEF orphaned
    <2> QED
      BY <1>3, <2>1, <2>2
  <1> HIDE DEF orphaned
  <1>5. EsTables'
    BY <1>1, <1>2, <1>4 DEF EsInv, EsTables
  <1>6. OnNode(n)' = {} /\ \A m \in EdgeNode \ {n} : OnNode(m)' = OnNode(m)
    BY <1>1, EdgeSchedulerAssumption DEF OnNode, orphaned
  <1>7. ASSUME NEW m \in EdgeNode
        PROVE  /\ IsFiniteSet(OnNode(m))' /\ Cardinality(OnNode(m))' <= load'[m]
               /\ load'[m] <= most'[m] /\ capacity'[m] <= most'[m]
    <2>1. CASE m = n
      <3>1. load'[m] = 0 /\ capacity'[m] = 0 /\ most'[m] = 0
        BY <1>1, <2>1 DEF EsInv, EsTables
      <3>2. IsFiniteSet(OnNode(m)') /\ Cardinality(OnNode(m)') = 0
        BY <1>6, <2>1, FS_EmptySet
      <3> QED
        BY <3>1, <3>2
    <2>2. CASE m # n
      BY <1>1, <1>6, <2>2 DEF EsInv, EsTables, EdgeLoadCovers, OnNode
    <2> QED
      BY <2>1, <2>2
  <1>8. SubmittedCovers'
    <2>1. load'[n] = 0 /\ \A m \in EdgeNode \ {n} : load'[m] = load[m]
      BY <1>1 DEF EsInv, EsTables
    <2>2. SumFunction(load') = SumFunction(load) - load[n] + 0 /\ SumFunction(load) \in Nat
      BY <1>5, <2>1, LoadChanges DEF EsInv
    <2>3. Len(edgeQueue') = Len(edgeQueue) + Len(order) /\ Len(edgeQueue) \in Nat
      <3>1. edgeQueue \in Seq(Workload)
        BY DEF EsInv, EsTables
      <3>2. Len(edgeQueue \o order) = Len(edgeQueue) + Len(order)
        BY <1>4, <3>1, ConcatProperties
      <3> QED
        BY <1>2, <1>4, <3>1, <3>2
    <2>4. load[n] \in Nat /\ submits \in Nat
      BY DEF EsInv, EsTables
    <2> QED
      BY <1>1, <1>3, <1>4, <2>2, <2>3, <2>4 DEF EsInv, SubmittedCovers
  <1> QED
    BY <1>5, <1>7, <1>8 DEF EsInv, EdgeLoadCovers, OnNode

LEMMA EsSubmits ==
    ASSUME EsInv, NEW w \in Workload, SubmitWorkload(w) PROVE EsInv'
  <1> DEFINE q == Append(edgeQueue, w)
  <1>1. q \in Seq(Workload) /\ Len(q) = Len(edgeQueue) + 1
    BY DEF EsInv, EsTables
  <1>2. ByPriority(q) \in Seq(Workload) /\ Len(ByPriority(q)) = Len(q)
    <2> DEFINE key == [v \in Workload |-> 0 - Priority[v]]
    <2>1. \A v \in Workload : key[v] \in Int
      BY EdgeSchedulerAssumption
    <2> HIDE DEF key, q
    <2>2. StablySorted(q, key) \in Seq(Workload) /\ Len(StablySorted(q, key)) = Len(q)
      BY <1>1, <2>1, SortPermutes
    <2> QED
      BY <2>2 DEF ByPriority, key
  <1>3. edgeQueue' = ByPriority(q) /\ submits' = submits + 1 /\ submits < MaxSubmits
        /\ UNCHANGED <<runsOn, edgeNodes, capacity, load, most>>
    BY DEF SubmitWorkload
  <1> HIDE DEF q
  <1>4. EsTables'
    BY <1>2, <1>3, EdgeSchedulerAssumption DEF EsInv, EsTables
  <1>5. SubmittedCovers'
    <2>1. Len(edgeQueue') = Len(edgeQueue) + 1
      BY <1>1, <1>2, <1>3
    <2>2. SumFunction(load) \in Nat
      BY LoadSum, SumIsNat, EdgeSchedulerAssumption DEF EsInv, EsTables
    <2> QED
      BY <1>3, <2>1, <2>2 DEF EsInv, EsTables, SubmittedCovers
  <1> QED
    BY <1>3, <1>4, <1>5 DEF EsInv, EdgeLoadCovers, OnNode

LEMMA EsSchedules ==
    ASSUME EsInv, ScheduleNext PROVE EsInv'
  <1> DEFINE w == Head(edgeQueue)
  <1>1. PICK n \in edgeNodes :
            /\ Headroom(n) > 0
            /\ runsOn' = [runsOn EXCEPT ![w] = n] /\ load' = [load EXCEPT ![n] = @ + 1]
    BY DEF ScheduleNext
  <1>2. edgeQueue # <<>> /\ edgeQueue' = Tail(edgeQueue)
        /\ UNCHANGED <<edgeNodes, capacity, most, submits>>
    BY DEF ScheduleNext
  <1>3. w \in Workload /\ Tail(edgeQueue) \in Seq(Workload) /\ Len(Tail(edgeQueue)) = Len(edgeQueue) - 1
        /\ n \in EdgeNode /\ Len(edgeQueue) \in Nat
    BY <1>2 DEF EsInv, EsTables
  <1> HIDE DEF w
  <1>4. EsTables'
    BY <1>1, <1>2, <1>3 DEF EsInv, EsTables
  <1>5. OnNode(n)' = OnNode(n) \cup {w} /\ \A m \in EdgeNode \ {n} : OnNode(m)' = OnNode(m) \ {w}
    BY <1>1, <1>3 DEF OnNode, EsInv, EsTables
  <1>6. load[n] + 1 <= most[n]
    <2>1. load[n] \in Nat /\ capacity[n] \in Nat /\ most[n] \in Nat /\ capacity[n] <= most[n]
      BY <1>3 DEF EsInv, EsTables, EdgeLoadCovers
    <2>2. capacity[n] - load[n] > 0
      BY <1>1 DEF Headroom
    <2> QED
      BY <2>1, <2>2
  <1>7. ASSUME NEW m \in EdgeNode
        PROVE  /\ IsFiniteSet(OnNode(m))' /\ Cardinality(OnNode(m))' <= load'[m]
               /\ load'[m] <= most'[m] /\ capacity'[m] <= most'[m]
    <2>1. IsFiniteSet(OnNode(m)) /\ Cardinality(OnNode(m)) <= load[m] /\ load[m] <= most[m]
          /\ capacity[m] <= most[m]
      BY DEF EsInv, EdgeLoadCovers, OnNode
    <2>2. Cardinality(OnNode(m)) \in Nat /\ load[m] \in Nat /\ most[m] \in Nat
      BY <2>1, FS_CardinalityType DEF EsInv, EsTables
    <2>3. CASE m = n
      <3>1. IsFiniteSet(OnNode(m))' /\ Cardinality(OnNode(m))' <= Cardinality(OnNode(m)) + 1
        <4>1. OnNode(m)' = OnNode(m) \cup {w} /\ IsFiniteSet(OnNode(m))
          BY <1>5, <2>1, <2>3
        <4>2. /\ IsFiniteSet(OnNode(m) \cup {w})
              /\ \/ Cardinality(OnNode(m) \cup {w}) = Cardinality(OnNode(m))
                 \/ Cardinality(OnNode(m) \cup {w}) = Cardinality(OnNode(m)) + 1
          BY <4>1, FS_AddElement
        <4> QED
          BY <2>2, <4>1, <4>2
      <3>2. Cardinality(OnNode(m))' \in Nat
        BY <3>1, FS_CardinalityType
      <3> QED
        BY <1>1, <1>2, <1>3, <1>6, <2>1, <2>2, <2>3, <3>1, <3>2 DEF EsInv, EsTables
    <2>4. CASE m # n
      <3>1. IsFiniteSet(OnNode(m))' /\ Cardinality(OnNode(m))' <= Cardinality(OnNode(m))
        <4>1. OnNode(m)' = OnNode(m) \ {w} /\ IsFiniteSet(OnNode(m))
          BY <1>5, <2>1, <2>4
        <4>2. /\ IsFiniteSet(OnNode(m) \ {w})
              /\ \/ Cardinality(OnNode(m) \ {w}) = Cardinality(OnNode(m))
                 \/ Cardinality(OnNode(m) \ {w}) = Cardinality(OnNode(m)) - 1
          BY <4>1, FS_RemoveElement
        <4> QED
          BY <2>2, <4>1, <4>2
      <3>2. Cardinality(OnNode(m))' \in Nat
        BY <3>1, FS_CardinalityType
      <3> QED
        BY <1>1, <1>2, <1>3, <2>1, <2>2, <2>4, <3>1, <3>2 DEF EsInv, EsTables
    <2> QED
      BY <2>3, <2>4
  <1>8. SubmittedCovers'
    <2>1. load'[n] = load[n] + 1 /\ load[n] \in Nat /\ \A m \in EdgeNode \ {n} : load'[m] = load[m]
      BY <1>1, <1>3 DEF EsInv, EsTables
    <2>2. SumFunction(load') = SumFunction(load) - load[n] + load'[n] /\ SumFunction(load) \in Nat
      BY <1>3, <1>4, <2>1, LoadChanges DEF EsInv
    <2> QED
      BY <1>2, <1>3, <2>1, <2>2 DEF EsInv, EsTables, SubmittedCovers
  <1> QED
    BY <1>4, <1>7, <1>8 DEF EsInv, EdgeLoadCovers, OnNode

LEMMA EsCompletes ==
    ASSUME EsInv, NEW w \in Workload, CompleteWorkload(w) PROVE EsInv'
  <1> DEFINE n == runsOn[w]
  <1>1. /\ n \in EdgeNode /\ runsOn' = [runsOn EXCEPT ![w] = NoEdgeNode]
        /\ load' = [load EXCEPT ![n] = IF @ > 0 THEN @ - 1 ELSE 0]
        /\ UNCHANGED <<edgeQueue, edgeNodes, capacity, most, submits>>
    BY DEF CompleteWorkload, EsInv, EsTables
  <1>2. w \in OnNode(n)
    BY DEF OnNode
  <1> HIDE DEF n
  <1>3. EsTables'
    BY <1>1 DEF EsInv, EsTables
  <1>4. \A m \in EdgeNode : OnNode(m)' = OnNode(m) \ {w}
    BY <1>1, EdgeSchedulerAssumption DEF OnNode, EsInv, EsTables
  <1>5. ASSUME NEW m \in EdgeNode
        PROVE  /\ IsFiniteSet(OnNode(m))' /\ Cardinality(OnNode(m))' <= load'[m]
               /\ load'[m] <= most'[m] /\ capacity'[m] <= most'[m]
    <2>1. IsFiniteSet(OnNode(m)) /\ Cardinality(OnNode(m)) <= load[m] /\ load[m] <= most[m]
          /\ capacity[m] <= most[m]
      BY DEF EsInv, EdgeLoadCovers, OnNode
    <2>2. Cardinality(OnNode(m)) \in Nat /\ load[m] \in Nat /\ most[m] \in Nat
      BY <2>1, FS_CardinalityType DEF EsInv, EsTables
    <2>3. /\ IsFiniteSet(OnNode(m))'
          /\ Cardinality(OnNode(m))' = IF w \in OnNode(m) THEN Cardinality(OnNode(m)) - 1
                                       ELSE Cardinality(OnNode(m))
      BY <1>4, <2>1, FS_RemoveElement
    <2>4. CASE m = n
      BY <1>1, <1>2, <2>1, <2>2, <2>3, <2>4 DEF EsInv, EsTables
    <2>5. CASE m # n
      <3>1. w \notin OnNode(m)
        BY <1>2, <2>5 DEF OnNode
      <3> QED
        BY <1>1, <2>1, <2>2, <2>3, <2>5, <3>1 DEF EsInv, EsTables
    <2> QED
      BY <2>4, <2>5
  <1>6. SubmittedCovers'
    <2>1. load'[n] <= load[n] /\ load[n] \in Nat /\ load'[n] \in Nat
          /\ \A m \in EdgeNode \ {n} : load'[m] = load[m]
      BY <1>1 DEF EsInv, EsTables
    <2>2. SumFunction(load') = SumFunction(load) - load[n] + load'[n] /\ SumFunction(load) \in Nat
      BY <1>1, <1>3, <2>1, LoadChanges DEF EsInv
    <2> QED
      BY <1>1, <2>1, <2>2 DEF EsInv, EsTables, SubmittedCovers
  <1> QED
    BY <1>3, <1>5, <1>6 DEF EsInv, EdgeLoadCovers, OnNode

LEMMA EsInvNext == EsInv /\ [EsNext]_esVars => EsInv'
  <1> SUFFICES ASSUME EsInv, [EsNext]_esVars PROVE EsInv'
    OBVIOUS
  <1>1. CASE UNCHANGED esVars
    BY <1>1 DEF esVars, EsInv, EsTables, EdgeLoadCovers, SubmittedCovers, OnNode
  <1> QED
    BY <1>1, EsRegisters, EsUnregisters, EsSubmits, EsSchedules, EsCompletes DEF EsNext

-----------------------------------------------------------------------------
(* The queue and the sessions of the runtime *)

RqInv == RuntimeQueueTypeOK /\ RuntimeHoldsItsJobs

LEMMA RqFinite == IsFiniteSet(Running) /\ IsFiniteSet(Sessions)
                  /\ Cardinality(Running) \in Nat /\ Cardinality(Sessions) \in Nat
  <1>1. Running \in SUBSET RtJob /\ Sessions \in SUBSET Stream
    BY DEF Running, Sessions
  <1> QED
    BY <1>1, RuntimeAssumption, FS_Subset, FS_CardinalityType

LEMMA RqInvInit == RqInit => RqInv
  <1> SUFFICES ASSUME RqInit PROVE RqInv
    OBVIOUS
  <1>1. Running = {} /\ Sessions = {}
    BY DEF RqInit, Running, Sessions
  <1>2. Cardinality(Running) = 0 /\ Cardinality(Sessions) = 0
    BY <1>1, FS_EmptySet
  <1> QED
    BY <1>1, <1>2, RuntimeAssumption DEF RqInit, RqInv, RuntimeQueueTypeOK, RuntimeHoldsItsJobs

LEMMA RqSubmits ==
    ASSUME RqInv, NEW j \in RtJob, SubmitRt(j) PROVE RqInv'
  <1>1. Running' = Running /\ Sessions' = Sessions
    BY DEF SubmitRt, Running, Sessions
  <1> USE DEF RqInv
  <1>0. rtSubmits' \in 0 .. MaxRtSubmits
    BY RuntimeAssumption DEF SubmitRt, RuntimeQueueTypeOK
  <1>2. CASE UNCHANGED <<table, waiting>>
    <2>1. RuntimeQueueTypeOK'
      BY <1>0, <1>2 DEF SubmitRt, RuntimeQueueTypeOK
    <2>2. RuntimeHoldsItsJobs'
      BY <1>1, <1>2 DEF RuntimeHoldsItsJobs
    <2> QED
      BY <2>1, <2>2
  <1>3. CASE Len(waiting) < MaxQueue /\ table' = table \cup {j} /\ waiting' = Append(waiting, j)
    <2>1. waiting' \in Seq(RtJob) /\ Len(waiting') = Len(waiting) + 1
          /\ Range(waiting') = Range(waiting) \cup {j}
      BY <1>3 DEF RqInv, RuntimeQueueTypeOK, Range
    <2>2. Len(waiting) \in Nat
      BY DEF RqInv, RuntimeQueueTypeOK
    <2>4. RuntimeQueueTypeOK'
      BY <1>0, <1>3, <2>1 DEF SubmitRt, RqInv, RuntimeQueueTypeOK
    <2>5. RuntimeHoldsItsJobs'
      BY <1>1, <1>3, <2>1, <2>2, RuntimeAssumption DEF RqInv, RuntimeHoldsItsJobs
    <2> QED
      BY <2>4, <2>5 DEF RqInv
  <1> QED
    BY <1>2, <1>3, RuntimeAssumption DEF SubmitRt, RqInv, RuntimeQueueTypeOK

\* The queue in the order of the priorities holds the same jobs.
LEMMA RankedHoldsTheSame ==
    ASSUME RuntimeQueueTypeOK
    PROVE  /\ ByRank(waiting) \in Seq(RtJob) /\ Len(ByRank(waiting)) = Len(waiting)
           /\ Range(waiting) \subseteq Range(ByRank(waiting))
  <1> DEFINE key == [j \in RtJob |-> IF j \in table THEN Rank[j] ELSE 2]
  <1>1. \A j \in RtJob : key[j] \in Int
    BY RuntimeAssumption
  <1>2. waiting \in Seq(RtJob)
    BY DEF RuntimeQueueTypeOK
  <1>3. ByRank(waiting) = StablySorted(waiting, key)
    BY DEF ByRank
  <1> HIDE DEF key
  <1>4. /\ StablySorted(waiting, key) \in Seq(RtJob)
        /\ Len(StablySorted(waiting, key)) = Len(waiting)
    BY <1>1, <1>2, SortPermutes
  <1>5. \A i \in 1 .. Len(waiting) : \E n \in 1 .. Len(waiting) :
            StablySorted(waiting, key)[n] = waiting[i]
    BY <1>1, <1>2, SortPermutes
  <1> DEFINE ranked == StablySorted(waiting, key)
  <1> HIDE DEF ranked
  <1>6. \A e : e \in Range(waiting) => e \in Range(ranked)
    <2>1. DOMAIN ranked = 1 .. Len(waiting) /\ DOMAIN waiting = 1 .. Len(waiting)
      BY <1>2, <1>4 DEF ranked
    <2> QED
      BY <1>5, <2>1 DEF Range, ranked
  <1> QED
    BY <1>3, <1>4, <1>6 DEF ranked

LEMMA RqDispatches ==
    ASSUME RqInv, NEW n \in 1 .. MaxQueue, Dispatch(n) PROVE RqInv'
  <1> DEFINE free == MaxConcurrent - Cardinality(Running)
             k == CHOOSE m \in {free, n, Len(waiting)} : m <= free /\ m <= n /\ m <= Len(waiting)
             ranked == ByRank(waiting)
             taken == SubSeq(ranked, 1, k)
             left == SubSeq(ranked, k + 1, Len(waiting))
  <1>1. /\ free \in Nat /\ Len(waiting) \in Nat /\ n \in Nat /\ waiting \in Seq(RtJob)
        /\ Cardinality(Running) <= MaxConcurrent
    BY RqFinite, RuntimeAssumption DEF RqInv, RuntimeQueueTypeOK, RuntimeHoldsItsJobs
  <1>2. k \in Nat /\ k <= free /\ k <= Len(waiting)
    <2> HIDE DEF free
    <2>1. \E m \in {free, n, Len(waiting)} : m <= free /\ m <= n /\ m <= Len(waiting)
      BY <1>1
    <2> QED
      BY <1>1, <2>1
  <1>3. ranked \in Seq(RtJob) /\ Len(ranked) = Len(waiting) /\ Range(waiting) \subseteq Range(ranked)
    BY RankedHoldsTheSame DEF RqInv
  <1>4. /\ waiting' = left
        /\ running' = [j \in RtJob |-> IF j \in Range(taken) \cap table THEN "dispatched"
                                       ELSE running[j]]
        /\ UNCHANGED <<table, session, rtSubmits>>
    <2>1. ranked = ByRank(waiting) /\ Len(ranked) = Len(waiting)
      BY <1>3
    <2> QED
      BY <2>1 DEF Dispatch
  <1> HIDE DEF free, k, ranked
  <1>5. /\ taken \in Seq(RtJob) /\ Len(taken) = k /\ \A i \in 1 .. k : taken[i] = ranked[i]
        /\ left \in Seq(RtJob) /\ Len(left) = Len(waiting) - k
        /\ \A i \in 1 .. Len(waiting) - k : left[i] = ranked[k + i]
    BY <1>1, <1>2, <1>3
  <1> HIDE DEF taken, left
  <1>6. Range(ranked) \subseteq Range(taken) \cup Range(left)
    <2> SUFFICES ASSUME NEW i \in 1 .. Len(ranked) PROVE ranked[i] \in Range(taken) \cup Range(left)
      BY <1>3 DEF Range
    <2>0. DOMAIN taken = 1 .. k /\ DOMAIN left = 1 .. Len(waiting) - k
      BY <1>5
    <2>1. CASE i <= k
      <3>1. i \in 1 .. k
        BY <1>2, <1>3, <2>1
      <3>2. taken[i] = ranked[i]
        BY <1>5, <3>1
      <3> QED
        BY <2>0, <3>1, <3>2 DEF Range
    <2>2. CASE i > k
      <3>1. i - k \in 1 .. Len(waiting) - k /\ k + (i - k) = i
        BY <1>1, <1>2, <1>3, <2>2
      <3>2. left[i - k] = ranked[i]
        BY <1>5, <3>1
      <3>3. i - k \in DOMAIN left
        BY <1>5, <3>1
      <3> QED
        BY <3>2, <3>3 DEF Range
    <2> QED
      BY <1>1, <1>2, <1>3, <2>1, <2>2
  <1>7. Running' = Running \cup (Range(taken) \cap table)
    BY <1>4 DEF Running, RqInv, RuntimeQueueTypeOK
  <1>8. IsFiniteSet(Range(taken)) /\ Cardinality(Range(taken)) <= k
    <2>1. IsFiniteSet(1 .. k) /\ Cardinality(1 .. k) = k
      BY <1>2, FS_Interval
    <2>2. DOMAIN taken = 1 .. k
      BY <1>2, <1>5
    <2>3. Range(taken) = {taken[i] : i \in 1 .. k}
      BY <2>2 DEF Range
    <2> DEFINE I == 1 .. k
    <2>4. IsFiniteSet({taken[i] : i \in I}) /\ Cardinality({taken[i] : i \in I}) <= Cardinality(I)
      <3> HIDE DEF I
      <3> QED
        BY <2>1, ImageIsFinite DEF I
    <2> QED
      BY <2>1, <2>3, <2>4
  <1>9. Cardinality(Running') <= MaxConcurrent
    <2> DEFINE new == Range(taken) \cap table
    <2>1. IsFiniteSet(new) /\ Cardinality(new) <= k /\ Cardinality(new) \in Nat
      <3>1. new \in SUBSET Range(taken)
        OBVIOUS
      <3> HIDE DEF new
      <3>2. IsFiniteSet(new) /\ Cardinality(new) <= Cardinality(Range(taken))
        BY <1>8, <3>1, FS_Subset
      <3>3. Cardinality(new) \in Nat /\ Cardinality(Range(taken)) \in Nat
        BY <1>8, <3>2, FS_CardinalityType
      <3> QED
        BY <1>2, <1>8, <3>2, <3>3
    <2> HIDE DEF new
    <2>2. Cardinality(Running \cup new) = Cardinality(Running) + Cardinality(new)
                                          - Cardinality(Running \cap new)
      BY <2>1, RqFinite, FS_Union
    <2>3. Cardinality(Running \cap new) \in Nat
      <3>1. Running \cap new \in SUBSET Running
        OBVIOUS
      <3> QED
        BY <3>1, RqFinite, FS_Subset, FS_CardinalityType
    <2>4. k <= MaxConcurrent - Cardinality(Running)
      BY <1>2 DEF free
    <2>5. Cardinality(Running \cup new) <= MaxConcurrent
      BY <1>2, <2>1, <2>2, <2>3, <2>4, RqFinite, RuntimeAssumption
    <2> QED
      BY <1>7, <2>5 DEF new
  <1>10. RuntimeQueueTypeOK'
    BY <1>4, <1>5 DEF RqInv, RuntimeQueueTypeOK
  <1>11. Len(waiting') <= MaxQueue
    BY <1>1, <1>2, <1>4, <1>5, RuntimeAssumption DEF RqInv, RuntimeHoldsItsJobs
  <1>12. Sessions' = Sessions
    BY <1>4 DEF Sessions
  <1>13. Running' \subseteq table' /\ table' \subseteq Running' \cup Range(waiting')
    BY <1>3, <1>4, <1>6, <1>7 DEF RqInv, RuntimeHoldsItsJobs
  <1> QED
    BY <1>9, <1>10, <1>11, <1>12, <1>13 DEF RqInv, RuntimeHoldsItsJobs

LEMMA RqMarks ==
    ASSUME RqInv, NEW j \in RtJob, NEW state \in {"running", "streaming"}, MarkRunning(j, state)
    PROVE  RqInv'
  <1>1. Running' = Running /\ Sessions' = Sessions
    BY DEF MarkRunning, Running, Sessions, RqInv, RuntimeQueueTypeOK
  <1> QED
    BY <1>1 DEF MarkRunning, RqInv, RuntimeQueueTypeOK, RuntimeHoldsItsJobs

LEMMA RqEnds ==
    ASSUME RqInv, NEW j \in RtJob, EndJob(j) PROVE RqInv'
  <1>1. Running' = Running \ {j} /\ Sessions' = Sessions
    BY DEF EndJob, Running, Sessions, RqInv, RuntimeQueueTypeOK
  <1>2. Cardinality(Running') <= Cardinality(Running) /\ Cardinality(Running') \in Nat
    BY <1>1, RqFinite, FS_Subset, FS_CardinalityType
  <1>3. Cardinality(Running') <= MaxConcurrent
    BY <1>2, RqFinite, RuntimeAssumption DEF RqInv, RuntimeHoldsItsJobs
  <1> QED
    BY <1>1, <1>3 DEF EndJob, RqInv, RuntimeQueueTypeOK, RuntimeHoldsItsJobs

LEMMA RemoveFirstKeeps ==
    ASSUME NEW S, NEW s \in Seq(S), NEW e, \E i \in 1 .. Len(s) : s[i] = e
    PROVE  /\ RemoveFirst(s, e) \in Seq(S) /\ Len(RemoveFirst(s, e)) = Len(s) - 1
           /\ Range(s) \ {e} \subseteq Range(RemoveFirst(s, e))
  <1> DEFINE I == {i \in 1 .. Len(s) : s[i] = e}
             m == CHOOSE x \in I : \A y \in I : x <= y
             a == SubSeq(s, 1, m - 1)
             b == SubSeq(s, m + 1, Len(s))
  <1>1. m \in I
    <2>1. I \in SUBSET Nat /\ I # {}
      OBVIOUS
    <2> HIDE DEF I
    <2> QED
      BY <2>1, LeastElement
  <1>2. RemoveFirst(s, e) = a \o b
    BY <1>1 DEF RemoveFirst, RemoveAt, SelectInSeq, Min
  <1> HIDE DEF m
  <1>3. m \in 1 .. Len(s) /\ s[m] = e /\ Len(s) \in Nat
    BY <1>1
  <1>4. /\ a \in Seq(S) /\ b \in Seq(S) /\ Len(a) = m - 1 /\ Len(b) = Len(s) - m
        /\ \A i \in 1 .. m - 1 : a[i] = s[i]
        /\ \A i \in 1 .. Len(s) - m : b[i] = s[m + i]
    BY <1>3
  <1> HIDE DEF a, b, I
  <1>5. a \o b \in Seq(S) /\ Len(a \o b) = Len(s) - 1
    <2>1. a \o b \in Seq(S) /\ Len(a \o b) = Len(a) + Len(b)
      BY <1>4, ConcatProperties
    <2> QED
      BY <1>3, <1>4, <2>1
  <1>6. ASSUME NEW i \in 1 .. Len(s), s[i] # e PROVE s[i] \in Range(a \o b)
    <2>1. CASE i < m
      <3>1. i \in 1 .. Len(a) /\ i \in 1 .. Len(a \o b)
        BY <1>3, <1>4, <1>5, <2>1
      <3>2. (a \o b)[i] = s[i]
        <4>1. (a \o b)[i] = a[i]
          BY <1>4, <3>1, ConcatProperties
        <4> QED
          BY <1>4, <3>1, <4>1
      <3> QED
        BY <1>5, <3>1, <3>2 DEF Range
    <2>2. CASE i > m
      <3>1. i - m \in 1 .. Len(b) /\ i - 1 \in 1 .. Len(a \o b) /\ i - 1 = Len(a) + (i - m)
        BY <1>3, <1>4, <1>5, <2>2
      <3>2. (a \o b)[i - 1] = b[i - m]
        BY <1>4, <3>1, ConcatProperties
      <3>3. b[i - m] = s[i]
        <4>1. i - m \in 1 .. Len(s) - m /\ m + (i - m) = i
          BY <1>3, <1>4, <3>1
        <4> QED
          BY <1>4, <4>1
      <3> QED
        <4>1. DOMAIN (a \o b) = 1 .. Len(a \o b) /\ i - 1 \in DOMAIN (a \o b)
          BY <1>5, <3>1
        <4>2. (a \o b)[i - 1] = s[i]
          BY <3>2, <3>3
        <4> QED
          BY <4>1, <4>2 DEF Range
    <2> QED
      BY <1>3, <1>6, <2>1, <2>2
  <1>7. Range(s) \ {e} \subseteq Range(a \o b)
    BY <1>6 DEF Range
  <1> QED
    BY <1>2, <1>5, <1>7

LEMMA RqCancels ==
    ASSUME RqInv, NEW j \in RtJob, CancelQueued(j) PROVE RqInv'
  <1>1. /\ j \notin Running /\ waiting' = RemoveFirst(waiting, j) /\ table' = table \ {j}
        /\ UNCHANGED <<running, session, rtSubmits>>
        /\ \E i \in 1 .. Len(waiting) : waiting[i] = j
    BY DEF CancelQueued, Contains
  <1>2. waiting \in Seq(RtJob) /\ Len(waiting) \in Nat
    BY DEF RqInv, RuntimeQueueTypeOK
  <1>3. /\ waiting' \in Seq(RtJob) /\ Len(waiting') = Len(waiting) - 1
        /\ Range(waiting) \ {j} \subseteq Range(waiting')
    BY <1>1, <1>2, RemoveFirstKeeps
  <1>4. Running' = Running /\ Sessions' = Sessions
    BY <1>1 DEF Running, Sessions
  <1>5. RuntimeQueueTypeOK'
    BY <1>1, <1>3 DEF RqInv, RuntimeQueueTypeOK
  <1>6. Len(waiting') <= MaxQueue
    BY <1>2, <1>3, RuntimeAssumption DEF RqInv, RuntimeHoldsItsJobs
  <1>7. Running' \subseteq table' /\ table' \subseteq Running' \cup Range(waiting')
    BY <1>1, <1>3, <1>4 DEF RqInv, RuntimeHoldsItsJobs
  <1> QED
    BY <1>4, <1>5, <1>6, <1>7 DEF RqInv, RuntimeHoldsItsJobs

LEMMA RqSessions ==
    ASSUME RqInv, NEW s \in Stream,
           CreateSession(s) \/ \E to \in {"active", "backpressure", "none"} : MoveSession(s, to)
    PROVE  RqInv'
  <1>1. Running' = Running /\ UNCHANGED <<table, waiting, running, rtSubmits>>
    BY DEF CreateSession, MoveSession, Running
  <1>2. RuntimeQueueTypeOK'
    BY <1>1 DEF CreateSession, MoveSession, RqInv, RuntimeQueueTypeOK
  <1>3. Cardinality(Sessions') <= MaxSessions
    <2>1. CASE CreateSession(s)
      <3>1. Sessions' = Sessions \cup {s} /\ Cardinality(Sessions) < MaxSessions
        BY <2>1 DEF CreateSession, Sessions, RqInv, RuntimeQueueTypeOK
      <3>2. Cardinality(Sessions') <= Cardinality(Sessions) + 1 /\ Cardinality(Sessions') \in Nat
        <4>1. Cardinality(Sessions \cup {s}) = IF s \in Sessions THEN Cardinality(Sessions)
                                               ELSE Cardinality(Sessions) + 1
          BY RqFinite, FS_AddElement
        <4> QED
          BY <3>1, <4>1, RqFinite
      <3> QED
        BY <3>1, <3>2, RqFinite, RuntimeAssumption
    <2>2. ASSUME NEW to \in {"active", "backpressure", "none"}, MoveSession(s, to)
          PROVE  Cardinality(Sessions') <= MaxSessions
      <3>1. Sessions' \subseteq Sessions
        BY <2>2 DEF MoveSession, Sessions, RqInv, RuntimeQueueTypeOK
      <3>2. Cardinality(Sessions') <= Cardinality(Sessions) /\ Cardinality(Sessions') \in Nat
        BY <3>1, RqFinite, FS_Subset, FS_CardinalityType
      <3> QED
        BY <3>2, RqFinite, RuntimeAssumption DEF RqInv, RuntimeHoldsItsJobs
    <2> QED
      BY <2>1, <2>2
  <1> QED
    BY <1>1, <1>2, <1>3 DEF RqInv, RuntimeHoldsItsJobs

LEMMA RqInvNext == RqInv /\ [RqNext]_rqVars => RqInv'
  <1> SUFFICES ASSUME RqInv, [RqNext]_rqVars PROVE RqInv'
    OBVIOUS
  <1>1. CASE UNCHANGED rqVars
    BY <1>1 DEF rqVars, RqInv, RuntimeQueueTypeOK, RuntimeHoldsItsJobs, Running, Sessions
  <1> QED
    BY <1>1, RqSubmits, RqDispatches, RqMarks, RqEnds, RqCancels, RqSessions DEF RqNext

-----------------------------------------------------------------------------
(* Executions and their shards *)

\* The reports of an execution are at least as many as its finished shards, and those of
\* an open one fewer than its shards.
ReportsCover(e) ==
    /\ shard[e] \in Seq(ShardState) /\ Len(shard[e]) <= MaxShards
    /\ Cardinality(Over(e)) <= completedOf[e] + failedOf[e]
    /\ completedOf[e] + failedOf[e] <= Len(shard[e])
    /\ e \in activeRuns /\ Len(shard[e]) # 0 => completedOf[e] + failedOf[e] < Len(shard[e])

ShInv ==
    /\ activeRuns \subseteq Execution
    /\ shard = [e \in Execution |-> shard[e]]
    /\ completedOf \in [Execution -> Nat] /\ failedOf \in [Execution -> Nat]
    /\ \A e \in Execution : ReportsCover(e)

LEMMA ShardCount ==
    ASSUME NEW e, shard[e] \in Seq(ShardState)
    PROVE  /\ DOMAIN shard[e] = 1 .. Len(shard[e]) /\ Len(shard[e]) \in Nat
           /\ IsFiniteSet(DOMAIN shard[e]) /\ Cardinality(DOMAIN shard[e]) = Len(shard[e])
           /\ IsFiniteSet(Over(e)) /\ Cardinality(Over(e)) \in Nat
  <1>1. DOMAIN shard[e] = 1 .. Len(shard[e]) /\ Len(shard[e]) \in Nat
    OBVIOUS
  <1>2. IsFiniteSet(1 .. Len(shard[e])) /\ Cardinality(1 .. Len(shard[e])) = Len(shard[e])
    BY <1>1, FS_Interval
  <1>3. Over(e) \in SUBSET DOMAIN shard[e]
    BY DEF Over
  <1> QED
    BY <1>1, <1>2, <1>3, FS_Subset, FS_CardinalityType

LEMMA ShInvImplies == ShInv => ShardedRunsTypeOK /\ NoneLeftOpen
  <1> SUFFICES ASSUME ShInv PROVE ShardedRunsTypeOK /\ NoneLeftOpen
    OBVIOUS
  <1>1. ASSUME NEW e \in Execution
        PROVE  /\ \E n \in 0 .. MaxShards : shard[e] \in Shards(n)
               /\ completedOf[e] \in 0 .. MaxShards /\ failedOf[e] \in 0 .. MaxShards
               /\ e \in activeRuns /\ shard[e] # <<>> => Over(e) # DOMAIN shard[e]
               /\ completedOf[e] + failedOf[e] <= Cardinality(DOMAIN shard[e])
    <2>1. ReportsCover(e) /\ completedOf[e] \in Nat /\ failedOf[e] \in Nat
      BY DEF ShInv
    <2>2. /\ DOMAIN shard[e] = 1 .. Len(shard[e]) /\ Len(shard[e]) \in Nat
          /\ Cardinality(DOMAIN shard[e]) = Len(shard[e])
      BY <2>1, ShardCount DEF ReportsCover
    <2>3. Len(shard[e]) \in 0 .. MaxShards /\ shard[e] \in Shards(Len(shard[e]))
      BY <2>1, <2>2, ShardAssumption DEF ReportsCover, Shards
    <2>4. ASSUME e \in activeRuns, shard[e] # <<>> PROVE Over(e) # DOMAIN shard[e]
      <3>1. Len(shard[e]) # 0
        BY <2>1, <2>4 DEF ReportsCover
      <3> QED
        BY <2>1, <2>2, <2>4, <3>1 DEF ReportsCover
    <2> QED
      BY <2>1, <2>2, <2>3, <2>4, ShardAssumption DEF ReportsCover
  <1>2. NoneLeftOpen
    BY <1>1 DEF NoneLeftOpen
  <1>3. ShardedRunsTypeOK
    BY <1>1 DEF ShardedRunsTypeOK, ShInv
  <1> QED
    BY <1>2, <1>3

LEMMA ShInvInit == ShInit => ShInv
  <1> SUFFICES ASSUME ShInit PROVE ShInv
    OBVIOUS
  <1>1. ASSUME NEW e \in Execution PROVE ReportsCover(e)
    <2>1. shard[e] = <<>> /\ completedOf[e] = 0 /\ failedOf[e] = 0 /\ e \notin activeRuns
      BY DEF ShInit
    <2>2. shard[e] \in Seq(ShardState) /\ Len(shard[e]) = 0 /\ DOMAIN shard[e] = {}
      BY <2>1
    <2>3. Cardinality(Over(e)) = 0
      BY <2>2, FS_EmptySet DEF Over
    <2> QED
      BY <2>1, <2>2, <2>3, ShardAssumption DEF ReportsCover
  <1> QED
    BY <1>1 DEF ShInit, ShInv

LEMMA ShPlans ==
    ASSUME ShInv, NEW e \in Execution, NEW n \in 0 .. MaxShards, PlanExecution(e, n) PROVE ShInv'
  <1>1. ASSUME NEW d \in Execution PROVE ReportsCover(d)'
    <2>1. CASE d = e
      <3>1. shard'[e] = [i \in 1 .. n |-> "pending"] /\ completedOf'[e] = 0 /\ failedOf'[e] = 0
        BY DEF PlanExecution, ShInv
      <3>2. n \in Nat /\ n <= MaxShards
        BY ShardAssumption
      <3>3. shard'[e] \in Seq(ShardState) /\ Len(shard'[e]) = n
        BY <3>1, <3>2 DEF ShardState
      <3>4. Over(e)' = {}
        BY <3>1 DEF Over
      <3>5. Cardinality(Over(e)') = 0
        BY <3>4, FS_EmptySet
      <3> QED
        BY <2>1, <3>1, <3>2, <3>3, <3>5 DEF ReportsCover
    <2>2. CASE d # e
      BY <2>2 DEF PlanExecution, ShInv, ReportsCover, Over
    <2> QED
      BY <2>1, <2>2
  <1> QED
    BY <1>1 DEF PlanExecution, ShInv

\* A shard of e gets a new state, and a finished one a report.
LEMMA ShardMoves ==
    ASSUME ShInv, NEW e \in Execution, NEW i \in DOMAIN shard[e], NEW state \in ShardState,
           shard' = [shard EXCEPT ![e][i] = state]
    PROVE  /\ shard'[e] \in Seq(ShardState) /\ Len(shard'[e]) = Len(shard[e])
           /\ Len(shard[e]) \in Nat /\ Len(shard[e]) # 0 /\ Cardinality(Over(e)) \in Nat
           /\ Cardinality(Over(e))' \in Nat
           /\ Cardinality(Over(e))' <= Cardinality(Over(e)) + 1
           /\ state \notin {"completed", "failed"} => Cardinality(Over(e))' <= Cardinality(Over(e))
  <1>1. shard[e] \in Seq(ShardState) /\ Len(shard[e]) \in Nat /\ DOMAIN shard[e] = 1 .. Len(shard[e])
    BY DEF ShInv, ReportsCover
  <1>2. shard'[e] = [shard[e] EXCEPT ![i] = state]
    BY DEF ShInv
  <1>3. shard'[e] \in Seq(ShardState) /\ Len(shard'[e]) = Len(shard[e])
    BY <1>1, <1>2
  <1>4. IsFiniteSet(Over(e)) /\ Cardinality(Over(e)) \in Nat
    BY <1>1, ShardCount
  <1>5. /\ Over(e)' \subseteq Over(e) \cup {i}
        /\ state \notin {"completed", "failed"} => Over(e)' \subseteq Over(e)
    BY <1>1, <1>2 DEF Over
  <1>6. /\ IsFiniteSet(Over(e) \cup {i}) /\ Cardinality(Over(e) \cup {i}) \in Nat
        /\ Cardinality(Over(e) \cup {i}) <= Cardinality(Over(e)) + 1
    BY <1>4, OneMore
  <1>7. /\ Cardinality(Over(e)') <= Cardinality(Over(e) \cup {i}) /\ Cardinality(Over(e)') \in Nat
        /\ state \notin {"completed", "failed"} => Cardinality(Over(e)') <= Cardinality(Over(e))
    BY <1>4, <1>5, <1>6, FS_Subset, FS_CardinalityType
  <1>8. Len(shard[e]) # 0
    BY <1>1
  <1> QED
    BY <1>1, <1>3, <1>4, <1>6, <1>7, <1>8

LEMMA ShStarts ==
    ASSUME ShInv, NEW e \in Execution, NEW i \in DOMAIN shard[e], StartShard(e, i) PROVE ShInv'
  <1>1. ASSUME NEW d \in Execution PROVE ReportsCover(d)'
    <2>1. CASE d = e
      <3>1. /\ shard'[e] \in Seq(ShardState) /\ Len(shard'[e]) = Len(shard[e])
            /\ Len(shard[e]) \in Nat /\ Cardinality(Over(e)) \in Nat /\ Cardinality(Over(e))' \in Nat
            /\ Cardinality(Over(e))' <= Cardinality(Over(e))
        BY ShardMoves DEF StartShard, ShardState
      <3>2. completedOf[e] \in Nat /\ failedOf[e] \in Nat /\ ReportsCover(e)
        BY DEF ShInv
      <3> QED
        BY <2>1, <3>1, <3>2 DEF StartShard, ReportsCover
    <2>2. CASE d # e
      BY <2>2 DEF StartShard, ShInv, ReportsCover, Over
    <2> QED
      BY <2>1, <2>2
  <1> QED
    BY <1>1 DEF StartShard, ShInv

LEMMA ShCompletes ==
    ASSUME ShInv, NEW e \in Execution, NEW i \in DOMAIN shard[e], NEW success \in BOOLEAN,
           CompleteShard(e, i, success)
    PROVE  ShInv'
  <1> DEFINE c == completedOf[e] + (IF success THEN 1 ELSE 0)
             f == failedOf[e] + (IF success THEN 0 ELSE 1)
  <1>1. /\ e \in activeRuns
        /\ shard' = [shard EXCEPT ![e][i] = IF success THEN "completed" ELSE "failed"]
        /\ completedOf' = [completedOf EXCEPT ![e] = c] /\ failedOf' = [failedOf EXCEPT ![e] = f]
        /\ activeRuns' = IF Finalized(e, c, f) THEN activeRuns \ {e} ELSE activeRuns
    BY DEF CompleteShard
  <1>2. c \in Nat /\ f \in Nat /\ c + f = completedOf[e] + failedOf[e] + 1
        /\ completedOf[e] \in Nat /\ failedOf[e] \in Nat
    BY DEF ShInv
  <1> HIDE DEF c, f
  <1>3. ASSUME NEW d \in Execution PROVE ReportsCover(d)'
    <2>1. CASE d = e
      <3>1. /\ shard'[e] \in Seq(ShardState) /\ Len(shard'[e]) = Len(shard[e])
            /\ Len(shard[e]) \in Nat /\ Len(shard[e]) # 0 /\ Cardinality(Over(e)) \in Nat
            /\ Cardinality(Over(e))' \in Nat /\ Cardinality(Over(e))' <= Cardinality(Over(e)) + 1
        BY <1>1, ShardMoves DEF ShardState
      <3>2. ReportsCover(e) /\ shard[e] \in Seq(ShardState)
        BY DEF ShInv, ReportsCover
      <3>3. Cardinality(DOMAIN shard[e]) = Len(shard[e])
        BY <3>2, ShardCount
      <3>4. completedOf'[e] = c /\ failedOf'[e] = f
        BY <1>1 DEF ShInv
      <3>5. c + f <= Len(shard[e])
        BY <1>1, <1>2, <3>1, <3>2 DEF ReportsCover
      <3>6. e \in activeRuns' => c + f < Len(shard[e])
        BY <1>1, <1>2, <3>1, <3>3, <3>5 DEF Finalized
      <3>7. Len(shard'[e]) <= MaxShards
        BY <3>1, <3>2 DEF ReportsCover
      <3>8. Cardinality(Over(e))' <= c + f
        BY <1>2, <3>1, <3>2 DEF ReportsCover
      <3> QED
        BY <2>1, <3>1, <3>4, <3>5, <3>6, <3>7, <3>8 DEF ReportsCover
    <2>2. CASE d # e
      <3>1. /\ shard'[d] = shard[d] /\ completedOf'[d] = completedOf[d] /\ failedOf'[d] = failedOf[d]
            /\ d \in activeRuns' => d \in activeRuns
        BY <1>1, <2>2 DEF ShInv
      <3> QED
        BY <3>1 DEF ShInv, ReportsCover, Over
    <2> QED
      BY <2>1, <2>2
  <1> QED
    BY <1>1, <1>2, <1>3 DEF ShInv

LEMMA ShInvNext == ShInv /\ [ShNext]_shVars => ShInv'
  <1> SUFFICES ASSUME ShInv, [ShNext]_shVars PROVE ShInv'
    OBVIOUS
  <1>1. CASE UNCHANGED shVars
    BY <1>1 DEF shVars, ShInv, ReportsCover, Over
  <1> QED
    BY <1>1, ShPlans, ShStarts, ShCompletes DEF ShNext

-----------------------------------------------------------------------------
(* The compute fabric *)

ActiveUnits == {u \in Unit : placed[u] # Nowhere}
Submitting == {c \in Client : doing[c].act = "submit"}
Counting == {c \in Client : doing[c].act = "count"}
InTransit == Cardinality(ActiveUnits) + Cardinality(Submitting) + Cardinality(Counting)

\* Neither the counter nor a copy of it that a client has read exceeds what was submitted
\* and is neither active, nor being submitted, nor still to be counted.
CountsAreCovered ==
    /\ IsFiniteSet(ActiveUnits) /\ IsFiniteSet(Submitting) /\ IsFiniteSet(Counting)
    /\ finished + InTransit <= submitted
    /\ \A c \in Counting : doing[c].seen + InTransit <= submitted

DrainsLeaveLatecomers ==
    \A c \in Client : doing[c].act = "drain" =>
        /\ doing[c].from # doing[c].to
        /\ \A u \in Unit : placed[u] = doing[c].from => u \in doing[c].todo \cup arrivals[c]

CpInv == ComputeFabricTypeOK /\ CountsAreCovered /\ DrainsLeaveLatecomers

LEMMA InTransitIsNat ==
    ASSUME CountsAreCovered
    PROVE  /\ Cardinality(ActiveUnits) \in Nat /\ Cardinality(Submitting) \in Nat
           /\ Cardinality(Counting) \in Nat /\ InTransit \in Nat
  <1>1. Cardinality(ActiveUnits) \in Nat /\ Cardinality(Submitting) \in Nat /\ Cardinality(Counting) \in Nat
    BY FS_CardinalityType DEF CountsAreCovered
  <1> QED
    BY <1>1 DEF InTransit

\* A bound that moves with what it bounds.
LEMMA ShiftedBound ==
    \A v, t, new, s, bound \in Nat : new + s <= t + bound /\ v + t <= s => v + new <= bound
  OBVIOUS

LEMMA CpInvImplies == CpInv => ComputeFabricTypeOK /\ DrainLeavesLatecomers
  <1> SUFFICES ASSUME CpInv PROVE DrainLeavesLatecomers
    BY DEF CpInv
  <1>1. finished + Cardinality(ActiveUnits) + Cardinality(Submitting) <= submitted
    BY InTransitIsNat DEF CpInv, CountsAreCovered, InTransit, ComputeFabricTypeOK
  <1>2. \A c \in Client : doing[c].act = "drain" =>
            {u \in Unit : placed[u] = doing[c].from} \subseteq doing[c].todo \cup arrivals[c]
    BY DEF CpInv, DrainsLeaveLatecomers
  <1> QED
    BY <1>1, <1>2 DEF DrainLeavesLatecomers, ActiveUnits, Submitting

LEMMA CpInvInit == CpInit => CpInv
  <1> SUFFICES ASSUME CpInit PROVE CpInv
    OBVIOUS
  <1>1. \A c \in Client : doing[c] = Free_ /\ doing[c].act = "none"
    BY DEF CpInit, Free_
  <1>2. ActiveUnits = {} /\ Submitting = {} /\ Counting = {}
    BY <1>1 DEF CpInit, ActiveUnits, Submitting, Counting
  <1>3. /\ IsFiniteSet(ActiveUnits) /\ IsFiniteSet(Submitting) /\ IsFiniteSet(Counting)
        /\ InTransit = 0
    BY <1>2, FS_EmptySet DEF InTransit
  <1>4. CountsAreCovered
    BY <1>2, <1>3 DEF CountsAreCovered, CpInit
  <1>5. ComputeFabricTypeOK
    BY <1>1, ComputeFabricAssumption DEF CpInit, ComputeFabricTypeOK, Doing
  <1> QED
    BY <1>1, <1>4, <1>5 DEF CpInv, DrainsLeaveLatecomers

\* What a client does, by its act.
LEMMA DoingKinds ==
    ASSUME CpInv, NEW c \in Client
    PROVE  /\ doing[c] \in Doing
           /\ doing[c].act = "submit" => doing[c].unit \in Unit /\ doing[c].to \in Where
           /\ doing[c].act = "drain" =>
                  /\ doing[c].from \in Where /\ doing[c].to \in Where /\ doing[c].todo \subseteq Unit
                  /\ doing[c] \in [act : {"drain"}, from : Where, to : Where, todo : SUBSET Unit]
           /\ doing[c].act = "count" => doing[c].seen \in 0 .. MaxUnits
           /\ doing[c] = Free_ => doing[c].act = "none"
  <1>1. doing[c] \in Doing
    BY DEF CpInv, ComputeFabricTypeOK
  <1> QED
    BY <1>1 DEF Doing, Free_

\* The clients that submit and that count, when client c goes on to a step.
LEMMA ClientGoes ==
    ASSUME CpInv, NEW c \in Client, NEW step, doing' = [doing EXCEPT ![c] = step]
    PROVE  /\ doing'[c] = step /\ \A d \in Client \ {c} : doing'[d] = doing[d]
           /\ step.act = "submit" => Submitting' = Submitting \cup {c}
           /\ step.act # "submit" => Submitting' = Submitting \ {c}
           /\ step.act # "submit" /\ c \notin Submitting => Submitting' = Submitting
           /\ step.act = "count" => Counting' = Counting \cup {c}
           /\ step.act # "count" => Counting' = Counting \ {c}
           /\ step.act # "count" /\ c \notin Counting => Counting' = Counting
           /\ step.act = "count" /\ c \in Counting => Counting' = Counting
  <1>1. doing'[c] = step /\ \A d \in Client \ {c} : doing'[d] = doing[d]
    BY DEF CpInv, ComputeFabricTypeOK
  <1>2. \A d : d \in Submitting' <=> d \in Client /\ IF d = c THEN step.act = "submit" ELSE d \in Submitting
    BY <1>1 DEF Submitting
  <1>3. \A d : d \in Counting' <=> d \in Client /\ IF d = c THEN step.act = "count" ELSE d \in Counting
    BY <1>1 DEF Counting
  <1>4. Submitting \subseteq Client /\ Counting \subseteq Client
    BY DEF Submitting, Counting
  <1> QED
    BY <1>1, <1>2, <1>3, <1>4

\* The accounts after a step, from those before.
LEMMA AccountsMove ==
    ASSUME CpInv, NEW c \in Client, NEW step, doing' = [doing EXCEPT ![c] = step],
           IsFiniteSet(ActiveUnits)', InTransit' + submitted <= InTransit + submitted',
           submitted' \in Nat, InTransit' \in Nat,
           finished' + InTransit' <= submitted',
           step.act = "count" => step.seen + InTransit' <= submitted'
    PROVE  CountsAreCovered'
  <1>1. doing'[c] = step /\ \A d \in Client \ {c} : doing'[d] = doing[d]
    BY ClientGoes
  <1>2. IsFiniteSet(Submitting)' /\ IsFiniteSet(Counting)'
    <2>1. IsFiniteSet(Submitting) /\ IsFiniteSet(Counting)
      BY DEF CpInv, CountsAreCovered
    <2>2. /\ Submitting' = Submitting \cup {c} \/ Submitting' = Submitting \ {c}
          /\ Counting' = Counting \cup {c} \/ Counting' = Counting \ {c}
      BY ClientGoes
    <2>3. /\ IsFiniteSet(Submitting \cup {c}) /\ IsFiniteSet(Submitting \ {c})
          /\ IsFiniteSet(Counting \cup {c}) /\ IsFiniteSet(Counting \ {c})
      BY <2>1, OneMore, OneLess
    <2> QED
      BY <2>2, <2>3
  <1>3. ASSUME NEW d \in Counting' PROVE doing'[d].seen + InTransit' <= submitted'
    <2>1. d \in Client /\ doing'[d].act = "count"
      BY DEF Counting
    <2>2. CASE d = c
      BY <1>1, <2>1, <2>2
    <2>3. CASE d # c
      <3>1. d \in Counting /\ doing'[d] = doing[d]
        BY <1>1, <2>1, <2>3 DEF Counting
      <3>2. doing[d].seen + InTransit <= submitted /\ doing[d].seen \in Nat
        BY <3>1, <2>1, DoingKinds, ComputeFabricAssumption DEF CpInv, CountsAreCovered
      <3>3. InTransit \in Nat /\ submitted \in Nat
        BY InTransitIsNat, ComputeFabricAssumption DEF CpInv, ComputeFabricTypeOK
      <3>5. doing[d].seen + InTransit' <= submitted'
        BY <3>2, <3>3, ShiftedBound
      <3> QED
        BY <3>1, <3>5
    <2> QED
      BY <2>2, <2>3
  <1> QED
    BY <1>2, <1>3 DEF CountsAreCovered

\* A step that moves no workload and starts no drain.
LEMMA DrainsStay ==
    ASSUME CpInv, NEW c \in Client, NEW step, doing' = [doing EXCEPT ![c] = step],
           step.act # "drain", UNCHANGED <<placed, arrivals>>
    PROVE  DrainsLeaveLatecomers'
  <1>1. doing'[c] = step /\ \A d \in Client \ {c} : doing'[d] = doing[d]
    BY ClientGoes
  <1> QED
    BY <1>1 DEF CpInv, DrainsLeaveLatecomers

LEMMA CpChooses ==
    ASSUME CpInv, NEW c \in Client, NEW u \in Unit, NEW r \in Where, ChoosePlace(c, u, r)
    PROVE  CpInv'
  <1> DEFINE step == [act |-> "submit", unit |-> u, to |-> r]
  <1>1. /\ doing[c] = Free_ /\ submitted < MaxUnits /\ submitted' = submitted + 1
        /\ doing' = [doing EXCEPT ![c] = step]
        /\ UNCHANGED <<placed, finished, arrivals>>
    BY DEF ChoosePlace, Go_
  <1>2. step.act = "submit" /\ step \in Doing
    BY DEF Doing
  <1> HIDE DEF step
  <1>3. ComputeFabricTypeOK'
    BY <1>1, <1>2, ComputeFabricAssumption DEF CpInv, ComputeFabricTypeOK
  <1>4. c \notin Submitting /\ c \notin Counting
    BY <1>1, DoingKinds DEF Submitting, Counting
  <1>5. Submitting' = Submitting \cup {c} /\ Counting' = Counting \ {c} /\ ActiveUnits' = ActiveUnits
    BY <1>1, <1>2, ClientGoes DEF ActiveUnits
  <1>6. /\ Cardinality(Submitting') = Cardinality(Submitting) + 1 /\ Counting' = Counting
    BY <1>4, <1>5, OneMore DEF CpInv, CountsAreCovered
  <1>7. InTransit' = InTransit + 1 /\ InTransit \in Nat
    <2>1. /\ InTransit' = Cardinality(ActiveUnits) + (Cardinality(Submitting) + 1) + Cardinality(Counting)
          /\ InTransit = Cardinality(ActiveUnits) + Cardinality(Submitting) + Cardinality(Counting)
      BY <1>5, <1>6 DEF InTransit
    <2> QED
      BY <2>1, InTransitIsNat DEF CpInv
  <1>8. IsFiniteSet(ActiveUnits)'
    BY <1>5 DEF CpInv, CountsAreCovered
  <1>9. finished + InTransit <= submitted /\ finished \in Nat /\ submitted \in Nat
    BY ComputeFabricAssumption DEF CpInv, CountsAreCovered, ComputeFabricTypeOK
  <1>10. CountsAreCovered'
    <2>1. /\ InTransit' + submitted <= InTransit + submitted' /\ submitted' \in Nat
          /\ InTransit' \in Nat /\ finished' + InTransit' <= submitted'
      BY <1>1, <1>2, <1>7, <1>8, <1>9
    <2>2. step.act = "count" => step.seen + InTransit' <= submitted'
      BY <1>1, <1>2, <1>7, <1>8, <1>9
    <2>3. IsFiniteSet(ActiveUnits)' /\ doing' = [doing EXCEPT ![c] = step]
      BY <1>1, <1>2, <1>7, <1>8, <1>9
    <2> QED
      BY <2>1, <2>2, <2>3, AccountsMove
  <1>11. DrainsLeaveLatecomers'
    BY <1>1, <1>2, DrainsStay
  <1> QED
    BY <1>3, <1>10, <1>11 DEF CpInv

LEMMA CpEnters ==
    ASSUME CpInv, NEW c \in Client, EnterUnit(c) PROVE CpInv'
  <1> DEFINE u == doing[c].unit
             r == doing[c].to
  <1>1. /\ doing[c].act = "submit" /\ placed' = [placed EXCEPT ![u] = r] /\ Arrives(u, r)
        /\ doing' = [doing EXCEPT ![c] = Free_] /\ UNCHANGED <<finished, submitted>>
    BY DEF EnterUnit, Go_
  <1>2. u \in Unit /\ r \in Where /\ r # Nowhere
    BY <1>1, DoingKinds, ComputeFabricAssumption
  <1>3. Free_.act = "none" /\ Free_ \in Doing
    BY DEF Free_, Doing
  <1> HIDE DEF u, r
  <1>4. arrivals' \in [Client -> SUBSET Unit]
    BY <1>1, <1>2 DEF Arrives, CpInv, ComputeFabricTypeOK
  <1>5. ComputeFabricTypeOK'
    BY <1>1, <1>2, <1>3, <1>4, ComputeFabricAssumption DEF CpInv, ComputeFabricTypeOK
  <1>6. Submitting' = Submitting \ {c} /\ Counting' = Counting \ {c}
    BY <1>1, <1>3, ClientGoes
  <1>7. c \in Submitting /\ c \notin Counting /\ ActiveUnits' = ActiveUnits \cup {u}
    BY <1>1, <1>2 DEF Submitting, Counting, ActiveUnits, CpInv, ComputeFabricTypeOK
  <1>8. /\ Cardinality(Submitting') = Cardinality(Submitting) - 1 /\ Counting' = Counting
        /\ IsFiniteSet(ActiveUnits') /\ Cardinality(ActiveUnits') <= Cardinality(ActiveUnits) + 1
        /\ Cardinality(ActiveUnits') \in Nat
    BY <1>6, <1>7, OneLess, OneMore DEF CpInv, CountsAreCovered
  <1>9. InTransit' <= InTransit /\ InTransit \in Nat /\ InTransit' \in Nat
    <2>1. /\ InTransit' = Cardinality(ActiveUnits') + (Cardinality(Submitting) - 1) + Cardinality(Counting)
          /\ InTransit = Cardinality(ActiveUnits) + Cardinality(Submitting) + Cardinality(Counting)
      BY <1>6, <1>8 DEF InTransit
    <2>2. Cardinality(Submitting') \in Nat
      BY <1>6, OneLess DEF CpInv, CountsAreCovered
    <2> QED
      BY <1>8, <2>1, <2>2, InTransitIsNat DEF CpInv
  <1>10. finished + InTransit <= submitted /\ finished \in Nat /\ submitted \in Nat
    BY ComputeFabricAssumption DEF CpInv, CountsAreCovered, ComputeFabricTypeOK
  <1>11. CountsAreCovered'
    <2>1. /\ InTransit' + submitted <= InTransit + submitted' /\ submitted' \in Nat
          /\ InTransit' \in Nat /\ finished' + InTransit' <= submitted'
      <3>1. finished' = finished /\ submitted' = submitted
        BY <1>1
      <3>2. \A v, t, new, bound \in Nat :
                new <= t /\ v + t <= bound => new + bound <= t + bound /\ v + new <= bound
        OBVIOUS
      <3>3. InTransit' + submitted <= InTransit + submitted /\ finished + InTransit' <= submitted
        BY <1>9, <1>10, <3>2
      <3> QED
        BY <1>9, <1>10, <3>1, <3>3
    <2>2. Free_.act = "count" => Free_.seen + InTransit' <= submitted'
      BY <1>1, <1>3, <1>8, <1>9, <1>10
    <2>3. IsFiniteSet(ActiveUnits)' /\ doing' = [doing EXCEPT ![c] = Free_]
      BY <1>1, <1>3, <1>8, <1>9, <1>10
    <2> QED
      BY <2>1, <2>2, <2>3, AccountsMove
  <1>12. DrainsLeaveLatecomers'
    <2> SUFFICES ASSUME NEW d \in Client, doing'[d].act = "drain"
                 PROVE  /\ doing'[d].from # doing'[d].to
                        /\ \A v \in Unit : placed'[v] = doing'[d].from
                                           => v \in doing'[d].todo \cup arrivals'[d]
      BY DEF DrainsLeaveLatecomers
    <2>1. d # c /\ doing'[d] = doing[d]
      BY <1>1, <1>3, ClientGoes
    <2>2. \A v \in Unit : placed'[v] = IF v = u THEN r ELSE placed[v]
      BY <1>1, <1>2 DEF CpInv, ComputeFabricTypeOK
    <2>3. arrivals'[d] = IF doing[d].from = r THEN arrivals[d] \cup {u} ELSE arrivals[d]
      BY <1>1, <2>1 DEF Arrives
    <2> QED
      BY <2>1, <2>2, <2>3 DEF CpInv, DrainsLeaveLatecomers
  <1> QED
    BY <1>5, <1>11, <1>12 DEF CpInv

LEMMA CpCompletes ==
    ASSUME CpInv, NEW c \in Client, NEW u \in Unit, CompleteUnit(c, u) PROVE CpInv'
  <1> DEFINE step == [act |-> "count", read |-> FALSE, seen |-> 0]
  <1>1. /\ doing[c] = Free_ /\ placed[u] # Nowhere /\ placed' = [placed EXCEPT ![u] = Nowhere]
        /\ doing' = [doing EXCEPT ![c] = step] /\ UNCHANGED <<finished, submitted, arrivals>>
    BY DEF CompleteUnit, Go_
  <1>2. step.act = "count" /\ step \in Doing /\ step.seen = 0
    BY ComputeFabricAssumption DEF Doing
  <1> HIDE DEF step
  <1>3. ComputeFabricTypeOK'
    BY <1>1, <1>2 DEF CpInv, ComputeFabricTypeOK
  <1>4. c \notin Submitting /\ c \notin Counting /\ u \in ActiveUnits
    BY <1>1, DoingKinds DEF Submitting, Counting, ActiveUnits
  <1>5. /\ Submitting' = Submitting /\ Counting' = Counting \cup {c}
        /\ ActiveUnits' = ActiveUnits \ {u}
    BY <1>1, <1>2, <1>4, ClientGoes DEF ActiveUnits, CpInv, ComputeFabricTypeOK
  <1>6. /\ IsFiniteSet(ActiveUnits') /\ Cardinality(ActiveUnits') = Cardinality(ActiveUnits) - 1
        /\ Cardinality(Counting') = Cardinality(Counting) + 1
    BY <1>4, <1>5, OneMore, OneLess DEF CpInv, CountsAreCovered
  <1>7. InTransit' = InTransit /\ InTransit \in Nat
    BY <1>5, <1>6, InTransitIsNat DEF InTransit, CpInv
  <1>8. finished + InTransit <= submitted /\ finished \in Nat /\ submitted \in Nat
    BY ComputeFabricAssumption DEF CpInv, CountsAreCovered, ComputeFabricTypeOK
  <1>9. step.seen + InTransit' <= submitted'
    BY <1>1, <1>2, <1>7, <1>8
  <1>10. CountsAreCovered'
    <2>1. /\ InTransit' + submitted <= InTransit + submitted' /\ submitted' \in Nat
          /\ InTransit' \in Nat /\ finished' + InTransit' <= submitted'
      BY <1>1, <1>6, <1>7, <1>8, <1>9
    <2>2. step.act = "count" => step.seen + InTransit' <= submitted'
      BY <1>1, <1>6, <1>7, <1>8, <1>9
    <2>3. IsFiniteSet(ActiveUnits)' /\ doing' = [doing EXCEPT ![c] = step]
      BY <1>1, <1>6, <1>7, <1>8, <1>9
    <2> QED
      BY <2>1, <2>2, <2>3, AccountsMove
  <1>11. DrainsLeaveLatecomers'
    <2>1. doing'[c] = step /\ \A d \in Client \ {c} : doing'[d] = doing[d]
      BY <1>1, ClientGoes
    <2>2. \A v \in Unit : placed'[v] = IF v = u THEN Nowhere ELSE placed[v]
      BY <1>1 DEF CpInv, ComputeFabricTypeOK
    <2>3. \A d \in Client : doing[d].act = "drain" => doing[d].from # Nowhere
      BY DoingKinds, ComputeFabricAssumption
    <2> QED
      BY <1>1, <1>2, <2>1, <2>2, <2>3 DEF CpInv, DrainsLeaveLatecomers
  <1> QED
    BY <1>3, <1>10, <1>11 DEF CpInv

LEMMA CpReads ==
    ASSUME CpInv, NEW c \in Client, ReadCount(c) PROVE CpInv'
  <1> DEFINE step == [act |-> "count", read |-> TRUE, seen |-> finished]
  <1>1. /\ doing[c].act = "count" /\ doing' = [doing EXCEPT ![c] = step]
        /\ UNCHANGED <<placed, finished, submitted, arrivals>>
    BY DEF ReadCount, Go_
  <1>2. step.act = "count" /\ step \in Doing /\ step.seen = finished
    BY DEF Doing, CpInv, ComputeFabricTypeOK
  <1> HIDE DEF step
  <1>3. ComputeFabricTypeOK'
    BY <1>1, <1>2 DEF CpInv, ComputeFabricTypeOK
  <1>4. c \notin Submitting /\ c \in Counting
    BY <1>1 DEF Submitting, Counting
  <1>5. Submitting' = Submitting /\ Counting' = Counting /\ ActiveUnits' = ActiveUnits
    BY <1>1, <1>2, <1>4, ClientGoes DEF ActiveUnits
  <1>6. InTransit' = InTransit /\ InTransit \in Nat /\ IsFiniteSet(ActiveUnits')
    BY <1>5, InTransitIsNat DEF InTransit, CpInv, CountsAreCovered
  <1>7. finished + InTransit <= submitted /\ finished \in Nat /\ submitted \in Nat
    BY ComputeFabricAssumption DEF CpInv, CountsAreCovered, ComputeFabricTypeOK
  <1>8. CountsAreCovered'
    <2>1. /\ InTransit' + submitted <= InTransit + submitted' /\ submitted' \in Nat
          /\ InTransit' \in Nat /\ finished' + InTransit' <= submitted'
      BY <1>1, <1>2, <1>6, <1>7
    <2>2. step.act = "count" => step.seen + InTransit' <= submitted'
      BY <1>1, <1>2, <1>6, <1>7
    <2>3. IsFiniteSet(ActiveUnits)' /\ doing' = [doing EXCEPT ![c] = step]
      BY <1>1, <1>2, <1>6, <1>7
    <2> QED
      BY <2>1, <2>2, <2>3, AccountsMove
  <1>9. DrainsLeaveLatecomers'
    BY <1>1, <1>2, DrainsStay
  <1> QED
    BY <1>3, <1>8, <1>9 DEF CpInv

LEMMA CpWrites ==
    ASSUME CpInv, NEW c \in Client, WriteCount(c) PROVE CpInv'
  <1>1. /\ doing[c].act = "count" /\ finished' = doing[c].seen + 1
        /\ doing' = [doing EXCEPT ![c] = Free_] /\ UNCHANGED <<placed, submitted, arrivals>>
    BY DEF WriteCount, Go_
  <1>2. Free_.act = "none" /\ Free_ \in Doing
    BY DEF Free_, Doing
  <1>3. c \notin Submitting /\ c \in Counting
    BY <1>1 DEF Submitting, Counting
  <1>4. Submitting' = Submitting /\ Counting' = Counting \ {c} /\ ActiveUnits' = ActiveUnits
    BY <1>1, <1>2, <1>3, ClientGoes DEF ActiveUnits
  <1>5. Cardinality(Counting') = Cardinality(Counting) - 1 /\ Cardinality(Counting') \in Nat
    BY <1>3, <1>4, OneLess DEF CpInv, CountsAreCovered
  <1>6. InTransit' = InTransit - 1 /\ InTransit \in Nat /\ InTransit' \in Nat
    BY <1>4, <1>5, InTransitIsNat DEF InTransit, CpInv
  <1>7. IsFiniteSet(ActiveUnits')
    BY <1>4 DEF CpInv, CountsAreCovered
  <1>8. /\ doing[c].seen + InTransit <= submitted /\ doing[c].seen \in Nat
        /\ submitted \in Nat /\ submitted <= MaxUnits
    BY <1>1, <1>3, DoingKinds, ComputeFabricAssumption
    DEF CpInv, CountsAreCovered, ComputeFabricTypeOK
  <1>9. finished' + InTransit' <= submitted' /\ finished' \in 0 .. MaxUnits
    BY <1>1, <1>6, <1>8, ComputeFabricAssumption
  <1>10. ComputeFabricTypeOK'
    BY <1>1, <1>2, <1>9 DEF CpInv, ComputeFabricTypeOK
  <1>11. CountsAreCovered'
    <2>1. /\ InTransit' + submitted <= InTransit + submitted' /\ submitted' \in Nat
          /\ InTransit' \in Nat /\ finished' + InTransit' <= submitted'
      BY <1>1, <1>2, <1>6, <1>7, <1>8, <1>9
    <2>2. Free_.act = "count" => Free_.seen + InTransit' <= submitted'
      BY <1>1, <1>2, <1>6, <1>7, <1>8, <1>9
    <2>3. IsFiniteSet(ActiveUnits)' /\ doing' = [doing EXCEPT ![c] = Free_]
      BY <1>1, <1>2, <1>6, <1>7, <1>8, <1>9
    <2> QED
      BY <2>1, <2>2, <2>3, AccountsMove
  <1>12. DrainsLeaveLatecomers'
    BY <1>1, <1>2, DrainsStay
  <1> QED
    BY <1>10, <1>11, <1>12 DEF CpInv

\* A workload that is active moves to another region.
LEMMA MovesKeep ==
    ASSUME CpInv, NEW u \in Unit, NEW r \in Where, placed[u] # Nowhere,
           placed' = [placed EXCEPT ![u] = r], Arrives(u, r)
    PROVE  /\ placed' \in [Unit -> Where \cup {Nowhere}] /\ arrivals' \in [Client -> SUBSET Unit]
           /\ ActiveUnits' = ActiveUnits
           /\ \A d \in Client : doing[d].act = "drain" => \A v \in Unit :
                  placed'[v] = doing[d].from =>
                      \/ v \in arrivals'[d]
                      \/ v \in doing[d].todo /\ (v = u => doing[d].from = r)
  <1>1. placed' \in [Unit -> Where \cup {Nowhere}] /\ arrivals' \in [Client -> SUBSET Unit]
    BY DEF Arrives, CpInv, ComputeFabricTypeOK
  <1>2. \A v \in Unit : placed'[v] = IF v = u THEN r ELSE placed[v]
    BY DEF CpInv, ComputeFabricTypeOK
  <1>3. ActiveUnits' = ActiveUnits
    BY <1>2, ComputeFabricAssumption DEF ActiveUnits
  <1>4. ASSUME NEW d \in Client, doing[d].act = "drain", NEW v \in Unit, placed'[v] = doing[d].from
        PROVE  \/ v \in arrivals'[d]
               \/ v \in doing[d].todo /\ (v = u => doing[d].from = r)
    <2>1. arrivals'[d] = IF doing[d].from = r THEN arrivals[d] \cup {u} ELSE arrivals[d]
      BY <1>4 DEF Arrives
    <2> QED
      BY <1>2, <1>4, <2>1 DEF CpInv, DrainsLeaveLatecomers
  <1> QED
    BY <1>1, <1>3, <1>4

LEMMA CpMigrates ==
    ASSUME CpInv, NEW c \in Client, NEW u \in Unit, NEW r \in Where, MigrateUnit(c, u, r) PROVE CpInv'
  <1>1. /\ placed[u] # Nowhere /\ placed' = [placed EXCEPT ![u] = r] /\ Arrives(u, r)
        /\ UNCHANGED <<doing, finished, submitted>>
    BY DEF MigrateUnit
  <1>2. /\ placed' \in [Unit -> Where \cup {Nowhere}] /\ arrivals' \in [Client -> SUBSET Unit]
        /\ ActiveUnits' = ActiveUnits
        /\ \A d \in Client : doing[d].act = "drain" => \A v \in Unit :
               placed'[v] = doing[d].from =>
                   \/ v \in arrivals'[d]
                   \/ v \in doing[d].todo /\ (v = u => doing[d].from = r)
    BY <1>1, MovesKeep
  <1>3. ComputeFabricTypeOK'
    BY <1>1, <1>2 DEF CpInv, ComputeFabricTypeOK
  <1>4. CountsAreCovered'
    BY <1>1, <1>2 DEF CpInv, CountsAreCovered, InTransit, Submitting, Counting
  <1>5. DrainsLeaveLatecomers'
    BY <1>1, <1>2 DEF CpInv, DrainsLeaveLatecomers
  <1> QED
    BY <1>3, <1>4, <1>5 DEF CpInv

LEMMA CpLists ==
    ASSUME CpInv, NEW c \in Client, NEW from \in Where, NEW to \in Where, ListUnits(c, from, to)
    PROVE  CpInv'
  <1> DEFINE there == {u \in Unit : placed[u] = from}
             step == [act |-> "drain", from |-> from, to |-> to, todo |-> there]
  <1>1. /\ doing[c] = Free_ /\ from # to /\ doing' = [doing EXCEPT ![c] = step]
        /\ arrivals' = [arrivals EXCEPT ![c] = {}] /\ UNCHANGED <<placed, finished, submitted>>
    BY DEF ListUnits, Go_
  <1>2. /\ step.act = "drain" /\ step.from = from /\ step.to = to /\ step.todo = there
        /\ step \in Doing
    BY DEF Doing
  <1>3. \A u \in Unit : placed[u] = from => u \in there
    OBVIOUS
  <1> HIDE DEF step, there
  <1>4. ComputeFabricTypeOK'
    BY <1>1, <1>2 DEF CpInv, ComputeFabricTypeOK
  <1>5. c \notin Submitting /\ c \notin Counting
    BY <1>1, DoingKinds DEF Submitting, Counting
  <1>6. Submitting' = Submitting /\ Counting' = Counting /\ ActiveUnits' = ActiveUnits
    BY <1>1, <1>2, <1>5, ClientGoes DEF ActiveUnits
  <1>7. InTransit' = InTransit /\ InTransit \in Nat /\ IsFiniteSet(ActiveUnits')
    BY <1>6, InTransitIsNat DEF InTransit, CpInv, CountsAreCovered
  <1>8. finished + InTransit <= submitted /\ finished \in Nat /\ submitted \in Nat
    BY ComputeFabricAssumption DEF CpInv, CountsAreCovered, ComputeFabricTypeOK
  <1>9. CountsAreCovered'
    <2>1. /\ InTransit' + submitted <= InTransit + submitted' /\ submitted' \in Nat
          /\ InTransit' \in Nat /\ finished' + InTransit' <= submitted'
      BY <1>1, <1>2, <1>7, <1>8
    <2>2. step.act = "count" => step.seen + InTransit' <= submitted'
      BY <1>1, <1>2, <1>7, <1>8
    <2>3. IsFiniteSet(ActiveUnits)' /\ doing' = [doing EXCEPT ![c] = step]
      BY <1>1, <1>2, <1>7, <1>8
    <2> QED
      BY <2>1, <2>2, <2>3, AccountsMove
  <1>10. DrainsLeaveLatecomers'
    <2>1. doing'[c] = step /\ \A d \in Client \ {c} : doing'[d] = doing[d] /\ arrivals'[d] = arrivals[d]
      BY <1>1, ClientGoes DEF CpInv, ComputeFabricTypeOK
    <2> QED
      BY <1>1, <1>2, <1>3, <2>1 DEF CpInv, DrainsLeaveLatecomers
  <1> QED
    BY <1>4, <1>9, <1>10 DEF CpInv

LEMMA CpMoves ==
    ASSUME CpInv, NEW c \in Client, MoveListed(c) PROVE CpInv'
  <1>1. doing[c].act = "drain" /\ UNCHANGED <<finished, submitted>>
    BY DEF MoveListed
  <1>2. PICK u \in doing[c].todo :
            /\ doing' = [doing EXCEPT ![c] = [doing[c] EXCEPT !.todo = @ \ {u}]]
            /\ IF placed[u] = Nowhere THEN UNCHANGED <<placed, arrivals>>
               ELSE placed' = [placed EXCEPT ![u] = doing[c].to] /\ Arrives(u, doing[c].to)
    BY DEF MoveListed, Go_
  <1> DEFINE step == [doing[c] EXCEPT !.todo = @ \ {u}]
  <1>3. u \in Unit /\ doing[c].to \in Where /\ doing[c].from \in Where
    BY <1>1, DoingKinds
  <1>4. /\ step.act = "drain" /\ step.from = doing[c].from /\ step.to = doing[c].to
        /\ step.todo = doing[c].todo \ {u} /\ step \in Doing
    <2>1. doing[c] \in [act : {"drain"}, from : Where, to : Where, todo : SUBSET Unit]
      BY <1>1, DoingKinds
    <2> QED
      BY <2>1 DEF Doing
  <1>5. doing' = [doing EXCEPT ![c] = step]
    BY <1>2
  <1> HIDE DEF step
  <1>6. /\ placed' \in [Unit -> Where \cup {Nowhere}] /\ arrivals' \in [Client -> SUBSET Unit]
        /\ ActiveUnits' = ActiveUnits
    <2>1. CASE placed[u] = Nowhere
      BY <1>2, <2>1 DEF CpInv, ComputeFabricTypeOK, ActiveUnits
    <2>2. CASE placed[u] # Nowhere
      BY <1>2, <1>3, <2>2, MovesKeep
    <2> QED
      BY <2>1, <2>2
  <1>7. ComputeFabricTypeOK'
    BY <1>1, <1>4, <1>5, <1>6 DEF CpInv, ComputeFabricTypeOK
  <1>8. c \notin Submitting /\ c \notin Counting
    BY <1>1 DEF Submitting, Counting
  <1>9. Submitting' = Submitting /\ Counting' = Counting
    BY <1>4, <1>5, <1>8, ClientGoes
  <1>10. InTransit' = InTransit /\ InTransit \in Nat /\ IsFiniteSet(ActiveUnits')
    BY <1>6, <1>9, InTransitIsNat DEF InTransit, CpInv, CountsAreCovered
  <1>11. finished + InTransit <= submitted /\ finished \in Nat /\ submitted \in Nat
    BY ComputeFabricAssumption DEF CpInv, CountsAreCovered, ComputeFabricTypeOK
  <1>12. CountsAreCovered'
    <2>1. /\ InTransit' + submitted <= InTransit + submitted' /\ submitted' \in Nat
          /\ InTransit' \in Nat /\ finished' + InTransit' <= submitted'
      BY <1>1, <1>4, <1>5, <1>10, <1>11
    <2>2. step.act = "count" => step.seen + InTransit' <= submitted'
      BY <1>1, <1>4, <1>5, <1>10, <1>11
    <2>3. IsFiniteSet(ActiveUnits)' /\ doing' = [doing EXCEPT ![c] = step]
      BY <1>1, <1>4, <1>5, <1>10, <1>11
    <2> QED
      BY <2>1, <2>2, <2>3, AccountsMove
  <1>13. DrainsLeaveLatecomers'
    <2>1. doing'[c] = step /\ \A d \in Client \ {c} : doing'[d] = doing[d]
      BY <1>5, ClientGoes
    <2>2. doing[c].from # doing[c].to
      BY <1>1 DEF CpInv, DrainsLeaveLatecomers
    <2>3. \A d \in Client : doing[d].act = "drain" => \A v \in Unit :
              placed'[v] = doing[d].from =>
                  \/ v \in arrivals'[d]
                  \/ v \in doing[d].todo /\ (v = u => doing[d].from # doing[c].from)
      <3>1. CASE placed[u] = Nowhere
        BY <1>2, <1>3, <3>1, ComputeFabricAssumption DEF CpInv, DrainsLeaveLatecomers
      <3>2. CASE placed[u] # Nowhere
        <4>1. \A d \in Client : doing[d].act = "drain" => \A v \in Unit :
                  placed'[v] = doing[d].from =>
                      \/ v \in arrivals'[d]
                      \/ v \in doing[d].todo /\ (v = u => doing[d].from = doing[c].to)
          BY <1>2, <1>3, <3>2, MovesKeep
        <4> QED
          BY <2>2, <4>1
      <3> QED
        BY <3>1, <3>2
    <2>4. \A d \in Client : doing'[d].act = "drain" =>
              doing[d].act = "drain" /\ doing'[d].from = doing[d].from /\ doing'[d].to = doing[d].to
      BY <1>1, <1>4, <2>1
    <2> QED
      BY <1>4, <2>1, <2>3, <2>4 DEF CpInv, DrainsLeaveLatecomers
  <1> QED
    BY <1>7, <1>12, <1>13 DEF CpInv

LEMMA CpDrainEnds ==
    ASSUME CpInv, NEW c \in Client, DrainEnds(c) PROVE CpInv'
  <1>1. /\ doing[c].act = "drain" /\ doing' = [doing EXCEPT ![c] = Free_]
        /\ UNCHANGED <<placed, finished, submitted, arrivals>>
    BY DEF DrainEnds, Go_
  <1>2. Free_.act = "none" /\ Free_ \in Doing
    BY DEF Free_, Doing
  <1>3. ComputeFabricTypeOK'
    BY <1>1, <1>2 DEF CpInv, ComputeFabricTypeOK
  <1>4. c \notin Submitting /\ c \notin Counting
    BY <1>1 DEF Submitting, Counting
  <1>5. Submitting' = Submitting /\ Counting' = Counting /\ ActiveUnits' = ActiveUnits
    BY <1>1, <1>2, <1>4, ClientGoes DEF ActiveUnits
  <1>6. InTransit' = InTransit /\ InTransit \in Nat /\ IsFiniteSet(ActiveUnits')
    BY <1>5, InTransitIsNat DEF InTransit, CpInv, CountsAreCovered
  <1>7. finished + InTransit <= submitted /\ finished \in Nat /\ submitted \in Nat
    BY ComputeFabricAssumption DEF CpInv, CountsAreCovered, ComputeFabricTypeOK
  <1>8. CountsAreCovered'
    <2>1. /\ InTransit' + submitted <= InTransit + submitted' /\ submitted' \in Nat
          /\ InTransit' \in Nat /\ finished' + InTransit' <= submitted'
      BY <1>1, <1>2, <1>6, <1>7
    <2>2. Free_.act = "count" => Free_.seen + InTransit' <= submitted'
      BY <1>1, <1>2, <1>6, <1>7
    <2>3. IsFiniteSet(ActiveUnits)' /\ doing' = [doing EXCEPT ![c] = Free_]
      BY <1>1, <1>2, <1>6, <1>7
    <2> QED
      BY <2>1, <2>2, <2>3, AccountsMove
  <1>9. DrainsLeaveLatecomers'
    BY <1>1, <1>2, DrainsStay
  <1> QED
    BY <1>3, <1>8, <1>9 DEF CpInv

LEMMA CpInvNext == CpInv /\ [CpNext]_cpVars => CpInv'
  <1> SUFFICES ASSUME CpInv, [CpNext]_cpVars PROVE CpInv'
    OBVIOUS
  <1>1. CASE UNCHANGED cpVars
    BY <1>1 DEF cpVars, CpInv, ComputeFabricTypeOK, CountsAreCovered, DrainsLeaveLatecomers,
                ActiveUnits, Submitting, Counting, InTransit
  <1> QED
    BY <1>1, CpChooses, CpEnters, CpCompletes, CpReads, CpWrites, CpMigrates, CpLists, CpMoves,
       CpDrainEnds DEF CpNext

-----------------------------------------------------------------------------
(* Migrations between regions *)

Uncompleted(k) == migrations[k].status # "completed"

\* The migrations that callers are to execute or are executing are in the list, the former
\* not completed, and each is in one place.
PlansAreApart ==
    /\ planned = [c \in Migrator |-> planned[c]]
    /\ \A c \in Migrator : \A n \in 1 .. Len(planned[c]) :
          planned[c][n] \in 1 .. Len(migrations) /\ Uncompleted(planned[c][n])
    /\ \A c \in Migrator : moving[c] # 0 => moving[c] \in 1 .. Len(migrations)
    /\ \A c, d \in Migrator : moving[c] # 0 /\ moving[c] = moving[d] => c = d
    /\ \A c, d \in Migrator : \A n \in 1 .. Len(planned[c]) : planned[c][n] # moving[d]
    /\ \A c, d \in Migrator : \A n \in 1 .. Len(planned[c]), m \in 1 .. Len(planned[d]) :
          planned[c][n] = planned[d][m] => c = d /\ n = m

\* The migrations that completed and that no caller has in hand any more.
CountedDone == {k \in (1 .. Len(migrations)) \ Underway : ~ Uncompleted(k)}

TableIsRight ==
    /\ Cardinality(Active) <= MigrationLimit
    /\ \A i \in Active : migrating[i] \in Underway /\ migrations[migrating[i]].id = i
    /\ \A k \in Underway : Shared(k) \/ migrating[migrations[k].id] = k

MiInv ==
    /\ MigrationsTypeOK /\ PlansAreApart /\ TableIsRight
    /\ migrated = Cardinality(CountedDone)

LEMMA ListOfMigrations ==
    ASSUME MigrationsTypeOK
    PROVE  /\ Len(migrations) \in Nat /\ DOMAIN migrations = 1 .. Len(migrations)
           /\ \A k \in 1 .. Len(migrations) : migrations[k] \in Migration
           /\ IsFiniteSet(CountedDone) /\ Cardinality(CountedDone) \in Nat
           /\ Cardinality(CountedDone) <= Len(migrations)
           /\ Len(migrations) <= MaxMigrations /\ MaxMigrations \in Nat
           /\ IsFiniteSet(Active) /\ Cardinality(Active) \in Nat
  <1>1. /\ Len(migrations) \in Nat /\ DOMAIN migrations = 1 .. Len(migrations)
        /\ \A k \in 1 .. Len(migrations) : migrations[k] \in Migration
        /\ Len(migrations) <= MaxMigrations /\ MaxMigrations \in Nat
    BY MigrationAssumption DEF MigrationsTypeOK
  <1>2. IsFiniteSet(1 .. Len(migrations)) /\ Cardinality(1 .. Len(migrations)) = Len(migrations)
    <2>1. \A n \in Nat : IsFiniteSet(1 .. n) /\ Cardinality(1 .. n) = n
      BY FS_Interval
    <2> QED
      BY <1>1, <2>1
  <1>3. CountedDone \in SUBSET (1 .. Len(migrations)) /\ Active \in SUBSET MigrationId
    BY DEF CountedDone, Active
  <1> HIDE DEF CountedDone, Active
  <1>4. /\ IsFiniteSet(CountedDone) /\ Cardinality(CountedDone) \in Nat
        /\ Cardinality(CountedDone) <= Cardinality(1 .. Len(migrations))
    BY <1>2, <1>3, Fewer
  <1>5. IsFiniteSet(Active) /\ Cardinality(Active) \in Nat
    BY <1>3, Fewer, MigrationAssumption
  <1> QED
    BY <1>1, <1>2, <1>4, <1>5

LEMMA MiInvImplies == MiInv => MigrationsTypeOK /\ MigrationsAreLimited
  <1> SUFFICES ASSUME MiInv PROVE MigrationsAreLimited
    BY DEF MiInv
  <1>1. MigrationsTypeOK
    BY DEF MiInv
  <1> DEFINE U == {k \in Underway : ~ Shared(k)}
             f == [k \in U |-> migrations[k].id]
  <1>2. \A k \in U : k \in 1 .. Len(migrations) /\ f[k] = migrations[k].id /\ f[k] \in Active
    <2> SUFFICES ASSUME NEW k \in U
                 PROVE  k \in 1 .. Len(migrations) /\ f[k] = migrations[k].id /\ f[k] \in Active
      OBVIOUS
    <2>1. k \in Underway /\ ~ Shared(k)
      OBVIOUS
    <2>2. k \in 1 .. Len(migrations) /\ k # 0
      BY <2>1 DEF Underway, MiInv, PlansAreApart
    <2>3. migrations[k].id \in MigrationId /\ migrating[migrations[k].id] = k
      BY <1>1, <2>1, <2>2, ListOfMigrations DEF MiInv, TableIsRight, Migration
    <2> QED
      BY <2>2, <2>3 DEF Active
  <1>3. \A k, l \in U : f[k] = f[l] => k = l
    BY <1>1, <1>2, ListOfMigrations DEF Shared
  <1> HIDE DEF f, U
  <1>4. IsFiniteSet(U) /\ Cardinality(U) <= Cardinality(Active)
    BY <1>1, <1>2, <1>3, ListOfMigrations, InjectionBounds
  <1>5. Cardinality(U) \in Nat
    BY <1>4, FS_CardinalityType
  <1>6. Cardinality(U) <= MigrationLimit
    BY <1>1, <1>4, <1>5, ListOfMigrations, MigrationAssumption DEF MiInv, TableIsRight
  <1> DEFINE completed == {k \in DOMAIN migrations : migrations[k].status = "completed"}
             open == completed \cap Underway
  <1>7. completed = CountedDone \cup open /\ CountedDone \cap open = {}
    BY <1>1, ListOfMigrations DEF CountedDone, Uncompleted
  <1>8. completed \in SUBSET (1 .. Len(migrations)) /\ open \in SUBSET completed
    BY <1>1, ListOfMigrations
  <1> HIDE DEF completed
  <1>9. IsFiniteSet(open) /\ Cardinality(open) \in Nat
    <2>1. Len(migrations) \in Nat
      BY <1>1, ListOfMigrations
    <2>2. IsFiniteSet(1 .. Len(migrations))
      BY <2>1, FS_Interval
    <2> QED
      BY <1>8, <2>2, Fewer
  <1> HIDE DEF open
  <1>10. migrated + Cardinality(open) = Cardinality(completed)
    <2>1. IsFiniteSet(CountedDone) /\ migrated = Cardinality(CountedDone) /\ Cardinality(CountedDone) \in Nat
      BY <1>1, ListOfMigrations DEF MiInv
    <2>2. Cardinality(CountedDone \cup open) = Cardinality(CountedDone) + Cardinality(open) - Cardinality(CountedDone \cap open)
      BY <1>9, <2>1, FS_Union
    <2>3. Cardinality(CountedDone \cap open) = 0
      BY <1>7, FS_EmptySet
    <2> QED
      BY <1>7, <1>9, <2>1, <2>2, <2>3
  <1> QED
    BY <1>6, <1>10 DEF MiInv, TableIsRight, MigrationsAreLimited, U, completed, open

LEMMA MiInvInit == MiInit => MiInv
  <1> SUFFICES ASSUME MiInit PROVE MiInv
    OBVIOUS
  <1>1. /\ migrations = <<>> /\ Len(migrations) = 0 /\ migrations \in Seq(Migration)
        /\ \A c \in Migrator : planned[c] = <<>> /\ Len(planned[c]) = 0 /\ moving[c] = 0
    BY DEF MiInit
  <1>2. CountedDone = {} /\ Active = {} /\ Underway = {}
    BY <1>1 DEF MiInit, CountedDone, Active, Underway, Uncompleted
  <1>3. Cardinality(CountedDone) = 0 /\ Cardinality(Active) = 0
    BY <1>2, FS_EmptySet
  <1>4. MigrationsTypeOK
    BY <1>1, MigrationAssumption DEF MiInit, MigrationsTypeOK
  <1>5. PlansAreApart
    BY <1>1 DEF MiInit, PlansAreApart
  <1>6. TableIsRight
    BY <1>2, <1>3, MigrationAssumption DEF TableIsRight
  <1> QED
    BY <1>3, <1>4, <1>5, <1>6 DEF MiInit, MiInv

LEMMA PlanHolds ==
    ASSUME MiInv, NEW c \in Migrator, NEW ids \in SUBSET MigrationId, PlanMigrations(c, ids)
    PROVE  MiInv'
  <1> DEFINE order == SetToSeq(ids)
             N == Len(order)
             L == Len(migrations)
             more == [k \in 1 .. N |-> [id |-> order[k], status |-> "planned"]]
             mine == [k \in 1 .. N |-> L + k]
  <1>1. /\ MigrationsTypeOK /\ L \in Nat /\ DOMAIN migrations = 1 .. L
        /\ \A k \in 1 .. L : migrations[k] \in Migration
    BY ListOfMigrations DEF MiInv
  <1>2. IsFiniteSet(ids)
    BY Fewer, MigrationAssumption
  <1>3. order \in Seq(ids) /\ N = Cardinality(ids) /\ Cardinality(ids) \in Nat
    BY <1>2, SetToSeqLists
  <1>4. N \in Nat /\ DOMAIN order = 1 .. N /\ \A k \in 1 .. N : order[k] \in MigrationId
    BY <1>3
  <1>5. /\ planned[c] = <<>> /\ moving[c] = 0 /\ L + N <= MaxMigrations
        /\ migrations' = migrations \o more
        /\ planned' = [planned EXCEPT ![c] = mine]
        /\ UNCHANGED <<migrating, moving, migrated>>
    BY <1>3, <1>4 DEF PlanMigrations
  <1> HIDE DEF order, N
  <1>6. more \in Seq(Migration) /\ Len(more) = N
    BY <1>4 DEF Migration
  <1>7. \A k \in 1 .. N : more[k].status = "planned"
    OBVIOUS
  <1> HIDE DEF more
  <1>8. /\ migrations' \in Seq(Migration) /\ Len(migrations') = L + N
        /\ \A k \in 1 .. L : k \in 1 .. Len(migrations') /\ migrations'[k] = migrations[k]
        /\ \A k \in 1 .. N : L + k \in 1 .. Len(migrations') /\ migrations'[L + k] = more[k]
        /\ \A i \in 1 .. Len(migrations') : i \in 1 .. L \/ \E k \in 1 .. N : i = L + k
    BY <1>1, <1>5, <1>6, Joining DEF MigrationsTypeOK
  <1>9. mine \in Seq(1 .. MaxMigrations) /\ Len(mine) = N /\ \A n \in 1 .. N : mine[n] = L + n
    <2>1. \A n \in 1 .. N : L + n \in 1 .. MaxMigrations
      BY <1>1, <1>4, <1>5, MigrationAssumption
    <2> HIDE DEF L
    <2> QED
      BY <1>4, <2>1
  <1> HIDE DEF mine
  <1>10. /\ planned' = [d \in Migrator |-> planned'[d]] /\ planned'[c] = mine
         /\ \A d \in Migrator : d # c => planned'[d] = planned[d]
    BY <1>5 DEF MiInv, PlansAreApart
  <1>11. MigrationsTypeOK'
    <2>1. Len(migrations') <= MaxMigrations
      BY <1>5, <1>8
    <2>2. \A d \in Migrator : planned'[d] \in Seq(1 .. MaxMigrations)
      BY <1>1, <1>9, <1>10 DEF MigrationsTypeOK
    <2> QED
      BY <1>1, <1>5, <1>8, <2>1, <2>2 DEF MigrationsTypeOK
  <1>12. \A d \in Migrator : moving[d] # 0 => moving[d] \in 1 .. L
    BY DEF MiInv, PlansAreApart
  <1>13. \A d \in Migrator : d # c => \A n \in 1 .. Len(planned[d]) :
             planned[d][n] \in 1 .. L /\ Uncompleted(planned[d][n])
    BY DEF MiInv, PlansAreApart
  <1>14. \A k \in 1 .. L : Uncompleted(k) => migrations'[k].status # "completed"
    BY <1>8 DEF Uncompleted
  <1>15. \A k \in 1 .. N : migrations'[L + k].status # "completed"
    BY <1>7, <1>8
  <1>16. /\ \A k \in 1 .. N : L + k \notin 1 .. L /\ L + k # 0
         /\ \A k, m \in 1 .. N : L + k = L + m => k = m
    BY <1>1, <1>4
  <1>17. PlansAreApart'
    <2>1. \A d \in Migrator : \A n \in 1 .. Len(planned'[d]) :
              planned'[d][n] \in 1 .. Len(migrations') /\ migrations'[planned'[d][n]].status # "completed"
      <3> SUFFICES ASSUME NEW d \in Migrator, NEW n \in 1 .. Len(planned'[d])
                   PROVE  /\ planned'[d][n] \in 1 .. Len(migrations')
                          /\ migrations'[planned'[d][n]].status # "completed"
        OBVIOUS
      <3>1. CASE d = c
        BY <1>8, <1>9, <1>10, <1>15, <3>1
      <3>2. CASE d # c
        BY <1>8, <1>10, <1>13, <1>14, <3>2
      <3> QED
        BY <3>1, <3>2
    <2>2. \A d \in Migrator : moving'[d] # 0 => moving'[d] \in 1 .. Len(migrations')
      BY <1>5, <1>8, <1>12
    <2>3. \A d, e \in Migrator : moving'[d] # 0 /\ moving'[d] = moving'[e] => d = e
      BY <1>5 DEF MiInv, PlansAreApart
    <2>4. \A d, e \in Migrator : \A n \in 1 .. Len(planned'[d]) : planned'[d][n] # moving'[e]
      <3> SUFFICES ASSUME NEW d \in Migrator, NEW e \in Migrator, NEW n \in 1 .. Len(planned'[d]),
                          planned'[d][n] = moving[e]
                   PROVE  FALSE
        BY <1>5
      <3>1. CASE d = c
        BY <1>9, <1>10, <1>12, <1>16, <3>1
      <3>2. CASE d # c
        BY <1>10, <3>2 DEF MiInv, PlansAreApart
      <3> QED
        BY <3>1, <3>2
    <2>5. \A d, e \in Migrator : \A n \in 1 .. Len(planned'[d]), m \in 1 .. Len(planned'[e]) :
              planned'[d][n] = planned'[e][m] => d = e /\ n = m
      <3> SUFFICES ASSUME NEW d \in Migrator, NEW e \in Migrator, NEW n \in 1 .. Len(planned'[d]),
                          NEW m \in 1 .. Len(planned'[e]), planned'[d][n] = planned'[e][m]
                   PROVE  d = e /\ n = m
        OBVIOUS
      <3>1. CASE d = c /\ e = c
        BY <1>9, <1>10, <1>16, <3>1
      <3>2. CASE d = c /\ e # c
        BY <1>9, <1>10, <1>13, <1>16, <3>2
      <3>3. CASE d # c /\ e = c
        BY <1>9, <1>10, <1>13, <1>16, <3>3
      <3>4. CASE d # c /\ e # c
        BY <1>10, <3>4 DEF MiInv, PlansAreApart
      <3> QED
        BY <3>1, <3>2, <3>3, <3>4
    <2> QED
      BY <1>10, <2>1, <2>2, <2>3, <2>4, <2>5 DEF PlansAreApart, Uncompleted
  <1>19. Active' = Active /\ Underway' = Underway /\ \A k \in Underway : k \in 1 .. L
    BY <1>5, <1>12 DEF Active, Underway
  <1>18. CountedDone' = CountedDone
    <2>1. \A m \in 1 .. Len(migrations') : migrations'[m].status = "completed" => m \in 1 .. L
      BY <1>8, <1>15
    <2> QED
      BY <1>8, <1>19, <2>1 DEF CountedDone, Uncompleted
  <1>20. \A k \in 1 .. L : Shared(k) => Shared(k)'
    <2>1. DOMAIN migrations' = 1 .. Len(migrations')
      BY <1>8
    <2> QED
      BY <1>1, <1>8, <2>1 DEF Shared
  <1>21. TableIsRight'
    <2>1. \A k \in Underway : migrations'[k] = migrations[k]
      BY <1>8, <1>19
    <2>2. \A i \in Active : migrating[i] \in Underway /\ migrations[migrating[i]].id = i
      BY DEF MiInv, TableIsRight
    <2>3. \A k \in Underway : Shared(k)' \/ migrating'[migrations'[k].id] = k
      BY <1>5, <1>19, <1>20, <2>1 DEF MiInv, TableIsRight
    <2>4. \A i \in Active : migrating'[i] \in Underway /\ migrations'[migrating'[i]].id = i
      BY <1>5, <2>1, <2>2
    <2>5. Cardinality(Active) <= MigrationLimit
      BY DEF MiInv, TableIsRight
    <2> QED
      BY <1>19, <2>3, <2>4, <2>5 DEF TableIsRight
  <1> QED
    BY <1>5, <1>11, <1>17, <1>18, <1>21 DEF MiInv

\* The status of one migration changes.
LEMMA StatusSet ==
    ASSUME MigrationsTypeOK, NEW k \in 1 .. Len(migrations),
           NEW st \in {"planned", "draining", "completed", "cancelled"},
           migrations' = [migrations EXCEPT ![k].status = st]
    PROVE  /\ migrations' \in Seq(Migration) /\ Len(migrations') = Len(migrations)
           /\ DOMAIN migrations' = 1 .. Len(migrations)
           /\ \A l \in 1 .. Len(migrations) :
                 /\ migrations'[l].id = migrations[l].id
                 /\ migrations'[l].status = IF l = k THEN st ELSE migrations[l].status
           /\ \A l \in 1 .. Len(migrations) : Shared(l)' <=> Shared(l)
  <1>1. /\ Len(migrations) \in Nat /\ DOMAIN migrations = 1 .. Len(migrations)
        /\ migrations \in Seq(Migration)
        /\ \A l \in 1 .. Len(migrations) : migrations[l] \in Migration
    BY ListOfMigrations DEF MigrationsTypeOK
  <1>2. DOMAIN migrations' = 1 .. Len(migrations)
    BY <1>1
  <1>3. \A l \in 1 .. Len(migrations) :
            migrations'[l] = IF l = k THEN [migrations[l] EXCEPT !.status = st] ELSE migrations[l]
    BY <1>1
  <1>4. \A l \in 1 .. Len(migrations) :
            /\ migrations'[l] \in Migration
            /\ migrations'[l].id = migrations[l].id
            /\ migrations'[l].status = IF l = k THEN st ELSE migrations[l].status
    BY <1>1, <1>3 DEF Migration
  <1>5. migrations' \in Seq(Migration) /\ Len(migrations') = Len(migrations)
    <2>1. migrations' = [l \in 1 .. Len(migrations) |-> migrations'[l]]
      BY <1>1
    <2> QED
      BY <1>1, <1>4, <2>1
  <1>6. \A l \in 1 .. Len(migrations) : Shared(l)' <=> Shared(l)
    BY <1>1, <1>2, <1>4 DEF Shared
  <1> QED
    BY <1>2, <1>4, <1>5, <1>6

LEMMA DrainHolds ==
    ASSUME MiInv, NEW c \in Migrator, Drain(c)
    PROVE  MiInv'
  <1> DEFINE k == Head(planned[c])
             L == Len(migrations)
             i == migrations[k].id
  <1>1. /\ MigrationsTypeOK /\ L \in Nat /\ DOMAIN migrations = 1 .. L
        /\ \A l \in 1 .. L : migrations[l] \in Migration
        /\ IsFiniteSet(Active) /\ Cardinality(Active) \in Nat
        /\ L <= MaxMigrations /\ MaxMigrations \in Nat
    BY ListOfMigrations DEF MiInv
  <1>2. /\ moving[c] = 0 /\ planned[c] # <<>> /\ migrated' = migrated
        /\ planned' = [planned EXCEPT ![c] = Tail(planned[c])]
    BY DEF Drain
  <1>3. planned[c] \in Seq(1 .. MaxMigrations)
    BY <1>1 DEF MigrationsTypeOK
  <1>4. /\ k = planned[c][1] /\ 1 \in 1 .. Len(planned[c]) /\ Tail(planned[c]) \in Seq(1 .. MaxMigrations)
        /\ \A n \in 1 .. Len(Tail(planned[c])) :
              n + 1 \in 1 .. Len(planned[c]) /\ Tail(planned[c])[n] = planned[c][n + 1]
    BY <1>2, <1>3, FirstAndRest
  <1>5. /\ planned' = [d \in Migrator |-> planned'[d]] /\ planned'[c] = Tail(planned[c])
        /\ \A d \in Migrator : d # c => planned'[d] = planned[d]
    BY <1>2 DEF MiInv, PlansAreApart
  <1> HIDE DEF k
  <1>6. k \in 1 .. L /\ Uncompleted(k) /\ \A d \in Migrator : k # moving[d]
    BY <1>4 DEF MiInv, PlansAreApart
  <1> DEFINE at(d, n) == IF d = c THEN n + 1 ELSE n
  <1>7. \A d \in Migrator : \A n \in 1 .. Len(planned'[d]) :
            /\ at(d, n) \in 1 .. Len(planned[d]) /\ planned'[d][n] = planned[d][at(d, n)]
            /\ planned'[d][n] # k
    <2> SUFFICES ASSUME NEW d \in Migrator, NEW n \in 1 .. Len(planned'[d])
                 PROVE  /\ at(d, n) \in 1 .. Len(planned[d]) /\ planned'[d][n] = planned[d][at(d, n)]
                        /\ planned'[d][n] # k
      OBVIOUS
    <2>1. CASE d = c
      <3>1. n + 1 \in 1 .. Len(planned[c]) /\ planned'[c][n] = planned[c][n + 1] /\ n + 1 # 1
        BY <1>4, <1>5, <2>1
      <3>2. planned[c][n + 1] # planned[c][1]
        BY <1>4, <3>1 DEF MiInv, PlansAreApart
      <3> QED
        BY <1>4, <2>1, <3>1, <3>2
    <2>2. CASE d # c
      <3>1. planned[d][n] # planned[c][1]
        BY <1>4, <1>5, <2>2 DEF MiInv, PlansAreApart
      <3> QED
        BY <1>4, <1>5, <2>2, <3>1
    <2> QED
      BY <2>1, <2>2
  <1>8. \A d, e \in Migrator : \A n \in 1 .. Len(planned'[d]), m \in 1 .. Len(planned'[e]) :
            planned'[d][n] = planned'[e][m] => d = e /\ n = m
    <2> SUFFICES ASSUME NEW d \in Migrator, NEW e \in Migrator, NEW n \in 1 .. Len(planned'[d]),
                        NEW m \in 1 .. Len(planned'[e]), planned'[d][n] = planned'[e][m]
                 PROVE  d = e /\ n = m
      OBVIOUS
    <2>1. d = e /\ at(d, n) = at(e, m)
      <3> DEFINE x == at(d, n)
                 y == at(e, m)
      <3>1. x \in 1 .. Len(planned[d]) /\ y \in 1 .. Len(planned[e]) /\ planned[d][x] = planned[e][y]
        BY <1>7
      <3> HIDE DEF x, y
      <3>2. d = e /\ x = y
        BY <3>1 DEF MiInv, PlansAreApart
      <3> QED
        BY <3>2 DEF x, y
    <2> QED
      BY <2>1
  <1>9. \A d \in Migrator : planned'[d] \in Seq(1 .. MaxMigrations)
    BY <1>1, <1>4, <1>5 DEF MigrationsTypeOK
  <1> HIDE DEF at
  <1>10. \A d \in Migrator : \A n \in 1 .. Len(planned'[d]) :
             /\ planned'[d][n] \in 1 .. L /\ Uncompleted(planned'[d][n])
             /\ \A e \in Migrator : planned'[d][n] # moving[e]
    <2> SUFFICES ASSUME NEW d \in Migrator, NEW n \in 1 .. Len(planned'[d]), NEW x, x = planned'[d][n]
                 PROVE  /\ x \in 1 .. L /\ Uncompleted(x)
                        /\ \A e \in Migrator : x # moving[e]
      OBVIOUS
    <2> QED
      BY <1>7 DEF MiInv, PlansAreApart
  <1>11. CASE Cardinality(Active) >= MigrationLimit
    <2>1. UNCHANGED <<migrations, migrating, moving>>
      BY <1>11 DEF Drain
    <2>2. MigrationsTypeOK'
      BY <1>1, <1>2, <1>9, <2>1 DEF MigrationsTypeOK
    <2>3. PlansAreApart'
      BY <1>5, <1>8, <1>10, <2>1 DEF MiInv, PlansAreApart, Uncompleted
    <2>4. TableIsRight'
      BY <2>1 DEF MiInv, TableIsRight, Active, Underway, Shared
    <2> QED
      BY <1>2, <2>1, <2>2, <2>3, <2>4 DEF MiInv, CountedDone, Uncompleted, Underway
  <1>12. CASE ~ (Cardinality(Active) >= MigrationLimit)
    <2>1. /\ migrations' = [migrations EXCEPT ![k].status = "draining"]
          /\ migrating' = [migrating EXCEPT ![i] = k]
          /\ moving' = [moving EXCEPT ![c] = k]
      BY <1>12 DEF Drain, k
    <2>2. /\ migrations' \in Seq(Migration) /\ Len(migrations') = L
          /\ DOMAIN migrations' = 1 .. L
          /\ \A l \in 1 .. L :
                /\ migrations'[l].id = migrations[l].id
                /\ migrations'[l].status = IF l = k THEN "draining" ELSE migrations[l].status
          /\ \A l \in 1 .. L : Shared(l)' <=> Shared(l)
      BY <1>1, <1>6, <2>1, StatusSet
    <2>3. k \in 0 .. MaxMigrations /\ i \in MigrationId /\ k # 0
      BY <1>1, <1>6 DEF Migration
    <2>4. /\ moving'[c] = k /\ \A d \in Migrator : d # c => moving'[d] = moving[d]
          /\ migrating'[i] = k /\ \A j \in MigrationId : j # i => migrating'[j] = migrating[j]
      BY <1>1, <2>1, <2>3 DEF MigrationsTypeOK
    <2>5. MigrationsTypeOK'
      BY <1>1, <1>2, <1>9, <2>1, <2>2, <2>3 DEF MigrationsTypeOK
    <2>6. \A l \in 1 .. L : Uncompleted(l) => migrations'[l].status # "completed"
      BY <2>2 DEF Uncompleted
    <2>7. PlansAreApart'
      <3>1. \A d \in Migrator : \A n \in 1 .. Len(planned'[d]) :
                planned'[d][n] \in 1 .. Len(migrations') /\ migrations'[planned'[d][n]].status # "completed"
        BY <1>10, <2>2, <2>6
      <3>2. \A d \in Migrator : moving'[d] # 0 => moving'[d] \in 1 .. Len(migrations')
        BY <1>6, <2>2, <2>4 DEF MiInv, PlansAreApart
      <3>3. \A d, e \in Migrator : moving'[d] # 0 /\ moving'[d] = moving'[e] => d = e
        BY <1>6, <2>4 DEF MiInv, PlansAreApart
      <3>4. \A d, e \in Migrator : \A n \in 1 .. Len(planned'[d]) : planned'[d][n] # moving'[e]
        BY <1>7, <1>10, <2>4
      <3> QED
        BY <1>5, <1>8, <3>1, <3>2, <3>3, <3>4 DEF PlansAreApart, Uncompleted
    <2>9. Underway' = Underway \cup {k} /\ \A l \in Underway : l \in 1 .. L
      <3>1. \A l \in Underway' : l \in Underway \cup {k}
        BY <2>4 DEF Underway
      <3>2. \A l \in Underway \cup {k} : l \in Underway'
        BY <1>2, <2>3, <2>4 DEF Underway
      <3>3. \A l \in Underway : l \in 1 .. L
        BY DEF Underway, MiInv, PlansAreApart
      <3> QED
        BY <3>1, <3>2, <3>3
    <2>8. CountedDone' = CountedDone
      BY <1>6, <2>2, <2>9 DEF CountedDone, Uncompleted
    <2>10. Active' = Active \cup {i}
      BY <2>3, <2>4 DEF Active
    <2>11. Cardinality(Active') <= MigrationLimit
      <3>1. Cardinality(Active \cup {i}) <= Cardinality(Active) + 1 /\ Cardinality(Active \cup {i}) \in Nat
        BY <1>1, OneMore
      <3> QED
        BY <1>1, <1>12, <2>10, <3>1, MigrationAssumption
    <2>12. \A j \in Active' : migrating'[j] \in Underway' /\ migrations'[migrating'[j]].id = j
      <3> SUFFICES ASSUME NEW j \in Active \cup {i}
                   PROVE  migrating'[j] \in Underway' /\ migrations'[migrating'[j]].id = j
        BY <2>10
      <3>1. CASE j = i
        BY <1>6, <2>2, <2>4, <2>9, <3>1
      <3>2. CASE j # i
        <4>1. migrating[j] \in Underway /\ migrations[migrating[j]].id = j /\ j \in MigrationId
          BY <3>2 DEF MiInv, TableIsRight, Active
        <4> QED
          BY <2>2, <2>4, <2>9, <3>2, <4>1
      <3> QED
        BY <3>1, <3>2
    <2>13. \A l \in Underway' : Shared(l)' \/ migrating'[migrations'[l].id] = l
      <3> SUFFICES ASSUME NEW l \in Underway \cup {k}, ~ Shared(l)
                   PROVE  migrating'[migrations'[l].id] = l
        BY <1>6, <2>2, <2>9
      <3>1. CASE l = k
        BY <1>6, <2>2, <2>4, <3>1
      <3>2. CASE l # k
        <4>1. l \in 1 .. L /\ migrating[migrations[l].id] = l /\ migrations[l].id \in MigrationId
          BY <1>1, <2>9, <3>2 DEF MiInv, TableIsRight, Migration
        <4>2. migrations[l].id # i
          BY <1>1, <1>6, <3>2, <4>1 DEF Shared
        <4> QED
          BY <2>2, <2>4, <4>1, <4>2
      <3> QED
        BY <3>1, <3>2
    <2> QED
      BY <1>2, <2>5, <2>7, <2>8, <2>11, <2>12, <2>13 DEF MiInv, TableIsRight
  <1> QED
    BY <1>11, <1>12

LEMMA WriteCompletedHolds ==
    ASSUME MiInv, NEW c \in Migrator, WriteCompleted(c)
    PROVE  MiInv'
  <1> DEFINE k == moving[c]
             L == Len(migrations)
  <1>1. MigrationsTypeOK /\ L \in Nat /\ DOMAIN migrations = 1 .. L
    BY ListOfMigrations DEF MiInv
  <1>2. /\ k # 0 /\ migrations' = [migrations EXCEPT ![k].status = "completed"]
        /\ UNCHANGED <<migrating, planned, moving, migrated>>
    BY DEF WriteCompleted
  <1>3. /\ k \in 1 .. L /\ k \in Underway
        /\ \A d \in Migrator : \A n \in 1 .. Len(planned[d]) : planned[d][n] # k
    BY <1>2 DEF MiInv, PlansAreApart, Underway
  <1> HIDE DEF k
  <1>4. /\ migrations' \in Seq(Migration) /\ Len(migrations') = L
        /\ DOMAIN migrations' = 1 .. L
        /\ \A l \in 1 .. L :
              /\ migrations'[l].id = migrations[l].id
              /\ migrations'[l].status = IF l = k THEN "completed" ELSE migrations[l].status
        /\ \A l \in 1 .. L : Shared(l)' <=> Shared(l)
    BY <1>1, <1>2, <1>3, StatusSet
  <1>5. MigrationsTypeOK'
    BY <1>1, <1>2, <1>4 DEF MigrationsTypeOK
  <1>6. \A l \in 1 .. L : Uncompleted(l) /\ l # k => migrations'[l].status # "completed"
    BY <1>4 DEF Uncompleted
  <1>7. PlansAreApart'
    BY <1>2, <1>3, <1>4, <1>6 DEF MiInv, PlansAreApart, Uncompleted
  <1>8. Active' = Active /\ Underway' = Underway /\ \A l \in Underway : l \in 1 .. L
    BY <1>2 DEF Active, Underway, MiInv, PlansAreApart
  <1>9. CountedDone' = CountedDone
    BY <1>3, <1>4, <1>8 DEF CountedDone, Uncompleted
  <1>10. TableIsRight'
    BY <1>2, <1>4, <1>8 DEF MiInv, TableIsRight
  <1> QED
    BY <1>2, <1>5, <1>7, <1>9, <1>10 DEF MiInv

LEMMA MigratedHolds ==
    ASSUME MiInv, NEW c \in Migrator, Migrated(c)
    PROVE  MiInv'
  <1> DEFINE k == moving[c]
             L == Len(migrations)
             i == migrations[k].id
  <1>1. /\ MigrationsTypeOK /\ L \in Nat /\ DOMAIN migrations = 1 .. L
        /\ \A l \in 1 .. L : migrations[l] \in Migration
        /\ IsFiniteSet(Active) /\ Cardinality(Active) \in Nat
        /\ migrations \in Seq(Migration) /\ IsFiniteSet(CountedDone) /\ Cardinality(CountedDone) \in Nat
        /\ L <= MaxMigrations /\ MaxMigrations \in Nat
    BY ListOfMigrations DEF MiInv, MigrationsTypeOK
  <1>2. /\ k # 0 /\ migrations[k].status = "completed" /\ migrations' = migrations
        /\ migrating' = [migrating EXCEPT ![i] = 0]
        /\ moving' = [moving EXCEPT ![c] = 0] /\ migrated' = migrated + 1
        /\ planned' = planned
    BY DEF Migrated
  <1>3. /\ k \in 1 .. L /\ ~ Uncompleted(k) /\ k \in Underway
        /\ \A d \in Migrator : moving[d] = k => d = c
        /\ \A d \in Migrator : \A n \in 1 .. Len(planned[d]) : planned[d][n] # k
        /\ \A d \in Migrator : moving[d] # 0 => moving[d] \in 1 .. L
    BY <1>2 DEF MiInv, PlansAreApart, Underway, Uncompleted
  <1>4. i \in MigrationId
    BY <1>1, <1>3 DEF Migration
  <1>5. /\ moving'[c] = 0 /\ \A d \in Migrator : d # c => moving'[d] = moving[d]
        /\ migrating'[i] = 0 /\ \A j \in MigrationId : j # i => migrating'[j] = migrating[j]
    BY <1>1, <1>2, <1>4 DEF MigrationsTypeOK
  <1> HIDE DEF k, L
  <1>12. Underway' = Underway \ {k} /\ \A l \in Underway : l \in 1 .. L
    <2>1. \A l \in Underway' : l \in Underway \ {k}
      BY <1>3, <1>5 DEF Underway
    <2>2. \A l \in Underway \ {k} : l \in Underway'
      BY <1>5 DEF Underway, k
    <2> QED
      BY <1>3, <2>1, <2>2 DEF Underway
  <1>7. CountedDone' = CountedDone \cup {k} /\ k \notin CountedDone
    BY <1>2, <1>3, <1>12 DEF CountedDone, Uncompleted, L
  <1>8. migrated' = Cardinality(CountedDone') /\ migrated' \in 0 .. MaxMigrations
    <2>1. Cardinality(CountedDone \cup {k}) = Cardinality(CountedDone) + 1
      BY <1>1, <1>7, OneMore
    <2>2. CountedDone \cup {k} \in SUBSET (1 .. L)
      BY <1>3 DEF CountedDone, L
    <2>3. IsFiniteSet(1 .. L) /\ Cardinality(1 .. L) = L
      <3>1. \A n \in Nat : IsFiniteSet(1 .. n) /\ Cardinality(1 .. n) = n
        BY FS_Interval
      <3> QED
        BY <1>1, <3>1
    <2>4. Cardinality(CountedDone \cup {k}) <= L /\ Cardinality(CountedDone \cup {k}) \in Nat
      BY <2>2, <2>3, Fewer
    <2>5. migrated' = Cardinality(CountedDone) + 1
      BY <1>2 DEF MiInv
    <2> QED
      BY <1>1, <1>7, <2>1, <2>4, <2>5
  <1>9. MigrationsTypeOK'
    <2>1. Len(migrations') <= MaxMigrations
      BY <1>1, <1>2 DEF L
    <2>2. migrating' \in [MigrationId -> 0 .. MaxMigrations] /\ moving' \in [Migrator -> 0 .. MaxMigrations]
      <3>1. 0 \in 0 .. MaxMigrations
        BY <1>1
      <3>2. migrating \in [MigrationId -> 0 .. MaxMigrations] /\ moving \in [Migrator -> 0 .. MaxMigrations]
        BY <1>1 DEF MigrationsTypeOK
      <3> HIDE DEF i
      <3> QED
        BY <1>2, <3>1, <3>2
    <2> QED
      BY <1>1, <1>2, <1>8, <2>1, <2>2 DEF MigrationsTypeOK
  <1>11. PlansAreApart'
    <2>1. \A d \in Migrator : \A n \in 1 .. Len(planned[d]) :
              planned[d][n] \in 1 .. Len(migrations) /\ Uncompleted(planned[d][n])
      BY DEF MiInv, PlansAreApart
    <2>2. \A d \in Migrator : moving'[d] # 0 => moving'[d] \in 1 .. Len(migrations)
      BY <1>3, <1>5 DEF MiInv, PlansAreApart, L
    <2>3. \A d, e \in Migrator : moving'[d] # 0 /\ moving'[d] = moving'[e] => d = e
      BY <1>5 DEF MiInv, PlansAreApart
    <2>4. \A d, e \in Migrator : \A n \in 1 .. Len(planned[d]) : planned[d][n] # moving'[e]
      <3>1. \A d \in Migrator : \A n \in 1 .. Len(planned[d]) : planned[d][n] # 0
        BY <1>1 DEF MiInv, PlansAreApart, L
      <3> QED
        BY <1>5, <3>1 DEF MiInv, PlansAreApart
    <2> QED
      BY <1>2, <2>1, <2>2, <2>3, <2>4 DEF MiInv, PlansAreApart, Uncompleted
  <1>13. Active' = Active \ {i}
    BY <1>4, <1>5 DEF Active
  <1>14. Cardinality(Active') <= MigrationLimit
    <2>1. Cardinality(Active \ {i}) <= Cardinality(Active) /\ Cardinality(Active \ {i}) \in Nat
      BY <1>1, OneLess
    <2>2. Cardinality(Active) <= MigrationLimit
      BY DEF MiInv, TableIsRight
    <2> QED
      BY <1>1, <1>13, <2>1, <2>2, MigrationAssumption
  <1>15. \A j \in Active' : migrating'[j] \in Underway' /\ migrations'[migrating'[j]].id = j
    <2> SUFFICES ASSUME NEW j \in Active \ {i}
                 PROVE  migrating'[j] \in Underway' /\ migrations'[migrating'[j]].id = j
      BY <1>13
    <2>1. migrating[j] \in Underway /\ migrations[migrating[j]].id = j /\ j \in MigrationId
      BY DEF MiInv, TableIsRight, Active
    <2>2. migrating[j] # k
      BY <2>1
    <2> QED
      BY <1>2, <1>5, <1>12, <2>1, <2>2
  <1>16. \A l \in Underway' : Shared(l)' \/ migrating'[migrations'[l].id] = l
    <2> SUFFICES ASSUME NEW l \in Underway \ {k}, ~ Shared(l)
                 PROVE  migrating'[migrations'[l].id] = l
      BY <1>2, <1>12 DEF Shared
    <2>1. l \in 1 .. L /\ migrating[migrations[l].id] = l /\ migrations[l].id \in MigrationId
      BY <1>1, <1>12 DEF MiInv, TableIsRight, Migration
    <2>2. migrations[l].id # i
      BY <1>1, <1>3, <2>1 DEF Shared
    <2> QED
      BY <1>2, <1>5, <2>1, <2>2
  <1> QED
    BY <1>8, <1>9, <1>11, <1>14, <1>15, <1>16 DEF MiInv, TableIsRight

LEMMA CancelHolds ==
    ASSUME MiInv, NEW i \in MigrationId, CancelMigration(i)
    PROVE  MiInv'
  <1> DEFINE L == Len(migrations)
             open == {k \in 1 .. L : migrations[k].id = i /\ migrations[k].status = "planned"}
             k == Min(open)
  <1>1. MigrationsTypeOK /\ L \in Nat /\ DOMAIN migrations = 1 .. L
    BY ListOfMigrations DEF MiInv
  <1>2. /\ open # {} /\ migrations' = [migrations EXCEPT ![k].status = "cancelled"]
        /\ UNCHANGED <<migrating, planned, moving, migrated>>
    BY <1>1 DEF CancelMigration
  <1>3. k \in open
    <2>1. open \in SUBSET Nat
      BY <1>1
    <2> HIDE DEF open
    <2>2. \E m \in open : \A n \in open : m <= n
      BY <1>2, <2>1, LeastElement
    <2> QED
      BY <2>2 DEF Min
  <1>4. k \in 1 .. L /\ migrations[k].status = "planned"
    BY <1>3
  <1> HIDE DEF k, open
  <1>5. /\ migrations' \in Seq(Migration) /\ Len(migrations') = L
        /\ DOMAIN migrations' = 1 .. L
        /\ \A l \in 1 .. L :
              /\ migrations'[l].id = migrations[l].id
              /\ migrations'[l].status = IF l = k THEN "cancelled" ELSE migrations[l].status
        /\ \A l \in 1 .. L : Shared(l)' <=> Shared(l)
    BY <1>1, <1>2, <1>4, StatusSet
  <1>6. \A l \in 1 .. L : Uncompleted(l) => migrations'[l].status # "completed"
    BY <1>5 DEF Uncompleted
  <1>7. MigrationsTypeOK'
    BY <1>1, <1>2, <1>5 DEF MigrationsTypeOK
  <1>8. PlansAreApart'
    BY <1>2, <1>5, <1>6 DEF MiInv, PlansAreApart, Uncompleted
  <1>11. Active' = Active /\ Underway' = Underway /\ \A l \in Underway : l \in 1 .. L
    BY <1>2 DEF Active, Underway, MiInv, PlansAreApart
  <1>9. CountedDone' = CountedDone
    BY <1>4, <1>5, <1>11 DEF CountedDone, Uncompleted
  <1>10. TableIsRight'
    BY <1>2, <1>5, <1>11 DEF MiInv, TableIsRight
  <1> QED
    BY <1>2, <1>7, <1>8, <1>9, <1>10 DEF MiInv

LEMMA MiInvNext ==
    ASSUME MiInv, [MiNext]_miVars
    PROVE  MiInv'
  <1>1. CASE UNCHANGED miVars
    BY <1>1 DEF miVars, MiInv, MigrationsTypeOK, PlansAreApart, TableIsRight, CountedDone, Uncompleted,
                Active, Underway, Shared
  <1> QED
    BY <1>1, PlanHolds, DrainHolds, WriteCompletedHolds, MigratedHolds, CancelHolds DEF MiNext

-----------------------------------------------------------------------------
(* The adaptive scaler *)

\* The actions there can be for the resource r, by their caller and entry.
Occasions(r) == Scaler \X {e \in Reading : KeyOf[e] = r}

\* The ones that a caller has in hand.
Ready(r) == {x \in Occasions(r) : \E a \in toScale[x[1]] : a.reading = x[2]}

\* What is ready was so when the cooldown began, and is not again before it is over.
AsInv ==
    /\ AdaptiveScalingTypeOK
    /\ \A r \in Resource : /\ scaled[r] + Cardinality(Ready(r)) <= Cardinality(Occasions(r))
                           /\ r \notin cooling => scaled[r] = 0
                           /\ scaled[r] <= scaleUps + scaleDowns
    /\ scaleUps + scaleDowns <= MaxScalings
    /\ \A c \in Scaler : /\ \A a, b \in toScale[c] : a.reading = b.reading => a = b
                         /\ \A a \in toScale[c] : a.reading \notin looking[c]

LEMMA ReadyIsFinite ==
    ASSUME NEW r
    PROVE  /\ IsFiniteSet(Ready(r)) /\ Cardinality(Ready(r)) \in Nat
           /\ IsFiniteSet(Occasions(r)) /\ Cardinality(Occasions(r)) \in Nat
           /\ Cardinality(Ready(r)) <= Cardinality(Occasions(r))
  <1> DEFINE R == {e \in Reading : KeyOf[e] = r}
  <1>1. Ready(r) \in SUBSET Occasions(r) /\ R \in SUBSET Reading
    BY DEF Ready
  <1> HIDE DEF R
  <1>2. IsFiniteSet(R)
    BY <1>1, Fewer, ScalingAssumption
  <1>3. IsFiniteSet(Occasions(r)) /\ Cardinality(Occasions(r)) \in Nat
    <2>1. IsFiniteSet(Scaler \X R)
      BY <1>2, ScalingAssumption, FS_Product
    <2> QED
      BY <2>1, FS_CardinalityType DEF Occasions, R
  <1> HIDE DEF Ready
  <1> QED
    BY <1>1, <1>3, Fewer

LEMMA AsInvImplies == AsInv => AdaptiveScalingTypeOK /\ FlappingIsBounded
  <1> SUFFICES ASSUME AsInv, NEW r \in Resource PROVE scaled[r] <= Cardinality(Occasions(r))
    BY DEF AsInv, FlappingIsBounded, Occasions
  <1> QED
    BY ReadyIsFinite DEF AsInv, AdaptiveScalingTypeOK

LEMMA AsInvInit == AsInit => AsInv
  <1> SUFFICES ASSUME AsInit PROVE AsInv
    OBVIOUS
  <1>1. \A r \in Resource : Cardinality(Ready(r)) = 0
    <2>1. \A r \in Resource : Ready(r) = {}
      BY DEF AsInit, Ready, Occasions
    <2> QED
      BY <2>1, FS_EmptySet
  <1>2. \A r \in Resource : Cardinality(Occasions(r)) \in Nat
    BY ReadyIsFinite
  <1> QED
    BY <1>1, <1>2, ScalingAssumption DEF AsInit, AsInv, AdaptiveScalingTypeOK

LEMMA AsEvaluates ==
    ASSUME AsInv, NEW c \in Scaler, Evaluate(c)
    PROVE  AsInv'
  <1>1. \A r \in Resource : Ready(r)' = Ready(r)
    BY DEF Evaluate, Ready, Occasions
  <1>2. AdaptiveScalingTypeOK'
    BY DEF AsInv, AdaptiveScalingTypeOK, Evaluate
  <1>3. \A d \in Scaler : \A a \in toScale'[d] : a.reading \notin looking'[d]
    BY DEF AsInv, AdaptiveScalingTypeOK, Evaluate
  <1> QED
    BY <1>1, <1>2, <1>3 DEF AsInv, Evaluate, Occasions

LEMMA AsLooks ==
    ASSUME AsInv, NEW c \in Scaler, NEW e \in Reading, Look(c, e)
    PROVE  AsInv'
  <1>1. /\ e \in looking[c] /\ looking' = [looking EXCEPT ![c] = @ \ {e}]
        /\ UNCHANGED <<cooling, scaled, scaleUps, scaleDowns>>
    BY DEF Look
  <1>2. CASE UNCHANGED toScale
    <2>1. \A s \in Resource : Ready(s)' = Ready(s)
      BY <1>2 DEF Ready, Occasions
    <2>2. AdaptiveScalingTypeOK'
      BY <1>1, <1>2 DEF AsInv, AdaptiveScalingTypeOK
    <2>3. \A d \in Scaler : \A a \in toScale'[d] : a.reading \notin looking'[d]
      BY <1>1, <1>2 DEF AsInv, AdaptiveScalingTypeOK
    <2> QED
      BY <1>1, <1>2, <2>1, <2>2, <2>3 DEF AsInv, Occasions
  <1>3. ASSUME KeyOf[e] \notin cooling, NEW up \in BOOLEAN,
               toScale' = [toScale EXCEPT ![c] = @ \cup {[reading |-> e, up |-> up]}]
        PROVE  AsInv'
    <2> DEFINE n == [reading |-> e, up |-> up]
               r == KeyOf[e]
    <2>1. n \in ScaleAction /\ n.reading = e /\ r \in Resource
      BY ScalingAssumption DEF ScaleAction
    <2>2. toScale' = [toScale EXCEPT ![c] = @ \cup {n}]
      BY <1>3
    <2> HIDE DEF n
    <2>3. AdaptiveScalingTypeOK'
      BY <1>1, <2>1, <2>2 DEF AsInv, AdaptiveScalingTypeOK
    <2>4. \A s \in Resource : s # r => Ready(s)' = Ready(s)
      <3> SUFFICES ASSUME NEW s \in Resource, s # r, NEW x \in Occasions(s)
                   PROVE  (\E a \in toScale'[x[1]] : a.reading = x[2])
                             <=> (\E a \in toScale[x[1]] : a.reading = x[2])
        BY DEF Ready, Occasions
      <3>1. x[1] \in Scaler /\ x[2] # e
        BY DEF Occasions
      <3> QED
        BY <2>1, <2>2, <3>1 DEF AsInv, AdaptiveScalingTypeOK
    <2>5. \A d \in Scaler : \A a \in toScale'[d] : a.reading \notin looking'[d]
      BY <1>1, <2>1, <2>2 DEF AsInv, AdaptiveScalingTypeOK
    <2>6. \A d \in Scaler : \A a, b \in toScale'[d] : a.reading = b.reading => a = b
      BY <1>1, <2>1, <2>2 DEF AsInv, AdaptiveScalingTypeOK
    <2>7. scaled[r] = 0
      BY <1>3, <2>1 DEF AsInv
    <2>8. scaled'[r] + Cardinality(Ready(r)') <= Cardinality(Occasions(r))
      <3>1. Ready(r)' \in SUBSET Occasions(r)
        BY DEF Ready, Occasions
      <3>2. IsFiniteSet(Occasions(r)) /\ Cardinality(Occasions(r)) \in Nat
        BY ReadyIsFinite
      <3> HIDE DEF r
      <3>3. Cardinality(Ready(r)') <= Cardinality(Occasions(r)) /\ Cardinality(Ready(r)') \in Nat
        BY <3>1, <3>2, Fewer
      <3> QED
        BY <1>1, <2>7, <3>2, <3>3
    <2> HIDE DEF r
    <2>9. \A s \in Resource : /\ scaled'[s] + Cardinality(Ready(s)') <= Cardinality(Occasions(s))
                              /\ s \notin cooling' => scaled'[s] = 0
                              /\ scaled'[s] <= scaleUps' + scaleDowns'
      BY <1>1, <2>4, <2>8 DEF AsInv
    <2> QED
      BY <1>1, <2>3, <2>5, <2>6, <2>9 DEF AsInv, Occasions
  <1> QED
    BY <1>2, <1>3 DEF Look

LEMMA AsExecutes ==
    ASSUME AsInv, NEW c \in Scaler, NEW a \in ScaleAction, ExecuteScaling(c, a)
    PROVE  AsInv'
  <1> DEFINE r == KeyOf[a.reading]
             x == <<c, a.reading>>
  <1>1. /\ a \in toScale[c] /\ scaleUps + scaleDowns < MaxScalings
        /\ toScale' = [toScale EXCEPT ![c] = @ \ {a}]
        /\ cooling' = cooling \cup {r}
        /\ scaled' = [scaled EXCEPT ![r] = @ + 1]
        /\ scaleUps' = scaleUps + (IF a.up THEN 1 ELSE 0)
        /\ scaleDowns' = scaleDowns + (IF a.up THEN 0 ELSE 1)
        /\ looking' = looking
    BY DEF ExecuteScaling
  <1>2. r \in Resource /\ x \in Ready(r) /\ MaxScalings \in Nat
    BY <1>1, ScalingAssumption DEF ScaleAction, Ready, Occasions
  <1>3. scaleUps \in Nat /\ scaleDowns \in Nat /\ scaled \in [Resource -> 0 .. MaxScalings]
    BY <1>2 DEF AsInv, AdaptiveScalingTypeOK
  <1>4. scaleUps' + scaleDowns' = scaleUps + scaleDowns + 1 /\ scaleUps' \in Nat /\ scaleDowns' \in Nat
    BY <1>1, <1>3
  <1>5. \A s \in Resource : scaled[s] <= scaleUps + scaleDowns
    BY DEF AsInv
  <1>6. \A s \in Resource : scaled'[s] <= scaleUps' + scaleDowns' /\ scaled'[s] \in 0 .. MaxScalings
    BY <1>1, <1>2, <1>3, <1>4, <1>5
  <1>7. scaleUps' \in 0 .. MaxScalings /\ scaleDowns' \in 0 .. MaxScalings
    BY <1>1, <1>2, <1>3, <1>4
  <1>8. AdaptiveScalingTypeOK'
    BY <1>1, <1>2, <1>3, <1>6, <1>7 DEF AsInv, AdaptiveScalingTypeOK
  <1>9. \A d \in Scaler : toScale'[d] \subseteq toScale[d]
    BY <1>1 DEF AsInv, AdaptiveScalingTypeOK
  <1>10. \A s \in Resource : Ready(s)' \in SUBSET Ready(s)
    BY <1>9 DEF Ready, Occasions
  <1>11. Ready(r)' = Ready(r) \ {x}
    <2>1. \A b \in toScale'[c] : b.reading # a.reading
      BY <1>1 DEF AsInv, AdaptiveScalingTypeOK
    <2>2. \A b : b \in toScale[c] /\ b # a => b \in toScale'[c]
      BY <1>1 DEF AsInv, AdaptiveScalingTypeOK
    <2>3. \A d \in Scaler : d # c => toScale'[d] = toScale[d]
      BY <1>1 DEF AsInv, AdaptiveScalingTypeOK
    <2>4. \A y \in Occasions(r) : y \in Ready(r)' <=> y \in Ready(r) /\ y # x
      <3> TAKE y \in Occasions(r)
      <3>1. y[1] \in Scaler /\ y = <<y[1], y[2]>>
        BY DEF Occasions
      <3>2. CASE y[1] = c
        BY <1>9, <2>1, <2>2, <3>1, <3>2 DEF Ready, Occasions
      <3>3. CASE y[1] # c
        BY <2>3, <3>1, <3>3 DEF Ready, Occasions
      <3> QED
        BY <3>2, <3>3
    <2> QED
      BY <2>4 DEF Ready, Occasions
  <1>12. \A s \in Resource : scaled'[s] + Cardinality(Ready(s)') <= Cardinality(Occasions(s))
    <2> SUFFICES ASSUME NEW s \in Resource
                 PROVE  scaled'[s] + Cardinality(Ready(s)') <= Cardinality(Occasions(s))
      OBVIOUS
    <2>1. /\ IsFiniteSet(Ready(s)) /\ Cardinality(Ready(s)) \in Nat
          /\ Cardinality(Occasions(s)) \in Nat
      BY ReadyIsFinite
    <2>2. scaled[s] + Cardinality(Ready(s)) <= Cardinality(Occasions(s)) /\ scaled[s] \in Nat
      BY <1>3 DEF AsInv
    <2> DEFINE n == Ready(s)'
    <2>5. n \in SUBSET Ready(s)
      BY <1>10
    <2> HIDE DEF n, Ready, r, x
    <2>6. Cardinality(n) \in Nat /\ Cardinality(n) <= Cardinality(Ready(s))
      BY <2>1, <2>5, Fewer
    <2>3. CASE s = r
      <3>1. n = Ready(s) \ {x} /\ x \in Ready(s)
        BY <1>2, <1>11, <2>3 DEF n
      <3>2. Cardinality(n) = Cardinality(Ready(s)) - 1
        BY <2>1, <3>1, OneLess
      <3>3. scaled'[s] = scaled[s] + 1
        BY <1>1, <1>2, <1>3, <2>3
      <3>4. scaled'[s] + Cardinality(n) <= Cardinality(Occasions(s))
        BY <2>1, <2>2, <3>2, <3>3
      <3> QED
        BY <3>4 DEF n
    <2>4. CASE s # r
      <3>1. scaled'[s] = scaled[s]
        BY <1>1, <1>3, <2>4
      <3>2. scaled'[s] + Cardinality(n) <= Cardinality(Occasions(s))
        BY <2>1, <2>2, <2>6, <3>1
      <3> QED
        BY <3>2 DEF n
    <2> QED
      BY <2>3, <2>4
  <1>13. \A s \in Resource : s \notin cooling' => scaled'[s] = 0
    BY <1>1, <1>3 DEF AsInv
  <1>14. scaleUps' + scaleDowns' <= MaxScalings
    BY <1>1, <1>2, <1>3, <1>4
  <1>15. \A d \in Scaler : /\ \A b, y \in toScale'[d] : b.reading = y.reading => b = y
                           /\ \A b \in toScale'[d] : b.reading \notin looking'[d]
    BY <1>1, <1>9 DEF AsInv
  <1> QED
    BY <1>6, <1>8, <1>12, <1>13, <1>14, <1>15 DEF AsInv, Occasions

LEMMA AsCools ==
    ASSUME AsInv, NEW r \in Resource, CooldownEnds(r)
    PROVE  AsInv'
  <1>1. \A s \in Resource : Ready(s)' = Ready(s)
    BY DEF CooldownEnds, Ready, Occasions
  <1>2. AdaptiveScalingTypeOK'
    BY ScalingAssumption DEF AsInv, AdaptiveScalingTypeOK, CooldownEnds
  <1>3. \A s \in Resource : Cardinality(Ready(s)) <= Cardinality(Occasions(s)) /\ Cardinality(Ready(s)) \in Nat
    BY ReadyIsFinite
  <1>4. \A s \in Resource : scaled'[s] = IF s = r THEN 0 ELSE scaled[s]
    BY DEF AsInv, AdaptiveScalingTypeOK, CooldownEnds
  <1>5. \A s \in Resource : scaled'[s] + Cardinality(Ready(s)') <= Cardinality(Occasions(s))
    BY <1>1, <1>3, <1>4 DEF AsInv
  <1>6. \A s \in Resource : s \notin cooling' => scaled'[s] = 0
    BY <1>4 DEF AsInv, CooldownEnds
  <1>7. \A s \in Resource : scaled'[s] <= scaleUps' + scaleDowns'
    BY <1>4 DEF AsInv, AdaptiveScalingTypeOK, CooldownEnds
  <1> QED
    BY <1>2, <1>5, <1>6, <1>7 DEF AsInv, CooldownEnds, Occasions

LEMMA AsInvNext ==
    ASSUME AsInv, [AsNext]_asVars
    PROVE  AsInv'
  <1>1. CASE UNCHANGED asVars
    BY <1>1 DEF asVars, AsInv, AdaptiveScalingTypeOK, Ready, Occasions
  <1> QED
    BY <1>1, AsEvaluates, AsLooks, AsExecutes, AsCools DEF AsNext

-----------------------------------------------------------------------------
(* The overlay's pool of connections *)

Distinct(s) == \A i, j \in 1 .. Len(s) : s[i] = s[j] => i = j
IdlestFirst(s, q) == \A j, k \in 1 .. Len(s) : j < k => q[s[j]] >= q[s[k]]
Holds(s, p) == \E i \in 1 .. Len(s) : s[i] = p

OvInv ==
    /\ pool \in Seq(Link) /\ Distinct(pool) /\ IdlestFirst(pool, quiet)
    /\ Len(pool) <= MaxConnections
    /\ \A p \in linkUp : Holds(pool, p)
    /\ quiet \in [Link -> 0 .. Silence + 1]
    /\ services \in [Service -> Link \cup {NotPooled}]

LEMMA PoolRange == pool \in Seq(Link) => DOMAIN pool = 1 .. Len(pool) /\ Pooled = {p \in Link : Holds(pool, p)}
  <1> SUFFICES ASSUME pool \in Seq(Link)
               PROVE  DOMAIN pool = 1 .. Len(pool) /\ Pooled = {p \in Link : Holds(pool, p)}
    OBVIOUS
  <1>1. DOMAIN pool = 1 .. Len(pool) /\ \A i \in 1 .. Len(pool) : pool[i] \in Link
    OBVIOUS
  <1> QED
    BY <1>1 DEF Pooled, Range, Holds

LEMMA OvInvImplies == OvInv => OverlayTypeOK /\ PoolEvictsIdlest
  <1> SUFFICES ASSUME OvInv PROVE OverlayTypeOK /\ PoolEvictsIdlest
    OBVIOUS
  <1>1. pool \in Seq(Link) /\ DOMAIN pool = 1 .. Len(pool)
    BY PoolRange DEF OvInv
  <1>2. IsInjective(pool)
    BY <1>1 DEF OvInv, Distinct, IsInjective
  <1>3. linkUp \subseteq Pooled
    BY <1>1 DEF OvInv, Holds, Pooled, Range
  <1> QED
    BY <1>1, <1>2, <1>3 DEF OvInv, OverlayTypeOK, PoolEvictsIdlest, IdlestFirst

LEMMA OvInvInit == OvInit => OvInv
  <1> SUFFICES ASSUME OvInit PROVE OvInv
    OBVIOUS
  <1>1. pool \in Seq(Link) /\ Len(pool) = 0
    BY DEF OvInit
  <1> QED
    BY <1>1, OverlayAssumption DEF OvInit, OvInv, Distinct, IdlestFirst

\* The pool without a peer.
LEMMA PoolParts ==
    ASSUME NEW s \in Seq(Link), Distinct(s), NEW p, NEW q
    PROVE  /\ PoolWithout(s, p) \in Seq(Link) /\ Distinct(PoolWithout(s, p))
           /\ Len(PoolWithout(s, p)) \in Nat /\ Len(PoolWithout(s, p)) <= Len(s)
           /\ Holds(s, p) => Len(PoolWithout(s, p)) < Len(s)
           /\ \A r : Holds(PoolWithout(s, p), r) <=> Holds(s, r) /\ r # p
           /\ IdlestFirst(s, q) => IdlestFirst(PoolWithout(s, p), q)
  <1> DEFINE T == Link \ {p}
             w == Selection(s, T)
  <1>1. w \in Seq(Link) /\ Len(w) <= Len(s)
    BY SelectionEmbeds
  <1>2. \E h \in [1 .. Len(w) -> 1 .. Len(s)] :
            /\ \A i \in 1 .. Len(w) : s[h[i]] \in T /\ w[i] = s[h[i]]
            /\ \A i, j \in 1 .. Len(w) : i < j => h[i] < h[j]
            /\ \A k \in 1 .. Len(s) : s[k] \in T => \E i \in 1 .. Len(w) : h[i] = k
    <2> HIDE DEF T
    <2> QED
      BY SelectionEmbeds
  <1>3. PoolWithout(s, p) = w
    BY DEF PoolWithout
  <1> HIDE DEF w
  <1>4. PICK h \in [1 .. Len(w) -> 1 .. Len(s)] :
            /\ \A i \in 1 .. Len(w) : s[h[i]] \in T /\ w[i] = s[h[i]]
            /\ \A i, j \in 1 .. Len(w) : i < j => h[i] < h[j]
            /\ \A k \in 1 .. Len(s) : s[k] \in T => \E i \in 1 .. Len(w) : h[i] = k
    BY <1>2
  <1>5. Len(w) \in Nat /\ Len(s) \in Nat /\ \A k \in 1 .. Len(s) : s[k] \in Link
    BY <1>1
  <1>6. \A i, j \in 1 .. Len(w) : h[i] = h[j] => i = j
    BY <1>4, <1>5
  <1>7. Distinct(w)
    BY <1>4, <1>6 DEF Distinct
  <1>8. ASSUME NEW r PROVE Holds(w, r) <=> Holds(s, r) /\ r # p
    <2>1. ASSUME NEW i \in 1 .. Len(w), w[i] = r PROVE Holds(s, r) /\ r # p
      BY <1>4, <2>1 DEF Holds
    <2>2. ASSUME NEW k \in 1 .. Len(s), s[k] = r, r # p PROVE Holds(w, r)
      <3>1. s[k] \in T
        BY <1>5, <2>2
      <3>2. PICK i \in 1 .. Len(w) : h[i] = k
        BY <1>4, <3>1
      <3> QED
        BY <1>4, <2>2, <3>2 DEF Holds
    <2> QED
      BY <2>1, <2>2 DEF Holds
  <1>9. ASSUME IdlestFirst(s, q) PROVE IdlestFirst(w, q)
    BY <1>4, <1>9 DEF IdlestFirst
  <1>10. ASSUME Holds(s, p) PROVE Len(w) < Len(s)
    <2>1. PICK k \in 1 .. Len(s) : s[k] = p
      BY <1>10 DEF Holds
    <2> DEFINE A == 1 .. Len(w)
               B == (1 .. Len(s)) \ {k}
    <2>2. \A n \in Nat : IsFiniteSet(1 .. n) /\ Cardinality(1 .. n) = n
      BY FS_Interval
    <2>3. IsFiniteSet(1 .. Len(s)) /\ Cardinality(1 .. Len(s)) = Len(s) /\ Cardinality(A) = Len(w)
      BY <1>5, <2>2
    <2>4. IsFiniteSet(B) /\ Cardinality(B) = Len(s) - 1
      BY <2>1, <2>3, OneLess
    <2>5. \A i \in A : h[i] \in B
      BY <1>4, <2>1
    <2> HIDE DEF B
    <2>6. Cardinality(A) <= Cardinality(B)
      BY <1>6, <2>4, <2>5, InjectionBounds
    <2> QED
      BY <1>5, <2>3, <2>4, <2>6
  <1> QED
    BY <1>1, <1>3, <1>5, <1>7, <1>8, <1>9, <1>10

\* A list of peers that a peer joins after the first k.
LEMMA Inserted ==
    ASSUME NEW s \in Seq(Link), NEW p \in Link, NEW k \in 0 .. Len(s)
    PROVE  LET t == InsertAt(s, k + 1, p) IN
           /\ t \in Seq(Link) /\ Len(t) = Len(s) + 1 /\ Len(s) \in Nat /\ t[k + 1] = p
           /\ \A i \in 1 .. Len(t) : i <= k => i \in 1 .. Len(s) /\ t[i] = s[i]
           /\ \A i \in 1 .. Len(t) : i > k + 1 => i - 1 \in 1 .. Len(s) /\ t[i] = s[i - 1]
  <1> DEFINE a == SubSeq(s, 1, k)
             b == SubSeq(s, k + 1, Len(s))
             c == a \o <<p>>
             t == c \o b
  <1>1. Len(s) \in Nat /\ k \in Nat /\ k <= Len(s) /\ (k + 1) - 1 = k
    OBVIOUS
  <1>2. InsertAt(s, k + 1, p) = t
    BY <1>1 DEF InsertAt
  <1>3. a \in Seq(Link) /\ Len(a) = k /\ \A i \in 1 .. k : a[i] = s[i]
    BY <1>1
  <1>4. b \in Seq(Link) /\ Len(b) = Len(s) - k /\ \A i \in 1 .. Len(s) - k : b[i] = s[k + i]
    BY <1>1
  <1> HIDE DEF a, b
  <1>5. c \in Seq(Link) /\ Len(c) = k + 1 /\ c[k + 1] = p /\ \A i \in 1 .. k : c[i] = s[i]
    BY <1>1, <1>3
  <1> HIDE DEF c
  <1>6. /\ t \in Seq(Link) /\ Len(t) = Len(s) + 1
        /\ \A i \in 1 .. k + 1 : t[i] = c[i]
        /\ \A i \in 1 .. Len(s) - k : t[(k + 1) + i] = b[i]
    <2>1. c \in Seq(Link) /\ b \in Seq(Link)
      BY <1>4, <1>5
    <2>2. c \o b \in Seq(Link) /\ Len(c \o b) = Len(c) + Len(b)
      BY <2>1
    <2>3. \A i \in 1 .. Len(c) : (c \o b)[i] = c[i]
      BY <2>1, ConcatProperties
    <2>4. \A i \in 1 .. Len(b) : (c \o b)[Len(c) + i] = b[i]
      <3> TAKE i \in 1 .. Len(b)
      <3>1. Len(c) \in Nat /\ Len(b) \in Nat
        BY <2>1
      <3>2. Len(c) + i \in 1 .. Len(c) + Len(b) /\ ~ (Len(c) + i <= Len(c)) /\ (Len(c) + i) - Len(c) = i
        BY <3>1
      <3>3. (c \o b)[Len(c) + i] = b[(Len(c) + i) - Len(c)]
        BY <2>1, <3>2, ConcatProperties
      <3> QED
        BY <3>2, <3>3
    <2> QED
      BY <1>1, <1>4, <1>5, <2>2, <2>3, <2>4
  <1> HIDE DEF t
  <1>7. ASSUME NEW i \in 1 .. Len(t), i > k + 1 PROVE i - 1 \in 1 .. Len(s) /\ t[i] = s[i - 1]
    <2>1. i - (k + 1) \in 1 .. Len(s) - k /\ (k + 1) + (i - (k + 1)) = i /\ k + (i - (k + 1)) = i - 1
      BY <1>1, <1>6, <1>7
    <2>2. t[i] = b[i - (k + 1)] /\ b[i - (k + 1)] = s[i - 1]
      BY <1>4, <1>6, <2>1
    <2> QED
      BY <1>1, <1>6, <1>7, <2>2
  <1>8. ASSUME NEW i \in 1 .. Len(t), i <= k PROVE i \in 1 .. Len(s) /\ t[i] = s[i]
    BY <1>1, <1>5, <1>6, <1>8
  <1> QED
    BY <1>1, <1>2, <1>5, <1>6, <1>7, <1>8

\* What a list of peers is that a peer joins behind the k that were idle for longer.
LEMMA PoolInserted ==
    ASSUME NEW w \in Seq(Link), Distinct(w), IdlestFirst(w, quiet), NEW p \in Link, ~ Holds(w, p),
           NEW k \in 0 .. Len(w), NEW idle \in 0 .. Silence + 1,
           \A j \in 1 .. Len(w) : IF j <= k THEN quiet[w[j]] >= idle ELSE quiet[w[j]] <= idle,
           quiet \in [Link -> 0 .. Silence + 1], quiet' = [quiet EXCEPT ![p] = idle]
    PROVE  LET t == InsertAt(w, k + 1, p) IN
           /\ t \in Seq(Link) /\ Distinct(t) /\ IdlestFirst(t, quiet') /\ Len(t) = Len(w) + 1
           /\ \A r : Holds(t, r) <=> r = p \/ Holds(w, r)
  <1> DEFINE t == InsertAt(w, k + 1, p)
  <1>1. /\ t \in Seq(Link) /\ Len(t) = Len(w) + 1 /\ Len(w) \in Nat /\ t[k + 1] = p
        /\ \A i \in 1 .. Len(t) : i <= k => i \in 1 .. Len(w) /\ t[i] = w[i]
        /\ \A i \in 1 .. Len(t) : i > k + 1 => i - 1 \in 1 .. Len(w) /\ t[i] = w[i - 1]
    <2>1. w \in Seq(Link) /\ p \in Link /\ k \in 0 .. Len(w)
      OBVIOUS
    <2> HIDE DEF t
    <2> QED
      BY <2>1, Inserted DEF t
  <1> HIDE DEF t
  <1> DEFINE from(i) == IF i <= k THEN i ELSE i - 1
  <1>2. k \in Nat /\ k <= Len(w) /\ k + 1 \in 1 .. Len(t)
    BY <1>1
  <1>3. ASSUME NEW i \in 1 .. Len(t), i # k + 1
        PROVE  from(i) \in 1 .. Len(w) /\ t[i] = w[from(i)] /\ t[i] # p /\ t[i] \in Link
    <2>1. from(i) \in 1 .. Len(w) /\ t[i] = w[from(i)]
      <3>1. CASE i <= k
        BY <1>1, <3>1
      <3>2. CASE ~ (i <= k)
        <4>1. i > k + 1
          BY <1>1, <1>2, <1>3, <3>2
        <4> QED
          BY <1>1, <3>2, <4>1
      <3> QED
        BY <3>1, <3>2
    <2> HIDE DEF from
    <2> QED
      BY <2>1 DEF Holds
  <1>4. Distinct(t)
    <2> SUFFICES ASSUME NEW i \in 1 .. Len(t), NEW j \in 1 .. Len(t), t[i] = t[j] PROVE i = j
      BY DEF Distinct
    <2>1. CASE i = k + 1 \/ j = k + 1
      BY <1>1, <1>3, <2>1
    <2>2. CASE i # k + 1 /\ j # k + 1
      <3> DEFINE x == from(i)
                 y == from(j)
      <3>1. x \in 1 .. Len(w) /\ y \in 1 .. Len(w) /\ w[x] = w[y]
        BY <1>3, <2>2
      <3> HIDE DEF x, y
      <3>2. x = y
        BY <3>1 DEF Distinct
      <3> QED
        BY <1>2, <2>2, <3>2 DEF x, y
    <2> QED
      BY <2>1, <2>2
  <1>5. quiet'[p] = idle /\ \A q \in Link \ {p} : quiet'[q] = quiet[q]
    OBVIOUS
  <1>6. IdlestFirst(t, quiet')
    <2> SUFFICES ASSUME NEW i \in 1 .. Len(t), NEW j \in 1 .. Len(t), i < j
                 PROVE  quiet'[t[i]] >= quiet'[t[j]]
      BY DEF IdlestFirst
    <2>1. CASE i = k + 1
      <3> DEFINE y == from(j)
      <3>1. y \in 1 .. Len(w) /\ t[j] = w[y] /\ t[j] \in Link \ {p} /\ ~ (y <= k)
        BY <1>2, <1>3, <2>1
      <3> HIDE DEF y
      <3>2. quiet[w[y]] <= idle
        BY <3>1
      <3> QED
        BY <1>1, <1>5, <2>1, <3>1, <3>2
    <2>2. CASE j = k + 1
      <3> DEFINE x == from(i)
      <3>1. x \in 1 .. Len(w) /\ t[i] = w[x] /\ t[i] \in Link \ {p} /\ x <= k
        BY <1>2, <1>3, <2>2
      <3> HIDE DEF x
      <3>2. quiet[w[x]] >= idle
        BY <3>1
      <3> QED
        BY <1>1, <1>5, <2>2, <3>1, <3>2
    <2>3. CASE i # k + 1 /\ j # k + 1
      <3> DEFINE x == from(i)
                 y == from(j)
      <3>1. /\ x \in 1 .. Len(w) /\ t[i] = w[x] /\ t[i] \in Link \ {p}
            /\ y \in 1 .. Len(w) /\ t[j] = w[y] /\ t[j] \in Link \ {p}
        BY <1>3, <2>3
      <3>2. x < y
        BY <1>2, <2>3
      <3> HIDE DEF x, y
      <3> QED
        BY <1>5, <3>1, <3>2 DEF IdlestFirst
    <2> QED
      BY <2>1, <2>2, <2>3
  <1>7. ASSUME NEW r PROVE Holds(t, r) <=> r = p \/ Holds(w, r)
    <2>1. ASSUME Holds(t, r), r # p PROVE Holds(w, r)
      BY <1>1, <1>3, <2>1 DEF Holds
    <2>2. ASSUME NEW i \in 1 .. Len(w), w[i] = r PROVE Holds(t, r)
      <3>1. CASE i <= k
        <4>1. i \in 1 .. Len(t)
          BY <1>1
        <4> QED
          BY <1>1, <2>2, <3>1, <4>1 DEF Holds
      <3>2. CASE i > k
        <4>1. i + 1 \in 1 .. Len(t) /\ i + 1 > k + 1 /\ (i + 1) - 1 = i
          BY <1>1, <1>2, <3>2
        <4> QED
          BY <1>1, <2>2, <4>1 DEF Holds
      <3> QED
        BY <1>2, <3>1, <3>2
    <2> QED
      BY <1>1, <1>2, <2>1, <2>2 DEF Holds
  <1> QED
    BY <1>1, <1>4, <1>6, <1>7 DEF t

\* What a pool is that a peer joins as the one active last.
LEMMA PoolJoined ==
    ASSUME NEW s \in Seq(Link), Distinct(s), IdlestFirst(s, quiet), NEW p \in Link,
           quiet \in [Link -> 0 .. Silence + 1], quiet' = [quiet EXCEPT ![p] = 0]
    PROVE  LET t == Append(PoolWithout(s, p), p) IN
           /\ t \in Seq(Link) /\ Distinct(t) /\ IdlestFirst(t, quiet')
           /\ Len(t) = Len(PoolWithout(s, p)) + 1
           /\ \A r : Holds(t, r) <=> r = p \/ Holds(s, r)
  <1> DEFINE w == PoolWithout(s, p)
             t == Append(w, p)
  <1>1. /\ w \in Seq(Link) /\ Distinct(w) /\ Len(w) \in Nat /\ IdlestFirst(w, quiet)
        /\ \A r : Holds(w, r) <=> Holds(s, r) /\ r # p
    BY PoolParts
  <1> HIDE DEF w
  <1>2. /\ t \in Seq(Link) /\ Len(t) = Len(w) + 1 /\ t[Len(w) + 1] = p
        /\ \A i \in 1 .. Len(w) : t[i] = w[i] /\ w[i] \in Link
        /\ \A i \in 1 .. Len(t) : i \in 1 .. Len(w) \/ i = Len(w) + 1
        /\ \A i \in 1 .. Len(w) : i \in 1 .. Len(t)
        /\ Len(w) + 1 \in 1 .. Len(t)
    BY <1>1
  <1> HIDE DEF t
  <1>3. \A i \in 1 .. Len(w) : w[i] # p
    BY <1>1 DEF Holds
  <1>4. Distinct(t)
    BY <1>1, <1>2, <1>3 DEF Distinct
  <1>5. \A i \in 1 .. Len(w) : quiet'[w[i]] = quiet[w[i]] /\ quiet[w[i]] \in 0 .. Silence + 1
    BY <1>2, <1>3
  <1>6. quiet'[p] = 0
    OBVIOUS
  <1>7. IdlestFirst(t, quiet')
    <2> SUFFICES ASSUME NEW j \in 1 .. Len(t), NEW k \in 1 .. Len(t), j < k
                 PROVE  quiet'[t[j]] >= quiet'[t[k]]
      BY DEF IdlestFirst
    <2>1. j \in 1 .. Len(w)
      BY <1>1, <1>2
    <2>2. CASE k \in 1 .. Len(w)
      BY <1>1, <1>2, <1>5, <2>1, <2>2 DEF IdlestFirst
    <2>3. CASE k = Len(w) + 1
      BY <1>2, <1>5, <1>6, <2>1, <2>3
    <2> QED
      BY <1>2, <2>2, <2>3
  <1>8. ASSUME NEW r PROVE Holds(t, r) <=> r = p \/ Holds(s, r)
    <2>1. Holds(t, r) <=> r = p \/ Holds(w, r)
      BY <1>2 DEF Holds
    <2> QED
      BY <1>1, <2>1
  <1> QED
    BY <1>2, <1>4, <1>7, <1>8 DEF t, w

\* What the pool is without the idlest peer.
LEMMA PoolEvicts ==
    ASSUME NEW s \in Seq(Link), s # <<>>, Distinct(s), IdlestFirst(s, quiet)
    PROVE  /\ Tail(s) \in Seq(Link) /\ Distinct(Tail(s)) /\ IdlestFirst(Tail(s), quiet)
           /\ Len(Tail(s)) \in Nat /\ Len(s) = Len(Tail(s)) + 1
  <1> DEFINE t == Tail(s)
  <1>1. /\ t \in Seq(Link) /\ Len(t) \in Nat /\ Len(s) = Len(t) + 1
        /\ \A n \in 1 .. Len(t) : n + 1 \in 1 .. Len(s) /\ t[n] = s[n + 1]
    BY FirstAndRest
  <1> HIDE DEF t
  <1>2. Distinct(t)
    <2> SUFFICES ASSUME NEW i \in 1 .. Len(t), NEW j \in 1 .. Len(t), t[i] = t[j] PROVE i = j
      BY DEF Distinct
    <2>1. i + 1 = j + 1
      BY <1>1 DEF Distinct
    <2> QED
      BY <2>1
  <1>3. IdlestFirst(t, quiet)
    <2> SUFFICES ASSUME NEW j \in 1 .. Len(t), NEW k \in 1 .. Len(t), j < k
                 PROVE  quiet[t[j]] >= quiet[t[k]]
      BY DEF IdlestFirst
    <2>1. j + 1 < k + 1
      OBVIOUS
    <2> QED
      BY <1>1, <2>1 DEF IdlestFirst
  <1> QED
    BY <1>1, <1>2, <1>3 DEF t

LEMMA AddPeerHolds ==
    ASSUME OvInv, NEW p \in Link, NEW k \in 0 .. Len(pool), NEW idle \in 0 .. Silence + 1,
           AddOverlayPeer(p, k, idle)
    PROVE  OvInv'
  <1> DEFINE s == IF Len(pool) >= MaxConnections THEN Tail(pool) ELSE pool
             w == PoolWithout(s, p)
  <1>1. s \in Seq(Link) /\ Distinct(s) /\ IdlestFirst(s, quiet) /\ Len(s) \in Nat /\ Len(s) < MaxConnections
    <2>1. Len(pool) \in Nat /\ MaxConnections \in Nat /\ MaxConnections > 0 /\ Len(pool) <= MaxConnections
      BY OverlayAssumption DEF OvInv
    <2>2. CASE Len(pool) >= MaxConnections
      <3>1. pool # <<>>
        BY <2>1, <2>2
      <3>2. /\ Tail(pool) \in Seq(Link) /\ Distinct(Tail(pool)) /\ IdlestFirst(Tail(pool), quiet)
            /\ Len(Tail(pool)) \in Nat /\ Len(pool) = Len(Tail(pool)) + 1
        BY <3>1, PoolEvicts DEF OvInv
      <3>3. Len(Tail(pool)) < MaxConnections
        BY <2>1, <3>2
      <3> QED
        BY <2>2, <3>2, <3>3
    <2>3. CASE ~ (Len(pool) >= MaxConnections)
      <3>1. Len(pool) < MaxConnections
        BY <2>1, <2>3
      <3> QED
        BY <2>1, <2>3, <3>1 DEF OvInv
    <2> QED
      BY <2>2, <2>3
  <1>2. /\ k <= Len(w)
        /\ \A j \in DOMAIN w : IF j <= k THEN quiet[w[j]] >= idle ELSE quiet[w[j]] <= idle
        /\ pool' = InsertAt(w, k + 1, p) /\ linkUp' = (linkUp \cap Range(w)) \cup {p}
        /\ quiet' = [quiet EXCEPT ![p] = idle] /\ services' = services
    BY DEF AddOverlayPeer
  <1> HIDE DEF s
  <1>3. /\ w \in Seq(Link) /\ Distinct(w) /\ IdlestFirst(w, quiet) /\ ~ Holds(w, p)
        /\ Len(w) \in Nat /\ Len(w) <= Len(s)
    BY <1>1, PoolParts
  <1> HIDE DEF w
  <1>4. k \in 0 .. Len(w) /\ DOMAIN w = 1 .. Len(w) /\ quiet \in [Link -> 0 .. Silence + 1]
    BY <1>2, <1>3 DEF OvInv
  <1>5. /\ pool' \in Seq(Link) /\ Distinct(pool') /\ IdlestFirst(pool', quiet')
        /\ Len(pool') = Len(w) + 1
        /\ \A r : Holds(pool', r) <=> r = p \/ Holds(w, r)
    BY <1>2, <1>3, <1>4, PoolInserted
  <1>6. Len(pool') <= MaxConnections
    BY <1>1, <1>3, <1>5, OverlayAssumption
  <1>7. \A r \in linkUp' : Holds(pool', r)
    BY <1>2, <1>4, <1>5 DEF Range, Holds
  <1>8. quiet' \in [Link -> 0 .. Silence + 1]
    BY <1>2, <1>4
  <1>9. services \in [Service -> Link \cup {NotPooled}]
    BY DEF OvInv
  <1> QED
    BY <1>2, <1>5, <1>6, <1>7, <1>8, <1>9 DEF OvInv

LEMMA RemovePeerHolds ==
    ASSUME OvInv, NEW p \in Link, RemoveOverlayPeer(p)
    PROVE  OvInv'
  <1>1. /\ pool \in Seq(Link) /\ Distinct(pool) /\ IdlestFirst(pool, quiet)
        /\ pool' = PoolWithout(pool, p) /\ linkUp' = linkUp \ {p}
        /\ UNCHANGED <<quiet, services>>
    BY DEF OvInv, RemoveOverlayPeer
  <1>2. /\ pool' \in Seq(Link) /\ Distinct(pool') /\ Len(pool') \in Nat /\ Len(pool') <= Len(pool)
        /\ \A r : Holds(pool', r) <=> Holds(pool, r) /\ r # p
        /\ IdlestFirst(pool', quiet)
    BY <1>1, PoolParts
  <1>3. Len(pool') <= MaxConnections
    BY <1>1, <1>2, OverlayAssumption DEF OvInv
  <1> QED
    BY <1>1, <1>2, <1>3 DEF OvInv

LEMMA TrafficHolds ==
    ASSUME OvInv, NEW p \in Link, RecordTraffic(p)
    PROVE  OvInv'
  <1>1. /\ pool \in Seq(Link) /\ Distinct(pool) /\ IdlestFirst(pool, quiet)
        /\ quiet \in [Link -> 0 .. Silence + 1] /\ quiet' = [quiet EXCEPT ![p] = 0]
        /\ pool' = Append(PoolWithout(pool, p), p) /\ UNCHANGED <<linkUp, services>>
        /\ Holds(pool, p)
    BY PoolRange DEF OvInv, RecordTraffic, Touched
  <1>2. /\ pool' \in Seq(Link) /\ Distinct(pool') /\ IdlestFirst(pool', quiet')
        /\ Len(pool') = Len(PoolWithout(pool, p)) + 1
        /\ \A r : Holds(pool', r) <=> r = p \/ Holds(pool, r)
    BY <1>1, PoolJoined
  <1>3. Len(PoolWithout(pool, p)) \in Nat /\ Len(PoolWithout(pool, p)) < Len(pool)
    BY <1>1, PoolParts
  <1>4. Len(pool') <= MaxConnections
    <2>1. Len(pool) \in Nat /\ MaxConnections \in Nat /\ Len(pool) <= MaxConnections
      BY <1>1, OverlayAssumption DEF OvInv
    <2> QED
      BY <1>2, <1>3, <2>1
  <1>5. quiet' \in [Link -> 0 .. Silence + 1]
    BY <1>1, OverlayAssumption
  <1> QED
    BY <1>1, <1>2, <1>4, <1>5 DEF OvInv

LEMMA QuietTickHolds ==
    ASSUME OvInv, QuietTick
    PROVE  OvInv'
  <1>1. /\ pool \in Seq(Link) /\ quiet \in [Link -> 0 .. Silence + 1] /\ Silence \in Nat
        /\ UNCHANGED <<pool, linkUp, services>>
    BY OverlayAssumption DEF OvInv, QuietTick
  <1>2. \A p \in Link : quiet'[p] = IF p \in Pooled /\ quiet[p] <= Silence THEN quiet[p] + 1 ELSE quiet[p]
    BY DEF QuietTick
  <1>3. quiet' \in [Link -> 0 .. Silence + 1]
    BY <1>1 DEF QuietTick
  <1>4. \A i \in 1 .. Len(pool) : pool[i] \in Pooled /\ pool[i] \in Link
    BY <1>1, PoolRange DEF Holds
  <1>5. IdlestFirst(pool, quiet')
    <2> SUFFICES ASSUME NEW j \in 1 .. Len(pool), NEW k \in 1 .. Len(pool), j < k
                 PROVE  quiet'[pool[j]] >= quiet'[pool[k]]
      BY DEF IdlestFirst
    <2>1. quiet[pool[j]] >= quiet[pool[k]]
      BY DEF OvInv, IdlestFirst
    <2>2. quiet[pool[j]] \in 0 .. Silence + 1 /\ quiet[pool[k]] \in 0 .. Silence + 1
      BY <1>1, <1>4
    <2>3. /\ quiet'[pool[j]] = IF quiet[pool[j]] <= Silence THEN quiet[pool[j]] + 1 ELSE quiet[pool[j]]
          /\ quiet'[pool[k]] = IF quiet[pool[k]] <= Silence THEN quiet[pool[k]] + 1 ELSE quiet[pool[k]]
      BY <1>2, <1>4
    <2> QED
      BY <1>1, <2>1, <2>2, <2>3
  <1> QED
    BY <1>1, <1>3, <1>5 DEF OvInv

LEMMA OvInvNext ==
    ASSUME OvInv, [OvNext]_ovVars
    PROVE  OvInv'
  <1>1. ASSUME NEW s \in Service, NEW p \in Link, RegisterService(s, p) PROVE OvInv'
    BY <1>1 DEF RegisterService, OvInv
  <1>2. CASE CheckPeers
    BY <1>2 DEF CheckPeers, OvInv
  <1>3. CASE StopOverlay
    BY <1>3 DEF StopOverlay, OvInv
  <1>4. CASE UNCHANGED ovVars
    BY <1>4 DEF ovVars, OvInv
  <1> QED
    BY <1>1, <1>2, <1>3, <1>4, AddPeerHolds, RemovePeerHolds, TrafficHolds, QuietTickHolds DEF OvNext

-----------------------------------------------------------------------------
(* Recovery of failures *)

Tolerated == IF RetryLimit = 0 THEN 1 ELSE RetryLimit

\* The callers that go on to escalate the failure f.
Escalating(f) == {c \in Rescuer : retrying[c] = [id |-> f, act |-> "escalate"]}

Alike(k) == \E l \in 1 .. Len(records) : l # k /\ records[l].id = records[k].id
Minded(k) == Settled(k) \/ current[records[k].id] = k \/ (\E c \in Rescuer : rescue[c] = k) \/ Alike(k)

\* A caller that sees the limit reached goes on to escalate, and as long as it has not, the
\* entry that it counted for may be counted on by the others.
RetriesAreBounded ==
    \A k \in 1 .. Len(records) :
        /\ records[k].retries < Tolerated + Cardinality(Rescuer)
        /\ current[records[k].id] = k =>
              records[k].retries < Tolerated + Cardinality(Escalating(records[k].id))

RcTables ==
    /\ RecoveryTypeOK /\ Len(records) <= MaxFailures
    /\ \A f \in Failure : current[f] # 0 =>
          current[f] \in 1 .. Len(records) /\ records[current[f]].id = f
    /\ \A c \in Rescuer : rescue[c] # 0 => rescue[c] \in 1 .. Len(records)

RcInv == RcTables /\ RetriesAreBounded /\ \A k \in 1 .. Len(records) : Minded(k)

LEMMA RecordList ==
    ASSUME RcTables
    PROVE  /\ Len(records) \in Nat /\ DOMAIN records = 1 .. Len(records) /\ records \in Seq(FailureRecord)
           /\ \A k \in 1 .. Len(records) : /\ records[k] \in FailureRecord /\ records[k].id \in Failure
                                           /\ records[k].retries \in Nat /\ k \in 0 .. MaxFailures /\ k # 0
           /\ Len(records) <= MaxFailures /\ MaxFailures \in Nat
  <1>1. Len(records) \in Nat /\ DOMAIN records = 1 .. Len(records) /\ records \in Seq(FailureRecord)
        /\ \A k \in 1 .. Len(records) : records[k] \in FailureRecord
    BY DEF RcTables, RecoveryTypeOK
  <1>2. \A r \in FailureRecord : r.id \in Failure /\ r.retries \in Nat
    BY DEF FailureRecord
  <1> QED
    BY <1>1, <1>2, RecoveryAssumption DEF RcTables

LEMMA CallersAreFinite ==
    ASSUME NEW f
    PROVE  /\ IsFiniteSet(Escalating(f)) /\ Cardinality(Escalating(f)) \in Nat
           /\ Cardinality(Rescuer) \in Nat /\ Cardinality(Escalating(f)) <= Cardinality(Rescuer)
           /\ Tolerated \in Nat \ {0} /\ Tolerated + Cardinality(Rescuer) <= RetryLimit + Cardinality(Rescuer) + 1
  <1>1. Escalating(f) \in SUBSET Rescuer
    BY DEF Escalating
  <1> HIDE DEF Escalating
  <1>2. /\ IsFiniteSet(Escalating(f)) /\ Cardinality(Escalating(f)) \in Nat
        /\ Cardinality(Rescuer) \in Nat /\ Cardinality(Escalating(f)) <= Cardinality(Rescuer)
    BY <1>1, Fewer, RecoveryAssumption
  <1> QED
    BY <1>2, RecoveryAssumption DEF Tolerated

LEMMA NoRetryIsNoAct == \A f, a : NoRetry # [id |-> f, act |-> a]
  <1>1. DOMAIN NoRetry = {}
    BY DEF NoRetry
  <1>2. \A f, a : "id" \in DOMAIN [id |-> f, act |-> a]
    OBVIOUS
  <1> QED
    BY <1>1, <1>2

LEMMA RcInvImplies == RcInv => RecoveryTypeOK /\ NoFailureForgotten
  <1> SUFFICES ASSUME RcInv PROVE NoFailureForgotten
    BY DEF RcInv, RcTables
  <1>1. DOMAIN records = 1 .. Len(records)
    BY RecordList DEF RcInv
  <1> QED
    BY <1>1 DEF RcInv, NoFailureForgotten, Minded, Alike, RetriesAreBounded, Tolerated

LEMMA RcInvInit == RcInit => RcInv
  <1> SUFFICES ASSUME RcInit PROVE RcInv
    OBVIOUS
  <1>1. Len(records) = 0 /\ records \in Seq(FailureRecord)
    BY DEF RcInit
  <1> QED
    BY <1>1, RecoveryAssumption DEF RcInit, RcInv, RcTables, RecoveryTypeOK, RetriesAreBounded

\* One record changes, but for its id.
LEMMA RecordSet ==
    ASSUME RcTables, NEW k \in 1 .. Len(records), NEW r \in FailureRecord, r.id = records[k].id,
           records' = [records EXCEPT ![k] = r]
    PROVE  /\ records' \in Seq(FailureRecord) /\ Len(records') = Len(records)
           /\ records'[k] = r
           /\ \A l \in 1 .. Len(records) : /\ records'[l].id = records[l].id
                                           /\ l # k => records'[l] = records[l]
           /\ \A l \in 1 .. Len(records) : Alike(l)' <=> Alike(l)
  <1>1. /\ Len(records) \in Nat /\ DOMAIN records = 1 .. Len(records) /\ records \in Seq(FailureRecord)
        /\ \A l \in 1 .. Len(records) : records[l] \in FailureRecord
    BY RecordList
  <1>2. \A l \in 1 .. Len(records) : records'[l] = IF l = k THEN r ELSE records[l]
    BY <1>1
  <1>3. records' \in Seq(FailureRecord) /\ Len(records') = Len(records)
    <2>1. records' = [l \in 1 .. Len(records) |-> records'[l]]
      BY <1>1
    <2> QED
      BY <1>1, <1>2, <2>1
  <1>4. \A l \in 1 .. Len(records) : Alike(l)' <=> Alike(l)
    BY <1>2, <1>3 DEF Alike
  <1> QED
    BY <1>2, <1>3, <1>4

LEMMA RecordHolds ==
    ASSUME RcInv, NEW f \in Failure, RecordFailure(f)
    PROVE  RcInv'
  <1> DEFINE r == [id |-> f, status |-> "detected", retries |-> 0]
             n == Len(records) + 1
  <1>1. /\ Len(records) \in Nat /\ records \in Seq(FailureRecord) /\ Len(records) <= MaxFailures
        /\ \A k \in 1 .. Len(records) : records[k] \in FailureRecord /\ records[k].id \in Failure
        /\ MaxFailures \in Nat
    BY RecordList DEF RcInv
  <1>2. /\ Len(records) < MaxFailures /\ records' = Append(records, r)
        /\ current' = [current EXCEPT ![f] = Len(records')]
        /\ UNCHANGED <<rescue, retrying>>
    BY DEF RecordFailure
  <1>3. r \in FailureRecord /\ r.id = f /\ r.retries = 0
    BY CallersAreFinite, RecoveryAssumption DEF FailureRecord
  <1> HIDE DEF r
  <1>4. /\ records' \in Seq(FailureRecord) /\ Len(records') = n /\ records'[n] = r
        /\ \A k \in 1 .. Len(records) : records'[k] = records[k] /\ k \in 1 .. n /\ k # n
        /\ \A k \in 1 .. n : k \in 1 .. Len(records) \/ k = n
        /\ n \in 1 .. n /\ n \in 0 .. MaxFailures
    BY <1>1, <1>2, <1>3
  <1> HIDE DEF n
  <1>5. /\ current'[f] = n /\ \A g \in Failure : g # f => current'[g] = current[g]
        /\ current' \in [Failure -> 0 .. MaxFailures]
    BY <1>2, <1>4 DEF RcInv, RcTables, RecoveryTypeOK
  <1>6. RcTables'
    <2>1. RecoveryTypeOK'
      BY <1>2, <1>4, <1>5 DEF RcInv, RcTables, RecoveryTypeOK
    <2>2. Len(records') <= MaxFailures
      BY <1>1, <1>2, <1>4 DEF n
    <2>3. \A g \in Failure : current'[g] # 0 =>
              current'[g] \in 1 .. Len(records') /\ records'[current'[g]].id = g
      BY <1>3, <1>4, <1>5 DEF RcInv, RcTables
    <2>4. \A c \in Rescuer : rescue'[c] # 0 => rescue'[c] \in 1 .. Len(records')
      BY <1>2, <1>4 DEF RcInv, RcTables
    <2> QED
      BY <2>1, <2>2, <2>3, <2>4 DEF RcTables
  <1>7. \A g : Escalating(g)' = Escalating(g)
    BY <1>2 DEF Escalating
  <1>8. RetriesAreBounded'
    <2> SUFFICES ASSUME NEW k \in 1 .. n
                 PROVE  /\ records'[k].retries < Tolerated + Cardinality(Rescuer)
                        /\ current'[records'[k].id] = k =>
                              records'[k].retries < Tolerated + Cardinality(Escalating(records'[k].id))
      BY <1>4, <1>7 DEF RetriesAreBounded, Tolerated
    <2>1. CASE k = n
      BY <1>3, <1>4, <2>1, CallersAreFinite
    <2>2. CASE k # n
      BY <1>1, <1>4, <1>5, <2>2 DEF RcInv, RetriesAreBounded
    <2> QED
      BY <2>1, <2>2
  <1>9. \A k \in 1 .. Len(records') : Minded(k)'
    <2> SUFFICES ASSUME NEW k \in 1 .. n PROVE Minded(k)'
      BY <1>4
    <2>1. CASE k = n
      BY <1>3, <1>4, <1>5, <2>1 DEF Minded
    <2>2. CASE k # n
      <3>1. k \in 1 .. Len(records) /\ records'[k] = records[k] /\ Minded(k)
        BY <1>4, <2>2 DEF RcInv
      <3>2. CASE Settled(k)
        BY <3>1, <3>2 DEF Minded, Settled
      <3>3. CASE current[records[k].id] = k
        <4>1. CASE records[k].id = f
          <5>1. Alike(k)'
            BY <1>3, <1>4, <2>2, <3>1, <4>1 DEF Alike
          <5> QED
            BY <5>1 DEF Minded
        <4>2. CASE records[k].id # f
          BY <1>1, <1>5, <3>1, <3>3, <4>2 DEF Minded
        <4> QED
          BY <4>1, <4>2
      <3>4. CASE \E c \in Rescuer : rescue[c] = k
        BY <1>2, <3>4 DEF Minded
      <3>5. CASE Alike(k)
        <4>1. Alike(k)'
          BY <1>4, <3>1, <3>5 DEF Alike
        <4> QED
          BY <4>1 DEF Minded
      <3> QED
        BY <3>1, <3>2, <3>3, <3>4, <3>5 DEF Minded
    <2> QED
      BY <2>1, <2>2
  <1> QED
    BY <1>6, <1>8, <1>9 DEF RcInv

\* A step that sets a record's status, and takes entries off the table when the record that
\* it settles has the same id.
LEMMA StatusStep ==
    ASSUME RcInv, NEW k \in 1 .. Len(records),
           NEW st \in {"recovering", "recovered", "escalated"},
           records' = [records EXCEPT ![k].status = st],
           \/ st = "recovering" /\ current' = current
           \/ st # "recovering" /\ current' = [current EXCEPT ![records[k].id] = 0],
           rescue' \in [Rescuer -> 0 .. MaxFailures],
           \A c \in Rescuer : rescue'[c] \in {0, k, rescue[c]},
           \A c \in Rescuer : rescue'[c] # rescue[c] => rescue[c] \in {0, k},
           st = "recovering" => \E c \in Rescuer : rescue'[c] = k,
           retrying' \in [Rescuer -> {NoRetry} \cup [id : Failure, act : {"recover", "escalate"}]],
           \A l \in 1 .. Len(records), c \in Rescuer : current'[records[l].id] = l =>
               (retrying'[c] = [id |-> records[l].id, act |-> "escalate"]
                   <=> retrying[c] = [id |-> records[l].id, act |-> "escalate"])
    PROVE  RcInv'
  <1> DEFINE r == [records[k] EXCEPT !.status = st]
  <1>1. /\ Len(records) \in Nat /\ Len(records) <= MaxFailures
        /\ \A l \in 1 .. Len(records) : /\ records[l] \in FailureRecord /\ records[l].id \in Failure
                                        /\ l \in 0 .. MaxFailures /\ l # 0
        /\ RcTables
    BY RecordList DEF RcInv
  <1>2. r \in FailureRecord /\ r.id = records[k].id /\ r.retries = records[k].retries /\ r.status = st
    BY <1>1 DEF FailureRecord
  <1>3. records' = [records EXCEPT ![k] = r]
    OBVIOUS
  <1> HIDE DEF r
  <1>4. /\ records' \in Seq(FailureRecord) /\ Len(records') = Len(records) /\ records'[k] = r
        /\ \A l \in 1 .. Len(records) : /\ records'[l].id = records[l].id
                                        /\ l # k => records'[l] = records[l]
        /\ \A l \in 1 .. Len(records) : Alike(l)' <=> Alike(l)
    BY <1>1, <1>2, <1>3, RecordSet
  <1>5. /\ current' \in [Failure -> 0 .. MaxFailures]
        /\ \A f \in Failure : current'[f] \in {0, current[f]}
        /\ \A f \in Failure : current'[f] # current[f] => f = records[k].id
    <2>1. 0 \in 0 .. MaxFailures /\ current \in [Failure -> 0 .. MaxFailures]
      BY <1>1, RecoveryAssumption DEF RcTables, RecoveryTypeOK
    <2> QED
      BY <2>1
  <1>6. RcTables'
    <2>1. RecoveryTypeOK' /\ Len(records') <= MaxFailures
      BY <1>1, <1>4, <1>5 DEF RecoveryTypeOK
    <2>2. \A f \in Failure : current'[f] # 0 =>
              current'[f] \in 1 .. Len(records') /\ records'[current'[f]].id = f
      BY <1>1, <1>4, <1>5 DEF RcTables
    <2>3. \A c \in Rescuer : rescue'[c] # 0 => rescue'[c] \in 1 .. Len(records')
      BY <1>1, <1>4 DEF RcTables
    <2> QED
      BY <2>1, <2>2, <2>3 DEF RcTables
  <1>7. \A l \in 1 .. Len(records) : records'[l].retries = records[l].retries
    BY <1>2, <1>4
  <1>8. RetriesAreBounded'
    <2> SUFFICES ASSUME NEW l \in 1 .. Len(records')
                 PROVE  /\ records'[l].retries < Tolerated + Cardinality(Rescuer)
                        /\ current'[records'[l].id] = l =>
                              records'[l].retries < Tolerated + Cardinality({c \in Rescuer :
                                  retrying'[c] = [id |-> records'[l].id, act |-> "escalate"]})
      BY DEF RetriesAreBounded, Tolerated, Escalating
    <2>1. l \in 1 .. Len(records) /\ records'[l].id = records[l].id
      BY <1>4
    <2>2. records'[l].retries < Tolerated + Cardinality(Rescuer)
      BY <1>7, <2>1 DEF RcInv, RetriesAreBounded
    <2>3. ASSUME current'[records'[l].id] = l
          PROVE  records'[l].retries < Tolerated + Cardinality({c \in Rescuer :
                     retrying'[c] = [id |-> records'[l].id, act |-> "escalate"]})
      <3>1. current'[records[l].id] = l /\ current[records[l].id] = l
        BY <1>1, <1>5, <2>1, <2>3
      <3>2. {c \in Rescuer : retrying'[c] = [id |-> records'[l].id, act |-> "escalate"]}
                = Escalating(records[l].id)
        BY <2>1, <3>1 DEF Escalating
      <3>3. records[l].retries < Tolerated + Cardinality(Escalating(records[l].id))
        BY <2>1, <3>1 DEF RcInv, RetriesAreBounded
      <3> QED
        BY <1>7, <2>1, <3>2, <3>3
    <2> QED
      BY <2>2, <2>3
  <1>9. \A l \in 1 .. Len(records') : Minded(l)'
    <2> SUFFICES ASSUME NEW l \in 1 .. Len(records) PROVE Minded(l)'
      BY <1>4
    <2>1. CASE l = k
      <3>1. CASE st = "recovering"
        BY <2>1, <3>1 DEF Minded
      <3>2. CASE st # "recovering"
        BY <1>2, <1>4, <2>1, <3>2 DEF Minded, Settled
      <3> QED
        BY <3>1, <3>2
    <2>2. CASE l # k
      <3>1. Minded(l) /\ records'[l] = records[l]
        BY <1>4, <2>2 DEF RcInv
      <3>2. CASE Settled(l)
        BY <3>1, <3>2 DEF Minded, Settled
      <3>3. CASE current[records[l].id] = l
        <4>1. CASE current'[records[l].id] = l
          BY <3>1, <4>1 DEF Minded
        <4>2. CASE current'[records[l].id] # l
          <5>1. records[l].id = records[k].id
            BY <1>1, <1>5, <3>3, <4>2
          <5>2. Alike(l)
            BY <2>2, <5>1 DEF Alike
          <5> QED
            BY <1>4, <5>2 DEF Minded
        <4> QED
          BY <4>1, <4>2
      <3>4. ASSUME NEW c \in Rescuer, rescue[c] = l PROVE Minded(l)'
        <4>1. rescue'[c] = l \/ rescue'[c] = k
          BY <2>2, <3>4
        <4>2. rescue'[c] = l
          BY <2>2, <3>4
        <4> QED
          BY <4>2 DEF Minded
      <3>5. CASE Alike(l)
        BY <1>4, <3>5 DEF Minded
      <3> QED
        BY <3>1, <3>2, <3>3, <3>4, <3>5 DEF Minded
    <2> QED
      BY <2>1, <2>2
  <1> QED
    BY <1>6, <1>8, <1>9 DEF RcInv

LEMMA RecordInUse ==
    ASSUME RcInv, NEW f \in Failure, current[f] # 0
    PROVE  /\ current[f] \in 1 .. Len(records) /\ records[current[f]].id = f
           /\ current[f] \in 0 .. MaxFailures
           /\ records[current[f]] \in FailureRecord /\ records[current[f]].retries \in Nat
  BY RecordList DEF RcInv, RcTables

LEMMA RetryHolds ==
    ASSUME RcInv, NEW c \in Rescuer, NEW f \in Failure, Retry(c, f)
    PROVE  RcInv'
  <1> DEFINE k == current[f]
             n == records[k].retries + 1
             r == [records[k] EXCEPT !.retries = n]
             act == IF n >= RetryLimit THEN "escalate" ELSE "recover"
  <1>1. /\ k \in 1 .. Len(records) /\ records[k].id = f /\ k # 0
        /\ records[k] \in FailureRecord /\ records[k].retries \in Nat
    BY RecordInUse DEF Retry
  <1>2. /\ RcTables /\ Len(records) \in Nat /\ RecoveryTypeOK
        /\ \A l \in 1 .. Len(records) : /\ records[l] \in FailureRecord /\ records[l].id \in Failure
                                        /\ l # 0 /\ records[l].retries \in Nat
    BY RecordList DEF RcInv, RcTables
  <1>3. /\ retrying[c] = NoRetry /\ records' = [records EXCEPT ![k] = r]
        /\ retrying' = [retrying EXCEPT ![c] = [id |-> f, act |-> act]]
        /\ current' = current /\ rescue' = rescue
    BY DEF Retry
  <1>4. /\ retrying'[c] = [id |-> f, act |-> act]
        /\ \A b \in Rescuer : b # c => retrying'[b] = retrying[b]
        /\ retrying' \in [Rescuer -> {NoRetry} \cup [id : Failure, act : {"recover", "escalate"}]]
    BY <1>2, <1>3 DEF RecoveryTypeOK
  <1>5. n \in Nat /\ n < Tolerated + Cardinality(Rescuer)
        /\ n < Tolerated + Cardinality({b \in Rescuer : retrying'[b] = [id |-> f, act |-> "escalate"]})
    <2> DEFINE now == {b \in Rescuer : retrying'[b] = [id |-> f, act |-> "escalate"]}
    <2>1. /\ now \in SUBSET Rescuer /\ IsFiniteSet(now) /\ Cardinality(now) \in Nat
          /\ Cardinality(now) <= Cardinality(Rescuer) /\ Cardinality(Rescuer) \in Nat
      <3>1. now \in SUBSET Rescuer
        OBVIOUS
      <3> HIDE DEF now
      <3> QED
        BY <3>1, Fewer, RecoveryAssumption
    <2>2. Tolerated \in Nat \ {0}
      BY CallersAreFinite
    <2>3. CASE n >= RetryLimit
      <3>1. now = Escalating(f) \cup {c}
        BY <1>4, <2>3 DEF Escalating
      <3>2. c \notin Escalating(f)
        BY <1>3, NoRetryIsNoAct DEF Escalating
      <3>3. IsFiniteSet(Escalating(f)) /\ Cardinality(Escalating(f)) \in Nat
        BY CallersAreFinite
      <3>4. Cardinality(now) = Cardinality(Escalating(f)) + 1
        <4> HIDE DEF now
        <4> QED
          BY <3>1, <3>2, <3>3, FS_AddElement
      <3>5. records[k].retries < Tolerated + Cardinality(Escalating(f))
        BY <1>1 DEF RcInv, RetriesAreBounded
      <3> HIDE DEF now
      <3>6. n < Tolerated + Cardinality(now)
        BY <1>1, <2>2, <3>3, <3>4, <3>5
      <3> QED
        BY <1>1, <2>1, <2>2, <3>6 DEF now
    <2>4. CASE ~ (n >= RetryLimit)
      <3>1. n < RetryLimit /\ n \in Nat /\ RetryLimit \in Nat
        BY <1>1, <2>4, RecoveryAssumption
      <3>2. n < Tolerated
        BY <3>1 DEF Tolerated
      <3> HIDE DEF now, n
      <3>3. n < Tolerated + Cardinality(now) /\ n < Tolerated + Cardinality(Rescuer)
        BY <2>1, <2>2, <3>1, <3>2
      <3> QED
        BY <3>1, <3>3 DEF now
    <2> QED
      BY <2>3, <2>4
  <1>6. r \in FailureRecord /\ r.id = f /\ r.retries = n /\ r.status = records[k].status
    <2>1. Cardinality(Rescuer) \in Nat /\ Tolerated \in Nat
          /\ Tolerated + Cardinality(Rescuer) <= RetryLimit + Cardinality(Rescuer) + 1
      BY CallersAreFinite
    <2>2. n \in 0 .. RetryLimit + Cardinality(Rescuer)
      <3> HIDE DEF n
      <3> QED
        BY <1>5, <2>1, RecoveryAssumption
    <2> QED
      BY <1>1, <2>2 DEF FailureRecord
  <1> HIDE DEF r, n, act, k
  <1>7. /\ records' \in Seq(FailureRecord) /\ Len(records') = Len(records) /\ records'[k] = r
        /\ \A l \in 1 .. Len(records) : /\ records'[l].id = records[l].id
                                        /\ l # k => records'[l] = records[l]
        /\ \A l \in 1 .. Len(records) : Alike(l)' <=> Alike(l)
    BY <1>1, <1>2, <1>3, <1>6, RecordSet
  <1>8. RcTables'
    <2>1. RecoveryTypeOK'
      BY <1>2, <1>3, <1>4, <1>7 DEF RecoveryTypeOK
    <2> QED
      BY <1>2, <1>3, <1>7, <2>1 DEF RcTables
  <1>9. RetriesAreBounded'
    <2> SUFFICES ASSUME NEW l \in 1 .. Len(records')
                 PROVE  /\ records'[l].retries < Tolerated + Cardinality(Rescuer)
                        /\ current'[records'[l].id] = l =>
                              records'[l].retries < Tolerated + Cardinality({b \in Rescuer :
                                  retrying'[b] = [id |-> records'[l].id, act |-> "escalate"]})
      BY DEF RetriesAreBounded, Tolerated, Escalating
    <2>1. CASE l = k
      BY <1>1, <1>5, <1>6, <1>7, <2>1
    <2>2. CASE l # k
      <3>1. l \in 1 .. Len(records) /\ records'[l] = records[l]
        BY <1>7, <2>2
      <3>2. ASSUME current'[records[l].id] = l
            PROVE  {b \in Rescuer : retrying'[b] = [id |-> records[l].id, act |-> "escalate"]}
                       = Escalating(records[l].id)
        <4>1. records[l].id # f
          BY <1>3, <2>2, <3>2 DEF k
        <4>2. \A b \in Rescuer : retrying'[b] = [id |-> records[l].id, act |-> "escalate"]
                                    <=> retrying[b] = [id |-> records[l].id, act |-> "escalate"]
          <5> TAKE b \in Rescuer
          <5>1. CASE b = c
            <6>1. retrying'[b] # [id |-> records[l].id, act |-> "escalate"]
              BY <1>4, <4>1, <5>1
            <6>2. retrying[b] # [id |-> records[l].id, act |-> "escalate"]
              BY <1>3, <5>1, NoRetryIsNoAct
            <6> QED
              BY <6>1, <6>2
          <5>2. CASE b # c
            BY <1>4, <5>2
          <5> QED
            BY <5>1, <5>2
        <4> QED
          BY <4>2 DEF Escalating
      <3> QED
        BY <1>3, <3>1, <3>2 DEF RcInv, RetriesAreBounded
    <2> QED
      BY <2>1, <2>2
  <1>10. \A l \in 1 .. Len(records') : Minded(l)'
    <2> SUFFICES ASSUME NEW l \in 1 .. Len(records) PROVE Minded(l)'
      BY <1>7
    <2>1. records'[l].status = records[l].status /\ records'[l].id = records[l].id /\ Minded(l)
      BY <1>6, <1>7 DEF RcInv
    <2> QED
      BY <1>3, <1>7, <2>1 DEF Minded, Settled
  <1> QED
    BY <1>8, <1>9, <1>10 DEF RcInv

\* Recover and Escalate, on their own and as what a retry goes on to do.
LEMMA RecoverHolds ==
    ASSUME RcInv, NEW c \in Rescuer, NEW f \in Failure, Recover(c, f),
           retrying' \in [Rescuer -> {NoRetry} \cup [id : Failure, act : {"recover", "escalate"}]],
           \A g \in Failure, b \in Rescuer : retrying'[b] = [id |-> g, act |-> "escalate"]
                                     <=> retrying[b] = [id |-> g, act |-> "escalate"]
    PROVE  RcInv'
  <1> DEFINE k == current[f]
  <1>1. k \in 1 .. Len(records) /\ k \in 0 .. MaxFailures
    BY RecordInUse DEF Recover
  <1>2. RecoveryTypeOK
    BY DEF RcInv, RcTables
  <1>3. /\ rescue[c] = 0 /\ records' = [records EXCEPT ![k].status = "recovering"]
        /\ rescue' = [rescue EXCEPT ![c] = k] /\ current' = current
    BY DEF Recover
  <1> HIDE DEF k
  <1>4. /\ rescue' \in [Rescuer -> 0 .. MaxFailures] /\ rescue'[c] = k
        /\ \A b \in Rescuer : rescue'[b] \in {0, k, rescue[b]}
        /\ \A b \in Rescuer : rescue'[b] # rescue[b] => rescue[b] \in {0, k}
    BY <1>1, <1>2, <1>3 DEF RecoveryTypeOK
  <1>5. \E b \in Rescuer : rescue'[b] = k
    BY <1>4
  <1>6. \A l \in 1 .. Len(records), b \in Rescuer : current'[records[l].id] = l =>
               (retrying'[b] = [id |-> records[l].id, act |-> "escalate"]
                   <=> retrying[b] = [id |-> records[l].id, act |-> "escalate"])
    <2>1. \A l \in 1 .. Len(records) : records[l].id \in Failure
      BY RecordList DEF RcInv
    <2> QED
      BY <2>1
  <1> QED
    BY <1>1, <1>3, <1>4, <1>5, <1>6, StatusStep

LEMMA EscalateHolds ==
    ASSUME RcInv, NEW f \in Failure, Escalate(f),
           retrying' \in [Rescuer -> {NoRetry} \cup [id : Failure, act : {"recover", "escalate"}]],
           \A g \in Failure, b \in Rescuer : g # f =>
               (retrying'[b] = [id |-> g, act |-> "escalate"]
                    <=> retrying[b] = [id |-> g, act |-> "escalate"])
    PROVE  RcInv'
  <1> DEFINE k == current[f]
  <1>1. k \in 1 .. Len(records) /\ records[k].id = f
    BY RecordInUse DEF Escalate
  <1>2. RecoveryTypeOK /\ \A l \in 1 .. Len(records) : l # 0 /\ records[l].id \in Failure
    BY RecordList DEF RcInv, RcTables
  <1>3. /\ records' = [records EXCEPT ![k].status = "escalated"] /\ rescue' = rescue
        /\ current' = [current EXCEPT ![f] = 0]
    BY DEF Escalate
  <1> HIDE DEF k
  <1>4. /\ rescue' \in [Rescuer -> 0 .. MaxFailures]
        /\ \A b \in Rescuer : rescue'[b] \in {0, k, rescue[b]}
        /\ \A b \in Rescuer : rescue'[b] # rescue[b] => rescue[b] \in {0, k}
        /\ current' = [current EXCEPT ![records[k].id] = 0] /\ current'[f] = 0
    BY <1>1, <1>2, <1>3 DEF RecoveryTypeOK
  <1>5. \A l \in 1 .. Len(records), b \in Rescuer : current'[records[l].id] = l =>
               (retrying'[b] = [id |-> records[l].id, act |-> "escalate"]
                   <=> retrying[b] = [id |-> records[l].id, act |-> "escalate"])
    <2> TAKE l \in 1 .. Len(records), b \in Rescuer
    <2>1. records[l].id \in Failure /\ l # 0
      BY <1>2
    <2>2. records[l].id = f => current'[records[l].id] # l
      BY <1>4, <2>1
    <2> QED
      BY <2>1, <2>2
  <1> QED
    BY <1>1, <1>3, <1>4, <1>5, StatusStep

LEMMA RecoveredHolds ==
    ASSUME RcInv, NEW c \in Rescuer, Recovered(c)
    PROVE  RcInv'
  <1> DEFINE k == rescue[c]
  <1>1. k \in 1 .. Len(records)
    BY DEF RcInv, RcTables, Recovered
  <1>2. RecoveryTypeOK /\ 0 \in 0 .. MaxFailures
    BY RecoveryAssumption DEF RcInv, RcTables
  <1>3. /\ records' = [records EXCEPT ![k].status = "recovered"]
        /\ rescue' = [rescue EXCEPT ![c] = 0] /\ retrying' = retrying
        /\ current' = [current EXCEPT ![records[k].id] = 0]
    BY DEF Recovered
  <1>4. /\ rescue' \in [Rescuer -> 0 .. MaxFailures]
        /\ \A b \in Rescuer : rescue'[b] \in {0, k, rescue[b]}
        /\ \A b \in Rescuer : rescue'[b] # rescue[b] => rescue[b] \in {0, k}
        /\ retrying' \in [Rescuer -> {NoRetry} \cup [id : Failure, act : {"recover", "escalate"}]]
    BY <1>2, <1>3 DEF RecoveryTypeOK
  <1> HIDE DEF k
  <1>5. \A l \in 1 .. Len(records), b \in Rescuer : current'[records[l].id] = l =>
               (retrying'[b] = [id |-> records[l].id, act |-> "escalate"]
                   <=> retrying[b] = [id |-> records[l].id, act |-> "escalate"])
    BY <1>3
  <1> QED
    BY <1>1, <1>3, <1>4, <1>5, StatusStep

\* What a retry decided on is done to whatever the id stands for by then.
LEMMA RetryGoesOnHolds ==
    ASSUME RcInv, NEW c \in Rescuer, RetryGoesOn(c)
    PROVE  RcInv'
  <1> DEFINE f == retrying[c].id
             Acts == {NoRetry} \cup [id : Failure, act : {"recover", "escalate"}]
  <1>1. RecoveryTypeOK /\ RcTables
    BY DEF RcInv, RcTables
  <1>2. retrying[c] # NoRetry /\ retrying' = [retrying EXCEPT ![c] = NoRetry]
    BY DEF RetryGoesOn
  <1>3. /\ retrying[c] \in [id : Failure, act : {"recover", "escalate"}] /\ f \in Failure
        /\ retrying' \in [Rescuer -> Acts] /\ retrying'[c] = NoRetry
        /\ \A b \in Rescuer : b # c => retrying'[b] = retrying[b]
    BY <1>1, <1>2 DEF RecoveryTypeOK
  <1>4. \A g \in Failure, b \in Rescuer : g # f =>
               (retrying'[b] = [id |-> g, act |-> "escalate"]
                    <=> retrying[b] = [id |-> g, act |-> "escalate"])
    <2> SUFFICES ASSUME NEW g \in Failure, g # f
                 PROVE  /\ retrying'[c] # [id |-> g, act |-> "escalate"]
                        /\ retrying[c] # [id |-> g, act |-> "escalate"]
      BY <1>3
    <2> QED
      BY <1>3, NoRetryIsNoAct
  <1>5. \/ (retrying[c].act = "escalate" /\ Escalate(f))
        \/ (retrying[c].act = "recover" /\ Recover(c, f))
        \/ (current[f] = 0 /\ UNCHANGED <<records, current, rescue>>)
    BY DEF RetryGoesOn
  <1> HIDE DEF f
  <1>6. CASE retrying[c].act = "escalate" /\ Escalate(f)
    BY <1>3, <1>4, <1>6, EscalateHolds
  <1>7. CASE retrying[c].act = "recover" /\ Recover(c, f)
    <2>1. \A g \in Failure, b \in Rescuer : retrying'[b] = [id |-> g, act |-> "escalate"]
                                     <=> retrying[b] = [id |-> g, act |-> "escalate"]
      <3> SUFFICES ASSUME NEW g \in Failure
                   PROVE  /\ retrying'[c] # [id |-> g, act |-> "escalate"]
                          /\ retrying[c] # [id |-> g, act |-> "escalate"]
        BY <1>3
      <3> QED
        BY <1>3, <1>7, NoRetryIsNoAct
    <2> QED
      BY <1>3, <1>7, <2>1, RecoverHolds
  <1>8. CASE current[f] = 0 /\ UNCHANGED <<records, current, rescue>>
    <2>1. RcTables'
      BY <1>1, <1>3, <1>8 DEF RcTables, RecoveryTypeOK
    <2>2. RetriesAreBounded'
      <3> SUFFICES ASSUME NEW l \in 1 .. Len(records)
                   PROVE  /\ records[l].retries < Tolerated + Cardinality(Rescuer)
                          /\ current[records[l].id] = l =>
                                records[l].retries < Tolerated + Cardinality({b \in Rescuer :
                                    retrying'[b] = [id |-> records[l].id, act |-> "escalate"]})
        BY <1>8 DEF RetriesAreBounded, Tolerated, Escalating
      <3>1. ASSUME current[records[l].id] = l
            PROVE  {b \in Rescuer : retrying'[b] = [id |-> records[l].id, act |-> "escalate"]}
                       = Escalating(records[l].id)
        <4>1. records[l].id \in Failure /\ l # 0
          BY <1>1, RecordList
        <4>2. records[l].id # f
          BY <1>8, <3>1, <4>1
        <4>3. \A b \in Rescuer : retrying'[b] = [id |-> records[l].id, act |-> "escalate"]
                                    <=> retrying[b] = [id |-> records[l].id, act |-> "escalate"]
          BY <1>4, <4>1, <4>2
        <4> QED
          BY <4>3 DEF Escalating
      <3> QED
        BY <3>1 DEF RcInv, RetriesAreBounded
    <2>3. \A l \in 1 .. Len(records') : Minded(l)'
      BY <1>8 DEF RcInv, Minded, Settled, Alike
    <2> QED
      BY <2>1, <2>2, <2>3 DEF RcInv
  <1> QED
    BY <1>5, <1>6, <1>7, <1>8

LEMMA RcInvNext == RcInv /\ [RcNext]_rcVars => RcInv'
  <1> SUFFICES ASSUME RcInv, [RcNext]_rcVars PROVE RcInv'
    OBVIOUS
  <1>1. RecoveryTypeOK
    BY DEF RcInv, RcTables
  <1>2. ASSUME retrying' = retrying
        PROVE  /\ retrying' \in [Rescuer -> {NoRetry} \cup [id : Failure, act : {"recover", "escalate"}]]
               /\ \A g \in Failure, b \in Rescuer : retrying'[b] = [id |-> g, act |-> "escalate"]
                                            <=> retrying[b] = [id |-> g, act |-> "escalate"]
    BY <1>1, <1>2 DEF RecoveryTypeOK
  <1>3. ASSUME NEW f \in Failure, RecordFailure(f) PROVE RcInv'
    BY <1>3, RecordHolds
  <1>4. ASSUME NEW f \in Failure, Escalate(f), retrying' = retrying PROVE RcInv'
    BY <1>2, <1>4, EscalateHolds
  <1>5. ASSUME NEW c \in Rescuer, NEW f \in Failure, Retry(c, f) PROVE RcInv'
    BY <1>5, RetryHolds
  <1>6. ASSUME NEW c \in Rescuer, NEW f \in Failure, Recover(c, f), retrying' = retrying PROVE RcInv'
    BY <1>2, <1>6, RecoverHolds
  <1>7. ASSUME NEW c \in Rescuer, Recovered(c) PROVE RcInv'
    BY <1>7, RecoveredHolds
  <1>8. ASSUME NEW c \in Rescuer, RetryGoesOn(c) PROVE RcInv'
    BY <1>8, RetryGoesOnHolds
  <1>9. CASE UNCHANGED rcVars
    <2>1. \A f : Escalating(f)' = Escalating(f)
      BY <1>9 DEF Escalating, rcVars
    <2> QED
      BY <1>9, <2>1 DEF rcVars, RcInv, RcTables, RecoveryTypeOK, RetriesAreBounded, Minded, Settled,
                        Alike, Tolerated, Escalating
  <1> QED
    BY <1>3, <1>4, <1>5, <1>6, <1>7, <1>8, <1>9 DEF RcNext

-----------------------------------------------------------------------------
(* The repair desks *)

ReTables ==
    /\ requests \in Seq(Request) /\ Len(requests) <= MaxRequests
    /\ inHand \in [Desk -> SUBSET RepairId]
    /\ batch \in [Crew -> Seq(1 .. MaxRequests)] /\ repairing \in [Crew -> 0 .. MaxRequests]

\* A request of the healing system is found whatever its status, so that it must wait in one
\* batch only, once, until it is executed.
BatchesAreApart ==
    \A c \in Crew : \A n \in 1 .. Len(batch[c]) :
        /\ batch[c][n] \in 1 .. Len(requests)
        /\ requests[batch[c][n]].desk = "heal" =>
              /\ requests[batch[c][n]].status = "pending"
              /\ \A d \in Crew : \A m \in 1 .. Len(batch[d]) :
                    batch[d][m] = batch[c][n] => d = c /\ m = n

HandsAreApart ==
    \A c \in Crew : repairing[c] # 0 =>
        /\ repairing[c] \in 1 .. Len(requests) /\ requests[repairing[c]].status = "executing"
        /\ \A d \in Crew : repairing[d] = repairing[c] => d = c

RunsAreCounted ==
    \A k \in 1 .. Len(requests) :
        /\ requests[k].runs \in {0, 1}
        /\ requests[k].status = "pending" <=> requests[k].runs = 0
        /\ requests[k].status = "executing" => \E c \in Crew : repairing[c] = k

ReInv == ReTables /\ BatchesAreApart /\ HandsAreApart /\ RunsAreCounted

LEMMA RequestList ==
    ASSUME ReTables
    PROVE  /\ Len(requests) \in Nat /\ DOMAIN requests = 1 .. Len(requests) /\ MaxRequests \in Nat
           /\ Len(requests) <= MaxRequests /\ requests \in Seq(Request)
           /\ \A k \in 1 .. Len(requests) :
                 /\ requests[k] \in Request /\ requests[k].desk \in Desk /\ requests[k].id \in RepairId
                 /\ k \in 1 .. MaxRequests /\ k # 0
           /\ \A c \in Crew : batch[c] \in Seq(1 .. MaxRequests) /\ Len(batch[c]) \in Nat
  <1>1. Len(requests) \in Nat /\ DOMAIN requests = 1 .. Len(requests) /\ requests \in Seq(Request)
        /\ \A k \in 1 .. Len(requests) : requests[k] \in Request
    BY DEF ReTables
  <1>2. \A r \in Request : r.desk \in Desk /\ r.id \in RepairId
    BY DEF Request
  <1>3. Len(requests) <= MaxRequests /\ MaxRequests \in Nat
    BY RepairsAssumption DEF ReTables
  <1>4. \A c \in Crew : batch[c] \in Seq(1 .. MaxRequests) /\ Len(batch[c]) \in Nat
    BY DEF ReTables
  <1> QED
    BY <1>1, <1>2, <1>3, <1>4

LEMMA ReInvImplies == ReInv => RepairsTypeOK /\ RepairedOnce
  <1> SUFFICES ASSUME ReInv PROVE RepairsTypeOK /\ RepairedOnce
    OBVIOUS
  <1>1. DOMAIN requests = 1 .. Len(requests) /\ \A k \in 1 .. Len(requests) : k # 0
    BY RequestList DEF ReInv
  <1>2. RepairsTypeOK
    BY DEF ReInv, ReTables, RepairsTypeOK
  <1>3. ASSUME NEW k \in 1 .. Len(requests)
        PROVE  /\ requests[k].runs <= 1
               /\ requests[k].status = "pending" <=> requests[k].runs = 0
               /\ requests[k].status = "executing" <=> \E c \in Crew : repairing[c] = k
    BY <1>1 DEF ReInv, HandsAreApart, RunsAreCounted
  <1> QED
    BY <1>1, <1>2, <1>3 DEF RepairedOnce

LEMMA ReInvInit == ReInit => ReInv
  <1> SUFFICES ASSUME ReInit PROVE ReInv
    OBVIOUS
  <1>1. Len(requests) = 0 /\ requests \in Seq(Request) /\ <<>> \in Seq(1 .. MaxRequests) /\ Len(<<>>) = 0
    BY DEF ReInit
  <1>2. MaxRequests \in Nat /\ 0 \in 0 .. MaxRequests
    BY RepairsAssumption
  <1>3. ReTables
    BY <1>1, <1>2 DEF ReInit, ReTables
  <1> QED
    BY <1>1, <1>3 DEF ReInit, ReInv, BatchesAreApart, HandsAreApart, RunsAreCounted

\* New requests at the end of the list, in nobody's hands.
LEMMA RequestsGrow ==
    ASSUME ReInv, NEW new \in Seq(Request), Len(requests) + Len(new) <= MaxRequests,
           \A n \in 1 .. Len(new) : new[n].status = "pending" /\ new[n].runs = 0,
           requests' = requests \o new, UNCHANGED <<inHand, repairing>>
    PROVE  /\ requests' \in Seq(Request) /\ Len(requests') = Len(requests) + Len(new)
           /\ Len(new) \in Nat /\ Len(requests) \in Nat
           /\ Len(requests') <= MaxRequests /\ HandsAreApart' /\ RunsAreCounted'
           /\ \A k \in 1 .. Len(requests) : requests'[k] = requests[k] /\ k \in 1 .. Len(requests')
           /\ \A n \in 1 .. Len(new) : /\ requests'[Len(requests) + n] = new[n]
                                       /\ Len(requests) + n \in 1 .. Len(requests')
  <1>1. ReTables /\ requests \in Seq(Request)
    BY DEF ReInv, ReTables
  <1>2. /\ requests' \in Seq(Request) /\ Len(requests') = Len(requests) + Len(new)
        /\ Len(requests) \in Nat /\ Len(new) \in Nat
        /\ \A k \in 1 .. Len(requests) : requests'[k] = requests[k] /\ k \in 1 .. Len(requests')
        /\ \A n \in 1 .. Len(new) : /\ requests'[Len(requests) + n] = new[n]
                                    /\ Len(requests) + n \in 1 .. Len(requests')
        /\ \A k \in 1 .. Len(requests') :
              k \in 1 .. Len(requests) \/ \E n \in 1 .. Len(new) : k = Len(requests) + n
    BY <1>1, Joining
  <1>3. HandsAreApart'
    BY <1>2 DEF ReInv, HandsAreApart
  <1>4. RunsAreCounted'
    <2> SUFFICES ASSUME NEW k \in 1 .. Len(requests')
                 PROVE  /\ requests'[k].runs \in {0, 1}
                        /\ requests'[k].status = "pending" <=> requests'[k].runs = 0
                        /\ requests'[k].status = "executing" => \E c \in Crew : repairing'[c] = k
      BY DEF RunsAreCounted
    <2>1. CASE k \in 1 .. Len(requests)
      BY <1>2, <2>1 DEF ReInv, RunsAreCounted
    <2>2. ASSUME NEW n \in 1 .. Len(new), k = Len(requests) + n
          PROVE  requests'[k].runs = 0 /\ requests'[k].status = "pending"
      BY <1>2, <2>2
    <2> QED
      BY <1>2, <2>1, <2>2
  <1> QED
    BY <1>2, <1>3, <1>4

LEMMA RequestRepairHolds ==
    ASSUME ReInv, NEW d \in Desk, NEW id \in RepairId, RequestRepair(d, id)
    PROVE  ReInv'
  <1> DEFINE r == New(d, id)
             new == <<r>>
  <1>1. ReTables /\ Len(requests) \in Nat /\ requests \in Seq(Request) /\ MaxRequests \in Nat
    BY RequestList DEF ReInv, ReTables
  <1>2. /\ Len(requests) < MaxRequests /\ requests' = Append(requests, r)
        /\ UNCHANGED <<inHand, batch, repairing>>
    BY DEF RequestRepair
  <1>3. r \in Request /\ r.status = "pending" /\ r.runs = 0
    BY <1>1 DEF Request, New
  <1> HIDE DEF r
  <1>4. new \in Seq(Request) /\ Len(new) = 1 /\ new[1] = r
    BY <1>3
  <1>5. requests' = requests \o new
    BY <1>1, <1>2, <1>3, AppendIsConcat
  <1>6. \A n \in 1 .. Len(new) : new[n].status = "pending" /\ new[n].runs = 0
    BY <1>3, <1>4
  <1> HIDE DEF new
  <1>7. Len(requests) + Len(new) <= MaxRequests
    BY <1>1, <1>2, <1>4
  <1>8. /\ requests' \in Seq(Request) /\ Len(requests') <= MaxRequests
        /\ HandsAreApart' /\ RunsAreCounted'
        /\ \A k \in 1 .. Len(requests) : requests'[k] = requests[k] /\ k \in 1 .. Len(requests')
    BY <1>2, <1>4, <1>5, <1>6, <1>7, RequestsGrow
  <1>9. ReTables'
    BY <1>1, <1>2, <1>8 DEF ReTables
  <1>10. BatchesAreApart'
    BY <1>2, <1>8 DEF ReInv, BatchesAreApart
  <1> QED
    BY <1>8, <1>9, <1>10 DEF ReInv

\* The requests that a check of the targets makes wait in the batch of its caller alone.
LEMMA DetectHolds ==
    ASSUME ReInv, NEW c \in Crew, NEW ids \in SUBSET RepairId, Detect(c, ids)
    PROVE  ReInv'
  <1> DEFINE key == [id \in RepairId |-> 0 - Urgency[id]]
             order == StablySorted(SetToSeq(ids), key)
             new == [i \in 1 .. Len(order) |-> New("heal", order[i])]
             mine == [i \in 1 .. Len(order) |-> Len(requests) + i]
             old == Len(requests)
  <1>1. ReTables /\ Len(requests) \in Nat /\ requests \in Seq(Request) /\ MaxRequests \in Nat
    BY RequestList DEF ReInv, ReTables
  <1>2. IsFiniteSet(ids)
    BY RepairsAssumption, FS_Subset
  <1>3. SetToSeq(ids) \in Seq(ids) /\ Len(SetToSeq(ids)) = Cardinality(ids) /\ Cardinality(ids) \in Nat
    BY <1>2, SetToSeqLists
  <1>4. \A id \in ids : key[id] \in Int
    BY RepairsAssumption
  <1>5. order \in Seq(ids) /\ Len(order) = Cardinality(ids)
    <2> HIDE DEF key
    <2> QED
      BY <1>3, <1>4, SortPermutes
  <1>6. DOMAIN order = 1 .. Len(order) /\ Len(order) \in Nat /\ \A i \in 1 .. Len(order) : order[i] \in RepairId
    <2> HIDE DEF order
    <2> QED
      BY <1>5
  <1>7. /\ batch[c] = <<>> /\ old + Cardinality(ids) <= MaxRequests
        /\ requests' = requests \o new
        /\ batch' = [batch EXCEPT ![c] = mine]
        /\ UNCHANGED <<inHand, repairing>>
    <2>1. /\ batch[c] = <<>> /\ old + Cardinality(ids) <= MaxRequests
          /\ requests' = requests \o [i \in DOMAIN order |-> New("heal", order[i])]
          /\ batch' = [batch EXCEPT ![c] = [i \in DOMAIN order |-> Len(requests) + i]]
          /\ UNCHANGED <<inHand, repairing>>
      BY DEF Detect, FreeHands
    <2> HIDE DEF order
    <2> QED
      BY <1>6, <2>1
  <1> HIDE DEF order
  <1>8. /\ new \in Seq(Request) /\ Len(new) = Len(order)
        /\ \A n \in 1 .. Len(new) : new[n].status = "pending" /\ new[n].runs = 0
    <2>1. \A i \in 1 .. Len(order) : New("heal", order[i]) \in Request
      BY <1>1, <1>6 DEF New, Request, Desk
    <2>2. new \in [1 .. Len(order) -> Request]
      BY <2>1
    <2>3. new \in Seq(Request) /\ Len(new) = Len(order)
      BY <1>6, <2>2
    <2>4. \A n \in 1 .. Len(order) : new[n] = New("heal", order[n])
      OBVIOUS
    <2>5. \A n \in 1 .. Len(order) : new[n].status = "pending" /\ new[n].runs = 0
      BY <2>4 DEF New
    <2> HIDE DEF new
    <2> QED
      BY <2>3, <2>5
  <1>9. /\ mine \in Seq(1 .. MaxRequests) /\ Len(mine) = Len(order)
        /\ \A i \in 1 .. Len(mine) : mine[i] = old + i
    <2>1. \A i \in 1 .. Len(order) : old + i \in 1 .. MaxRequests
      BY <1>1, <1>5, <1>6, <1>7
    <2>2. mine \in [1 .. Len(order) -> 1 .. MaxRequests]
      BY <2>1
    <2>3. mine \in Seq(1 .. MaxRequests) /\ Len(mine) = Len(order)
      BY <1>6, <2>2
    <2> QED
      BY <2>3
  <1>10. \A n \in 1 .. Len(new) : new[n].desk = "heal"
    BY <1>8 DEF New
  <1> HIDE DEF new, mine
  <1>11. old + Len(new) <= MaxRequests
    BY <1>5, <1>7, <1>8
  <1>12. /\ requests' \in Seq(Request) /\ Len(requests') <= MaxRequests
         /\ HandsAreApart' /\ RunsAreCounted'
         /\ \A k \in 1 .. old : requests'[k] = requests[k] /\ k \in 1 .. Len(requests')
         /\ \A n \in 1 .. Len(new) : /\ requests'[old + n] = new[n]
                                     /\ old + n \in 1 .. Len(requests')
    BY <1>7, <1>8, <1>11, RequestsGrow
  <1>13. /\ batch' \in [Crew -> Seq(1 .. MaxRequests)] /\ batch'[c] = mine
         /\ \A d \in Crew : d # c => batch'[d] = batch[d]
    BY <1>1, <1>7, <1>9 DEF ReTables
  <1>14. ReTables'
    BY <1>1, <1>7, <1>12, <1>13 DEF ReTables
  <1>15. \A d \in Crew : d # c => \A m \in 1 .. Len(batch[d]) : batch[d][m] \in 1 .. old
    BY DEF ReInv, BatchesAreApart
  <1>16. BatchesAreApart'
    <2> SUFFICES ASSUME NEW d \in Crew, NEW n \in 1 .. Len(batch'[d])
                 PROVE  /\ batch'[d][n] \in 1 .. Len(requests')
                        /\ requests'[batch'[d][n]].desk = "heal" =>
                              /\ requests'[batch'[d][n]].status = "pending"
                              /\ \A e \in Crew : \A m \in 1 .. Len(batch'[e]) :
                                    batch'[e][m] = batch'[d][n] => e = d /\ m = n
      BY DEF BatchesAreApart
    <2>1. CASE d = c
      <3>1. /\ n \in 1 .. Len(mine) /\ batch'[d][n] = old + n /\ n \in 1 .. Len(new)
            /\ n \in Nat \ {0}
        BY <1>8, <1>9, <1>13, <2>1
      <3>2. requests'[batch'[d][n]] = new[n] /\ batch'[d][n] \in 1 .. Len(requests')
        BY <1>12, <3>1
      <3>3. ASSUME NEW e \in Crew, NEW m \in 1 .. Len(batch'[e]), batch'[e][m] = batch'[d][n]
            PROVE  e = d /\ m = n
        <4>1. CASE e = c
          <5>1. m \in 1 .. Len(mine) /\ old + m = old + n /\ m \in Nat
            BY <1>8, <1>9, <1>13, <3>1, <3>3, <4>1
          <5> QED
            BY <1>1, <2>1, <3>1, <4>1, <5>1
        <4>2. CASE e # c
          <5>1. batch'[e][m] \in 1 .. old
            BY <1>13, <1>15, <4>2
          <5> QED
            BY <1>1, <3>1, <3>3, <5>1
        <4> QED
          BY <4>1, <4>2
      <3> QED
        BY <1>8, <3>1, <3>2, <3>3
    <2>2. CASE d # c
      <3>1. batch'[d] = batch[d] /\ batch[d][n] \in 1 .. old /\ n \in 1 .. Len(batch[d])
        BY <1>13, <1>15, <2>2
      <3>2. requests'[batch[d][n]] = requests[batch[d][n]] /\ batch[d][n] \in 1 .. Len(requests')
        BY <1>12, <3>1
      <3>3. ASSUME requests[batch[d][n]].desk = "heal",
                   NEW e \in Crew, NEW m \in 1 .. Len(batch'[e]), batch'[e][m] = batch[d][n]
            PROVE  e = d /\ m = n
        <4>1. CASE e = c
          <5>1. m \in 1 .. Len(mine) /\ batch'[e][m] = old + m
            BY <1>9, <1>13, <4>1
          <5> QED
            BY <1>1, <1>9, <3>1, <3>3, <5>1
        <4>2. CASE e # c
          <5>1. batch'[e] = batch[e] /\ m \in 1 .. Len(batch[e])
            BY <1>13, <4>2
          <5> QED
            BY <3>1, <3>3, <5>1 DEF ReInv, BatchesAreApart
        <4> QED
          BY <4>1, <4>2
      <3>4. requests[batch[d][n]].desk = "heal" => requests[batch[d][n]].status = "pending"
        BY <3>1 DEF ReInv, BatchesAreApart
      <3> QED
        BY <3>1, <3>2, <3>3, <3>4
    <2> QED
      BY <2>1, <2>2
  <1> QED
    BY <1>12, <1>14, <1>16 DEF ReInv

\* The other desks' batches hold no request of the healing system.
LEMMA CollectPendingHolds ==
    ASSUME ReInv, NEW c \in Crew, NEW d \in Desk, CollectPending(c, d)
    PROVE  ReInv'
  <1> DEFINE all == [i \in 1 .. Len(requests) |-> i]
             mylist == Selection(all, Pending(d))
             key == [i \in 1 .. Len(requests) |->
                        IF d = "rebuild" THEN 0 - Urgency[requests[i].id] ELSE 0]
             mine == StablySorted(mylist, key)
  <1>1. /\ ReTables /\ Len(requests) \in Nat /\ DOMAIN requests = 1 .. Len(requests)
        /\ \A k \in 1 .. Len(requests) : requests[k].id \in RepairId /\ k \in 1 .. MaxRequests
    BY RequestList DEF ReInv
  <1>2. /\ batch[c] = <<>> /\ d # "heal" /\ batch' = [batch EXCEPT ![c] = mine]
        /\ UNCHANGED <<requests, inHand, repairing>>
    BY <1>1 DEF CollectPending, FreeHands
  <1>3. all \in Seq(1 .. Len(requests))
    BY <1>1
  <1>4. mylist \in Seq((1 .. Len(requests)) \cap Pending(d))
    <2> HIDE DEF all
    <2> QED
      BY <1>3, SelectionType
  <1>5. \A i \in (1 .. Len(requests)) \cap Pending(d) : key[i] \in Int
    BY <1>1, RepairsAssumption
  <1>6. mine \in Seq((1 .. Len(requests)) \cap Pending(d))
    <2> HIDE DEF mylist, key
    <2> QED
      BY <1>4, <1>5, SortPermutes
  <1> HIDE DEF mine
  <1>7. /\ mine \in Seq(1 .. MaxRequests)
        /\ \A n \in 1 .. Len(mine) : mine[n] \in 1 .. Len(requests) /\ requests[mine[n]].desk = d
    <2>1. \A n \in 1 .. Len(mine) : mine[n] \in (1 .. Len(requests)) \cap Pending(d)
      BY <1>6
    <2>2. \A i \in (1 .. Len(requests)) \cap Pending(d) :
             i \in 1 .. Len(requests) /\ requests[i].desk = d /\ i \in 1 .. MaxRequests
      BY <1>1 DEF Pending
    <2>3. (1 .. Len(requests)) \cap Pending(d) \subseteq 1 .. MaxRequests
      BY <2>2
    <2>4. mine \in Seq(1 .. MaxRequests)
      <3>1. \A n \in 1 .. Len(mine) : mine[n] \in 1 .. MaxRequests
        BY <2>1, <2>3
      <3> QED
        BY <1>6, <3>1, ListWithin
    <2> QED
      BY <2>1, <2>2, <2>4
  <1>8. /\ batch' \in [Crew -> Seq(1 .. MaxRequests)] /\ batch'[c] = mine
        /\ \A e \in Crew : e # c => batch'[e] = batch[e]
    BY <1>1, <1>2, <1>7 DEF ReTables
  <1>9. ReTables'
    BY <1>1, <1>2, <1>8 DEF ReTables
  <1>10. BatchesAreApart'
    <2> SUFFICES ASSUME NEW e \in Crew, NEW n \in 1 .. Len(batch'[e])
                 PROVE  /\ batch'[e][n] \in 1 .. Len(requests)
                        /\ requests[batch'[e][n]].desk = "heal" =>
                              /\ requests[batch'[e][n]].status = "pending"
                              /\ \A b \in Crew : \A m \in 1 .. Len(batch'[b]) :
                                    batch'[b][m] = batch'[e][n] => b = e /\ m = n
      BY <1>2 DEF BatchesAreApart
    <2>1. CASE e = c
      BY <1>2, <1>7, <1>8, <2>1
    <2>2. CASE e # c
      <3>1. batch'[e] = batch[e] /\ n \in 1 .. Len(batch[e])
        BY <1>8, <2>2
      <3>2. ASSUME requests[batch[e][n]].desk = "heal",
                   NEW b \in Crew, NEW m \in 1 .. Len(batch'[b]), batch'[b][m] = batch[e][n]
            PROVE  b = e /\ m = n
        <4>1. b # c
          BY <1>2, <1>7, <1>8, <3>2
        <4>2. batch'[b] = batch[b]
          BY <1>8, <4>1
        <4> QED
          BY <3>1, <3>2, <4>2 DEF ReInv, BatchesAreApart
      <3> QED
        BY <3>1, <3>2 DEF ReInv, BatchesAreApart
    <2> QED
      BY <2>1, <2>2
  <1>11. HandsAreApart' /\ RunsAreCounted'
    BY <1>2 DEF ReInv, HandsAreApart, RunsAreCounted
  <1> QED
    BY <1>9, <1>10, <1>11 DEF ReInv

\* One request changes its status and is counted as run.
LEMMA RequestSet ==
    ASSUME ReTables, NEW k \in 1 .. Len(requests), NEW r \in Request,
           r.desk = requests[k].desk, requests' = [requests EXCEPT ![k] = r]
    PROVE  /\ requests' \in Seq(Request) /\ Len(requests') = Len(requests) /\ requests'[k] = r
           /\ \A l \in 1 .. Len(requests) : /\ requests'[l].desk = requests[l].desk
                                            /\ l # k => requests'[l] = requests[l]
  <1>1. /\ Len(requests) \in Nat /\ DOMAIN requests = 1 .. Len(requests) /\ requests \in Seq(Request)
        /\ \A l \in 1 .. Len(requests) : requests[l] \in Request
    BY RequestList
  <1>2. \A l \in 1 .. Len(requests) : requests'[l] = IF l = k THEN r ELSE requests[l]
    BY <1>1
  <1>3. requests' \in Seq(Request) /\ Len(requests') = Len(requests)
    <2>1. requests' = [l \in 1 .. Len(requests) |-> requests'[l]]
      BY <1>1
    <2> QED
      BY <1>1, <1>2, <2>1
  <1> QED
    BY <1>2, <1>3

\* A caller drops the first of its batch, or all of it.
LEMMA BatchesShrink ==
    ASSUME ReInv, NEW c \in Crew, NEW t, batch[c] # <<>>, t = <<>> \/ t = Tail(batch[c]),
           batch' = [batch EXCEPT ![c] = t], Len(requests') = Len(requests),
           \A k \in 1 .. Len(requests) : requests'[k].desk = requests[k].desk,
           \A e \in Crew : \A m \in 1 .. Len(batch[e]) :
               \/ e = c /\ m = 1
               \/ requests[batch[e][m]].desk # "heal"
               \/ requests'[batch[e][m]].status = requests[batch[e][m]].status
    PROVE  BatchesAreApart' /\ batch' \in [Crew -> Seq(1 .. MaxRequests)]
  <1>1. ReTables /\ batch[c] \in Seq(1 .. MaxRequests)
    BY DEF ReInv, ReTables
  <1>2. /\ Tail(batch[c]) \in Seq(1 .. MaxRequests) /\ Len(Tail(batch[c])) \in Nat
        /\ \A n \in 1 .. Len(Tail(batch[c])) :
              n + 1 \in 1 .. Len(batch[c]) /\ Tail(batch[c])[n] = batch[c][n + 1]
    BY <1>1, FirstAndRest
  <1>3. t \in Seq(1 .. MaxRequests) /\ Len(t) \in Nat
        /\ \A n \in 1 .. Len(t) : n + 1 \in 1 .. Len(batch[c]) /\ t[n] = batch[c][n + 1]
    <2>1. <<>> \in Seq(1 .. MaxRequests) /\ Len(<<>>) = 0
      OBVIOUS
    <2>2. CASE t = <<>>
      BY <2>1, <2>2
    <2>3. CASE t = Tail(batch[c])
      BY <1>2, <2>3
    <2> QED
      BY <2>2, <2>3
  <1>4. /\ batch' \in [Crew -> Seq(1 .. MaxRequests)] /\ batch'[c] = t
        /\ \A e \in Crew : e # c => batch'[e] = batch[e]
    BY <1>1, <1>3 DEF ReTables
  <1>5. \A e \in Crew : \A m \in 1 .. Len(batch'[e]) :
           \E n \in 1 .. Len(batch[e]) : /\ batch'[e][m] = batch[e][n] /\ ~ (e = c /\ n = 1)
                                         /\ n = IF e = c THEN m + 1 ELSE m
    <2> TAKE e \in Crew
    <2> TAKE m \in 1 .. Len(batch'[e])
    <2>1. CASE e = c
      <3>1. m + 1 \in 1 .. Len(batch[c]) /\ t[m] = batch[c][m + 1] /\ m + 1 # 1
        BY <1>3, <1>4, <2>1
      <3> QED
        BY <1>4, <2>1, <3>1
    <2>2. CASE e # c
      BY <1>4, <2>2
    <2> QED
      BY <2>1, <2>2
  <1>6. BatchesAreApart'
    <2> SUFFICES ASSUME NEW e \in Crew, NEW m \in 1 .. Len(batch'[e])
                 PROVE  /\ batch'[e][m] \in 1 .. Len(requests')
                        /\ requests'[batch'[e][m]].desk = "heal" =>
                              /\ requests'[batch'[e][m]].status = "pending"
                              /\ \A b \in Crew : \A j \in 1 .. Len(batch'[b]) :
                                    batch'[b][j] = batch'[e][m] => b = e /\ j = m
      BY DEF BatchesAreApart
    <2>1. PICK n \in 1 .. Len(batch[e]) : /\ batch'[e][m] = batch[e][n] /\ ~ (e = c /\ n = 1)
                                          /\ n = IF e = c THEN m + 1 ELSE m
      BY <1>5
    <2>2. batch[e][n] \in 1 .. Len(requests)
      BY DEF ReInv, BatchesAreApart
    <2>3. requests'[batch[e][n]].desk = requests[batch[e][n]].desk
      BY <2>2
    <2>4. ASSUME requests[batch[e][n]].desk = "heal"
          PROVE  /\ requests'[batch[e][n]].status = "pending"
                 /\ \A b \in Crew : \A i \in 1 .. Len(batch[b]) :
                       batch[b][i] = batch[e][n] => b = e /\ i = n
      <3>1. /\ requests[batch[e][n]].status = "pending"
            /\ \A b \in Crew : \A i \in 1 .. Len(batch[b]) :
                  batch[b][i] = batch[e][n] => b = e /\ i = n
        BY <2>4 DEF ReInv, BatchesAreApart
      <3>2. requests'[batch[e][n]].status = requests[batch[e][n]].status
        BY <2>1, <2>4
      <3> QED
        BY <3>1, <3>2
    <2>5. ASSUME requests[batch[e][n]].desk = "heal",
                 NEW b \in Crew, NEW j \in 1 .. Len(batch'[b]), batch'[b][j] = batch[e][n]
          PROVE  b = e /\ j = m
      <3>1. PICK i \in 1 .. Len(batch[b]) : /\ batch'[b][j] = batch[b][i]
                                            /\ i = IF b = c THEN j + 1 ELSE j
        BY <1>5
      <3>2. b = e /\ i = n
        BY <2>4, <2>5, <3>1
      <3> QED
        BY <2>1, <3>1, <3>2
    <2>6. /\ batch[e][n] \in 1 .. Len(requests')
          /\ requests'[batch[e][n]].desk = "heal" => requests'[batch[e][n]].status = "pending"
      BY <2>2, <2>3, <2>4
    <2>7. ASSUME requests'[batch[e][n]].desk = "heal",
                 NEW b \in Crew, NEW j \in 1 .. Len(batch'[b]), batch'[b][j] = batch[e][n]
          PROVE  b = e /\ j = m
      BY <2>3, <2>5, <2>7
    <2> QED
      BY <2>1, <2>6, <2>7
  <1> QED
    BY <1>4, <1>6

LEMMA FoundIsPending ==
    ASSUME ReInv, NEW c \in Crew, batch[c] # <<>>, NEW k \in Found(Head(batch[c]))
    PROVE  /\ k \in 1 .. Len(requests) /\ requests[k].status = "pending"
           /\ requests[k].desk = requests[Head(batch[c])].desk
           /\ Head(batch[c]) \in 1 .. Len(requests)
           /\ requests[k].desk = "heal" => k = batch[c][1]
           /\ 1 \in 1 .. Len(batch[c])
  <1>1. batch[c] \in Seq(1 .. MaxRequests) /\ DOMAIN requests = 1 .. Len(requests)
    BY RequestList DEF ReInv
  <1>2. Head(batch[c]) = batch[c][1] /\ 1 \in 1 .. Len(batch[c])
    BY <1>1, FirstAndRest
  <1>3. batch[c][1] \in 1 .. Len(requests)
        /\ (requests[batch[c][1]].desk = "heal" => requests[batch[c][1]].status = "pending")
    BY <1>2 DEF ReInv, BatchesAreApart
  <1>4. CASE requests[batch[c][1]].desk = "heal"
    BY <1>2, <1>3, <1>4 DEF Found
  <1>5. CASE requests[batch[c][1]].desk # "heal"
    BY <1>1, <1>2, <1>3, <1>5 DEF Found, Pending
  <1> QED
    BY <1>4, <1>5

LEMMA TakeHolds ==
    ASSUME ReInv, NEW c \in Crew, Take(c)
    PROVE  ReInv'
  <1> DEFINE i == Head(batch[c])
             d == requests[i].desk
  <1>1. /\ ReTables /\ DOMAIN requests = 1 .. Len(requests) /\ Len(requests) \in Nat
        /\ MaxRequests \in Nat /\ Len(requests) <= MaxRequests
        /\ \A k \in 1 .. Len(requests) : /\ requests[k] \in Request /\ k \in 1 .. MaxRequests /\ k # 0
                                         /\ requests[k].desk \in Desk /\ requests[k].id \in RepairId
    BY RequestList DEF ReInv
  <1>2. repairing[c] = 0 /\ batch[c] # <<>>
    BY DEF Take
  <1>3. CASE Found(i) = {} \/ Full(d)
    <2>1. /\ batch' = [batch EXCEPT ![c] = IF d = "rebuild" THEN <<>> ELSE Tail(@)]
          /\ UNCHANGED <<requests, inHand, repairing>>
      BY <1>3 DEF Take
    <2> DEFINE t == IF d = "rebuild" THEN <<>> ELSE Tail(batch[c])
    <2>2. batch' = [batch EXCEPT ![c] = t] /\ (t = <<>> \/ t = Tail(batch[c]))
      BY <2>1
    <2> HIDE DEF t, d, i
    <2>3. BatchesAreApart' /\ batch' \in [Crew -> Seq(1 .. MaxRequests)]
      BY <1>2, <2>1, <2>2, BatchesShrink
    <2>4. ReTables'
      BY <1>1, <2>1, <2>3 DEF ReTables
    <2>5. HandsAreApart' /\ RunsAreCounted'
      BY <2>1 DEF ReInv, HandsAreApart, RunsAreCounted
    <2> QED
      BY <2>3, <2>4, <2>5 DEF ReInv
  <1>4. CASE ~ (Found(i) = {} \/ Full(d))
    <2>1. PICK k \in Found(i) :
              /\ requests' = [requests EXCEPT ![k].status = "executing", ![k].runs = @ + 1]
              /\ inHand' = [inHand EXCEPT ![d] = @ \cup {requests[k].id}]
              /\ batch' = [batch EXCEPT ![c] = Tail(@)]
              /\ repairing' = [repairing EXCEPT ![c] = k]
      BY <1>4 DEF Take
    <2>2. /\ k \in 1 .. Len(requests) /\ requests[k].status = "pending"
          /\ requests[k].desk = d /\ d \in Desk /\ requests[k].id \in RepairId
          /\ requests[k].desk = "heal" => k = batch[c][1]
          /\ k \in 1 .. MaxRequests /\ k # 0 /\ requests[k] \in Request
          /\ 1 \in 1 .. Len(batch[c])
      <3>1. /\ k \in 1 .. Len(requests) /\ requests[k].status = "pending"
            /\ requests[k].desk = requests[Head(batch[c])].desk
            /\ Head(batch[c]) \in 1 .. Len(requests)
            /\ requests[k].desk = "heal" => k = batch[c][1]
            /\ 1 \in 1 .. Len(batch[c])
        BY <1>2, <2>1, FoundIsPending
      <3> QED
        BY <1>1, <3>1
    <2> DEFINE r == [requests[k] EXCEPT !.status = "executing", !.runs = @ + 1]
    <2>3. requests[k].runs = 0
      BY <2>2 DEF ReInv, RunsAreCounted
    <2>4. /\ r \in Request /\ r.desk = d /\ r.runs = 1 /\ r.status = "executing"
      <3>1. 1 \in 0 .. MaxRequests
        BY <1>1, <2>2
      <3>2. r.desk = requests[k].desk /\ r.runs = requests[k].runs + 1 /\ r.status = "executing"
        BY <2>2 DEF Request
      <3>3. requests[k].runs + 1 = 1
        BY <2>3
      <3>4. r = [requests[k] EXCEPT !.status = "executing", !.runs = 1]
        BY <3>3
      <3>5. r \in Request
        BY <2>2, <3>1, <3>4 DEF Request
      <3> QED
        BY <2>2, <3>2, <3>3, <3>5
    <2>5. requests' = [requests EXCEPT ![k] = r]
      BY <1>1, <2>1, <2>2
    <2> HIDE DEF r, i, d
    <2>6. /\ requests' \in Seq(Request) /\ Len(requests') = Len(requests) /\ requests'[k] = r
          /\ \A l \in 1 .. Len(requests) : /\ requests'[l].desk = requests[l].desk
                                           /\ l # k => requests'[l] = requests[l]
      BY <1>1, <2>2, <2>4, <2>5, RequestSet
    <2>7. \A e \in Crew : \A m \in 1 .. Len(batch[e]) :
             \/ e = c /\ m = 1
             \/ requests[batch[e][m]].desk # "heal"
             \/ requests'[batch[e][m]].status = requests[batch[e][m]].status
      <3> SUFFICES ASSUME NEW e \in Crew, NEW m \in 1 .. Len(batch[e]),
                          requests[batch[e][m]].desk = "heal", ~ (e = c /\ m = 1)
                   PROVE  requests'[batch[e][m]].status = requests[batch[e][m]].status
        OBVIOUS
      <3>1. batch[e][m] \in 1 .. Len(requests)
        BY DEF ReInv, BatchesAreApart
      <3>2. batch[e][m] # k
        <4>1. SUFFICES ASSUME batch[e][m] = k PROVE FALSE
          OBVIOUS
        <4>2. k = batch[c][1]
          BY <2>2, <4>1
        <4> QED
          BY <2>2, <4>1, <4>2 DEF ReInv, BatchesAreApart
      <3> QED
        BY <2>6, <3>1, <3>2
    <2>8. BatchesAreApart' /\ batch' \in [Crew -> Seq(1 .. MaxRequests)]
      <3> DEFINE t == Tail(batch[c])
      <3>1. batch' = [batch EXCEPT ![c] = t]
        BY <2>1
      <3>2. t = <<>> \/ t = Tail(batch[c])
        OBVIOUS
      <3> HIDE DEF t
      <3> QED
        BY <1>2, <2>6, <2>7, <3>1, <3>2, BatchesShrink
    <2>9. /\ repairing' \in [Crew -> 0 .. MaxRequests] /\ repairing'[c] = k
          /\ \A e \in Crew : e # c => repairing'[e] = repairing[e]
      BY <1>1, <2>1, <2>2 DEF ReTables
    <2>10. ReTables'
      BY <1>1, <2>1, <2>2, <2>6, <2>8, <2>9 DEF ReTables
    <2>11. \A e \in Crew : repairing[e] # k
      BY <2>2 DEF ReInv, HandsAreApart
    <2>12. HandsAreApart'
      BY <2>2, <2>4, <2>6, <2>9, <2>11 DEF ReInv, HandsAreApart
    <2>13. RunsAreCounted'
      <3> SUFFICES ASSUME NEW l \in 1 .. Len(requests)
                   PROVE  /\ requests'[l].runs \in {0, 1}
                          /\ requests'[l].status = "pending" <=> requests'[l].runs = 0
                          /\ requests'[l].status = "executing" => \E e \in Crew : repairing'[e] = l
        BY <2>6 DEF RunsAreCounted
      <3>1. CASE l = k
        BY <2>4, <2>6, <2>9, <3>1
      <3>2. CASE l # k
        <4>1. requests'[l] = requests[l] /\ l # 0
          BY <1>1, <2>6, <3>2
        <4>2. ASSUME requests[l].status = "executing" PROVE \E e \in Crew : repairing'[e] = l
          BY <1>2, <2>9, <4>1, <4>2 DEF ReInv, RunsAreCounted
        <4> QED
          BY <4>1, <4>2 DEF ReInv, RunsAreCounted
      <3> QED
        BY <3>1, <3>2
    <2> QED
      BY <2>8, <2>10, <2>12, <2>13 DEF ReInv
  <1> QED
    BY <1>3, <1>4

\* A request that is not pending gets another status.
LEMMA OverHolds ==
    ASSUME ReInv, NEW k \in 1 .. Len(requests), requests[k].status # "pending",
           NEW st \in {"completed", "rolled_back"},
           requests' = [requests EXCEPT ![k].status = st], batch' = batch,
           inHand' \in [Desk -> SUBSET RepairId], repairing' \in [Crew -> 0 .. MaxRequests],
           \A c \in Crew : repairing'[c] = IF repairing[c] = k THEN 0 ELSE repairing[c]
    PROVE  ReInv'
  <1> DEFINE r == [requests[k] EXCEPT !.status = st]
  <1>1. /\ ReTables /\ \A l \in 1 .. Len(requests) : requests[l] \in Request /\ l # 0
    BY RequestList DEF ReInv
  <1>2. r \in Request /\ r.desk = requests[k].desk /\ r.status = st /\ r.runs = requests[k].runs
    BY <1>1 DEF Request
  <1>3. requests' = [requests EXCEPT ![k] = r]
    OBVIOUS
  <1> HIDE DEF r
  <1>4. /\ requests' \in Seq(Request) /\ Len(requests') = Len(requests) /\ requests'[k] = r
        /\ \A l \in 1 .. Len(requests) : /\ requests'[l].desk = requests[l].desk
                                         /\ l # k => requests'[l] = requests[l]
    BY <1>1, <1>2, <1>3, RequestSet
  <1>5. ReTables'
    BY <1>1, <1>4 DEF ReTables
  <1>6. BatchesAreApart'
    <2>1. \A e \in Crew : \A m \in 1 .. Len(batch[e]) :
             requests[batch[e][m]].desk = "heal" => batch[e][m] # k
      BY DEF ReInv, BatchesAreApart
    <2> QED
      BY <1>4, <2>1 DEF ReInv, BatchesAreApart
  <1>7. HandsAreApart'
    BY <1>4 DEF ReInv, HandsAreApart
  <1>8. RunsAreCounted'
    <2> SUFFICES ASSUME NEW l \in 1 .. Len(requests)
                 PROVE  /\ requests'[l].runs \in {0, 1}
                        /\ requests'[l].status = "pending" <=> requests'[l].runs = 0
                        /\ requests'[l].status = "executing" => \E e \in Crew : repairing'[e] = l
      BY <1>4 DEF RunsAreCounted
    <2>1. CASE l = k
      BY <1>2, <1>4, <2>1 DEF ReInv, RunsAreCounted
    <2>2. CASE l # k
      <3>1. requests'[l] = requests[l]
        BY <1>4, <2>2
      <3>2. ASSUME requests[l].status = "executing" PROVE \E e \in Crew : repairing'[e] = l
        BY <2>2, <3>2 DEF ReInv, RunsAreCounted
      <3> QED
        BY <3>1, <3>2 DEF ReInv, RunsAreCounted
    <2> QED
      BY <2>1, <2>2
  <1> QED
    BY <1>5, <1>6, <1>7, <1>8 DEF ReInv

LEMMA RepairDoneHolds ==
    ASSUME ReInv, NEW c \in Crew, RepairDone(c)
    PROVE  ReInv'
  <1> DEFINE k == repairing[c]
  <1>1. /\ k # 0 /\ requests' = [requests EXCEPT ![k].status = "completed"]
        /\ inHand' = [inHand EXCEPT ![requests[k].desk] = @ \ {requests[k].id}]
        /\ repairing' = [repairing EXCEPT ![c] = 0] /\ batch' = batch
    BY DEF RepairDone
  <1>2. ReTables /\ 0 \in 0 .. MaxRequests
    BY RepairsAssumption DEF ReInv
  <1>3. /\ k \in 1 .. Len(requests) /\ requests[k].status = "executing"
        /\ \A e \in Crew : repairing[e] = k => e = c
    BY <1>1 DEF ReInv, HandsAreApart
  <1>4. inHand' \in [Desk -> SUBSET RepairId] /\ repairing' \in [Crew -> 0 .. MaxRequests]
    BY <1>1, <1>2 DEF ReTables
  <1>5. \A e \in Crew : repairing'[e] = IF repairing[e] = k THEN 0 ELSE repairing[e]
    BY <1>1, <1>2, <1>3 DEF ReTables
  <1> HIDE DEF k
  <1> QED
    BY <1>1, <1>3, <1>4, <1>5, OverHolds

LEMMA RollbackHolds ==
    ASSUME ReInv, NEW id \in RepairId, Rollback(id)
    PROVE  ReInv'
  <1>1. DOMAIN requests = 1 .. Len(requests)
    BY RequestList DEF ReInv
  <1>2. PICK k \in DOMAIN requests : /\ requests[k].status = "completed"
                                     /\ requests' = [requests EXCEPT ![k].status = "rolled_back"]
    BY DEF Rollback
  <1>3. inHand' = inHand /\ batch' = batch /\ repairing' = repairing
    BY DEF Rollback
  <1>4. \A e \in Crew : repairing[e] # k
    BY <1>1, <1>2 DEF ReInv, HandsAreApart
  <1>5. inHand' \in [Desk -> SUBSET RepairId] /\ repairing' \in [Crew -> 0 .. MaxRequests]
    BY <1>3 DEF ReInv, ReTables
  <1>6. \A e \in Crew : repairing'[e] = IF repairing[e] = k THEN 0 ELSE repairing[e]
    BY <1>3, <1>4
  <1> QED
    BY <1>1, <1>2, <1>3, <1>5, <1>6, OverHolds

LEMMA ReInvNext == ReInv /\ [ReNext]_reVars => ReInv'
  <1> SUFFICES ASSUME ReInv, [ReNext]_reVars PROVE ReInv'
    OBVIOUS
  <1>1. ASSUME NEW d \in Desk, NEW id \in RepairId, RequestRepair(d, id) PROVE ReInv'
    BY <1>1, RequestRepairHolds
  <1>2. ASSUME NEW c \in Crew, NEW ids \in SUBSET RepairId, Detect(c, ids) PROVE ReInv'
    BY <1>2, DetectHolds
  <1>3. ASSUME NEW c \in Crew, NEW d \in Desk, CollectPending(c, d) PROVE ReInv'
    BY <1>3, CollectPendingHolds
  <1>4. ASSUME NEW c \in Crew, Take(c) PROVE ReInv'
    BY <1>4, TakeHolds
  <1>5. ASSUME NEW c \in Crew, RepairDone(c) PROVE ReInv'
    BY <1>5, RepairDoneHolds
  <1>6. ASSUME NEW id \in RepairId, Rollback(id) PROVE ReInv'
    BY <1>6, RollbackHolds
  <1>7. CASE UNCHANGED reVars
    BY <1>7 DEF reVars, ReInv, ReTables, BatchesAreApart, HandsAreApart, RunsAreCounted
  <1> QED
    BY <1>1, <1>2, <1>3, <1>4, <1>5, <1>6, <1>7 DEF ReNext

-----------------------------------------------------------------------------
(* Failover of continents *)

OutageRecord == [id : OutageId, affected : SUBSET Province, targets : SUBSET Province,
                 status : {"detected", "isolating", "recovered"}]
Rerouting == [report : Telemetry \cup {Resting.report}, todo : Seq(OutageId),
              at : 0 .. MaxEvents, sent : BOOLEAN]

Twin(k) == \E l \in 1 .. Len(outages) : l # k /\ outages[l].id = outages[k].id

CfTables ==
    /\ outages \in Seq(OutageRecord) /\ Len(outages) <= MaxEvents
    /\ listed \in [OutageId -> 0 .. MaxEvents] /\ rerouting \in [Rerouter -> Rerouting]
    /\ second \in 0 .. MaxSeconds /\ failovers \in Nat
    /\ \A i \in OutageId : listed[i] # 0 =>
          listed[i] \in 1 .. Len(outages) /\ outages[listed[i]].id = i
    /\ \A c \in Rerouter : /\ rerouting[c].at \in 0 .. Len(outages)
                           /\ rerouting[c].at = 0 => ~rerouting[c].sent

\* Whoever sets an event back to isolating has it in hand until it is recovered, and one that
\* was never taken up is still listed, unless a later one of its id has taken its entry.
OutagesInHand ==
    \A k \in 1 .. Len(outages) :
        /\ outages[k].status = "isolating" =>
              \E c \in Rerouter : rerouting[c].at = k /\ ~rerouting[c].sent
        /\ outages[k].status = "detected" =>
              /\ \A c \in Rerouter : rerouting[c].at # k
              /\ listed[outages[k].id] = k \/ Twin(k)

LetGo == {k \in 1 .. Len(outages) : /\ outages[k].status = "recovered"
                                    /\ \A c \in Rerouter : rerouting[c].at # k}

CfInv == CfTables /\ OutagesInHand /\ failovers >= Cardinality(LetGo)

LEMMA OutageList ==
    ASSUME CfTables
    PROVE  /\ Len(outages) \in Nat /\ DOMAIN outages = 1 .. Len(outages)
           /\ outages \in Seq(OutageRecord) /\ Len(outages) <= MaxEvents /\ MaxEvents \in Nat
           /\ \A k \in 1 .. Len(outages) :
                 /\ outages[k] \in OutageRecord /\ outages[k].id \in OutageId
                 /\ outages[k].status \in {"detected", "isolating", "recovered"}
                 /\ k # 0 /\ k \in 0 .. MaxEvents
           /\ \A c \in Rerouter : /\ rerouting[c] \in Rerouting /\ rerouting[c].at \in 0 .. MaxEvents
                                  /\ rerouting[c].todo \in Seq(OutageId)
  <1>1. /\ Len(outages) \in Nat /\ DOMAIN outages = 1 .. Len(outages) /\ outages \in Seq(OutageRecord)
        /\ \A k \in 1 .. Len(outages) : outages[k] \in OutageRecord
    BY DEF CfTables
  <1>2. \A o \in OutageRecord : o.id \in OutageId /\ o.status \in {"detected", "isolating", "recovered"}
    BY DEF OutageRecord
  <1>3. Len(outages) <= MaxEvents /\ MaxEvents \in Nat
    BY ContinentAssumption DEF CfTables
  <1>4. \A q \in Rerouting : q.at \in 0 .. MaxEvents /\ q.todo \in Seq(OutageId)
    BY DEF Rerouting
  <1>5. \A c \in Rerouter : rerouting[c] \in Rerouting
    BY DEF CfTables
  <1> QED
    BY <1>1, <1>2, <1>3, <1>4, <1>5

LEMMA LetGoIsFinite ==
    ASSUME CfTables
    PROVE  /\ IsFiniteSet(LetGo) /\ Cardinality(LetGo) \in Nat
           /\ \A T \in SUBSET LetGo : Cardinality(T) \in Nat /\ Cardinality(T) <= Cardinality(LetGo)
  <1>1. IsFiniteSet(1 .. Len(outages))
    BY OutageList, FS_Interval
  <1>2. LetGo \in SUBSET (1 .. Len(outages))
    BY DEF LetGo
  <1>3. IsFiniteSet(LetGo) /\ Cardinality(LetGo) \in Nat
    BY <1>1, <1>2, Fewer
  <1> QED
    BY <1>3, Fewer

LEMMA CfInvImplies == CfInv => ContinentTypeOK /\ OutagesAreCarriedOut
  <1> SUFFICES ASSUME CfInv PROVE ContinentTypeOK /\ OutagesAreCarriedOut
    OBVIOUS
  <1>1. CfTables /\ DOMAIN outages = 1 .. Len(outages)
        /\ \A k \in 1 .. Len(outages) : outages[k].status \in {"detected", "isolating", "recovered"}
    BY OutageList DEF CfInv
  <1>2. ContinentTypeOK
    <2>1. \A c \in Rerouter : /\ rerouting[c].report \in Telemetry \cup {Resting.report}
                              /\ rerouting[c].todo \in Seq(OutageId)
                              /\ rerouting[c].at \in 0 .. Len(outages) /\ rerouting[c].sent \in BOOLEAN
      BY <1>1 DEF CfTables, Rerouting
    <2> QED
      BY <1>1, <2>1 DEF CfTables, ContinentTypeOK, OutageRecord
  <1>3. OutagesAreCarriedOut
    <2> DEFINE taken == {rerouting[c].at : c \in Rerouter}
    <2>1. \A k \in 1 .. Len(outages) :
             \/ outages[k].status = "recovered"
             \/ listed[outages[k].id] = k
             \/ k \in taken
             \/ \E l \in 1 .. Len(outages) : l # k /\ outages[l].id = outages[k].id
      BY <1>1 DEF CfInv, OutagesInHand, Twin
    <2>2. {k \in (1 .. Len(outages)) \ taken : outages[k].status = "recovered"} = LetGo
      BY DEF LetGo
    <2> QED
      BY <1>1, <2>1, <2>2 DEF CfInv, OutagesAreCarriedOut
  <1> QED
    BY <1>2, <1>3

LEMMA RestingRests ==
    Resting \in Rerouting /\ Resting.at = 0 /\ Resting.todo = <<>> /\ ~Resting.sent
  <1>1. <<>> \in Seq(OutageId) /\ 0 \in 0 .. MaxEvents
    BY ContinentAssumption
  <1> QED
    BY <1>1 DEF Resting, Rerouting

LEMMA CfInvInit == CfInit => CfInv
  <1> SUFFICES ASSUME CfInit PROVE CfInv
    OBVIOUS
  <1>1. Len(outages) = 0 /\ outages \in Seq(OutageRecord) /\ 0 \in 0 .. MaxEvents
        /\ 0 \in 0 .. MaxSeconds /\ 0 <= MaxEvents
    BY ContinentAssumption DEF CfInit
  <1>2. CfTables
    BY <1>1, RestingRests DEF CfInit, CfTables
  <1>3. OutagesInHand
    BY <1>1 DEF OutagesInHand
  <1>4. LetGo = {}
    BY <1>1 DEF LetGo
  <1>5. failovers >= Cardinality(LetGo)
    BY <1>4, FS_EmptySet DEF CfInit
  <1> QED
    BY <1>2, <1>3, <1>5 DEF CfInv

\* A caller that holds no event starts or ends a round.
LEMMA CallerIdles ==
    ASSUME CfInv, NEW c \in Rerouter, NEW q \in Rerouting, q.at = 0, ~q.sent,
           rerouting[c].at = 0, rerouting' = [rerouting EXCEPT ![c] = q],
           UNCHANGED <<outages, listed, second, failovers>>
    PROVE  CfInv'
  <1>1. CfTables /\ \A k \in 1 .. Len(outages) : k # 0
    BY OutageList DEF CfInv
  <1>2. /\ rerouting' \in [Rerouter -> Rerouting] /\ rerouting'[c] = q
        /\ \A e \in Rerouter : e # c => rerouting'[e] = rerouting[e]
        /\ \A e \in Rerouter : rerouting'[e].at = rerouting[e].at
    BY <1>1 DEF CfTables
  <1>3. CfTables'
    BY <1>1, <1>2 DEF CfTables
  <1>4. OutagesInHand'
    <2> SUFFICES ASSUME NEW k \in 1 .. Len(outages)
                 PROVE  /\ outages[k].status = "isolating" =>
                              \E e \in Rerouter : rerouting'[e].at = k /\ ~rerouting'[e].sent
                        /\ outages[k].status = "detected" =>
                              /\ \A e \in Rerouter : rerouting'[e].at # k
                              /\ listed[outages[k].id] = k \/ Twin(k)
      BY DEF OutagesInHand, Twin
    <2>1. ASSUME outages[k].status = "isolating"
          PROVE  \E e \in Rerouter : rerouting'[e].at = k /\ ~rerouting'[e].sent
      <3>1. PICK e \in Rerouter : rerouting[e].at = k /\ ~rerouting[e].sent
        BY <2>1 DEF CfInv, OutagesInHand
      <3>2. e # c
        BY <1>1, <3>1
      <3> QED
        BY <1>2, <3>1, <3>2
    <2> QED
      BY <1>2, <2>1 DEF CfInv, OutagesInHand
  <1>5. LetGo' = LetGo
    BY <1>2 DEF LetGo
  <1> QED
    BY <1>3, <1>4, <1>5 DEF CfInv

LEMMA AskFailoverHolds ==
    ASSUME CfInv, NEW c \in Rerouter, NEW i \in OutageId, NEW t \in Telemetry, AskFailover(c, i, t)
    PROVE  CfInv'
  <1> DEFINE q == [report |-> t, todo |-> <<i>>, at |-> 0, sent |-> FALSE]
  <1>1. 0 \in 0 .. MaxEvents /\ <<i>> \in Seq(OutageId)
    BY ContinentAssumption
  <1>2. q \in Rerouting /\ q.at = 0 /\ ~q.sent
    BY <1>1 DEF Rerouting
  <1>3. /\ rerouting[c].at = 0 /\ rerouting' = [rerouting EXCEPT ![c] = q]
        /\ UNCHANGED <<outages, listed, second, failovers>>
    BY RestingRests DEF AskFailover
  <1> HIDE DEF q
  <1> QED
    BY <1>2, <1>3, CallerIdles

LEMMA CallerRestsHolds ==
    ASSUME CfInv, NEW c \in Rerouter, CallerRests(c)
    PROVE  CfInv'
  <1>1. /\ rerouting[c].at = 0 /\ rerouting' = [rerouting EXCEPT ![c] = Resting]
        /\ UNCHANGED <<outages, listed, second, failovers>>
    BY DEF CallerRests
  <1> QED
    BY <1>1, RestingRests, CallerIdles

\* One event changes, but for its id.
LEMMA OutageSet ==
    ASSUME CfTables, NEW k \in 1 .. Len(outages), NEW o \in OutageRecord, o.id = outages[k].id,
           outages' = [outages EXCEPT ![k] = o]
    PROVE  /\ outages' \in Seq(OutageRecord) /\ Len(outages') = Len(outages) /\ outages'[k] = o
           /\ \A l \in 1 .. Len(outages) : /\ outages'[l].id = outages[l].id
                                           /\ l # k => outages'[l] = outages[l]
           /\ \A l \in 1 .. Len(outages) : Twin(l)' <=> Twin(l)
  <1>1. /\ Len(outages) \in Nat /\ DOMAIN outages = 1 .. Len(outages) /\ outages \in Seq(OutageRecord)
        /\ \A l \in 1 .. Len(outages) : outages[l] \in OutageRecord
    BY OutageList
  <1>2. \A l \in 1 .. Len(outages) : outages'[l] = IF l = k THEN o ELSE outages[l]
    BY <1>1
  <1>3. outages' \in Seq(OutageRecord) /\ Len(outages') = Len(outages)
    <2>1. outages' = [l \in 1 .. Len(outages) |-> outages'[l]]
      BY <1>1
    <2> QED
      BY <1>1, <1>2, <2>1
  <1>4. \A l \in 1 .. Len(outages) : Twin(l)' <=> Twin(l)
    BY <1>2, <1>3 DEF Twin
  <1> QED
    BY <1>2, <1>3, <1>4

\* A caller takes up the event that the id stands for, if any.
LEMMA IsolateHolds ==
    ASSUME CfInv, NEW c \in Rerouter, Isolate(c)
    PROVE  CfInv'
  <1> DEFINE i == Head(rerouting[c].todo)
             k == listed[i]
             q == [rerouting[c] EXCEPT !.at = k, !.todo = Tail(rerouting[c].todo)]
  <1>1. /\ CfTables /\ DOMAIN outages = 1 .. Len(outages) /\ Len(outages) \in Nat
        /\ outages \in Seq(OutageRecord)
        /\ \A l \in 1 .. Len(outages) : /\ outages[l] \in OutageRecord /\ l # 0
        /\ rerouting[c] \in Rerouting /\ rerouting[c].todo \in Seq(OutageId)
    BY OutageList DEF CfInv
  <1>2. /\ rerouting[c].at = 0 /\ rerouting[c].todo # <<>>
        /\ rerouting' = [rerouting EXCEPT ![c].at = k, ![c].todo = Tail(rerouting[c].todo)]
        /\ outages' = [l \in 1 .. Len(outages) |->
              IF l = k THEN [outages[l] EXCEPT !.status = "isolating"] ELSE outages[l]]
        /\ UNCHANGED <<listed, second, failovers>>
    BY <1>1 DEF Isolate
  <1>3. i \in OutageId /\ Tail(rerouting[c].todo) \in Seq(OutageId)
    BY <1>1, <1>2, FirstAndRest
  <1>4. k \in 0 .. MaxEvents /\ (k # 0 => k \in 1 .. Len(outages)) /\ ~rerouting[c].sent
    BY <1>1, <1>2, <1>3 DEF CfTables
  <1>5. q \in Rerouting /\ q.at = k /\ q.sent = rerouting[c].sent /\ ~q.sent
    BY <1>1, <1>3, <1>4 DEF Rerouting
  <1>6. rerouting' = [rerouting EXCEPT ![c] = q]
    BY <1>1, <1>2
  <1> HIDE DEF q, k, i
  <1>7. /\ rerouting' \in [Rerouter -> Rerouting] /\ rerouting'[c] = q
        /\ \A e \in Rerouter : e # c => rerouting'[e] = rerouting[e]
    BY <1>1, <1>5, <1>6 DEF CfTables
  <1>8. CASE k = 0
    <2>1. outages' = outages
      BY <1>1, <1>2, <1>8
    <2> QED
      BY <1>2, <1>5, <1>6, <1>8, <2>1, CallerIdles
  <1>9. CASE k # 0
    <2> DEFINE o == [outages[k] EXCEPT !.status = "isolating"]
    <2>1. o \in OutageRecord /\ o.id = outages[k].id /\ o.status = "isolating"
      BY <1>1, <1>4, <1>9 DEF OutageRecord
    <2>2. outages' = [outages EXCEPT ![k] = o]
      BY <1>1, <1>2
    <2> HIDE DEF o
    <2>3. /\ outages' \in Seq(OutageRecord) /\ Len(outages') = Len(outages) /\ outages'[k] = o
          /\ \A l \in 1 .. Len(outages) : /\ outages'[l].id = outages[l].id
                                          /\ l # k => outages'[l] = outages[l]
          /\ \A l \in 1 .. Len(outages) : Twin(l)' <=> Twin(l)
      BY <1>1, <1>4, <1>9, <2>1, <2>2, OutageSet
    <2>4. CfTables'
      <3>1. \A j \in OutageId : listed'[j] # 0 =>
               listed'[j] \in 1 .. Len(outages') /\ outages'[listed'[j]].id = j
        BY <1>1, <1>2, <2>3 DEF CfTables
      <3>2. \A e \in Rerouter : /\ rerouting'[e].at \in 0 .. Len(outages')
                                /\ rerouting'[e].at = 0 => ~rerouting'[e].sent
        BY <1>1, <1>4, <1>5, <1>7, <2>3 DEF CfTables
      <3> QED
        BY <1>1, <1>2, <1>7, <2>3, <3>1, <3>2 DEF CfTables
    <2>5. OutagesInHand'
      <3> SUFFICES ASSUME NEW l \in 1 .. Len(outages)
                   PROVE  /\ outages'[l].status = "isolating" =>
                                \E e \in Rerouter : rerouting'[e].at = l /\ ~rerouting'[e].sent
                          /\ outages'[l].status = "detected" =>
                                /\ \A e \in Rerouter : rerouting'[e].at # l
                                /\ listed'[outages'[l].id] = l \/ Twin(l)'
        BY <2>3 DEF OutagesInHand
      <3>1. CASE l = k
        BY <1>5, <1>7, <2>1, <2>3, <3>1
      <3>2. CASE l # k
        <4>1. outages'[l] = outages[l] /\ l # 0 /\ (Twin(l)' <=> Twin(l))
          BY <1>1, <2>3, <3>2
        <4>2. ASSUME outages[l].status = "isolating"
              PROVE  \E e \in Rerouter : rerouting'[e].at = l /\ ~rerouting'[e].sent
          <5>1. PICK e \in Rerouter : rerouting[e].at = l /\ ~rerouting[e].sent
            BY <4>2 DEF CfInv, OutagesInHand
          <5>2. e # c
            BY <1>2, <4>1, <5>1
          <5> QED
            BY <1>7, <5>1, <5>2
        <4>3. ASSUME outages[l].status = "detected"
              PROVE  /\ \A e \in Rerouter : rerouting'[e].at # l
                     /\ listed[outages[l].id] = l \/ Twin(l)
          BY <1>5, <1>7, <3>2, <4>3 DEF CfInv, OutagesInHand
        <4> QED
          BY <1>2, <4>1, <4>2, <4>3
      <3> QED
        BY <3>1, <3>2
    <2>6. LetGo' \in SUBSET LetGo
      <3> SUFFICES ASSUME NEW l \in LetGo' PROVE l \in LetGo
        OBVIOUS
      <3>1. /\ l \in 1 .. Len(outages) /\ outages'[l].status = "recovered"
            /\ \A e \in Rerouter : rerouting'[e].at # l
        BY <2>3 DEF LetGo
      <3>2. l # k /\ l # 0
        BY <1>1, <1>5, <1>7, <3>1
      <3>3. \A e \in Rerouter : rerouting[e].at # l
        BY <1>2, <1>7, <3>1, <3>2
      <3> QED
        BY <2>3, <3>1, <3>2, <3>3 DEF LetGo
    <2>7. failovers' >= Cardinality(LetGo')
      <3>1. Cardinality(LetGo') \in Nat /\ Cardinality(LetGo) \in Nat
            /\ Cardinality(LetGo') <= Cardinality(LetGo)
        BY <1>1, <2>6, LetGoIsFinite
      <3>2. failovers \in Nat /\ failovers >= Cardinality(LetGo) /\ failovers' = failovers
        BY <1>2 DEF CfInv, CfTables
      <3> QED
        BY <3>1, <3>2
    <2> QED
      BY <2>4, <2>5, <2>7 DEF CfInv
  <1> QED
    BY <1>8, <1>9

LEMMA RerouteToHolds ==
    ASSUME CfInv, NEW c \in Rerouter, RerouteTo(c)
    PROVE  CfInv'
  <1> DEFINE k == rerouting[c].at
             T == {p \in Province : /\ LandOf[p] # outages[k].id[2]
                                    /\ "offline" \notin rerouting[c].report[p]}
             o == [outages[k] EXCEPT !.status = "recovered", !.targets = T]
             q == [rerouting[c] EXCEPT !.sent = TRUE]
  <1>1. /\ CfTables /\ DOMAIN outages = 1 .. Len(outages) /\ Len(outages) \in Nat
        /\ \A l \in 1 .. Len(outages) : /\ outages[l] \in OutageRecord /\ l # 0
        /\ rerouting[c] \in Rerouting
    BY OutageList DEF CfInv
  <1>2. /\ k # 0 /\ outages' = [outages EXCEPT ![k].status = "recovered", ![k].targets = T]
        /\ rerouting' = [rerouting EXCEPT ![c].sent = TRUE]
        /\ UNCHANGED <<listed, second, failovers>>
    BY DEF RerouteTo
  <1>3. k \in 1 .. Len(outages)
    BY <1>1, <1>2 DEF CfTables
  <1>4. o \in OutageRecord /\ o.id = outages[k].id /\ o.status = "recovered"
    <2>1. T \in SUBSET Province
      OBVIOUS
    <2> HIDE DEF T
    <2> QED
      BY <1>1, <1>3, <2>1 DEF OutageRecord
  <1>5. outages' = [outages EXCEPT ![k] = o]
    BY <1>1, <1>2, <1>3
  <1>6. q \in Rerouting /\ q.at = k
    BY <1>1 DEF Rerouting
  <1>7. rerouting' = [rerouting EXCEPT ![c] = q]
    BY <1>2
  <1> HIDE DEF q, o, T
  <1>8. /\ rerouting' \in [Rerouter -> Rerouting] /\ rerouting'[c] = q
        /\ \A e \in Rerouter : e # c => rerouting'[e] = rerouting[e]
        /\ \A e \in Rerouter : rerouting'[e].at = rerouting[e].at
    BY <1>1, <1>6, <1>7 DEF CfTables
  <1> HIDE DEF k
  <1>9. /\ outages' \in Seq(OutageRecord) /\ Len(outages') = Len(outages) /\ outages'[k] = o
        /\ \A l \in 1 .. Len(outages) : /\ outages'[l].id = outages[l].id
                                        /\ l # k => outages'[l] = outages[l]
        /\ \A l \in 1 .. Len(outages) : Twin(l)' <=> Twin(l)
    BY <1>1, <1>3, <1>4, <1>5, OutageSet
  <1>10. CfTables'
    <2>1. \A j \in OutageId : listed'[j] # 0 =>
             listed'[j] \in 1 .. Len(outages') /\ outages'[listed'[j]].id = j
      BY <1>1, <1>2, <1>9 DEF CfTables
    <2>2. \A e \in Rerouter : /\ rerouting'[e].at \in 0 .. Len(outages')
                              /\ rerouting'[e].at = 0 => ~rerouting'[e].sent
      BY <1>1, <1>2, <1>6, <1>8, <1>9 DEF CfTables, k
    <2> QED
      BY <1>1, <1>2, <1>8, <1>9, <2>1, <2>2 DEF CfTables
  <1>11. OutagesInHand'
    <2> SUFFICES ASSUME NEW l \in 1 .. Len(outages)
                 PROVE  /\ outages'[l].status = "isolating" =>
                              \E e \in Rerouter : rerouting'[e].at = l /\ ~rerouting'[e].sent
                        /\ outages'[l].status = "detected" =>
                              /\ \A e \in Rerouter : rerouting'[e].at # l
                              /\ listed'[outages'[l].id] = l \/ Twin(l)'
      BY <1>9 DEF OutagesInHand
    <2>1. CASE l = k
      BY <1>4, <1>9, <2>1
    <2>2. CASE l # k
      <3>1. outages'[l] = outages[l] /\ (Twin(l)' <=> Twin(l))
        BY <1>9, <2>2
      <3>2. ASSUME outages[l].status = "isolating"
            PROVE  \E e \in Rerouter : rerouting'[e].at = l /\ ~rerouting'[e].sent
        <4>1. PICK e \in Rerouter : rerouting[e].at = l /\ ~rerouting[e].sent
          BY <3>2 DEF CfInv, OutagesInHand
        <4>2. e # c
          BY <2>2, <4>1 DEF k
        <4> QED
          BY <1>8, <4>1, <4>2
      <3>3. ASSUME outages[l].status = "detected"
            PROVE  /\ \A e \in Rerouter : rerouting'[e].at # l
                   /\ listed[outages[l].id] = l \/ Twin(l)
        BY <1>8, <3>3 DEF CfInv, OutagesInHand
      <3> QED
        BY <1>2, <3>1, <3>2, <3>3
    <2> QED
      BY <2>1, <2>2
  <1>12. LetGo' \in SUBSET LetGo
    <2> SUFFICES ASSUME NEW l \in LetGo' PROVE l \in LetGo
      OBVIOUS
    <2>1. /\ l \in 1 .. Len(outages) /\ outages'[l].status = "recovered"
          /\ \A e \in Rerouter : rerouting'[e].at # l
      BY <1>9 DEF LetGo
    <2>2. l # k
      BY <1>6, <1>8, <2>1
    <2> QED
      BY <1>8, <1>9, <2>1, <2>2 DEF LetGo
  <1>13. failovers' >= Cardinality(LetGo')
    <2>1. Cardinality(LetGo') \in Nat /\ Cardinality(LetGo) \in Nat
          /\ Cardinality(LetGo') <= Cardinality(LetGo)
      BY <1>1, <1>12, LetGoIsFinite
    <2>2. failovers \in Nat /\ failovers >= Cardinality(LetGo) /\ failovers' = failovers
      BY <1>2 DEF CfInv, CfTables
    <2> QED
      BY <2>1, <2>2
  <1> QED
    BY <1>10, <1>11, <1>13 DEF CfInv

\* Whichever event the entry of the id holds by now, it shares the id with the one let go.
LEMMA CountHolds ==
    ASSUME CfInv, NEW c \in Rerouter, Count(c)
    PROVE  CfInv'
  <1> DEFINE k == rerouting[c].at
             q == [rerouting[c] EXCEPT !.at = 0, !.sent = FALSE]
  <1>1. /\ CfTables /\ DOMAIN outages = 1 .. Len(outages) /\ Len(outages) \in Nat
        /\ \A l \in 1 .. Len(outages) : l # 0 /\ outages[l].id \in OutageId
        /\ rerouting[c] \in Rerouting /\ 0 \in 0 .. MaxEvents /\ 0 \in 0 .. Len(outages)
    <2>1. 0 \in 0 .. MaxEvents
      BY ContinentAssumption
    <2> QED
      BY <2>1, OutageList DEF CfInv
  <1>2. /\ k # 0 /\ rerouting[c].sent
        /\ listed' = [listed EXCEPT ![outages[k].id] = 0] /\ failovers' = failovers + 1
        /\ rerouting' = [rerouting EXCEPT ![c].at = 0, ![c].sent = FALSE]
        /\ UNCHANGED <<outages, second>>
    BY DEF Count
  <1>3. k \in 1 .. Len(outages)
    BY <1>1, <1>2 DEF CfTables
  <1>4. q \in Rerouting /\ q.at = 0 /\ ~q.sent
    BY <1>1 DEF Rerouting
  <1>5. rerouting' = [rerouting EXCEPT ![c] = q]
    BY <1>2
  <1> HIDE DEF q, k
  <1>6. /\ rerouting' \in [Rerouter -> Rerouting] /\ rerouting'[c] = q
        /\ \A e \in Rerouter : e # c => rerouting'[e] = rerouting[e]
    BY <1>1, <1>4, <1>5 DEF CfTables
  <1>7. /\ listed' \in [OutageId -> 0 .. MaxEvents]
        /\ \A j \in OutageId : listed'[j] = IF j = outages[k].id THEN 0 ELSE listed[j]
    BY <1>1, <1>2, <1>3 DEF CfTables
  <1>8. CfTables'
    <2>1. \A j \in OutageId : listed'[j] # 0 =>
             listed'[j] \in 1 .. Len(outages') /\ outages'[listed'[j]].id = j
      BY <1>1, <1>2, <1>7 DEF CfTables
    <2>2. \A e \in Rerouter : /\ rerouting'[e].at \in 0 .. Len(outages')
                              /\ rerouting'[e].at = 0 => ~rerouting'[e].sent
      BY <1>1, <1>2, <1>4, <1>6 DEF CfTables
    <2>3. failovers' \in Nat
      BY <1>1, <1>2 DEF CfTables
    <2> QED
      BY <1>1, <1>2, <1>6, <1>7, <2>1, <2>2, <2>3 DEF CfTables
  <1>9. OutagesInHand'
    <2> SUFFICES ASSUME NEW l \in 1 .. Len(outages)
                 PROVE  /\ outages[l].status = "isolating" =>
                              \E e \in Rerouter : rerouting'[e].at = l /\ ~rerouting'[e].sent
                        /\ outages[l].status = "detected" =>
                              /\ \A e \in Rerouter : rerouting'[e].at # l
                              /\ listed'[outages[l].id] = l \/ Twin(l)
      <3>1. outages' = outages
        BY <1>2
      <3>2. \A l \in 1 .. Len(outages) : Twin(l)' <=> Twin(l)
        BY <3>1 DEF Twin
      <3> QED
        BY <3>1, <3>2 DEF OutagesInHand
    <2>1. ASSUME outages[l].status = "isolating"
          PROVE  \E e \in Rerouter : rerouting'[e].at = l /\ ~rerouting'[e].sent
      <3>1. PICK e \in Rerouter : rerouting[e].at = l /\ ~rerouting[e].sent
        BY <2>1 DEF CfInv, OutagesInHand
      <3>2. e # c
        BY <1>2, <3>1
      <3> QED
        BY <1>6, <3>1, <3>2
    <2>2. ASSUME outages[l].status = "detected"
          PROVE  /\ \A e \in Rerouter : rerouting'[e].at # l
                 /\ listed'[outages[l].id] = l \/ Twin(l)
      <3>1. \A e \in Rerouter : rerouting[e].at # l
        BY <2>2 DEF CfInv, OutagesInHand
      <3>2. \A e \in Rerouter : rerouting'[e].at # l
        BY <1>1, <1>4, <1>6, <3>1
      <3>3. l # k /\ (listed[outages[l].id] = l \/ Twin(l))
        BY <2>2, <3>1 DEF CfInv, OutagesInHand, k
      <3>4. outages[l].id = outages[k].id => Twin(l)
        BY <1>3, <3>3 DEF Twin
      <3> QED
        BY <1>1, <1>7, <3>2, <3>3, <3>4
    <2> QED
      BY <2>1, <2>2
  <1>10. LetGo' \in SUBSET (LetGo \cup {k})
    <2> SUFFICES ASSUME NEW l \in LetGo' PROVE l = k \/ l \in LetGo
      OBVIOUS
    <2>1. /\ l \in 1 .. Len(outages) /\ outages[l].status = "recovered"
          /\ \A e \in Rerouter : rerouting'[e].at # l
      BY <1>2 DEF LetGo
    <2>2. \A e \in Rerouter : e # c => rerouting[e].at # l
      BY <1>6, <2>1
    <2>3. rerouting[c].at = k
      BY DEF k
    <2> QED
      BY <2>1, <2>2, <2>3 DEF LetGo
  <1>11. failovers' >= Cardinality(LetGo')
    <2>1. IsFiniteSet(LetGo)
      BY <1>1, LetGoIsFinite
    <2>2. /\ IsFiniteSet(LetGo \cup {k}) /\ Cardinality(LetGo) \in Nat
          /\ Cardinality(LetGo \cup {k}) <= Cardinality(LetGo) + 1 /\ Cardinality(LetGo \cup {k}) \in Nat
      BY <2>1, OneMore
    <2>3. Cardinality(LetGo') \in Nat /\ Cardinality(LetGo') <= Cardinality(LetGo \cup {k})
      BY <1>10, <2>2, Fewer
    <2>4. failovers \in Nat /\ failovers >= Cardinality(LetGo)
      BY DEF CfInv, CfTables
    <2> QED
      BY <1>2, <2>2, <2>3, <2>4
  <1> QED
    BY <1>8, <1>9, <1>11 DEF CfInv

\* New events at the end of the list; the entries of their ids are theirs.
LEMMA OutagesGrow ==
    ASSUME CfInv, NEW c \in Rerouter, NEW new \in Seq(OutageRecord), NEW q \in Rerouting,
           \A n \in 1 .. Len(new) : new[n].status = "detected",
           Len(outages) + Len(new) <= MaxEvents, outages' = outages \o new,
           q.at = 0, ~q.sent, rerouting[c].at = 0, rerouting' = [rerouting EXCEPT ![c] = q],
           listed' \in [OutageId -> 0 .. MaxEvents],
           \A i \in OutageId : \/ /\ listed'[i] = listed[i]
                                  /\ \A n \in 1 .. Len(new) : new[n].id # i
                               \/ \E n \in 1 .. Len(new) : /\ new[n].id = i
                                                           /\ listed'[i] = Len(outages) + n,
           UNCHANGED <<second, failovers>>
    PROVE  CfInv'
  <1> DEFINE old == Len(outages)
  <1>1. /\ CfTables /\ outages \in Seq(OutageRecord) /\ old \in Nat
        /\ \A l \in 1 .. old : l # 0 /\ outages[l].id \in OutageId
    BY OutageList DEF CfInv
  <1>2. /\ outages' \in Seq(OutageRecord) /\ Len(outages') = old + Len(new) /\ Len(new) \in Nat
        /\ \A l \in 1 .. old : outages'[l] = outages[l] /\ l \in 1 .. Len(outages')
        /\ \A n \in 1 .. Len(new) : outages'[old + n] = new[n] /\ old + n \in 1 .. Len(outages')
        /\ \A l \in 1 .. Len(outages') : l \in 1 .. old \/ \E n \in 1 .. Len(new) : l = old + n
    BY <1>1, Joining
  <1>3. \A n \in 1 .. Len(new) : new[n].id \in OutageId /\ old + n \notin 0 .. old
    <2>1. \A n \in 1 .. Len(new) : new[n] \in OutageRecord /\ n \in Nat \ {0}
      BY <1>2
    <2> QED
      BY <1>1, <2>1 DEF OutageRecord
  <1> HIDE DEF old
  <1>4. /\ rerouting' \in [Rerouter -> Rerouting] /\ rerouting'[c] = q
        /\ \A e \in Rerouter : e # c => rerouting'[e] = rerouting[e]
        /\ \A e \in Rerouter : rerouting'[e].at = rerouting[e].at
    BY <1>1 DEF CfTables
  <1>5. CfTables'
    <2>1. \A i \in OutageId : listed'[i] # 0 =>
             listed'[i] \in 1 .. Len(outages') /\ outages'[listed'[i]].id = i
      <3> TAKE i \in OutageId
      <3>1. CASE listed'[i] = listed[i]
        BY <1>1, <1>2, <3>1 DEF CfTables, old
      <3>2. ASSUME NEW n \in 1 .. Len(new), new[n].id = i, listed'[i] = old + n
            PROVE  listed'[i] \in 1 .. Len(outages') /\ outages'[listed'[i]].id = i
        BY <1>2, <3>2
      <3> QED
        BY <3>1, <3>2 DEF old
    <2>2. \A e \in Rerouter : /\ rerouting'[e].at \in 0 .. Len(outages')
                              /\ rerouting'[e].at = 0 => ~rerouting'[e].sent
      <3> TAKE e \in Rerouter
      <3>1. rerouting[e].at \in 0 .. old
        BY <1>1 DEF CfTables, old
      <3>2. rerouting'[e].at \in 0 .. Len(outages')
        BY <1>1, <1>2, <1>4, <3>1
      <3> QED
        BY <1>1, <1>4, <3>2 DEF CfTables
    <2> QED
      BY <1>1, <1>2, <1>4, <2>1, <2>2 DEF CfTables, old
  <1>6. \A l \in 1 .. old : (Twin(l) => Twin(l)')
    BY <1>2 DEF Twin, old
  <1>7. OutagesInHand'
    <2> SUFFICES ASSUME NEW l \in 1 .. Len(outages')
                 PROVE  /\ outages'[l].status = "isolating" =>
                              \E e \in Rerouter : rerouting'[e].at = l /\ ~rerouting'[e].sent
                        /\ outages'[l].status = "detected" =>
                              /\ \A e \in Rerouter : rerouting'[e].at # l
                              /\ listed'[outages'[l].id] = l \/ Twin(l)'
      BY DEF OutagesInHand
    <2>1. ASSUME NEW n \in 1 .. Len(new), l = old + n
          PROVE  /\ outages'[l].status = "detected"
                 /\ \A e \in Rerouter : rerouting'[e].at # l
                 /\ listed'[outages'[l].id] = l \/ Twin(l)'
      <3>1. outages'[l] = new[n] /\ new[n].id \in OutageId /\ new[n].status = "detected"
        BY <1>2, <1>3, <2>1
      <3>2. \A e \in Rerouter : rerouting'[e].at # l
        <4>1. \A e \in Rerouter : rerouting[e].at \in 0 .. old
          BY <1>1 DEF CfTables, old
        <4> QED
          BY <1>3, <1>4, <2>1, <4>1
      <3>3. PICK m \in 1 .. Len(new) : new[m].id = new[n].id /\ listed'[new[n].id] = old + m
        BY <3>1 DEF old
      <3>4. listed'[outages'[l].id] = l \/ Twin(l)'
        <4>1. old + m \in 1 .. Len(outages') /\ outages'[old + m].id = outages'[l].id
          BY <1>2, <3>1, <3>3
        <4>2. old + m # l => Twin(l)'
          BY <4>1 DEF Twin
        <4> QED
          BY <3>1, <3>3, <4>2
      <3> QED
        BY <3>1, <3>2, <3>4
    <2>2. ASSUME l \in 1 .. old
          PROVE  /\ outages'[l].status = "isolating" =>
                       \E e \in Rerouter : rerouting'[e].at = l /\ ~rerouting'[e].sent
                 /\ outages'[l].status = "detected" =>
                       /\ \A e \in Rerouter : rerouting'[e].at # l
                       /\ listed'[outages'[l].id] = l \/ Twin(l)'
      <3>1. outages'[l] = outages[l] /\ l # 0 /\ outages[l].id \in OutageId
        BY <1>1, <1>2, <2>2
      <3>2. ASSUME outages[l].status = "isolating"
            PROVE  \E e \in Rerouter : rerouting'[e].at = l /\ ~rerouting'[e].sent
        <4>1. PICK e \in Rerouter : rerouting[e].at = l /\ ~rerouting[e].sent
          BY <2>2, <3>2 DEF CfInv, OutagesInHand, old
        <4>2. e # c
          BY <3>1, <4>1
        <4> QED
          BY <1>4, <4>1, <4>2
      <3>3. ASSUME outages[l].status = "detected"
            PROVE  /\ \A e \in Rerouter : rerouting'[e].at # l
                   /\ listed'[outages[l].id] = l \/ Twin(l)'
        <4>1. /\ \A e \in Rerouter : rerouting[e].at # l
              /\ listed[outages[l].id] = l \/ Twin(l)
          BY <2>2, <3>3 DEF CfInv, OutagesInHand, old
        <4>2. ASSUME NEW n \in 1 .. Len(new), new[n].id = outages[l].id PROVE Twin(l)'
          <5>1. outages'[old + n].id = outages'[l].id /\ old + n \in 1 .. Len(outages')
            BY <1>2, <3>1, <4>2
          <5>2. old + n # l
            BY <1>3, <2>2
          <5> QED
            BY <5>1, <5>2 DEF Twin
        <4>3. listed'[outages[l].id] = l \/ Twin(l)'
          <5>1. CASE \E n \in 1 .. Len(new) : new[n].id = outages[l].id
            BY <4>2, <5>1
          <5>2. CASE ~ \E n \in 1 .. Len(new) : new[n].id = outages[l].id
            <6>1. listed'[outages[l].id] = listed[outages[l].id]
              BY <3>1, <5>2
            <6> QED
              BY <1>6, <2>2, <4>1, <6>1
          <5> QED
            BY <5>1, <5>2
        <4> QED
          BY <1>4, <4>1, <4>3
      <3> QED
        BY <3>1, <3>2, <3>3
    <2> QED
      BY <1>2, <2>1, <2>2
  <1>8. LetGo' \in SUBSET LetGo
    <2> SUFFICES ASSUME NEW l \in LetGo' PROVE l \in LetGo
      OBVIOUS
    <2>1. /\ l \in 1 .. Len(outages') /\ outages'[l].status = "recovered"
          /\ \A e \in Rerouter : rerouting'[e].at # l
      BY DEF LetGo
    <2>2. l \in 1 .. old
      BY <1>2, <2>1
    <2> QED
      BY <1>2, <1>4, <2>1, <2>2 DEF LetGo, old
  <1>9. failovers' >= Cardinality(LetGo')
    <2>1. Cardinality(LetGo') \in Nat /\ Cardinality(LetGo) \in Nat
          /\ Cardinality(LetGo') <= Cardinality(LetGo)
      BY <1>1, <1>8, LetGoIsFinite
    <2>2. failovers \in Nat /\ failovers >= Cardinality(LetGo) /\ failovers' = failovers
      BY DEF CfInv, CfTables
    <2> QED
      BY <2>1, <2>2
  <1> QED
    BY <1>5, <1>7, <1>9 DEF CfInv

LEMMA TriggerType ==
    \A report, l : Trigger(report, l) \in Triggers_ \cup {"none"}
  BY DEF Trigger, Triggers_

LEMMA DetectFailuresHolds ==
    ASSUME CfInv, NEW c \in Rerouter, NEW t \in Telemetry, DetectFailures(c, t)
    PROVE  CfInv'
  <1> DEFINE H == {l \in Land : Trigger(t, l) # "none"}
             hit == SetToSeq(H)
             new == [k \in 1 .. Len(hit) |-> Outage(t, hit[k])]
             ids == [k \in 1 .. Len(hit) |-> new[k].id]
             q == [report |-> t, todo |-> ids, at |-> 0, sent |-> FALSE]
  <1>1. /\ CfTables /\ outages \in Seq(OutageRecord) /\ Len(outages) \in Nat /\ MaxEvents \in Nat
        /\ second \in 0 .. MaxSeconds /\ 0 \in 0 .. MaxEvents
    <2>1. 0 \in 0 .. MaxEvents
      BY ContinentAssumption
    <2> QED
      BY <2>1, OutageList DEF CfInv, CfTables
  <1>2. IsFiniteSet(H)
    BY ContinentAssumption, FS_Subset
  <1>3. hit \in Seq(H)
    <2> HIDE DEF H
    <2> QED
      BY <1>2, SetToSeqLists
  <1>4. DOMAIN hit = 1 .. Len(hit) /\ Len(hit) \in Nat /\ \A k \in 1 .. Len(hit) : hit[k] \in H
    <2> HIDE DEF hit, H
    <2> QED
      BY <1>3
  <1>5. /\ rerouting[c] = Resting /\ Len(outages) + Len(new) <= MaxEvents
        /\ outages' = outages \o new
        /\ listed' = [i \in OutageId |-> IF \E k \in 1 .. Len(hit) : new[k].id = i
                                         THEN Len(outages) + CHOOSE k \in 1 .. Len(hit) : new[k].id = i
                                         ELSE listed[i]]
        /\ rerouting' = [rerouting EXCEPT ![c] = q]
        /\ UNCHANGED <<second, failovers>>
    <2> HIDE DEF hit
    <2>1. /\ rerouting[c] = Resting
          /\ Len(outages) + Len([k \in DOMAIN hit |-> Outage(t, hit[k])]) <= MaxEvents
          /\ outages' = outages \o [k \in DOMAIN hit |-> Outage(t, hit[k])]
          /\ UNCHANGED <<second, failovers>>
      BY DEF DetectFailures, hit
    <2>2. [k \in DOMAIN hit |-> Outage(t, hit[k])] = new /\ DOMAIN new = 1 .. Len(hit)
      BY <1>4
    <2>3. LET nw == [k \in DOMAIN hit |-> Outage(t, hit[k])] IN
          /\ listed' = [i \in OutageId |-> IF \E k \in DOMAIN nw : nw[k].id = i
                                         THEN Len(outages) + CHOOSE k \in DOMAIN nw : nw[k].id = i
                                         ELSE listed[i]]
          /\ rerouting' = [rerouting EXCEPT ![c] =
                [report |-> t, todo |-> [k \in DOMAIN nw |-> nw[k].id], at |-> 0, sent |-> FALSE]]
      BY DEF DetectFailures, hit
    <2> HIDE DEF new
    <2>4. /\ listed' = [i \in OutageId |-> IF \E k \in DOMAIN new : new[k].id = i
                                         THEN Len(outages) + CHOOSE k \in DOMAIN new : new[k].id = i
                                         ELSE listed[i]]
          /\ rerouting' = [rerouting EXCEPT ![c] =
                [report |-> t, todo |-> [k \in DOMAIN new |-> new[k].id], at |-> 0, sent |-> FALSE]]
      BY <2>2, <2>3
    <2> QED
      BY <2>1, <2>2, <2>4
  <1>6. \A k \in 1 .. Len(hit) : /\ Outage(t, hit[k]) \in OutageRecord
                                 /\ Outage(t, hit[k]).id \in OutageId
                                 /\ Outage(t, hit[k]).status = "detected"
    <2> TAKE k \in 1 .. Len(hit)
    <2>1. hit[k] \in Land /\ Trigger(t, hit[k]) # "none"
      BY <1>4
    <2> HIDE DEF hit
    <2>2. Trigger(t, hit[k]) \in Triggers_
      BY <2>1, TriggerType
    <2>3. <<Trigger(t, hit[k]), hit[k], second>> \in OutageId
      BY <1>1, <2>1, <2>2 DEF OutageId
    <2>4. Having(t, hit[k], Sign(Trigger(t, hit[k]))) \in SUBSET Province
      BY DEF Having
    <2> QED
      BY <2>3, <2>4 DEF Outage, OutageRecord
  <1> HIDE DEF hit
  <1>7. new \in [1 .. Len(hit) -> OutageRecord] /\ ids \in [1 .. Len(hit) -> OutageId]
    BY <1>6
  <1>8. new \in Seq(OutageRecord) /\ Len(new) = Len(hit) /\ ids \in Seq(OutageId)
    BY <1>4, <1>7
  <1>9. \A n \in 1 .. Len(hit) : new[n].status = "detected" /\ new[n].id \in OutageId
    BY <1>6
  <1> HIDE DEF new, ids
  <1>10. q \in Rerouting /\ q.at = 0 /\ ~q.sent
    BY <1>1, <1>8 DEF Rerouting
  <1> HIDE DEF q
  <1>11. \A i \in OutageId : \/ /\ listed'[i] = listed[i]
                                /\ \A n \in 1 .. Len(hit) : new[n].id # i
                             \/ \E n \in 1 .. Len(hit) : /\ new[n].id = i
                                                         /\ listed'[i] = Len(outages) + n
    <2> TAKE i \in OutageId
    <2>1. CASE \E k \in 1 .. Len(hit) : new[k].id = i
      <3> DEFINE m == CHOOSE k \in 1 .. Len(hit) : new[k].id = i
      <3>1. m \in 1 .. Len(hit) /\ new[m].id = i
        BY <2>1
      <3>2. listed'[i] = Len(outages) + m
        BY <1>5, <2>1
      <3> HIDE DEF m
      <3> QED
        BY <3>1, <3>2
    <2>2. CASE ~ \E k \in 1 .. Len(hit) : new[k].id = i
      BY <1>5, <2>2
    <2> QED
      BY <2>1, <2>2
  <1>12. listed' \in [OutageId -> 0 .. MaxEvents]
    <2>1. \A i \in OutageId : listed'[i] \in 0 .. MaxEvents
      <3> TAKE i \in OutageId
      <3>1. CASE listed'[i] = listed[i]
        BY <1>1, <3>1 DEF CfTables
      <3>2. ASSUME NEW n \in 1 .. Len(hit), listed'[i] = Len(outages) + n
            PROVE  listed'[i] \in 0 .. MaxEvents
        BY <1>1, <1>4, <1>5, <1>8, <3>2
      <3> QED
        BY <1>11, <3>1, <3>2
    <2>2. listed' = [i \in OutageId |-> listed'[i]]
      BY <1>5
    <2> QED
      BY <2>1, <2>2
  <1>13. rerouting[c].at = 0
    BY <1>5, RestingRests
  <1>14. \A n \in 1 .. Len(new) : new[n].status = "detected"
    BY <1>8, <1>9
  <1>15. \A i \in OutageId : \/ /\ listed'[i] = listed[i]
                                /\ \A n \in 1 .. Len(new) : new[n].id # i
                             \/ \E n \in 1 .. Len(new) : /\ new[n].id = i
                                                         /\ listed'[i] = Len(outages) + n
    BY <1>8, <1>11
  <1> QED
    BY <1>5, <1>8, <1>10, <1>12, <1>13, <1>14, <1>15, OutagesGrow

LEMMA CfInvNext == CfInv /\ [CfNext]_cfVars => CfInv'
  <1> SUFFICES ASSUME CfInv, [CfNext]_cfVars PROVE CfInv'
    OBVIOUS
  <1>1. ASSUME NEW c \in Rerouter, NEW t \in Telemetry, DetectFailures(c, t) PROVE CfInv'
    BY <1>1, DetectFailuresHolds
  <1>2. ASSUME NEW c \in Rerouter, NEW t \in Telemetry, NEW i \in OutageId, AskFailover(c, i, t)
        PROVE  CfInv'
    BY <1>2, AskFailoverHolds
  <1>3. ASSUME NEW c \in Rerouter, Isolate(c) PROVE CfInv'
    BY <1>3, IsolateHolds
  <1>4. ASSUME NEW c \in Rerouter, RerouteTo(c) PROVE CfInv'
    BY <1>4, RerouteToHolds
  <1>5. ASSUME NEW c \in Rerouter, Count(c) PROVE CfInv'
    BY <1>5, CountHolds
  <1>6. ASSUME NEW c \in Rerouter, CallerRests(c) PROVE CfInv'
    BY <1>6, CallerRestsHolds
  <1>7. CASE NextSecondOfEvents \/ UNCHANGED cfVars
    <2>1. UNCHANGED <<outages, listed, rerouting, failovers>>
      BY <1>7 DEF NextSecondOfEvents, cfVars
    <2>2. second' \in 0 .. MaxSeconds
      <3>1. second \in 0 .. MaxSeconds /\ MaxSeconds \in Nat
        BY ContinentAssumption DEF CfInv, CfTables
      <3>2. second' = second \/ (second' = second + 1 /\ second < MaxSeconds)
        BY <1>7 DEF NextSecondOfEvents, cfVars
      <3> QED
        BY <3>1, <3>2
    <2>3. CfTables'
      BY <2>1, <2>2 DEF CfInv, CfTables
    <2>4. OutagesInHand' /\ LetGo' = LetGo
      BY <2>1 DEF CfInv, OutagesInHand, Twin, LetGo
    <2> QED
      BY <2>1, <2>3, <2>4 DEF CfInv
  <1> QED
    BY <1>1, <1>2, <1>3, <1>4, <1>5, <1>6, <1>7 DEF CfNext
=============================================================================
