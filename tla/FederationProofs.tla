-------------------------- MODULE FederationProofs --------------------------
(***************************************************************************)
(* Theorems about Federation, for every set of jobs and clusters and every *)
(* number of sweeps and restarts.                                          *)
(***************************************************************************)
EXTENDS Federation, FiniteSetTheorems, TLAPS

LEMMA TypeInit == Init => TypeOK
  BY BoundAssumption DEF Init, TypeOK

LEMMA TypeNext == TypeOK /\ [Next]_vars => TypeOK'
  <1> SUFFICES ASSUME TypeOK, [Next]_vars PROVE TypeOK'
    OBVIOUS
  <1> USE BoundAssumption DEF TypeOK, vars, registryVars, handlerVars, watchVars, clusterVars
  <1>1. CASE Submit
    <2> SUFFICES ASSUME NEW g \in Job,
                        SubmitDecide(g) \/ SubmitRoute(g) \/ SubmitDone(g) \/ SubmitFail(g)
                 PROVE  TypeOK'
      BY <1>1, Zenon DEF Submit
    <2>1. CASE SubmitDecide(g)
      BY <2>1 DEF SubmitDecide, Save, Active, Online
    <2>2. CASE SubmitRoute(g)
      BY <2>2 DEF SubmitRoute, Save, Active
    <2>3. CASE SubmitDone(g)
      BY <2>3 DEF SubmitDone, SubmitReturns
    <2>4. CASE SubmitFail(g)
      BY <2>4 DEF SubmitFail, SubmitReturns, Save, Active
    <2> QED
      BY <2>1, <2>2, <2>3, <2>4
  <1>2. CASE Watch
    <2>1. CASE SweepList
      BY <2>1 DEF SweepList, Online
    <2>2. CASE RerouteClusters
      BY <2>2 DEF RerouteClusters, Online
    <2>3. CASE RerouteJobs
      BY <2>3 DEF RerouteJobs, Listed
    <2>4. CASE RerouteCount
      BY <2>4 DEF RerouteCount
    <2>5. CASE RerouteEnd
      BY <2>5 DEF RerouteEnd
    <2>6. CASE FailoverPush
      BY <2>6 DEF FailoverPush
    <2>7. CASE FailoverReply
      BY <2>7 DEF FailoverReply
    <2>8. ASSUME NEW c \in Cluster, SweepMark(c) PROVE TypeOK'
      BY <2>8 DEF SweepMark
    <2>9. ASSUME NEW g \in Job, RerouteJob(g) PROVE TypeOK'
      BY <2>9 DEF RerouteJob, Save, Active
    <2> QED
      BY <1>2, <2>1, <2>2, <2>3, <2>4, <2>5, <2>6, <2>7, <2>8, <2>9 DEF Watch
  <1>3. CASE ClusterStep
    <2>1. ASSUME NEW c \in Cluster, Register(c) \/ Heartbeat(c) PROVE TypeOK'
      BY <2>1 DEF Register, Heartbeat
    <2>2. ASSUME NEW g \in Job, NEW c \in Cluster, Inbound(g, c) PROVE TypeOK'
      BY <2>2 DEF Inbound
    <2>3. ASSUME NEW g \in Job, NEW c \in Cluster, LoseInbound(g, c) PROVE TypeOK'
      BY <2>3 DEF LoseInbound
    <2>4. ASSUME NEW g \in Job, NEW c \in Cluster, NEW ok \in BOOLEAN, Result(g, c, ok)
          PROVE  TypeOK'
      BY <2>4 DEF Result, Report
    <2>5. ASSUME NEW r \in Report, LoseReport(r) PROVE TypeOK'
      BY <2>5 DEF LoseReport
    <2> QED
      BY <1>3, <2>1, <2>2, <2>3, <2>4, <2>5 DEF ClusterStep
  <1>4. CASE Restart
    BY <1>4 DEF Restart
  <1>5. CASE CompleteSave
    <2>1. PICK d \in done : Save(d[1].job, IF d[1].ok THEN "completed" ELSE "failed", d[2])
      BY <1>5 DEF CompleteSave
    <2>2. d[1] \in Report /\ d[2] \in Cluster \cup {NoCluster}
      OBVIOUS
    <2>3. d[1].job \in Job
      BY <2>2 DEF Report
    <2> QED
      BY <1>5, <2>1, <2>2, <2>3 DEF CompleteSave, Save, Settled
  <1>6. ASSUME NEW r \in Report, CompleteGet(r) PROVE TypeOK'
    <2>1. r.job \in Job
      BY DEF Report
    <2> QED
      BY <1>6, <2>1 DEF CompleteGet
  <1>7. CASE UNCHANGED vars
    BY <1>7
  <1> QED
    BY <1>1, <1>2, <1>3, <1>4, <1>5, <1>6, <1>7 DEF Next

\* The types of Federation: every record, request and local copy is what the
\* handlers and the worker threads take it for.
THEOREM TypeCorrect == Spec => []TypeOK
  BY TypeInit, TypeNext, PTL DEF Spec

-----------------------------------------------------------------------------
(* A routed job is known to its cluster *)

\* What the submit handler knows of a job the registry shows as routed: it is
\* pushing it to the assigned cluster, or that cluster has answered.
RoutedInv ==
    restarts = 0 =>
        \A g \in Job : status[g] = "routed" =>
            \/ submit[g] = "pushing" /\ assigned[g] = target[g]
            \/ submit[g] = "done" /\ assigned[g] # NoCluster /\ local[assigned[g]][g] # "none"

\* No cluster forgets a job.
LEMMA LocalIsKept ==
    ASSUME TypeOK, [Next]_vars, NEW g \in Job, NEW c \in Cluster, local[c][g] # "none"
    PROVE  local'[c][g] # "none"
  <1>1. CASE UNCHANGED local
    BY <1>1
  <1>2. ASSUME NEW h \in Job, NEW d \in Cluster, Inbound(h, d) PROVE local'[c][g] # "none"
    BY <1>2 DEF Inbound, TypeOK
  <1>3. ASSUME NEW h \in Job, NEW d \in Cluster, NEW ok \in BOOLEAN, Result(h, d, ok)
        PROVE  local'[c][g] # "none"
    BY <1>3 DEF Result, TypeOK
  <1>4. Submit \/ Watch \/ Restart \/ CompleteSave => UNCHANGED local
    BY DEF Submit, SubmitDecide, SubmitRoute, SubmitDone, SubmitFail, SubmitReturns, Watch,
           SweepList, SweepMark, RerouteClusters, RerouteJobs, RerouteJob, RerouteCount,
           RerouteEnd, FailoverPush, FailoverReply, Restart, CompleteSave, clusterVars
  <1>5. \A r \in Report : CompleteGet(r) \/ LoseReport(r) => UNCHANGED local
    BY DEF CompleteGet, LoseReport
  <1>6. \A d \in Cluster : Register(d) \/ Heartbeat(d) => UNCHANGED local
    BY DEF Register, Heartbeat, clusterVars
  <1>7. \A h \in Job, d \in Cluster : LoseInbound(h, d) => UNCHANGED local
    BY DEF LoseInbound, clusterVars
  <1>8. UNCHANGED vars => UNCHANGED local
    BY DEF vars, clusterVars
  <1> QED
    BY <1>1, <1>2, <1>3, <1>4, <1>5, <1>6, <1>7, <1>8, Zenon DEF Next, ClusterStep

\* A step that leaves the registry's jobs and the submit handlers alone keeps
\* RoutedInv.
LEMMA RoutedFrame ==
    ASSUME TypeOK, RoutedInv, [Next]_vars, UNCHANGED <<status, assigned, submit, target, restarts>>
    PROVE  RoutedInv'
  <1> SUFFICES ASSUME restarts = 0, NEW g \in Job, status[g] = "routed",
                      ~ (submit[g] = "pushing" /\ assigned[g] = target[g])
               PROVE  submit[g] = "done" /\ assigned[g] # NoCluster /\ local'[assigned[g]][g] # "none"
    BY DEF RoutedInv
  <1>1. submit[g] = "done" /\ assigned[g] # NoCluster /\ local[assigned[g]][g] # "none"
    BY DEF RoutedInv
  <1>2. assigned[g] \in Cluster
    BY <1>1 DEF TypeOK
  <1> QED
    BY <1>1, <1>2, LocalIsKept

LEMMA RoutedNext == TypeOK /\ RoutedInv /\ [Next]_vars => RoutedInv'
  <1> SUFFICES ASSUME TypeOK, RoutedInv, [Next]_vars PROVE RoutedInv'
    OBVIOUS
  <1>1. ASSUME NEW g \in Job, SubmitDecide(g) PROVE RoutedInv'
    BY <1>1 DEF SubmitDecide, Save, RoutedInv, TypeOK, clusterVars
  <1>2. ASSUME NEW g \in Job, SubmitRoute(g) PROVE RoutedInv'
    BY <1>2 DEF SubmitRoute, Save, RoutedInv, TypeOK, clusterVars
  <1>3. ASSUME NEW g \in Job, SubmitDone(g) PROVE RoutedInv'
    BY <1>3, ClusterAssumption DEF SubmitDone, SubmitReturns, RoutedInv, TypeOK, clusterVars
  <1>4. ASSUME NEW g \in Job, SubmitFail(g) PROVE RoutedInv'
    BY <1>4 DEF SubmitFail, SubmitReturns, Save, RoutedInv, TypeOK, clusterVars
  <1>5. ASSUME NEW g \in Job, RerouteJob(g) PROVE RoutedInv'
    BY <1>5 DEF RerouteJob, Save, RoutedInv, TypeOK, clusterVars, handlerVars
  <1>6. CASE CompleteSave
    <2>1. PICK d \in done : Save(d[1].job, IF d[1].ok THEN "completed" ELSE "failed", d[2])
      BY <1>6 DEF CompleteSave
    <2>2. \A g \in Job : status'[g] = "routed" =>
                status[g] = "routed" /\ assigned'[g] = assigned[g]
      BY <2>1 DEF Save, TypeOK
    <2> QED
      BY <1>6, <2>2 DEF CompleteSave, RoutedInv, clusterVars
  <1>7. CASE Restart
    BY <1>7 DEF Restart, RoutedInv, TypeOK
  <1>8. CASE UNCHANGED <<status, assigned, submit, target, restarts>>
    BY <1>8, RoutedFrame
  <1>9. SweepList \/ RerouteClusters \/ RerouteJobs \/ RerouteCount \/ RerouteEnd \/ FailoverPush
            \/ FailoverReply => UNCHANGED <<status, assigned, submit, target, restarts>>
    BY DEF SweepList, RerouteClusters, RerouteJobs, RerouteCount, RerouteEnd, FailoverPush,
           FailoverReply, registryVars, handlerVars
  <1>10. \A c \in Cluster : SweepMark(c) \/ Register(c) \/ Heartbeat(c)
            => UNCHANGED <<status, assigned, submit, target, restarts>>
    BY DEF SweepMark, Register, Heartbeat, handlerVars
  <1>11. \A g \in Job, c \in Cluster : Inbound(g, c) \/ LoseInbound(g, c)
            \/ (\E ok \in BOOLEAN : Result(g, c, ok))
            => UNCHANGED <<status, assigned, submit, target, restarts>>
    BY DEF Inbound, LoseInbound, Result, registryVars, handlerVars
  <1>12. \A r \in Report : CompleteGet(r) \/ LoseReport(r)
            => UNCHANGED <<status, assigned, submit, target, restarts>>
    BY DEF CompleteGet, LoseReport, registryVars, handlerVars
  <1>13. UNCHANGED vars => UNCHANGED <<status, assigned, submit, target, restarts>>
    BY DEF vars, registryVars, handlerVars
  <1>14. CASE Next
    BY <1>14, <1>1, <1>2, <1>3, <1>4, <1>5, <1>6, <1>7, <1>8, <1>9, <1>10, <1>11, <1>12, Zenon
       DEF Next, Submit, Watch, ClusterStep
  <1> QED
    BY <1>8, <1>13, <1>14

\* RoutedIsDelivered for any number of clusters and sweeps: although the reroute
\* and late results rewrite the record of a job, "routed" is only ever shown
\* with the cluster that submit_global_job pushed it to.
THEOREM RoutedJobsAreDelivered == Spec => []RoutedIsDelivered
  <1>1. Init => RoutedInv
    BY DEF Init, RoutedInv
  <1>2. RoutedInv => RoutedIsDelivered
    BY DEF RoutedInv, RoutedIsDelivered
  <1> QED
    BY <1>1, <1>2, TypeInit, TypeNext, RoutedNext, PTL DEF Spec

-----------------------------------------------------------------------------
(* A failover leaves no job of its own on an offline cluster *)

\* Job g of cluster c is still to be taken over by this sweep.
Pending(g, c) ==
    \/ c \in dead
    \/ cur = c /\ watch = "listed"
    \/ cur = c /\ watch \in {"saving", "counting"} /\ g \in snap

\* The candidates of a reroute stay online while it lasts, since only the sweep
\* takes a cluster offline; a migrated job on an offline cluster is pending.
FailoverInv ==
    restarts = 0 =>
        /\ watch \in {"listed", "saving", "counting"} => \A c \in others : health[c] = "up"
        /\ watch = "idle" => dead = {}
        /\ \A g \in Job : status[g] = "migrated" =>
              /\ assigned[g] \in Cluster
              /\ health[assigned[g]] = "offline" => Pending(g, assigned[g])

\* Handlers that write no "migrated" and touch neither clusters nor the loop.
LEMMA FailoverFrame ==
    ASSUME FailoverInv, UNCHANGED <<health, watchVars, restarts>>,
           \A g \in Job : status'[g] = "migrated" => status[g] = "migrated" /\ assigned'[g] = assigned[g]
    PROVE  FailoverInv'
  BY DEF FailoverInv, Pending, watchVars

LEMMA FailoverNext == TypeOK /\ FailoverInv /\ [Next]_vars => FailoverInv'
  <1> SUFFICES ASSUME TypeOK, FailoverInv, [Next]_vars PROVE FailoverInv'
    OBVIOUS
  <1>1. ASSUME NEW g \in Job,
               SubmitDecide(g) \/ SubmitRoute(g) \/ SubmitDone(g) \/ SubmitFail(g)
        PROVE  FailoverInv'
    <2>1. UNCHANGED <<health, watchVars, restarts>>
      BY <1>1 DEF SubmitDecide, SubmitRoute, SubmitDone, SubmitFail, SubmitReturns
    <2>2. \A h \in Job : status'[h] = "migrated" => status[h] = "migrated" /\ assigned'[h] = assigned[h]
      BY <1>1 DEF SubmitDecide, SubmitRoute, SubmitDone, SubmitFail, Save, TypeOK
    <2> QED
      BY <2>1, <2>2, FailoverFrame
  <1>2. CASE CompleteSave
    <2>1. PICK d \in done : Save(d[1].job, IF d[1].ok THEN "completed" ELSE "failed", d[2])
      BY <1>2 DEF CompleteSave
    <2>2. \A h \in Job : status'[h] = "migrated" => status[h] = "migrated" /\ assigned'[h] = assigned[h]
      BY <2>1 DEF Save, TypeOK
    <2> QED
      BY <1>2, <2>2, FailoverFrame DEF CompleteSave
  <1>3. CASE Restart
    BY <1>3 DEF Restart, FailoverInv, TypeOK
  <1>4. CASE SweepList
    BY <1>4 DEF SweepList, FailoverInv, Pending, registryVars
  <1>5. ASSUME NEW c \in Cluster, SweepMark(c) PROVE FailoverInv'
    BY <1>5 DEF SweepMark, FailoverInv, Pending, TypeOK
  <1>6. CASE RerouteClusters
    BY <1>6 DEF RerouteClusters, FailoverInv, Pending, Online, registryVars
  <1>7. CASE RerouteJobs
    BY <1>7 DEF RerouteJobs, FailoverInv, Pending, Listed, Active, registryVars
  <1>8. ASSUME NEW g \in Job, RerouteJob(g) PROVE FailoverInv'
    <2>1. CASE others = {} /\ Save(g, "queued", NoCluster) /\ UNCHANGED <<watch, pushes>>
      BY <1>8, <2>1 DEF RerouteJob, Save, FailoverInv, Pending, TypeOK
    <2>2. ASSUME NEW c \in others, Save(g, "migrated", c), watch' = "counting"
          PROVE  FailoverInv'
      BY <1>8, <2>2 DEF RerouteJob, Save, FailoverInv, Pending, TypeOK
    <2> QED
      BY <1>8, <2>1, <2>2 DEF RerouteJob
  <1>9. CASE RerouteCount \/ RerouteEnd \/ FailoverPush \/ FailoverReply
    BY <1>9 DEF RerouteCount, RerouteEnd, FailoverPush, FailoverReply, FailoverInv, Pending,
                registryVars
  <1>10. ASSUME NEW c \in Cluster, Register(c) \/ Heartbeat(c) PROVE FailoverInv'
    BY <1>10 DEF Register, Heartbeat, FailoverInv, Pending, TypeOK, watchVars
  <1>11. (\E g \in Job, c \in Cluster : Inbound(g, c) \/ LoseInbound(g, c)
             \/ (\E ok \in BOOLEAN : Result(g, c, ok))) => FailoverInv'
    BY FailoverFrame DEF Inbound, LoseInbound, Result, registryVars
  <1>12. (\E r \in Report : CompleteGet(r) \/ LoseReport(r)) => FailoverInv'
    BY FailoverFrame DEF CompleteGet, LoseReport, registryVars
  <1>13. UNCHANGED vars => FailoverInv'
    BY FailoverFrame DEF vars, registryVars
  <1>14. CASE Next
    BY <1>14, <1>1, <1>2, <1>3, <1>4, <1>5, <1>6, <1>7, <1>8, <1>9, <1>10, <1>11, <1>12, Zenon
       DEF Next, Submit, Watch, ClusterStep
  <1> QED
    BY <1>13, <1>14

\* FailoverIsComplete for any number of clusters and sweeps: jobs that a first
\* failover moved are taken over by the next one (failover.py:27-31).
THEOREM FailoverTakesAll == Spec => []FailoverIsComplete
  <1>1. Init => FailoverInv
    BY DEF Init, FailoverInv
  <1>2. FailoverInv => FailoverIsComplete
    BY DEF FailoverInv, FailoverIsComplete, Pending
  <1> QED
    BY <1>1, <1>2, TypeInit, TypeNext, FailoverNext, PTL DEF Spec

-----------------------------------------------------------------------------
(* Counted reroutes pay for every cluster after the first *)

\* The invariant: pushes still to be sent are paid for in advance, save for the
\* one whose reroute is saved and not yet counted.
PaidInv ==
    \/ /\ watch # "counting"
       /\ Cardinality(Held \cup pushes) <= reroutes + Cardinality(Submitted)
    \/ /\ watch = "counting"
       /\ \E p \in pushes :
             Cardinality(Held \cup (pushes \ {p})) <= reroutes + Cardinality(Submitted)

LEMMA PairsAreFinite ==
    ASSUME NEW P \in SUBSET (Job \X Cluster)
    PROVE  IsFiniteSet(P) /\ Cardinality(P) \in Nat
  BY ClusterAssumption, FS_Product, FS_Subset, FS_CardinalityType

LEMMA JobsAreFinite ==
    ASSUME NEW S \in SUBSET Job
    PROVE  IsFiniteSet(S) /\ Cardinality(S) \in Nat
  BY ClusterAssumption, FS_Subset, FS_CardinalityType

\* The account stays balanced when no pair is added and no payment withdrawn ...
LEMMA StillPaid ==
    ASSUME NEW A \in SUBSET (Job \X Cluster), NEW B \in SUBSET A,
           NEW S \in SUBSET Job, NEW T \in SUBSET S, NEW n \in Nat,
           Cardinality(A) <= n + Cardinality(T)
    PROVE  Cardinality(B) <= n + Cardinality(S)
  <1>1. Cardinality(B) <= Cardinality(A) /\ Cardinality(A) \in Nat /\ Cardinality(B) \in Nat
    BY PairsAreFinite, FS_Subset
  <1>2. Cardinality(T) <= Cardinality(S) /\ Cardinality(S) \in Nat /\ Cardinality(T) \in Nat
    BY JobsAreFinite, FS_Subset
  <1> QED
    BY <1>1, <1>2

\* ... and one more pair costs at most one more.
LEMMA OneMorePair ==
    ASSUME NEW A \in SUBSET (Job \X Cluster), NEW x \in Job \X Cluster, NEW B \in SUBSET (A \cup {x})
    PROVE  Cardinality(B) <= Cardinality(A) + 1
  <1>1. IsFiniteSet(A \cup {x}) /\ Cardinality(A \cup {x}) <= Cardinality(A) + 1
    BY PairsAreFinite, FS_AddElement
  <1>2. Cardinality(B) <= Cardinality(A \cup {x})
    BY <1>1, FS_Subset
  <1>3. Cardinality(A) \in Nat /\ Cardinality(A \cup {x}) \in Nat /\ Cardinality(B) \in Nat
    BY PairsAreFinite
  <1> QED
    BY <1>1, <1>2, <1>3

LEMMA HeldType == TypeOK => Held \in SUBSET (Job \X Cluster) /\ Submitted \in SUBSET Job
                            /\ pushes \in SUBSET (Job \X Cluster) /\ reroutes \in Nat
  BY DEF TypeOK, Held, Submitted

LEMMA HeldTypeNext == TypeOK' => Held' \in SUBSET (Job \X Cluster) /\ Submitted' \in SUBSET Job
                                 /\ pushes' \in SUBSET (Job \X Cluster) /\ reroutes' \in Nat
  BY DEF TypeOK, Held, Submitted

\* A step keeps the account of pairs P, which become Q, if it adds no pair ...
LEMMA PaidStep ==
    ASSUME TypeOK, TypeOK', NEW P \in SUBSET (Job \X Cluster), NEW Q,
           Held' \cup Q \subseteq Held \cup P, Submitted \subseteq Submitted', reroutes' = reroutes,
           Cardinality(Held \cup P) <= reroutes + Cardinality(Submitted)
    PROVE  Cardinality(Held' \cup Q) <= reroutes' + Cardinality(Submitted')
  <1>1. Held \cup P \in SUBSET (Job \X Cluster) /\ Held' \cup Q \in SUBSET (Held \cup P)
    BY HeldType
  <1>2. Submitted' \in SUBSET Job /\ Submitted \in SUBSET Submitted' /\ reroutes \in Nat
    BY HeldType, HeldTypeNext
  <1> QED
    BY <1>1, <1>2, StillPaid

\* ... or adds one for a job that was not submitted before.
LEMMA SubmitPaysForOne ==
    ASSUME TypeOK, TypeOK', NEW P \in SUBSET (Job \X Cluster),
           NEW x \in Job \X Cluster, NEW g \in Job, g \notin Submitted,
           Held' \cup P \subseteq (Held \cup P) \cup {x}, Submitted' = Submitted \cup {g},
           reroutes' = reroutes,
           Cardinality(Held \cup P) <= reroutes + Cardinality(Submitted)
    PROVE  Cardinality(Held' \cup P) <= reroutes' + Cardinality(Submitted')
  <1>1. Held \cup P \in SUBSET (Job \X Cluster) /\ reroutes \in Nat /\ Submitted \in SUBSET Job
    BY HeldType
  <1>2. Cardinality(Held' \cup P) <= Cardinality(Held \cup P) + 1
    BY <1>1, OneMorePair
  <1>3. Cardinality(Submitted') = Cardinality(Submitted) + 1
    BY <1>1, JobsAreFinite, FS_AddElement
  <1>4. Cardinality(Held' \cup P) \in Nat /\ Cardinality(Held \cup P) \in Nat
        /\ Cardinality(Submitted) \in Nat
    BY <1>1, HeldTypeNext, PairsAreFinite, JobsAreFinite
  <1> QED
    BY <1>1, <1>2, <1>3, <1>4

\* Steps outside the reroute that add no pair.
LEMMA PaidFrame ==
    ASSUME TypeOK, TypeOK', PaidInv, UNCHANGED <<watch, pushes, reroutes>>,
           Held' \subseteq Held, Submitted \subseteq Submitted'
    PROVE  PaidInv'
  <1>1. CASE watch # "counting"
    <2>1. Cardinality(Held \cup pushes) <= reroutes + Cardinality(Submitted)
      BY <1>1 DEF PaidInv
    <2>2. Cardinality(Held' \cup pushes) <= reroutes' + Cardinality(Submitted')
      BY <2>1, PaidStep, HeldType
    <2> QED
      BY <1>1, <2>2 DEF PaidInv
  <1>2. CASE watch = "counting"
    <2>1. PICK p \in pushes :
            Cardinality(Held \cup (pushes \ {p})) <= reroutes + Cardinality(Submitted)
      BY <1>2 DEF PaidInv
    <2>2. Cardinality(Held' \cup (pushes \ {p})) <= reroutes' + Cardinality(Submitted')
      BY <2>1, PaidStep, HeldType
    <2> QED
      BY <1>2, <2>1, <2>2 DEF PaidInv
  <1> QED
    BY <1>1, <1>2

LEMMA SubmitIsPaid ==
    ASSUME TypeOK, TypeOK', PaidInv, NEW g \in Job, SubmitRoute(g)
    PROVE  PaidInv'
  <1> DEFINE x == <<g, target[g]>>
  <1>1. x \in Job \X Cluster /\ g \notin Submitted
    BY DEF SubmitRoute, TypeOK, Submitted
  <1>2. UNCHANGED <<watch, pushes, reroutes, local>> /\ inbound' = inbound \cup {x}
    BY DEF SubmitRoute, watchVars, clusterVars
  <1>3. Held' \subseteq Held \cup {x}
    BY <1>2 DEF Held
  <1>4. Submitted' = Submitted \cup {g}
    BY DEF SubmitRoute, TypeOK, Submitted
  <1>5. CASE watch # "counting"
    <2>1. Cardinality(Held \cup pushes) <= reroutes + Cardinality(Submitted)
      BY <1>5 DEF PaidInv
    <2>2. Held' \cup pushes \subseteq (Held \cup pushes) \cup {x}
      BY <1>3
    <2>3. Cardinality(Held' \cup pushes) <= reroutes' + Cardinality(Submitted')
      BY <1>1, <1>2, <1>4, <2>1, <2>2, SubmitPaysForOne, HeldType
    <2> QED
      BY <1>2, <1>5, <2>3 DEF PaidInv
  <1>6. CASE watch = "counting"
    <2>1. PICK p \in pushes :
            Cardinality(Held \cup (pushes \ {p})) <= reroutes + Cardinality(Submitted)
      BY <1>6 DEF PaidInv
    <2>2. Held' \cup (pushes \ {p}) \subseteq (Held \cup (pushes \ {p})) \cup {x}
      BY <1>3
    <2>3. Cardinality(Held' \cup (pushes \ {p})) <= reroutes' + Cardinality(Submitted')
      BY <1>1, <1>2, <1>4, <2>1, <2>2, SubmitPaysForOne, HeldType
    <2> QED
      BY <1>2, <1>6, <2>1, <2>3 DEF PaidInv
  <1> QED
    BY <1>5, <1>6

LEMMA RerouteIsPaid ==
    ASSUME TypeOK, TypeOK', PaidInv, NEW g \in Job, RerouteJob(g)
    PROVE  PaidInv'
  <1>1. watch = "saving" /\ UNCHANGED <<reroutes, local, inbound, submit>>
    BY DEF RerouteJob, handlerVars, clusterVars
  <1>2. Held' = Held /\ Submitted' = Submitted
    BY <1>1 DEF Held, Submitted
  <1>3. Cardinality(Held \cup pushes) <= reroutes + Cardinality(Submitted)
    BY <1>1 DEF PaidInv
  <1>4. CASE UNCHANGED <<watch, pushes>>
    BY <1>1, <1>2, <1>4, PaidFrame
  <1>5. ASSUME NEW c \in others, pushes' = pushes \cup {<<g, c>>}, watch' = "counting"
        PROVE  PaidInv'
    <2>1. Held' \cup (pushes' \ {<<g, c>>}) \subseteq Held \cup pushes
      BY <1>2, <1>5
    <2>2. Cardinality(Held' \cup (pushes' \ {<<g, c>>})) <= reroutes' + Cardinality(Submitted')
      BY <1>1, <1>2, <1>3, <2>1, PaidStep, HeldType
    <2>3. <<g, c>> \in pushes'
      BY <1>5
    <2> QED
      BY <1>5, <2>2, <2>3 DEF PaidInv
  <1> QED
    BY <1>4, <1>5 DEF RerouteJob

LEMMA CountIsPaid ==
    ASSUME TypeOK, TypeOK', PaidInv, RerouteCount
    PROVE  PaidInv'
  <1>1. watch = "counting" /\ watch' = "saving" /\ reroutes' = reroutes + 1
        /\ UNCHANGED <<pushes, local, inbound, submit>>
    BY DEF RerouteCount, handlerVars, clusterVars
  <1>2. Held' = Held /\ Submitted' = Submitted
    BY <1>1 DEF Held, Submitted
  <1>3. PICK p \in pushes :
          Cardinality(Held \cup (pushes \ {p})) <= reroutes + Cardinality(Submitted)
    BY <1>1 DEF PaidInv
  <1> DEFINE A == Held \cup (pushes \ {p})
             B == Held \cup pushes
  <1>4. A \in SUBSET (Job \X Cluster) /\ p \in Job \X Cluster /\ B \in SUBSET (A \cup {p})
        /\ B \in SUBSET (Job \X Cluster)
    BY HeldType
  <1>5. Cardinality(B) <= Cardinality(A) + 1
    <2> HIDE DEF A, B
    <2> QED
      BY <1>4, OneMorePair
  <1>6. Cardinality(A) \in Nat /\ Cardinality(B) \in Nat /\ reroutes \in Nat
        /\ Cardinality(Submitted) \in Nat
    <2> HIDE DEF A, B
    <2> QED
      BY <1>4, PairsAreFinite, JobsAreFinite, HeldType
  <1>7. Cardinality(B) <= reroutes' + Cardinality(Submitted)
    <2> HIDE DEF B
    <2> QED
      BY <1>1, <1>3, <1>5, <1>6
  <1> QED
    BY <1>1, <1>2, <1>7 DEF PaidInv

\* The restart of the controller drops the pushes it had not sent.
LEMMA RestartIsPaid ==
    ASSUME TypeOK, TypeOK', PaidInv, Restart
    PROVE  PaidInv'
  <1>1. watch' = "idle" /\ pushes' = {} /\ UNCHANGED <<reroutes, local, inbound>>
    BY DEF Restart, registryVars, clusterVars
  <1>2. Held' = Held /\ Submitted \subseteq Submitted'
    BY <1>1 DEF Restart, Held, Submitted
  <1>3. PICK P \in SUBSET (Job \X Cluster) :
          Cardinality(Held \cup P) <= reroutes + Cardinality(Submitted)
    BY HeldType DEF PaidInv
  <1>4. Cardinality(Held' \cup {}) <= reroutes' + Cardinality(Submitted')
    BY <1>1, <1>2, <1>3, PaidStep
  <1> QED
    BY <1>1, <1>4 DEF PaidInv

LEMMA PushIsPaid ==
    ASSUME TypeOK, TypeOK', PaidInv, FailoverPush
    PROVE  PaidInv'
  <1>1. watch = "pushing" /\ watch' # "counting" /\ UNCHANGED <<reroutes, local, submit>>
    BY DEF FailoverPush, registryVars, handlerVars, clusterVars
  <1>2. Held' \cup pushes' \subseteq Held \cup pushes
    BY <1>1 DEF FailoverPush, Held
  <1>3. Cardinality(Held \cup pushes) <= reroutes + Cardinality(Submitted)
    BY <1>1 DEF PaidInv
  <1>4. Submitted' = Submitted
    BY <1>1 DEF Submitted
  <1>5. Cardinality(Held' \cup pushes') <= reroutes' + Cardinality(Submitted')
    BY <1>1, <1>2, <1>3, <1>4, PaidStep, HeldType
  <1> QED
    BY <1>1, <1>5 DEF PaidInv

\* Steps of the watch loop that neither push nor reroute.
LEMMA LoopIsPaid ==
    ASSUME TypeOK, TypeOK', PaidInv, watch # "counting", watch' # "counting",
           UNCHANGED <<pushes, reroutes, local, inbound, submit>>
    PROVE  PaidInv'
  <1>1. Held' = Held /\ Submitted' = Submitted
    BY DEF Held, Submitted
  <1>2. Cardinality(Held \cup pushes) <= reroutes + Cardinality(Submitted)
    BY DEF PaidInv
  <1>3. Cardinality(Held' \cup pushes') <= reroutes' + Cardinality(Submitted')
    BY <1>1, <1>2, PaidStep, HeldType
  <1> QED
    BY <1>3 DEF PaidInv

LEMMA PaidNext == TypeOK /\ TypeOK' /\ PaidInv /\ [Next]_vars => PaidInv'
  <1> SUFFICES ASSUME TypeOK, TypeOK', PaidInv, [Next]_vars PROVE PaidInv'
    OBVIOUS
  <1>1. ASSUME NEW g \in Job, SubmitDecide(g) \/ SubmitDone(g) \/ SubmitFail(g) PROVE PaidInv'
    <2>1. UNCHANGED <<watch, pushes, reroutes, local, inbound>>
      BY <1>1 DEF SubmitDecide, SubmitDone, SubmitFail, SubmitReturns, watchVars, clusterVars
    <2>2. Held' = Held
      BY <2>1 DEF Held
    <2>3. Submitted \subseteq Submitted'
      BY <1>1 DEF SubmitDecide, SubmitDone, SubmitFail, SubmitReturns, Submitted, TypeOK
    <2> QED
      BY <2>1, <2>2, <2>3, PaidFrame
  <1>2. ASSUME NEW g \in Job, SubmitRoute(g) PROVE PaidInv'
    BY <1>2, SubmitIsPaid
  <1>3. ASSUME NEW g \in Job, RerouteJob(g) PROVE PaidInv'
    BY <1>3, RerouteIsPaid
  <1>4. CASE RerouteCount
    BY <1>4, CountIsPaid
  <1>5. CASE Restart
    BY <1>5, RestartIsPaid
  <1>6. CASE FailoverPush
    BY <1>6, PushIsPaid
  <1>7. CASE SweepList \/ RerouteClusters \/ RerouteJobs \/ RerouteEnd \/ FailoverReply
    BY <1>7, LoopIsPaid DEF SweepList, RerouteClusters, RerouteJobs, RerouteEnd, FailoverReply,
                            registryVars, handlerVars, clusterVars
  <1>8. ASSUME NEW c \in Cluster, SweepMark(c) PROVE PaidInv'
    BY <1>8, LoopIsPaid DEF SweepMark, handlerVars, clusterVars
  <1>9. ASSUME UNCHANGED <<watch, pushes, reroutes, local, inbound, submit>> PROVE PaidInv'
    BY <1>9, PaidFrame DEF Held, Submitted
  <1>10. \A c \in Cluster : Register(c) \/ Heartbeat(c)
            => UNCHANGED <<watch, pushes, reroutes, local, inbound, submit>>
    BY DEF Register, Heartbeat, watchVars, handlerVars, clusterVars
  <1>11. \A r \in Report : CompleteGet(r) \/ LoseReport(r)
            => UNCHANGED <<watch, pushes, reroutes, local, inbound, submit>>
    BY DEF CompleteGet, LoseReport, watchVars, handlerVars, registryVars
  <1>12. CompleteSave => UNCHANGED <<watch, pushes, reroutes, local, inbound, submit>>
    BY DEF CompleteSave, watchVars, clusterVars
  <1>13. ASSUME NEW g \in Job, NEW c \in Cluster,
                Inbound(g, c) \/ LoseInbound(g, c) \/ \E ok \in BOOLEAN : Result(g, c, ok)
         PROVE  PaidInv'
    <2>1. UNCHANGED <<watch, pushes, reroutes, submit>>
      BY <1>13 DEF Inbound, LoseInbound, Result, watchVars, registryVars, handlerVars
    <2>2. Held' \subseteq Held
      <3>1. CASE Inbound(g, c)
        <4>1. \A h \in Job, d \in Cluster :
                local'[d][h] # "none" => local[d][h] # "none" \/ <<h, d>> = <<g, c>>
          BY <3>1 DEF Inbound, TypeOK
        <4>2. <<g, c>> \in inbound /\ inbound' \subseteq inbound
          BY <3>1 DEF Inbound
        <4> QED
          BY <4>1, <4>2 DEF Held
      <3>2. CASE LoseInbound(g, c)
        BY <3>2 DEF LoseInbound, Held, clusterVars
      <3>3. ASSUME NEW ok \in BOOLEAN, Result(g, c, ok) PROVE Held' \subseteq Held
        <4>1. \A h \in Job, d \in Cluster : local'[d][h] # "none" => local[d][h] # "none"
          BY <3>3 DEF Result, TypeOK
        <4> QED
          BY <3>3, <4>1 DEF Result, Held
      <3> QED
        BY <1>13, <3>1, <3>2, <3>3
    <2> QED
      BY <2>1, <2>2, PaidFrame DEF Submitted
  <1>14. UNCHANGED vars => UNCHANGED <<watch, pushes, reroutes, local, inbound, submit>>
    BY DEF vars, watchVars, registryVars, handlerVars, clusterVars
  <1>15. CASE Next
    BY <1>15, <1>1, <1>2, <1>3, <1>4, <1>5, <1>6, <1>7, <1>8, <1>9, <1>10, <1>11, <1>12, <1>13,
       Zenon DEF Next, Submit, Watch, ClusterStep
  <1> QED
    BY <1>9, <1>14, <1>15

\* HoldersArePaidFor for any number of jobs, clusters, sweeps and restarts: no
\* job gets to one more cluster without a counted reroute (failover.py:46-49).
THEOREM NoUncountedCopies == Spec => []HoldersArePaidFor
  <1>1. Init => PaidInv
    <2> SUFFICES ASSUME Init PROVE PaidInv
      OBVIOUS
    <2>1. Held \cup pushes = {} /\ Submitted = {}
      BY DEF Init, Held, Submitted
    <2>2. watch # "counting" /\ reroutes = 0
      BY DEF Init
    <2> QED
      BY <2>1, <2>2, FS_EmptySet DEF PaidInv
  <1>2. TypeOK /\ PaidInv => HoldersArePaidFor
    <2> SUFFICES ASSUME TypeOK, PaidInv PROVE HoldersArePaidFor
      OBVIOUS
    <2>1. PICK P \in SUBSET (Job \X Cluster) :
            Cardinality(Held \cup P) <= reroutes + Cardinality(Submitted)
      BY HeldType DEF PaidInv
    <2>2. Held \cup P \in SUBSET (Job \X Cluster) /\ Held \in SUBSET (Held \cup P)
      BY HeldType
    <2> QED
      BY <2>1, <2>2, StillPaid, HeldType DEF HoldersArePaidFor
  <1> QED
    BY <1>1, <1>2, TypeInit, TypeNext, PaidNext, PTL DEF Spec

=============================================================================
