---------------------------- MODULE GossipProofs ----------------------------
(***************************************************************************)
(* Theorems about Gossip, for any number of clusters, any TTL, fan-out and *)
(* seeds, any duration of pushes, with losses, stops and partitions.       *)
(***************************************************************************)
EXTENDS Gossip, TLAPS

-----------------------------------------------------------------------------
(* Type correctness *)

Row == Record \cup {NoPeer}

LEMMA Ages ==
    /\ Oldest \in Nat /\ 0 \in Age /\ TTL \in Nat /\ Timeout \in Nat
    /\ \A a \in Age : a \in Nat /\ Older(a) \in Age
  BY TimeAssumption DEF Oldest, Age, Older

LEMMA OlderRowsType ==
    ASSUME NEW rows \in [Cluster -> Row]
    PROVE  OlderRows(rows) \in [Cluster -> Row]
  <1>1. \A r \in Row : OlderRow(r) \in Row
    BY Ages DEF OlderRow, Row, Record
  <1> QED
    BY <1>1 DEF OlderRows

LEMMA MergedType ==
    ASSUME NEW rows \in [Cluster -> Row], NEW m \in Message
    PROVE  Merged(rows, m) \in [Cluster -> Row]
  <1>1. [ver |-> m.age, seen |-> m.age] \in Row /\ m.rows \in [Cluster -> Row]
    BY DEF Message, Row, Record
  <1>2. \A d \in Cluster : Merged(rows, m)[d] \in Row
    BY <1>1 DEF Merged
  <1> QED
    BY <1>2 DEF Merged

Stage == {"sleeping", "expired", "pushing", "seeding"}
Place == {"none", "list", "sent", "answered", "hint"}

HintIsRead == \A c \in Cluster : (\E d \in Cluster : push[c][d] = "hint") => read[c] \in Record

\* The mesh thread is in one latency hint at a time.
OneHint == \A c, d, e \in Cluster : push[c][d] = "hint" /\ push[c][e] = "hint" => d = e

LEMMA TypeParts ==
    GossipTypeOK <=>
        /\ up \in SUBSET Cluster
        /\ downFor \in [Cluster -> Age]
        /\ peers \in [Cluster -> [Cluster -> Row]]
        /\ round \in [Cluster -> Stage]
        /\ snap \in [Cluster -> Age]
        /\ push \in [Cluster -> [Cluster -> Place]]
        /\ read \in [Cluster -> Row]
        /\ sent \in SUBSET Message
        /\ net \in {"whole", "split", "healed"}
        /\ side \in SUBSET Cluster
        /\ stops \in 0 .. MaxStops
        /\ HintIsRead
  BY DEF GossipTypeOK, Stage, Place, Row, HintIsRead

LEMMA TypePartsNext ==
    GossipTypeOK' <=>
        /\ up' \in SUBSET Cluster
        /\ downFor' \in [Cluster -> Age]
        /\ peers' \in [Cluster -> [Cluster -> Row]]
        /\ round' \in [Cluster -> Stage]
        /\ snap' \in [Cluster -> Age]
        /\ push' \in [Cluster -> [Cluster -> Place]]
        /\ read' \in [Cluster -> Row]
        /\ sent' \in SUBSET Message
        /\ net' \in {"whole", "split", "healed"}
        /\ side' \in SUBSET Cluster
        /\ stops' \in 0 .. MaxStops
        /\ HintIsRead'
  BY DEF GossipTypeOK, Stage, Place, Row, HintIsRead

LEMMA GossipTypeInit == GossipInit => GossipTypeOK
  <1> SUFFICES ASSUME GossipInit PROVE GossipTypeOK
    OBVIOUS
  <1>1. peers \in [Cluster -> [Cluster -> Row]] /\ read \in [Cluster -> Row] /\ HintIsRead
    BY DEF GossipInit, Row, HintIsRead
  <1>2. Oldest \in Age /\ 0 \in 0 .. MaxStops
    BY Ages, TimeAssumption DEF Age
  <1>3. round \in [Cluster -> Stage] /\ push \in [Cluster -> [Cluster -> Place]]
    BY DEF GossipInit, Stage, Place
  <1> QED
    BY <1>1, <1>2, <1>3, Ages, TypeParts DEF GossipInit

\* One push moves on.
LEMMA PushMoves ==
    ASSUME GossipTypeOK, NEW c \in Cluster, NEW d \in Cluster, NEW v \in Place,
           push' = [push EXCEPT ![c][d] = v]
    PROVE  /\ push' \in [Cluster -> [Cluster -> Place]]
           /\ \A x, y \in Cluster : push'[x][y] = IF x = c /\ y = d THEN v ELSE push[x][y]
  BY TypeParts

\* One step of the gossip loop keeps the types.
LEMMA LoopType ==
    ASSUME GossipTypeOK, OneHint, NEW c \in Cluster, GossipLoop(c)
    PROVE  GossipTypeOK' /\ OneHint'
  <1> USE TypeParts, TypePartsNext
  <1>1. CASE Expire(c)
    <2>1. Unexpired(c) \in [Cluster -> Row]
      BY DEF Unexpired, Row
    <2>2. peers' \in [Cluster -> [Cluster -> Row]]
      BY <1>1, <2>1 DEF Expire
    <2>3. HintIsRead' /\ OneHint' /\ round' \in [Cluster -> Stage]
      BY <1>1 DEF Expire, HintIsRead, OneHint, Stage
    <2> QED
      BY <1>1, <2>2, <2>3, Ages DEF Expire
  <1>2. CASE Pick(c)
    <2>1. push' \in [Cluster -> [Cluster -> Place]]
      BY <1>2 DEF Pick, Place
    <2>2. round' \in [Cluster -> Stage]
      BY <1>2 DEF Pick, Stage
    <2>3. HintIsRead' /\ OneHint'
      BY <1>2 DEF Pick, HintIsRead, OneHint
    <2> QED
      BY <1>2, <2>1, <2>2, <2>3 DEF Pick
  <1>3. ASSUME NEW d \in Cluster, Push(c, d) PROVE GossipTypeOK' /\ OneHint'
    <2>1. [peers[c] EXCEPT ![d] = NoPeer] \in [Cluster -> Row]
      BY DEF Row
    <2>2. [from |-> c, to |-> d, age |-> snap[c], rows |-> [peers[c] EXCEPT ![d] = NoPeer]] \in Message
      BY <2>1 DEF Message, Row
    <2>3. sent' \in SUBSET Message
      BY <1>3, <2>2 DEF Push
    <2>4. push' \in [Cluster -> [Cluster -> Place]] /\ HintIsRead' /\ OneHint'
      BY <1>3 DEF Push, Place, HintIsRead, OneHint
    <2> QED
      BY <1>3, <2>3, <2>4 DEF Push
  <1>4. ASSUME NEW d \in Cluster, PushFails(c, d) PROVE GossipTypeOK' /\ OneHint'
    <2>1. push' \in [Cluster -> [Cluster -> Place]] /\ HintIsRead' /\ OneHint'
      BY <1>4 DEF PushFails, Place, HintIsRead, OneHint
    <2>2. sent' \in SUBSET Message
      BY <1>4 DEF PushFails
    <2> QED
      BY <1>4, <2>1, <2>2 DEF PushFails
  <1>5. ASSUME NEW d \in Cluster, HintRead(c, d) PROVE GossipTypeOK' /\ OneHint'
    <2>1. CASE round[c] = "seeding" \/ peers[c][d] = NoPeer
      <3>0. push' = [push EXCEPT ![c][d] = "none"] /\ "none" \in Place
        BY <1>5, <2>1 DEF HintRead, Place
      <3>1. push' \in [Cluster -> [Cluster -> Place]]
        BY <3>0, PushMoves
      <3>2. \A x, y \in Cluster : push'[x][y] = "hint" => push[x][y] = "hint"
        BY <3>0, PushMoves
      <3>3. read' = read
        BY <1>5, <2>1 DEF HintRead
      <3>4. HintIsRead' /\ OneHint'
        BY <3>2, <3>3 DEF HintIsRead, OneHint
      <3> QED
        BY <1>5, <3>1, <3>3, <3>4 DEF HintRead
    <2>2. CASE ~ (round[c] = "seeding" \/ peers[c][d] = NoPeer)
      <3>1. read' = [read EXCEPT ![c] = peers[c][d]] /\ push' = [push EXCEPT ![c][d] = "hint"]
        BY <1>5, <2>2 DEF HintRead
      <3>2. peers[c][d] \in Record /\ peers[c][d] \in Row
        BY <2>2 DEF Row
      <3>3. push' \in [Cluster -> [Cluster -> Place]] /\ read' \in [Cluster -> Row]
        BY <3>1, <3>2 DEF Place
      <3>4. \A x, y \in Cluster : push'[x][y] = "hint" =>
             (x = c /\ y = d) \/ (x # c /\ push[x][y] = "hint")
        <4>1. "hint" \in Place /\ \A y \in Cluster : push[c][y] # "hint"
          BY <1>5 DEF HintRead, Free, Place
        <4>2. \A x, y \in Cluster : push'[x][y] = IF x = c /\ y = d THEN "hint" ELSE push[x][y]
          BY <3>1, <4>1, PushMoves
        <4> QED
          BY <4>1, <4>2
      <3>5. HintIsRead' /\ OneHint'
        BY <3>1, <3>2, <3>4 DEF HintIsRead, OneHint
      <3> QED
        BY <1>5, <3>3, <3>5 DEF HintRead
    <2> QED
      BY <2>1, <2>2
  <1>6. ASSUME NEW d \in Cluster, HintWrite(c, d) PROVE GossipTypeOK' /\ OneHint'
    <2>1. read[c] \in Record
      BY <1>6 DEF HintWrite, HintIsRead
    <2>2. [read[c] EXCEPT !.seen = 0] \in Row
      BY <2>1, Ages DEF Record, Row
    <2>3. peers' \in [Cluster -> [Cluster -> Row]]
      BY <1>6, <2>2 DEF HintWrite
    <2>4. push' \in [Cluster -> [Cluster -> Place]] /\ read' \in [Cluster -> Row]
      BY <1>6 DEF HintWrite, Place, Row
    <2>5. \A x, y \in Cluster : push'[x][y] = "hint" => x # c /\ push[x][y] = "hint"
      BY <1>6 DEF HintWrite, OneHint
    <2>6. \A x \in Cluster : x # c => read'[x] = read[x]
      BY <1>6 DEF HintWrite
    <2>7. HintIsRead' /\ OneHint'
      BY <2>5, <2>6 DEF HintIsRead, OneHint
    <2> QED
      BY <1>6, <2>3, <2>4, <2>7 DEF HintWrite
  <1> QED
    BY <1>1, <1>2, <1>3, <1>4, <1>5, <1>6 DEF GossipLoop

\* A step of the server, the network, a cluster or time keeps the types.
LEMMA WorldType ==
    ASSUME GossipTypeOK, OneHint,
           \/ \E c \in Cluster : Start(c) \/ Stop(c)
           \/ \E m \in sent : Receive(m)
           \/ Split \/ Heal \/ Time
    PROVE  GossipTypeOK' /\ OneHint'
  <1> USE TypeParts, TypePartsNext
  <1>1. ASSUME NEW c \in Cluster, Start(c) PROVE GossipTypeOK' /\ OneHint'
    <2>1. HintIsRead' /\ OneHint'
      BY <1>1 DEF Start, meshThread, HintIsRead, OneHint
    <2> QED
      BY <1>1, <2>1, Ages DEF Start, meshThread
  <1>2. ASSUME NEW c \in Cluster, Stop(c) PROVE GossipTypeOK' /\ OneHint'
    <2>1. push' \in [Cluster -> [Cluster -> Place]] /\ read' \in [Cluster -> Row] /\ round' \in [Cluster -> Stage]
      BY <1>2 DEF Stop, Place, Row, Stage
    <2>2. \A x, y \in Cluster : push'[x][y] = "hint" => x # c /\ push[x][y] = "hint"
      BY <1>2 DEF Stop
    <2>3. \A x \in Cluster : x # c => read'[x] = read[x]
      BY <1>2 DEF Stop
    <2>4. HintIsRead' /\ OneHint'
      BY <2>2, <2>3 DEF HintIsRead, OneHint
    <2>5. stops' \in 0 .. MaxStops
      BY <1>2, TimeAssumption DEF Stop
    <2> QED
      BY <1>2, <2>1, <2>4, <2>5, Ages DEF Stop
  <1>3. ASSUME NEW m \in sent, Receive(m) PROVE GossipTypeOK' /\ OneHint'
    <2>1. m \in Message /\ m.from \in Cluster /\ m.to \in Cluster
      BY DEF Message
    <2>2. peers' \in [Cluster -> [Cluster -> Row]]
      BY <1>3, <2>1, MergedType DEF Receive
    <2>0. /\ push' = push \/ push' = [push EXCEPT ![m.from][m.to] = "answered"]
          /\ "answered" \in Place
      BY <1>3 DEF Receive, Place
    <2>3. push' \in [Cluster -> [Cluster -> Place]]
      <3>1. CASE push' = push
        BY <3>1
      <3>2. CASE push' = [push EXCEPT ![m.from][m.to] = "answered"]
        BY <3>2, <2>0, <2>1, PushMoves
      <3> QED
        BY <2>0, <3>1, <3>2
    <2>4. \A x, y \in Cluster : push'[x][y] = "hint" => push[x][y] = "hint"
      <3>1. CASE push' = push
        BY <3>1
      <3>2. CASE push' = [push EXCEPT ![m.from][m.to] = "answered"]
        BY <3>2, <2>0, <2>1, PushMoves
      <3> QED
        BY <2>0, <3>1, <3>2
    <2>5. read' = read /\ sent' \in SUBSET Message
      BY <1>3 DEF Receive
    <2>6. HintIsRead' /\ OneHint'
      BY <2>4, <2>5 DEF HintIsRead, OneHint
    <2> QED
      BY <1>3, <2>2, <2>3, <2>5, <2>6 DEF Receive
  <1>4. CASE Split
    <2>1. HintIsRead' /\ OneHint'
      BY <1>4 DEF Split, meshThread, HintIsRead, OneHint
    <2> QED
      BY <1>4, <2>1 DEF Split, meshThread
  <1>5. CASE Heal
    <2>1. HintIsRead' /\ OneHint'
      BY <1>5 DEF Heal, meshThread, HintIsRead, OneHint
    <2> QED
      BY <1>5, <2>1 DEF Heal, meshThread
  <1>6. CASE Time
    <2>1. HintIsRead' /\ OneHint'
      <3>1. push' = push /\ read' = read
        BY <1>6 DEF Time
      <3> QED
        BY <3>1 DEF HintIsRead, OneHint
    <2>2. peers' \in [Cluster -> [Cluster -> Row]]
      BY <1>6, OlderRowsType DEF Time
    <2>3. downFor' \in [Cluster -> Age] /\ snap' \in [Cluster -> Age] /\ round' \in [Cluster -> Stage]
      BY <1>6, Ages DEF Time, Stage
    <2>4. \A m \in Message : [m EXCEPT !.age = Older(@), !.rows = OlderRows(@)] \in Message
      BY Ages, OlderRowsType DEF Message, Row
    <2>5. sent' \in SUBSET Message
      <3>1. sent' = {[m EXCEPT !.age = Older(@), !.rows = OlderRows(@)] : m \in {m \in sent : m.age < Timeout}}
        BY <1>6 DEF Time
      <3>2. {m \in sent : m.age < Timeout} \subseteq Message
        OBVIOUS
      <3> QED
        BY <2>4, <3>1, <3>2
    <2> QED
      BY <1>6, <2>1, <2>2, <2>3, <2>5 DEF Time
  <1> QED
    BY <1>1, <1>2, <1>3, <1>4, <1>5, <1>6

LEMMA GossipTypeNext ==
    GossipTypeOK /\ OneHint /\ [GossipNext]_gossipVars => GossipTypeOK' /\ OneHint'
  <1> SUFFICES ASSUME GossipTypeOK, OneHint, [GossipNext]_gossipVars PROVE GossipTypeOK' /\ OneHint'
    OBVIOUS
  <1>1. CASE UNCHANGED gossipVars
    <2>1. HintIsRead <=> HintIsRead'
      BY <1>1 DEF gossipVars, meshThread, HintIsRead
    <2> QED
      BY <1>1, <2>1, TypeParts, TypePartsNext DEF gossipVars, meshThread, OneHint
  <1>2. CASE GossipNext
    BY <1>2, LoopType, WorldType DEF GossipNext
  <1> QED
    BY <1>1, <1>2

\* Every registry, message and hint holds records of the right form, whatever the
\* order of merges, sweeps and hints; a latency hint that reaches its UPDATE has
\* read a record (update_latency_hint).
THEOREM GossipTypeCorrect == GossipSpec => []GossipTypeOK
  <1>1. GossipInit => OneHint
    BY DEF GossipInit, OneHint
  <1> QED
    BY <1>1, GossipTypeInit, GossipTypeNext, PTL DEF GossipSpec

-----------------------------------------------------------------------------
(* No dead cluster looks alive *)

\* The records of clusters that are down, in the registries and on their way.
HeldHonest ==
    \A d \in Cluster \ up : \A c \in Cluster :
        peers[c][d] # NoPeer => peers[c][d].seen + Timeout >= downFor[d]

SentHonest ==
    \A d \in Cluster \ up : \A m \in sent :
        m.rows[d] # NoPeer => m.rows[d].seen + Timeout >= downFor[d]

\* A peer that answered was up when the round of the push began, or later.
AnswerFresh ==
    \A c, d \in Cluster : push[c][d] \in {"answered", "hint"} /\ d \notin up => snap[c] >= downFor[d]

\* A snapshot was taken while its sender was up.
SenderFresh == \A m \in sent : m.from \notin up => m.age >= downFor[m.from]

\* A round lasts no longer than its pushes, and ends when its cluster stops.
RoundTimed ==
    \A c \in Cluster :
        /\ \A d \in Cluster : push[c][d] # "none" => round[c] \in {"pushing", "seeding"} /\ snap[c] <= Timeout
        /\ round[c] \in {"sleeping", "expired"} => snap[c] = 0
        /\ c \notin up => round[c] = "sleeping"
        /\ c \in up => downFor[c] = 0

HonestParts == HeldHonest /\ SentHonest /\ AnswerFresh /\ SenderFresh /\ RoundTimed

LEMMA HonestInit == GossipInit => HonestParts
  BY TimeAssumption DEF GossipInit, HonestParts, HeldHonest, SentHonest, AnswerFresh, SenderFresh, RoundTimed

LEMMA RowSeen == \A r \in Row : r # NoPeer => r \in Record /\ r.seen \in Nat
  BY Ages DEF Row, Record

LEMMA LoopHonest ==
    ASSUME GossipTypeOK, HonestParts, NEW c \in Cluster, GossipLoop(c)
    PROVE  HonestParts'
  <1> USE TypeParts DEF HonestParts
  <1>1. CASE Expire(c)
    <2>1. \A x, d \in Cluster : peers'[x][d] # NoPeer => peers[x][d] # NoPeer /\ peers'[x][d] = peers[x][d]
      BY <1>1 DEF Expire, Unexpired
    <2>2. HeldHonest' /\ SentHonest' /\ SenderFresh'
      BY <1>1, <2>1 DEF Expire, HeldHonest, SentHonest, SenderFresh
    <2>3. \A d \in Cluster : push[c][d] = "none"
      BY <1>1 DEF Expire, RoundTimed
    <2>4. AnswerFresh'
      BY <1>1, <2>3 DEF Expire, AnswerFresh
    <2>5. RoundTimed'
      BY <1>1, <2>3 DEF Expire, RoundTimed, Stage
    <2> QED
      BY <2>2, <2>4, <2>5
  <1>2. CASE Pick(c)
    <2>1. HeldHonest' /\ SentHonest' /\ SenderFresh'
      BY <1>2 DEF Pick, HeldHonest, SentHonest, SenderFresh
    <2>2. \A x, d \in Cluster : push'[x][d] \in {"answered", "hint"} => push[x][d] \in {"answered", "hint"}
      BY <1>2 DEF Pick
    <2>3. AnswerFresh'
      BY <1>2, <2>2 DEF Pick, AnswerFresh
    <2>4. c \in up /\ snap[c] = 0 /\ 0 <= Timeout
      BY <1>2, Ages DEF Pick, RoundTimed
    <2>5. \A x, d \in Cluster : x # c => push'[x][d] = push[x][d] /\ round'[x] = round[x]
      BY <1>2 DEF Pick
    <2>6. round'[c] \in {"pushing", "seeding"}
      BY <1>2 DEF Pick
    <2>7. RoundTimed'
      BY <1>2, <2>4, <2>5, <2>6 DEF Pick, RoundTimed
    <2> QED
      BY <2>1, <2>3, <2>7
  <1>3. ASSUME NEW d \in Cluster, Push(c, d) PROVE HonestParts'
    <2> DEFINE msg == [from |-> c, to |-> d, age |-> snap[c], rows |-> [peers[c] EXCEPT ![d] = NoPeer]]
    <2>1. c \in up
      BY <1>3 DEF Push, RoundTimed
    <2>2. /\ sent' = sent \cup {msg}
          /\ push' = [push EXCEPT ![c][d] = "sent"] /\ "sent" \in Place
          /\ UNCHANGED <<up, downFor, peers, snap, round>>
      BY <1>3 DEF Push, Place
    <2>3. \A x \in Cluster : msg.rows[x] # NoPeer => msg.rows[x] = peers[c][x]
      OBVIOUS
    <2>4. HeldHonest' /\ SentHonest'
      BY <2>2, <2>3 DEF HeldHonest, SentHonest
    <2>5. SenderFresh'
      BY <2>1, <2>2 DEF SenderFresh
    <2>6. \A x, y \in Cluster : push'[x][y] = IF x = c /\ y = d THEN "sent" ELSE push[x][y]
      BY <2>2, PushMoves
    <2> HIDE DEF msg
    <2>7. AnswerFresh'
      BY <2>2, <2>6 DEF AnswerFresh
    <2>8. push[c][d] # "none"
      BY <1>3 DEF Push
    <2>9. RoundTimed'
      BY <2>2, <2>6, <2>8 DEF RoundTimed
    <2> QED
      BY <2>4, <2>5, <2>7, <2>9
  <1>4. ASSUME NEW d \in Cluster, PushFails(c, d) PROVE HonestParts'
    <2>1. /\ sent' \subseteq sent
          /\ push' = [push EXCEPT ![c][d] = "none"] /\ "none" \in Place
          /\ UNCHANGED <<up, downFor, peers, snap, round>>
      BY <1>4 DEF PushFails, Place
    <2>2. \A x, y \in Cluster : push'[x][y] = IF x = c /\ y = d THEN "none" ELSE push[x][y]
      BY <2>1, PushMoves
    <2>3. HeldHonest' /\ SentHonest' /\ SenderFresh'
      BY <2>1 DEF HeldHonest, SentHonest, SenderFresh
    <2>4. AnswerFresh' /\ RoundTimed'
      BY <2>1, <2>2 DEF AnswerFresh, RoundTimed
    <2> QED
      BY <2>3, <2>4
  <1>5. ASSUME NEW d \in Cluster, HintRead(c, d) PROVE HonestParts'
    <2>1. /\ push' = [push EXCEPT ![c][d] = "none"] \/ push' = [push EXCEPT ![c][d] = "hint"]
          /\ "none" \in Place /\ "hint" \in Place /\ push[c][d] = "answered"
          /\ UNCHANGED <<up, downFor, peers, snap, round, sent>>
      BY <1>5 DEF HintRead, Place
    <2>2. PICK v \in {"none", "hint"} : \A x, y \in Cluster : push'[x][y] = IF x = c /\ y = d THEN v ELSE push[x][y]
      <3>1. CASE push' = [push EXCEPT ![c][d] = "none"]
        BY <2>1, <3>1, PushMoves
      <3>2. CASE push' = [push EXCEPT ![c][d] = "hint"]
        BY <2>1, <3>2, PushMoves
      <3> QED
        BY <2>1, <3>1, <3>2
    <2>3. HeldHonest' /\ SentHonest' /\ SenderFresh'
      BY <2>1 DEF HeldHonest, SentHonest, SenderFresh
    <2>4. AnswerFresh' /\ RoundTimed'
      BY <2>1, <2>2 DEF AnswerFresh, RoundTimed
    <2> QED
      BY <2>3, <2>4
  <1>6. ASSUME NEW d \in Cluster, HintWrite(c, d) PROVE HonestParts'
    <2>1. /\ push' = [push EXCEPT ![c][d] = "none"] /\ "none" \in Place /\ push[c][d] = "hint"
          /\ UNCHANGED <<up, downFor, snap, round, sent>>
      BY <1>6 DEF HintWrite, Place
    <2>2. \A x, y \in Cluster : push'[x][y] = IF x = c /\ y = d THEN "none" ELSE push[x][y]
      BY <2>1, PushMoves
    <2>3. SentHonest' /\ SenderFresh' /\ AnswerFresh' /\ RoundTimed'
      BY <2>1, <2>2 DEF SentHonest, SenderFresh, AnswerFresh, RoundTimed
    <2>4. ASSUME d \notin up PROVE 0 + Timeout >= downFor[d]
      <3>1. snap[c] >= downFor[d] /\ snap[c] <= Timeout
        BY <2>1, <2>4 DEF AnswerFresh, RoundTimed
      <3>2. snap[c] \in Nat /\ downFor[d] \in Nat /\ Timeout \in Nat
        BY Ages
      <3> QED
        BY <3>1, <3>2
    <2>5. read[c] \in Record
      BY <1>6 DEF HintWrite, HintIsRead
    <2>6. \A x, y \in Cluster : peers'[x][y] # NoPeer =>
             (x = c /\ y = d /\ peers'[x][y].seen = 0) \/ peers'[x][y] = peers[x][y]
      <3>1. [read[c] EXCEPT !.seen = 0].seen = 0
        BY <2>5 DEF Record
      <3> QED
        BY <1>6, <3>1 DEF HintWrite
    <2>7. HeldHonest'
      <3> SUFFICES ASSUME NEW y \in Cluster \ up, NEW x \in Cluster, peers'[x][y] # NoPeer
                   PROVE  peers'[x][y].seen + Timeout >= downFor[y]
        BY <2>1 DEF HeldHonest
      <3>1. CASE x = c /\ y = d /\ peers'[x][y].seen = 0
        BY <2>4, <3>1
      <3>2. CASE peers'[x][y] = peers[x][y]
        BY <3>2 DEF HeldHonest
      <3> QED
        BY <2>6, <3>1, <3>2
    <2> QED
      BY <2>3, <2>7
  <1> QED
    BY <1>1, <1>2, <1>3, <1>4, <1>5, <1>6 DEF GossipLoop

LEMMA ReceiveHonest ==
    ASSUME GossipTypeOK, HonestParts, NEW m \in sent, Receive(m)
    PROVE  HonestParts'
  <1> USE TypeParts DEF HonestParts
  <1>1. m \in Message /\ m.from \in Cluster /\ m.to \in Cluster /\ m.age \in Age /\ m.to \in up
    BY DEF Message, Receive
  <1>2. /\ push' = push \/ (push[m.from][m.to] = "sent" /\ push' = [push EXCEPT ![m.from][m.to] = "answered"])
        /\ "answered" \in Place
        /\ sent' = sent \ {m}
        /\ peers' = [peers EXCEPT ![m.to] = Merged(peers[m.to], m)]
        /\ UNCHANGED <<up, downFor, snap, round>>
    BY DEF Receive, Place
  <1>3. SentHonest' /\ SenderFresh'
    BY <1>2 DEF SentHonest, SenderFresh
  <1>4. AnswerFresh' /\ RoundTimed'
    <2>1. CASE push' = push
      BY <1>2, <2>1 DEF AnswerFresh, RoundTimed
    <2>2. CASE push[m.from][m.to] = "sent" /\ push' = [push EXCEPT ![m.from][m.to] = "answered"]
      <3>1. \A x, y \in Cluster : push'[x][y] = IF x = m.from /\ y = m.to THEN "answered" ELSE push[x][y]
        BY <1>1, <1>2, <2>2, PushMoves
      <3> QED
        BY <1>1, <1>2, <2>2, <3>1 DEF AnswerFresh, RoundTimed
    <2> QED
      BY <1>2, <2>1, <2>2
  <1>5. HeldHonest'
    <2> SUFFICES ASSUME NEW d \in Cluster \ up, NEW c \in Cluster, peers'[c][d] # NoPeer
                 PROVE  peers'[c][d].seen + Timeout >= downFor[d]
      BY <1>2 DEF HeldHonest
    <2>1. CASE peers'[c][d] = peers[c][d]
      BY <2>1 DEF HeldHonest
    <2>2. CASE d = m.from /\ peers'[c][d] = [ver |-> m.age, seen |-> m.age]
      <3>1. m.age \in Nat /\ downFor[d] \in Nat /\ Timeout \in Nat /\ m.age >= downFor[d]
        BY <1>1, <2>2, Ages DEF SenderFresh
      <3> QED
        BY <2>2, <3>1
    <2>3. CASE peers'[c][d] = m.rows[d]
      BY <2>3 DEF SentHonest
    <2>4. \/ peers'[c][d] = peers[c][d]
          \/ d = m.from /\ peers'[c][d] = [ver |-> m.age, seen |-> m.age]
          \/ peers'[c][d] = m.rows[d]
      BY <1>1, <1>2 DEF Merged
    <2> QED
      BY <2>1, <2>2, <2>3, <2>4
  <1> QED
    BY <1>3, <1>4, <1>5

LEMMA ClusterHonest ==
    ASSUME GossipTypeOK, HonestParts, NEW c \in Cluster, Start(c) \/ Stop(c)
    PROVE  HonestParts'
  <1> USE TypeParts DEF HonestParts
  <1>1. CASE Start(c)
    <2>1. /\ up' = up \cup {c} /\ c \notin up
          /\ downFor' = [downFor EXCEPT ![c] = 0]
          /\ UNCHANGED <<peers, round, snap, push, sent>>
      BY <1>1 DEF Start, meshThread
    <2>2. HeldHonest' /\ SentHonest' /\ AnswerFresh'
      BY <2>1 DEF HeldHonest, SentHonest, AnswerFresh
    <2>3. SenderFresh'
      BY <2>1 DEF SenderFresh, Message
    <2>4. RoundTimed'
      BY <2>1 DEF RoundTimed
    <2> QED
      BY <2>2, <2>3, <2>4
  <1>2. CASE Stop(c)
    <2>1. /\ up' = up \ {c} /\ c \in up /\ downFor[c] = 0
          /\ round' = [round EXCEPT ![c] = "sleeping"]
          /\ snap' = [snap EXCEPT ![c] = 0]
          /\ push' = [push EXCEPT ![c] = [d \in Cluster |-> "none"]]
          /\ UNCHANGED <<downFor, peers, sent>>
      BY <1>2 DEF Stop, RoundTimed
    <2>2. \A x, y \in Cluster : push'[x][y] = IF x = c THEN "none" ELSE push[x][y]
      BY <2>1
    <2>3. \A x \in Cluster :
             /\ snap'[x] = IF x = c THEN 0 ELSE snap[x]
             /\ round'[x] = IF x = c THEN "sleeping" ELSE round[x]
      BY <2>1
    <2>4. HeldHonest'
      <3> SUFFICES ASSUME NEW d \in Cluster \ up', NEW x \in Cluster, peers[x][d] # NoPeer
                   PROVE  peers[x][d].seen + Timeout >= downFor[d]
        BY <2>1 DEF HeldHonest
      <3>1. CASE d = c
        BY <2>1, <3>1, RowSeen, Ages
      <3> QED
        BY <2>1, <3>1 DEF HeldHonest
    <2>5. SentHonest'
      <3> SUFFICES ASSUME NEW d \in Cluster \ up', NEW m \in sent, m.rows[d] # NoPeer
                   PROVE  m.rows[d].seen + Timeout >= downFor[d]
        BY <2>1 DEF SentHonest
      <3>1. CASE d = c
        <4>1. m.rows[d] \in Row
          BY DEF Message, Row
        <4> QED
          BY <2>1, <3>1, <4>1, RowSeen, Ages
      <3> QED
        BY <2>1, <3>1 DEF SentHonest
    <2>6. SenderFresh'
      <3> SUFFICES ASSUME NEW m \in sent, m.from \notin up' PROVE m.age >= downFor[m.from]
        BY <2>1 DEF SenderFresh
      <3>1. CASE m.from = c
        <4>1. m.age \in Nat
          BY Ages DEF Message
        <4> QED
          BY <2>1, <3>1, <4>1
      <3> QED
        BY <2>1, <3>1 DEF SenderFresh, Message
    <2>7. AnswerFresh'
      <3> SUFFICES ASSUME NEW x \in Cluster, NEW y \in Cluster, push'[x][y] \in {"answered", "hint"}, y \notin up'
                   PROVE  snap'[x] >= downFor[y]
        BY <2>1 DEF AnswerFresh
      <3>1. x # c /\ push[x][y] \in {"answered", "hint"} /\ snap'[x] = snap[x] /\ snap[x] \in Nat
        BY <2>2, <2>3, Ages
      <3>2. CASE y = c
        BY <2>1, <3>1, <3>2
      <3> QED
        BY <2>1, <3>1, <3>2 DEF AnswerFresh
    <2>8. RoundTimed'
      BY <2>1, <2>2, <2>3 DEF RoundTimed
    <2> QED
      BY <2>4, <2>5, <2>6, <2>7, <2>8
  <1> QED
    BY <1>1, <1>2

LEMMA OlderFacts ==
    /\ \A a, b \in Age : a >= b => Older(a) >= Older(b)
    /\ \A a, b \in Age : a + Timeout >= b => Older(a) + Timeout >= Older(b)
  BY TimeAssumption DEF Older, Age, Oldest

LEMMA OlderRowFacts ==
    \A r \in Row : OlderRow(r) # NoPeer =>
        r # NoPeer /\ r.seen \in Age /\ OlderRow(r).seen = Older(r.seen)
  BY DEF Row, Record, OlderRow

LEMMA TimeHonest ==
    ASSUME GossipTypeOK, HonestParts, Time
    PROVE  HonestParts'
  <1> USE TypeParts DEF HonestParts
  <1> DEFINE aged(m) == [m EXCEPT !.age = Older(@), !.rows = OlderRows(@)]
  <1>1. /\ UNCHANGED <<up, push>>
        /\ downFor' = [c \in Cluster |-> IF c \in up THEN 0 ELSE Older(downFor[c])]
        /\ peers' = [c \in Cluster |-> OlderRows(peers[c])]
        /\ round' = [c \in Cluster |-> IF Done(c) THEN "sleeping" ELSE round[c]]
        /\ snap' = [c \in Cluster |-> IF round'[c] = "sleeping" THEN 0 ELSE Older(snap[c])]
        /\ sent' = {aged(m) : m \in {m \in sent : m.age < Timeout}}
    BY DEF Time
  <1>2. \A n \in sent' : \E m \in sent :
           n.from = m.from /\ n.age = Older(m.age) /\ n.rows = OlderRows(m.rows)
    BY <1>1 DEF Message
  <1>3. \A c \in up : Done(c) \/ (round[c] \in {"pushing", "seeding"} /\ snap[c] < Timeout)
    BY DEF Time
  <1> HIDE DEF aged
  <1>4. ASSUME NEW d \in Cluster \ up PROVE downFor'[d] = Older(downFor[d]) /\ downFor[d] \in Age
    BY <1>1
  <1>5. HeldHonest'
    <2> SUFFICES ASSUME NEW d \in Cluster \ up, NEW c \in Cluster, peers'[c][d] # NoPeer
                 PROVE  peers'[c][d].seen + Timeout >= downFor'[d]
      BY <1>1 DEF HeldHonest
    <2>1. peers'[c][d] = OlderRow(peers[c][d]) /\ peers[c][d] \in Row
      BY <1>1 DEF OlderRows
    <2>2. peers[c][d].seen \in Age /\ peers'[c][d].seen = Older(peers[c][d].seen)
          /\ peers[c][d].seen + Timeout >= downFor[d]
      BY <2>1, OlderRowFacts DEF HeldHonest
    <2> QED
      BY <1>4, <2>2, OlderFacts
  <1>6. SentHonest'
    <2> SUFFICES ASSUME NEW d \in Cluster \ up, NEW n \in sent', n.rows[d] # NoPeer
                 PROVE  n.rows[d].seen + Timeout >= downFor'[d]
      BY <1>1 DEF SentHonest
    <2>1. PICK m \in sent : n.from = m.from /\ n.age = Older(m.age) /\ n.rows = OlderRows(m.rows)
      BY <1>2
    <2>2. n.rows[d] = OlderRow(m.rows[d]) /\ m.rows[d] \in Row
      BY <2>1 DEF OlderRows, Message, Row
    <2>3. m.rows[d].seen \in Age /\ n.rows[d].seen = Older(m.rows[d].seen)
          /\ m.rows[d].seen + Timeout >= downFor[d]
      BY <2>2, OlderRowFacts DEF SentHonest
    <2> QED
      BY <1>4, <2>3, OlderFacts
  <1>7. SenderFresh'
    <2> SUFFICES ASSUME NEW n \in sent', n.from \notin up PROVE n.age >= downFor'[n.from]
      BY <1>1 DEF SenderFresh
    <2>1. PICK m \in sent : n.from = m.from /\ n.age = Older(m.age) /\ n.rows = OlderRows(m.rows)
      BY <1>2
    <2>2. m.age \in Age /\ m.from \in Cluster /\ m.age >= downFor[m.from]
      BY <2>1 DEF Message, SenderFresh
    <2> QED
      BY <1>4, <2>1, <2>2, OlderFacts
  <1>8. AnswerFresh'
    <2> SUFFICES ASSUME NEW c \in Cluster, NEW d \in Cluster \ up, push[c][d] \in {"answered", "hint"}
                 PROVE  snap'[c] >= downFor'[d]
      BY <1>1 DEF AnswerFresh
    <2>1. ~ Done(c) /\ round[c] # "sleeping"
      BY DEF Done, RoundTimed
    <2>2. snap'[c] = Older(snap[c])
      BY <1>1, <2>1
    <2> QED
      BY <1>4, <2>2, OlderFacts DEF AnswerFresh
  <1>9. RoundTimed'
    <2> SUFFICES ASSUME NEW c \in Cluster
                 PROVE  /\ \A d \in Cluster : push[c][d] # "none" => round'[c] \in {"pushing", "seeding"} /\ snap'[c] <= Timeout
                        /\ round'[c] \in {"sleeping", "expired"} => snap'[c] = 0
                        /\ c \notin up => round'[c] = "sleeping"
                        /\ c \in up => downFor'[c] = 0
      BY <1>1 DEF RoundTimed
    <2>1. CASE c \notin up
      BY <1>1, <2>1 DEF RoundTimed
    <2>2. CASE c \in up /\ Done(c)
      BY <1>1, <2>2 DEF Done
    <2>3. CASE c \in up /\ ~ Done(c)
      <3>1. round'[c] = round[c] /\ round[c] \in {"pushing", "seeding"} /\ snap[c] < Timeout
        BY <1>1, <1>3, <2>3
      <3>2. Older(snap[c]) <= Timeout
        BY <3>1, Ages DEF Older
      <3> QED
        BY <1>1, <2>3, <3>1, <3>2
    <2> QED
      BY <2>1, <2>2, <2>3
  <1> QED
    BY <1>5, <1>6, <1>7, <1>8, <1>9

HonestInv == GossipTypeOK /\ OneHint /\ HonestParts

LEMMA HonestNext == HonestInv /\ [GossipNext]_gossipVars => HonestInv'
  <1> SUFFICES ASSUME HonestInv, [GossipNext]_gossipVars PROVE HonestParts'
    BY GossipTypeNext DEF HonestInv
  <1> USE DEF HonestInv
  <1>1. CASE UNCHANGED gossipVars
    BY <1>1 DEF gossipVars, meshThread, HonestParts, HeldHonest, SentHonest, AnswerFresh, SenderFresh, RoundTimed
  <1>2. CASE Split
    BY <1>2 DEF Split, meshThread, HonestParts, HeldHonest, SentHonest, AnswerFresh, SenderFresh, RoundTimed
  <1>3. CASE Heal
    BY <1>3 DEF Heal, meshThread, HonestParts, HeldHonest, SentHonest, AnswerFresh, SenderFresh, RoundTimed
  <1> QED
    BY <1>1, <1>2, <1>3, LoopHonest, ReceiveHonest, ClusterHonest, TimeHonest DEF GossipNext

\* However gossip is relayed, merged, or overwritten by a late latency hint, a dead
\* cluster is nowhere recorded as seen later than a push after it stopped
\* (merge_state, update_latency_hint), with any number of clusters and faults.
THEOREM DeadStayDead == GossipSpec => []HonestRecords
  <1>1. GossipInit => HonestInv
    BY GossipTypeInit, HonestInit DEF GossipInit, OneHint, HonestInv
  <1>2. HonestInv => HonestRecords
    BY DEF HonestInv, HonestParts, HeldHonest, SentHonest, HonestRecords
  <1> QED
    BY <1>1, <1>2, HonestNext, PTL DEF GossipSpec

LEMMA SweepStep ==
    ASSUME HonestInv, [GossipNext]_gossipVars, NEW c \in Cluster, round[c] = "sleeping", round'[c] = "expired",
           NEW d \in Cluster \ up, downFor[d] > TTL + Timeout
    PROVE  peers'[c][d] = NoPeer
  <1> USE TypeParts DEF HonestInv
  <1>1. CASE Expire(c)
    <2>1. peers'[c][d] = IF d \in Known(c) /\ peers[c][d].seen > TTL THEN NoPeer ELSE peers[c][d]
      BY <1>1 DEF Expire, Unexpired
    <2>2. ASSUME peers[c][d] # NoPeer PROVE peers[c][d].seen > TTL /\ d \in Known(c)
      <3>1. peers[c][d].seen \in Nat /\ peers[c][d].seen + Timeout >= downFor[d]
        BY <2>2, RowSeen DEF HonestParts, HeldHonest
      <3>2. downFor[d] \in Nat /\ d \in Known(c)
        BY <2>2, Ages DEF Known
      <3> QED
        BY <3>1, <3>2, Ages
    <2> QED
      BY <2>1, <2>2
  <1>2. \/ Expire(c)
        \/ round'[c] \in {round[c], "sleeping", "pushing", "seeding"}
    <2>1. ASSUME NEW x \in Cluster, GossipLoop(x) PROVE Expire(c) \/ round'[c] \in {round[c], "pushing", "seeding"}
      BY <2>1 DEF GossipLoop, Expire, Pick, Push, PushFails, HintRead, HintWrite
    <2>2. ASSUME NEW x \in Cluster, Start(x) \/ Stop(x) PROVE round'[c] \in {round[c], "sleeping"}
      BY <2>2 DEF Start, Stop, meshThread
    <2>3. CASE (\E m \in sent : Receive(m)) \/ Split \/ Heal \/ UNCHANGED gossipVars
      BY <2>3 DEF Receive, Split, Heal, gossipVars, meshThread
    <2>4. CASE Time
      BY <2>4 DEF Time
    <2> QED
      BY <2>1, <2>2, <2>3, <2>4 DEF GossipNext
  <1> QED
    BY <1>1, <1>2

\* A round begins by forgetting every cluster that has been down for longer than the
\* TTL and a push (_tick_once, expire_stale), however its records were passed on.
THEOREM DeadAreForgotten == GossipSpec => DeadIsSwept
  <1>1. GossipInit => HonestInv
    BY GossipTypeInit, HonestInit DEF GossipInit, OneHint, HonestInv
  <1>2. HonestInv /\ [GossipNext]_gossipVars =>
           [\A c \in Cluster : round[c] = "sleeping" /\ round'[c] = "expired" =>
               \A d \in Cluster \ up : downFor[d] > TTL + Timeout => peers'[c][d] = NoPeer]_gossipVars
    BY SweepStep
  <1> QED
    BY <1>1, <1>2, HonestNext, PTL DEF GossipSpec, DeadIsSwept
=============================================================================
