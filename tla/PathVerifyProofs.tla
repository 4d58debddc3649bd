-------------------------- MODULE PathVerifyProofs --------------------------
(***************************************************************************)
(* Proofs about PathVerify: outside of its exceptions the verifier counts  *)
(* the connections that Tor has, knows the layers that Tor was told, and   *)
(* judges a circuit by what was so when Tor built it; after the NEWNYM it  *)
(* knows the layer of vanguards-lite. They hold for any guards, relays,    *)
(* connections, bounds and lengths of the queue.                           *)
(***************************************************************************)
EXTENDS PathVerify, FiniteSetTheorems, SequenceTheorems, TLAPS

-----------------------------------------------------------------------------
(* The invariants. They tell of each waiting event what the verifier will  *)
(* know when it has its turn.                                              *)

IsCirc(e) == e.type \in {"CIRC", "CIRC_MINOR"}

\* What an event of a connection does to the count of a guard, when the answer
\* to orconn-status did not know of it.
Delta(e, g) ==
    IF ~(e.type = "ORCONN" /\ e.guard = g /\ e.fresh /\ e.counts) THEN 0
    ELSE IF e.status = "CONNECTED" THEN 1 ELSE -1

\* P[k] is the number of connections that Tor had to g when it posted the event
\* that is the k-th in q: P[0] is what the verifier counts.
Traced(q, g, P, from, to) ==
    /\ P[0] = from /\ P[Len(q)] = to
    /\ \A k \in 1..Len(q) : P[k] = P[k - 1] + Delta(q[k], g)
    /\ \A i, j \in 0..Len(q) :
         i <= j /\ (\A k \in i + 1..j : Delta(q[k], g) = 0) => P[i] = P[j]
    /\ \A k \in 1..Len(q) :
         IsCirc(q[k]) /\ q[k].fresh /\ q[k].path[1] = g
           => (1 \in q[k].wrong.strays <=> P[k] = 0)

Traces(q, g, from, to) ==
    \E P \in [0..Len(q) -> 0..Cardinality(ConnIds)] : Traced(q, g, P, from, to)

CountOf(g) == Traces(queue, g, ConnCount(g), Cardinality(Connected(g)))
CountsInv ==
    IF done < OrconnStep THEN DOMAIN layer1 = {}
    ELSE \A g \in Guards \ drift : CountOf(g)

\* The events about layer l, and those that will reach the verifier or that
\* will be missed.
IsConf(e, l) == e.type = "CONF_CHANGED" /\ e.layer = l
Matters(e, l, heard) == IsConf(e, l) /\ (e.fresh \/ heard)

\* The k-th event of q is the last one about layer l before the j-th.
LastBefore(q, k, j, l) ==
    k < j /\ IsConf(q[k], l) /\ \A m \in k + 1..j - 1 : ~IsConf(q[m], l)
NoneBefore(q, j, l, heard) == \A m \in 1..j - 1 : ~Matters(q[m], l, heard)

\* The circuit of event e was judged with S as layer l.
Judged(e, l, S) ==
    /\ l \in e.wrong.strays <=>
         l \in DOMAIN e.path /\ e.path[l] \notin S /\ (l = 3 => Num[3] # 0)
    /\ e.type = "CIRC" => (l \in e.wrong.widths <=> Cardinality(S) # Num[l])

Heard == Listening("CONF_CHANGED")
End == Len(queue) + 1

\* The last event about a layer has the value that Tor has.
LastInv ==
    \A l \in Layers, k \in 1..Len(queue) :
      LastBefore(queue, k, End, l) => queue[k].value = opt[l]

\* With no event about it waiting, a layer is as Tor was told.
KnownInv ==
    \A l \in Layers \ drift :
      done >= ConfStep(l) /\ NoneBefore(queue, End, l, Heard) => layer[l] = opt[l]

\* An event of vanguards-lite was posted while HSLayer2Nodes was unset.
LiteEventInv ==
    \A j \in 1..Len(queue) : queue[j].type = "GUARD" =>
      /\ Listening("GUARD")
      /\ \A k \in 1..Len(queue) :
           LastBefore(queue, k, j, 2) => queue[k].value = {}
      /\ NoneBefore(queue, j, 2, Heard) => 2 \in drift

FullInv == done >= ConfStep(2) /\ 2 \notin drift => layer[2] # {} /\ full_vanguards

\* A circuit was judged by the layers that the verifier will know.
JudgedInv ==
    \A j \in 1..Len(queue), l \in Layers : IsCirc(queue[j]) /\ queue[j].fresh =>
      /\ \A k \in 1..Len(queue) :
           LastBefore(queue, k, j, l) /\ (l = 3 \/ queue[k].value # {})
             => Judged(queue[j], l, queue[k].value)
      /\ NoneBefore(queue, j, l, Heard) /\ l \notin drift
             => Judged(queue[j], l, layer[l])

\* What else the events hold, when n steps are done.
EventOK(e, n) ==
    /\ e.type \in {"ORCONN", "CIRC", "CIRC_MINOR"} /\ e.fresh => n >= OrconnStep
    /\ e.type = "ORCONN" /\ e.status = "CONNECTED" => e.counts
    /\ IsCirc(e) => e.wrong.strays \subseteq DOMAIN e.path
    /\ e.type = "CIRC" => (e.wrong.hops <=> e.hops # RouteLen[e.purpose])
    /\ e.type = "CIRC_MINOR" => e.wrong.widths = {} /\ ~e.wrong.hops

PostedInv == \A k \in 1..Len(queue) : EventOK(queue[k], done)

\* A relay of vanguards-lite is known, or will be, and will not be forgotten.
Gives(e, r) == e.type = "GUARD" /\ e.status = "GOOD_L2" /\ r \in e.relays
Takes(e, r) ==
    \/ e.type = "GUARD" /\ e.status = "BAD_L2" /\ r \in e.relays
    \/ IsConf(e, 2)
KnownFrom(k, r) ==
    /\ IF k = 0 THEN r \in layer[2] ELSE Gives(queue[k], r)
    /\ \A m \in k + 1..Len(queue) : ~Takes(queue[m], r)
LiteInv ==
    /\ opt[2] # {} => lite = {}
    /\ done = Len(Steps) => \A r \in lite : \E k \in 0..Len(queue) : KnownFrom(k, r)

\* Stem itself listens to CONF_CHANGED: it reads every one.
StemInv == "CONF_CHANGED" \in others

LayersInv == StemInv /\ LastInv /\ KnownInv /\ LiteEventInv /\ FullInv /\ JudgedInv

-----------------------------------------------------------------------------
(* Queues, and when the listeners are there.                               *)

LEMMA Grown ==
    ASSUME NEW S, NEW q \in Seq(S), NEW s \in Seq(S)
    PROVE  /\ q \o s \in Seq(S)
           /\ Len(q) \in Nat /\ Len(s) \in Nat /\ Len(q \o s) = Len(q) + Len(s)
           /\ \A k \in 1..Len(q) : (q \o s)[k] = q[k]
           /\ \A k \in 1..Len(s) : (q \o s)[Len(q) + k] = s[k]
<1>1. Len(q) \in Nat /\ Len(s) \in Nat
  BY LenProperties
<1>2. /\ q \o s \in Seq(S) /\ Len(q \o s) = Len(q) + Len(s)
      /\ \A i \in 1..Len(q) + Len(s) :
           (q \o s)[i] = IF i <= Len(q) THEN q[i] ELSE s[i - Len(q)]
  BY ConcatProperties
<1>3. ASSUME NEW k \in 1..Len(q) PROVE (q \o s)[k] = q[k]
  BY <1>1, <1>2
<1>4. ASSUME NEW k \in 1..Len(s) PROVE (q \o s)[Len(q) + k] = s[k]
  <2>1. Len(q) + k \in 1..Len(q) + Len(s) /\ ~(Len(q) + k <= Len(q))
        /\ Len(q) + k - Len(q) = k
    BY <1>1
  <2> QED
    BY <1>2, <2>1
<1> QED
  BY <1>1, <1>2, <1>3, <1>4

LEMMA OneMore ==
    ASSUME NEW S, NEW e \in S
    PROVE  <<e>> \in Seq(S) /\ Len(<<e>>) = 1 /\ <<e>>[1] = e
OBVIOUS

LEMMA Shrunk ==
    ASSUME NEW S, NEW q \in Seq(S), q # <<>>
    PROVE  /\ Tail(q) \in Seq(S) /\ Head(q) = q[1] /\ q[1] \in S
           /\ Len(q) \in Nat \ {0} /\ Len(Tail(q)) = Len(q) - 1
           /\ \A k \in 1..Len(Tail(q)) : Tail(q)[k] = q[k + 1]
<1>1. Len(q) \in Nat \ {0}
  BY EmptySeq
<1>2. Tail(q) \in Seq(S) /\ Len(Tail(q)) = Len(q) - 1
      /\ \A k \in 1..Len(Tail(q)) : Tail(q)[k] = q[k + 1]
  BY HeadTailProperties
<1>3. q[1] \in S
  BY <1>1, ElementOfSeq
<1>4. Head(q) = q[1]
  OBVIOUS
<1> QED
  BY <1>1, <1>2, <1>3, <1>4

LEMMA ListeningAt ==
    ASSUME done \in 0..Len(Steps)
    PROVE  /\ Len(Steps) = 9
           /\ Listening("CIRC") <=> done >= 4
           /\ Listening("CIRC_MINOR") <=> done >= 5
           /\ Listening("ORCONN") <=> done >= 6
           /\ Listening("GUARD") <=> done >= 7
           /\ Heard <=> done >= 8
<1>1. Len(Steps) = 9
  BY DEF Steps
<1>2. /\ Steps[1] = "HSLayer2Nodes" /\ Steps[2] = "HSLayer3Nodes"
      /\ Steps[3] = "orconn-status" /\ Steps[4] = "CIRC"
      /\ Steps[5] = "CIRC_MINOR" /\ Steps[6] = "ORCONN"
      /\ Steps[7] = "GUARD" /\ Steps[8] = "CONF_CHANGED" /\ Steps[9] = "NEWNYM"
  BY DEF Steps
<1>3. ASSUME NEW s \in 1..done
      PROVE  s \in {1, 2, 3, 4, 5, 6, 7, 8, 9}
  BY <1>1
<1>4. Listening("CIRC") <=> done >= 4
  BY <1>1, <1>2, <1>3 DEF Listening
<1>5. Listening("CIRC_MINOR") <=> done >= 5
  BY <1>1, <1>2, <1>3 DEF Listening
<1>6. Listening("ORCONN") <=> done >= 6
  BY <1>1, <1>2, <1>3 DEF Listening
<1>7. Listening("GUARD") <=> done >= 7
  BY <1>1, <1>2, <1>3 DEF Listening
<1>8. Heard <=> done >= 8
  BY <1>1, <1>2, <1>3 DEF Listening, Heard
<1> QED
  BY <1>1, <1>4, <1>5, <1>6, <1>7, <1>8

-----------------------------------------------------------------------------
(* Types.                                                                  *)

LEMMA CountTypes ==
    ASSUME TypeOK, NEW g \in Guards
    PROVE  ConnCount(g) \in Nat /\ UseCount(g) \in Nat
           /\ (ConnCount(g) > 0 <=> g \in DOMAIN layer1)
BY DEF TypeOK, ConnCount, UseCount

LEMMA WithConnsEffect ==
    ASSUME TypeOK, NEW n \in [Guards -> Int], layer1' = WithConns(n)
    PROVE  /\ DOMAIN layer1' \subseteq Guards
           /\ layer1' \in [DOMAIN layer1' -> [use_count : Nat, conn_count : Nat \ {0}]]
           /\ \A g \in Guards :
                ConnCount(g)' = IF ConnCount(g) + n[g] > 0 THEN ConnCount(g) + n[g] ELSE 0
<1> DEFINE D == {h \in Guards : ConnCount(h) + n[h] > 0}
<1>1. layer1' = [g \in D |-> [use_count |-> UseCount(g),
                              conn_count |-> ConnCount(g) + n[g]]]
  BY DEF WithConns
<1>2. DOMAIN layer1' = D
  BY <1>1
<1>3. ASSUME NEW g \in D
      PROVE  [use_count |-> UseCount(g), conn_count |-> ConnCount(g) + n[g]]
                \in [use_count : Nat, conn_count : Nat \ {0}]
  BY CountTypes
<1>4. layer1' \in [D -> [use_count : Nat, conn_count : Nat \ {0}]]
  BY <1>1, <1>3
<1>5. ASSUME NEW g \in Guards
      PROVE  ConnCount(g)' = IF ConnCount(g) + n[g] > 0 THEN ConnCount(g) + n[g] ELSE 0
  BY <1>1, <1>2 DEF ConnCount
<1> QED
  BY <1>2, <1>4, <1>5

\* What AddConn and DelConn do to the counts.
LEMMA ConnEffect ==
    ASSUME TypeOK, NEW g \in Guards, NEW n \in {-1, 1}, layer1' = WithConns(OneAt(g, n))
    PROVE  /\ DOMAIN layer1' \subseteq Guards
           /\ layer1' \in [DOMAIN layer1' -> [use_count : Nat, conn_count : Nat \ {0}]]
           /\ \A h \in Guards \ {g} : ConnCount(h)' = ConnCount(h)
           /\ ConnCount(g)' = IF ConnCount(g) + n > 0 THEN ConnCount(g) + n ELSE 0
<1>1. OneAt(g, n) \in [Guards -> Int]
  BY DEF OneAt
<1>2. \A h \in Guards : OneAt(g, n)[h] = IF h = g THEN n ELSE 0
  BY DEF OneAt
<1>3. \A h \in Guards : ConnCount(h) \in Nat
  BY CountTypes
<1> HIDE DEF OneAt
<1>4. /\ DOMAIN layer1' \subseteq Guards
      /\ layer1' \in [DOMAIN layer1' -> [use_count : Nat, conn_count : Nat \ {0}]]
      /\ \A h \in Guards :
           ConnCount(h)' = IF ConnCount(h) + OneAt(g, n)[h] > 0
                           THEN ConnCount(h) + OneAt(g, n)[h] ELSE 0
  BY <1>1, WithConnsEffect
<1> QED
  BY <1>2, <1>3, <1>4

LEMMA UseEffect ==
    ASSUME TypeOK, NEW g, AddUse(g)
    PROVE  /\ DOMAIN layer1' = DOMAIN layer1
           /\ layer1' \in [DOMAIN layer1' -> [use_count : Nat, conn_count : Nat \ {0}]]
           /\ \A h \in Guards : ConnCount(h)' = ConnCount(h)
<1>1. CASE g \in DOMAIN layer1
  <2>1. layer1' = [layer1 EXCEPT ![g].use_count = @ + 1]
    BY <1>1 DEF AddUse
  <2>2. layer1 \in [DOMAIN layer1 -> [use_count : Nat, conn_count : Nat \ {0}]]
    BY DEF TypeOK
  <2>3. DOMAIN layer1' = DOMAIN layer1
        /\ \A h \in DOMAIN layer1 :
             layer1'[h] \in [use_count : Nat, conn_count : Nat \ {0}]
             /\ layer1'[h].conn_count = layer1[h].conn_count
    BY <1>1, <2>1, <2>2
  <2>4. layer1' = [h \in DOMAIN layer1 |-> layer1'[h]]
    BY <2>1, <2>2, <2>3
  <2> QED
    BY <2>3, <2>4 DEF ConnCount
<1>2. CASE g \notin DOMAIN layer1
  BY <1>2 DEF AddUse, TypeOK, ConnCount
<1> QED
  BY <1>1, <1>2

LEMMA EventTypes ==
    ASSUME TypeOK
    PROVE  /\ \A R \in SUBSET Relays, status \in {"GOOD_L2", "BAD_L2"} :
                GuardEvent(R, status) \in Events
           /\ \A l \in Layers, S \in LayerValues \union {{}} : ConfEvent(l, S) \in Events
           /\ \A i \in ConnIds, status \in {"CONNECTED", "CLOSED"} :
                OrconnEvent(i, status) \in Events
<1>1. ASSUME NEW R \in SUBSET Relays, NEW status \in {"GOOD_L2", "BAD_L2"}
      PROVE  GuardEvent(R, status) \in Events
  BY DEF GuardEvent, Events
<1>2. ASSUME NEW l \in Layers, NEW S \in LayerValues \union {{}}
      PROVE  ConfEvent(l, S) \in Events
  BY DEF ConfEvent, Events, Fresh
<1>3. ASSUME NEW i \in ConnIds, NEW status \in {"CONNECTED", "CLOSED"}
      PROVE  OrconnEvent(i, status) \in Events
  BY DEF TypeOK, OrconnEvent, Events, Fresh
<1> QED
  BY <1>1, <1>2, <1>3

\* What CircBuilt and CircMinor post.
BuiltEvent(path, hops, purpose) ==
    [type |-> "CIRC", fresh |-> Fresh(OrconnStep), path |-> path,
     hops |-> hops, purpose |-> purpose,
     wrong |-> Built(path, hops, RouteLen[purpose], TorGuards, TorLayers, Num)]
MinorEvent(path) ==
    [type |-> "CIRC_MINOR", fresh |-> Fresh(OrconnStep), path |-> path,
     wrong |-> Extended(path, TorGuards, TorLayers, Num)]
MinorPaths == {SubSeq(path, 1, n) : path \in Path, n \in 1..3}

LEMMA CircEventTypes ==
    /\ \A path \in Path, hops \in Hops, purpose \in Purposes :
         BuiltEvent(path, hops, purpose) \in Events
    /\ \A path \in MinorPaths : MinorEvent(path) \in Events
<1>1. ASSUME NEW path, NEW guards, NEW layers, NEW widths
      PROVE  Strays(path, guards, layers, widths) \in SUBSET (1..3)
  BY DEF Strays
<1>2. ASSUME NEW path, NEW hops, NEW purpose
      PROVE  BuiltEvent(path, hops, purpose).wrong \in Wrong
  BY <1>1 DEF BuiltEvent, Built, Wrong, WrongWidths
<1>3. ASSUME NEW path PROVE MinorEvent(path).wrong \in Wrong
  BY <1>1 DEF MinorEvent, Extended, Wrong
<1>4. ASSUME NEW path \in Path, NEW hops \in Hops, NEW purpose \in Purposes
      PROVE  BuiltEvent(path, hops, purpose) \in Events
  BY <1>2 DEF BuiltEvent, Events, Fresh
<1>5. ASSUME NEW path \in MinorPaths PROVE MinorEvent(path) \in Events
  BY <1>3 DEF MinorEvent, Events, Fresh, MinorPaths
<1> QED
  BY <1>4, <1>5

\* What stem reads of events of a type.
Read(type, events) == IF Subscribed(type) THEN events ELSE <<>>

QueueOK == queue \in Seq(Events) /\ Len(queue) <= MaxQueue + 1

LEMMA PostEffect ==
    ASSUME TypeOK, NEW type, NEW events \in Seq(Events), Len(events) <= 2,
           PostAll(type, events)
    PROVE  /\ Read(type, events) \in Seq(Events)
           /\ queue' = queue \o Read(type, events)
           /\ QueueOK'
<1>1. Read(type, events) \in Seq(Events)
  BY EmptySeq DEF Read
<1>2. queue \in Seq(Events) /\ Len(queue) < MaxQueue
  BY DEF TypeOK, PostAll
<1>3. queue' = queue \o Read(type, events)
  BY <1>2, ConcatEmptySeq DEF PostAll, Read
<1>4. Len(Read(type, events)) \in Nat /\ Len(Read(type, events)) <= 2
  BY <1>1, LenProperties, EmptySeq DEF Read
<1>5. /\ queue \o Read(type, events) \in Seq(Events)
      /\ Len(queue \o Read(type, events)) = Len(queue) + Len(Read(type, events))
      /\ Len(queue) \in Nat
  BY <1>1, <1>2, Grown
<1> QED
  BY <1>1, <1>2, <1>3, <1>4, <1>5, PathSetsAssumption DEF QueueOK

LEMMA PostOne ==
    ASSUME TypeOK, NEW e \in Events, Post(e)
    PROVE  /\ Read(e.type, <<e>>) \in Seq(Events)
           /\ queue' = queue \o Read(e.type, <<e>>)
           /\ QueueOK'
<1>1. <<e>> \in Seq(Events) /\ Len(<<e>>) <= 2
  BY OneMore
<1> QED
  BY <1>1, PostEffect DEF Post

LEMMA RenewedTypes ==
    ASSUME TypeOK, NEW R \in LayerValues, NEW told \in BOOLEAN
    PROVE  Renewed(R, told) \in Seq(Events) /\ Len(Renewed(R, told)) <= 2
<1>1. R \in SUBSET Relays /\ lite \in SUBSET Relays
  BY PathSetsAssumption DEF TypeOK
<1>2. GuardEvent(lite, "BAD_L2") \in Events /\ GuardEvent(R, "GOOD_L2") \in Events
  BY <1>1, EventTypes
<1> QED
  BY <1>2 DEF Renewed

LEMMA UnsetTypes ==
    ASSUME TypeOK
    PROVE  /\ \A l \in Layers : Unset(l) \in Seq(Events) /\ Len(Unset(l)) \in 0..1
           /\ Unset(2) \o Unset(3) \in Seq(Events) /\ Len(Unset(2) \o Unset(3)) <= 2
<1>1. ASSUME NEW l \in Layers
      PROVE  Unset(l) \in Seq(Events) /\ Len(Unset(l)) \in 0..1
  <2>1. ConfEvent(l, {}) \in Events
    BY EventTypes
  <2> QED
    BY <2>1, EmptySeq, OneMore DEF Unset
<1>2. Unset(2) \in Seq(Events) /\ Unset(3) \in Seq(Events)
      /\ Len(Unset(2)) \in 0..1 /\ Len(Unset(3)) \in 0..1
  BY <1>1 DEF Layers
<1>3. Unset(2) \o Unset(3) \in Seq(Events)
      /\ Len(Unset(2) \o Unset(3)) = Len(Unset(2)) + Len(Unset(3))
  BY <1>2, Grown
<1>4. ASSUME NEW m \in 0..1, NEW n \in 0..1 PROVE m + n <= 2
  OBVIOUS
<1> QED
  BY <1>1, <1>2, <1>3, <1>4, Zenon

LEMMA HandEffect ==
    ASSUME TypeOK, queue # <<>>, queue' = Tail(queue)
    PROVE  /\ QueueOK' /\ Head(queue) = queue[1] /\ queue[1] \in Events
           /\ Len(queue) \in Nat \ {0} /\ Len(queue') = Len(queue) - 1
           /\ \A k \in 1..Len(queue') : queue'[k] = queue[k + 1]
<1>1. queue \in Seq(Events) /\ Len(queue) <= MaxQueue + 1
  BY DEF TypeOK
<1>2. /\ Tail(queue) \in Seq(Events) /\ Head(queue) = queue[1] /\ queue[1] \in Events
      /\ Len(queue) \in Nat \ {0} /\ Len(Tail(queue)) = Len(queue) - 1
      /\ \A k \in 1..Len(Tail(queue)) : Tail(queue)[k] = queue[k + 1]
  BY <1>1, Shrunk
<1> QED
  BY <1>1, <1>2, PathSetsAssumption DEF QueueOK

\* What each kind of event is made of.
LEMMA EventParts ==
    ASSUME NEW e \in Events
    PROVE  /\ e.type \in {"ORCONN", "GUARD", "CONF_CHANGED", "CIRC", "CIRC_MINOR"}
           /\ e.type = "ORCONN" => e.guard \in Guards /\ e.counts \in BOOLEAN
                /\ e.status \in {"CONNECTED", "CLOSED"} /\ e.fresh \in BOOLEAN
           /\ e.type = "GUARD" => e.relays \in SUBSET Relays
                /\ e.status \in {"GOOD_L2", "BAD_L2"}
           /\ e.type = "CONF_CHANGED" => e.layer \in Layers /\ e.fresh \in BOOLEAN
                /\ e.value \in LayerValues \union {{}}
           /\ IsCirc(e) => e.fresh \in BOOLEAN /\ e.wrong \in Wrong
           /\ e.type = "CIRC" => e.path \in Path /\ e.hops \in Hops /\ e.purpose \in Purposes
           /\ e.type = "CIRC_MINOR" => e.path \in MinorPaths
<1>1. CASE e \in [type : {"ORCONN"}, fresh : BOOLEAN, guard : Guards,
                  status : {"CONNECTED", "CLOSED"}, counts : BOOLEAN]
  BY <1>1 DEF IsCirc
<1>2. CASE e \in [type : {"GUARD"}, relays : SUBSET Relays,
                  status : {"GOOD_L2", "BAD_L2"}]
  BY <1>2 DEF IsCirc
<1>3. CASE e \in [type : {"CONF_CHANGED"}, fresh : BOOLEAN, layer : Layers,
                  value : LayerValues \union {{}}]
  BY <1>3 DEF IsCirc
<1>4. CASE e \in [type : {"CIRC"}, fresh : BOOLEAN, path : Path, hops : Hops,
                  purpose : Purposes, wrong : Wrong]
  BY <1>4 DEF IsCirc
<1>5. CASE e \in [type : {"CIRC_MINOR"}, fresh : BOOLEAN, path : MinorPaths,
                  wrong : Wrong]
  BY <1>5 DEF IsCirc
<1> QED
  BY <1>1, <1>2, <1>3, <1>4, <1>5 DEF Events, MinorPaths

LEMMA TypeInit == Init => TypeOK
<1> SUFFICES ASSUME Init PROVE TypeOK
  OBVIOUS
<1>1. queue \in Seq(Events) /\ Len(queue) <= MaxQueue + 1
  BY EmptySeq, PathSetsAssumption DEF Init
<1>2. lite \subseteq Relays
  BY DEF Init
<1>3. DOMAIN layer1 \subseteq Guards
      /\ layer1 \in [DOMAIN layer1 -> [use_count : Nat, conn_count : Nat \ {0}]]
  BY DEF Init
<1>4. opt \in [Layers -> LayerValues \union {{}}]
  BY DEF Init
<1>5. done \in 0..Len(Steps) /\ changes \in 0..MaxChanges /\ circs \in 0..MaxCircs
  BY PathSetsAssumption DEF Init, Steps
<1>6. conn \in [ConnIds -> [guard : Guards,
                            status : {"none", "launched", "connected", "gone"}]]
  BY DEF Init
<1> QED
  BY <1>1, <1>2, <1>3, <1>4, <1>5, <1>6 DEF Init, TypeOK

\* The steps of the main thread.
LEMMA MainTypes ==
    ASSUME TypeOK
    PROVE  /\ \A l \in Layers : AskLayer(l) => TypeOK'
           /\ AskOrconns => TypeOK'
           /\ AddListener => TypeOK'
           /\ \A R \in LayerValues, told \in BOOLEAN : Newnym(R, told) => TypeOK'
<1>0. Len(Steps) = 9
  BY DEF Steps
<1>1. ASSUME NEW l \in Layers, AskLayer(l) PROVE TypeOK'
  <2>1. opt[l] \in SUBSET Relays
    BY PathSetsAssumption DEF TypeOK
  <2>2. layer' \in [Layers -> SUBSET (Relays \union {Blank})] /\ full_vanguards' \in BOOLEAN
    BY <1>1, <2>1 DEF AskLayer, TypeOK
  <2>3. done' \in 0..Len(Steps) /\ num' \in {Num, LiteNum}
    BY <1>0, <1>1 DEF AskLayer, TypeOK, ConfStep, Layers
  <2>4. drift' \subseteq Guards \union Layers
    BY <1>1 DEF AskLayer, TypeOK, Layers
  <2> QED
    BY <1>1, <2>2, <2>3, <2>4 DEF AskLayer, TypeOK, torVars
<1>2. ASSUME AskOrconns PROVE TypeOK'
  <2> DEFINE listed == {i \in ConnIds : conn[i].status \in {"launched", "connected"}}
             n == [g \in Guards |-> Cardinality({i \in listed : conn[i].guard = g})]
  <2>1. ASSUME NEW g \in Guards
        PROVE  Cardinality({i \in listed : conn[i].guard = g}) \in Int
    <3>1. {i \in listed : conn[i].guard = g} \subseteq ConnIds
      OBVIOUS
    <3> QED
      BY <3>1, FS_Subset, FS_CardinalityType, PathSetsAssumption
  <2>2. n \in [Guards -> Int] /\ layer1' = WithConns(n)
    BY <1>2, <2>1 DEF AskOrconns
  <2>3. DOMAIN layer1' \subseteq Guards
        /\ layer1' \in [DOMAIN layer1' -> [use_count : Nat, conn_count : Nat \ {0}]]
    <3> HIDE DEF n
    <3> QED
      BY <2>2, WithConnsEffect
  <2>4. done' \in 0..Len(Steps)
    BY <1>0, <1>2 DEF AskOrconns, TypeOK, OrconnStep
  <2>5. drift' \subseteq Guards \union Layers
    BY <1>2 DEF AskOrconns, TypeOK
  <2> QED
    BY <1>2, <2>3, <2>4, <2>5 DEF AskOrconns, TypeOK, torVars
<1>3. ASSUME AddListener PROVE TypeOK'
  BY <1>0, <1>3 DEF AddListener, TypeOK, OrconnStep, torVars, verifierVars
<1>4. ASSUME NEW R \in LayerValues, NEW told \in BOOLEAN, Newnym(R, told) PROVE TypeOK'
  <2>1. QueueOK'
    BY <1>4, RenewedTypes, PostEffect DEF Newnym
  <2>2. lite' \subseteq Relays
    BY <1>4, PathSetsAssumption DEF Newnym, TypeOK
  <2> QED
    BY <1>0, <1>4, <2>1, <2>2 DEF Newnym, TypeOK, QueueOK, verifierVars
<1> QED
  BY <1>1, <1>2, <1>3, <1>4

\* The connections of Tor.
LEMMA ConnTypes ==
    ASSUME TypeOK, NEW i \in ConnIds,
           ConnLaunched(i) \/ ConnConnected(i) \/ ConnEnded(i)
    PROVE  TypeOK'
<1>1. conn[i] \in [guard : Guards, status : {"none", "launched", "connected", "gone"}]
  BY DEF TypeOK
<1>2. ASSUME NEW status \in {"CONNECTED", "CLOSED"}, PostOrconn(i, status)
      PROVE  QueueOK' /\ drift' \subseteq Guards \union Layers
  <2>1. QueueOK'
    BY <1>2, EventTypes, PostOne DEF PostOrconn
  <2>2. OrconnEvent(i, status).guard \in Guards
    BY <1>1 DEF OrconnEvent
  <2> QED
    BY <1>2, <2>1, <2>2 DEF PostOrconn, TypeOK
<1>3. CASE ConnLaunched(i)
  BY <1>1, <1>3 DEF ConnLaunched, TypeOK, verifierVars
<1>4. CASE ConnConnected(i)
  <2>1. QueueOK' /\ drift' \subseteq Guards \union Layers
    BY <1>2, <1>4 DEF ConnConnected
  <2> QED
    BY <1>1, <1>4, <2>1 DEF ConnConnected, TypeOK, QueueOK, verifierVars
<1>5. CASE ConnEnded(i)
  <2>1. QueueOK' /\ drift' \subseteq Guards \union Layers
    BY <1>2, <1>5 DEF ConnEnded
  <2> QED
    BY <1>1, <1>5, <2>1 DEF ConnEnded, TypeOK, QueueOK, verifierVars
<1> QED
  BY <1>3, <1>4, <1>5

\* The changes of Tor's layers.
LEMMA ChangeTypes ==
    ASSUME TypeOK
    PROVE  /\ \A l \in Layers, S \in LayerValues : SetConf(l, S) => TypeOK'
           /\ Sighup => TypeOK'
           /\ \A R \in SUBSET Relays, r \in Relays, status \in {"GOOD_L2", "BAD_L2"} :
                LiteChanges(R, r, status) => TypeOK'
<1>0. Changed => changes' \in 0..MaxChanges
  <2>1. MaxChanges \in Nat
    BY PathSetsAssumption
  <2>2. changes \in 0..MaxChanges
    BY DEF TypeOK
  <2> QED
    BY <2>1, <2>2 DEF Changed
<1>1. ASSUME NEW l \in Layers, NEW S \in LayerValues, SetConf(l, S) PROVE TypeOK'
  <2>1. QueueOK'
    BY <1>1, EventTypes, PostOne DEF SetConf
  <2> QED
    BY <1>0, <1>1, <2>1 DEF SetConf, TypeOK, QueueOK, verifierVars
<1>2. ASSUME Sighup PROVE TypeOK'
  <2>1. QueueOK'
    BY <1>2, UnsetTypes, PostEffect DEF Sighup
  <2> QED
    BY <1>0, <1>2, <2>1 DEF Sighup, TypeOK, QueueOK, verifierVars
<1>3. ASSUME NEW R \in SUBSET Relays, NEW r \in Relays, NEW status \in {"GOOD_L2", "BAD_L2"},
             LiteChanges(R, r, status)
      PROVE  TypeOK'
  <2>1. QueueOK'
    BY <1>3, EventTypes, PostOne DEF LiteChanges
  <2> QED
    BY <1>0, <1>3, <2>1 DEF LiteChanges, TypeOK, QueueOK, verifierVars
<1> QED
  BY <1>1, <1>2, <1>3

\* The circuits.
LEMMA CircTypes ==
    ASSUME TypeOK
    PROVE  /\ \A path \in Path, hops \in Hops, purpose \in Purposes :
                CircBuilt(path, hops, purpose) => TypeOK'
           /\ \A path \in MinorPaths : CircMinor(path) => TypeOK'
<1>1. ASSUME NEW path \in Path, NEW hops \in Hops, NEW purpose \in Purposes,
             CircBuilt(path, hops, purpose)
      PROVE  TypeOK'
  <2>1. QueueOK'
    BY <1>1, CircEventTypes, PostOne DEF CircBuilt, BuiltEvent
  <2>2. /\ circs \in 0..MaxCircs /\ circs < MaxCircs /\ circs' = circs + 1
        /\ UNCHANGED <<conn, opt, lite, changes, others, done, verifierVars, drift>>
    BY <1>1 DEF CircBuilt, TypeOK
  <2>3. circs' \in 0..MaxCircs
    BY <2>2, PathSetsAssumption
  <2> QED
    BY <2>1, <2>2, <2>3 DEF TypeOK, QueueOK, verifierVars
<1>2. ASSUME NEW path \in MinorPaths, CircMinor(path) PROVE TypeOK'
  <2>1. QueueOK'
    BY <1>2, CircEventTypes, PostOne DEF CircMinor, MinorEvent
  <2>2. /\ circs \in 0..MaxCircs /\ circs < MaxCircs /\ circs' = circs + 1
        /\ UNCHANGED <<conn, opt, lite, changes, others, done, verifierVars, drift>>
    BY <1>2 DEF CircMinor, TypeOK
  <2>3. circs' \in 0..MaxCircs
    BY <2>2, PathSetsAssumption
  <2> QED
    BY <2>1, <2>2, <2>3 DEF TypeOK, QueueOK, verifierVars
<1> QED
  BY <1>1, <1>2

\* The handlers.
LEMMA HandlerTypes ==
    ASSUME TypeOK
    PROVE  /\ OrconnHandler => TypeOK'
           /\ GuardHandler => TypeOK'
           /\ ConfChangedHandler => TypeOK'
           /\ CircHandler => TypeOK'
           /\ CircMinorHandler => TypeOK'
           /\ Unheard => TypeOK'
<1>1. ASSUME NEW type, Handle(type)
      PROVE  /\ queue # <<>> /\ queue' = Tail(queue) /\ Head(queue) = queue[1]
             /\ queue[1] \in Events /\ queue[1].type = type /\ QueueOK'
             /\ UNCHANGED <<torVars, others, done, num>>
  BY <1>1, HandEffect DEF Handle
<1>2. ASSUME OrconnHandler PROVE TypeOK'
  <2>1. Handle("ORCONN")
    BY <1>2 DEF OrconnHandler
  <2>2. queue[1].guard \in Guards
    BY <1>1, <2>1, EventParts
  <2>3. \/ layer1' = WithConns(OneAt(queue[1].guard, 1))
        \/ layer1' = WithConns(OneAt(queue[1].guard, -1))
    BY <1>1, <1>2, <2>1 DEF OrconnHandler, AddConn, DelConn
  <2>4. DOMAIN layer1' \subseteq Guards
        /\ layer1' \in [DOMAIN layer1' -> [use_count : Nat, conn_count : Nat \ {0}]]
    BY <2>2, <2>3, ConnEffect
  <2>5. drift' \subseteq Guards \union Layers /\ UNCHANGED <<layer, full_vanguards>>
    BY <1>1, <1>2, <2>1, <2>2 DEF OrconnHandler, TypeOK
  <2> QED
    BY <1>1, <2>1, <2>4, <2>5 DEF TypeOK, QueueOK, torVars
<1>3. ASSUME GuardHandler PROVE TypeOK'
  <2>1. Handle("GUARD")
    BY <1>3 DEF GuardHandler
  <2>2. queue[1].relays \in SUBSET Relays
    BY <1>1, <2>1, EventParts
  <2>3. layer' \in [Layers -> SUBSET (Relays \union {Blank})]
    BY <1>1, <1>3, <2>1, <2>2 DEF GuardHandler, TypeOK
  <2> QED
    BY <1>1, <1>3, <2>1, <2>3 DEF GuardHandler, TypeOK, QueueOK, torVars
<1>4. ASSUME ConfChangedHandler PROVE TypeOK'
  <2>1. Handle("CONF_CHANGED")
    BY <1>4 DEF ConfChangedHandler
  <2>2. queue[1].layer \in Layers /\ queue[1].value \in SUBSET Relays
    <3>1. queue[1].layer \in Layers /\ queue[1].value \in LayerValues \union {{}}
      BY <1>1, <2>1, EventParts
    <3>2. LayerValues \subseteq SUBSET Relays
      BY PathSetsAssumption
    <3> QED
      BY <3>1, <3>2
  <2>3. layer' \in [Layers -> SUBSET (Relays \union {Blank})] /\ full_vanguards' \in BOOLEAN
    <3>1. \/ UNCHANGED <<layer, full_vanguards>>
          \/ /\ full_vanguards' = TRUE
             /\ \E S \in SUBSET (Relays \union {Blank}) :
                  layer' = [layer EXCEPT ![queue[1].layer] = S]
      BY <1>1, <1>4, <2>1, <2>2 DEF ConfChangedHandler
    <3>2. layer \in [Layers -> SUBSET (Relays \union {Blank})] /\ full_vanguards \in BOOLEAN
      BY DEF TypeOK
    <3>3. ASSUME NEW S \in SUBSET (Relays \union {Blank}),
                 layer' = [layer EXCEPT ![queue[1].layer] = S]
          PROVE  layer' \in [Layers -> SUBSET (Relays \union {Blank})]
      BY <3>2, <3>3
    <3> QED
      BY <3>1, <3>2, <3>3
  <2>4. drift' \subseteq Guards \union Layers /\ layer1' = layer1
    BY <1>1, <1>4, <2>1, <2>2 DEF ConfChangedHandler, TypeOK
  <2> QED
    BY <1>1, <2>1, <2>3, <2>4 DEF TypeOK, QueueOK, torVars
<1>5. ASSUME CircHandler PROVE TypeOK'
  <2>1. Handle("CIRC") /\ AddUse(Head(queue).path[1])
        /\ UNCHANGED <<layer, full_vanguards, drift>>
    BY <1>5 DEF CircHandler
  <2>2. DOMAIN layer1' \subseteq Guards
        /\ layer1' \in [DOMAIN layer1' -> [use_count : Nat, conn_count : Nat \ {0}]]
    BY <2>1, UseEffect DEF TypeOK
  <2> QED
    BY <1>1, <2>1, <2>2 DEF TypeOK, QueueOK, torVars
<1>6. ASSUME CircMinorHandler PROVE TypeOK'
  BY <1>1, <1>6 DEF CircMinorHandler, TypeOK, QueueOK, torVars
<1>7. ASSUME Unheard PROVE TypeOK'
  <2>1. /\ QueueOK' /\ Head(queue) = queue[1] /\ queue[1] \in Events
        /\ UNCHANGED <<torVars, others, done, verifierVars>>
    BY <1>7, HandEffect DEF Unheard
  <2>2. drift' \subseteq Guards \union Layers
    BY <1>7, <2>1, EventParts DEF Unheard, TypeOK
  <2> QED
    BY <2>1, <2>2 DEF TypeOK, QueueOK, torVars, verifierVars
<1> QED
  BY <1>2, <1>3, <1>4, <1>5, <1>6, <1>7

LEMMA TypeStep == TypeOK /\ [Next]_vars => TypeOK'
<1> SUFFICES ASSUME TypeOK, [Next]_vars PROVE TypeOK'
  OBVIOUS
<1>1. ASSUME NEW r \in Relays,
             \/ LiteChanges(lite \union {r}, r, "GOOD_L2")
             \/ LiteChanges(lite \ {r}, r, "BAD_L2")
      PROVE  TypeOK'
  <2>1. lite \union {r} \in SUBSET Relays /\ lite \ {r} \in SUBSET Relays
    BY DEF TypeOK
  <2> QED
    BY <1>1, <2>1, ChangeTypes
<1>2. ASSUME NEW path \in Path, NEW n \in 1..3, CircMinor(SubSeq(path, 1, n))
      PROVE  TypeOK'
  <2>1. SubSeq(path, 1, n) \in MinorPaths
    BY DEF MinorPaths
  <2> QED
    BY <1>2, <2>1, CircTypes
<1>3. CASE UNCHANGED vars
  BY <1>3 DEF vars, torVars, verifierVars, TypeOK
<1> QED
  BY <1>1, <1>2, <1>3, MainTypes, ConnTypes, ChangeTypes, CircTypes, HandlerTypes DEF Next

-----------------------------------------------------------------------------
(* How many connections Tor had as it posted the events of a queue.        *)

LEMMA Deltas == ASSUME NEW e, NEW g PROVE Delta(e, g) \in -1..1
BY DEF Delta

LEMMA ConnsBounded ==
    ASSUME NEW T \in SUBSET ConnIds
    PROVE  IsFiniteSet(T) /\ Cardinality(T) \in 0..Cardinality(ConnIds)
<1>1. IsFiniteSet(T) /\ Cardinality(T) <= Cardinality(ConnIds)
  BY FS_Subset, PathSetsAssumption
<1>2. Cardinality(T) \in Nat /\ Cardinality(ConnIds) \in Nat
  BY <1>1, FS_CardinalityType, PathSetsAssumption
<1> QED
  BY <1>1, <1>2

\* Events that change nothing for g, with circuits judged by the number c.
Flat(s, g, c) ==
    \A k \in 1..Len(s) :
      /\ Delta(s[k], g) = 0
      /\ IsCirc(s[k]) /\ s[k].fresh /\ s[k].path[1] = g
           => (1 \in s[k].wrong.strays <=> c = 0)

LEMMA TraceFlat ==
    ASSUME NEW s \in Seq(Events), NEW g, NEW c \in 0..Cardinality(ConnIds), Flat(s, g, c)
    PROVE  Traces(s, g, c, c)
<1> DEFINE P == [k \in 0..Len(s) |-> c]
<1>1. Len(s) \in Nat /\ c \in Nat
  BY LenProperties
<1>2. P \in [0..Len(s) -> 0..Cardinality(ConnIds)] /\ \A k \in 0..Len(s) : P[k] = c
  OBVIOUS
<1> HIDE DEF P
<1>3. P[0] = c /\ P[Len(s)] = c
  BY <1>1, <1>2
<1>4. ASSUME NEW k \in 1..Len(s) PROVE P[k] = P[k - 1] + Delta(s[k], g)
  <2>1. P[k] = c /\ P[k - 1] = c /\ Delta(s[k], g) = 0
    BY <1>1, <1>2 DEF Flat
  <2> QED
    BY <1>1, <2>1
<1>5. Traced(s, g, P, c, c)
  BY <1>1, <1>2, <1>3, <1>4 DEF Traced, Flat
<1> QED
  BY <1>2, <1>5 DEF Traces

LEMMA TraceOne ==
    ASSUME NEW e \in Events, NEW g, NEW c \in 0..Cardinality(ConnIds),
           c + Delta(e, g) \in 0..Cardinality(ConnIds), ~IsCirc(e)
    PROVE  Traces(<<e>>, g, c, c + Delta(e, g))
<1> DEFINE P == [k \in 0..1 |-> IF k = 0 THEN c ELSE c + Delta(e, g)]
           s == <<e>>
<1>1. Len(s) = 1 /\ s[1] = e
  OBVIOUS
<1>2. P \in [0..Len(s) -> 0..Cardinality(ConnIds)] /\ P[0] = c /\ P[1] = c + Delta(e, g)
  BY <1>1
<1> HIDE DEF P, s
<1>3. c \in Int /\ Delta(e, g) \in Int
  BY Deltas
<1>4. ASSUME NEW i \in 0..1, NEW j \in 0..1, i <= j,
             \A k \in i + 1..j : Delta(s[k], g) = 0
      PROVE  P[i] = P[j]
  <2>1. CASE i = j
    BY <2>1
  <2>2. CASE i = 0 /\ j = 1
    <3>1. Delta(s[1], g) = 0
      BY <1>4, <2>2
    <3> QED
      BY <1>1, <1>2, <1>3, <2>2, <3>1
  <2>3. i \in {0, 1} /\ j \in {0, 1} /\ ~(i = 1 /\ j = 0)
    BY <1>4
  <2> QED
    BY <2>1, <2>2, <2>3
<1>5. \A k \in 1..Len(s) : k = 1
  BY <1>1
<1>6. Traced(s, g, P, c, c + Delta(e, g))
  BY <1>1, <1>2, <1>3, <1>4, <1>5 DEF Traced
<1> QED
  BY <1>2, <1>6 DEF Traces, s

LEMMA TraceConcat ==
    ASSUME NEW q \in Seq(Events), NEW s \in Seq(Events), NEW g,
           NEW from, NEW mid, NEW to, Traces(q, g, from, mid), Traces(s, g, mid, to)
    PROVE  Traces(q \o s, g, from, to)
<1> DEFINE qs == q \o s
           m == Len(q)
           n == Len(s)
<1>1. /\ m \in Nat /\ n \in Nat /\ Len(qs) = m + n
      /\ \A k \in 1..m : qs[k] = q[k]
      /\ \A k \in 1..n : qs[m + k] = s[k]
  BY Grown
<1>2. PICK P \in [0..m -> 0..Cardinality(ConnIds)] : Traced(q, g, P, from, mid)
  BY DEF Traces
<1>3. PICK R \in [0..n -> 0..Cardinality(ConnIds)] : Traced(s, g, R, mid, to)
  BY DEF Traces
<1> DEFINE PR == [k \in 0..m + n |-> IF k <= m THEN P[k] ELSE R[k - m]]
<1>4. /\ PR \in [0..Len(qs) -> 0..Cardinality(ConnIds)]
      /\ \A k \in 0..m : PR[k] = P[k]
  <2>1. ASSUME NEW k \in 0..m + n
        PROVE  (IF k <= m THEN P[k] ELSE R[k - m]) \in 0..Cardinality(ConnIds)
    <3>1. IF k <= m THEN k \in 0..m ELSE k - m \in 0..n
      BY <1>1
    <3> QED
      BY <3>1
  <2> QED
    BY <1>1, <2>1
<1>5. ASSUME NEW k \in 0..n PROVE PR[m + k] = R[k]
  <2>1. m + k \in 0..m + n /\ m + k - m = k /\ (m + k <= m <=> k = 0)
    BY <1>1
  <2>2. P[m] = R[0]
    BY <1>2, <1>3 DEF Traced
  <2> QED
    BY <1>1, <2>1, <2>2
<1>6. \A k \in m + 1..m + n : k - m \in 1..n /\ k = m + (k - m)
  BY <1>1
<1> HIDE DEF PR, qs, m, n
<1>7. PR[0] = from /\ PR[Len(qs)] = to
  <2>1. PR[0] = P[0] /\ PR[m + n] = R[n]
    <3>1. 0 \in 0..m /\ n \in 0..n
      BY <1>1
    <3> QED
      BY <1>4, <1>5, <3>1
  <2> QED
    BY <1>1, <1>2, <1>3, <2>1 DEF Traced, m, n
<1>8. ASSUME NEW k \in 1..Len(qs) PROVE PR[k] = PR[k - 1] + Delta(qs[k], g)
  <2>1. CASE k <= m
    <3>1. k \in 1..m /\ k - 1 \in 0..m /\ k \in 0..m
      BY <1>1, <2>1
    <3>2. P[k] = P[k - 1] + Delta(q[k], g)
      BY <1>2, <3>1 DEF Traced, m
    <3> QED
      BY <1>1, <1>4, <3>1, <3>2
  <2>2. CASE ~(k <= m)
    <3>1. PICK h \in 1..n : k = m + h
      BY <1>1, <1>6, <2>2
    <3>2. h \in 0..n /\ h - 1 \in 0..n /\ k - 1 = m + (h - 1)
      BY <1>1, <3>1
    <3>3. R[h] = R[h - 1] + Delta(s[h], g)
      BY <1>3 DEF Traced, n
    <3>4. PR[k] = R[h] /\ PR[k - 1] = R[h - 1] /\ qs[k] = s[h]
      BY <1>1, <1>5, <3>1, <3>2
    <3> QED
      BY <3>3, <3>4
  <2> QED
    BY <2>1, <2>2
<1>9. ASSUME NEW i \in 0..Len(qs), NEW j \in 0..Len(qs), i <= j,
             \A k \in i + 1..j : Delta(qs[k], g) = 0
      PROVE  PR[i] = PR[j]
  <2>0. i \in Int /\ j \in Int /\ i >= 0 /\ j <= m + n /\ m \in Int /\ n \in Int
        /\ m >= 0 /\ n >= 0 /\ i <= j
    BY <1>1, <1>9
  <2>1. ASSUME NEW a \in 0..m, NEW b \in 0..m, i <= a, a <= b, b <= j
        PROVE  PR[a] = PR[b]
    <3>1. ASSUME NEW k \in a + 1..b PROVE Delta(q[k], g) = 0
      <4>1. k \in Int /\ a \in Int /\ b \in Int /\ k >= a + 1 /\ k <= b /\ a >= 0 /\ b <= m
        BY <2>0
      <4>2. k >= 1 /\ k <= m /\ k >= i + 1 /\ k <= j
        BY <2>0, <2>1, <4>1
      <4>3. k \in 1..m /\ k \in i + 1..j
        BY <2>0, <4>1, <4>2
      <4> QED
        BY <1>1, <1>9, <4>3
    <3>2. P[a] = P[b]
      BY <1>2, <2>1, <3>1 DEF Traced, m
    <3> QED
      BY <1>4, <3>2
  <2>2. ASSUME NEW a \in 0..n, NEW b \in 0..n, i <= m + a, a <= b, m + b <= j
        PROVE  PR[m + a] = PR[m + b]
    <3>1. ASSUME NEW k \in a + 1..b PROVE Delta(s[k], g) = 0
      <4>1. k \in Int /\ a \in Int /\ b \in Int /\ k >= a + 1 /\ k <= b /\ a >= 0 /\ b <= n
        BY <2>0
      <4>2. m + k \in Int /\ m + k >= i + 1 /\ m + k <= j /\ k >= 1 /\ k <= n
        BY <2>0, <2>2, <4>1
      <4>3. k \in 1..n /\ m + k \in i + 1..j
        BY <2>0, <4>1, <4>2
      <4> QED
        BY <1>1, <1>9, <4>3
    <3>2. R[a] = R[b]
      BY <1>3, <2>2, <3>1 DEF Traced, n
    <3> QED
      BY <1>5, <3>2
  <2>3. CASE j <= m
    <3>1. i \in 0..m /\ j \in 0..m /\ i <= i /\ j <= j
      BY <2>0, <2>3
    <3> QED
      BY <2>0, <2>1, <3>1
  <2>4. CASE ~(i <= m)
    <3>1. i - m \in 0..n /\ j - m \in 0..n /\ m + (i - m) = i /\ m + (j - m) = j
          /\ i - m <= j - m
      BY <2>0, <2>4
    <3>2. PR[m + (i - m)] = PR[m + (j - m)]
      <4>1. i <= m + (i - m) /\ m + (j - m) <= j
        BY <2>0, <3>1
      <4> QED
        BY <2>2, <3>1, <4>1
    <3> QED
      BY <3>1, <3>2
  <2>5. CASE i <= m /\ ~(j <= m)
    <3>1. i \in 0..m /\ m \in 0..m /\ j - m \in 0..n /\ m + (j - m) = j /\ m + 0 = m
          /\ 0 \in 0..n /\ 0 <= j - m /\ i <= i
      BY <1>1, <1>9, <2>5
    <3>2. PR[i] = PR[m]
      BY <1>1, <2>1, <2>5, <3>1
    <3>3. PR[m + 0] = PR[m + (j - m)]
      <4>1. i <= m + 0 /\ m + (j - m) <= j
        BY <2>0, <2>5, <3>1
      <4> QED
        BY <2>2, <3>1, <4>1
    <3> QED
      BY <3>1, <3>2, <3>3
  <2> QED
    BY <2>3, <2>4, <2>5
<1>10. ASSUME NEW k \in 1..Len(qs), IsCirc(qs[k]), qs[k].fresh, qs[k].path[1] = g
       PROVE  1 \in qs[k].wrong.strays <=> PR[k] = 0
  <2>1. CASE k <= m
    <3>1. k \in 1..m /\ k \in 0..m
      BY <1>1, <2>1
    <3> QED
      BY <1>1, <1>2, <1>4, <1>10, <3>1 DEF Traced, m
  <2>2. CASE ~(k <= m)
    <3>1. PICK h \in 1..n : k = m + h
      BY <1>1, <1>6, <2>2
    <3>2. h \in 0..n /\ PR[k] = R[h] /\ qs[k] = s[h]
      BY <1>1, <1>5, <3>1
    <3> QED
      BY <1>3, <1>10, <3>1, <3>2 DEF Traced, n
  <2> QED
    BY <2>1, <2>2
<1>11. Traced(qs, g, PR, from, to)
  BY <1>7, <1>8, <1>9, <1>10 DEF Traced
<1> QED
  BY <1>4, <1>11 DEF Traces, qs

\* What is left when the first event is gone.
LEMMA TraceTail ==
    ASSUME NEW q \in Seq(Events), NEW g, NEW from, NEW to, Traces(q, g, from, to),
           q # <<>>
    PROVE  /\ Traces(Tail(q), g, from + Delta(q[1], g), to)
           /\ from \in 0..Cardinality(ConnIds)
           /\ from + Delta(q[1], g) \in 0..Cardinality(ConnIds)
           /\ IsCirc(q[1]) /\ q[1].fresh /\ q[1].path[1] = g
                => (1 \in q[1].wrong.strays <=> from = 0)
<1> DEFINE t == Tail(q)
           n == Len(t)
           from1 == from + Delta(q[1], g)
<1>1. /\ n \in Nat /\ Len(q) = n + 1 /\ \A k \in 1..n : t[k] = q[k + 1]
  BY Shrunk
<1>2. PICK P \in [0..Len(q) -> 0..Cardinality(ConnIds)] : Traced(q, g, P, from, to)
  BY DEF Traces
<1> DEFINE R == [k \in 0..n |-> P[k + 1]]
<1>3. R \in [0..n -> 0..Cardinality(ConnIds)] /\ \A k \in 0..n : R[k] = P[k + 1]
  BY <1>1
<1> HIDE DEF R, t, n
<1>4. P[0] = from /\ P[1] = from1
  <2>1. 1 \in 1..Len(q) /\ 1 - 1 = 0
    BY <1>1
  <2>2. P[1] = P[1 - 1] + Delta(q[1], g)
    BY <1>2, <2>1 DEF Traced
  <2> QED
    BY <1>2, <2>1, <2>2 DEF Traced
<1> HIDE DEF from1
<1>5. R[0] = from1 /\ R[n] = to
  BY <1>1, <1>2, <1>3, <1>4 DEF Traced
<1>6. ASSUME NEW k \in 1..n PROVE R[k] = R[k - 1] + Delta(t[k], g)
  <2>1. k + 1 \in 1..Len(q) /\ k \in 0..n /\ k - 1 \in 0..n /\ (k + 1) - 1 = (k - 1) + 1
    BY <1>1
  <2>2. P[k + 1] = P[(k + 1) - 1] + Delta(q[k + 1], g)
    BY <1>2, <2>1 DEF Traced
  <2> QED
    BY <1>1, <1>3, <2>1, <2>2
<1>7. ASSUME NEW i \in 0..n, NEW j \in 0..n, i <= j,
             \A k \in i + 1..j : Delta(t[k], g) = 0
      PROVE  R[i] = R[j]
  <2>1. i + 1 \in 0..Len(q) /\ j + 1 \in 0..Len(q) /\ i + 1 <= j + 1
    BY <1>1, <1>7
  <2>2. ASSUME NEW k \in (i + 1) + 1..j + 1 PROVE Delta(q[k], g) = 0
    <3>1. k - 1 \in i + 1..j /\ k - 1 \in 1..n /\ (k - 1) + 1 = k
      BY <1>1, <2>1
    <3>2. t[k - 1] = q[(k - 1) + 1] /\ Delta(t[k - 1], g) = 0
      BY <1>1, <1>7, <3>1
    <3> QED
      BY <3>1, <3>2
  <2>3. P[i + 1] = P[j + 1]
    BY <1>2, <2>1, <2>2 DEF Traced
  <2> QED
    BY <1>3, <2>3
<1>8. ASSUME NEW k \in 1..n, IsCirc(t[k]), t[k].fresh, t[k].path[1] = g
      PROVE  1 \in t[k].wrong.strays <=> R[k] = 0
  <2>1. k + 1 \in 1..Len(q) /\ t[k] = q[k + 1] /\ R[k] = P[k + 1]
    BY <1>1, <1>3
  <2> QED
    BY <1>2, <1>8, <2>1 DEF Traced
<1>9. Traced(t, g, R, from1, to)
  BY <1>5, <1>6, <1>7, <1>8 DEF Traced, n
<1>10. Traces(Tail(q), g, from1, to)
  BY <1>3, <1>9 DEF Traces, t, n
<1>11. from \in 0..Cardinality(ConnIds) /\ from1 \in 0..Cardinality(ConnIds)
  BY <1>1, <1>2, <1>4
<1>12. IsCirc(q[1]) /\ q[1].fresh /\ q[1].path[1] = g
         => (1 \in q[1].wrong.strays <=> from = 0)
  <2>1. 1 \in 1..Len(q)
    BY <1>1
  <2>2. CASE Delta(q[1], g) = 0
    <3>1. P[1] = from
      <4>1. 0 \in 0..Len(q) /\ 1 \in 0..Len(q) /\ 0 <= 1 /\ 0 + 1..1 = {1}
        BY <1>1
      <4> QED
        BY <1>2, <1>4, <2>2, <4>1 DEF Traced
    <3> QED
      BY <1>2, <2>1, <3>1 DEF Traced
  <2>3. IsCirc(q[1]) => Delta(q[1], g) = 0
    BY DEF IsCirc, Delta
  <2> QED
    BY <2>2, <2>3
<1> QED
  BY <1>10, <1>11, <1>12 DEF from1

-----------------------------------------------------------------------------
(* What the events hold.                                                   *)

\* Events that are not about connections or circuits.
Quiet(s) == \A k \in 1..Len(s) : s[k].type \in {"GUARD", "CONF_CHANGED"}

LEMMA ReadQuiet ==
    ASSUME NEW type, NEW s \in Seq(Events), Quiet(s)
    PROVE  Read(type, s) \in Seq(Events) /\ Quiet(Read(type, s))
BY EmptySeq DEF Read, Quiet

LEMMA ReadOne ==
    ASSUME NEW e \in Events
    PROVE  /\ Read(e.type, <<e>>) \in Seq(Events)
           /\ \A k \in 1..Len(Read(e.type, <<e>>)) : Read(e.type, <<e>>)[k] = e
           /\ ~Subscribed(e.type) => Read(e.type, <<e>>) = <<>>
           /\ Subscribed(e.type) => Read(e.type, <<e>>) = <<e>>
<1>1. <<e>> \in Seq(Events) /\ Len(<<e>>) = 1 /\ <<e>>[1] = e
  BY OneMore
<1>2. CASE Subscribed(e.type)
  BY <1>1, <1>2 DEF Read
<1>3. CASE ~Subscribed(e.type)
  BY <1>3, EmptySeq DEF Read
<1> QED
  BY <1>2, <1>3

LEMMA RenewedQuiet ==
    ASSUME NEW R, NEW told
    PROVE  Quiet(Renewed(R, told))
<1>1. GuardEvent(lite, "BAD_L2").type = "GUARD" /\ GuardEvent(R, "GOOD_L2").type = "GUARD"
  BY DEF GuardEvent
<1>2. CASE opt[2] # {}
  BY <1>2 DEF Renewed, Quiet
<1>3. CASE opt[2] = {} /\ told
  <2>1. Renewed(R, told) = <<GuardEvent(lite, "BAD_L2"), GuardEvent(R, "GOOD_L2")>>
    BY <1>3 DEF Renewed
  <2> QED
    BY <1>1, <2>1 DEF Quiet
<1>4. CASE opt[2] = {} /\ ~told
  <2>1. Renewed(R, told) = <<GuardEvent(R, "GOOD_L2")>>
    BY <1>4 DEF Renewed
  <2> QED
    BY <1>1, <2>1 DEF Quiet
<1> QED
  BY <1>2, <1>3, <1>4

LEMMA QuietConcat ==
    ASSUME NEW s \in Seq(Events), NEW t \in Seq(Events), Quiet(s), Quiet(t)
    PROVE  Quiet(s \o t)
<1>1. /\ Len(s) \in Nat /\ Len(t) \in Nat /\ Len(s \o t) = Len(s) + Len(t)
      /\ \A k \in 1..Len(s) : (s \o t)[k] = s[k]
      /\ \A k \in 1..Len(t) : (s \o t)[Len(s) + k] = t[k]
  BY Grown
<1> DEFINE st == s \o t
<1> HIDE DEF st
<1>2. ASSUME NEW k \in 1..Len(st) PROVE st[k].type \in {"GUARD", "CONF_CHANGED"}
  <2>1. CASE k <= Len(s)
    BY <1>1, <2>1 DEF Quiet, st
  <2>2. CASE ~(k <= Len(s))
    <3>1. k - Len(s) \in 1..Len(t) /\ Len(s) + (k - Len(s)) = k
      BY <1>1, <2>2 DEF st
    <3>2. st[Len(s) + (k - Len(s))] = t[k - Len(s)]
      BY <1>1, <3>1 DEF st
    <3> QED
      BY <3>1, <3>2 DEF Quiet
  <2> QED
    BY <2>1, <2>2
<1> QED
  BY <1>2 DEF Quiet, st

LEMMA UnsetQuiet == ASSUME TypeOK PROVE Quiet(Unset(2) \o Unset(3))
<1>1. ASSUME NEW l PROVE Quiet(Unset(l))
  <2>1. ConfEvent(l, {}).type = "CONF_CHANGED"
    BY DEF ConfEvent
  <2>2. CASE opt[l] = {}
    BY <2>2 DEF Unset, Quiet
  <2>3. CASE opt[l] # {}
    <3>1. Unset(l) = <<ConfEvent(l, {})>>
      BY <2>3 DEF Unset
    <3> QED
      BY <2>1, <3>1 DEF Quiet
  <2> QED
    BY <2>2, <2>3
<1> QED
  BY <1>1, UnsetTypes, QuietConcat DEF Layers

LEMMA PathParts ==
    /\ \A path \in Path : 1 \in DOMAIN path /\ path[1] \in Guards
    /\ \A path \in MinorPaths : 1 \in DOMAIN path /\ path[1] \in Guards
<1>1. ASSUME NEW path \in Path PROVE 1 \in DOMAIN path /\ path[1] \in Guards
  BY DEF Path
<1>2. ASSUME NEW path \in Path, NEW n \in 1..3
      PROVE  1 \in DOMAIN SubSeq(path, 1, n) /\ SubSeq(path, 1, n)[1] \in Guards
  <2>1. \A i \in 1..n : path[i] \in Guards \union Relays
    BY DEF Path
  <2>2. /\ SubSeq(path, 1, n) \in Seq(Guards \union Relays)
        /\ Len(SubSeq(path, 1, n)) = IF 1 <= n THEN n - 1 + 1 ELSE 0
        /\ \A i \in 1..n - 1 + 1 : SubSeq(path, 1, n)[i] = path[1 + i - 1]
    BY <2>1, SubSeqProperties
  <2> QED
    BY <1>1, <2>2, LenProperties
<1>3. ASSUME NEW path \in MinorPaths PROVE 1 \in DOMAIN path /\ path[1] \in Guards
  BY <1>2 DEF MinorPaths
<1> QED
  BY <1>1, <1>3

LEMMA PostedGrows ==
    ASSUME TypeOK, PostedInv, NEW s \in Seq(Events), queue' = queue \o s,
           done \in Int, done' \in Int, done' >= done,
           \A k \in 1..Len(s) : EventOK(s[k], done')
    PROVE  PostedInv'
<1>1. /\ Len(queue) \in Nat /\ Len(s) \in Nat /\ Len(queue') = Len(queue) + Len(s)
      /\ \A k \in 1..Len(queue) : queue'[k] = queue[k]
      /\ \A k \in 1..Len(s) : queue'[Len(queue) + k] = s[k]
  BY Grown DEF TypeOK
<1>2. ASSUME NEW k \in 1..Len(queue') PROVE EventOK(queue'[k], done')
  <2>1. CASE k <= Len(queue)
    <3>1. queue'[k] = queue[k] /\ EventOK(queue[k], done)
      BY <1>1, <2>1 DEF PostedInv
    <3> QED
      BY <3>1 DEF EventOK, OrconnStep
  <2>2. CASE ~(k <= Len(queue))
    <3>1. k - Len(queue) \in 1..Len(s) /\ Len(queue) + (k - Len(queue)) = k
      BY <1>1, <2>2
    <3> QED
      BY <1>1, <3>1
  <2> QED
    BY <2>1, <2>2
<1> QED
  BY <1>2 DEF PostedInv

-----------------------------------------------------------------------------
(* The counts of the guards.                                               *)

LEMMA ConnectedSizes ==
    ASSUME NEW g
    PROVE  IsFiniteSet(Connected(g))
           /\ Cardinality(Connected(g)) \in 0..Cardinality(ConnIds)
<1>1. Connected(g) \in SUBSET ConnIds
  BY DEF Connected
<1> QED
  BY <1>1, ConnsBounded

\* Events that are posted and change nothing for g.
LEMMA CountPosted ==
    ASSUME TypeOK, NEW g \in Guards, CountOf(g), NEW s \in Seq(Events),
           queue' = queue \o s, Flat(s, g, Cardinality(Connected(g))),
           ConnCount(g)' = ConnCount(g), Connected(g)' = Connected(g)
    PROVE  CountOf(g)'
<1> DEFINE c == Cardinality(Connected(g))
<1>1. c \in 0..Cardinality(ConnIds)
  BY ConnectedSizes
<1> HIDE DEF c
<1>2. Traces(s, g, c, c)
  BY <1>1, TraceFlat DEF c
<1>3. Traces(queue, g, ConnCount(g), c) /\ queue \in Seq(Events)
  BY DEF CountOf, TypeOK, c
<1>4. Traces(queue \o s, g, ConnCount(g), c)
  BY <1>2, <1>3, TraceConcat
<1>5. Cardinality(Connected(g))' = c
  BY DEF c
<1> QED
  BY <1>4, <1>5 DEF CountOf

LEMMA QuietFlat ==
    ASSUME NEW s, NEW g, NEW c, Quiet(s)
    PROVE  Flat(s, g, c)
BY DEF Quiet, Flat, Delta, IsCirc

\* An event of a connection.
LEMMA CountPostedOne ==
    ASSUME TypeOK, NEW g \in Guards, CountOf(g), NEW e \in Events, ~IsCirc(e),
           queue' = queue \o <<e>>, ConnCount(g)' = ConnCount(g),
           Cardinality(Connected(g)') = Cardinality(Connected(g)) + Delta(e, g)
    PROVE  CountOf(g)'
<1> DEFINE c == Cardinality(Connected(g))
           d == Cardinality(Connected(g)')
<1>1. c \in 0..Cardinality(ConnIds)
  BY ConnectedSizes
<1>2. d \in 0..Cardinality(ConnIds)
  <2>1. Connected(g)' \in SUBSET ConnIds
    BY DEF Connected
  <2> QED
    BY <2>1, ConnsBounded
<1>3. d = c + Delta(e, g)
  OBVIOUS
<1>4. Traces(queue, g, ConnCount(g), c) /\ queue \in Seq(Events)
  BY DEF CountOf, TypeOK
<1>5. CountOf(g)' <=> Traces(queue', g, ConnCount(g), d)
  BY DEF CountOf
<1> HIDE DEF c, d
<1>6. Traces(<<e>>, g, c, d)
  BY <1>1, <1>2, <1>3, TraceOne
<1>7. Traces(queue \o <<e>>, g, ConnCount(g), d)
  BY <1>4, <1>6, OneMore, TraceConcat
<1> QED
  BY <1>5, <1>7

\* An event that has its turn.
LEMMA CountHanded ==
    ASSUME TypeOK, NEW g \in Guards, CountOf(g), queue # <<>>, queue' = Tail(queue),
           ConnCount(g)' = ConnCount(g) + Delta(queue[1], g),
           Connected(g)' = Connected(g)
    PROVE  CountOf(g)'
<1> DEFINE c == Cardinality(Connected(g))
           f == ConnCount(g)
<1>1. Traces(queue, g, f, c) /\ queue \in Seq(Events)
  BY DEF CountOf, TypeOK
<1>2. CountOf(g)' <=> Traces(queue', g, f + Delta(queue[1], g), c)
  BY DEF CountOf
<1> HIDE DEF c, f
<1>3. Traces(Tail(queue), g, f + Delta(queue[1], g), c)
  BY <1>1, TraceTail
<1> QED
  BY <1>2, <1>3

\* Nothing that the counts depend on.
LEMMA CountsQuiet ==
    ASSUME TypeOK, CountsInv, NEW s \in Seq(Events), Quiet(s), queue' = queue \o s,
           UNCHANGED <<conn, layer1, drift>>,
           done' = done \/ (done >= OrconnStep /\ done' >= OrconnStep),
           done' \in Int
    PROVE  CountsInv'
<1>1. CASE done < OrconnStep
  BY <1>1 DEF CountsInv, TypeOK, OrconnStep
<1>2. CASE ~(done < OrconnStep)
  <2>1. ASSUME NEW g \in Guards \ drift PROVE CountOf(g)'
    <3>1. CountOf(g) /\ Flat(s, g, Cardinality(Connected(g)))
      BY <1>2, QuietFlat DEF CountsInv
    <3>2. ConnCount(g)' = ConnCount(g) /\ Connected(g)' = Connected(g)
      BY DEF ConnCount, Connected
    <3> QED
      BY <3>1, <3>2, CountPosted
  <2>2. ~(done' < OrconnStep) /\ drift' = drift
    BY <1>2 DEF TypeOK, OrconnStep
  <2> QED
    BY <2>1, <2>2 DEF CountsInv
<1> QED
  BY <1>1, <1>2

\* The steps of the main thread.
LEMMA CountsMain ==
    ASSUME TypeOK, CountsInv, PostedInv
    PROVE  /\ \A l \in Layers : AskLayer(l) => CountsInv'
           /\ AskOrconns => CountsInv'
           /\ AddListener => CountsInv'
           /\ \A R \in LayerValues, told \in BOOLEAN : Newnym(R, told) => CountsInv'
<1>0. done \in Nat /\ queue \in Seq(Events)
  BY DEF TypeOK
<1>1. ASSUME NEW l \in Layers, AskLayer(l) PROVE CountsInv'
  BY <1>0, <1>1 DEF AskLayer, CountsInv, OrconnStep, ConfStep, Layers
<1>2. ASSUME AskOrconns PROVE CountsInv'
  <2> DEFINE listed == {i \in ConnIds : conn[i].status \in {"launched", "connected"}}
             n == [g \in Guards |-> Cardinality({i \in listed : conn[i].guard = g})]
  <2>1. /\ done + 1 = OrconnStep /\ done' = done + 1 /\ layer1' = WithConns(n)
        /\ UNCHANGED <<conn, queue>>
    BY <1>2 DEF AskOrconns, torVars
  <2>2. ASSUME NEW g \in Guards \ drift' PROVE CountOf(g)'
    <3>1. {i \in listed : conn[i].guard = g} = Connected(g)
      <4>1. \A i \in ConnIds : conn[i].status = "launched" => conn[i].guard \in drift'
        BY <1>2 DEF AskOrconns
      <4> QED
        BY <4>1 DEF Connected
    <3> DEFINE c == Cardinality(Connected(g))
    <3>2. c \in Nat /\ c \in 0..Cardinality(ConnIds)
      BY ConnectedSizes, FS_CardinalityType
    <3>3. n[g] = c
      BY <3>1
    <3>4. n \in [Guards -> Int]
      <4>1. ASSUME NEW h \in Guards
            PROVE  Cardinality({i \in listed : conn[i].guard = h}) \in Int
        <5>1. {i \in listed : conn[i].guard = h} \in SUBSET ConnIds
          OBVIOUS
        <5> QED
          BY <5>1, ConnsBounded
      <4> QED
        BY <4>1
    <3>5. ConnCount(g) = 0
      BY <1>0, <2>1 DEF CountsInv, ConnCount
    <3>6. Cardinality(Connected(g))' = c
      BY <2>1 DEF Connected
    <3> HIDE DEF n, c
    <3>7. ConnCount(g)' = c
      BY <2>1, <3>2, <3>3, <3>4, <3>5, WithConnsEffect
    <3>8. Flat(queue, g, c)
      <4>1. \A k \in 1..Len(queue) :
              queue[k].type \in {"ORCONN", "CIRC", "CIRC_MINOR"} => ~queue[k].fresh
        BY <1>0, <2>1 DEF PostedInv, EventOK
      <4> QED
        BY <4>1 DEF Flat, Delta, IsCirc
    <3>9. Traces(queue, g, c, c)
      BY <1>0, <3>2, <3>8, TraceFlat
    <3> QED
      BY <2>1, <3>6, <3>7, <3>9 DEF CountOf
  <2> QED
    BY <1>0, <2>1, <2>2 DEF CountsInv, OrconnStep
<1>3. ASSUME AddListener PROVE CountsInv'
  <2>1. queue' = queue \o <<>> /\ Quiet(<<>>) /\ <<>> \in Seq(Events)
    BY <1>0, <1>3, ConcatEmptySeq, EmptySeq DEF AddListener, Quiet
  <2> QED
    <3>1. done >= OrconnStep /\ done' >= OrconnStep
          /\ UNCHANGED <<conn, layer1, drift>> /\ done' \in Int
      BY <1>0, <1>3 DEF AddListener, OrconnStep, torVars, verifierVars
    <3> QED
      BY <2>1, <3>1, CountsQuiet
<1>4. ASSUME NEW R \in LayerValues, NEW told \in BOOLEAN, Newnym(R, told)
      PROVE  CountsInv'
  <2>1. Renewed(R, told) \in Seq(Events) /\ Len(Renewed(R, told)) <= 2
        /\ Quiet(Renewed(R, told))
    BY RenewedTypes, RenewedQuiet
  <2>2. queue' = queue \o Read("GUARD", Renewed(R, told))
    BY <1>4, <2>1, PostEffect DEF Newnym
  <2>3. done + 1 = 9 /\ done' = done + 1 /\ UNCHANGED <<conn, layer1, drift>>
    BY <1>4 DEF Newnym, Steps, verifierVars
  <2> DEFINE t == Read("GUARD", Renewed(R, told))
  <2>4. t \in Seq(Events) /\ Quiet(t) /\ queue' = queue \o t
    BY <2>1, <2>2, ReadQuiet
  <2> HIDE DEF t
  <2> QED
    BY <1>0, <2>3, <2>4, CountsQuiet DEF OrconnStep
<1> QED
  BY <1>1, <1>2, <1>3, <1>4

\* The connections of Tor.
LEMMA ConnSizes ==
    ASSUME TypeOK, NEW i \in ConnIds, NEW status \in {"launched", "connected", "gone"},
           conn' = [conn EXCEPT ![i].status = status], NEW g
    PROVE  /\ conn[i].guard # g \/ (conn[i].status # "connected" /\ status # "connected")
                => Connected(g)' = Connected(g)
           /\ conn[i].guard = g /\ conn[i].status # "connected" /\ status = "connected"
                => Cardinality(Connected(g)') = Cardinality(Connected(g)) + 1
           /\ conn[i].guard = g /\ conn[i].status = "connected" /\ status # "connected"
                => Cardinality(Connected(g)') = Cardinality(Connected(g)) + -1
<1>1. conn \in [ConnIds -> [guard : Guards,
                            status : {"none", "launched", "connected", "gone"}]]
  BY DEF TypeOK
<1>2. \A j \in ConnIds : conn'[j].guard = conn[j].guard
        /\ conn'[j].status = IF j = i THEN status ELSE conn[j].status
  BY <1>1
<1>3. IsFiniteSet(Connected(g)) /\ Cardinality(Connected(g)) \in Nat
  BY ConnectedSizes, FS_CardinalityType
<1>4. ASSUME conn[i].guard # g \/ (conn[i].status # "connected" /\ status # "connected")
      PROVE  Connected(g)' = Connected(g)
  BY <1>2, <1>4 DEF Connected
<1>5. ASSUME conn[i].guard = g, conn[i].status # "connected", status = "connected"
      PROVE  Cardinality(Connected(g)') = Cardinality(Connected(g)) + 1
  <2>1. Connected(g)' = Connected(g) \union {i} /\ i \notin Connected(g)
    BY <1>2, <1>5 DEF Connected
  <2> QED
    BY <1>3, <2>1, FS_AddElement
<1>6. ASSUME conn[i].guard = g, conn[i].status = "connected", status # "connected"
      PROVE  Cardinality(Connected(g)') = Cardinality(Connected(g)) + -1
  <2>1. Connected(g)' = Connected(g) \ {i} /\ i \in Connected(g)
    BY <1>2, <1>6 DEF Connected
  <2>2. Cardinality(Connected(g)') = Cardinality(Connected(g)) - 1
    BY <1>3, <2>1, FS_RemoveElement
  <2> QED
    BY <1>3, <2>2
<1> QED
  BY <1>4, <1>5, <1>6

LEMMA CountsConn ==
    ASSUME TypeOK, CountsInv, NEW i \in ConnIds,
           ConnLaunched(i) \/ ConnConnected(i) \/ ConnEnded(i)
    PROVE  CountsInv'
<1>0. /\ done \in Nat /\ queue \in Seq(Events)
      /\ conn[i] \in [guard : Guards, status : {"none", "launched", "connected", "gone"}]
  BY DEF TypeOK
<1>1. CASE ConnLaunched(i)
  <2>1. /\ queue' = queue \o <<>> /\ Quiet(<<>>) /\ <<>> \in Seq(Events)
        /\ UNCHANGED <<layer1, drift, done, queue>>
    BY <1>0, <1>1, ConcatEmptySeq, EmptySeq DEF ConnLaunched, Quiet, verifierVars
  <2>2. \A g : Connected(g)' = Connected(g)
    BY <1>1, ConnSizes DEF ConnLaunched
  <2>3. \A g : CountOf(g)' = CountOf(g)
    BY <2>1, <2>2 DEF CountOf, ConnCount
  <2> QED
    BY <2>1, <2>3 DEF CountsInv
<1>2. ASSUME NEW status \in {"CONNECTED", "CLOSED"}, PostOrconn(i, status),
             NEW next \in {"launched", "connected", "gone"},
             conn' = [conn EXCEPT ![i].status = next], UNCHANGED <<layer1, done>>,
             status = "CONNECTED" => conn[i].status = "launched" /\ next = "connected",
             status = "CLOSED" => conn[i].status \in {"launched", "connected"} /\ next = "gone"
      PROVE  CountsInv'
  <2> DEFINE e == OrconnEvent(i, status)
  <2>1. /\ e \in Events /\ e.type = "ORCONN" /\ ~IsCirc(e) /\ e.guard = conn[i].guard
        /\ (e.fresh <=> done >= OrconnStep) /\ e.status = status
        /\ (e.counts <=> status = "CONNECTED" \/ conn[i].status = "connected")
    BY EventTypes DEF OrconnEvent, IsCirc, Fresh
  <2>2. /\ queue' = queue \o Read(e.type, <<e>>)
        /\ drift' = IF ~Subscribed("ORCONN") /\ e.fresh /\ e.counts
                    THEN drift \union {e.guard} ELSE drift
    BY <1>2, <2>1, PostOne DEF PostOrconn
  <2> HIDE DEF e
  <2>3. CASE done < OrconnStep
    BY <1>0, <1>2, <2>3 DEF CountsInv, OrconnStep
  <2>4. CASE ~(done < OrconnStep)
    <3>1. e.fresh
      BY <1>0, <2>1, <2>4 DEF OrconnStep
    <3>2. ASSUME NEW g \in Guards \ drift' PROVE CountOf(g)'
      <4>1. CountOf(g)
        BY <2>2, <2>4 DEF CountsInv
      <4>2. ConnCount(g)' = ConnCount(g)
        BY <1>2 DEF ConnCount
      <4>3. CASE Delta(e, g) = 0
        <5>1. Connected(g)' = Connected(g)
          <6>1. conn[i].guard # g \/ (conn[i].status # "connected" /\ next # "connected")
            <7>1. ~(e.guard = g /\ e.counts)
              BY <2>1, <3>1, <4>3 DEF Delta
            <7>2. e.counts \/ (status = "CLOSED" /\ conn[i].status # "connected")
              BY <1>2, <2>1
            <7>3. e.guard = conn[i].guard /\ (status = "CLOSED" => next # "connected")
              BY <1>2, <2>1
            <7> QED
              BY <7>1, <7>2, <7>3, Zenon
          <6> QED
            BY <1>2, <6>1, ConnSizes
        <5>2. /\ Read(e.type, <<e>>) \in Seq(Events)
              /\ \A k \in 1..Len(Read(e.type, <<e>>)) : Read(e.type, <<e>>)[k] = e
          BY <2>1, ReadOne
        <5>3. Flat(Read(e.type, <<e>>), g, Cardinality(Connected(g)))
          BY <2>1, <4>3, <5>2 DEF Flat
        <5> QED
          BY <2>2, <4>1, <4>2, <5>1, <5>2, <5>3, CountPosted
      <4>4. CASE Delta(e, g) # 0
        <5>1. e.guard = g /\ e.counts
          BY <4>4 DEF Delta
        <5>2. Subscribed(e.type)
          BY <2>1, <2>2, <3>1, <5>1
        <5>3. queue' = queue \o <<e>>
          BY <2>1, <2>2, <5>2, ReadOne
        <5>4. Cardinality(Connected(g)') = Cardinality(Connected(g)) + Delta(e, g)
          <6>1. CASE status = "CONNECTED"
            <7>1. Delta(e, g) = 1
              BY <2>1, <4>4, <6>1 DEF Delta
            <7> QED
              BY <1>2, <2>1, <5>1, <6>1, <7>1, ConnSizes
          <6>2. CASE status = "CLOSED"
            <7>1. Delta(e, g) = -1
              BY <2>1, <4>4, <6>2 DEF Delta
            <7>2. conn[i].status = "connected" /\ next # "connected"
              BY <1>2, <2>1, <5>1, <6>2
            <7> QED
              BY <1>2, <2>1, <5>1, <7>1, <7>2, ConnSizes
          <6> QED
            BY <6>1, <6>2
        <5> QED
          BY <2>1, <4>1, <4>2, <5>3, <5>4, CountPostedOne
      <4> QED
        BY <4>3, <4>4
    <3> QED
      BY <1>2, <2>4, <3>2 DEF CountsInv
  <2> QED
    BY <2>3, <2>4
<1>3. CASE ConnConnected(i)
  BY <1>2, <1>3 DEF ConnConnected, verifierVars
<1>4. CASE ConnEnded(i)
  BY <1>2, <1>4 DEF ConnEnded, verifierVars
<1> QED
  BY <1>1, <1>3, <1>4

\* The changes of Tor's layers.
LEMMA CountsChange ==
    ASSUME TypeOK, CountsInv
    PROVE  /\ \A l \in Layers, S \in LayerValues : SetConf(l, S) => CountsInv'
           /\ Sighup => CountsInv'
           /\ \A R \in SUBSET Relays, r \in Relays, status \in {"GOOD_L2", "BAD_L2"} :
                LiteChanges(R, r, status) => CountsInv'
<1>0. done \in Nat
  BY DEF TypeOK
<1>1. ASSUME NEW e \in Events, Post(e), e.type \in {"GUARD", "CONF_CHANGED"},
             UNCHANGED <<conn, layer1, drift, done>>
      PROVE  CountsInv'
  <2>1. Quiet(Read(e.type, <<e>>)) /\ Read(e.type, <<e>>) \in Seq(Events)
    BY <1>1, ReadOne DEF Quiet
  <2>2. queue' = queue \o Read(e.type, <<e>>)
    BY <1>1, PostOne
  <2>3. done' = done /\ done' \in Int
    BY <1>0, <1>1
  <2> QED
    BY <1>1, <2>1, <2>2, <2>3, CountsQuiet
<1>2. ASSUME NEW l \in Layers, NEW S \in LayerValues, SetConf(l, S) PROVE CountsInv'
  <2>1. ConfEvent(l, S) \in Events /\ ConfEvent(l, S).type = "CONF_CHANGED"
    BY EventTypes DEF ConfEvent
  <2>2. Post(ConfEvent(l, S)) /\ UNCHANGED <<conn, layer1, drift, done>>
    BY <1>2 DEF SetConf, verifierVars
  <2> QED
    BY <1>1, <2>1, <2>2
<1>3. ASSUME Sighup PROVE CountsInv'
  <2>1. PostAll("CONF_CHANGED", Unset(2) \o Unset(3))
        /\ UNCHANGED <<conn, layer1, drift, done>>
    BY <1>3 DEF Sighup, verifierVars
  <2> DEFINE s == Unset(2) \o Unset(3)
  <2>2. s \in Seq(Events) /\ Len(s) <= 2 /\ Quiet(s)
    BY UnsetTypes, UnsetQuiet
  <2> HIDE DEF s
  <2>3. queue' = queue \o Read("CONF_CHANGED", s)
    BY <2>1, <2>2, PostEffect DEF s
  <2> DEFINE t == Read("CONF_CHANGED", s)
  <2>4. t \in Seq(Events) /\ Quiet(t) /\ queue' = queue \o t
    BY <2>2, <2>3, ReadQuiet
  <2> HIDE DEF t
  <2> QED
    BY <1>0, <2>1, <2>4, CountsQuiet
<1>4. ASSUME NEW R \in SUBSET Relays, NEW r \in Relays, NEW status \in {"GOOD_L2", "BAD_L2"},
             LiteChanges(R, r, status)
      PROVE  CountsInv'
  <2>1. GuardEvent({r}, status) \in Events /\ GuardEvent({r}, status).type = "GUARD"
    BY EventTypes DEF GuardEvent
  <2>2. Post(GuardEvent({r}, status)) /\ UNCHANGED <<conn, layer1, drift, done>>
    BY <1>4 DEF LiteChanges, verifierVars
  <2> QED
    BY <1>1, <2>1, <2>2
<1> QED
  BY <1>2, <1>3, <1>4

\* A circuit is judged by the connections that Tor has: the first hop strays
\* when Tor has none to it.
LEMMA JudgedByConns ==
    /\ \A path \in Path, hops \in Hops, purpose \in Purposes :
         LET e == BuiltEvent(path, hops, purpose)
         IN  1 \in e.wrong.strays <=> Cardinality(Connected(e.path[1])) = 0
    /\ \A path \in MinorPaths :
         LET e == MinorEvent(path)
         IN  1 \in e.wrong.strays <=> Cardinality(Connected(e.path[1])) = 0
<1>1. ASSUME NEW g PROVE Cardinality(Connected(g)) = 0 <=> Connected(g) = {}
  BY ConnectedSizes, FS_EmptySet
<1>2. ASSUME NEW path, 1 \in DOMAIN path, path[1] \in Guards
      PROVE  1 \in Strays(path, TorGuards, TorLayers, Num)
               <=> Cardinality(Connected(path[1])) = 0
  BY <1>1, <1>2 DEF Strays, TorGuards
<1>3. ASSUME NEW path \in Path, NEW hops \in Hops, NEW purpose \in Purposes
      PROVE  LET e == BuiltEvent(path, hops, purpose)
             IN  1 \in e.wrong.strays <=> Cardinality(Connected(e.path[1])) = 0
  BY <1>2, PathParts DEF BuiltEvent, Built
<1>4. ASSUME NEW path \in MinorPaths
      PROVE  LET e == MinorEvent(path)
             IN  1 \in e.wrong.strays <=> Cardinality(Connected(e.path[1])) = 0
  BY <1>2, PathParts DEF MinorEvent, Extended
<1> QED
  BY <1>3, <1>4

LEMMA CountsCirc ==
    ASSUME TypeOK, CountsInv
    PROVE  /\ \A path \in Path, hops \in Hops, purpose \in Purposes :
                CircBuilt(path, hops, purpose) => CountsInv'
           /\ \A path \in MinorPaths : CircMinor(path) => CountsInv'
<1>0. done \in Nat
  BY DEF TypeOK
<1>1. ASSUME NEW e \in Events, IsCirc(e), Post(e), UNCHANGED <<conn, layer1, drift, done>>,
             1 \in e.wrong.strays <=> Cardinality(Connected(e.path[1])) = 0
      PROVE  CountsInv'
  <2> DEFINE s == Read(e.type, <<e>>)
  <2>1. s \in Seq(Events) /\ queue' = queue \o s /\ \A k \in 1..Len(s) : s[k] = e
    BY <1>1, PostOne, ReadOne
  <2> HIDE DEF s
  <2>2. \A g : Flat(s, g, Cardinality(Connected(g)))
    BY <1>1, <2>1 DEF Flat, Delta, IsCirc
  <2>3. ASSUME NEW g \in Guards, CountOf(g) PROVE CountOf(g)'
    <3>1. ConnCount(g)' = ConnCount(g) /\ Connected(g)' = Connected(g)
      BY <1>1 DEF ConnCount, Connected
    <3> QED
      BY <2>1, <2>2, <2>3, <3>1, CountPosted
  <2> QED
    BY <1>1, <2>3 DEF CountsInv
<1>2. ASSUME NEW path \in Path, NEW hops \in Hops, NEW purpose \in Purposes,
             CircBuilt(path, hops, purpose)
      PROVE  CountsInv'
  <2> DEFINE e == BuiltEvent(path, hops, purpose)
  <2>1. e \in Events /\ IsCirc(e)
    BY CircEventTypes DEF BuiltEvent, IsCirc
  <2>2. Post(e) /\ UNCHANGED <<conn, layer1, drift, done>>
    BY <1>2 DEF CircBuilt, BuiltEvent, verifierVars
  <2>3. 1 \in e.wrong.strays <=> Cardinality(Connected(e.path[1])) = 0
    BY JudgedByConns
  <2> HIDE DEF e
  <2> QED
    BY <1>1, <2>1, <2>2, <2>3
<1>3. ASSUME NEW path \in MinorPaths, CircMinor(path) PROVE CountsInv'
  <2> DEFINE e == MinorEvent(path)
  <2>1. e \in Events /\ IsCirc(e)
    BY CircEventTypes DEF MinorEvent, IsCirc
  <2>2. Post(e) /\ UNCHANGED <<conn, layer1, drift, done>>
    BY <1>3 DEF CircMinor, MinorEvent, verifierVars
  <2>3. 1 \in e.wrong.strays <=> Cardinality(Connected(e.path[1])) = 0
    BY JudgedByConns
  <2> HIDE DEF e
  <2> QED
    BY <1>1, <2>1, <2>2, <2>3
<1> QED
  BY <1>2, <1>3

\* The handlers.
LEMMA CountsHanded ==
    ASSUME TypeOK, CountsInv, PostedInv
    PROVE  /\ OrconnHandler => CountsInv'
           /\ GuardHandler => CountsInv'
           /\ ConfChangedHandler => CountsInv'
           /\ CircHandler => CountsInv'
           /\ CircMinorHandler => CountsInv'
           /\ Unheard => CountsInv'
<1>0. done \in 0..Len(Steps) /\ done \in Nat /\ queue \in Seq(Events)
  BY DEF TypeOK
<1>1. ASSUME NEW type, Handle(type)
      PROVE  /\ queue # <<>> /\ queue' = Tail(queue) /\ Head(queue) = queue[1]
             /\ queue[1] \in Events /\ queue[1].type = type
             /\ UNCHANGED <<conn, done>> /\ EventOK(queue[1], done) /\ Listening(type)
  <2>1. /\ queue # <<>> /\ queue' = Tail(queue) /\ Head(queue).type = type
        /\ UNCHANGED <<conn, done>> /\ Listening(type)
    BY <1>1 DEF Handle, torVars
  <2>2. Head(queue) = queue[1] /\ queue[1] \in Events /\ 1 \in 1..Len(queue)
    BY <2>1, HandEffect
  <2> QED
    BY <2>1, <2>2 DEF PostedInv
\* An event that is not of a connection.
<1>2. ASSUME queue # <<>>, queue' = Tail(queue), UNCHANGED <<conn, done>>,
             \A g \in Guards : ConnCount(g)' = ConnCount(g),
             DOMAIN layer1 = {} => DOMAIN layer1' = {},
             \A g \in Guards \ drift' : g \notin drift /\ Delta(queue[1], g) = 0
      PROVE  CountsInv'
  <2>1. CASE done < OrconnStep
    BY <1>2, <2>1 DEF CountsInv
  <2>2. CASE ~(done < OrconnStep)
    <3>1. ASSUME NEW g \in Guards \ drift' PROVE CountOf(g)'
      <4>1. CountOf(g) /\ Delta(queue[1], g) = 0
        BY <1>2, <2>2 DEF CountsInv
      <4>2. ConnCount(g)' = ConnCount(g) + Delta(queue[1], g)
        BY <1>2, <4>1, CountTypes
      <4>3. Connected(g)' = Connected(g)
        BY <1>2 DEF Connected
      <4> QED
        BY <1>2, <4>1, <4>2, <4>3, CountHanded
    <3> QED
      BY <1>2, <2>2, <3>1 DEF CountsInv
  <2> QED
    BY <2>1, <2>2
<1>3. ASSUME OrconnHandler PROVE CountsInv'
  <2>1. Handle("ORCONN")
    BY <1>3 DEF OrconnHandler
  <2>0. PICK e \in Events : e = queue[1]
    BY <1>1, <2>1
  <2>2. /\ e = queue[1] /\ e.type = "ORCONN" /\ queue # <<>> /\ queue' = Tail(queue)
        /\ UNCHANGED <<conn, done>> /\ EventOK(e, done) /\ Head(queue) = e
        /\ ~(done < OrconnStep)
    BY <1>0, <1>1, <2>0, <2>1, ListeningAt DEF OrconnStep
  <2>3. e.guard \in Guards /\ e.status \in {"CONNECTED", "CLOSED"}
    BY <2>2, EventParts
  <2>4. /\ layer1' = WithConns(OneAt(e.guard, IF e.status = "CONNECTED" THEN 1 ELSE -1))
        /\ drift' = IF (IF e.counts THEN ~e.fresh ELSE ConnCount(e.guard) > 0)
                    THEN drift \union {e.guard} ELSE drift
    BY <1>3, <2>2, <2>3 DEF OrconnHandler, AddConn, DelConn
  <2> DEFINE n == IF e.status = "CONNECTED" THEN 1 ELSE -1
  <2>5. n \in {-1, 1}
    OBVIOUS
  <2>6. /\ \A h \in Guards \ {e.guard} : ConnCount(h)' = ConnCount(h)
        /\ ConnCount(e.guard)' = IF ConnCount(e.guard) + n > 0
                                 THEN ConnCount(e.guard) + n ELSE 0
    <3>1. layer1' = WithConns(OneAt(e.guard, n))
      BY <2>4
    <3> HIDE DEF n
    <3> QED
      BY <2>3, <2>5, <3>1, ConnEffect
  <2> HIDE DEF n
  <2>7. ASSUME NEW g \in Guards \ drift' PROVE CountOf(g)'
    <3>1. CountOf(g) /\ g \notin drift
      BY <2>2, <2>4, <2>7 DEF CountsInv
    <3>2. Connected(g)' = Connected(g)
      BY <2>2 DEF Connected
    <3>3. ConnCount(g) \in Nat
      BY CountTypes
    <3>4. ConnCount(g)' = ConnCount(g) + Delta(e, g)
      <4>1. CASE g # e.guard
        <5>1. Delta(e, g) = 0
          BY <4>1 DEF Delta
        <5> QED
          BY <2>6, <3>3, <4>1, <5>1
      <4>2. CASE g = e.guard /\ e.counts
        <5>1. e.fresh
          BY <2>4, <2>7, <4>2
        <5>2. Delta(e, g) = n
          BY <2>2, <4>2, <5>1 DEF Delta, n
        <5>3. ConnCount(g) + Delta(e, g) \in 0..Cardinality(ConnIds)
          BY <1>0, <2>2, <3>1, TraceTail DEF CountOf
        <5> QED
          BY <2>6, <3>3, <4>2, <5>2, <5>3
      <4>3. CASE g = e.guard /\ ~e.counts
        <5>1. Delta(e, g) = 0
          BY <4>3 DEF Delta
        <5>2. ConnCount(g) = 0
          BY <2>4, <2>7, <3>3, <4>3
        <5>3. n = -1
          BY <2>2, <4>3 DEF EventOK, n
        <5> QED
          BY <2>6, <4>3, <5>1, <5>2, <5>3
      <4> QED
        BY <4>1, <4>2, <4>3
    <3> QED
      BY <2>2, <3>1, <3>2, <3>4, CountHanded
  <2> QED
    BY <2>2, <2>7 DEF CountsInv
<1>4. ASSUME NEW type, type # "ORCONN", Handle(type), layer1' = layer1,
             \A g \in Guards : g \in drift => g \in drift'
      PROVE  CountsInv'
  <2>1. \A g : Delta(queue[1], g) = 0
    BY <1>1, <1>4 DEF Delta
  <2>2. \A g \in Guards : ConnCount(g)' = ConnCount(g)
    BY <1>4 DEF ConnCount
  <2> QED
    BY <1>1, <1>2, <1>4, <2>1, <2>2
<1>5. ASSUME GuardHandler PROVE CountsInv'
  BY <1>4, <1>5 DEF GuardHandler
<1>6. ASSUME ConfChangedHandler PROVE CountsInv'
  <2>1. Handle("CONF_CHANGED") /\ layer1' = layer1
    BY <1>6 DEF ConfChangedHandler
  <2>2. queue[1].layer \in Layers
    BY <1>1, <2>1, EventParts
  <2>3. \A g \in Guards : g \in drift => g \in drift'
    BY <1>1, <1>6, <2>1, <2>2, PathSetsAssumption DEF ConfChangedHandler
  <2> QED
    BY <1>4, <2>1, <2>3
<1>7. ASSUME CircHandler PROVE CountsInv'
  <2>1. Handle("CIRC") /\ AddUse(Head(queue).path[1]) /\ drift' = drift
    BY <1>7 DEF CircHandler
  <2>2. DOMAIN layer1' = DOMAIN layer1 /\ \A h \in Guards : ConnCount(h)' = ConnCount(h)
    BY <2>1, UseEffect
  <2>3. \A g : Delta(queue[1], g) = 0
    BY <1>1, <2>1 DEF Delta
  <2> QED
    BY <1>1, <1>2, <2>1, <2>2, <2>3
<1>8. ASSUME CircMinorHandler PROVE CountsInv'
  BY <1>4, <1>8 DEF CircMinorHandler
<1>9. ASSUME Unheard PROVE CountsInv'
  <2>1. /\ queue # <<>> /\ queue' = Tail(queue)
        /\ UNCHANGED <<conn, done, layer1>>
    BY <1>9 DEF Unheard, torVars, verifierVars
  <2>2. Head(queue) = queue[1]
    BY <2>1, HandEffect
  <2>3. \A g \in Guards : ConnCount(g)' = ConnCount(g)
    BY <2>1 DEF ConnCount
  <2>4. ASSUME NEW g \in Guards \ drift' PROVE g \notin drift /\ Delta(queue[1], g) = 0
    BY <1>9, <2>2 DEF Unheard, Delta
  <2> QED
    BY <1>2, <2>1, <2>3, <2>4
<1> QED
  BY <1>3, <1>5, <1>6, <1>7, <1>8, <1>9

LEMMA PostedStep == TypeOK /\ PostedInv /\ [Next]_vars => PostedInv'
<1> SUFFICES ASSUME TypeOK, PostedInv, [Next]_vars PROVE PostedInv'
  OBVIOUS
<1>0. done \in Int /\ done' \in Int /\ queue \in Seq(Events)
  BY TypeStep DEF TypeOK
<1>1. ASSUME queue' = queue, done' >= done PROVE PostedInv'
  BY <1>0, <1>1 DEF PostedInv, EventOK, OrconnStep
<1>2. ASSUME NEW s \in Seq(Events), queue' = queue \o s, done' >= done, Quiet(s)
      PROVE  PostedInv'
  <2>1. \A k \in 1..Len(s) : EventOK(s[k], done')
    BY <1>2 DEF Quiet, EventOK, IsCirc
  <2> QED
    BY <1>0, <1>2, <2>1, PostedGrows
<1>3. ASSUME NEW e \in Events, Post(e), done' = done,
             e.type \in {"GUARD", "CONF_CHANGED"} \/ EventOK(e, done)
      PROVE  PostedInv'
  <2> DEFINE s == Read(e.type, <<e>>)
  <2>1. s \in Seq(Events) /\ queue' = queue \o s /\ \A k \in 1..Len(s) : s[k] = e
    BY <1>3, PostOne, ReadOne
  <2>2. EventOK(e, done')
    BY <1>3 DEF EventOK, IsCirc
  <2> HIDE DEF s
  <2>3. \A k \in 1..Len(s) : EventOK(s[k], done')
    BY <2>1, <2>2
  <2>4. done' >= done
    BY <1>0, <1>3
  <2> QED
    BY <1>0, <2>1, <2>3, <2>4, PostedGrows
<1>4. ASSUME queue # <<>>, queue' = Tail(queue), done' = done PROVE PostedInv'
  <2>1. /\ Len(queue) \in Nat \ {0} /\ Len(queue') = Len(queue) - 1
        /\ \A k \in 1..Len(queue') : queue'[k] = queue[k + 1]
    BY <1>4, HandEffect
  <2>2. ASSUME NEW k \in 1..Len(queue') PROVE EventOK(queue'[k], done')
    <3>1. k + 1 \in 1..Len(queue)
      BY <2>1
    <3> QED
      BY <1>4, <2>1, <3>1 DEF PostedInv
  <2> QED
    BY <2>2 DEF PostedInv
<1>5. ASSUME NEW l \in Layers, AskLayer(l) PROVE PostedInv'
  BY <1>0, <1>1, <1>5 DEF AskLayer
<1>6. ASSUME AskOrconns PROVE PostedInv'
  BY <1>0, <1>1, <1>6 DEF AskOrconns
<1>7. ASSUME AddListener PROVE PostedInv'
  BY <1>0, <1>1, <1>7 DEF AddListener
<1>8. ASSUME NEW R \in LayerValues, NEW told \in BOOLEAN, Newnym(R, told) PROVE PostedInv'
  <2>1. Renewed(R, told) \in Seq(Events) /\ Len(Renewed(R, told)) <= 2
        /\ Quiet(Renewed(R, told))
    BY RenewedTypes, RenewedQuiet
  <2>2. queue' = queue \o Read("GUARD", Renewed(R, told))
    BY <1>8, <2>1, PostEffect DEF Newnym
  <2>3. done' >= done
    BY <1>0, <1>8 DEF Newnym
  <2> DEFINE t == Read("GUARD", Renewed(R, told))
  <2>4. t \in Seq(Events) /\ Quiet(t) /\ queue' = queue \o t
    BY <2>1, <2>2, ReadQuiet
  <2> HIDE DEF t
  <2> QED
    BY <1>2, <2>3, <2>4
<1>9. ASSUME NEW i \in ConnIds, ConnLaunched(i) \/ ConnConnected(i) \/ ConnEnded(i)
      PROVE  PostedInv'
  <2>1. ASSUME NEW status \in {"CONNECTED", "CLOSED"}, PostOrconn(i, status), done' = done
        PROVE  PostedInv'
    <3>1. OrconnEvent(i, status) \in Events /\ EventOK(OrconnEvent(i, status), done)
      BY EventTypes DEF OrconnEvent, EventOK, Fresh, IsCirc
    <3>2. Post(OrconnEvent(i, status))
      BY <2>1 DEF PostOrconn
    <3> QED
      BY <1>3, <2>1, <3>1, <3>2
  <2>2. CASE ConnLaunched(i)
    BY <1>0, <1>1, <2>2 DEF ConnLaunched
  <2>3. CASE ConnConnected(i)
    BY <2>1, <2>3 DEF ConnConnected
  <2>4. CASE ConnEnded(i)
    BY <2>1, <2>4 DEF ConnEnded
  <2> QED
    BY <1>9, <2>2, <2>3, <2>4
<1>10. ASSUME NEW l \in Layers, NEW S \in LayerValues, SetConf(l, S) PROVE PostedInv'
  <2>1. ConfEvent(l, S) \in Events /\ ConfEvent(l, S).type = "CONF_CHANGED"
    BY EventTypes DEF ConfEvent
  <2> QED
    BY <1>3, <1>10, <2>1 DEF SetConf
<1>11. ASSUME Sighup PROVE PostedInv'
  <2> DEFINE s == Unset(2) \o Unset(3)
  <2>1. s \in Seq(Events) /\ Len(s) <= 2 /\ Quiet(s)
    BY UnsetTypes, UnsetQuiet
  <2>2. PostAll("CONF_CHANGED", s) /\ done' = done
    BY <1>11 DEF Sighup
  <2> HIDE DEF s
  <2>3. queue' = queue \o Read("CONF_CHANGED", s)
    BY <2>1, <2>2, PostEffect
  <2> DEFINE t == Read("CONF_CHANGED", s)
  <2>4. t \in Seq(Events) /\ Quiet(t) /\ queue' = queue \o t
    BY <2>1, <2>3, ReadQuiet
  <2> HIDE DEF t
  <2> QED
    BY <1>0, <1>2, <2>2, <2>4
<1>12. ASSUME NEW R, NEW r \in Relays, NEW status \in {"GOOD_L2", "BAD_L2"},
              LiteChanges(R, r, status)
       PROVE  PostedInv'
  <2>1. GuardEvent({r}, status) \in Events /\ GuardEvent({r}, status).type = "GUARD"
    BY EventTypes DEF GuardEvent
  <2> QED
    BY <1>3, <1>12, <2>1 DEF LiteChanges
<1>13. ASSUME NEW path \in Path, NEW hops \in Hops, NEW purpose \in Purposes,
              CircBuilt(path, hops, purpose)
       PROVE  PostedInv'
  <2> DEFINE e == BuiltEvent(path, hops, purpose)
  <2>1. EventOK(e, done)
    BY DEF BuiltEvent, EventOK, Fresh, IsCirc, Built, Strays
  <2>2. e \in Events /\ Post(e) /\ done' = done
    BY <1>13, CircEventTypes DEF CircBuilt, BuiltEvent
  <2> HIDE DEF e
  <2> QED
    BY <1>3, <2>1, <2>2
<1>14. ASSUME NEW path \in MinorPaths, CircMinor(path) PROVE PostedInv'
  <2> DEFINE e == MinorEvent(path)
  <2>1. EventOK(e, done)
    BY DEF MinorEvent, EventOK, Fresh, IsCirc, Extended, Strays
  <2>2. e \in Events /\ Post(e) /\ done' = done
    BY <1>14, CircEventTypes DEF CircMinor, MinorEvent
  <2> HIDE DEF e
  <2> QED
    BY <1>3, <2>1, <2>2
<1>15. ASSUME \/ OrconnHandler \/ GuardHandler \/ ConfChangedHandler
              \/ CircHandler \/ CircMinorHandler \/ Unheard
       PROVE  PostedInv'
  <2>1. queue # <<>> /\ queue' = Tail(queue) /\ done' = done
    BY <1>15 DEF OrconnHandler, GuardHandler, ConfChangedHandler, CircHandler,
                 CircMinorHandler, Unheard, Handle
  <2> QED
    BY <1>4, <2>1
<1>16. CASE UNCHANGED vars
  BY <1>0, <1>1, <1>16 DEF vars
<1>17. ASSUME NEW path \in Path, NEW n \in 1..3 PROVE SubSeq(path, 1, n) \in MinorPaths
  BY DEF MinorPaths
<1> QED
  BY <1>5, <1>6, <1>7, <1>8, <1>9, <1>10, <1>11, <1>12, <1>13, <1>14, <1>15, <1>16,
     <1>17 DEF Next

LEMMA CountsStep == TypeOK /\ PostedInv /\ CountsInv /\ [Next]_vars => CountsInv'
<1> SUFFICES ASSUME TypeOK, PostedInv, CountsInv, [Next]_vars PROVE CountsInv'
  OBVIOUS
<1>1. ASSUME NEW path \in Path, NEW n \in 1..3 PROVE SubSeq(path, 1, n) \in MinorPaths
  BY DEF MinorPaths
<1>2. CASE UNCHANGED vars
  <2>1. UNCHANGED <<conn, layer1, queue, done, drift>>
    BY <1>2 DEF vars, torVars, verifierVars
  <2>2. \A g : CountOf(g)' = CountOf(g)
    BY <2>1 DEF CountOf, ConnCount, Connected
  <2> QED
    BY <2>1, <2>2 DEF CountsInv
<1>3. ASSUME NEW path \in MinorPaths, CircMinor(path) PROVE CountsInv'
  BY <1>3, CountsCirc
<1>4. ASSUME NEW path \in Path, NEW hops \in Hops, NEW purpose \in Purposes,
             CircBuilt(path, hops, purpose)
      PROVE  CountsInv'
  BY <1>4, CountsCirc
<1>5. ASSUME NEW r \in Relays,
             \/ LiteChanges(lite \union {r}, r, "GOOD_L2")
             \/ LiteChanges(lite \ {r}, r, "BAD_L2")
      PROVE  CountsInv'
  <2>1. lite \union {r} \in SUBSET Relays /\ lite \ {r} \in SUBSET Relays
    BY DEF TypeOK
  <2> QED
    BY <1>5, <2>1, CountsChange
<1>6. ASSUME NEW l \in Layers, NEW S \in LayerValues, SetConf(l, S) PROVE CountsInv'
  BY <1>6, CountsChange
<1>7. ASSUME Sighup PROVE CountsInv'
  BY <1>7, CountsChange
<1>8. ASSUME NEW R \in LayerValues, NEW told \in BOOLEAN, Newnym(R, told)
      PROVE  CountsInv'
  BY <1>8, CountsMain
<1>9. ASSUME NEW l \in Layers, AskLayer(l) PROVE CountsInv'
  BY <1>9, CountsMain
<1>10. ASSUME AskOrconns \/ AddListener PROVE CountsInv'
  BY <1>10, CountsMain
<1>11. ASSUME \/ OrconnHandler \/ GuardHandler \/ ConfChangedHandler
              \/ CircHandler \/ CircMinorHandler \/ Unheard
       PROVE  CountsInv'
  BY <1>11, CountsHanded
<1>12. ASSUME NEW i \in ConnIds, ConnLaunched(i) \/ ConnConnected(i) \/ ConnEnded(i)
       PROVE  CountsInv'
  BY <1>12, CountsConn
<1> QED
  BY <1>1, <1>2, <1>3, <1>4, <1>5, <1>6, <1>7, <1>8, <1>9, <1>10, <1>11, <1>12 DEF Next

THEOREM PathTypes == Spec => []TypeOK
<1> QED
  BY TypeInit, TypeStep, PTL DEF Spec

LEMMA CountsInit == Init => PostedInv /\ CountsInv
<1> SUFFICES ASSUME Init PROVE PostedInv /\ CountsInv
  OBVIOUS
<1>1. Len(queue) = 0 /\ done = 0 /\ DOMAIN layer1 = {}
  BY DEF Init
<1> QED
  BY <1>1 DEF PostedInv, CountsInv, OrconnStep

\* With no event of a connection waiting the counts are those of Tor.
LEMMA CountsGive == TypeOK /\ CountsInv => ConnCountsExact
<1> SUFFICES ASSUME TypeOK, CountsInv, Listening("ORCONN"), Queued("ORCONN") = {},
                    NEW g \in Guards \ drift
             PROVE  ConnCount(g) = Cardinality(Connected(g))
  BY DEF ConnCountsExact
<1> DEFINE c == Cardinality(Connected(g))
           f == ConnCount(g)
<1>1. Traces(queue, g, f, c)
  BY ListeningAt DEF CountsInv, CountOf, TypeOK, OrconnStep
<1>2. \A k \in 1..Len(queue) : Delta(queue[k], g) = 0
  BY DEF Queued, Delta, TypeOK
<1>3. Len(queue) \in Nat
  BY LenProperties DEF TypeOK
<1> HIDE DEF c, f
<1>4. PICK P \in [0..Len(queue) -> 0..Cardinality(ConnIds)] : Traced(queue, g, P, f, c)
  BY <1>1 DEF Traces
<1>5. 0 \in 0..Len(queue) /\ Len(queue) \in 0..Len(queue) /\ 0 <= Len(queue)
      /\ \A k \in 0 + 1..Len(queue) : Delta(queue[k], g) = 0
  BY <1>2, <1>3
<1>6. P[0] = P[Len(queue)]
  BY <1>4, <1>5 DEF Traced
<1> QED
  BY <1>4, <1>6 DEF Traced, c, f

-----------------------------------------------------------------------------
(* The last event about a layer, in a queue that grows or shrinks.         *)

LEMMA BeforeGrown ==
    ASSUME NEW q \in Seq(Events), NEW s \in Seq(Events), NEW l, NEW j \in 1..Len(q) + 1,
           NEW k \in 1..Len(q \o s), LastBefore(q \o s, k, j, l)
    PROVE  k \in 1..Len(q) /\ LastBefore(q, k, j, l)
<1> DEFINE qs == q \o s
           n == Len(q)
<1>1. /\ n \in Nat /\ Len(s) \in Nat /\ Len(qs) = n + Len(s)
      /\ \A i \in 1..n : qs[i] = q[i]
  BY Grown
<1>2. k < j /\ IsConf(qs[k], l) /\ \A m \in k + 1..j - 1 : ~IsConf(qs[m], l)
  BY DEF LastBefore
<1> HIDE DEF qs, n
<1>3. k \in 1..n /\ \A m \in k + 1..j - 1 : m \in 1..n
  BY <1>1, <1>2 DEF n, qs
<1> QED
  BY <1>1, <1>2, <1>3 DEF LastBefore, n

\* No event about the layer is among the new ones.
LEMMA BeforeSame ==
    ASSUME NEW q \in Seq(Events), NEW s \in Seq(Events), NEW l,
           \A i \in 1..Len(s) : ~IsConf(s[i], l),
           NEW j \in Len(q) + 1..Len(q \o s) + 1, NEW k \in 1..Len(q \o s),
           LastBefore(q \o s, k, j, l)
    PROVE  k \in 1..Len(q) /\ (q \o s)[k] = q[k] /\ LastBefore(q, k, Len(q) + 1, l)
<1> DEFINE qs == q \o s
           n == Len(q)
<1>1. /\ n \in Nat /\ Len(s) \in Nat /\ Len(qs) = n + Len(s)
      /\ \A i \in 1..n : qs[i] = q[i]
      /\ \A i \in 1..Len(s) : qs[n + i] = s[i]
  BY Grown
<1>2. k < j /\ IsConf(qs[k], l) /\ \A m \in k + 1..j - 1 : ~IsConf(qs[m], l)
  BY DEF LastBefore
<1> HIDE DEF qs, n
<1>3. k \in 1..n
  <2>1. SUFFICES ASSUME ~(k <= n) PROVE FALSE
    BY <1>1 DEF qs
  <2>2. k - n \in 1..Len(s) /\ n + (k - n) = k
    BY <1>1, <2>1 DEF qs
  <2> QED
    BY <1>1, <1>2, <2>2
<1>4. \A m \in k + 1..(n + 1) - 1 : m \in 1..n /\ m \in k + 1..j - 1
  BY <1>1, <1>3 DEF n, qs
<1> QED
  BY <1>1, <1>2, <1>3, <1>4 DEF LastBefore, n, qs

\* There is one among the new ones.
LEMMA BeforeOther ==
    ASSUME NEW q \in Seq(Events), NEW s \in Seq(Events), NEW l,
           NEW i \in 1..Len(s), IsConf(s[i], l)
    PROVE  \A k \in 1..Len(q \o s) : LastBefore(q \o s, k, Len(q \o s) + 1, l)
             => \E h \in 1..Len(s) : IsConf(s[h], l) /\ (q \o s)[k] = s[h]
<1> DEFINE qs == q \o s
           n == Len(q)
<1>1. /\ n \in Nat /\ Len(s) \in Nat /\ Len(qs) = n + Len(s)
      /\ \A h \in 1..Len(s) : qs[n + h] = s[h]
  BY Grown
<1> HIDE DEF qs, n
<1>2. n + i \in 1..Len(qs) /\ qs[n + i] = s[i]
  BY <1>1
<1>3. ASSUME NEW k \in 1..Len(qs), LastBefore(qs, k, Len(qs) + 1, l)
      PROVE  \E h \in 1..Len(s) : IsConf(s[h], l) /\ qs[k] = s[h]
  <2>1. IsConf(qs[k], l) /\ \A m \in k + 1..(Len(qs) + 1) - 1 : ~IsConf(qs[m], l)
    BY <1>3 DEF LastBefore
  <2>2. n + i <= k
    <3>1. SUFFICES ASSUME k < n + i PROVE FALSE
      BY <1>1
    <3>2. n + i \in k + 1..(Len(qs) + 1) - 1
      BY <1>1, <1>2, <3>1
    <3> QED
      BY <1>2, <2>1, <3>2
  <2>3. k - n \in 1..Len(s) /\ n + (k - n) = k
    BY <1>1, <2>2
  <2> QED
    BY <1>1, <2>1, <2>3
<1> QED
  BY <1>3 DEF qs

LEMMA BeforeTail ==
    ASSUME NEW q \in Seq(Events), q # <<>>, NEW l, NEW j \in 1..Len(Tail(q)) + 1
    PROVE  /\ \A k \in 1..Len(Tail(q)) : LastBefore(Tail(q), k, j, l)
                => k + 1 \in 1..Len(q) /\ LastBefore(q, k + 1, j + 1, l)
           /\ \A g \in BOOLEAN : NoneBefore(Tail(q), j, l, g) /\ ~Matters(q[1], l, g)
                => NoneBefore(q, j + 1, l, g)
           /\ IsConf(q[1], l) /\ NoneBefore(Tail(q), j, l, TRUE)
                => LastBefore(q, 1, j + 1, l)
<1> DEFINE t == Tail(q)
           n == Len(t)
<1>1. n \in Nat /\ Len(q) = n + 1 /\ \A k \in 1..n : t[k] = q[k + 1]
  BY Shrunk
<1> HIDE DEF t, n
<1>2. j \in 1..n + 1 /\ j \in Nat
  BY <1>1 DEF t, n
<1>3. ASSUME NEW k \in 1..n, LastBefore(t, k, j, l)
      PROVE  k + 1 \in 1..Len(q) /\ LastBefore(q, k + 1, j + 1, l)
  <2>1. k < j /\ IsConf(t[k], l) /\ \A m \in k + 1..j - 1 : ~IsConf(t[m], l)
    BY <1>3 DEF LastBefore
  <2>2. ASSUME NEW m \in (k + 1) + 1..(j + 1) - 1 PROVE ~IsConf(q[m], l)
    <3>1. m - 1 \in 1..n /\ m - 1 \in k + 1..j - 1 /\ (m - 1) + 1 = m
      BY <1>1, <1>2
    <3>2. t[m - 1] = q[(m - 1) + 1] /\ ~IsConf(t[m - 1], l)
      BY <1>1, <2>1, <3>1
    <3> QED
      BY <3>1, <3>2
  <2>3. k + 1 \in 1..Len(q) /\ k + 1 < j + 1 /\ IsConf(q[k + 1], l)
    BY <1>1, <1>2, <2>1
  <2> QED
    BY <2>2, <2>3 DEF LastBefore
<1>4. ASSUME NEW g \in BOOLEAN, NoneBefore(t, j, l, g), NEW m \in 2..(j + 1) - 1
      PROVE  ~Matters(q[m], l, g)
  <2>1. m - 1 \in 1..n /\ m - 1 \in 1..j - 1 /\ (m - 1) + 1 = m
    BY <1>1, <1>2, <1>4
  <2>2. t[m - 1] = q[(m - 1) + 1] /\ ~Matters(t[m - 1], l, g)
    BY <1>1, <1>4, <2>1 DEF NoneBefore
  <2> QED
    BY <2>1, <2>2
<1>5. ASSUME NEW g \in BOOLEAN, NoneBefore(t, j, l, g), ~Matters(q[1], l, g)
      PROVE  NoneBefore(q, j + 1, l, g)
  <2>1. \A m \in 1..(j + 1) - 1 : m = 1 \/ m \in 2..(j + 1) - 1
    BY <1>2
  <2> QED
    BY <1>4, <1>5, <2>1 DEF NoneBefore
<1>6. ASSUME IsConf(q[1], l), NoneBefore(t, j, l, TRUE)
      PROVE  LastBefore(q, 1, j + 1, l)
  <2>1. ASSUME NEW m \in 1 + 1..(j + 1) - 1 PROVE ~IsConf(q[m], l)
    <3>1. m \in 2..(j + 1) - 1
      BY <2>1
    <3>2. ~Matters(q[m], l, TRUE)
      BY <1>4, <1>6, <3>1
    <3> QED
      BY <3>2 DEF Matters
  <2>2. 1 < j + 1
    BY <1>2
  <2> QED
    BY <1>6, <2>1, <2>2 DEF LastBefore
<1> QED
  BY <1>3, <1>5, <1>6 DEF t, n

-----------------------------------------------------------------------------
(* The layers.                                                             *)

\* Events that are posted, n steps done, while Tor's options become new.
Announced(s, new, n) ==
    /\ \A i \in 1..Len(s) : s[i].type = "CONF_CHANGED" =>
         s[i].value = new[s[i].layer] /\ (s[i].fresh <=> n >= ConfStep(s[i].layer))
    /\ \A l \in Layers : new[l] = opt[l] \/ \E i \in 1..Len(s) : IsConf(s[i], l)
    /\ \A i \in 1..Len(s) : s[i].type = "GUARD" => Listening("GUARD") /\ opt[2] = {}
    /\ \A i \in 1..Len(s), l \in Layers : IsCirc(s[i]) /\ s[i].fresh =>
         n >= OrconnStep /\ Judged(s[i], l, TorLayer(l))
    /\ (\E i \in 1..Len(s) : s[i].type = "CONF_CHANGED")
         => \A i \in 1..Len(s) : s[i].type = "CONF_CHANGED"

\* What the verifier knows when no event about a layer is waiting.
LEMMA KnownNow ==
    ASSUME TypeOK, LayersInv, NEW l \in Layers, done >= OrconnStep
    PROVE  /\ \A k \in 1..Len(queue) :
                LastBefore(queue, k, End, l) /\ (l = 3 \/ queue[k].value # {})
                  => queue[k].value = TorLayer(l)
           /\ NoneBefore(queue, End, l, Heard) /\ l \notin drift => layer[l] = TorLayer(l)
<1>1. l \in {2, 3} /\ done >= ConfStep(l) /\ done >= ConfStep(2)
  BY DEF Layers, ConfStep, OrconnStep, TypeOK
<1>2. ASSUME NEW k \in 1..Len(queue), LastBefore(queue, k, End, l),
             l = 3 \/ queue[k].value # {}
      PROVE  queue[k].value = TorLayer(l)
  BY <1>1, <1>2 DEF LayersInv, LastInv, TorLayer
<1>3. ASSUME NoneBefore(queue, End, l, Heard), l \notin drift
      PROVE  layer[l] = TorLayer(l)
  BY <1>1, <1>3 DEF LayersInv, KnownInv, FullInv, TorLayer
<1> QED
  BY <1>2, <1>3

LEMMA LayersPosted ==
    ASSUME TypeOK, LayersInv, NEW s \in Seq(Events), queue' = queue \o s,
           Announced(s, opt', done), UNCHANGED <<others, layer, full_vanguards>>,
           drift \subseteq drift', done' \in 0..Len(Steps),
           done' = done \/ (done >= ConfStep(3) /\ done' >= done)
    PROVE  LayersInv'
<1> DEFINE n == Len(queue)
           q1 == queue \o s
           heard == Heard'
<1>0. done \in 0..Len(Steps) /\ done \in Nat /\ queue \in Seq(Events)
  BY DEF TypeOK
<1>1. /\ n \in Nat /\ Len(s) \in Nat /\ Len(q1) = n + Len(s)
      /\ \A k \in 1..n : q1[k] = queue[k]
      /\ \A k \in 1..Len(s) : q1[n + k] = s[k]
  BY <1>0, Grown
<1>2. queue' = q1 /\ End' = Len(q1) + 1 /\ End = n + 1
  BY DEF End
<1>3. Heard \in BOOLEAN /\ heard \in BOOLEAN /\ (Heard => heard)
  BY <1>0, ListeningAt DEF Heard, Listening
<1>4. Listening("GUARD") => Listening("GUARD")'
  BY <1>0 DEF Listening
<1> HIDE DEF n, q1, heard
<1>5. \A k \in 1..Len(q1) : (k \in 1..n /\ q1[k] = queue[k])
        \/ (\E i \in 1..Len(s) : k = n + i /\ q1[k] = s[i])
  <2>1. ASSUME NEW k \in 1..Len(q1), ~(k <= n)
        PROVE  \E i \in 1..Len(s) : k = n + i /\ q1[k] = s[i]
    <3>1. k - n \in 1..Len(s) /\ n + (k - n) = k
      BY <1>1, <2>1
    <3> QED
      BY <1>1, <3>1
  <2>2. ASSUME NEW k \in 1..Len(q1), k <= n PROVE k \in 1..n
    BY <1>1, <2>2
  <2> QED
    BY <1>1, <2>1, <2>2
\* Of a layer that no new event is about.
<1>6. ASSUME NEW l \in Layers, \A i \in 1..Len(s) : ~IsConf(s[i], l),
             NEW j \in n + 1..Len(q1) + 1
      PROVE  /\ opt'[l] = opt[l]
             /\ \A k \in 1..Len(q1) : LastBefore(q1, k, j, l)
                  => k \in 1..n /\ q1[k] = queue[k] /\ LastBefore(queue, k, End, l)
             /\ NoneBefore(q1, j, l, heard) => NoneBefore(queue, End, l, Heard)
  <2>1. opt'[l] = opt[l]
    BY <1>6 DEF Announced
  <2>2. ASSUME NEW k \in 1..Len(q1), LastBefore(q1, k, j, l)
        PROVE  k \in 1..n /\ q1[k] = queue[k] /\ LastBefore(queue, k, End, l)
    BY <1>0, <1>2, <1>6, <2>2, BeforeSame DEF n, q1
  <2>3. ASSUME NoneBefore(q1, j, l, heard) PROVE NoneBefore(queue, End, l, Heard)
    <3>1. ASSUME NEW m \in 1..End - 1 PROVE ~Matters(queue[m], l, Heard)
      <4>1. m \in 1..n /\ m \in 1..j - 1 /\ q1[m] = queue[m]
        BY <1>1, <1>2
      <4>2. ~Matters(q1[m], l, heard)
        BY <2>3, <4>1 DEF NoneBefore
      <4> QED
        BY <1>3, <4>1, <4>2 DEF Matters
    <3> QED
      BY <3>1 DEF NoneBefore
  <2> QED
    BY <2>1, <2>2, <2>3
\* Of the waiting events.
<1>7. ASSUME NEW l \in Layers, NEW j \in 1..n
      PROVE  /\ \A k \in 1..Len(q1) : LastBefore(q1, k, j, l)
                  => k \in 1..n /\ q1[k] = queue[k] /\ LastBefore(queue, k, j, l)
             /\ NoneBefore(q1, j, l, heard) => NoneBefore(queue, j, l, Heard)
  <2>1. j \in 1..n + 1
    BY <1>1
  <2>2. ASSUME NEW k \in 1..Len(q1), LastBefore(q1, k, j, l)
        PROVE  k \in 1..n /\ LastBefore(queue, k, j, l)
    BY <1>0, <2>1, <2>2, BeforeGrown DEF n, q1
  <2>3. ASSUME NoneBefore(q1, j, l, heard) PROVE NoneBefore(queue, j, l, Heard)
    <3>1. ASSUME NEW m \in 1..j - 1 PROVE ~Matters(queue[m], l, Heard)
      <4>1. m \in 1..n /\ q1[m] = queue[m]
        BY <1>1
      <4>2. ~Matters(q1[m], l, heard)
        BY <2>3 DEF NoneBefore
      <4> QED
        BY <1>3, <4>1, <4>2 DEF Matters
    <3> QED
      BY <3>1 DEF NoneBefore
  <2> QED
    BY <1>1, <2>2, <2>3
<1>8. Len(q1) + 1 \in n + 1..Len(q1) + 1
  BY <1>1
<1>9. LastInv'
  <2>1. ASSUME NEW l \in Layers, NEW k \in 1..Len(q1), LastBefore(q1, k, Len(q1) + 1, l)
        PROVE  q1[k].value = opt'[l]
    <3>1. CASE \A i \in 1..Len(s) : ~IsConf(s[i], l)
      <4>1. /\ opt'[l] = opt[l] /\ k \in 1..n /\ q1[k] = queue[k]
            /\ LastBefore(queue, k, End, l)
        BY <1>6, <1>8, <2>1, <3>1
      <4> QED
        BY <4>1 DEF LayersInv, LastInv, n
    <3>2. CASE \E i \in 1..Len(s) : IsConf(s[i], l)
      <4>1. PICK h \in 1..Len(s) : IsConf(s[h], l) /\ q1[k] = s[h]
        BY <1>0, <2>1, <3>2, BeforeOther DEF q1
      <4> QED
        BY <4>1 DEF Announced, IsConf
    <3> QED
      BY <3>1, <3>2
  <2> QED
    BY <1>2, <2>1 DEF LastInv
<1>10. KnownInv'
  <2>1. ASSUME NEW l \in Layers, l \notin drift', done' >= ConfStep(l),
               NoneBefore(q1, Len(q1) + 1, l, heard)
        PROVE  layer[l] = opt'[l]
    <3>1. done >= ConfStep(l)
      BY <1>0, <2>1 DEF Layers, ConfStep
    <3>2. CASE \A i \in 1..Len(s) : ~IsConf(s[i], l)
      BY <1>6, <1>8, <2>1, <3>1, <3>2 DEF LayersInv, KnownInv
    <3>3. CASE \E i \in 1..Len(s) : IsConf(s[i], l)
      <4>1. PICK i \in 1..Len(s) : IsConf(s[i], l)
        BY <3>3
      <4>2. s[i].fresh
        BY <3>1, <4>1 DEF Announced, IsConf
      <4>3. ~Matters(s[i], l, heard)
        <5>1. n + i \in 1..(Len(q1) + 1) - 1 /\ q1[n + i] = s[i]
          BY <1>1
        <5> QED
          BY <2>1, <5>1 DEF NoneBefore
      <4> QED
        BY <4>1, <4>2, <4>3 DEF Matters
    <3> QED
      BY <3>2, <3>3
  <2> QED
    BY <1>2, <2>1 DEF KnownInv, heard
<1>11. FullInv'
  <2>1. done >= ConfStep(2) \/ ~(done' >= ConfStep(2))
    BY <1>0 DEF ConfStep
  <2> QED
    BY <2>1 DEF LayersInv, FullInv
<1>12. LiteEventInv'
  <2>1. ASSUME NEW j \in 1..Len(q1), q1[j].type = "GUARD"
        PROVE  /\ Listening("GUARD")
               /\ \A k \in 1..Len(q1) : LastBefore(q1, k, j, 2) => q1[k].value = {}
               /\ NoneBefore(q1, j, 2, heard) => 2 \in drift
    <3>0. 2 \in Layers
      BY DEF Layers
    <3>1. CASE j \in 1..n /\ q1[j] = queue[j]
      BY <1>7, <2>1, <3>0, <3>1 DEF LayersInv, LiteEventInv, n
    <3>2. CASE \E i \in 1..Len(s) : j = n + i /\ q1[j] = s[i]
      <4>1. PICK i \in 1..Len(s) : j = n + i /\ q1[j] = s[i]
        BY <3>2
      <4>2. Listening("GUARD") /\ opt[2] = {} /\ \A h \in 1..Len(s) : ~IsConf(s[h], 2)
        BY <2>1, <4>1 DEF Announced, IsConf
      <4>3. j \in n + 1..Len(q1) + 1
        BY <1>1, <4>1
      <4>4. \A k \in 1..Len(q1) : LastBefore(q1, k, j, 2) => q1[k].value = {}
        <5>1. ASSUME NEW k \in 1..Len(q1), LastBefore(q1, k, j, 2)
              PROVE  q1[k].value = {}
          <6>1. k \in 1..n /\ q1[k] = queue[k] /\ LastBefore(queue, k, End, 2)
            BY <1>6, <3>0, <4>2, <4>3, <5>1
          <6> QED
            BY <3>0, <4>2, <6>1 DEF LayersInv, LastInv, n
        <5> QED
          BY <5>1
      <4>5. NoneBefore(q1, j, 2, heard) => 2 \in drift
        <5>1. done >= ConfStep(2)
          BY <1>0, <4>2, ListeningAt DEF ConfStep
        <5> QED
          BY <1>6, <3>0, <4>2, <4>3, <5>1 DEF LayersInv, KnownInv, FullInv
      <4> QED
        BY <4>2, <4>4, <4>5
    <3> QED
      BY <1>5, <3>1, <3>2
  <2> QED
    BY <1>2, <1>4, <2>1 DEF LiteEventInv, heard
<1>13. JudgedInv'
  <2>1. ASSUME NEW j \in 1..Len(q1), NEW l \in Layers, IsCirc(q1[j]), q1[j].fresh
        PROVE  /\ \A k \in 1..Len(q1) :
                    LastBefore(q1, k, j, l) /\ (l = 3 \/ q1[k].value # {})
                      => Judged(q1[j], l, q1[k].value)
               /\ NoneBefore(q1, j, l, heard) /\ l \notin drift'
                      => Judged(q1[j], l, layer[l])
    <3>1. CASE j \in 1..n /\ q1[j] = queue[j]
      BY <1>7, <2>1, <3>1 DEF LayersInv, JudgedInv, n
    <3>2. CASE \E i \in 1..Len(s) : j = n + i /\ q1[j] = s[i]
      <4>1. PICK i \in 1..Len(s) : j = n + i /\ q1[j] = s[i]
        BY <3>2
      <4>2. done >= OrconnStep /\ Judged(q1[j], l, TorLayer(l))
            /\ \A h \in 1..Len(s) : ~IsConf(s[h], l)
        BY <2>1, <4>1 DEF Announced, IsConf, IsCirc
      <4>3. j \in n + 1..Len(q1) + 1
        BY <1>1, <4>1
      <4>4. ASSUME NEW k \in 1..Len(q1), LastBefore(q1, k, j, l),
                   l = 3 \/ q1[k].value # {}
            PROVE  Judged(q1[j], l, q1[k].value)
        <5>1. k \in 1..Len(queue) /\ q1[k] = queue[k] /\ LastBefore(queue, k, End, l)
          BY <1>6, <4>2, <4>3, <4>4 DEF n
        <5>2. q1[k].value = TorLayer(l)
          BY <4>2, <4>4, <5>1, KnownNow
        <5> QED
          BY <4>2, <5>2
      <4>5. ASSUME NoneBefore(q1, j, l, heard), l \notin drift'
            PROVE  Judged(q1[j], l, layer[l])
        <5>1. NoneBefore(queue, End, l, Heard) /\ l \notin drift
          BY <1>6, <4>2, <4>3, <4>5
        <5>2. layer[l] = TorLayer(l)
          BY <4>2, <5>1, KnownNow
        <5> QED
          BY <4>2, <5>2
      <4> QED
        BY <4>4, <4>5
    <3> QED
      BY <1>5, <3>1, <3>2
  <2> QED
    BY <1>2, <2>1 DEF JudgedInv, heard
<1>14. StemInv'
  BY DEF LayersInv, StemInv
<1> QED
  BY <1>9, <1>10, <1>11, <1>12, <1>13, <1>14 DEF LayersInv

\* An event has its turn. What it changes of a layer is what it is about.
Follows(e) ==
    /\ \A l \in Layers : ~Matters(e, l, Heard) =>
         (l \in drift => l \in drift') /\ (l \notin drift' => layer'[l] = layer[l])
    /\ \A l \in Layers : Matters(e, l, Heard) /\ l \notin drift' =>
         Heard /\ layer'[l] = e.value /\ (l = 3 \/ e.value # {})
    /\ full_vanguards => full_vanguards'
    /\ Matters(e, 2, Heard) /\ 2 \notin drift' => full_vanguards'

LEMMA LayersHanded ==
    ASSUME TypeOK, LayersInv, queue # <<>>, queue' = Tail(queue), Follows(queue[1]),
           UNCHANGED <<others, opt, done>>
    PROVE  LayersInv'
<1> DEFINE t == Tail(queue)
           n == Len(t)
           e == queue[1]
<1>0. done \in 0..Len(Steps) /\ queue \in Seq(Events)
  BY DEF TypeOK
<1>1. n \in Nat /\ Len(queue) = n + 1 /\ \A k \in 1..n : t[k] = queue[k + 1]
  BY <1>0, Shrunk
<1>2. /\ queue' = t /\ End' = n + 1 /\ End = (n + 1) + 1 /\ (Heard' <=> Heard)
      /\ (Listening("GUARD")' <=> Listening("GUARD"))
  BY <1>1 DEF End, Heard, Listening
<1>3. ASSUME NEW l, NEW j \in 1..n + 1, NEW k \in 1..n, LastBefore(t, k, j, l)
      PROVE  k + 1 \in 1..Len(queue) /\ LastBefore(queue, k + 1, j + 1, l)
             /\ t[k] = queue[k + 1]
  BY <1>0, <1>1, <1>3, BeforeTail
<1>4. ASSUME NEW l, NEW j \in 1..n + 1, NoneBefore(t, j, l, Heard)
      PROVE  /\ ~Matters(e, l, Heard) => NoneBefore(queue, j + 1, l, Heard)
             /\ Matters(e, l, Heard) /\ Heard => LastBefore(queue, 1, j + 1, l)
  <2>1. CASE Heard
    <3>1. NoneBefore(t, j, l, TRUE)
      BY <1>4, <2>1 DEF NoneBefore, Matters
    <3>2. /\ ~Matters(e, l, TRUE) => NoneBefore(queue, j + 1, l, TRUE)
          /\ IsConf(e, l) => LastBefore(queue, 1, j + 1, l)
      BY <1>0, <3>1, BeforeTail
    <3> QED
      BY <2>1, <3>2 DEF NoneBefore, Matters
  <2>2. CASE ~Heard
    <3>1. NoneBefore(t, j, l, FALSE)
      BY <1>4, <2>2 DEF NoneBefore, Matters
    <3>2. ~Matters(e, l, FALSE) => NoneBefore(queue, j + 1, l, FALSE)
      BY <1>0, <3>1, BeforeTail
    <3> QED
      BY <2>2, <3>2 DEF NoneBefore, Matters
  <2> QED
    BY <2>1, <2>2
<1>5. 1 \in 1..Len(queue) /\ n + 1 \in 1..n + 1 /\ 2 \in Layers
      /\ \A j \in 1..n : j \in 1..n + 1 /\ j + 1 \in 1..Len(queue)
  BY <1>1 DEF Layers
<1> HIDE DEF t, n, e
<1>6. LastInv'
  <2>1. ASSUME NEW l \in Layers, NEW k \in 1..n, LastBefore(t, k, n + 1, l)
        PROVE  t[k].value = opt[l]
    BY <1>2, <1>3, <1>5, <2>1 DEF LayersInv, LastInv
  <2> QED
    BY <1>2, <2>1 DEF LastInv, n
<1>7. KnownInv'
  <2>1. ASSUME NEW l \in Layers, l \notin drift', done >= ConfStep(l),
               NoneBefore(t, n + 1, l, Heard)
        PROVE  layer'[l] = opt[l]
    <3>1. CASE Matters(e, l, Heard)
      <4>1. Heard /\ layer'[l] = e.value
        BY <2>1, <3>1 DEF Follows, e
      <4>2. LastBefore(queue, 1, End, l)
        BY <1>2, <1>4, <1>5, <2>1, <3>1, <4>1
      <4> QED
        BY <1>5, <4>1, <4>2 DEF LayersInv, LastInv, e
    <3>2. CASE ~Matters(e, l, Heard)
      <4>1. l \notin drift /\ layer'[l] = layer[l]
        BY <2>1, <3>2 DEF Follows, e
      <4>2. NoneBefore(queue, End, l, Heard)
        BY <1>2, <1>4, <1>5, <2>1, <3>2
      <4> QED
        BY <2>1, <4>1, <4>2 DEF LayersInv, KnownInv
    <3> QED
      BY <3>1, <3>2
  <2>2. ASSUME NEW l, NoneBefore(t, n + 1, l, Heard')
        PROVE  NoneBefore(t, n + 1, l, Heard)
    BY <1>2, <2>2 DEF NoneBefore, Matters
  <2> QED
    BY <1>2, <2>1, <2>2 DEF KnownInv
<1>8. FullInv'
  BY <1>5 DEF LayersInv, FullInv, Follows
<1>9. LiteEventInv'
  <2>1. ASSUME NEW j \in 1..n, t[j].type = "GUARD"
        PROVE  /\ Listening("GUARD")
               /\ \A k \in 1..n : LastBefore(t, k, j, 2) => t[k].value = {}
               /\ NoneBefore(t, j, 2, Heard) => 2 \in drift'
    <3>1. j + 1 \in 1..Len(queue) /\ queue[j + 1].type = "GUARD" /\ j \in 1..n + 1
      BY <1>1, <1>5, <2>1
    <3>2. /\ Listening("GUARD")
          /\ \A k \in 1..Len(queue) :
               LastBefore(queue, k, j + 1, 2) => queue[k].value = {}
          /\ NoneBefore(queue, j + 1, 2, Heard) => 2 \in drift
      BY <3>1 DEF LayersInv, LiteEventInv
    <3>3. \A k \in 1..n : LastBefore(t, k, j, 2) => t[k].value = {}
      BY <1>3, <3>1, <3>2
    <3>4. ASSUME NoneBefore(t, j, 2, Heard) PROVE 2 \in drift'
      <4>1. CASE Matters(e, 2, Heard)
        <5>1. SUFFICES ASSUME 2 \notin drift' PROVE FALSE
          OBVIOUS
        <5>2. Heard /\ e.value # {}
          BY <1>5, <4>1, <5>1 DEF Follows, e
        <5>3. LastBefore(queue, 1, j + 1, 2)
          BY <1>4, <3>1, <3>4, <4>1, <5>2
        <5> QED
          BY <1>5, <3>2, <5>2, <5>3 DEF e
      <4>2. CASE ~Matters(e, 2, Heard)
        BY <1>4, <1>5, <3>1, <3>2, <3>4, <4>2 DEF Follows, e
      <4> QED
        BY <4>1, <4>2
    <3> QED
      BY <3>2, <3>3, <3>4
  <2>2. ASSUME NEW j, NoneBefore(t, j, 2, Heard') PROVE NoneBefore(t, j, 2, Heard)
    BY <1>2, <2>2 DEF NoneBefore, Matters
  <2> QED
    BY <1>2, <2>1, <2>2 DEF LiteEventInv, n
<1>10. JudgedInv'
  <2>1. ASSUME NEW j \in 1..n, NEW l \in Layers, IsCirc(t[j]), t[j].fresh
        PROVE  /\ \A k \in 1..n : LastBefore(t, k, j, l) /\ (l = 3 \/ t[k].value # {})
                    => Judged(t[j], l, t[k].value)
               /\ NoneBefore(t, j, l, Heard) /\ l \notin drift'
                    => Judged(t[j], l, layer'[l])
    <3>1. j + 1 \in 1..Len(queue) /\ queue[j + 1] = t[j] /\ j \in 1..n + 1
      BY <1>1, <1>5, <2>1
    <3>2. /\ \A k \in 1..Len(queue) :
               LastBefore(queue, k, j + 1, l) /\ (l = 3 \/ queue[k].value # {})
                 => Judged(t[j], l, queue[k].value)
          /\ NoneBefore(queue, j + 1, l, Heard) /\ l \notin drift
               => Judged(t[j], l, layer[l])
      BY <2>1, <3>1 DEF LayersInv, JudgedInv
    <3>3. ASSUME NEW k \in 1..n, LastBefore(t, k, j, l), l = 3 \/ t[k].value # {}
          PROVE  Judged(t[j], l, t[k].value)
      BY <1>3, <3>1, <3>2, <3>3
    <3>4. ASSUME NoneBefore(t, j, l, Heard), l \notin drift'
          PROVE  Judged(t[j], l, layer'[l])
      <4>1. CASE Matters(e, l, Heard)
        <5>1. Heard /\ layer'[l] = e.value /\ (l = 3 \/ e.value # {})
          BY <3>4, <4>1 DEF Follows, e
        <5>2. LastBefore(queue, 1, j + 1, l)
          BY <1>4, <3>1, <3>4, <4>1, <5>1
        <5> QED
          BY <1>5, <3>2, <5>1, <5>2 DEF e
      <4>2. CASE ~Matters(e, l, Heard)
        <5>1. l \notin drift /\ layer'[l] = layer[l]
          BY <3>4, <4>2 DEF Follows, e
        <5> QED
          BY <1>4, <3>1, <3>2, <3>4, <4>2, <5>1
      <4> QED
        BY <4>1, <4>2
    <3> QED
      BY <3>3, <3>4
  <2>2. ASSUME NEW j, NEW l, NoneBefore(t, j, l, Heard')
        PROVE  NoneBefore(t, j, l, Heard)
    BY <1>2, <2>2 DEF NoneBefore, Matters
  <2> QED
    BY <1>2, <2>1, <2>2 DEF JudgedInv, n
<1>11. StemInv'
  BY DEF LayersInv, StemInv
<1> QED
  BY <1>6, <1>7, <1>8, <1>9, <1>10, <1>11 DEF LayersInv

\* Nothing is posted.
LEMMA LayersIdle ==
    ASSUME TypeOK, LayersInv, UNCHANGED <<queue, opt, others, layer, full_vanguards>>,
           drift \subseteq drift', done' \in 0..Len(Steps),
           done' = done \/ (done >= ConfStep(3) /\ done' >= done)
    PROVE  LayersInv'
<1>1. <<>> \in Seq(Events) /\ Len(<<>>) = 0 /\ queue \o <<>> = queue
  BY EmptySeq, ConcatEmptySeq DEF TypeOK
<1>2. Announced(<<>>, opt', done)
  BY DEF Announced
<1> QED
  BY <1>1, <1>2, LayersPosted

\* One event that is not a change of an option.
LEMMA LayersPostedOne ==
    ASSUME TypeOK, LayersInv, NEW e \in Events, Post(e), e.type # "CONF_CHANGED",
           e.type = "GUARD" => opt[2] = {},
           IsCirc(e) /\ e.fresh =>
             done >= OrconnStep /\ \A l \in Layers : Judged(e, l, TorLayer(l)),
           UNCHANGED <<opt, others, layer, full_vanguards, done>>, drift \subseteq drift'
    PROVE  LayersInv'
<1> DEFINE s == Read(e.type, <<e>>)
<1>1. /\ s \in Seq(Events) /\ queue' = queue \o s /\ \A k \in 1..Len(s) : s[k] = e
      /\ ~Subscribed(e.type) => s = <<>>
  BY PostOne, ReadOne
<1> HIDE DEF s
<1>2. e.type = "GUARD" /\ Subscribed(e.type) => Listening("GUARD")
  BY DEF Subscribed, TypeOK
<1>3. s = <<>> => \A k \in 1..Len(s) : FALSE
  OBVIOUS
<1>4. ASSUME NEW k \in 1..Len(s) PROVE s[k] = e /\ Subscribed(e.type)
  BY <1>1, <1>3
<1>5. Announced(s, opt', done)
  BY <1>2, <1>4 DEF Announced
<1>6. done' \in 0..Len(Steps)
  BY DEF TypeOK
<1> QED
  BY <1>1, <1>5, <1>6, LayersPosted

\* The steps of the main thread.
LEMMA LayersMain ==
    ASSUME TypeOK, LayersInv, PostedInv
    PROVE  /\ \A l \in Layers : AskLayer(l) => LayersInv'
           /\ AskOrconns => LayersInv'
           /\ AddListener => LayersInv'
           /\ \A R \in LayerValues, told \in BOOLEAN : Newnym(R, told) => LayersInv'
<1>0. done \in 0..Len(Steps) /\ Len(Steps) = 9 /\ queue \in Seq(Events)
      /\ 2 \in Layers /\ 3 \in Layers
  BY DEF TypeOK, Steps, Layers
<1>1. ASSUME NEW l \in Layers, AskLayer(l) PROVE LayersInv'
  <2>1. /\ done + 1 = ConfStep(l) /\ done' = done + 1 /\ layer' = [layer EXCEPT ![l] = opt[l]]
        /\ (full_vanguards' <=> full_vanguards \/ layer[2] # {} \/ opt[l] # {})
        /\ drift' = (IF l = 2 /\ opt[l] = {} THEN drift \union {2} ELSE drift)
        /\ UNCHANGED <<queue, opt, others>>
    BY <1>1 DEF AskLayer, torVars, TypeOK
  <2>2. (l = 2 /\ done = 0 /\ done' = 1) \/ (l = 3 /\ done = 1 /\ done' = 2)
    BY <1>0, <2>1 DEF ConfStep, Layers
  <2>3. /\ layer'[l] = opt[l] /\ \A h \in Layers \ {l} : layer'[h] = layer[h]
    BY <2>1 DEF TypeOK
  <2>4. ~Heard /\ ~Heard' /\ ~Listening("GUARD")
    BY <1>0, <2>2, ListeningAt DEF Heard, Listening, Steps
  <2>5. LastInv' /\ StemInv'
    BY <2>1 DEF LayersInv, LastInv, StemInv, End
  <2>6. KnownInv'
    <3>1. ASSUME NEW h \in Layers \ drift', done' >= ConfStep(h),
                 NoneBefore(queue, End, h, Heard')
          PROVE  layer'[h] = opt[h]
      <4>1. CASE h = l
        BY <2>3, <4>1
      <4>2. CASE h # l
        <5>1. h = 2 /\ l = 3
          BY <2>2, <3>1, <4>2 DEF ConfStep, Layers
        <5>2. done >= ConfStep(h) /\ h \notin drift
          BY <2>1, <2>2, <5>1 DEF ConfStep
        <5>3. NoneBefore(queue, End, h, Heard)
          BY <2>4, <3>1 DEF NoneBefore, Matters
        <5> QED
          BY <2>3, <4>2, <5>2, <5>3 DEF LayersInv, KnownInv
      <4> QED
        BY <4>1, <4>2
    <3> QED
      BY <2>1, <3>1 DEF KnownInv, End
  <2>7. LiteEventInv' /\ JudgedInv'
    <3>1. ASSUME NEW j \in 1..Len(queue)
          PROVE  queue[j].type # "GUARD" /\ ~(IsCirc(queue[j]) /\ queue[j].fresh)
      BY <2>2, <2>4 DEF LayersInv, LiteEventInv, PostedInv, EventOK, OrconnStep, IsCirc
    <3> QED
      BY <2>1, <3>1 DEF LiteEventInv, JudgedInv
  <2>8. FullInv'
    <3>1. CASE l = 2
      <4>1. 2 \notin drift' => opt[2] # {}
        BY <2>1, <3>1
      <4> QED
        BY <2>1, <2>3, <3>1, <4>1 DEF FullInv
    <3>2. CASE l = 3
      <4>1. 2 \notin drift => layer[2] # {} /\ full_vanguards
        BY <2>2, <3>2 DEF LayersInv, FullInv, ConfStep
      <4> QED
        BY <1>0, <2>1, <2>3, <3>2, <4>1 DEF FullInv
    <3> QED
      BY <2>2, <3>1, <3>2
  <2> QED
    BY <2>5, <2>6, <2>7, <2>8 DEF LayersInv
<1>2. ASSUME AskOrconns PROVE LayersInv'
  <2>1. /\ UNCHANGED <<queue, opt, others, layer, full_vanguards>> /\ drift \subseteq drift'
        /\ done' \in 0..Len(Steps) /\ done >= ConfStep(3) /\ done' >= done
    BY <1>0, <1>2 DEF AskOrconns, torVars, ConfStep, OrconnStep
  <2> QED
    BY <2>1, LayersIdle
<1>3. ASSUME AddListener PROVE LayersInv'
  <2>1. /\ UNCHANGED <<queue, opt, others, layer, full_vanguards>> /\ drift \subseteq drift'
        /\ done' \in 0..Len(Steps) /\ done >= ConfStep(3) /\ done' >= done
    BY <1>0, <1>3 DEF AddListener, torVars, verifierVars, ConfStep, OrconnStep
  <2> QED
    BY <2>1, LayersIdle
<1>4. ASSUME NEW R \in LayerValues, NEW told \in BOOLEAN, Newnym(R, told)
      PROVE  LayersInv'
  <2> DEFINE r == Renewed(R, told)
             s == Read("GUARD", r)
  <2>1. r \in Seq(Events) /\ Len(r) <= 2 /\ Quiet(r)
    BY RenewedTypes, RenewedQuiet
  <2>2. \A k \in 1..Len(r) : r[k].type = "GUARD" /\ opt[2] = {}
    <3>1. GuardEvent(lite, "BAD_L2").type = "GUARD" /\ GuardEvent(R, "GOOD_L2").type = "GUARD"
      BY DEF GuardEvent
    <3>2. CASE opt[2] # {}
      BY <3>2 DEF Renewed
    <3>3. CASE opt[2] = {} /\ told
      BY <3>1, <3>3 DEF Renewed
    <3>4. CASE opt[2] = {} /\ ~told
      BY <3>1, <3>4 DEF Renewed
    <3> QED
      BY <3>2, <3>3, <3>4
  <2> HIDE DEF r
  <2>3. s \in Seq(Events) /\ queue' = queue \o s
    BY <1>4, <2>1, PostEffect, ReadQuiet DEF Newnym, r
  <2>4. \A k \in 1..Len(s) : s[k].type = "GUARD" /\ opt[2] = {}
    BY <2>2 DEF Read
  <2> HIDE DEF s
  <2>5. /\ UNCHANGED <<opt, others, layer, full_vanguards, drift>>
        /\ done = 8 /\ done' \in 0..Len(Steps) /\ done' >= done
    BY <1>0, <1>4 DEF Newnym, verifierVars
  <2>6. Listening("GUARD")
    BY <1>0, <2>5, ListeningAt
  <2>7. Announced(s, opt', done)
    BY <2>4, <2>5, <2>6 DEF Announced, IsCirc
  <2>8. drift \subseteq drift' /\ done >= ConfStep(3)
    BY <2>5 DEF ConfStep
  <2> QED
    BY <2>3, <2>5, <2>7, <2>8, LayersPosted
<1> QED
  BY <1>1, <1>2, <1>3, <1>4

\* The connections of Tor.
LEMMA LayersConn ==
    ASSUME TypeOK, LayersInv, NEW i \in ConnIds,
           ConnLaunched(i) \/ ConnConnected(i) \/ ConnEnded(i)
    PROVE  LayersInv'
<1>0. done' = done /\ done \in 0..Len(Steps)
  BY DEF ConnLaunched, ConnConnected, ConnEnded, TypeOK
<1>1. CASE ConnLaunched(i)
  BY <1>0, <1>1, LayersIdle DEF ConnLaunched, verifierVars
<1>2. ASSUME NEW status \in {"CONNECTED", "CLOSED"}, PostOrconn(i, status),
             UNCHANGED <<opt, others, layer, full_vanguards, done>>
      PROVE  LayersInv'
  <2>1. OrconnEvent(i, status) \in Events /\ OrconnEvent(i, status).type = "ORCONN"
    BY EventTypes DEF OrconnEvent
  <2>2. Post(OrconnEvent(i, status)) /\ drift \subseteq drift'
    BY <1>2 DEF PostOrconn
  <2> QED
    BY <1>2, <2>1, <2>2, LayersPostedOne DEF IsCirc
<1>3. CASE ConnConnected(i)
  BY <1>2, <1>3 DEF ConnConnected, verifierVars
<1>4. CASE ConnEnded(i)
  BY <1>2, <1>4 DEF ConnEnded, verifierVars
<1> QED
  BY <1>1, <1>3, <1>4

\* The changes of Tor's layers.
LEMMA LayersChange ==
    ASSUME TypeOK, LayersInv
    PROVE  /\ \A l \in Layers, S \in LayerValues : SetConf(l, S) => LayersInv'
           /\ Sighup => LayersInv'
           /\ \A R \in SUBSET Relays, r \in Relays, status \in {"GOOD_L2", "BAD_L2"} :
                LiteChanges(R, r, status) => LayersInv'
<1>0. done \in 0..Len(Steps) /\ Subscribed("CONF_CHANGED")
  BY DEF TypeOK, LayersInv, StemInv, Subscribed
<1>1. ASSUME NEW l \in Layers, NEW S \in LayerValues, SetConf(l, S) PROVE LayersInv'
  <2> DEFINE e == ConfEvent(l, S)
             s == <<e>>
  <2>1. /\ e \in Events /\ e.type = "CONF_CHANGED" /\ e.layer = l /\ e.value = S
        /\ (e.fresh <=> done >= ConfStep(l))
    BY EventTypes DEF ConfEvent, Fresh
  <2>2. /\ Post(e) /\ opt' = [opt EXCEPT ![l] = S]
        /\ UNCHANGED <<others, layer, full_vanguards, drift, done>>
    BY <1>1 DEF SetConf, verifierVars
  <2> HIDE DEF e
  <2>3. s \in Seq(Events) /\ Len(s) = 1 /\ s[1] = e
    BY <2>1, OneMore
  <2>4. queue' = queue \o s
    <3>1. Subscribed(e.type)
      BY <1>0, <2>1
    <3>2. Read(e.type, <<e>>) = <<e>>
      BY <2>1, <3>1, ReadOne
    <3> QED
      BY <2>1, <2>2, <3>2, PostOne
  <2> HIDE DEF s
  <2>5. opt'[l] = S /\ \A h \in Layers \ {l} : opt'[h] = opt[h]
    BY <2>2 DEF TypeOK
  <2>6. \A k \in 1..Len(s) : s[k] = e
    BY <2>3
  <2>7. \A h \in Layers : opt'[h] = opt[h] \/ \E k \in 1..Len(s) : IsConf(s[k], h)
    BY <2>1, <2>3, <2>5 DEF IsConf
  <2>8. Announced(s, opt', done)
    BY <2>1, <2>5, <2>6, <2>7 DEF Announced, IsCirc
  <2> QED
    BY <1>0, <2>2, <2>3, <2>4, <2>8, LayersPosted
<1>2. ASSUME Sighup PROVE LayersInv'
  <2> DEFINE s2 == Unset(2)
             s3 == Unset(3)
             s == s2 \o s3
  <2>1. ASSUME NEW l \in Layers
        PROVE  /\ Unset(l) \in Seq(Events)
               /\ \A k \in 1..Len(Unset(l)) :
                    /\ IsConf(Unset(l)[k], l) /\ Unset(l)[k].value = {}
                    /\ (Unset(l)[k].fresh <=> done >= ConfStep(l))
               /\ opt[l] # {} => Len(Unset(l)) = 1
    <3>1. /\ ConfEvent(l, {}).type = "CONF_CHANGED" /\ ConfEvent(l, {}).layer = l
          /\ ConfEvent(l, {}).value = {}
          /\ (ConfEvent(l, {}).fresh <=> done >= ConfStep(l))
      BY DEF ConfEvent, Fresh
    <3>2. CASE opt[l] = {}
      BY <3>2, UnsetTypes DEF Unset
    <3>3. CASE opt[l] # {}
      <4>1. Unset(l) = <<ConfEvent(l, {})>>
        BY <3>3 DEF Unset
      <4>2. Len(Unset(l)) = 1 /\ Unset(l)[1] = ConfEvent(l, {})
        BY <4>1
      <4> QED
        BY <3>1, <4>2, UnsetTypes DEF IsConf
    <3> QED
      BY <3>2, <3>3
  <2>2. s2 \in Seq(Events) /\ s3 \in Seq(Events) /\ s \in Seq(Events) /\ Len(s) <= 2
    BY <2>1, UnsetTypes DEF Layers
  <2>3. /\ \A k \in 1..Len(s2) : IsConf(s2[k], 2) /\ s2[k].value = {}
             /\ (s2[k].fresh <=> done >= ConfStep(2))
        /\ \A k \in 1..Len(s3) : IsConf(s3[k], 3) /\ s3[k].value = {}
             /\ (s3[k].fresh <=> done >= ConfStep(3))
        /\ opt[2] # {} => Len(s2) = 1
        /\ opt[3] # {} => Len(s3) = 1
    BY <2>1 DEF Layers
  <2>4. /\ PostAll("CONF_CHANGED", s) /\ opt' = [l \in Layers |-> {}]
        /\ UNCHANGED <<others, layer, full_vanguards, drift, done>>
    BY <1>2 DEF Sighup, verifierVars
  <2> HIDE DEF s2, s3
  <2>5. /\ Len(s2) \in Nat /\ Len(s3) \in Nat /\ Len(s) = Len(s2) + Len(s3)
        /\ \A k \in 1..Len(s2) : s[k] = s2[k]
        /\ \A k \in 1..Len(s3) : s[Len(s2) + k] = s3[k]
    BY <2>2, Grown
  <2> HIDE DEF s
  <2>6. queue' = queue \o s
    BY <1>0, <2>2, <2>4, PostEffect DEF Read
  <2>7. ASSUME NEW k \in 1..Len(s)
        PROVE  /\ s[k].type = "CONF_CHANGED" /\ s[k].layer \in Layers /\ s[k].value = {}
               /\ (s[k].fresh <=> done >= ConfStep(s[k].layer))
    <3>1. CASE k <= Len(s2)
      <4>1. k \in 1..Len(s2)
        BY <2>5, <3>1
      <4>2. /\ IsConf(s[k], 2) /\ s[k].value = {}
            /\ (s[k].fresh <=> done >= ConfStep(2))
        BY <2>3, <2>5, <4>1
      <4> QED
        BY <4>2 DEF IsConf, Layers
    <3>2. CASE ~(k <= Len(s2))
      <4>1. k - Len(s2) \in 1..Len(s3) /\ Len(s2) + (k - Len(s2)) = k
        BY <2>5, <3>2
      <4>2. s[k] = s3[k - Len(s2)]
        BY <2>5, <4>1
      <4>3. /\ IsConf(s[k], 3) /\ s[k].value = {}
            /\ (s[k].fresh <=> done >= ConfStep(3))
        BY <2>3, <4>1, <4>2
      <4> QED
        BY <4>3 DEF IsConf, Layers
    <3> QED
      BY <3>1, <3>2
  <2>8. ASSUME NEW l \in Layers, opt'[l] # opt[l]
        PROVE  \E k \in 1..Len(s) : IsConf(s[k], l)
    <3>1. opt[l] # {}
      BY <2>4, <2>8
    <3>2. CASE l = 2
      <4>0. Len(s2) = 1
        BY <2>3, <3>1, <3>2
      <4>1. 1 \in 1..Len(s2) /\ 1 \in 1..Len(s)
        BY <2>5, <4>0
      <4> QED
        BY <2>3, <2>5, <3>2, <4>1
    <3>3. CASE l = 3
      <4>0. Len(s3) = 1
        BY <2>3, <3>1, <3>3
      <4>1. 1 \in 1..Len(s3) /\ Len(s2) + 1 \in 1..Len(s)
        BY <2>5, <4>0
      <4> QED
        BY <2>3, <2>5, <3>3, <4>1
    <3> QED
      BY <3>2, <3>3 DEF Layers
  <2>9. Announced(s, opt', done)
    BY <2>4, <2>7, <2>8 DEF Announced, IsCirc
  <2> QED
    BY <1>0, <2>2, <2>4, <2>6, <2>9, LayersPosted
<1>3. ASSUME NEW R \in SUBSET Relays, NEW r \in Relays,
             NEW status \in {"GOOD_L2", "BAD_L2"}, LiteChanges(R, r, status)
      PROVE  LayersInv'
  <2>1. GuardEvent({r}, status) \in Events /\ GuardEvent({r}, status).type = "GUARD"
    BY EventTypes DEF GuardEvent
  <2>2. Post(GuardEvent({r}, status)) /\ opt[2] = {}
        /\ UNCHANGED <<opt, others, layer, full_vanguards, done, drift>>
    BY <1>3 DEF LiteChanges, verifierVars
  <2> QED
    BY <2>1, <2>2, LayersPostedOne DEF IsCirc
<1> QED
  BY <1>1, <1>2, <1>3

\* The circuits: they are judged by the layers that Tor has.
LEMMA JudgedByTor ==
    ASSUME NEW l \in Layers
    PROVE  /\ \A path \in Path, hops \in Hops, purpose \in Purposes :
                Judged(BuiltEvent(path, hops, purpose), l, TorLayer(l))
           /\ \A path \in MinorPaths : Judged(MinorEvent(path), l, TorLayer(l))
<1>1. TorLayers[l] = TorLayer(l) /\ l \in {2, 3}
  BY DEF TorLayers, Layers
<1>2. ASSUME NEW path
      PROVE  l \in Strays(path, TorGuards, TorLayers, Num) <=>
               l \in DOMAIN path /\ path[l] \notin TorLayer(l) /\ (l = 3 => Num[3] # 0)
  BY <1>1 DEF Strays
<1>3. ASSUME NEW path \in Path, NEW hops \in Hops, NEW purpose \in Purposes
      PROVE  Judged(BuiltEvent(path, hops, purpose), l, TorLayer(l))
  BY <1>1, <1>2 DEF Judged, BuiltEvent, Built, WrongWidths
<1>4. ASSUME NEW path \in MinorPaths PROVE Judged(MinorEvent(path), l, TorLayer(l))
  BY <1>1, <1>2 DEF Judged, MinorEvent, Extended
<1> QED
  BY <1>3, <1>4

LEMMA LayersCirc ==
    ASSUME TypeOK, LayersInv
    PROVE  /\ \A path \in Path, hops \in Hops, purpose \in Purposes :
                CircBuilt(path, hops, purpose) => LayersInv'
           /\ \A path \in MinorPaths : CircMinor(path) => LayersInv'
<1>1. ASSUME NEW path \in Path, NEW hops \in Hops, NEW purpose \in Purposes,
             CircBuilt(path, hops, purpose)
      PROVE  LayersInv'
  <2> DEFINE e == BuiltEvent(path, hops, purpose)
  <2>1. e \in Events /\ e.type = "CIRC" /\ (e.fresh => done >= OrconnStep)
    BY CircEventTypes DEF BuiltEvent, Fresh
  <2>2. Post(e) /\ UNCHANGED <<opt, others, layer, full_vanguards, done, drift>>
    BY <1>1 DEF CircBuilt, BuiltEvent, verifierVars
  <2>3. \A l \in Layers : Judged(e, l, TorLayer(l))
    BY JudgedByTor
  <2> HIDE DEF e
  <2> QED
    BY <2>1, <2>2, <2>3, LayersPostedOne
<1>2. ASSUME NEW path \in MinorPaths, CircMinor(path) PROVE LayersInv'
  <2> DEFINE e == MinorEvent(path)
  <2>1. e \in Events /\ e.type = "CIRC_MINOR" /\ (e.fresh => done >= OrconnStep)
    BY CircEventTypes DEF MinorEvent, Fresh
  <2>2. Post(e) /\ UNCHANGED <<opt, others, layer, full_vanguards, done, drift>>
    BY <1>2 DEF CircMinor, MinorEvent, verifierVars
  <2>3. \A l \in Layers : Judged(e, l, TorLayer(l))
    BY JudgedByTor
  <2> HIDE DEF e
  <2> QED
    BY <2>1, <2>2, <2>3, LayersPostedOne
<1> QED
  BY <1>1, <1>2

\* The handlers.
LEMMA LayersHandlers ==
    ASSUME TypeOK, LayersInv
    PROVE  /\ OrconnHandler => LayersInv'
           /\ GuardHandler => LayersInv'
           /\ ConfChangedHandler => LayersInv'
           /\ CircHandler => LayersInv'
           /\ CircMinorHandler => LayersInv'
           /\ Unheard => LayersInv'
<1>0. done \in 0..Len(Steps) /\ Guards \intersect Layers = {}
  BY PathSetsAssumption DEF TypeOK
<1>1. ASSUME NEW type, Handle(type)
      PROVE  /\ queue # <<>> /\ queue' = Tail(queue) /\ Head(queue) = queue[1]
             /\ queue[1] \in Events /\ queue[1].type = type /\ 1 \in 1..Len(queue)
             /\ UNCHANGED <<others, opt, done>> /\ Listening(type)
  <2>1. /\ queue # <<>> /\ queue' = Tail(queue) /\ Head(queue).type = type
        /\ UNCHANGED <<others, opt, done>> /\ Listening(type)
    BY <1>1 DEF Handle, torVars
  <2> QED
    BY <2>1, HandEffect
\* An event that is not about an option.
<1>2. ASSUME NEW type, type # "CONF_CHANGED", Handle(type),
             full_vanguards' = full_vanguards,
             \A l \in Layers : (l \in drift => l \in drift')
                            /\ (l \notin drift' => layer'[l] = layer[l])
      PROVE  LayersInv'
  <2>1. \A l : ~Matters(queue[1], l, Heard)
    BY <1>1, <1>2 DEF Matters, IsConf
  <2>2. Follows(queue[1])
    BY <1>2, <2>1 DEF Follows
  <2> QED
    BY <1>1, <1>2, <2>2, LayersHanded
<1>3. ASSUME OrconnHandler PROVE LayersInv'
  BY <1>2, <1>3 DEF OrconnHandler
<1>4. ASSUME GuardHandler PROVE LayersInv'
  <2>1. Handle("GUARD") /\ UNCHANGED <<full_vanguards, drift>>
    BY <1>4 DEF GuardHandler
  <2>2. 2 \in drift
    BY <1>1, <2>1 DEF LayersInv, LiteEventInv, NoneBefore
  <2>3. \A l \in Layers \ {2} : layer'[l] = layer[l]
    BY <1>4 DEF GuardHandler, TypeOK
  <2> QED
    BY <1>2, <2>1, <2>2, <2>3
<1>5. ASSUME ConfChangedHandler PROVE LayersInv'
  <2>1. Handle("CONF_CHANGED")
    BY <1>5 DEF ConfChangedHandler
  <2>2. PICK e \in Events : e = queue[1]
    BY <1>1, <2>1
  <2>3. /\ Head(queue) = e /\ e.type = "CONF_CHANGED" /\ e.layer \in Layers
        /\ Heard /\ done >= 8
    BY <1>0, <1>1, <2>1, <2>2, EventParts, ListeningAt DEF Heard
  <2>4. \/ /\ e.value = {} /\ UNCHANGED <<layer, full_vanguards>>
           /\ drift' = (IF e.fresh \/ layer[e.layer] # {} THEN drift \union {e.layer}
                        ELSE drift)
        \/ /\ layer' = [layer EXCEPT ![e.layer] = IF e.value = {} THEN {Blank} ELSE e.value]
           /\ full_vanguards'
           /\ drift' = (IF e.value = {} THEN drift \union {e.layer} ELSE drift \ {e.layer})
    BY <1>5, <2>3 DEF ConfChangedHandler
  <2>5. \A l : Matters(e, l, Heard) <=> l = e.layer
    BY <2>3 DEF Matters, IsConf
  <2>6. ASSUME NEW l \in Layers \ {e.layer}
        PROVE  (l \in drift <=> l \in drift') /\ layer'[l] = layer[l]
    BY <2>3, <2>4 DEF TypeOK
  <2>7. CASE e.value # {}
    <3>1. layer'[e.layer] = e.value /\ full_vanguards'
      BY <2>3, <2>4, <2>7 DEF TypeOK
    <3>2. Follows(e)
      BY <2>3, <2>5, <2>6, <2>7, <3>1 DEF Follows
    <3> QED
      BY <1>1, <2>1, <2>2, <3>2, LayersHanded
  <2>8. CASE e.value = {}
    <3>1. full_vanguards => full_vanguards'
      BY <2>4, <2>8
    <3>2. ASSUME e.layer \notin drift'
          PROVE  layer' = layer /\ layer[e.layer] = {} /\ e.layer = 3
      <4>1. layer' = layer /\ layer[e.layer] = {} /\ e.layer \notin drift
        BY <2>4, <2>8, <3>2
      <4>2. e.layer # 2
        BY <2>3, <4>1 DEF LayersInv, FullInv, ConfStep, TypeOK
      <4> QED
        BY <2>3, <4>1, <4>2 DEF Layers
    <3>3. ASSUME NEW l \in Layers, Matters(e, l, Heard), l \notin drift'
          PROVE  Heard /\ layer'[l] = e.value /\ l = 3
      BY <2>3, <2>5, <2>8, <3>2, <3>3
    <3>4. ~(Matters(e, 2, Heard) /\ 2 \notin drift')
      BY <2>5, <3>2
    <3>5. ASSUME NEW l \in Layers, ~Matters(e, l, Heard)
          PROVE  (l \in drift => l \in drift') /\ (l \notin drift' => layer'[l] = layer[l])
      BY <2>5, <2>6, <3>5
    <3>6. Follows(e)
      BY <3>1, <3>3, <3>4, <3>5 DEF Follows
    <3> QED
      BY <1>1, <2>1, <2>2, <3>6, LayersHanded
  <2> QED
    BY <2>7, <2>8
<1>6. ASSUME CircHandler PROVE LayersInv'
  BY <1>2, <1>6 DEF CircHandler
<1>7. ASSUME CircMinorHandler PROVE LayersInv'
  BY <1>2, <1>7 DEF CircMinorHandler
<1>8. ASSUME Unheard PROVE LayersInv'
  <2>1. /\ queue # <<>> /\ queue' = Tail(queue)
        /\ UNCHANGED <<others, opt, done, layer, full_vanguards>>
    BY <1>8 DEF Unheard, torVars, verifierVars
  <2>2. PICK e \in Events : e = queue[1] /\ Head(queue) = e
    BY <2>1, HandEffect
  <2>3. /\ drift \subseteq drift'
        /\ ~Listening(e.type)
        /\ e.type = "CONF_CHANGED" /\ e.fresh => e.layer \in drift'
    BY <1>8, <2>2 DEF Unheard
  <2>4. ASSUME NEW l, Matters(e, l, Heard) PROVE l \in drift'
    BY <2>3, <2>4 DEF Matters, IsConf, Heard
  <2>5. Follows(e)
    BY <2>1, <2>3, <2>4 DEF Follows, Layers
  <2> QED
    BY <2>1, <2>2, <2>5, LayersHanded
<1> QED
  BY <1>3, <1>4, <1>5, <1>6, <1>7, <1>8

LEMMA LayersStep == TypeOK /\ PostedInv /\ LayersInv /\ [Next]_vars => LayersInv'
<1> SUFFICES ASSUME TypeOK, PostedInv, LayersInv, [Next]_vars PROVE LayersInv'
  OBVIOUS
<1>1. ASSUME NEW path \in Path, NEW n \in 1..3 PROVE SubSeq(path, 1, n) \in MinorPaths
  BY DEF MinorPaths
<1>2. CASE UNCHANGED vars
  BY <1>2, LayersIdle DEF vars, torVars, verifierVars, TypeOK
<1>3. ASSUME NEW path \in MinorPaths, CircMinor(path) PROVE LayersInv'
  BY <1>3, LayersCirc
<1>4. ASSUME NEW path \in Path, NEW hops \in Hops, NEW purpose \in Purposes,
             CircBuilt(path, hops, purpose)
      PROVE  LayersInv'
  BY <1>4, LayersCirc
<1>5. ASSUME NEW r \in Relays,
             \/ LiteChanges(lite \union {r}, r, "GOOD_L2")
             \/ LiteChanges(lite \ {r}, r, "BAD_L2")
      PROVE  LayersInv'
  <2>1. lite \union {r} \in SUBSET Relays /\ lite \ {r} \in SUBSET Relays
    BY DEF TypeOK
  <2> QED
    BY <1>5, <2>1, LayersChange
<1>6. ASSUME NEW l \in Layers, NEW S \in LayerValues, SetConf(l, S) PROVE LayersInv'
  BY <1>6, LayersChange
<1>7. ASSUME Sighup PROVE LayersInv'
  BY <1>7, LayersChange
<1>8. ASSUME NEW R \in LayerValues, NEW told \in BOOLEAN, Newnym(R, told)
      PROVE  LayersInv'
  BY <1>8, LayersMain
<1>9. ASSUME NEW l \in Layers, AskLayer(l) PROVE LayersInv'
  BY <1>9, LayersMain
<1>10. ASSUME AskOrconns \/ AddListener PROVE LayersInv'
  BY <1>10, LayersMain
<1>11. ASSUME \/ OrconnHandler \/ GuardHandler \/ ConfChangedHandler
              \/ CircHandler \/ CircMinorHandler \/ Unheard
       PROVE  LayersInv'
  BY <1>11, LayersHandlers
<1>12. ASSUME NEW i \in ConnIds, ConnLaunched(i) \/ ConnConnected(i) \/ ConnEnded(i)
       PROVE  LayersInv'
  BY <1>12, LayersConn
<1> QED
  BY <1>1, <1>2, <1>3, <1>4, <1>5, <1>6, <1>7, <1>8, <1>9, <1>10, <1>11, <1>12 DEF Next

LEMMA LayersInit == Init => LayersInv
<1> SUFFICES ASSUME Init PROVE LayersInv
  OBVIOUS
<1>1. Len(queue) = 0 /\ done = 0 /\ "CONF_CHANGED" \in others
  BY DEF Init
<1>2. LastInv /\ LiteEventInv /\ JudgedInv /\ StemInv
  BY <1>1 DEF LastInv, LiteEventInv, JudgedInv, StemInv
<1>3. KnownInv /\ FullInv
  BY <1>1 DEF KnownInv, FullInv, ConfStep, Layers
<1> QED
  BY <1>2, <1>3 DEF LayersInv

\* The three invariants together.
Inv == TypeOK /\ PostedInv /\ CountsInv /\ LayersInv

THEOREM PathInvariant == Spec => []Inv
<1>1. Init => Inv
  BY TypeInit, CountsInit, LayersInit DEF Inv
<1>2. Inv /\ [Next]_vars => Inv'
  BY TypeStep, PostedStep, CountsStep, LayersStep DEF Inv
<1> QED
  BY <1>1, <1>2, PTL DEF Spec

\* When no event of a connection is waiting, the verifier counts for a guard the
\* connections that Tor has to it, but for what drift holds.
THEOREM ConnCountsKept == Spec => []ConnCountsExact
<1> QED
  BY PathInvariant, CountsGive, PTL DEF Inv

\* When no change of an option is waiting, the layers are those that Tor was
\* told, but for what drift holds.
THEOREM LayersKept == Spec => []LayersFollow
<1>1. Inv => LayersFollow
  <2> SUFFICES ASSUME Inv, Listening("CONF_CHANGED"), Queued("CONF_CHANGED") = {},
                      NEW l \in Layers \ drift
               PROVE  layer[l] = opt[l]
    BY DEF LayersFollow
  <2>1. done >= 8 /\ done \in Nat /\ queue \in Seq(Events)
    BY ListeningAt DEF Inv, TypeOK, Heard
  <2>2. End - 1 = Len(queue)
    BY <2>1, LenProperties DEF End
  <2>3. NoneBefore(queue, End, l, Heard)
    BY <2>1, <2>2 DEF Queued, NoneBefore, Matters, IsConf
  <2>4. done >= ConfStep(l)
    BY <2>1 DEF ConfStep, Layers
  <2> QED
    BY <2>3, <2>4 DEF Inv, LayersInv, KnownInv
<1> QED
  BY <1>1, PathInvariant, PTL

\* A circuit is warned of for what was wrong with it when Tor posted it, and
\* for nothing else.
THEOREM VerdictsExact == Spec => []VerdictExact
<1>1. Inv => VerdictExact
  <2> SUFFICES ASSUME Inv, queue # <<>>, drift = {}, num = Num,
                      Head(queue).type \in {"CIRC", "CIRC_MINOR"},
                      Listening(Head(queue).type), Head(queue).fresh
               PROVE  Warnings(Head(queue)) = Head(queue).wrong
    BY DEF VerdictExact
  <2>1. TypeOK /\ PostedInv /\ CountsInv /\ LayersInv /\ queue \in Seq(Events)
    BY DEF Inv, TypeOK
  <2>2. PICK e \in Events : e = queue[1] /\ Head(queue) = e
    BY <2>1, Shrunk
  <2>3. 1 \in 1..Len(queue) /\ IsCirc(e) /\ e.fresh
    BY <2>1, <2>2, Shrunk DEF IsCirc
  <2>4. EventOK(e, done) /\ done >= OrconnStep /\ done \in Nat
    <3>1. EventOK(e, done)
      BY <2>1, <2>2, <2>3 DEF PostedInv
    <3>2. done >= OrconnStep
      BY <2>3, <3>1 DEF EventOK, IsCirc
    <3> QED
      BY <2>1, <3>1, <3>2 DEF TypeOK
  <2>5. e.path \in Path \union MinorPaths /\ e.wrong \in Wrong
    BY <2>3, EventParts DEF IsCirc
  <2>6. 1 \in DOMAIN e.path /\ e.path[1] \in Guards
    BY <2>5, PathParts
  \* the guard
  <2>7. 1 \in e.wrong.strays <=> e.path[1] \notin DOMAIN layer1
    <3>1. CountOf(e.path[1])
      BY <2>1, <2>4, <2>6 DEF CountsInv, OrconnStep
    <3>2. 1 \in e.wrong.strays <=> ConnCount(e.path[1]) = 0
      BY <2>1, <2>2, <2>3, <3>1, TraceTail DEF CountOf
    <3> QED
      BY <2>1, <2>6, <3>2, CountTypes
  \* the layers
  <2>8. ASSUME NEW l \in Layers PROVE Judged(e, l, layer[l])
    <3>1. NoneBefore(queue, 1, l, Heard)
      BY DEF NoneBefore
    <3> QED
      BY <2>1, <2>2, <2>3, <3>1 DEF LayersInv, JudgedInv
  <2>9. full_vanguards
    BY <2>1, <2>4 DEF LayersInv, FullInv, ConfStep, OrconnStep
  <2> DEFINE strays == Strays(e.path, DOMAIN layer1, layer, Num)
  <2>10. strays = e.wrong.strays
    <3>1. strays \subseteq DOMAIN e.path /\ e.wrong.strays \subseteq DOMAIN e.path
          /\ strays \subseteq 1..3 /\ e.wrong.strays \subseteq 1..3
      BY <2>3, <2>4, <2>5 DEF EventOK, Strays, Wrong
    <3>2. 1 \in strays <=> 1 \in e.wrong.strays
      BY <2>6, <2>7 DEF Strays
    <3>3. ASSUME NEW l \in Layers PROVE l \in strays <=> l \in e.wrong.strays
      BY <2>8, <3>3 DEF Strays, Judged, Layers
    <3>4. \A k \in 1..3 : k = 1 \/ k \in Layers
      BY DEF Layers
    <3> HIDE DEF strays
    <3>5. ASSUME NEW k \in 1..3 PROVE k \in strays <=> k \in e.wrong.strays
      <4>1. CASE k = 1
        BY <3>2, <4>1
      <4>2. CASE k \in Layers
        BY <3>3, <4>2
      <4> QED
        BY <3>4, <4>1, <4>2
    <3> QED
      BY <3>1, <3>5
  <2> HIDE DEF strays
  <2>11. e.wrong = [strays |-> e.wrong.strays, widths |-> e.wrong.widths,
                    hops |-> e.wrong.hops]
    BY <2>5 DEF Wrong
  <2>12. CASE e.type = "CIRC"
    <3>1. Warnings(e) = [strays |-> strays, widths |-> WrongWidths(layer, Num),
                         hops |-> e.hops # RouteLen[e.purpose]]
      BY <2>9, <2>12 DEF Warnings, Built, strays
    <3>2. WrongWidths(layer, Num) = e.wrong.widths
      <4>1. e.wrong.widths \subseteq Layers
        BY <2>5 DEF Wrong
      <4>2. \A l \in Layers : l \in e.wrong.widths <=> Cardinality(layer[l]) # Num[l]
        BY <2>8, <2>12 DEF Judged
      <4> QED
        BY <4>1, <4>2 DEF WrongWidths
    <3>3. e.wrong.hops \in BOOLEAN /\ (e.wrong.hops <=> e.hops # RouteLen[e.purpose])
      BY <2>4, <2>5, <2>12 DEF EventOK, Wrong
    <3>4. e.wrong.hops = (e.hops # RouteLen[e.purpose])
      BY <3>3
    <3> QED
      BY <2>2, <2>10, <2>11, <3>1, <3>2, <3>4
  <2>13. CASE e.type # "CIRC"
    <3>1. Warnings(e) = [strays |-> strays, widths |-> {}, hops |-> FALSE]
      BY <2>13 DEF Warnings, Extended, strays
    <3>2. e.type = "CIRC_MINOR"
      BY <2>3, <2>13 DEF IsCirc
    <3>3. e.wrong.widths = {} /\ e.wrong.hops = FALSE
      BY <2>4, <2>5, <3>2 DEF EventOK, Wrong
    <3> QED
      BY <2>2, <2>10, <2>11, <3>1, <3>3
  <2> QED
    BY <2>12, <2>13
<1> QED
  BY <1>1, PathInvariant, PTL

-----------------------------------------------------------------------------
(* The layer of vanguards-lite.                                            *)

\* Events are posted: a relay was known before and none of them takes it, or
\* one of them gives it and no later one takes it.
LEMMA LitePosted ==
    ASSUME TypeOK, LiteInv, NEW s \in Seq(Events), queue' = queue \o s, layer' = layer,
           opt'[2] # {} => lite' = {},
           done' = Len(Steps) => \A r \in lite' :
             \/ done = Len(Steps) /\ r \in lite /\ \A i \in 1..Len(s) : ~Takes(s[i], r)
             \/ \E i \in 1..Len(s) :
                  Gives(s[i], r) /\ \A h \in i + 1..Len(s) : ~Takes(s[h], r)
    PROVE  LiteInv'
<1> DEFINE n == Len(queue)
           q1 == queue \o s
<1>0. queue \in Seq(Events)
  BY DEF TypeOK
<1>1. /\ n \in Nat /\ Len(s) \in Nat /\ Len(q1) = n + Len(s)
      /\ \A k \in 1..n : q1[k] = queue[k]
      /\ \A k \in 1..Len(s) : q1[n + k] = s[k]
  BY <1>0, Grown
<1> HIDE DEF n, q1
<1>2. ASSUME NEW m \in n + 1..Len(q1) PROVE m - n \in 1..Len(s) /\ q1[m] = s[m - n]
  <2>1. m - n \in 1..Len(s) /\ n + (m - n) = m
    BY <1>1
  <2> QED
    BY <1>1, <2>1
<1>3. ASSUME done' = Len(Steps), NEW r \in lite'
      PROVE  \E k \in 0..Len(q1) :
               /\ IF k = 0 THEN r \in layer[2] ELSE Gives(q1[k], r)
               /\ \A m \in k + 1..Len(q1) : ~Takes(q1[m], r)
  <2>1. CASE done = Len(Steps) /\ r \in lite /\ \A i \in 1..Len(s) : ~Takes(s[i], r)
    <3>1. PICK k \in 0..n : KnownFrom(k, r)
      BY <2>1 DEF LiteInv, n
    <3>2. ASSUME NEW m \in k + 1..Len(q1) PROVE ~Takes(q1[m], r)
      <4>1. CASE m <= n
        <5>1. m \in 1..n /\ m \in k + 1..n
          BY <1>1, <4>1
        <5> QED
          BY <1>1, <3>1, <5>1 DEF KnownFrom, n
      <4>2. CASE ~(m <= n)
        <5>1. m \in n + 1..Len(q1)
          BY <1>1, <4>2
        <5> QED
          BY <1>2, <2>1, <5>1
      <4> QED
        BY <4>1, <4>2
    <3>3. k \in 0..Len(q1) /\ (k # 0 => k \in 1..n)
      BY <1>1
    <3>4. IF k = 0 THEN r \in layer[2] ELSE Gives(q1[k], r)
      BY <1>1, <3>1, <3>3 DEF KnownFrom
    <3> QED
      BY <3>2, <3>3, <3>4
  <2>2. CASE \E i \in 1..Len(s) :
               Gives(s[i], r) /\ \A h \in i + 1..Len(s) : ~Takes(s[h], r)
    <3>1. PICK i \in 1..Len(s) :
            Gives(s[i], r) /\ \A h \in i + 1..Len(s) : ~Takes(s[h], r)
      BY <2>2
    <3>2. n + i \in 0..Len(q1) /\ n + i # 0 /\ q1[n + i] = s[i]
      BY <1>1
    <3>3. ASSUME NEW m \in (n + i) + 1..Len(q1) PROVE ~Takes(q1[m], r)
      <4>1. m \in n + 1..Len(q1) /\ m - n \in i + 1..Len(s)
        BY <1>1
      <4> QED
        BY <1>2, <3>1, <4>1
    <3> QED
      BY <3>1, <3>2, <3>3
  <2> QED
    BY <1>3, <2>1, <2>2
<1>4. queue' = q1
  BY DEF q1
<1> QED
  BY <1>3, <1>4 DEF LiteInv, KnownFrom

\* Nothing is posted that takes a relay.
LEMMA LiteIdle ==
    ASSUME TypeOK, LiteInv, NEW s \in Seq(Events), queue' = queue \o s, layer' = layer,
           done' = done \/ done' # Len(Steps),
           \A i \in 1..Len(s), r \in lite' : ~Takes(s[i], r), lite' \subseteq lite,
           opt'[2] # {} => lite' = {}
    PROVE  LiteInv'
BY LitePosted

LEMMA LiteNone ==
    ASSUME TypeOK, LiteInv, UNCHANGED <<queue, opt, lite>>,
           done' = done \/ done' # Len(Steps),
           done' # Len(Steps) \/ layer' = layer
    PROVE  LiteInv'
BY DEF LiteInv, KnownFrom

\* The steps of the main thread.
LEMMA LiteMain ==
    ASSUME TypeOK, LiteInv
    PROVE  /\ \A l \in Layers : AskLayer(l) => LiteInv'
           /\ AskOrconns => LiteInv'
           /\ AddListener => LiteInv'
           /\ \A R \in LayerValues, told \in BOOLEAN : Newnym(R, told) => LiteInv'
<1>0. done \in 0..Len(Steps) /\ Len(Steps) = 9
  BY DEF TypeOK, Steps
<1>1. ASSUME NEW l \in Layers, AskLayer(l) PROVE LiteInv'
  <2>1. done' # Len(Steps) /\ UNCHANGED <<queue, opt, lite>>
    BY <1>0, <1>1 DEF AskLayer, torVars, ConfStep, Layers
  <2> QED
    BY <2>1, LiteNone
<1>2. ASSUME AskOrconns PROVE LiteInv'
  <2>1. done' # Len(Steps) /\ UNCHANGED <<queue, opt, lite>>
    BY <1>0, <1>2 DEF AskOrconns, torVars, OrconnStep
  <2> QED
    BY <2>1, LiteNone
<1>3. ASSUME AddListener PROVE LiteInv'
  <2>1. done' # Len(Steps) /\ UNCHANGED <<queue, opt, lite>>
    BY <1>0, <1>3 DEF AddListener, torVars, OrconnStep
  <2> QED
    BY <2>1, LiteNone
<1>4. ASSUME NEW R \in LayerValues, NEW told \in BOOLEAN, Newnym(R, told)
      PROVE  LiteInv'
  <2> DEFINE r == Renewed(R, told)
             good == GuardEvent(R, "GOOD_L2")
  <2>1. r \in Seq(Events) /\ Len(r) <= 2
    BY RenewedTypes
  <2>2. /\ done = 8 /\ opt' = opt /\ layer' = layer
        /\ lite' = (IF opt[2] = {} THEN R ELSE lite)
    BY <1>0, <1>4 DEF Newnym, verifierVars
  <2>3. Subscribed("GUARD")
    BY <1>0, <2>2, ListeningAt DEF Subscribed
  <2>4. opt[2] = {} => Len(r) \in 1..2 /\ r[Len(r)] = good
    BY DEF Renewed
  <2>5. \A x \in R : Gives(good, x)
    BY DEF Gives, GuardEvent
  <2> HIDE DEF r, good
  <2>6. queue' = queue \o r
    BY <1>4, <2>1, <2>3, PostEffect DEF Newnym, Read, r
  <2>7. ASSUME NEW x \in lite'
        PROVE  \E i \in 1..Len(r) :
                 Gives(r[i], x) /\ \A h \in i + 1..Len(r) : ~Takes(r[h], x)
    <3>1. opt[2] = {} /\ x \in R
      BY <2>2, <2>7 DEF LiteInv
    <3>2. Len(r) \in 1..Len(r) /\ Gives(r[Len(r)], x)
          /\ \A h \in Len(r) + 1..Len(r) : FALSE
      BY <2>4, <2>5, <3>1
    <3> QED
      BY <3>2
  <2>8. opt'[2] # {} => lite' = {}
    BY <2>2 DEF LiteInv
  <2> QED
    BY <2>1, <2>2, <2>6, <2>7, <2>8, LitePosted
<1> QED
  BY <1>1, <1>2, <1>3, <1>4

\* One event that takes nothing.
LEMMA LitePostedOne ==
    ASSUME TypeOK, LiteInv, NEW e \in Events, Post(e),
           e.type \in {"ORCONN", "CIRC", "CIRC_MINOR"}, UNCHANGED <<opt, lite, layer, done>>
    PROVE  LiteInv'
<1>1. /\ Read(e.type, <<e>>) \in Seq(Events)
      /\ \A k \in 1..Len(Read(e.type, <<e>>)) : Read(e.type, <<e>>)[k] = e
      /\ queue' = queue \o Read(e.type, <<e>>)
  BY PostOne, ReadOne
<1>2. \A r : ~Takes(e, r)
  BY DEF Takes, IsConf
<1>3. lite' \subseteq lite /\ (opt'[2] # {} => lite' = {})
  BY DEF LiteInv
<1> QED
  BY <1>1, <1>2, <1>3, LiteIdle

\* The changes of Tor's layers.
LEMMA LiteChange ==
    ASSUME TypeOK, LiteInv
    PROVE  /\ \A l \in Layers, S \in LayerValues : SetConf(l, S) => LiteInv'
           /\ Sighup => LiteInv'
           /\ \A r \in Relays : LiteChanges(lite \union {r}, r, "GOOD_L2") => LiteInv'
           /\ \A r \in Relays : LiteChanges(lite \ {r}, r, "BAD_L2") => LiteInv'
<1>0. done \in 0..Len(Steps) /\ Len(Steps) = 9
  BY DEF TypeOK, Steps
<1>1. ASSUME NEW l \in Layers, NEW S \in LayerValues, SetConf(l, S) PROVE LiteInv'
  <2> DEFINE e == ConfEvent(l, S)
  <2>1. e \in Events /\ e.type = "CONF_CHANGED" /\ e.layer = l
    BY EventTypes DEF ConfEvent
  <2>2. /\ Post(e) /\ opt' = [opt EXCEPT ![l] = S] /\ UNCHANGED <<layer, done>>
        /\ lite' = (IF l = 2 THEN {} ELSE lite)
    BY <1>1 DEF SetConf, verifierVars
  <2> HIDE DEF e
  <2>3. /\ Read(e.type, <<e>>) \in Seq(Events)
        /\ \A k \in 1..Len(Read(e.type, <<e>>)) : Read(e.type, <<e>>)[k] = e
        /\ queue' = queue \o Read(e.type, <<e>>)
    BY <2>1, <2>2, PostOne, ReadOne
  <2>4. \A r \in lite' : ~Takes(e, r)
    BY <2>1, <2>2 DEF Takes, IsConf
  <2>5. lite' \subseteq lite /\ (opt'[2] # {} => lite' = {})
    BY <2>2 DEF LiteInv, TypeOK, Layers
  <2> QED
    BY <2>2, <2>3, <2>4, <2>5, LiteIdle
<1>2. ASSUME Sighup PROVE LiteInv'
  <2> DEFINE s == Unset(2) \o Unset(3)
             t == Read("CONF_CHANGED", s)
  <2>1. s \in Seq(Events) /\ Len(s) <= 2
    BY UnsetTypes
  <2>2. \A i \in 1..Len(s) : \A r \in lite : ~Takes(s[i], r)
    <3>1. ASSUME NEW l \in Layers
          PROVE  \A k \in 1..Len(Unset(l)) : \A r \in lite : ~Takes(Unset(l)[k], r)
      <4>1. l # 2 => \A r : ~Takes(ConfEvent(l, {}), r)
        BY DEF ConfEvent, Takes, IsConf
      <4>2. l = 2 => lite = {} \/ Unset(l) = <<>>
        BY DEF LiteInv, Unset
      <4> QED
        BY <4>1, <4>2 DEF Unset
    <3>2. Unset(2) \in Seq(Events) /\ Unset(3) \in Seq(Events)
      BY UnsetTypes DEF Layers
    <3>3. /\ Len(Unset(2)) \in Nat /\ Len(Unset(3)) \in Nat
          /\ Len(s) = Len(Unset(2)) + Len(Unset(3))
          /\ \A k \in 1..Len(Unset(2)) : s[k] = Unset(2)[k]
          /\ \A k \in 1..Len(Unset(3)) : s[Len(Unset(2)) + k] = Unset(3)[k]
      BY <3>2, Grown
    <3> HIDE DEF s
    <3>4. ASSUME NEW i \in 1..Len(s), NEW r \in lite PROVE ~Takes(s[i], r)
      <4>1. CASE i <= Len(Unset(2))
        <5>1. i \in 1..Len(Unset(2))
          BY <3>3, <4>1
        <5> QED
          BY <3>1, <3>3, <5>1 DEF Layers
      <4>2. CASE ~(i <= Len(Unset(2)))
        <5>1. i - Len(Unset(2)) \in 1..Len(Unset(3))
              /\ Len(Unset(2)) + (i - Len(Unset(2))) = i
          BY <3>3, <4>2
        <5>2. s[i] = Unset(3)[i - Len(Unset(2))]
          BY <3>3, <5>1
        <5> QED
          BY <3>1, <5>1, <5>2 DEF Layers
      <4> QED
        BY <4>1, <4>2
    <3> QED
      BY <3>4
  <2>3. PostAll("CONF_CHANGED", s) /\ opt'[2] = {} /\ UNCHANGED <<lite, layer, done>>
    BY <1>2 DEF Sighup, verifierVars, Layers
  <2> HIDE DEF s
  <2>4. t \in Seq(Events) /\ queue' = queue \o t
    BY <2>1, <2>3, PostEffect
  <2>5. \A i \in 1..Len(t) : \A r \in lite : ~Takes(t[i], r)
    BY <2>2 DEF Read
  <2> HIDE DEF t
  <2> QED
    BY <2>3, <2>4, <2>5, LiteIdle
<1>3. ASSUME NEW r \in Relays, NEW R, NEW status \in {"GOOD_L2", "BAD_L2"},
             LiteChanges(R, r, status),
             R = IF status = "GOOD_L2" THEN lite \union {r} ELSE lite \ {r}
      PROVE  LiteInv'
  <2> DEFINE e == GuardEvent({r}, status)
             s == Read(e.type, <<e>>)
  <2>1. e \in Events /\ e.type = "GUARD" /\ e.relays = {r} /\ e.status = status
    BY EventTypes DEF GuardEvent
  <2>2. Post(e) /\ opt[2] = {} /\ lite' = R /\ UNCHANGED <<opt, layer, done>>
    BY <1>3 DEF LiteChanges, verifierVars
  <2> HIDE DEF e
  <2>3. /\ s \in Seq(Events) /\ \A k \in 1..Len(s) : s[k] = e
        /\ Subscribed(e.type) => s = <<e>>
        /\ queue' = queue \o s
    BY <2>1, <2>2, PostOne, ReadOne
  <2> HIDE DEF s
  <2>4. \A x : (Takes(e, x) => x = r /\ status = "BAD_L2")
    BY <2>1 DEF Takes, IsConf
  <2>5. status = "GOOD_L2" => Gives(e, r)
    BY <2>1 DEF Gives
  <2>6. ASSUME done' = Len(Steps), NEW x \in lite'
        PROVE  \/ done = Len(Steps) /\ x \in lite /\ \A i \in 1..Len(s) : ~Takes(s[i], x)
               \/ \E i \in 1..Len(s) :
                    Gives(s[i], x) /\ \A h \in i + 1..Len(s) : ~Takes(s[h], x)
    <3>1. CASE x \in lite /\ ~Takes(e, x)
      BY <2>2, <2>3, <2>6, <3>1
    <3>2. CASE x = r /\ status = "GOOD_L2"
      <4>1. Subscribed(e.type)
        <5>1. Listening("GUARD")
          BY <1>0, <2>2, <2>6, ListeningAt
        <5> QED
          BY <2>1, <5>1 DEF Subscribed
      <4>2. Len(s) = 1 /\ s[1] = e
        BY <2>3, <4>1
      <4> QED
        BY <2>5, <3>2, <4>2
    <3> QED
      BY <1>3, <2>2, <2>4, <2>6, <3>1, <3>2
  <2> QED
    BY <2>2, <2>3, <2>6, LitePosted
<1> QED
  BY <1>1, <1>2, <1>3

\* The handlers.
LEMMA LiteHanded ==
    ASSUME TypeOK, LiteInv, queue # <<>>, queue' = Tail(queue), UNCHANGED <<opt, lite, done>>,
           done = Len(Steps) => \A r :
             Gives(queue[1], r) \/ (r \in layer[2] /\ ~Takes(queue[1], r)) => r \in layer'[2]
    PROVE  LiteInv'
<1> DEFINE t == Tail(queue)
           n == Len(t)
<1>1. n \in Nat /\ Len(queue) = n + 1 /\ \A k \in 1..n : t[k] = queue[k + 1]
  BY Shrunk DEF TypeOK
<1> HIDE DEF t, n
<1>2. ASSUME done = Len(Steps), NEW r \in lite
      PROVE  \E k \in 0..n : /\ IF k = 0 THEN r \in layer'[2] ELSE Gives(t[k], r)
                             /\ \A m \in k + 1..n : ~Takes(t[m], r)
  <2>1. PICK k \in 0..Len(queue) : KnownFrom(k, r)
    BY <1>2 DEF LiteInv
  <2>2. ASSUME NEW m \in 1..n, m >= k PROVE ~Takes(t[m], r)
    <3>1. m + 1 \in k + 1..Len(queue)
      BY <1>1, <2>2
    <3> QED
      BY <1>1, <2>1, <3>1 DEF KnownFrom
  <2>3. CASE k \in 0..1
    <3>1. Gives(queue[1], r) \/ (r \in layer[2] /\ ~Takes(queue[1], r))
      <4>1. 1 \in 0 + 1..Len(queue)
        BY <1>1
      <4>2. CASE k = 0
        BY <2>1, <4>1, <4>2 DEF KnownFrom
      <4>3. CASE k = 1
        BY <2>1, <4>3 DEF KnownFrom
      <4> QED
        BY <2>3, <4>2, <4>3
    <3>2. r \in layer'[2]
      BY <1>2, <3>1
    <3>3. \A m \in 0 + 1..n : m \in 1..n /\ m >= k
      BY <1>1, <2>3
    <3>4. 0 \in 0..n
      BY <1>1
    <3> QED
      BY <2>2, <3>2, <3>3, <3>4
  <2>4. CASE ~(k \in 0..1)
    <3>1. k - 1 \in 1..n /\ (k - 1) + 1 = k /\ k - 1 \in 0..n /\ k - 1 # 0 /\ k # 0
      BY <1>1, <2>4
    <3>2. Gives(t[k - 1], r)
      BY <1>1, <2>1, <3>1 DEF KnownFrom
    <3>3. \A m \in (k - 1) + 1..n : m \in 1..n /\ m >= k
      BY <1>1, <2>4
    <3> QED
      BY <2>2, <3>1, <3>2, <3>3
  <2> QED
    BY <2>3, <2>4
<1>3. queue' = t /\ Len(queue') = n
  BY DEF t, n
<1> QED
  BY <1>2, <1>3 DEF LiteInv, KnownFrom

LEMMA LiteHandlers ==
    ASSUME TypeOK, LiteInv
    PROVE  /\ OrconnHandler => LiteInv'
           /\ GuardHandler => LiteInv'
           /\ ConfChangedHandler => LiteInv'
           /\ CircHandler => LiteInv'
           /\ CircMinorHandler => LiteInv'
           /\ Unheard => LiteInv'
<1>1. ASSUME NEW type, Handle(type)
      PROVE  /\ queue # <<>> /\ queue' = Tail(queue) /\ Head(queue) = queue[1]
             /\ queue[1] \in Events /\ queue[1].type = type
             /\ UNCHANGED <<opt, lite, done>>
  <2>1. /\ queue # <<>> /\ queue' = Tail(queue) /\ Head(queue).type = type
        /\ UNCHANGED <<opt, lite, done>>
    BY <1>1 DEF Handle, torVars
  <2> QED
    BY <2>1, HandEffect
<1>2. ASSUME NEW type, type # "GUARD", Handle(type), layer' = layer PROVE LiteInv'
  <2>1. \A r : ~Gives(queue[1], r)
    BY <1>1, <1>2 DEF Gives
  <2> QED
    BY <1>1, <1>2, <2>1, LiteHanded
<1>3. ASSUME OrconnHandler PROVE LiteInv'
  BY <1>2, <1>3 DEF OrconnHandler
<1>4. ASSUME GuardHandler PROVE LiteInv'
  <2>1. Handle("GUARD")
    BY <1>4 DEF GuardHandler
  <2>2. PICK e \in Events : e = queue[1]
    BY <1>1, <2>1
  <2>3. /\ e.type = "GUARD"
        /\ layer'[2] = (IF e.status = "GOOD_L2" THEN layer[2] \union e.relays
                        ELSE layer[2] \ e.relays)
    BY <1>1, <1>4, <2>1, <2>2 DEF GuardHandler, TypeOK, Layers
  <2>4. e.status \in {"GOOD_L2", "BAD_L2"}
    BY <2>3, EventParts
  <2>5. \A r : Gives(e, r) \/ (r \in layer[2] /\ ~Takes(e, r)) => r \in layer'[2]
    BY <2>3, <2>4 DEF Gives, Takes
  <2> QED
    BY <1>1, <2>1, <2>2, <2>5, LiteHanded
<1>5. ASSUME ConfChangedHandler PROVE LiteInv'
  <2>1. Handle("CONF_CHANGED")
    BY <1>5 DEF ConfChangedHandler
  <2>2. PICK e \in Events : e = queue[1]
    BY <1>1, <2>1
  <2>3. /\ e.type = "CONF_CHANGED"
        /\ layer' = layer \/ \E S : layer' = [layer EXCEPT ![e.layer] = S]
    BY <1>1, <1>5, <2>1, <2>2 DEF ConfChangedHandler
  <2>4. \A r : ~Gives(e, r) /\ (~Takes(e, r) => layer'[2] = layer[2])
    BY <2>3 DEF Gives, Takes, IsConf, TypeOK, Layers
  <2> QED
    BY <1>1, <2>1, <2>2, <2>4, LiteHanded
<1>6. ASSUME CircHandler PROVE LiteInv'
  BY <1>2, <1>6 DEF CircHandler
<1>7. ASSUME CircMinorHandler PROVE LiteInv'
  BY <1>2, <1>7 DEF CircMinorHandler
<1>8. ASSUME Unheard PROVE LiteInv'
  <2>1. /\ queue # <<>> /\ queue' = Tail(queue) /\ ~Listening(Head(queue).type)
        /\ UNCHANGED <<opt, lite, done>>
    BY <1>8 DEF Unheard, torVars
  <2>2. Head(queue).type \in {"ORCONN", "GUARD", "CONF_CHANGED", "CIRC", "CIRC_MINOR"}
    BY <2>1, HandEffect, EventParts
  <2>3. done # Len(Steps)
    <3>1. SUFFICES ASSUME done = Len(Steps) PROVE FALSE
      OBVIOUS
    <3>2. Listening("CIRC") /\ Listening("CIRC_MINOR") /\ Listening("ORCONN")
          /\ Listening("GUARD") /\ Listening("CONF_CHANGED")
      <4>1. done \in 0..Len(Steps) /\ done = 9
        BY <3>1, ListeningAt DEF TypeOK
      <4> QED
        BY <4>1, ListeningAt DEF Heard
    <3> QED
      BY <2>1, <2>2, <3>2
  <2> QED
    BY <2>1, <2>3, LiteHanded
<1> QED
  BY <1>3, <1>4, <1>5, <1>6, <1>7, <1>8

LEMMA LiteStep == TypeOK /\ LiteInv /\ [Next]_vars => LiteInv'
<1> SUFFICES ASSUME TypeOK, LiteInv, [Next]_vars PROVE LiteInv'
  OBVIOUS
<1>1. ASSUME NEW path \in Path, NEW n \in 1..3 PROVE SubSeq(path, 1, n) \in MinorPaths
  BY DEF MinorPaths
<1>2. CASE UNCHANGED vars
  BY <1>2, LiteNone DEF vars, torVars, verifierVars
<1>3. ASSUME NEW path \in MinorPaths, CircMinor(path) PROVE LiteInv'
  <2>1. MinorEvent(path) \in Events /\ MinorEvent(path).type = "CIRC_MINOR"
    BY CircEventTypes DEF MinorEvent
  <2> QED
    BY <1>3, <2>1, LitePostedOne DEF CircMinor, MinorEvent, verifierVars
<1>4. ASSUME NEW path \in Path, NEW hops \in Hops, NEW purpose \in Purposes,
             CircBuilt(path, hops, purpose)
      PROVE  LiteInv'
  <2>1. BuiltEvent(path, hops, purpose) \in Events
        /\ BuiltEvent(path, hops, purpose).type = "CIRC"
    BY CircEventTypes DEF BuiltEvent
  <2>2. Post(BuiltEvent(path, hops, purpose)) /\ UNCHANGED <<opt, lite, layer, done>>
    BY <1>4 DEF CircBuilt, BuiltEvent, verifierVars
  <2> QED
    BY <2>1, <2>2, LitePostedOne
<1>5. ASSUME NEW r \in Relays,
             \/ LiteChanges(lite \union {r}, r, "GOOD_L2")
             \/ LiteChanges(lite \ {r}, r, "BAD_L2")
      PROVE  LiteInv'
  BY <1>5, LiteChange
<1>6. ASSUME NEW l \in Layers, NEW S \in LayerValues, SetConf(l, S) PROVE LiteInv'
  BY <1>6, LiteChange
<1>7. ASSUME Sighup PROVE LiteInv'
  BY <1>7, LiteChange
<1>8. ASSUME NEW R \in LayerValues, NEW told \in BOOLEAN, Newnym(R, told)
      PROVE  LiteInv'
  BY <1>8, LiteMain
<1>9. ASSUME NEW l \in Layers, AskLayer(l) PROVE LiteInv'
  BY <1>9, LiteMain
<1>10. ASSUME AskOrconns \/ AddListener PROVE LiteInv'
  BY <1>10, LiteMain
<1>11. ASSUME \/ OrconnHandler \/ GuardHandler \/ ConfChangedHandler
              \/ CircHandler \/ CircMinorHandler \/ Unheard
       PROVE  LiteInv'
  BY <1>11, LiteHandlers
<1>12. ASSUME NEW i \in ConnIds, ConnLaunched(i) \/ ConnConnected(i) \/ ConnEnded(i)
       PROVE  LiteInv'
  <2>1. ASSUME NEW status \in {"CONNECTED", "CLOSED"}, PostOrconn(i, status),
               UNCHANGED <<opt, lite, layer, done>>
        PROVE  LiteInv'
    <3>1. OrconnEvent(i, status) \in Events /\ OrconnEvent(i, status).type = "ORCONN"
      BY EventTypes DEF OrconnEvent
    <3> QED
      BY <2>1, <3>1, LitePostedOne DEF PostOrconn
  <2>2. CASE ConnLaunched(i)
    BY <2>2, LiteNone DEF ConnLaunched, verifierVars
  <2>3. CASE ConnConnected(i)
    BY <2>1, <2>3 DEF ConnConnected, verifierVars
  <2>4. CASE ConnEnded(i)
    BY <2>1, <2>4 DEF ConnEnded, verifierVars
  <2> QED
    BY <1>12, <2>2, <2>3, <2>4
<1> QED
  BY <1>1, <1>2, <1>3, <1>4, <1>5, <1>6, <1>7, <1>8, <1>9, <1>10, <1>11, <1>12 DEF Next

\* After the NEWNYM, with nothing waiting, the verifier knows the layer of
\* vanguards-lite.
THEOREM LiteStaysKnown == Spec => []LiteKnown
<1>1. Init => LiteInv
  BY DEF Init, LiteInv, Steps
<1>2. LiteInv => LiteKnown
  <2> SUFFICES ASSUME LiteInv, done = Len(Steps), queue = <<>>, NEW r \in lite
               PROVE  r \in layer[2]
    BY DEF LiteKnown
  <2>1. PICK k \in 0..Len(queue) : KnownFrom(k, r)
    BY DEF LiteInv
  <2> QED
    BY <2>1 DEF KnownFrom
<1> QED
  BY <1>1, <1>2, LiteStep, PathTypes, PTL DEF Spec
=============================================================================
