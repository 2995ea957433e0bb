--------------------------- MODULE Bridge_proofs ----------------------------
(***************************************************************************)
(* The way of a packet through the bridge (PacketPath) and the table that  *)
(* decides it (ForwardingTable).                                           *)
(***************************************************************************)
EXTENDS PacketPath, ForwardingTable, FiniteSetTheorems, SequenceTheorems,
        WellFoundedInduction, TLAPS

(***************************************************************************)
(* For every number of buffers and every length of the queues and rings:   *)
(* the tasks implement the abstract pool, so that no buffer is lost or has *)
(* two holders, and no frame goes back to where it came from.              *)
(*                                                                         *)
(* The invariant gives each buffer one place.  A step moves one buffer     *)
(* from one place to another, or two, and each move is a step of the pool. *)
(***************************************************************************)
Spot == {"free", "ring", "sent", "sockets", "rx_desc", "txQueue", "txRing", "events",
         "emac", "spi", "ip", "user"}

At == [p \in Spot |->
    IF p = "free" THEN free ELSE
    IF p = "ring" THEN ring ELSE
    IF p = "sent" THEN sent ELSE
    IF p = "sockets" THEN sockets ELSE
    IF p = "rx_desc" THEN {rx_desc} \ {None} ELSE
    IF p = "txQueue" THEN InSeq(txQueue) ELSE
    IF p = "txRing" THEN InSeq(txRing) ELSE
    IF p = "events" THEN InEvents ELSE InJob(p)]

Disjoint == \A p, q \in Spot : \A b \in At[p] : b \in At[q] => p = q

Events == [type : {"rx", "stacktx"}, buffer : Buffer] \cup {NetworkDown}

Steps == {"idle", "copy", "copied", "output", "drop", "down", "rx", "stacktx", "sendto"}
Jobs == [step : Steps, buffer : Buffer \cup {None}, copy : Buffer \cup {None},
         sendTo : Interface \cup {None}, copyTo : Interface \cup {None}]

PathType ==
    /\ free \subseteq Buffer /\ ring \subseteq Buffer /\ sent \subseteq Buffer /\ sockets \subseteq Buffer
    /\ rx_desc \in Buffer \cup {None}
    /\ pxInterface \in [Buffer -> Interface \cup {None}]
    /\ from \in [Buffer -> Interface \cup {None}]
    /\ txQueue \in Seq(Buffer) /\ txRing \in Seq(Buffer)
    /\ xNetworkEventQueue \in Seq(Events)
    /\ job \in [Task -> Jobs]

OneToOne(s) == \A i, j \in DOMAIN s : s[i] = s[j] => i = j
EventsOnce(q) == \A i, j \in DOMAIN q : q[i].buffer = q[j].buffer /\ q[i] # NetworkDown => i = j

\* What a task's job has in hand.
JobHolds(j) ==
    /\ j.buffer = None <=> j.step \in {"idle", "down"}
    /\ j.copy # None => j.step = "copied" /\ j.copy # j.buffer
    /\ j.step = "copied" => j.copy # None

HoldingInv ==
    /\ OneToOne(txQueue) /\ OneToOne(txRing) /\ EventsOnce(xNetworkEventQueue)
    /\ \A t \in Task : JobHolds(job[t])

\* A frame that is to be output goes elsewhere than where it came from; one that
\* the device sends has no interface until the bridge has it.
JobFits(j) ==
    /\ j.step \in {"stacktx", "sendto"} => pxInterface[j.buffer] = None
    /\ j.step \in {"copy", "copied", "output"} =>
        \/ /\ j.step = "output" /\ j.sendTo = "bridge"
           /\ from[j.buffer] = "bridge" /\ pxInterface[j.buffer] = None
        \/ /\ pxInterface[j.buffer] # None /\ j.sendTo # from[j.buffer]
           /\ j.step # "output" => j.copyTo # from[j.buffer]
    /\ j.step = "copied" => from[j.copy] = from[j.buffer] /\ pxInterface[j.copy] # None

OriginInv ==
    /\ \A b \in free \cup sockets : pxInterface[b] = None
    /\ \A e \in InSeq(xNetworkEventQueue) : e.type = "stacktx" => pxInterface[e.buffer] = None
    /\ \A t \in Task : JobFits(job[t])

IInv == PathType /\ Disjoint /\ HoldingInv /\ OriginInv /\ NeverSentBack

-----------------------------------------------------------------------------
(***************************************************************************)
(* The queues.                                                             *)
(***************************************************************************)
LEMMA AppendToQueue ==
    ASSUME NEW S, NEW s \in Seq(S), NEW e \in S
    PROVE  /\ Append(s, e) \in Seq(S)
           /\ InSeq(Append(s, e)) = InSeq(s) \cup {e}
           /\ OneToOne(s) /\ e \notin InSeq(s) => OneToOne(Append(s, e))
<1> DEFINE a == Append(s, e)
<1>1. a \in Seq(S) /\ Len(a) = Len(s) + 1
  BY AppendProperties
<1>2. Len(s) \in Nat /\ DOMAIN s = 1 .. Len(s) /\ DOMAIN a = 1 .. Len(s) + 1
  BY <1>1, LenProperties
<1>3. \A i \in 1 .. Len(s) + 1 : a[i] = IF i = Len(s) + 1 THEN e ELSE s[i]
  BY <1>2, AppendProperties
<1> HIDE DEF a
<1>4. InSeq(a) = InSeq(s) \cup {e}
  BY <1>2, <1>3 DEF InSeq
<1>5. OneToOne(s) /\ e \notin InSeq(s) => OneToOne(a)
  <2>1. SUFFICES ASSUME OneToOne(s), e \notin InSeq(s),
                        NEW i \in 1 .. Len(s) + 1, NEW j \in 1 .. Len(s) + 1, a[i] = a[j]
                 PROVE  i = j
    BY <1>2 DEF OneToOne
  <2>2. \A k \in 1 .. Len(s) : s[k] # e
    BY <1>2, <2>1 DEF InSeq
  <2>3. \A k, l \in 1 .. Len(s) : s[k] = s[l] => k = l
    BY <1>2, <2>1 DEF OneToOne
  <2> QED
    BY <1>2, <1>3, <2>1, <2>2, <2>3
<1> QED
  BY <1>1, <1>4, <1>5 DEF a

LEMMA TailOfQueue ==
    ASSUME NEW S, NEW s \in Seq(S), s # <<>>
    PROVE  /\ Head(s) \in S /\ Head(s) \in InSeq(s) /\ Tail(s) \in Seq(S)
           /\ InSeq(Tail(s)) \cup {Head(s)} = InSeq(s)
           /\ 1 \in DOMAIN s /\ Head(s) = s[1]
           /\ \A i \in DOMAIN Tail(s) : i + 1 \in DOMAIN s /\ Tail(s)[i] = s[i + 1]
           /\ DOMAIN Tail(s) \subseteq Nat \ {0}
<1>1. /\ Head(s) \in S /\ Tail(s) \in Seq(S) /\ Len(Tail(s)) = Len(s) - 1
      /\ \A i \in 1 .. Len(Tail(s)) : Tail(s)[i] = s[i + 1]
  BY HeadTailProperties
<1>2. /\ Len(s) \in Nat \ {0} /\ DOMAIN s = 1 .. Len(s)
      /\ DOMAIN Tail(s) = 1 .. Len(s) - 1
  BY <1>1, EmptySeq, LenProperties
<1>3. Head(s) = s[1]
  OBVIOUS
<1>4. \A i \in DOMAIN Tail(s) : i + 1 \in DOMAIN s /\ Tail(s)[i] = s[i + 1]
  BY <1>1, <1>2
<1>5. \A i \in DOMAIN s : i = 1 \/ (i - 1 \in DOMAIN Tail(s) /\ Tail(s)[i - 1] = s[i])
  BY <1>1, <1>2
<1>6. 1 \in DOMAIN s /\ DOMAIN Tail(s) \subseteq Nat \ {0}
  BY <1>2
<1>7. InSeq(Tail(s)) \subseteq InSeq(s)
  BY <1>4 DEF InSeq
<1>8. InSeq(s) \subseteq InSeq(Tail(s)) \cup {s[1]}
  BY <1>5 DEF InSeq
<1>9. s[1] \in InSeq(s)
  BY <1>6 DEF InSeq
<1> QED
  BY <1>1, <1>3, <1>4, <1>6, <1>7, <1>8, <1>9

LEMMA TailIsOneToOne ==
    ASSUME NEW S, NEW s \in Seq(S), s # <<>>, OneToOne(s)
    PROVE  OneToOne(Tail(s)) /\ InSeq(Tail(s)) = InSeq(s) \ {Head(s)}
<1>1. /\ 1 \in DOMAIN s /\ Head(s) = s[1] /\ DOMAIN Tail(s) \subseteq Nat \ {0}
      /\ \A i \in DOMAIN Tail(s) : i + 1 \in DOMAIN s /\ Tail(s)[i] = s[i + 1]
      /\ InSeq(Tail(s)) \cup {Head(s)} = InSeq(s)
  BY TailOfQueue
<1>2. ASSUME NEW i \in DOMAIN Tail(s), NEW j \in DOMAIN Tail(s), Tail(s)[i] = Tail(s)[j]
      PROVE  i = j
  <2>1. i + 1 = j + 1
    BY <1>1, <1>2 DEF OneToOne
  <2> QED
    BY <1>1, <2>1
<1>3. ASSUME NEW i \in DOMAIN Tail(s)
      PROVE  Tail(s)[i] # s[1]
  <2>1. i \in Nat \ {0} /\ i + 1 # 1
    BY <1>1
  <2> QED
    BY <1>1, <2>1 DEF OneToOne
<1>4. Head(s) \notin InSeq(Tail(s))
  BY <1>1, <1>3 DEF InSeq
<1> QED
  BY <1>1, <1>2, <1>4 DEF OneToOne

(***************************************************************************)
(* A queue for as many buffers as there are has room for one it does not   *)
(* hold.                                                                   *)
(***************************************************************************)
LEMMA RoomForOne ==
    ASSUME NEW s \in Seq(Buffer), OneToOne(s), NEW b \in Buffer \ InSeq(s)
    PROVE  Len(s) < QueueLength
<1> DEFINE a == Append(s, b)
<1>1. a \in Seq(Buffer) /\ OneToOne(a) /\ Len(a) = Len(s) + 1 /\ Len(s) \in Nat
  BY AppendToQueue, AppendProperties, LenProperties
<1>2. a \in [1 .. Len(a) -> Buffer] /\ Len(a) \in Nat /\ DOMAIN a = 1 .. Len(a)
  BY <1>1, LenProperties
<1> HIDE DEF a
<1>3. a \in Injection(1 .. Len(a), Buffer)
  BY <1>1, <1>2 DEF Injection, IsInjective, OneToOne
<1>4. Cardinality(1 .. Len(a)) = Len(a)
  <2>1. 1 \in Int /\ Len(a) \in Int /\ Len(a) >= 1
    BY <1>1, <1>2
  <2>2. Cardinality(1 .. Len(a)) = IF 1 > Len(a) THEN 0 ELSE Len(a) - 1 + 1
    BY <2>1, FS_Interval
  <2> QED
    BY <2>1, <2>2
<1>5. IsFiniteSet(Buffer)
  BY PathAssumption
<1>6. Cardinality(1 .. Len(a)) <= Cardinality(Buffer)
  BY <1>3, <1>5, FS_Injection
<1>7. Cardinality(Buffer) \in Nat
  BY <1>5, FS_CardinalityType
<1> QED
  BY <1>1, <1>4, <1>6, <1>7, PathAssumption

(***************************************************************************)
(* The event queue.                                                        *)
(***************************************************************************)
Carried(q) == {e.buffer : e \in InSeq(q)} \ {None}

LEMMA EventTypes ==
    /\ \A b \in Buffer : Rx(b) \in Events /\ Rx(b).buffer = b /\ Rx(b).type = "rx" /\ Rx(b) # NetworkDown
    /\ \A b \in Buffer : StackTx(b) \in Events /\ StackTx(b).buffer = b
                         /\ StackTx(b).type = "stacktx" /\ StackTx(b) # NetworkDown
    /\ NetworkDown \in Events /\ NetworkDown.buffer = None /\ NetworkDown.type = "down"
    /\ \A e \in Events : e # NetworkDown => e.buffer \in Buffer /\ e.type \in {"rx", "stacktx"}
    /\ None \notin Buffer
BY PathAssumption DEF Events, Rx, StackTx, NetworkDown

LEMMA PostEvent ==
    ASSUME NEW q \in Seq(Events), EventsOnce(q), NEW e \in Events, e.buffer \notin Carried(q)
    PROVE  /\ Append(q, e) \in Seq(Events) /\ EventsOnce(Append(q, e))
           /\ InSeq(Append(q, e)) = InSeq(q) \cup {e}
           /\ Carried(Append(q, e)) = Carried(q) \cup ({e.buffer} \ {None})
<1> DEFINE a == Append(q, e)
<1>1. a \in Seq(Events) /\ Len(a) = Len(q) + 1 /\ InSeq(a) = InSeq(q) \cup {e}
  BY AppendProperties, AppendToQueue
<1>2. Len(q) \in Nat /\ DOMAIN q = 1 .. Len(q) /\ DOMAIN a = 1 .. Len(q) + 1
  BY <1>1, LenProperties
<1>3. \A i \in 1 .. Len(q) + 1 : a[i] = IF i = Len(q) + 1 THEN e ELSE q[i]
  BY <1>2, AppendProperties
<1> HIDE DEF a
<1>4. Carried(a) = Carried(q) \cup ({e.buffer} \ {None})
  BY <1>1 DEF Carried
<1>5. EventsOnce(a)
  <2>1. SUFFICES ASSUME NEW i \in 1 .. Len(q) + 1, NEW j \in 1 .. Len(q) + 1,
                        a[i].buffer = a[j].buffer, a[i] # NetworkDown
                 PROVE  i = j
    BY <1>2 DEF EventsOnce
  <2>2. \A k \in 1 .. Len(q) : q[k] \in Events /\ q[k] \in InSeq(q)
    BY <1>2, ElementOfSeq DEF InSeq
  <2>3. a[i] \in Events /\ a[i].buffer \in Buffer /\ a[i].buffer # None
    BY <1>3, <2>1, <2>2, EventTypes
  <2>4. \A k \in 1 .. Len(q) : q[k].buffer # None => q[k].buffer # e.buffer
    BY <2>2 DEF Carried
  <2>5. \A k, l \in 1 .. Len(q) : q[k].buffer = q[l].buffer /\ q[k] # NetworkDown => k = l
    BY <1>2 DEF EventsOnce
  <2> QED
    BY <1>2, <1>3, <2>1, <2>3, <2>4, <2>5
<1> QED
  BY <1>1, <1>4, <1>5 DEF a

LEMMA NextEvent ==
    ASSUME NEW q \in Seq(Events), EventsOnce(q), q # <<>>
    PROVE  /\ Head(q) \in Events /\ Head(q) \in InSeq(q)
           /\ Tail(q) \in Seq(Events) /\ EventsOnce(Tail(q))
           /\ InSeq(Tail(q)) \subseteq InSeq(q)
           /\ Carried(Tail(q)) = Carried(q) \ {Head(q).buffer}
           /\ Head(q) # NetworkDown => Head(q).buffer \in Carried(q)
<1>1. /\ Head(q) \in Events /\ Head(q) \in InSeq(q) /\ Tail(q) \in Seq(Events)
      /\ InSeq(Tail(q)) \cup {Head(q)} = InSeq(q)
      /\ 1 \in DOMAIN q /\ Head(q) = q[1] /\ DOMAIN Tail(q) \subseteq Nat \ {0}
      /\ \A i \in DOMAIN Tail(q) : i + 1 \in DOMAIN q /\ Tail(q)[i] = q[i + 1]
  BY TailOfQueue
<1>2. ASSUME NEW i \in DOMAIN Tail(q), NEW j \in DOMAIN Tail(q),
             Tail(q)[i].buffer = Tail(q)[j].buffer, Tail(q)[i] # NetworkDown
      PROVE  i = j
  <2>1. i + 1 = j + 1
    BY <1>1, <1>2 DEF EventsOnce
  <2> QED
    BY <1>1, <2>1
<1>3. ASSUME NEW i \in DOMAIN Tail(q), Head(q) # NetworkDown
      PROVE  Tail(q)[i].buffer # Head(q).buffer
  <2>1. i \in Nat \ {0} /\ i + 1 # 1 /\ i + 1 \in DOMAIN q /\ Tail(q)[i] = q[i + 1]
    BY <1>1
  <2> QED
    BY <1>1, <1>3, <2>1 DEF EventsOnce
<1>4. Head(q) # NetworkDown => \A e \in InSeq(Tail(q)) : e.buffer # Head(q).buffer
  BY <1>3 DEF InSeq
<1>5. Carried(Tail(q)) = Carried(q) \ {Head(q).buffer}
  BY <1>1, <1>4, EventTypes DEF Carried
<1>6. Head(q) # NetworkDown => Head(q).buffer \in Carried(q)
  BY <1>1, EventTypes DEF Carried
<1> QED
  BY <1>1, <1>2, <1>5, <1>6 DEF EventsOnce

-----------------------------------------------------------------------------
(***************************************************************************)
(* A buffer that moves from one place to another.                          *)
(***************************************************************************)
Moves(b, p, q) ==
    /\ b \in At[p] /\ p # q
    /\ \A s \in Spot : At'[s] = IF s = p THEN At[s] \ {b}
                                ELSE IF s = q THEN At[s] \cup {b} ELSE At[s]

Stays == \A s \in Spot : At'[s] = At[s]

LEMMA AtIs ==
    /\ At["free"] = free /\ At["ring"] = ring /\ At["sent"] = sent /\ At["sockets"] = sockets
    /\ At["rx_desc"] = {rx_desc} \ {None}
    /\ At["txQueue"] = InSeq(txQueue) /\ At["txRing"] = InSeq(txRing)
    /\ At["events"] = Carried(xNetworkEventQueue)
    /\ \A t \in Task : At[t] = InJob(t) /\ t \in Spot
BY DEF At, Spot, Task, InEvents, Carried

LEMMA AtIsNext ==
    /\ At'["free"] = free' /\ At'["ring"] = ring' /\ At'["sent"] = sent' /\ At'["sockets"] = sockets'
    /\ At'["rx_desc"] = {rx_desc'} \ {None}
    /\ At'["txQueue"] = InSeq(txQueue') /\ At'["txRing"] = InSeq(txRing')
    /\ At'["events"] = Carried(xNetworkEventQueue')
    /\ \A t \in Task : At'[t] = InJob(t)'
BY DEF At, Spot, Task, InEvents, Carried

LEMMA MoveIsDisjoint ==
    ASSUME Disjoint, NEW p \in Spot, NEW q \in Spot, NEW b, Moves(b, p, q)
    PROVE  Disjoint'
BY DEF Disjoint, Moves

LEMMA StayIsDisjoint ==
    ASSUME Disjoint, Stays
    PROVE  Disjoint'
BY DEF Disjoint, Stays

-----------------------------------------------------------------------------
(***************************************************************************)
(* A move is a step of the abstract pool.                                  *)
(***************************************************************************)
\* Whose a place is.
Owner(p) == IF p = "ring" THEN "emac" ELSE IF p = "rx_desc" THEN "spi"
            ELSE IF p = "sent" THEN "txRing" ELSE p

LEMMA HeldIs ==
    /\ Held = [h \in Holder |-> Held[h]]
    /\ \A h \in Holder : \A b : b \in Held[h] <=> \E p \in Spot \ {"free"} : Owner(p) = h /\ b \in At[p]
<1>1. Held = [h \in Holder |-> Held[h]]
  BY DEF Held, Holder, Task
<1>2. /\ Held["emac"] = At["ring"] \cup At["emac"] /\ Held["spi"] = At["rx_desc"] \cup At["spi"]
      /\ Held["ip"] = At["ip"] /\ Held["user"] = At["user"] /\ Held["sockets"] = At["sockets"]
      /\ Held["txQueue"] = At["txQueue"] /\ Held["txRing"] = At["txRing"] \cup At["sent"]
      /\ Held["events"] = At["events"]
  BY AtIs DEF Held, Task, InEvents, Carried
<1>3. ASSUME NEW h \in Holder, NEW b
      PROVE  b \in Held[h] <=> \E p \in Spot \ {"free"} : Owner(p) = h /\ b \in At[p]
  BY <1>2 DEF Owner, Spot, Holder, Task
<1> QED
  BY <1>1, <1>3

LEMMA HeldIsNext ==
    /\ Held' = [h \in Holder |-> Held'[h]]
    /\ \A h \in Holder : \A b : b \in Held'[h] <=> \E p \in Spot \ {"free"} : Owner(p) = h /\ b \in At'[p]
<1>1. Held' = [h \in Holder |-> Held'[h]]
  BY DEF Held, Holder, Task
<1>2. /\ Held'["emac"] = At'["ring"] \cup At'["emac"] /\ Held'["spi"] = At'["rx_desc"] \cup At'["spi"]
      /\ Held'["ip"] = At'["ip"] /\ Held'["user"] = At'["user"] /\ Held'["sockets"] = At'["sockets"]
      /\ Held'["txQueue"] = At'["txQueue"] /\ Held'["txRing"] = At'["txRing"] \cup At'["sent"]
      /\ Held'["events"] = At'["events"]
  BY AtIsNext DEF Held, Task, InEvents, Carried
<1>3. ASSUME NEW h \in Holder, NEW b
      PROVE  b \in Held'[h] <=> \E p \in Spot \ {"free"} : Owner(p) = h /\ b \in At'[p]
  BY <1>2 DEF Owner, Spot, Holder, Task
<1> QED
  BY <1>1, <1>3

LEMMA OwnersHold == \A p \in Spot \ {"free"} : Owner(p) \in Holder
BY DEF Owner, Spot, Holder, Task

LEMMA GetRefines ==
    ASSUME Disjoint, NEW q \in Spot \ {"free"}, NEW b \in Buffer, Moves(b, "free", q)
    PROVE  Pool!Next
<1> DEFINE h == Owner(q)
<1>1. h \in Holder
  BY OwnersHold
<1>2. b \in free /\ free' = free \ {b}
  BY AtIs, AtIsNext DEF Moves, Spot
<1>3. \A g \in Holder : Held'[g] = IF g = h THEN Held[g] \cup {b} ELSE Held[g]
  <2>1. SUFFICES ASSUME NEW g \in Holder, NEW c
                 PROVE  c \in Held'[g] <=> c \in IF g = h THEN Held[g] \cup {b} ELSE Held[g]
    OBVIOUS
  <2>2. c \in Held[g] <=> \E s \in Spot \ {"free"} : Owner(s) = g /\ c \in At[s]
    BY HeldIs
  <2>3. c \in Held'[g] <=> \E s \in Spot \ {"free"} : Owner(s) = g /\ c \in At'[s]
    BY HeldIsNext
  <2>4. \A s \in Spot \ {"free"} : c \in At'[s] <=> c \in At[s] \/ (s = q /\ c = b)
    BY DEF Moves
  <2> QED
    BY <2>2, <2>3, <2>4
<1>4. Held' = [Held EXCEPT ![h] = @ \cup {b}]
  BY <1>1, <1>3, HeldIs, HeldIsNext
<1>5. Pool!Get(h, b)
  BY <1>2, <1>4 DEF Pool!Get
<1> QED
  BY <1>1, <1>5 DEF Pool!Next

LEMMA ReleaseRefines ==
    ASSUME Disjoint, NEW p \in Spot \ {"free"}, NEW b \in Buffer, Moves(b, p, "free")
    PROVE  Pool!Next
<1> DEFINE h == Owner(p)
<1>1. h \in Holder
  BY OwnersHold
<1>2. free' = free \cup {b}
  BY AtIs, AtIsNext DEF Moves, Spot
<1>3. b \in Held[h]
  BY <1>1, HeldIs DEF Moves
<1>4. \A g \in Holder : Held'[g] = IF g = h THEN Held[g] \ {b} ELSE Held[g]
  <2>1. SUFFICES ASSUME NEW g \in Holder, NEW c
                 PROVE  c \in Held'[g] <=> c \in IF g = h THEN Held[g] \ {b} ELSE Held[g]
    OBVIOUS
  <2>2. c \in Held[g] <=> \E s \in Spot \ {"free"} : Owner(s) = g /\ c \in At[s]
    BY HeldIs
  <2>3. c \in Held'[g] <=> \E s \in Spot \ {"free"} : Owner(s) = g /\ c \in At'[s]
    BY HeldIsNext
  <2>4. \A s \in Spot \ {"free"} : c \in At'[s] <=> c \in At[s] /\ ~(s = p /\ c = b)
    BY DEF Moves
  <2>5. \A s \in Spot : b \in At[s] => s = p
    BY DEF Moves, Disjoint
  <2> QED
    BY <2>2, <2>3, <2>4, <2>5
<1>5. Held' = [Held EXCEPT ![h] = @ \ {b}]
  BY <1>1, <1>4, HeldIs, HeldIsNext
<1>6. Pool!Release(h, b)
  BY <1>2, <1>3, <1>5 DEF Pool!Release
<1> QED
  BY <1>1, <1>6 DEF Pool!Next

LEMMA HandOverRefines ==
    ASSUME Disjoint, NEW p \in Spot \ {"free"}, NEW q \in Spot \ {"free"}, NEW b \in Buffer,
           Moves(b, p, q)
    PROVE  Pool!Next \/ UNCHANGED Pool!poolVars
<1> DEFINE g == Owner(p)
           h == Owner(q)
<1>1. g \in Holder /\ h \in Holder
  BY OwnersHold
<1>2. free' = free
  BY AtIs, AtIsNext DEF Moves, Spot
<1>3. b \in Held[g]
  BY <1>1, HeldIs DEF Moves
<1>4. \A k \in Holder : Held'[k] = IF k = h THEN Held[k] \cup {b}
                                   ELSE IF k = g THEN Held[k] \ {b} ELSE Held[k]
  <2>1. SUFFICES ASSUME NEW k \in Holder, NEW c
                 PROVE  c \in Held'[k] <=> c \in IF k = h THEN Held[k] \cup {b}
                                                 ELSE IF k = g THEN Held[k] \ {b} ELSE Held[k]
    OBVIOUS
  <2>2. c \in Held[k] <=> \E s \in Spot \ {"free"} : Owner(s) = k /\ c \in At[s]
    BY HeldIs
  <2>3. c \in Held'[k] <=> \E s \in Spot \ {"free"} : Owner(s) = k /\ c \in At'[s]
    BY HeldIsNext
  <2>4. \A s \in Spot \ {"free"} :
            c \in At'[s] <=> (c \in At[s] /\ ~(s = p /\ c = b)) \/ (s = q /\ c = b)
    BY DEF Moves
  <2>5. \A s \in Spot : b \in At[s] => s = p
    BY DEF Moves, Disjoint
  <2>6. CASE c = b
    BY <2>2, <2>3, <2>4, <2>5, <2>6
  <2>7. CASE c # b
    BY <2>2, <2>3, <2>4, <2>7
  <2> QED
    BY <2>6, <2>7
<1>5. CASE g = h
  <2>1. \A k \in Holder : Held'[k] = Held[k]
    BY <1>3, <1>4, <1>5
  <2>2. Held' = Held
    BY <2>1, HeldIs, HeldIsNext
  <2> QED
    BY <1>2, <2>2 DEF Pool!poolVars
<1>6. CASE g # h
  <2>1. Held' = [Held EXCEPT ![g] = @ \ {b}, ![h] = @ \cup {b}]
    BY <1>1, <1>4, <1>6, HeldIs, HeldIsNext
  <2>2. Pool!HandOver(g, h, b)
    BY <1>2, <1>3, <1>6, <2>1 DEF Pool!HandOver
  <2> QED
    BY <1>1, <2>2 DEF Pool!Next
<1> QED
  BY <1>5, <1>6

LEMMA StayRefines ==
    ASSUME Stays
    PROVE  UNCHANGED Pool!poolVars
<1>1. free' = free
  BY AtIs, AtIsNext DEF Stays, Spot
<1>2. \A h \in Holder : Held'[h] = Held[h]
  <2>1. SUFFICES ASSUME NEW h \in Holder, NEW c
                 PROVE  c \in Held'[h] <=> c \in Held[h]
    OBVIOUS
  <2> QED
    BY HeldIs, HeldIsNext DEF Stays
<1>3. Held' = Held
  BY <1>2, HeldIs, HeldIsNext
<1> QED
  BY <1>1, <1>3 DEF Pool!poolVars

PoolStep == Pool!Next \/ UNCHANGED Pool!poolVars

LEMMA MoveIsGood ==
    ASSUME Disjoint, NEW p \in Spot, NEW q \in Spot, NEW b \in Buffer, Moves(b, p, q)
    PROVE  Disjoint' /\ PoolStep
<1>1. Disjoint'
  BY MoveIsDisjoint
<1>2. p # q
  BY DEF Moves
<1>3. CASE p = "free"
  BY <1>1, <1>2, <1>3, GetRefines DEF PoolStep
<1>4. CASE q = "free"
  BY <1>1, <1>2, <1>4, ReleaseRefines DEF PoolStep
<1>5. CASE p # "free" /\ q # "free"
  BY <1>1, <1>5, HandOverRefines DEF PoolStep
<1> QED
  BY <1>1, <1>3, <1>4, <1>5

LEMMA StayIsGood ==
    ASSUME Disjoint, Stays
    PROVE  Disjoint' /\ PoolStep
BY StayIsDisjoint, StayRefines DEF PoolStep

-----------------------------------------------------------------------------
(***************************************************************************)
(* What a step leaves alone.  SameBut(b): only b's origin changes.         *)
(***************************************************************************)
SameBut(b) ==
    \A c \in Buffer \ {b} : pxInterface'[c] = pxInterface[c] /\ from'[c] = from[c]

LEMMA JobIs ==
    ASSUME PathType, HoldingInv, NEW t \in Task
    PROVE  /\ job[t] \in Jobs /\ JobHolds(job[t])
           /\ InJob(t) = {job[t].buffer, job[t].copy} \ {None}
           /\ job[t].step \notin {"idle", "down"} => job[t].buffer \in Buffer
           /\ job[t].step = "copied" => job[t].copy \in Buffer \ {job[t].buffer}
           /\ job[t].step # "copied" => job[t].copy = None
<1>1. job[t] \in Jobs /\ JobHolds(job[t])
  BY DEF PathType, HoldingInv
<1> QED
  BY <1>1, PathAssumption DEF InJob, JobHolds, Jobs

LEMMA JobChanges ==
    ASSUME PathType, HoldingInv, NEW t \in Task, NEW j \in Jobs, JobHolds(j),
           job' = [job EXCEPT ![t] = j]
    PROVE  /\ job' \in [Task -> Jobs] /\ job'[t] = j
           /\ \A u \in Task \ {t} : job'[u] = job[u]
           /\ \A u \in Task : JobHolds(job'[u])
           /\ At'[t] = {j.buffer, j.copy} \ {None}
           /\ \A u \in Task \ {t} : At'[u] = At[u]
<1>1. job \in [Task -> Jobs] /\ \A u \in Task : JobHolds(job[u])
  BY DEF PathType, HoldingInv
<1>2. /\ job' \in [Task -> Jobs] /\ job'[t] = j
      /\ \A u \in Task \ {t} : job'[u] = job[u]
  BY <1>1
<1>3. \A u \in Task : JobHolds(job'[u])
  BY <1>1, <1>2
<1>4. InJob(t)' = {j.buffer, j.copy} \ {None}
  BY <1>2 DEF InJob
<1>5. \A u \in Task \ {t} : InJob(u)' = InJob(u)
  BY <1>2 DEF InJob
<1> QED
  BY <1>2, <1>3, <1>4, <1>5, AtIs, AtIsNext

LEMMA OthersFit ==
    ASSUME IInv, NEW t \in Task, NEW b, b \notin At[t], SameBut(b), job'[t] = job[t]
    PROVE  JobFits(job[t])'
<1>1. JobFits(job[t]) /\ b \notin InJob(t)
  BY AtIs DEF IInv, OriginInv
<1>2. /\ InJob(t) = {job[t].buffer, job[t].copy} \ {None}
      /\ job[t].step \notin {"idle", "down"} => job[t].buffer \in Buffer
      /\ job[t].step = "copied" => job[t].copy \in Buffer
  BY JobIs DEF IInv
<1>3. /\ job[t].step \notin {"idle", "down"} =>
            /\ pxInterface'[job[t].buffer] = pxInterface[job[t].buffer]
            /\ from'[job[t].buffer] = from[job[t].buffer]
      /\ job[t].step = "copied" =>
            /\ pxInterface'[job[t].copy] = pxInterface[job[t].copy]
            /\ from'[job[t].copy] = from[job[t].copy]
  BY <1>1, <1>2, PathAssumption DEF SameBut
<1> QED
  BY <1>1, <1>3 DEF JobFits

LEMMA OthersKeep ==
    ASSUME IInv, NEW b, SameBut(b)
    PROVE  /\ \A c \in (free \cup sockets) \ {b} : pxInterface'[c] = None
           /\ \A c \in (InSeq(txRing) \cup sent) \ {b} : from'[c] # "eth"
           /\ \A c \in InSeq(txQueue) \ {b} : from'[c] # "plc"
           /\ \A e \in InSeq(xNetworkEventQueue) : e.buffer # b =>
                /\ e.type = "rx" => from'[e.buffer] # "bridge"
                /\ e.type = "stacktx" => pxInterface'[e.buffer] = None
<1>1. /\ free \cup sockets \subseteq Buffer /\ sent \subseteq Buffer
      /\ txRing \in Seq(Buffer) /\ txQueue \in Seq(Buffer) /\ xNetworkEventQueue \in Seq(Events)
  BY DEF IInv, PathType
<1>2. InSeq(txRing) \subseteq Buffer /\ InSeq(txQueue) \subseteq Buffer
  BY <1>1, ElementOfSeq, LenProperties DEF InSeq
<1>3. InSeq(xNetworkEventQueue) \subseteq Events
  BY <1>1, ElementOfSeq, LenProperties DEF InSeq
<1>4. \A e \in Events : e.type \in {"rx", "stacktx"} => e.buffer \in Buffer
  BY EventTypes
<1>5. \A c \in (free \cup sockets) \ {b} : pxInterface'[c] = None
  BY <1>1 DEF IInv, OriginInv, SameBut
<1>6. /\ \A c \in (InSeq(txRing) \cup sent) \ {b} : from'[c] # "eth"
      /\ \A c \in InSeq(txQueue) \ {b} : from'[c] # "plc"
  BY <1>1, <1>2 DEF IInv, NeverSentBack, SameBut
<1>7. ASSUME NEW e \in InSeq(xNetworkEventQueue), e.buffer # b
      PROVE  /\ e.type = "rx" => from'[e.buffer] # "bridge"
             /\ e.type = "stacktx" => pxInterface'[e.buffer] = None
  <2>1. /\ e.type = "rx" => from[e.buffer] # "bridge"
        /\ e.type = "stacktx" => pxInterface[e.buffer] = None
    BY DEF IInv, NeverSentBack, OriginInv
  <2>2. e.type \in {"rx", "stacktx"} => e.buffer \in Buffer \ {b}
    BY <1>3, <1>4, <1>7
  <2> QED
    BY <2>1, <2>2 DEF SameBut
<1> QED
  BY <1>5, <1>6, <1>7

LEMMA JobsStay ==
    ASSUME PathType, HoldingInv, UNCHANGED job
    PROVE  /\ job' \in [Task -> Jobs]
           /\ \A u \in Task : job'[u] = job[u] /\ JobHolds(job'[u]) /\ At'[u] = At[u]
<1>1. \A u \in Task : InJob(u)' = InJob(u)
  BY DEF InJob
<1> QED
  BY <1>1, AtIs, AtIsNext DEF PathType, HoldingInv

(***************************************************************************)
(* A step that moves b and changes at most its origin.                     *)
(***************************************************************************)
LEMMA MoveKeepsOrigins ==
    ASSUME IInv, NEW p \in Spot, NEW q \in Spot, NEW b \in Buffer, b \in At[p], SameBut(b),
           \A s \in Spot \ {"ring"} : At'[s] \subseteq At[s] \cup {b} /\ (b \in At'[s] => s = q),
           \A t \in Task \ {p, q} : job'[t] = job[t],
           \A t \in Task : t = p \/ t = q => JobFits(job[t])',
           \A e \in InSeq(xNetworkEventQueue') : e \in InSeq(xNetworkEventQueue) \/ e.buffer = b,
           \A e \in InSeq(xNetworkEventQueue') : e.buffer = b =>
                /\ e.type = "rx" => from'[b] # "bridge"
                /\ e.type = "stacktx" => pxInterface'[b] = None,
           q \in {"free", "sockets"} => pxInterface'[b] = None,
           q \in {"txRing", "sent"} => from'[b] # "eth",
           q = "txQueue" => from'[b] # "plc"
    PROVE  OriginInv' /\ NeverSentBack'
<1>1. \A t \in Task \ {p} : b \notin At[t]
  BY AtIs DEF IInv, Disjoint
<1>2. \A t \in Task : JobFits(job[t])'
  BY <1>1, OthersFit
<1>3. /\ \A c \in (free \cup sockets) \ {b} : pxInterface'[c] = None
      /\ \A c \in (InSeq(txRing) \cup sent) \ {b} : from'[c] # "eth"
      /\ \A c \in InSeq(txQueue) \ {b} : from'[c] # "plc"
      /\ \A e \in InSeq(xNetworkEventQueue) : e.buffer # b =>
           /\ e.type = "rx" => from'[e.buffer] # "bridge"
           /\ e.type = "stacktx" => pxInterface'[e.buffer] = None
  BY OthersKeep
<1>4. /\ free' \subseteq free \cup {b} /\ (b \in free' => q = "free")
      /\ sockets' \subseteq sockets \cup {b} /\ (b \in sockets' => q = "sockets")
      /\ sent' \subseteq sent \cup {b} /\ (b \in sent' => q = "sent")
      /\ InSeq(txRing') \subseteq InSeq(txRing) \cup {b} /\ (b \in InSeq(txRing') => q = "txRing")
      /\ InSeq(txQueue') \subseteq InSeq(txQueue) \cup {b} /\ (b \in InSeq(txQueue') => q = "txQueue")
  BY AtIs, AtIsNext DEF Spot
<1>5. \A c \in free' \cup sockets' : pxInterface'[c] = None
  BY <1>3, <1>4
<1>6. /\ \A c \in InSeq(txRing') \cup sent' : from'[c] # "eth"
      /\ \A c \in InSeq(txQueue') : from'[c] # "plc"
  BY <1>3, <1>4
<1>7. \A e \in InSeq(xNetworkEventQueue') :
        /\ e.type = "rx" => from'[e.buffer] # "bridge"
        /\ e.type = "stacktx" => pxInterface'[e.buffer] = None
  BY <1>3
<1>8. InSeq(txRing)' = InSeq(txRing') /\ InSeq(txQueue)' = InSeq(txQueue')
      /\ InSeq(xNetworkEventQueue)' = InSeq(xNetworkEventQueue')
  BY DEF InSeq
<1>9. OriginInv'
  BY <1>2, <1>5, <1>7 DEF OriginInv
<1>10. NeverSentBack'
  BY <1>6, <1>7 DEF NeverSentBack
<1> QED
  BY <1>9, <1>10

(***************************************************************************)
(* A step that moves nothing.                                              *)
(***************************************************************************)
LEMMA StayKeepsOrigins ==
    ASSUME IInv, Stays, NEW t \in Task, NEW b, b \in At[t] \/ b = None, SameBut(b),
           \A u \in Task \ {t} : job'[u] = job[u],
           JobFits(job[t])',
           \A e \in InSeq(xNetworkEventQueue') : e \in InSeq(xNetworkEventQueue) \/ e = NetworkDown
    PROVE  OriginInv' /\ NeverSentBack'
<1>1. \A s \in Spot : b \in At[s] => s = t
  <2>1. b = None => \A s \in Spot : b \notin At[s]
    <3>1. \A c \in InSeq(txQueue) \cup InSeq(txRing) : c \in Buffer
      BY ElementOfSeq, LenProperties DEF IInv, PathType, InSeq
    <3>2. /\ None \notin free /\ None \notin ring /\ None \notin sent /\ None \notin sockets
          /\ None \notin InSeq(txQueue) /\ None \notin InSeq(txRing)
      BY <3>1, PathAssumption DEF IInv, PathType
    <3> QED
      BY <3>2 DEF At, Spot, InEvents, InJob
  <2> QED
    BY <2>1, AtIs DEF IInv, Disjoint
<1>2. \A u \in Task : JobFits(job[u])'
  BY <1>1, AtIs, OthersFit
<1>3. /\ \A c \in (free \cup sockets) \ {b} : pxInterface'[c] = None
      /\ \A c \in (InSeq(txRing) \cup sent) \ {b} : from'[c] # "eth"
      /\ \A c \in InSeq(txQueue) \ {b} : from'[c] # "plc"
      /\ \A e \in InSeq(xNetworkEventQueue) : e.buffer # b =>
           /\ e.type = "rx" => from'[e.buffer] # "bridge"
           /\ e.type = "stacktx" => pxInterface'[e.buffer] = None
  BY OthersKeep
<1>4. /\ free' = free /\ sockets' = sockets /\ sent' = sent
      /\ InSeq(txRing') = InSeq(txRing) /\ InSeq(txQueue') = InSeq(txQueue)
  BY AtIs, AtIsNext DEF Stays, Spot
<1>5. /\ b \notin free /\ b \notin sockets /\ b \notin sent
      /\ b \notin InSeq(txRing) /\ b \notin InSeq(txQueue) /\ b \notin Carried(xNetworkEventQueue)
  BY <1>1, AtIs DEF Spot, Task
<1>6. /\ \A c \in free' \cup sockets' : pxInterface'[c] = None
      /\ \A c \in InSeq(txRing') \cup sent' : from'[c] # "eth"
      /\ \A c \in InSeq(txQueue') : from'[c] # "plc"
  BY <1>3, <1>4, <1>5
<1>7. ASSUME NEW e \in InSeq(xNetworkEventQueue')
      PROVE  /\ e.type = "rx" => from'[e.buffer] # "bridge"
             /\ e.type = "stacktx" => pxInterface'[e.buffer] = None
  <2>1. CASE e = NetworkDown
    BY <2>1, EventTypes
  <2>2. CASE e \in InSeq(xNetworkEventQueue) /\ e # NetworkDown
    <3>1. e \in Events
      BY <2>2, ElementOfSeq, LenProperties DEF IInv, PathType, InSeq
    <3>2. e.buffer \in Carried(xNetworkEventQueue)
      BY <2>2, <3>1, EventTypes DEF Carried
    <3> QED
      BY <1>3, <1>5, <2>2, <3>2
  <2> QED
    BY <2>1, <2>2
<1>8. InSeq(txRing)' = InSeq(txRing') /\ InSeq(txQueue)' = InSeq(txQueue')
      /\ InSeq(xNetworkEventQueue)' = InSeq(xNetworkEventQueue')
  BY DEF InSeq
<1>9. OriginInv'
  BY <1>2, <1>6, <1>7 DEF OriginInv
<1>10. NeverSentBack'
  BY <1>6, <1>7 DEF NeverSentBack
<1> QED
  BY <1>9, <1>10

LEMMA ReleaseIs ==
    ASSUME PathType, NEW b \in Buffer, Release(b)
    PROVE  /\ free' = free \cup {b} /\ free' \subseteq Buffer
           /\ pxInterface' \in [Buffer -> Interface \cup {None}]
           /\ from' \in [Buffer -> Interface \cup {None}]
           /\ pxInterface'[b] = None /\ SameBut(b)
BY DEF PathType, Release, SameBut

LEMMA InQueue ==
    ASSUME PathType
    PROVE  /\ InSeq(txQueue) \subseteq Buffer /\ InSeq(txRing) \subseteq Buffer
           /\ Carried(xNetworkEventQueue) \subseteq Buffer
<1>1. InSeq(txQueue) \subseteq Buffer /\ InSeq(txRing) \subseteq Buffer
  BY ElementOfSeq, LenProperties DEF PathType, InSeq
<1>2. InSeq(xNetworkEventQueue) \subseteq Events
  BY ElementOfSeq, LenProperties DEF PathType, InSeq
<1> QED
  BY <1>1, <1>2, EventTypes DEF Carried

-----------------------------------------------------------------------------
(***************************************************************************)
(* The drivers' own steps.                                                 *)
(***************************************************************************)
LEMMA QuietMove ==
    ASSUME IInv, NEW p \in Spot \ (Task \cup {"events"}), NEW q \in Spot \ (Task \cup {"events"}),
           NEW b \in Buffer, Moves(b, p, q), SameBut(b), UNCHANGED <<job, xNetworkEventQueue>>,
           PathType', OneToOne(txQueue'), OneToOne(txRing'),
           q \in {"free", "sockets"} => pxInterface'[b] = None,
           q \in {"txRing", "sent"} => from'[b] # "eth",
           q = "txQueue" => from'[b] # "plc"
    PROVE  IInv' /\ PoolStep
<1>1. PathType /\ Disjoint /\ HoldingInv
  BY DEF IInv
<1>2. \A u \in Task : job'[u] = job[u] /\ JobHolds(job'[u])
  BY <1>1, JobsStay
<1>3. HoldingInv'
  BY <1>1, <1>2 DEF HoldingInv, OneToOne, EventsOnce, JobHolds
<1>4. Disjoint' /\ PoolStep
  BY <1>1, MoveIsGood
<1>5. OriginInv' /\ NeverSentBack'
  <2>1. b \notin Carried(xNetworkEventQueue)
    BY <1>1, AtIs DEF Disjoint, Moves, Spot
  <2>2. \A e \in InSeq(xNetworkEventQueue') : e \in InSeq(xNetworkEventQueue) /\ e.buffer # b
    BY <2>1, PathAssumption DEF Carried
  <2>3. \A s \in Spot : At'[s] \subseteq At[s] \cup {b} /\ (b \in At'[s] => s = q)
    BY <1>1 DEF Moves, Disjoint
  <2>4. b \in At[p]
    BY DEF Moves
  <2> QED
    BY <1>2, <2>2, <2>3, <2>4, MoveKeepsOrigins
<1> QED
  BY <1>3, <1>4, <1>5 DEF IInv

LEMMA CleanUpKeeps ==
    ASSUME IInv, NEW b \in Buffer, CleanUp(b)
    PROVE  IInv' /\ PoolStep
<1>1. PathType /\ HoldingInv
  BY DEF IInv
<1>2. /\ b \in sent /\ sent' = sent \ {b} /\ Release(b)
      /\ UNCHANGED <<ring, rx_desc, txQueue, txRing, xNetworkEventQueue, sockets, job, link>>
  BY DEF CleanUp
<1>3. job' \in [Task -> Jobs] /\ \A u \in Task : At'[u] = At[u]
  BY <1>1, <1>2, JobsStay
<1>4. /\ free' = free \cup {b} /\ free' \subseteq Buffer
      /\ pxInterface' \in [Buffer -> Interface \cup {None}]
      /\ from' \in [Buffer -> Interface \cup {None}]
      /\ pxInterface'[b] = None /\ SameBut(b)
  BY <1>1, <1>2, ReleaseIs
<1>5. Moves(b, "sent", "free")
  BY <1>2, <1>3, <1>4, AtIs, AtIsNext DEF Moves, Spot, Task
<1>6. PathType'
  BY <1>1, <1>2, <1>3, <1>4 DEF PathType
<1>7. OneToOne(txQueue') /\ OneToOne(txRing')
  BY <1>1, <1>2 DEF HoldingInv
<1> QED
  BY <1>2, <1>4, <1>5, <1>6, <1>7, QuietMove DEF Spot, Task

LEMMA ReadKeeps ==
    ASSUME IInv, NEW b \in Buffer, Read(b)
    PROVE  IInv' /\ PoolStep
<1>1. PathType /\ HoldingInv
  BY DEF IInv
<1>2. /\ b \in sockets /\ sockets' = sockets \ {b} /\ Release(b)
      /\ UNCHANGED <<ring, rx_desc, txQueue, txRing, sent, xNetworkEventQueue, job, link>>
  BY DEF Read, queues
<1>3. job' \in [Task -> Jobs] /\ \A u \in Task : At'[u] = At[u]
  BY <1>1, <1>2, JobsStay
<1>4. /\ free' = free \cup {b} /\ free' \subseteq Buffer
      /\ pxInterface' \in [Buffer -> Interface \cup {None}]
      /\ from' \in [Buffer -> Interface \cup {None}]
      /\ pxInterface'[b] = None /\ SameBut(b)
  BY <1>1, <1>2, ReleaseIs
<1>5. Moves(b, "sockets", "free")
  BY <1>2, <1>3, <1>4, AtIs, AtIsNext DEF Moves, Spot, Task
<1>6. PathType'
  BY <1>1, <1>2, <1>3, <1>4 DEF PathType
<1>7. OneToOne(txQueue') /\ OneToOne(txRing')
  BY <1>1, <1>2 DEF HoldingInv
<1> QED
  BY <1>2, <1>4, <1>5, <1>6, <1>7, QuietMove DEF Spot, Task

LEMMA SpiTransmitKeeps ==
    ASSUME IInv, SpiTransmit
    PROVE  IInv' /\ PoolStep
<1> DEFINE b == Head(txQueue)
<1>1. PathType /\ HoldingInv
  BY DEF IInv
<1>2. /\ txQueue # <<>> /\ txQueue' = Tail(txQueue) /\ Release(b)
      /\ UNCHANGED <<ring, rx_desc, txRing, sent, xNetworkEventQueue, sockets, job, link>>
  BY DEF SpiTransmit
<1>3. /\ b \in Buffer /\ b \in InSeq(txQueue) /\ txQueue' \in Seq(Buffer)
      /\ OneToOne(txQueue') /\ InSeq(txQueue') = InSeq(txQueue) \ {b}
  BY <1>1, <1>2, TailOfQueue, TailIsOneToOne DEF PathType, HoldingInv
<1> HIDE DEF b
<1>4. job' \in [Task -> Jobs] /\ \A u \in Task : At'[u] = At[u]
  BY <1>1, <1>2, JobsStay
<1>5. /\ free' = free \cup {b} /\ free' \subseteq Buffer
      /\ pxInterface' \in [Buffer -> Interface \cup {None}]
      /\ from' \in [Buffer -> Interface \cup {None}]
      /\ pxInterface'[b] = None /\ SameBut(b)
  BY <1>1, <1>2, <1>3, ReleaseIs
<1>6. Moves(b, "txQueue", "free")
  BY <1>2, <1>3, <1>4, <1>5, AtIs, AtIsNext DEF Moves, Spot, Task
<1>7. PathType'
  BY <1>1, <1>2, <1>3, <1>4, <1>5 DEF PathType
<1>8. OneToOne(txRing')
  BY <1>1, <1>2 DEF HoldingInv
<1> QED
  BY <1>2, <1>3, <1>5, <1>6, <1>7, <1>8, QuietMove DEF Spot, Task

LEMMA TransmitKeeps ==
    ASSUME IInv, Transmit
    PROVE  IInv' /\ PoolStep
<1> DEFINE b == Head(txRing)
<1>1. PathType /\ HoldingInv /\ NeverSentBack
  BY DEF IInv
<1>2. /\ txRing # <<>> /\ txRing' = Tail(txRing) /\ sent' = sent \cup {b}
      /\ UNCHANGED <<free, pxInterface, from, ring, rx_desc, txQueue, xNetworkEventQueue,
                     sockets, job, link>>
  BY DEF Transmit, pool
<1>3. /\ b \in Buffer /\ b \in InSeq(txRing) /\ txRing' \in Seq(Buffer)
      /\ OneToOne(txRing') /\ InSeq(txRing') = InSeq(txRing) \ {b}
  BY <1>1, <1>2, TailOfQueue, TailIsOneToOne DEF PathType, HoldingInv
<1> HIDE DEF b
<1>4. job' \in [Task -> Jobs] /\ \A u \in Task : At'[u] = At[u]
  BY <1>1, <1>2, JobsStay
<1>5. Moves(b, "txRing", "sent")
  BY <1>2, <1>3, <1>4, AtIs, AtIsNext DEF Moves, Spot, Task
<1>6. PathType'
  BY <1>1, <1>2, <1>3, <1>4 DEF PathType
<1>7. OneToOne(txQueue')
  BY <1>1, <1>2 DEF HoldingInv
<1>8. SameBut(b) /\ from'[b] # "eth"
  BY <1>1, <1>2, <1>3 DEF SameBut, NeverSentBack
<1> QED
  BY <1>2, <1>3, <1>5, <1>6, <1>7, <1>8, QuietMove DEF Spot, Task

LEMMA SetupRxDescriptorKeeps ==
    ASSUME IInv, NEW b \in Buffer, SetupRxDescriptor(b)
    PROVE  IInv' /\ PoolStep
<1>1. PathType /\ HoldingInv
  BY DEF IInv
<1>2. /\ b \in free /\ free' = free \ {b} /\ ring' = ring \cup {b}
      /\ UNCHANGED <<pxInterface, from, rx_desc, txQueue, txRing, sent, xNetworkEventQueue,
                     sockets, job, link>>
  BY DEF SetupRxDescriptor, queues
<1>3. job' \in [Task -> Jobs] /\ \A u \in Task : At'[u] = At[u]
  BY <1>1, <1>2, JobsStay
<1>4. Moves(b, "free", "ring")
  BY <1>2, <1>3, AtIs, AtIsNext DEF Moves, Spot, Task
<1>5. PathType'
  BY <1>1, <1>2, <1>3 DEF PathType
<1>6. OneToOne(txQueue') /\ OneToOne(txRing') /\ SameBut(b)
  BY <1>1, <1>2 DEF HoldingInv, SameBut
<1> QED
  BY <1>2, <1>4, <1>5, <1>6, QuietMove DEF Spot, Task

LEMMA AllocateRxDescKeeps ==
    ASSUME IInv, NEW b \in Buffer, AllocateRxDesc(b)
    PROVE  IInv' /\ PoolStep
<1>1. PathType /\ HoldingInv
  BY DEF IInv
<1>2. /\ rx_desc = None /\ b \in free /\ free' = free \ {b} /\ rx_desc' = b
      /\ UNCHANGED <<pxInterface, from, ring, txQueue, txRing, sent, xNetworkEventQueue,
                     sockets, job, link>>
  BY DEF AllocateRxDesc, queues
<1>3. job' \in [Task -> Jobs] /\ \A u \in Task : At'[u] = At[u]
  BY <1>1, <1>2, JobsStay
<1>4. Moves(b, "free", "rx_desc")
  BY <1>2, <1>3, AtIs, AtIsNext, PathAssumption DEF Moves, Spot, Task
<1>5. PathType'
  BY <1>1, <1>2, <1>3 DEF PathType
<1>6. OneToOne(txQueue') /\ OneToOne(txRing') /\ SameBut(b)
  BY <1>1, <1>2 DEF HoldingInv, SameBut
<1> QED
  BY <1>2, <1>4, <1>5, <1>6, QuietMove DEF Spot, Task

-----------------------------------------------------------------------------
(***************************************************************************)
(* Steps of a task's job.                                                  *)
(***************************************************************************)
LEMMA JobTypes ==
    /\ Idle \in Jobs /\ JobHolds(Idle) /\ {Idle.buffer, Idle.copy} \ {None} = {}
    /\ Idle.step = "idle" /\ Idle.buffer = None /\ Idle.copy = None
    /\ \A b \in Buffer, step \in {"output", "drop", "rx", "stacktx", "sendto"} :
        LET j == Job(step, b) IN
        /\ j \in Jobs /\ JobHolds(j) /\ {j.buffer, j.copy} \ {None} = {b}
        /\ j.step = step /\ j.buffer = b /\ j.copy = None
<1>1. Idle \in Jobs
  BY DEF Idle, Job, Jobs, Steps
<1>2. JobHolds(Idle) /\ {Idle.buffer, Idle.copy} \ {None} = {}
      /\ Idle.step = "idle" /\ Idle.buffer = None /\ Idle.copy = None
  BY DEF Idle, Job, JobHolds
<1>3. ASSUME NEW b \in Buffer, NEW step \in {"output", "drop", "rx", "stacktx", "sendto"}
      PROVE  LET j == Job(step, b) IN
             /\ j \in Jobs /\ JobHolds(j) /\ {j.buffer, j.copy} \ {None} = {b}
             /\ j.step = step /\ j.buffer = b /\ j.copy = None
  <2>1. Job(step, b) \in Jobs
    BY DEF Job, Jobs, Steps
  <2> QED
    BY <2>1, PathAssumption DEF Job, JobHolds
<1> QED
  BY <1>1, <1>2, <1>3

LEMMA BridgedIs ==
    ASSUME NEW iface \in Interface, NEW to \in Decisions(iface), to # {}, NEW b \in Buffer
    PROVE  LET j == Bridged(b, to) IN
           /\ j \in Jobs /\ JobHolds(j) /\ {j.buffer, j.copy} \ {None} = {b}
           /\ j.step \in {"copy", "output"} /\ j.buffer = b /\ j.copy = None
           /\ j.sendTo \in Interface \ {iface}
           /\ j.step = "copy" => j.copyTo \in Interface \ {iface}
<1> DEFINE others == to \ {First(to)}
           step == IF others # {} THEN "copy" ELSE "output"
           copyTo == IF others # {} THEN First(others) ELSE None
<1>1. to \subseteq Interface \ {iface}
  BY DEF Decisions, Flooded
<1>2. \A S \in SUBSET (Interface \ {iface}) : S # {} => First(S) \in S
  BY DEF First, Interface
<1>3. First(to) \in Interface \ {iface}
  BY <1>1, <1>2
<1>4. others # {} => First(others) \in Interface \ {iface}
  BY <1>1, <1>2
<1>5. Bridged(b, to) = [step |-> step, buffer |-> b, copy |-> None,
                        sendTo |-> First(to), copyTo |-> copyTo]
  BY DEF Bridged
<1>6. copyTo \in Interface \cup {None} /\ step \in {"copy", "output"}
      /\ (step = "copy" => copyTo \in Interface \ {iface})
  BY <1>4
<1> HIDE DEF others, step, copyTo
<1>7. Bridged(b, to) \in Jobs
  BY <1>3, <1>5, <1>6 DEF Jobs, Steps
<1> QED
  BY <1>3, <1>5, <1>6, <1>7, PathAssumption DEF JobHolds

LEMMA JobMove ==
    ASSUME IInv, NEW t \in Task, NEW j \in Jobs, JobHolds(j), job' = [job EXCEPT ![t] = j],
           NEW p \in Spot \ (Task \ {t}), NEW q \in Spot \ (Task \ {t}), p = t \/ q = t,
           NEW b \in Buffer, Moves(b, p, q), SameBut(b),
           PathType', OneToOne(txQueue'), OneToOne(txRing'), EventsOnce(xNetworkEventQueue'),
           \A e \in InSeq(xNetworkEventQueue') : e \in InSeq(xNetworkEventQueue) \/ e.buffer = b,
           \A e \in InSeq(xNetworkEventQueue') : e.buffer = b =>
                /\ e.type = "rx" => from'[b] # "bridge"
                /\ e.type = "stacktx" => pxInterface'[b] = None,
           q \in {"free", "sockets"} => pxInterface'[b] = None,
           q \in {"txRing", "sent"} => from'[b] # "eth",
           q = "txQueue" => from'[b] # "plc",
           JobFits(job[t])'
    PROVE  IInv' /\ PoolStep
<1>1. PathType /\ Disjoint /\ HoldingInv
  BY DEF IInv
<1>2. /\ \A u \in Task \ {t} : job'[u] = job[u]
      /\ \A u \in Task : JobHolds(job'[u])
  BY <1>1, JobChanges
<1>3. HoldingInv'
  BY <1>2 DEF HoldingInv, OneToOne, EventsOnce, JobHolds
<1>4. Disjoint' /\ PoolStep
  BY <1>1, MoveIsGood
<1>5. OriginInv' /\ NeverSentBack'
  <2>1. \A u \in Task : u = p \/ u = q => u = t
    OBVIOUS
  <2>2. \A u \in Task : u = p \/ u = q => JobFits(job[u])'
    BY <2>1
  <2>3. \A u \in Task \ {p, q} : job'[u] = job[u]
    BY <1>2
  <2>4. \A s \in Spot : At'[s] \subseteq At[s] \cup {b} /\ (b \in At'[s] => s = q)
    BY <1>1 DEF Moves, Disjoint
  <2>5. b \in At[p]
    BY DEF Moves
  <2> QED
    BY <2>2, <2>3, <2>4, <2>5, MoveKeepsOrigins
<1> QED
  BY <1>3, <1>4, <1>5 DEF IInv

\* No event is about a buffer that is elsewhere.
LEMMA NoEventOf ==
    ASSUME IInv, NEW p \in Spot \ {"events"}, NEW b \in Buffer, b \in At[p]
    PROVE  \A e \in InSeq(xNetworkEventQueue) : e.buffer # b
<1>1. b \notin Carried(xNetworkEventQueue)
  BY AtIs DEF IInv, Disjoint, Spot
<1> QED
  BY <1>1, PathAssumption DEF Carried

LEMMA Spots ==
    /\ {"emac", "spi", "ip", "user"} \subseteq Task
    /\ \A t \in Task : t \in Spot /\ t \in Spot \ (Task \ {t}) /\ t \in Spot \ {"events"}
    /\ \A t \in Task, p \in Spot \ Task : p \in Spot \ (Task \ {t}) /\ p # t
    /\ {"free", "ring", "sent", "sockets", "rx_desc", "txQueue", "txRing", "events"} \subseteq Spot \ Task
BY DEF Spot, Task

\* A task that has one buffer in hand, and finishes with it.
LEMMA OneBuffer ==
    ASSUME PathType, HoldingInv, NEW t \in Task, NEW b \in Buffer,
           NEW step \in {"output", "drop", "rx", "stacktx", "sendto"}, job[t] = Job(step, b)
    PROVE  At[t] = {b} /\ job[t].buffer = b /\ job[t].step = step
<1>1. At[t] = {job[t].buffer, job[t].copy} \ {None}
  BY JobIs, AtIs
<1>2. {Job(step, b).buffer, Job(step, b).copy} \ {None} = {b}
      /\ Job(step, b).buffer = b /\ Job(step, b).step = step
  BY JobTypes
<1> QED
  BY <1>1, <1>2

LEMMA Finishes ==
    ASSUME PathType, HoldingInv, NEW t \in Task, job' = [job EXCEPT ![t] = Idle]
    PROVE  /\ job' \in [Task -> Jobs] /\ job'[t] = Idle /\ JobFits(job[t])'
           /\ At'[t] = {} /\ \A u \in Task \ {t} : At'[u] = At[u]
<1>1. /\ job' \in [Task -> Jobs] /\ job'[t] = Idle
      /\ At'[t] = {} /\ \A u \in Task \ {t} : At'[u] = At[u]
  BY JobTypes, JobChanges
<1>2. job'[t].step = "idle"
  BY <1>1, JobTypes
<1>3. JobFits(job[t])'
  BY <1>2 DEF JobFits
<1> QED
  BY <1>1, <1>3

LEMMA DropKeeps ==
    ASSUME IInv, NEW b \in Buffer, Drop(b)
    PROVE  IInv' /\ PoolStep
<1>1. PathType /\ HoldingInv
  BY DEF IInv
<1>2. /\ job["emac"] = Job("drop", b) /\ Release(b) /\ job' = [job EXCEPT !["emac"] = Idle]
      /\ UNCHANGED <<ring, rx_desc, txQueue, txRing, sent, xNetworkEventQueue, sockets, link>>
  BY DEF Drop, queues
<1>3. /\ job' \in [Task -> Jobs] /\ JobFits(job["emac"])'
      /\ At'["emac"] = {} /\ \A u \in Task \ {"emac"} : At'[u] = At[u]
  BY <1>1, <1>2, Finishes, Spots
<1>4. At["emac"] = {b}
  BY <1>1, <1>2, OneBuffer, Spots
<1>5. \A e \in InSeq(xNetworkEventQueue') : e \in InSeq(xNetworkEventQueue) /\ e.buffer # b
  BY <1>2, <1>4, NoEventOf, Spots
<1>6. /\ free' = free \cup {b} /\ free' \subseteq Buffer
      /\ pxInterface' \in [Buffer -> Interface \cup {None}]
      /\ from' \in [Buffer -> Interface \cup {None}]
      /\ pxInterface'[b] = None /\ SameBut(b)
  BY <1>1, <1>2, ReleaseIs
<1>7. Moves(b, "emac", "free")
  BY <1>2, <1>3, <1>4, <1>6, AtIs, AtIsNext DEF Moves, Spot, Task
<1>8. PathType'
  BY <1>1, <1>2, <1>3, <1>6 DEF PathType
<1>9. OneToOne(txQueue') /\ OneToOne(txRing') /\ EventsOnce(xNetworkEventQueue')
  BY <1>1, <1>2 DEF HoldingInv
<1>10. Idle \in Jobs /\ JobHolds(Idle)
  BY JobTypes
<1> QED
  BY <1>2, <1>3, <1>5, <1>6, <1>7, <1>8, <1>9, <1>10, Spots, JobMove

(***************************************************************************)
(* A step of a task that moves nothing: what it has in hand stays there.   *)
(***************************************************************************)
LEMMA JobStay ==
    ASSUME IInv, NEW t \in Task, NEW j \in Jobs, JobHolds(j), job' = [job EXCEPT ![t] = j],
           {j.buffer, j.copy} \ {None} = At[t],
           NEW b, b \in At[t] \/ b = None, SameBut(b),
           pxInterface' \in [Buffer -> Interface \cup {None}],
           from' \in [Buffer -> Interface \cup {None}],
           UNCHANGED <<free, ring, sent, sockets, rx_desc, txQueue, txRing>>,
           xNetworkEventQueue' \in Seq(Events), EventsOnce(xNetworkEventQueue'),
           Carried(xNetworkEventQueue') = Carried(xNetworkEventQueue),
           \A e \in InSeq(xNetworkEventQueue') : e \in InSeq(xNetworkEventQueue) \/ e = NetworkDown,
           JobFits(job[t])'
    PROVE  IInv' /\ PoolStep
<1>1. PathType /\ Disjoint /\ HoldingInv
  BY DEF IInv
<1>2. /\ job' \in [Task -> Jobs] /\ \A u \in Task \ {t} : job'[u] = job[u]
      /\ \A u \in Task : JobHolds(job'[u])
      /\ At'[t] = At[t] /\ \A u \in Task \ {t} : At'[u] = At[u]
  BY <1>1, JobChanges
<1>3. Stays
  <2>1. \A u \in Task : At'[u] = At[u]
    BY <1>2
  <2> QED
    BY <2>1, AtIs, AtIsNext DEF Stays, Spot, Task
<1>4. PathType'
  BY <1>1, <1>2 DEF PathType
<1>5. HoldingInv'
  BY <1>1, <1>2 DEF HoldingInv, OneToOne, EventsOnce, JobHolds
<1>6. Disjoint' /\ PoolStep
  BY <1>1, <1>3, StayIsGood
<1>7. OriginInv' /\ NeverSentBack'
  BY <1>2, <1>3, StayKeepsOrigins
<1> QED
  BY <1>4, <1>5, <1>6, <1>7 DEF IInv

LEMMA LinkChangesKeeps ==
    ASSUME IInv, LinkChanges
    PROVE  IInv' /\ PoolStep
<1> DEFINE j == Job("down", None)
<1>1. PathType /\ HoldingInv
  BY DEF IInv
<1>2. /\ job["emac"] = Idle /\ job' = [job EXCEPT !["emac"] = j]
      /\ UNCHANGED <<free, pxInterface, from, ring, rx_desc, txQueue, txRing, sent,
                     xNetworkEventQueue, sockets>>
  BY DEF LinkChanges, pool, queues
<1>3. j \in Jobs
  BY DEF Job, Jobs, Steps
<1>4. JobHolds(j) /\ {j.buffer, j.copy} \ {None} = {} /\ j.step = "down"
  BY DEF Job, JobHolds
<1> HIDE DEF j
<1>5. At["emac"] = {}
  BY <1>1, <1>2, JobIs, AtIs, JobTypes, Spots
<1>6. job'["emac"] = j
  BY <1>1, <1>2, <1>3, <1>4, JobChanges, Spots
<1>7. JobFits(job["emac"])'
  BY <1>4, <1>6 DEF JobFits
<1>8. /\ pxInterface' \in [Buffer -> Interface \cup {None}]
      /\ from' \in [Buffer -> Interface \cup {None}] /\ SameBut(None)
      /\ xNetworkEventQueue' \in Seq(Events) /\ EventsOnce(xNetworkEventQueue')
  BY <1>1, <1>2 DEF PathType, HoldingInv, SameBut
<1>9. "emac" \in Task
  BY Spots
<1> QED
  BY <1>2, <1>3, <1>4, <1>5, <1>7, <1>8, <1>9, JobStay

LEMMA SendDownKeeps ==
    ASSUME IInv, SendDown
    PROVE  IInv' /\ PoolStep
<1>1. PathType /\ HoldingInv
  BY DEF IInv
<1>2. /\ job["emac"].step = "down" /\ job' = [job EXCEPT !["emac"] = Idle]
      /\ xNetworkEventQueue' = Append(xNetworkEventQueue, NetworkDown)
      /\ UNCHANGED <<free, pxInterface, from, ring, rx_desc, txQueue, txRing, sent, sockets>>
  BY DEF SendDown, pool
<1>3. "emac" \in Task
  BY Spots
<1>4. At["emac"] = {}
  BY <1>1, <1>2, <1>3, JobIs, AtIs DEF JobHolds
<1>5. JobFits(job["emac"])'
  BY <1>1, <1>2, <1>3, Finishes
<1>6. /\ xNetworkEventQueue' \in Seq(Events) /\ EventsOnce(xNetworkEventQueue')
      /\ InSeq(xNetworkEventQueue') = InSeq(xNetworkEventQueue) \cup {NetworkDown}
      /\ Carried(xNetworkEventQueue') = Carried(xNetworkEventQueue)
  <2>1. /\ xNetworkEventQueue \in Seq(Events) /\ EventsOnce(xNetworkEventQueue)
        /\ NetworkDown \in Events /\ NetworkDown.buffer = None
        /\ NetworkDown.buffer \notin Carried(xNetworkEventQueue)
    BY <1>1, EventTypes DEF PathType, HoldingInv, Carried
  <2> DEFINE e == NetworkDown
  <2> HIDE DEF e
  <2>2. /\ e \in Events /\ e.buffer \notin Carried(xNetworkEventQueue)
        /\ {e.buffer} \ {None} = {}
    BY <2>1 DEF e
  <2>3. /\ Append(xNetworkEventQueue, e) \in Seq(Events) /\ EventsOnce(Append(xNetworkEventQueue, e))
        /\ InSeq(Append(xNetworkEventQueue, e)) = InSeq(xNetworkEventQueue) \cup {e}
        /\ Carried(Append(xNetworkEventQueue, e))
                = Carried(xNetworkEventQueue) \cup ({e.buffer} \ {None})
    BY <2>1, <2>2, PostEvent
  <2> QED
    BY <1>2, <2>2, <2>3 DEF e
<1>7. /\ pxInterface' \in [Buffer -> Interface \cup {None}]
      /\ from' \in [Buffer -> Interface \cup {None}] /\ SameBut(None)
  BY <1>1, <1>2 DEF PathType, SameBut
<1>8. Idle \in Jobs /\ JobHolds(Idle) /\ {Idle.buffer, Idle.copy} \ {None} = {}
  BY JobTypes
<1> QED
  BY <1>2, <1>3, <1>4, <1>5, <1>6, <1>7, <1>8, JobStay

LEMMA EmacLosesKeeps ==
    ASSUME IInv, EmacLoses
    PROVE  IInv' /\ PoolStep
<1>1. UNCHANGED <<free, pxInterface, from, ring, rx_desc, txQueue, txRing, sent,
                  xNetworkEventQueue, sockets, job>>
  BY DEF EmacLoses, pool, queues
<1>2. IInv'
  BY <1>1 DEF IInv, PathType, Disjoint, HoldingInv, OriginInv, NeverSentBack, At, InEvents, InJob,
              JobFits, InSeq, OneToOne, EventsOnce, JobHolds
<1>3. UNCHANGED Pool!poolVars
  BY <1>1 DEF Pool!poolVars, Held, InJob, InSeq, InEvents
<1> QED
  BY <1>2, <1>3 DEF PoolStep

LEMMA SpiReceiveKeeps ==
    ASSUME IInv, SpiReceive
    PROVE  IInv' /\ PoolStep
<1>1. PathType /\ HoldingInv
  BY DEF IInv
<1>2. PICK to \in Decisions("plc") \ {{}} :
        /\ job["spi"] = Idle /\ rx_desc # None /\ rx_desc' = None
        /\ from' = [from EXCEPT ![rx_desc] = "plc"]
        /\ pxInterface' = [pxInterface EXCEPT ![rx_desc] = "plc"]
        /\ job' = [job EXCEPT !["spi"] = Bridged(rx_desc, to)]
        /\ UNCHANGED <<free, ring, txQueue, txRing, sent, xNetworkEventQueue, sockets>>
  BY DEF SpiReceive, queues
<1> DEFINE b == rx_desc
           j == Bridged(b, to)
<1>3. b \in Buffer /\ "plc" \in Interface /\ "spi" \in Task
  BY <1>1, <1>2, Spots DEF PathType, Interface
<1>4. /\ j \in Jobs /\ JobHolds(j) /\ {j.buffer, j.copy} \ {None} = {b}
      /\ j.step \in {"copy", "output"} /\ j.buffer = b /\ j.copy = None
      /\ j.sendTo \in Interface \ {"plc"}
      /\ j.step = "copy" => j.copyTo \in Interface \ {"plc"}
  BY <1>2, <1>3, BridgedIs
<1>5. job' = [job EXCEPT !["spi"] = j]
  BY <1>2
<1> HIDE DEF j
<1>6. /\ job' \in [Task -> Jobs] /\ job'["spi"] = j
      /\ At'["spi"] = {b} /\ \A u \in Task \ {"spi"} : At'[u] = At[u]
  BY <1>1, <1>3, <1>4, <1>5, JobChanges
<1>7. At["spi"] = {}
  BY <1>1, <1>2, <1>3, JobIs, AtIs, JobTypes
<1>8. Moves(b, "rx_desc", "spi")
  BY <1>2, <1>3, <1>6, <1>7, AtIs, AtIsNext, PathAssumption DEF Moves, Spot, Task
<1>9. /\ pxInterface' \in [Buffer -> Interface \cup {None}] /\ pxInterface'[b] = "plc"
      /\ from' \in [Buffer -> Interface \cup {None}] /\ from'[b] = "plc" /\ SameBut(b)
  BY <1>1, <1>2, <1>3 DEF PathType, SameBut
<1>10. PathType'
  BY <1>1, <1>2, <1>6, <1>9 DEF PathType
<1>11. OneToOne(txQueue') /\ OneToOne(txRing') /\ EventsOnce(xNetworkEventQueue')
  BY <1>1, <1>2 DEF HoldingInv
<1>12. JobFits(job["spi"])'
  BY <1>3, <1>4, <1>6, <1>9, PathAssumption DEF JobFits
<1>13. \A e \in InSeq(xNetworkEventQueue') : e \in InSeq(xNetworkEventQueue) /\ e.buffer # b
  BY <1>2, <1>3, <1>8, NoEventOf, Spots DEF Moves
<1> QED
  BY <1>3, <1>4, <1>5, <1>8, <1>9, <1>10, <1>11, <1>12, <1>13, Spots, JobMove

(***************************************************************************)
(* EmacReceive moves two buffers: the received one into the task's hand,   *)
(* which is the driver's as the ring is, and a new one into the ring.      *)
(***************************************************************************)
LEMMA EmacReceiveKeeps ==
    ASSUME IInv, NEW b \in Buffer, EmacReceive(b)
    PROVE  IInv' /\ PoolStep
<1>1. PathType /\ Disjoint /\ HoldingInv
  BY DEF IInv
<1>2. PICK new \in free : ring' = (ring \ {b}) \cup {new} /\ free' = free \ {new}
  BY DEF EmacReceive
<1>3. PICK to \in Decisions("eth") :
        job' = [job EXCEPT !["emac"] = IF to = {} THEN Job("drop", b) ELSE Bridged(b, to)]
  BY DEF EmacReceive
<1>4. /\ job["emac"] = Idle /\ b \in ring
      /\ pxInterface' = [pxInterface EXCEPT ![b] = "eth"] /\ from' = [from EXCEPT ![b] = "eth"]
      /\ UNCHANGED <<rx_desc, txQueue, txRing, sent, xNetworkEventQueue, sockets>>
  BY DEF EmacReceive, queues
<1> DEFINE j == IF to = {} THEN Job("drop", b) ELSE Bridged(b, to)
<1>5. "eth" \in Interface /\ "emac" \in Task /\ new \in Buffer
  BY <1>1, Spots DEF Interface, PathType
<1>6. /\ j \in Jobs /\ JobHolds(j) /\ {j.buffer, j.copy} \ {None} = {b}
      /\ j.step \in {"drop", "copy", "output"} /\ j.buffer = b
      /\ j.step # "drop" => j.sendTo \in Interface \ {"eth"}
      /\ j.step = "copy" => j.copyTo \in Interface \ {"eth"}
  <2>1. CASE to = {}
    BY <2>1, JobTypes
  <2>2. CASE to # {}
    BY <1>5, <2>2, BridgedIs
  <2> QED
    BY <2>1, <2>2
<1>7. job' = [job EXCEPT !["emac"] = j]
  BY <1>3
<1> HIDE DEF j
<1>8. /\ job' \in [Task -> Jobs] /\ job'["emac"] = j /\ \A u \in Task \ {"emac"} : job'[u] = job[u]
      /\ \A u \in Task : JobHolds(job'[u])
      /\ At'["emac"] = {b} /\ \A u \in Task \ {"emac"} : At'[u] = At[u]
  BY <1>1, <1>5, <1>6, <1>7, JobChanges
<1>9. At["emac"] = {} /\ new \in At["free"] /\ b \in At["ring"] /\ new # b
  <2>1. At["emac"] = {} /\ new \in At["free"] /\ b \in At["ring"]
    BY <1>1, <1>4, <1>5, JobIs, AtIs, JobTypes
  <2> QED
    BY <1>1, <2>1 DEF Disjoint, Spot
<1>10. \A s \in Spot : At'[s] = IF s = "free" THEN At[s] \ {new}
                                ELSE IF s = "ring" THEN (At[s] \ {b}) \cup {new}
                                ELSE IF s = "emac" THEN {b} ELSE At[s]
  BY <1>2, <1>4, <1>8, AtIs, AtIsNext DEF Spot, Task
<1>11. /\ pxInterface' \in [Buffer -> Interface \cup {None}] /\ pxInterface'[b] = "eth"
       /\ from' \in [Buffer -> Interface \cup {None}] /\ from'[b] = "eth" /\ SameBut(b)
  BY <1>1, <1>4, <1>5 DEF PathType, SameBut
<1>12. PathType'
  BY <1>1, <1>2, <1>4, <1>5, <1>8, <1>11 DEF PathType
<1>13. HoldingInv'
  BY <1>1, <1>4, <1>8 DEF HoldingInv, OneToOne, EventsOnce, JobHolds
<1>14. /\ \A s \in Spot : b \in At'[s] => s = "emac"
       /\ \A s \in Spot : new \in At'[s] => s = "ring"
       /\ \A s \in Spot : \A c \in At'[s] : c \in {b, new} \/ c \in At[s]
  <2>1. /\ \A s \in Spot : b \in At[s] => s = "ring"
        /\ \A s \in Spot : new \in At[s] => s = "free"
    BY <1>1, <1>9, Spots DEF Disjoint
  <2>2. /\ \A s \in Spot : b \in At'[s] => s = "emac"
        /\ \A s \in Spot : new \in At'[s] => s = "ring"
    BY <1>9, <1>10, <2>1
  <2> QED
    BY <1>10, <2>2
<1>15. Disjoint'
  BY <1>1, <1>14 DEF Disjoint
<1>16. OriginInv' /\ NeverSentBack'
  <2>1. JobFits(job["emac"])'
    BY <1>5, <1>6, <1>8, <1>11, PathAssumption DEF JobFits
  <2>2. \A e \in InSeq(xNetworkEventQueue') : e \in InSeq(xNetworkEventQueue) /\ e.buffer # b
    BY <1>4, <1>9, NoEventOf, Spots
  <2>3. \A s \in Spot \ {"ring"} : At'[s] \subseteq At[s] \cup {b} /\ (b \in At'[s] => s = "emac")
    BY <1>10, <1>14
  <2>4. "ring" \in Spot \ Task /\ "emac" \in Spot
    BY Spots
  <2> QED
    BY <1>8, <1>9, <1>11, <2>1, <2>2, <2>3, <2>4, MoveKeepsOrigins
<1>17. Pool!Get("emac", new)
  <2>1. free' = free \ {new}
    BY <1>2
  <2>2. \A h \in Holder : Held'[h] = IF h = "emac" THEN Held[h] \cup {new} ELSE Held[h]
    <3>1. SUFFICES ASSUME NEW h \in Holder, NEW c
                   PROVE  c \in Held'[h] <=> c \in IF h = "emac" THEN Held[h] \cup {new} ELSE Held[h]
      OBVIOUS
    <3>2. c \in Held[h] <=> \E s \in Spot \ {"free"} : Owner(s) = h /\ c \in At[s]
      BY HeldIs
    <3>3. c \in Held'[h] <=> \E s \in Spot \ {"free"} : Owner(s) = h /\ c \in At'[s]
      BY HeldIsNext
    <3>4. Owner("ring") = "emac" /\ Owner("emac") = "emac" /\ {"ring", "emac"} \subseteq Spot \ {"free"}
      BY DEF Owner, Spot
    <3>5. \A s \in Spot \ {"free", "ring", "emac"} : At'[s] = At[s]
      BY <1>10
    <3>6. c \in At'["ring"] \/ c \in At'["emac"]
            <=> c \in At["ring"] \/ c \in At["emac"] \/ c = new
      BY <1>9, <1>10, <3>4
    <3> QED
      BY <3>2, <3>3, <3>4, <3>5, <3>6
  <2>3. "emac" \in Holder
    BY <1>5 DEF Holder
  <2>4. Held' = [Held EXCEPT !["emac"] = @ \cup {new}]
    BY <2>2, <2>3, HeldIs, HeldIsNext
  <2> QED
    BY <1>2, <2>1, <2>4 DEF Pool!Get
<1>18. PoolStep
  BY <1>5, <1>17 DEF Pool!Next, Holder, PoolStep
<1> QED
  BY <1>12, <1>13, <1>15, <1>16, <1>18 DEF IInv

-----------------------------------------------------------------------------
(***************************************************************************)
(* The IP task and the users of sockets.                                   *)
(***************************************************************************)
\* One buffer in hand, and the frame in it has no interface yet if it is the stack's.
LEMMA JobWith ==
    ASSUME PathType, HoldingInv, NEW t \in Task, NEW b \in Buffer,
           NEW step \in {"output", "drop", "rx", "stacktx", "sendto"},
           job' = [job EXCEPT ![t] = Job(step, b)]
    PROVE  /\ Job(step, b) \in Jobs /\ JobHolds(Job(step, b))
           /\ job' \in [Task -> Jobs]
           /\ job'[t].step = step /\ job'[t].buffer = b
           /\ At'[t] = {b} /\ \A u \in Task \ {t} : At'[u] = At[u]
<1> DEFINE j == Job(step, b)
<1>1. /\ j \in Jobs /\ JobHolds(j) /\ {j.buffer, j.copy} \ {None} = {b}
      /\ j.step = step /\ j.buffer = b
  BY JobTypes
<1> HIDE DEF j
<1>2. job' = [job EXCEPT ![t] = j]
  BY DEF j
<1>3. /\ job' \in [Task -> Jobs] /\ job'[t] = j
      /\ At'[t] = {b} /\ \A u \in Task \ {t} : At'[u] = At[u]
  BY <1>1, <1>2, JobChanges
<1>4. Job(step, b) \in Jobs /\ JobHolds(Job(step, b))
  BY <1>1 DEF j
<1> QED
  BY <1>1, <1>3, <1>4

LEMMA TakeEventKeeps ==
    ASSUME IInv, TakeEvent
    PROVE  IInv' /\ PoolStep
<1> DEFINE q == xNetworkEventQueue
           e == Head(q)
           b == e.buffer
<1>1. PathType /\ HoldingInv
  BY DEF IInv
<1>2. /\ job["ip"] = Idle /\ q # <<>> /\ q' = Tail(q)
      /\ job' = [job EXCEPT !["ip"] = IF e.type = "down" THEN Idle ELSE Job(e.type, b)]
      /\ UNCHANGED <<free, pxInterface, from, ring, rx_desc, txQueue, txRing, sent, sockets>>
  BY DEF TakeEvent, pool
<1>3. /\ e \in Events /\ e \in InSeq(q) /\ q' \in Seq(Events) /\ EventsOnce(q')
      /\ InSeq(q') \subseteq InSeq(q) /\ Carried(q') = Carried(q) \ {b}
      /\ e # NetworkDown => b \in Carried(q)
  BY <1>1, <1>2, NextEvent DEF PathType, HoldingInv
<1>4. At["ip"] = {} /\ "ip" \in Task
  BY <1>1, <1>2, JobIs, AtIs, JobTypes, Spots
<1>5. /\ pxInterface' \in [Buffer -> Interface \cup {None}]
      /\ from' \in [Buffer -> Interface \cup {None}] /\ \A c : SameBut(c)
  BY <1>1, <1>2 DEF PathType, SameBut
<1> HIDE DEF e
<1>6. CASE e = NetworkDown
  <2>1. job' = [job EXCEPT !["ip"] = Idle] /\ b = None
    BY <1>2, <1>6, EventTypes
  <2>2. Carried(q') = Carried(q)
    BY <1>3, <2>1 DEF Carried
  <2>3. JobFits(job["ip"])'
    BY <1>1, <1>4, <2>1, Finishes
  <2>4. Idle \in Jobs /\ JobHolds(Idle) /\ {Idle.buffer, Idle.copy} \ {None} = {}
    BY JobTypes
  <2> QED
    BY <1>2, <1>3, <1>4, <1>5, <2>1, <2>2, <2>3, <2>4, JobStay
<1>7. CASE e # NetworkDown
  <2>1. b \in Buffer /\ e.type \in {"rx", "stacktx"} /\ b \in Carried(q)
    BY <1>3, <1>7, EventTypes
  <2>2. job' = [job EXCEPT !["ip"] = Job(e.type, b)]
    BY <1>2, <2>1
  <2>3. /\ Job(e.type, b) \in Jobs /\ JobHolds(Job(e.type, b)) /\ job' \in [Task -> Jobs]
        /\ job'["ip"].step = e.type /\ job'["ip"].buffer = b
        /\ At'["ip"] = {b} /\ \A u \in Task \ {"ip"} : At'[u] = At[u]
    BY <1>1, <1>4, <2>1, <2>2, JobWith
  <2>4. Moves(b, "events", "ip")
    BY <1>2, <1>3, <1>4, <2>1, <2>3, AtIs, AtIsNext DEF Moves, Spot, Task
  <2>5. PathType'
    BY <1>1, <1>2, <1>3, <1>5, <2>3 DEF PathType
  <2>6. OneToOne(txQueue') /\ OneToOne(txRing')
    BY <1>1, <1>2 DEF HoldingInv
  <2>7. e.type = "stacktx" => pxInterface'[b] = None
    BY <1>2, <1>3 DEF IInv, OriginInv
  <2>8. JobFits(job["ip"])'
    BY <2>1, <2>3, <2>7 DEF JobFits
  <2>9. \A f \in InSeq(q') : f \in InSeq(q) /\ f.buffer # b
    BY <1>3, <2>1, PathAssumption DEF Carried
  <2>10. "events" \in Spot \ (Task \ {"ip"}) /\ "ip" \in Spot \ (Task \ {"ip"})
    BY <1>4, Spots
  <2>11. SameBut(b) /\ EventsOnce(q')
    BY <1>3, <1>5
  <2> DEFINE j == Job(e.type, b)
  <2> HIDE DEF j
  <2>12. j \in Jobs /\ JobHolds(j) /\ job' = [job EXCEPT !["ip"] = j]
    BY <2>2, <2>3 DEF j
  <2> QED
    BY <1>4, <2>1, <2>4, <2>5, <2>6, <2>8, <2>9, <2>10, <2>11, <2>12, JobMove
<1> QED
  BY <1>6, <1>7

(***************************************************************************)
(* A task is done with one of its buffers.                                 *)
(***************************************************************************)
DoneWith(t, b, j) ==
    /\ j \in Jobs /\ JobHolds(j) /\ job' = [job EXCEPT ![t] = j]
    /\ b \in At[t] /\ {j.buffer, j.copy} \ {None} = At[t] \ {b}
    /\ SameBut(b) => JobFits(job[t])'

LEMMA ReleasedBy ==
    ASSUME IInv, NEW t \in Task, NEW b \in Buffer, NEW j, DoneWith(t, b, j), Release(b),
           UNCHANGED <<ring, rx_desc, txQueue, txRing, sent, xNetworkEventQueue, sockets>>
    PROVE  IInv' /\ PoolStep
<1>1. PathType /\ HoldingInv
  BY DEF IInv
<1>2. /\ j \in Jobs /\ JobHolds(j) /\ job' = [job EXCEPT ![t] = j]
      /\ b \in At[t] /\ {j.buffer, j.copy} \ {None} = At[t] \ {b}
      /\ SameBut(b) => JobFits(job[t])'
  BY DEF DoneWith
<1>3. /\ free' = free \cup {b} /\ free' \subseteq Buffer
      /\ pxInterface' \in [Buffer -> Interface \cup {None}]
      /\ from' \in [Buffer -> Interface \cup {None}]
      /\ pxInterface'[b] = None /\ SameBut(b)
  BY <1>1, ReleaseIs
<1>4. /\ job' \in [Task -> Jobs]
      /\ At'[t] = At[t] \ {b} /\ \A u \in Task \ {t} : At'[u] = At[u]
  BY <1>1, <1>2, JobChanges
<1>5. Moves(b, t, "free")
  BY <1>2, <1>3, <1>4, AtIs, AtIsNext DEF Moves, Spot, Task
<1>6. PathType'
  BY <1>1, <1>3, <1>4 DEF PathType
<1>7. OneToOne(txQueue') /\ OneToOne(txRing') /\ EventsOnce(xNetworkEventQueue')
  BY <1>1 DEF HoldingInv
<1>8. \A e \in InSeq(xNetworkEventQueue') : e \in InSeq(xNetworkEventQueue) /\ e.buffer # b
  BY <1>2, NoEventOf, Spots
<1>9. "free" \in Spot \ (Task \ {t}) /\ t \in Spot \ (Task \ {t})
  BY Spots
<1> QED
  BY <1>2, <1>3, <1>5, <1>6, <1>7, <1>8, <1>9, JobMove

LEMMA PostedBy ==
    ASSUME IInv, NEW t \in Task, NEW b \in Buffer, NEW j, DoneWith(t, b, j), SameBut(b),
           NEW e \in Events, e.buffer = b,
           xNetworkEventQueue' = Append(xNetworkEventQueue, e),
           pxInterface' \in [Buffer -> Interface \cup {None}], UNCHANGED from,
           e.type = "rx" => from[b] # "bridge",
           e.type = "stacktx" => pxInterface'[b] = None,
           UNCHANGED <<free, ring, rx_desc, txQueue, txRing, sent, sockets>>
    PROVE  IInv' /\ PoolStep
<1>1. PathType /\ HoldingInv
  BY DEF IInv
<1>2. /\ j \in Jobs /\ JobHolds(j) /\ job' = [job EXCEPT ![t] = j]
      /\ b \in At[t] /\ {j.buffer, j.copy} \ {None} = At[t] \ {b}
      /\ JobFits(job[t])'
  BY DEF DoneWith
<1>3. \A f \in InSeq(xNetworkEventQueue) : f.buffer # b
  BY <1>2, NoEventOf, Spots
<1>4. /\ xNetworkEventQueue' \in Seq(Events) /\ EventsOnce(xNetworkEventQueue')
      /\ InSeq(xNetworkEventQueue') = InSeq(xNetworkEventQueue) \cup {e}
      /\ Carried(xNetworkEventQueue') = Carried(xNetworkEventQueue) \cup ({e.buffer} \ {None})
  <2>1. xNetworkEventQueue \in Seq(Events) /\ EventsOnce(xNetworkEventQueue)
    BY <1>1 DEF PathType, HoldingInv
  <2>2. e.buffer \notin Carried(xNetworkEventQueue)
    BY <1>3 DEF Carried
  <2> QED
    BY <2>1, <2>2, PostEvent
<1>5. /\ job' \in [Task -> Jobs]
      /\ At'[t] = At[t] \ {b} /\ \A u \in Task \ {t} : At'[u] = At[u]
  BY <1>1, <1>2, JobChanges
<1>6. Moves(b, t, "events")
  <2>1. At'["events"] = At["events"] \cup {b}
    BY <1>4, AtIs, AtIsNext, PathAssumption
  <2>2. \A s \in Spot \ (Task \cup {"events"}) : At'[s] = At[s]
    BY AtIs, AtIsNext DEF Spot, Task
  <2>3. t # "events"
    BY DEF Task
  <2> QED
    BY <1>2, <1>5, <2>1, <2>2, <2>3 DEF Moves
<1>7. PathType'
  BY <1>1, <1>4, <1>5 DEF PathType
<1>8. OneToOne(txQueue') /\ OneToOne(txRing')
  BY <1>1 DEF HoldingInv
<1>9. \A f \in InSeq(xNetworkEventQueue') :
        /\ f \in InSeq(xNetworkEventQueue) \/ f.buffer = b
        /\ f.buffer = b => f = e
  BY <1>3, <1>4
<1>10. \A f \in InSeq(xNetworkEventQueue') : f.buffer = b =>
         /\ f.type = "rx" => from'[b] # "bridge"
         /\ f.type = "stacktx" => pxInterface'[b] = None
  BY <1>9
<1>11. "events" \in Spot \ (Task \ {t}) /\ t \in Spot \ (Task \ {t})
  BY Spots
<1> QED
  <2>1. EventsOnce(xNetworkEventQueue') /\ b \in Buffer /\ t \in Task
    BY <1>4
  <2>2. \A f \in InSeq(xNetworkEventQueue') : f \in InSeq(xNetworkEventQueue) \/ f.buffer = b
    BY <1>9
  <2> QED
    BY <1>2, <1>6, <1>7, <1>8, <1>10, <1>11, <2>1, <2>2, JobMove

\* The task has nothing else in hand.
LEMMA DoneWithAll ==
    ASSUME IInv, NEW t \in Task, NEW b \in Buffer,
           NEW step \in {"output", "drop", "rx", "stacktx", "sendto"}, job[t] = Job(step, b),
           job' = [job EXCEPT ![t] = Idle]
    PROVE  DoneWith(t, b, Idle)
<1>1. PathType /\ HoldingInv
  BY DEF IInv
<1>2. At[t] = {b}
  BY <1>1, OneBuffer
<1>3. JobFits(job[t])'
  BY <1>1, Finishes
<1>4. Idle \in Jobs /\ JobHolds(Idle) /\ {Idle.buffer, Idle.copy} \ {None} = {}
  BY JobTypes
<1> QED
  BY <1>2, <1>3, <1>4 DEF DoneWith

LEMMA FinishSendToKeeps ==
    ASSUME IInv, NEW b \in Buffer, FinishSendTo(b)
    PROVE  IInv' /\ PoolStep
<1>1. PathType /\ OriginInv
  BY DEF IInv
<1>2. /\ job["user"] = Job("sendto", b) /\ job' = [job EXCEPT !["user"] = Idle]
      /\ UNCHANGED <<ring, rx_desc, txQueue, txRing, sent, sockets>>
  BY DEF FinishSendTo
<1>3. DoneWith("user", b, Idle) /\ "user" \in Task
  BY <1>2, DoneWithAll, Spots
<1>4. pxInterface[b] = None
  <2>1. JobFits(job["user"])
    BY <1>1, <1>3 DEF OriginInv
  <2>2. job["user"].step = "sendto" /\ job["user"].buffer = b
    BY <1>2, <1>3, OneBuffer DEF IInv
  <2> QED
    BY <2>1, <2>2 DEF JobFits
<1>5. CASE /\ xNetworkEventQueue' = Append(xNetworkEventQueue, StackTx(b))
           /\ UNCHANGED <<free, pxInterface, from>>
  <2> DEFINE e == StackTx(b)
  <2>1. e \in Events /\ e.buffer = b /\ e.type = "stacktx"
    BY EventTypes
  <2>2. xNetworkEventQueue' = Append(xNetworkEventQueue, e)
    BY <1>5
  <2> HIDE DEF e
  <2>3. /\ SameBut(b) /\ pxInterface' \in [Buffer -> Interface \cup {None}]
        /\ pxInterface'[b] = None
    BY <1>1, <1>4, <1>5 DEF SameBut, PathType
  <2> QED
    BY <1>2, <1>3, <1>5, <2>1, <2>2, <2>3, PostedBy
<1>6. CASE Release(b) /\ UNCHANGED xNetworkEventQueue
  BY <1>2, <1>3, <1>6, ReleasedBy
<1> QED
  BY <1>5, <1>6 DEF FinishSendTo, pool

\* The IP task is to send the device's frame in b.
LEMMA SendIs ==
    ASSUME PathType, HoldingInv, NEW b \in Buffer, Send(b), pxInterface'[b] = None
    PROVE  \E j \in Jobs :
            /\ JobHolds(j) /\ job' = [job EXCEPT !["ip"] = j]
            /\ {j.buffer, j.copy} \ {None} = {b}
            /\ job' \in [Task -> Jobs] /\ JobFits(job["ip"])'
            /\ At'["ip"] = {b} /\ \A u \in Task \ {"ip"} : At'[u] = At[u]
<1> DEFINE j == [step |-> "output", buffer |-> b, copy |-> None,
                 sendTo |-> "bridge", copyTo |-> None]
<1>1. /\ from' = [from EXCEPT ![b] = "bridge"] /\ job' = [job EXCEPT !["ip"] = j]
  BY DEF Send
<1>2. j \in Jobs
  BY DEF Jobs, Steps, Interface
<1>3. JobHolds(j) /\ {j.buffer, j.copy} \ {None} = {b}
      /\ j.step = "output" /\ j.buffer = b /\ j.sendTo = "bridge"
  BY PathAssumption DEF JobHolds
<1> HIDE DEF j
<1>4. /\ job' \in [Task -> Jobs] /\ job'["ip"] = j
      /\ At'["ip"] = {b} /\ \A u \in Task \ {"ip"} : At'[u] = At[u]
  BY <1>1, <1>2, <1>3, JobChanges, Spots
<1>5. from'[b] = "bridge"
  BY <1>1 DEF PathType
<1>6. JobFits(job["ip"])'
  BY <1>3, <1>4, <1>5 DEF JobFits
<1> QED
  BY <1>1, <1>2, <1>3, <1>4, <1>6

LEMMA SendStays ==
    ASSUME IInv, NEW b \in Buffer, NEW step \in {"rx", "stacktx"}, job["ip"] = Job(step, b),
           Send(b), pxInterface' = [pxInterface EXCEPT ![b] = None],
           UNCHANGED <<free, ring, rx_desc, txQueue, txRing, sent, xNetworkEventQueue, sockets>>
    PROVE  IInv' /\ PoolStep
<1>1. PathType /\ HoldingInv
  BY DEF IInv
<1>2. /\ pxInterface' \in [Buffer -> Interface \cup {None}] /\ pxInterface'[b] = None
      /\ from' \in [Buffer -> Interface \cup {None}] /\ SameBut(b)
  BY <1>1 DEF PathType, SameBut, Send, Interface
<1>3. At["ip"] = {b}
  BY <1>1, OneBuffer, Spots
<1>4. PICK j \in Jobs : /\ JobHolds(j) /\ job' = [job EXCEPT !["ip"] = j]
                        /\ {j.buffer, j.copy} \ {None} = {b} /\ JobFits(job["ip"])'
  BY <1>1, <1>2, SendIs
<1>5. /\ xNetworkEventQueue' \in Seq(Events) /\ EventsOnce(xNetworkEventQueue')
      /\ Carried(xNetworkEventQueue') = Carried(xNetworkEventQueue)
      /\ InSeq(xNetworkEventQueue') = InSeq(xNetworkEventQueue)
  BY <1>1 DEF PathType, HoldingInv
<1> QED
  BY <1>2, <1>3, <1>4, <1>5, Spots, JobStay

LEMMA ProcessGeneratedUDPPacketKeeps ==
    ASSUME IInv, NEW b \in Buffer, ProcessGeneratedUDPPacket(b)
    PROVE  IInv' /\ PoolStep
<1>1. /\ job["ip"] = Job("stacktx", b)
      /\ UNCHANGED <<ring, rx_desc, txQueue, txRing, sent, xNetworkEventQueue, sockets>>
  BY DEF ProcessGeneratedUDPPacket, queues
<1>2. CASE Send(b) /\ UNCHANGED <<free, pxInterface>>
  <2>1. pxInterface[b] = None
    <3>1. job["ip"].step = "stacktx" /\ job["ip"].buffer = b
      BY <1>1, OneBuffer, Spots DEF IInv
    <3> QED
      BY <3>1, Spots DEF IInv, OriginInv, JobFits
  <2>2. pxInterface' = [pxInterface EXCEPT ![b] = None]
    BY <1>2, <2>1 DEF IInv, PathType
  <2> QED
    BY <1>1, <1>2, <2>2, SendStays
<1>3. CASE Release(b) /\ job' = [job EXCEPT !["ip"] = Idle]
  BY <1>1, <1>3, DoneWithAll, ReleasedBy, Spots
<1> QED
  BY <1>2, <1>3 DEF ProcessGeneratedUDPPacket

LEMMA ProcessEthernetPacketKeeps ==
    ASSUME IInv, NEW b \in Buffer, ProcessEthernetPacket(b)
    PROVE  IInv' /\ PoolStep
<1>1. PathType /\ HoldingInv
  BY DEF IInv
<1>2. /\ job["ip"] = Job("rx", b)
      /\ UNCHANGED <<ring, rx_desc, txQueue, txRing, sent, xNetworkEventQueue>>
  BY DEF ProcessEthernetPacket, queues
<1>3. CASE Release(b) /\ job' = [job EXCEPT !["ip"] = Idle] /\ UNCHANGED sockets
  BY <1>2, <1>3, DoneWithAll, ReleasedBy, Spots
<1>4. CASE /\ WithoutInterface(b) /\ sockets' = sockets \cup {b}
           /\ from' = [from EXCEPT ![b] = "bridge"]
           /\ job' = [job EXCEPT !["ip"] = Idle] /\ UNCHANGED free
  <2>1. /\ pxInterface' \in [Buffer -> Interface \cup {None}] /\ pxInterface'[b] = None
        /\ from' \in [Buffer -> Interface \cup {None}] /\ SameBut(b)
    BY <1>1, <1>4 DEF PathType, SameBut, WithoutInterface, Interface
  <2>2. At["ip"] = {b}
    BY <1>1, <1>2, OneBuffer, Spots
  <2>3. /\ job' \in [Task -> Jobs] /\ JobFits(job["ip"])'
        /\ At'["ip"] = {} /\ \A u \in Task \ {"ip"} : At'[u] = At[u]
    BY <1>1, <1>4, Finishes, Spots
  <2>4. Moves(b, "ip", "sockets")
    BY <1>2, <1>4, <2>2, <2>3, AtIs, AtIsNext DEF Moves, Spot, Task
  <2>5. PathType'
    BY <1>1, <1>2, <1>4, <2>1, <2>3 DEF PathType
  <2>6. OneToOne(txQueue') /\ OneToOne(txRing') /\ EventsOnce(xNetworkEventQueue')
    BY <1>1, <1>2 DEF HoldingInv
  <2>7. \A e \in InSeq(xNetworkEventQueue') : e \in InSeq(xNetworkEventQueue) /\ e.buffer # b
    BY <1>2, <2>2, NoEventOf, Spots
  <2>8. Idle \in Jobs /\ JobHolds(Idle)
    BY JobTypes
  <2> QED
    BY <1>4, <2>1, <2>3, <2>4, <2>5, <2>6, <2>7, <2>8, Spots, JobMove
<1>5. CASE WithoutInterface(b) /\ Send(b) /\ UNCHANGED <<free, sockets>>
  BY <1>2, <1>5, SendStays DEF WithoutInterface
<1> QED
  BY <1>3, <1>4, <1>5 DEF ProcessEthernetPacket

LEMMA SendOwnKeeps ==
    ASSUME IInv, NEW b \in Buffer, SendOwn(b)
    PROVE  IInv' /\ PoolStep
<1>1. PathType /\ HoldingInv
  BY DEF IInv
<1>2. /\ job["ip"] = Idle /\ b \in free \cup sockets
      /\ free' = free \ {b} /\ sockets' = sockets \ {b} /\ Send(b)
      /\ UNCHANGED <<pxInterface, ring, rx_desc, txQueue, txRing, sent, xNetworkEventQueue>>
  BY DEF SendOwn, queues
<1>3. pxInterface'[b] = None
  BY <1>2 DEF IInv, OriginInv
<1>4. PICK j \in Jobs : /\ JobHolds(j) /\ job' = [job EXCEPT !["ip"] = j]
                        /\ job' \in [Task -> Jobs] /\ JobFits(job["ip"])'
                        /\ At'["ip"] = {b} /\ \A u \in Task \ {"ip"} : At'[u] = At[u]
  BY <1>1, <1>2, <1>3, SendIs
<1>5. At["ip"] = {}
  BY <1>1, <1>2, JobIs, AtIs, JobTypes, Spots
<1>6. /\ pxInterface' \in [Buffer -> Interface \cup {None}]
      /\ from' \in [Buffer -> Interface \cup {None}] /\ SameBut(b)
  BY <1>1, <1>2 DEF PathType, SameBut, Send, Interface
<1>7. PathType'
  BY <1>1, <1>2, <1>4, <1>6 DEF PathType
<1>8. OneToOne(txQueue') /\ OneToOne(txRing') /\ EventsOnce(xNetworkEventQueue')
  BY <1>1, <1>2 DEF HoldingInv
<1>9. ASSUME NEW p \in {"free", "sockets"}, b \in At[p]
      PROVE  IInv' /\ PoolStep
  <2>1. free' = (IF p = "free" THEN free \ {b} ELSE free)
        /\ sockets' = (IF p = "sockets" THEN sockets \ {b} ELSE sockets)
    <3>1. \A r \in {"free", "sockets"} : b \in At[r] => r = p
      BY <1>9 DEF IInv, Disjoint, Spot
    <3> QED
      BY <1>2, <3>1, AtIs
  <2>2. Moves(b, p, "ip")
    BY <1>2, <1>4, <1>5, <1>9, <2>1, AtIs, AtIsNext DEF Moves, Spot, Task
  <2>3. p \in Spot \ (Task \ {"ip"}) /\ p \in Spot \ {"events"} /\ "ip" \in Spot \ (Task \ {"ip"})
    BY Spots DEF Spot, Task
  <2>4. \A e \in InSeq(xNetworkEventQueue') : e \in InSeq(xNetworkEventQueue) /\ e.buffer # b
    BY <1>2, <1>9, <2>3, NoEventOf
  <2> QED
    BY <1>4, <1>6, <1>7, <1>8, <2>2, <2>3, <2>4, Spots, JobMove
<1> QED
  BY <1>2, <1>9, AtIs

LEMMA SendToKeeps ==
    ASSUME IInv, NEW b \in Buffer, SendTo(b)
    PROVE  IInv' /\ PoolStep
<1>1. PathType /\ HoldingInv
  BY DEF IInv
<1>2. /\ job["user"] = Idle /\ b \in free /\ free' = free \ {b}
      /\ from' = [from EXCEPT ![b] = "bridge"]
      /\ UNCHANGED <<pxInterface, ring, rx_desc, txQueue, txRing, sent, xNetworkEventQueue, sockets>>
  BY DEF SendTo, queues
<1> DEFINE j == Job("sendto", b)
<1>3. job' = [job EXCEPT !["user"] = j] /\ "user" \in Task
  BY Spots DEF SendTo
<1>4. /\ j \in Jobs /\ JobHolds(j) /\ job' \in [Task -> Jobs]
      /\ job'["user"].step = "sendto" /\ job'["user"].buffer = b
      /\ At'["user"] = {b} /\ \A u \in Task \ {"user"} : At'[u] = At[u]
  BY <1>1, <1>3, JobWith
<1> HIDE DEF j
<1>5. At["user"] = {}
  BY <1>1, <1>2, <1>3, JobIs, AtIs, JobTypes
<1>6. /\ pxInterface' \in [Buffer -> Interface \cup {None}] /\ pxInterface'[b] = None
      /\ from' \in [Buffer -> Interface \cup {None}] /\ SameBut(b)
  BY <1>1, <1>2 DEF PathType, SameBut, Interface, IInv, OriginInv
<1>7. JobFits(job["user"])'
  BY <1>4, <1>6 DEF JobFits
<1>8. Moves(b, "free", "user")
  BY <1>2, <1>4, <1>5, AtIs, AtIsNext DEF Moves, Spot, Task
<1>9. PathType'
  BY <1>1, <1>2, <1>4, <1>6 DEF PathType
<1>10. OneToOne(txQueue') /\ OneToOne(txRing') /\ EventsOnce(xNetworkEventQueue')
  BY <1>1, <1>2 DEF HoldingInv
<1>11. \A e \in InSeq(xNetworkEventQueue') : e \in InSeq(xNetworkEventQueue) /\ e.buffer # b
  BY <1>2, AtIs, NoEventOf, Spots
<1>12. "free" \in Spot \ (Task \ {"user"}) /\ "user" \in Spot \ (Task \ {"user"})
  BY <1>3, Spots
<1> QED
  BY <1>3, <1>4, <1>6, <1>7, <1>8, <1>9, <1>10, <1>11, <1>12, JobMove

-----------------------------------------------------------------------------
(***************************************************************************)
(* The bridge and the output functions.                                    *)
(***************************************************************************)
LEMMA GoOnIs ==
    ASSUME NEW j \in Jobs, NEW step \in Steps, NEW copy \in Buffer \cup {None}
    PROVE  LET k == GoOn(j, step, copy) IN
           /\ k \in Jobs /\ k.step = step /\ k.buffer = j.buffer /\ k.copy = copy
           /\ k.sendTo = j.sendTo /\ k.copyTo = j.copyTo
<1> DEFINE k == GoOn(j, step, copy)
<1>1. /\ j.buffer \in Buffer \cup {None}
      /\ j.sendTo \in Interface \cup {None} /\ j.copyTo \in Interface \cup {None}
  BY DEF Jobs
<1>2. k \in Jobs
  BY <1>1 DEF GoOn, Jobs
<1> QED
  BY <1>2 DEF GoOn

\* A task that has output a buffer is done with it.
LEMMA OutputDone ==
    ASSUME IInv, NEW t \in Task, NEW b \in Buffer, NEW iface \in Interface,
           Outputs(t, iface, b), AfterOutput(t)
    PROVE  /\ \E j : DoneWith(t, b, j)
           /\ iface # "bridge" => from[b] # iface
           /\ iface = "bridge" /\ pxInterface[b] # None => from[b] # "bridge"
<1> DEFINE j == job[t]
<1>1. PathType /\ HoldingInv /\ JobFits(j)
  BY DEF IInv, OriginInv
<1>2. /\ j \in Jobs /\ JobHolds(j) /\ At[t] = {j.buffer, j.copy} \ {None}
      /\ j.step \notin {"idle", "down"} => j.buffer \in Buffer
      /\ j.step = "copied" => j.copy \in Buffer \ {j.buffer}
      /\ j.step # "copied" => j.copy = None
  BY <1>1, JobIs, AtIs
<1>3. CASE j.step = "copied" /\ iface = j.copyTo /\ b = j.copy
  <2> DEFINE k == GoOn(j, "output", None)
  <2>1. job' = [job EXCEPT ![t] = k]
    BY <1>3 DEF AfterOutput
  <2>2. /\ k \in Jobs /\ k.step = "output" /\ k.buffer = j.buffer /\ k.copy = None
        /\ k.sendTo = j.sendTo
    <3>1. "output" \in Steps /\ None \in Buffer \cup {None} /\ j \in Jobs
      BY <1>2 DEF Steps
    <3> HIDE DEF j
    <3> QED
      BY <3>1, GoOnIs
  <2> HIDE DEF k
  <2>3. JobHolds(k)
    BY <1>2, <1>3, <2>2, PathAssumption DEF JobHolds
  <2>4. job'[t] = k
    BY <1>1, <2>1, <2>2, <2>3, JobChanges
  <2>5. /\ pxInterface[j.buffer] # None /\ j.sendTo # from[j.buffer]
        /\ iface # from[j.buffer] /\ from[b] = from[j.buffer]
    BY <1>1, <1>3 DEF JobFits
  <2>6. SameBut(b) => JobFits(job[t])'
    <3>1. SUFFICES ASSUME SameBut(b) PROVE JobFits(job[t])'
      OBVIOUS
    <3>2. /\ pxInterface'[j.buffer] = pxInterface[j.buffer]
          /\ from'[j.buffer] = from[j.buffer]
      BY <1>2, <1>3, <3>1 DEF SameBut
    <3> QED
      BY <2>2, <2>4, <2>5, <3>2 DEF JobFits
  <2>7. b \in At[t] /\ {k.buffer, k.copy} \ {None} = At[t] \ {b}
    BY <1>2, <1>3, <2>2, PathAssumption
  <2>8. DoneWith(t, b, k)
    BY <2>1, <2>2, <2>3, <2>6, <2>7 DEF DoneWith
  <2> QED
    BY <2>5, <2>8
<1>4. CASE j.step = "output" /\ iface = j.sendTo /\ b = j.buffer
  <2>1. job' = [job EXCEPT ![t] = Idle]
    BY <1>4 DEF AfterOutput
  <2>2. JobFits(job[t])'
    BY <1>1, <2>1, Finishes
  <2>3. b \in At[t] /\ At[t] \ {b} = {}
    BY <1>2, <1>4, PathAssumption
  <2>4. DoneWith(t, b, Idle)
    BY <2>1, <2>2, <2>3, JobTypes DEF DoneWith
  <2>5. /\ iface # "bridge" => from[b] # iface
        /\ iface = "bridge" /\ pxInterface[b] # None => from[b] # "bridge"
    BY <1>1, <1>4 DEF JobFits
  <2> QED
    BY <2>4, <2>5
<1> QED
  BY <1>3, <1>4 DEF Outputs

\* A task's buffer goes into a driver's queue.
LEMMA OutputPlcKeeps ==
    ASSUME IInv, NEW t \in Task, NEW b \in Buffer, OutputPlc(t, b)
    PROVE  IInv' /\ PoolStep
<1>1. PathType /\ HoldingInv /\ Disjoint
  BY DEF IInv
<1>2. /\ txQueue' = IF Len(txQueue) < QueueLength THEN Append(txQueue, b) ELSE txQueue
      /\ UNCHANGED <<free, pxInterface, from, ring, rx_desc, txRing, sent, xNetworkEventQueue,
                     sockets>>
  BY DEF OutputPlc, pool
<1>3. (\E j : DoneWith(t, b, j)) /\ from[b] # "plc"
  BY OutputDone DEF OutputPlc, Interface
<1>4. PICK j \in Jobs : /\ JobHolds(j) /\ job' = [job EXCEPT ![t] = j]
                        /\ b \in At[t] /\ {j.buffer, j.copy} \ {None} = At[t] \ {b}
                        /\ SameBut(b) => JobFits(job[t])'
  BY <1>3 DEF DoneWith
<1>5. b \notin InSeq(txQueue) /\ t # "txQueue"
  BY <1>1, <1>4, AtIs DEF Disjoint, Spot, Task
<1>6. Len(txQueue) < QueueLength
  BY <1>1, <1>5, RoomForOne DEF PathType, HoldingInv
<1>7. /\ txQueue' = Append(txQueue, b) /\ txQueue' \in Seq(Buffer) /\ OneToOne(txQueue')
      /\ InSeq(txQueue') = InSeq(txQueue) \cup {b}
  BY <1>1, <1>2, <1>5, <1>6, AppendToQueue DEF PathType, HoldingInv
<1>8. /\ job' \in [Task -> Jobs]
      /\ At'[t] = At[t] \ {b} /\ \A u \in Task \ {t} : At'[u] = At[u]
  BY <1>1, <1>4, JobChanges
<1>9. Moves(b, t, "txQueue")
  BY <1>2, <1>4, <1>5, <1>7, <1>8, AtIs, AtIsNext DEF Moves, Spot, Task
<1>10. SameBut(b) /\ from'[b] # "plc"
  BY <1>2, <1>3 DEF SameBut
<1>11. PathType'
  BY <1>1, <1>2, <1>7, <1>8 DEF PathType
<1>12. OneToOne(txQueue') /\ OneToOne(txRing') /\ EventsOnce(xNetworkEventQueue')
  BY <1>1, <1>2, <1>7 DEF HoldingInv
<1>13. \A e \in InSeq(xNetworkEventQueue') : e \in InSeq(xNetworkEventQueue) /\ e.buffer # b
  BY <1>2, <1>4, NoEventOf, Spots
<1>14. "txQueue" \in Spot \ (Task \ {t}) /\ t \in Spot \ (Task \ {t})
  BY Spots
<1>15. JobFits(job[t])'
  BY <1>4, <1>10
<1> QED
  BY <1>4, <1>9, <1>10, <1>11, <1>12, <1>13, <1>14, <1>15, JobMove

LEMMA OutputEthKeeps ==
    ASSUME IInv, NEW t \in Task, NEW b \in Buffer, OutputEth(t, b)
    PROVE  IInv' /\ PoolStep
<1>1. PathType /\ HoldingInv /\ Disjoint
  BY DEF IInv
<1>2. UNCHANGED <<ring, rx_desc, txQueue, sent, xNetworkEventQueue, sockets>>
  BY DEF OutputEth
<1>3. (\E j : DoneWith(t, b, j)) /\ from[b] # "eth"
  BY OutputDone DEF OutputEth, Interface
<1>4. CASE Release(b) /\ UNCHANGED txRing
  BY <1>2, <1>3, <1>4, ReleasedBy
<1>5. CASE txRing' = Append(txRing, b) /\ UNCHANGED <<free, pxInterface, from>>
  <2>1. PICK j \in Jobs : /\ JobHolds(j) /\ job' = [job EXCEPT ![t] = j]
                          /\ b \in At[t] /\ {j.buffer, j.copy} \ {None} = At[t] \ {b}
                          /\ SameBut(b) => JobFits(job[t])'
    BY <1>3 DEF DoneWith
  <2>2. b \notin InSeq(txRing) /\ t # "txRing"
    BY <1>1, <2>1, AtIs DEF Disjoint, Spot, Task
  <2>3. /\ txRing' \in Seq(Buffer) /\ OneToOne(txRing')
        /\ InSeq(txRing') = InSeq(txRing) \cup {b}
    BY <1>1, <1>5, <2>2, AppendToQueue DEF PathType, HoldingInv
  <2>4. /\ job' \in [Task -> Jobs]
        /\ At'[t] = At[t] \ {b} /\ \A u \in Task \ {t} : At'[u] = At[u]
    BY <1>1, <2>1, JobChanges
  <2>5. Moves(b, t, "txRing")
    BY <1>2, <1>5, <2>1, <2>2, <2>3, <2>4, AtIs, AtIsNext DEF Moves, Spot, Task
  <2>6. SameBut(b) /\ from'[b] # "eth"
    BY <1>3, <1>5 DEF SameBut
  <2>7. PathType'
    BY <1>1, <1>2, <1>5, <2>3, <2>4 DEF PathType
  <2>8. OneToOne(txQueue') /\ OneToOne(txRing') /\ EventsOnce(xNetworkEventQueue')
    BY <1>1, <1>2, <2>3 DEF HoldingInv
  <2>9. \A e \in InSeq(xNetworkEventQueue') : e \in InSeq(xNetworkEventQueue) /\ e.buffer # b
    BY <1>2, <2>1, NoEventOf, Spots
  <2>10. "txRing" \in Spot \ (Task \ {t}) /\ t \in Spot \ (Task \ {t})
    BY Spots
  <2>11. JobFits(job[t])'
    BY <2>1, <2>6
  <2> QED
    BY <2>1, <2>5, <2>6, <2>7, <2>8, <2>9, <2>10, <2>11, JobMove
<1> QED
  BY <1>4, <1>5 DEF OutputEth, pool

LEMMA OutputDeviceKeeps ==
    ASSUME IInv, NEW t \in Task, NEW b \in Buffer, OutputDevice(t, b)
    PROVE  IInv' /\ PoolStep
<1>1. PathType /\ HoldingInv
  BY DEF IInv
<1>2. UNCHANGED <<ring, rx_desc, txQueue, txRing, sent, sockets>>
  BY DEF OutputDevice
<1>3. (\E j : DoneWith(t, b, j)) /\ from[b] # "bridge"
  BY OutputDone DEF OutputDevice, Interface
<1>4. CASE Release(b) /\ UNCHANGED xNetworkEventQueue
  BY <1>2, <1>3, <1>4, ReleasedBy
<1>5. CASE /\ xNetworkEventQueue' = Append(xNetworkEventQueue, Rx(b))
           /\ pxInterface' = [pxInterface EXCEPT ![b] = "bridge"] /\ UNCHANGED <<free, from>>
  <2> DEFINE e == Rx(b)
  <2>1. e \in Events /\ e.buffer = b /\ e.type = "rx"
    BY EventTypes
  <2>2. xNetworkEventQueue' = Append(xNetworkEventQueue, e)
    BY <1>5
  <2> HIDE DEF e
  <2>3. SameBut(b) /\ pxInterface' \in [Buffer -> Interface \cup {None}]
    BY <1>1, <1>5 DEF SameBut, PathType, Interface
  <2> QED
    BY <1>2, <1>3, <1>5, <2>1, <2>2, <2>3, PostedBy
<1> QED
  BY <1>4, <1>5 DEF OutputDevice

LEMMA OutputFromDeviceKeeps ==
    ASSUME IInv, NEW t \in Task, NEW b \in Buffer, OutputFromDevice(t, b)
    PROVE  IInv' /\ PoolStep
<1>1. PathType /\ HoldingInv /\ JobFits(job[t])
  BY DEF IInv, OriginInv
<1>2. /\ Outputs(t, "bridge", b) /\ pxInterface[b] = None
      /\ UNCHANGED <<ring, rx_desc, txQueue, txRing, sent, xNetworkEventQueue, sockets>>
  BY DEF OutputFromDevice, queues
<1>3. job[t].step = "output" /\ job[t].buffer = b /\ from[b] = "bridge"
  BY <1>1, <1>2 DEF Outputs, JobFits
<1>4. At[t] = {b}
  BY <1>1, <1>3, JobIs, AtIs, PathAssumption
<1>5. CASE Release(b) /\ job' = [job EXCEPT ![t] = Idle]
  <2>1. JobFits(job[t])'
    BY <1>1, <1>5, Finishes
  <2>2. DoneWith(t, b, Idle)
    BY <1>4, <1>5, <2>1, JobTypes DEF DoneWith
  <2> QED
    BY <1>2, <1>5, <2>2, ReleasedBy
<1>6. ASSUME NEW to \in Decisions("bridge"), to # {},
             pxInterface' = [pxInterface EXCEPT ![b] = "bridge"],
             job' = [job EXCEPT ![t] = Bridged(b, to)], UNCHANGED <<free, from>>
      PROVE  IInv' /\ PoolStep
  <2> DEFINE j == Bridged(b, to)
  <2>1. "bridge" \in Interface
    BY DEF Interface
  <2>2. /\ j \in Jobs /\ JobHolds(j) /\ {j.buffer, j.copy} \ {None} = {b}
        /\ j.step \in {"copy", "output"} /\ j.buffer = b
        /\ j.sendTo \in Interface \ {"bridge"}
        /\ j.step = "copy" => j.copyTo \in Interface \ {"bridge"}
    BY <1>6, <2>1, BridgedIs
  <2>3. job' = [job EXCEPT ![t] = j]
    BY <1>6
  <2> HIDE DEF j
  <2>4. job'[t] = j
    BY <1>1, <2>2, <2>3, JobChanges
  <2>5. /\ pxInterface' \in [Buffer -> Interface \cup {None}] /\ pxInterface'[b] = "bridge"
        /\ from' \in [Buffer -> Interface \cup {None}] /\ from'[b] = "bridge" /\ SameBut(b)
    BY <1>1, <1>3, <1>6, <2>1 DEF PathType, SameBut
  <2>6. JobFits(job[t])'
    BY <2>1, <2>2, <2>4, <2>5, PathAssumption DEF JobFits
  <2>7. /\ xNetworkEventQueue' \in Seq(Events) /\ EventsOnce(xNetworkEventQueue')
        /\ Carried(xNetworkEventQueue') = Carried(xNetworkEventQueue)
        /\ InSeq(xNetworkEventQueue') = InSeq(xNetworkEventQueue)
    BY <1>1, <1>2 DEF PathType, HoldingInv
  <2>8. {j.buffer, j.copy} \ {None} = At[t] /\ b \in At[t]
    BY <1>4, <2>2
  <2> QED
    BY <1>2, <1>6, <2>2, <2>3, <2>5, <2>6, <2>7, <2>8, JobStay
<1> QED
  BY <1>5, <1>6 DEF OutputFromDevice

LEMMA DuplicateKeeps ==
    ASSUME IInv, NEW t \in Task, Duplicate(t)
    PROVE  IInv' /\ PoolStep
<1> DEFINE j == job[t]
<1>1. PathType /\ HoldingInv /\ Disjoint /\ JobFits(j)
  BY DEF IInv, OriginInv
<1>2. /\ j.step = "copy"
      /\ UNCHANGED <<ring, rx_desc, txQueue, txRing, sent, xNetworkEventQueue, sockets>>
  BY DEF Duplicate, queues
<1>3. /\ j \in Jobs /\ j.buffer \in Buffer /\ At[t] = {j.buffer}
  BY <1>1, <1>2, JobIs, AtIs, PathAssumption
<1>4. /\ pxInterface[j.buffer] # None /\ j.sendTo # from[j.buffer] /\ j.copyTo # from[j.buffer]
  BY <1>1, <1>2 DEF JobFits
<1>5. {"copied", "output"} \subseteq Steps
  BY DEF Steps
<1>6. ASSUME NEW d \in free, free' = free \ {d},
             pxInterface' = [pxInterface EXCEPT ![d] = pxInterface[j.buffer]],
             from' = [from EXCEPT ![d] = from[j.buffer]],
             job' = [job EXCEPT ![t] = GoOn(j, "copied", d)]
      PROVE  IInv' /\ PoolStep
  <2> DEFINE k == GoOn(j, "copied", d)
  <2>1. d \in Buffer /\ d # j.buffer /\ t # "free"
    <3>1. d \in At["free"] /\ j.buffer \in At[t] /\ t # "free" /\ {t, "free"} \subseteq Spot
      BY <1>3, AtIs, Spots DEF Task
    <3> QED
      BY <1>1, <3>1 DEF Disjoint, PathType
  <2>2. /\ k \in Jobs /\ k.step = "copied" /\ k.buffer = j.buffer /\ k.copy = d
        /\ k.sendTo = j.sendTo /\ k.copyTo = j.copyTo
    <3> HIDE DEF j
    <3> QED
      BY <1>3, <1>5, <2>1, GoOnIs
  <2>3. job' = [job EXCEPT ![t] = k]
    BY <1>6
  <2> HIDE DEF k
  <2>4. JobHolds(k)
    BY <1>3, <2>1, <2>2, PathAssumption DEF JobHolds
  <2>5. /\ job' \in [Task -> Jobs] /\ job'[t] = k
        /\ At'[t] = {k.buffer, k.copy} \ {None} /\ \A u \in Task \ {t} : At'[u] = At[u]
    BY <1>1, <2>2, <2>3, <2>4, JobChanges
  <2>6. At'[t] = At[t] \cup {d}
    BY <1>3, <2>1, <2>2, <2>5, PathAssumption
  <2>7. Moves(d, "free", t)
    <3>1. At'["free"] = At["free"] \ {d} /\ d \in At["free"]
      BY <1>6, AtIs, AtIsNext
    <3>2. \A s \in Spot \ (Task \cup {"free"}) : At'[s] = At[s]
      BY <1>2, AtIs, AtIsNext DEF Spot, Task
    <3> QED
      BY <2>1, <2>5, <2>6, <3>1, <3>2 DEF Moves
  <2>8. /\ pxInterface' \in [Buffer -> Interface \cup {None}]
        /\ from' \in [Buffer -> Interface \cup {None}] /\ SameBut(d)
        /\ pxInterface'[d] = pxInterface[j.buffer] /\ from'[d] = from[j.buffer]
        /\ pxInterface'[j.buffer] = pxInterface[j.buffer] /\ from'[j.buffer] = from[j.buffer]
    BY <1>1, <1>3, <1>6, <2>1 DEF PathType, SameBut
  <2>9. JobFits(job[t])'
    BY <1>4, <2>2, <2>5, <2>8 DEF JobFits
  <2>10. PathType'
    BY <1>1, <1>2, <1>6, <2>5, <2>8 DEF PathType
  <2>11. OneToOne(txQueue') /\ OneToOne(txRing') /\ EventsOnce(xNetworkEventQueue')
    BY <1>1, <1>2 DEF HoldingInv
  <2>12. \A e \in InSeq(xNetworkEventQueue') : e \in InSeq(xNetworkEventQueue) /\ e.buffer # d
    <3>1. d \in At["free"] /\ "free" \in Spot \ {"events"}
      BY <1>6, AtIs DEF Spot
    <3> QED
      BY <1>2, <2>1, <3>1, NoEventOf
  <2>13. "free" \in Spot \ (Task \ {t}) /\ t \in Spot \ (Task \ {t})
    BY Spots
  <2>14. t \notin {"free", "sockets", "txRing", "sent", "txQueue"}
    BY DEF Task
  <2> HIDE DEF j
  <2> QED
    BY <2>1, <2>2, <2>3, <2>4, <2>7, <2>8, <2>9, <2>10, <2>11, <2>12, <2>13, <2>14, JobMove
<1>7. ASSUME job' = [job EXCEPT ![t] = GoOn(j, "output", None)],
             UNCHANGED <<free, pxInterface, from>>
      PROVE  IInv' /\ PoolStep
  <2> DEFINE k == GoOn(j, "output", None)
  <2>1. /\ k \in Jobs /\ k.step = "output" /\ k.buffer = j.buffer /\ k.copy = None
        /\ k.sendTo = j.sendTo
    <3> HIDE DEF j
    <3> QED
      BY <1>3, <1>5, GoOnIs
  <2>2. job' = [job EXCEPT ![t] = k]
    BY <1>7
  <2> HIDE DEF k
  <2>3. JobHolds(k) /\ {k.buffer, k.copy} \ {None} = At[t]
    BY <1>3, <2>1, PathAssumption DEF JobHolds
  <2>4. job'[t] = k
    BY <1>1, <2>1, <2>2, <2>3, JobChanges
  <2>5. JobFits(job[t])'
    BY <1>4, <1>7, <2>1, <2>4 DEF JobFits
  <2>6. /\ xNetworkEventQueue' \in Seq(Events) /\ EventsOnce(xNetworkEventQueue')
        /\ Carried(xNetworkEventQueue') = Carried(xNetworkEventQueue)
        /\ InSeq(xNetworkEventQueue') = InSeq(xNetworkEventQueue)
        /\ pxInterface' \in [Buffer -> Interface \cup {None}]
        /\ from' \in [Buffer -> Interface \cup {None}] /\ SameBut(None)
    BY <1>1, <1>2, <1>7 DEF PathType, HoldingInv, SameBut
  <2> QED
    BY <1>2, <1>7, <2>1, <2>2, <2>3, <2>5, <2>6, JobStay
<1> QED
  BY <1>6, <1>7 DEF Duplicate, pool

-----------------------------------------------------------------------------
(***************************************************************************)
(* The specification.                                                      *)
(***************************************************************************)
LEMMA InitKeeps ==
    ASSUME Init
    PROVE  IInv /\ Pool!Init
<1>1. /\ Idle \in Jobs /\ JobHolds(Idle) /\ Idle.step = "idle"
      /\ Idle.buffer = None /\ Idle.copy = None
  BY JobTypes
<1>2. /\ free = Buffer /\ ring = {} /\ sent = {} /\ sockets = {} /\ rx_desc = None
      /\ txQueue = <<>> /\ txRing = <<>> /\ xNetworkEventQueue = <<>>
      /\ pxInterface = [b \in Buffer |-> None] /\ from = [b \in Buffer |-> None]
      /\ job = [t \in Task |-> Idle]
  BY DEF Init
<1>3. \A S : <<>> \in Seq(S)
  OBVIOUS
<1>4. PathType
  BY <1>1, <1>2, <1>3 DEF PathType
<1>5. InSeq(<<>>) = {}
  BY DEF InSeq
<1>6. \A p \in Spot \ {"free"} : At[p] = {}
  <2>1. \A t \in Task : InJob(t) = {}
    BY <1>1, <1>2 DEF InJob
  <2> QED
    BY <1>2, <1>5, <2>1, AtIs DEF Spot, Task, Carried
<1>7. Disjoint
  BY <1>6 DEF Disjoint
<1>8. HoldingInv
  BY <1>1, <1>2 DEF HoldingInv, OneToOne, EventsOnce
<1>9. OriginInv /\ NeverSentBack
  BY <1>1, <1>2, <1>5 DEF OriginInv, NeverSentBack, JobFits
<1>10. Pool!Init
  <2>1. \A h \in Holder : Held[h] = {}
    BY <1>6, HeldIs
  <2>2. Held = [h \in Holder |-> {}]
    BY <2>1, HeldIs
  <2> QED
    BY <1>2, <2>2 DEF Pool!Init
<1> QED
  BY <1>4, <1>7, <1>8, <1>9, <1>10 DEF IInv

LEMMA NextKeeps ==
    ASSUME IInv, Next
    PROVE  IInv' /\ PoolStep
<1>1. ASSUME NEW t \in Task, Duplicate(t)
      PROVE  IInv' /\ PoolStep
  BY <1>1, DuplicateKeeps
<1>2. ASSUME NEW t \in Task, Output(t)
      PROVE  IInv' /\ PoolStep
  BY <1>2, OutputPlcKeeps, OutputEthKeeps, OutputDeviceKeeps, OutputFromDeviceKeeps DEF Output
<1>3. CASE EmacLoses \/ LinkChanges \/ SendDown \/ Transmit
  BY <1>3, EmacLosesKeeps, LinkChangesKeeps, SendDownKeeps, TransmitKeeps
<1>4. CASE SpiReceive \/ SpiTransmit \/ TakeEvent
  BY <1>4, SpiReceiveKeeps, SpiTransmitKeeps, TakeEventKeeps
<1>5. ASSUME NEW b \in Buffer,
             \/ SetupRxDescriptor(b) \/ EmacReceive(b) \/ Drop(b) \/ CleanUp(b)
             \/ AllocateRxDesc(b)
      PROVE  IInv' /\ PoolStep
  BY <1>5, SetupRxDescriptorKeeps, EmacReceiveKeeps, DropKeeps, CleanUpKeeps, AllocateRxDescKeeps
<1>6. ASSUME NEW b \in Buffer,
             IpStep(b) \/ SendOwn(b) \/ Read(b) \/ SendTo(b) \/ FinishSendTo(b)
      PROVE  IInv' /\ PoolStep
  BY <1>6, ProcessEthernetPacketKeeps, ProcessGeneratedUDPPacketKeeps, SendOwnKeeps, ReadKeeps,
     SendToKeeps, FinishSendToKeeps DEF IpStep
<1> QED
  BY <1>1, <1>2, <1>3, <1>4, <1>5, <1>6 DEF Next

LEMMA StepKeeps ==
    ASSUME IInv, [Next]_vars
    PROVE  IInv' /\ [Pool!Next]_Pool!poolVars
<1>1. CASE Next
  BY <1>1, NextKeeps DEF PoolStep
<1>2. CASE UNCHANGED vars
  <2>1. UNCHANGED <<free, pxInterface, from, ring, rx_desc, txQueue, txRing, sent,
                    xNetworkEventQueue, sockets, job>>
    BY <1>2 DEF vars, pool, queues
  <2>2. IInv'
    BY <2>1 DEF IInv, PathType, Disjoint, HoldingInv, OriginInv, NeverSentBack, At, InEvents,
                InJob, JobFits, InSeq, OneToOne, EventsOnce, JobHolds
  <2>3. UNCHANGED Pool!poolVars
    BY <2>1 DEF Pool!poolVars, Held, InJob, InSeq, InEvents
  <2> QED
    BY <2>2, <2>3
<1> QED
  BY <1>1, <1>2

(***************************************************************************)
(* Each buffer has one place; no queue holds one twice; what a task is to  *)
(* output goes elsewhere than where it came from.                          *)
(***************************************************************************)
THEOREM PathInvariant == Spec => []IInv
<1>1. Init => IInv
  BY InitKeeps
<1>2. IInv /\ [Next]_vars => IInv'
  BY StepKeeps
<1> QED
  BY <1>1, <1>2, PTL DEF Spec

(***************************************************************************)
(* The tasks implement the pool: every step gets one buffer, passes one    *)
(* on, or releases one that its holder has, however the bridge             *)
(* (xBridge_Process), the drivers and the IP task interleave, and the SPI  *)
(* thread's queue never refuses a buffer that nobody would release         *)
(* (QCA7000/NetworkInterface.c:192).                                       *)
(***************************************************************************)
THEOREM PathImplementsPool == Spec => PoolSpec
<1>1. Init => IInv /\ Pool!Init
  BY InitKeeps
<1>2. IInv /\ [Next]_vars => IInv' /\ [Pool!Next]_Pool!poolVars
  BY StepKeeps
<1>3. Spec => Pool!Init /\ [][Pool!Next]_Pool!poolVars
  BY <1>1, <1>2, PTL DEF Spec
<1> QED
  BY <1>3 DEF PoolSpec, Pool!Spec

(***************************************************************************)
(* No output function is given a frame that came by its own interface, and *)
(* the device does not get its own frames (Bridge/NetworkInterface.c:121). *)
(***************************************************************************)
THEOREM FramesNotSentBack == Spec => []NeverSentBack
<1>1. IInv => NeverSentBack
  BY DEF IInv
<1> QED
  BY <1>1, PathInvariant, PTL

(***************************************************************************)
(* What limits the queues: the transmit ring's places are taken until they *)
(* are cleaned up, and nobody waits for the event queue and then overfills *)
(* it.                                                                     *)
(***************************************************************************)
RoomInv ==
    /\ Len(txRing) + Cardinality(sent) <= TxDescriptors
    /\ Len(xNetworkEventQueue) <= EventQueueLength
    /\ link \in BOOLEAN

LEMMA Lengths ==
    ASSUME PathType
    PROVE  /\ Len(txRing) \in Nat /\ Len(xNetworkEventQueue) \in Nat /\ IsFiniteSet(sent)
           /\ Cardinality(sent) \in Nat /\ TxDescriptors \in Nat /\ EventQueueLength \in Nat
BY FS_Subset, FS_CardinalityType, LenProperties, PathAssumption DEF PathType

LEMMA RingHasRoom ==
    ASSUME PathType, RoomInv,
           (\E b \in Buffer : OutputEth("emac", b) \/ OutputEth("spi", b) \/ OutputEth("ip", b)
                              \/ OutputEth("user", b) \/ CleanUp(b))
             \/ Transmit
    PROVE  RoomInv'
<1>1. UNCHANGED <<xNetworkEventQueue, link>>
  BY DEF OutputEth, CleanUp, Transmit
<1>2. CASE \E b \in Buffer : Place /\ txRing' = Append(txRing, b) /\ sent' = sent
  <2>1. PICK b \in Buffer : Place /\ txRing' = Append(txRing, b) /\ sent' = sent
    BY <1>2
  <2>2. Len(txRing') = Len(txRing) + 1
    BY <2>1, AppendProperties DEF PathType
  <2> QED
    BY <1>1, <2>1, <2>2, Lengths DEF RoomInv, Place
<1>3. CASE UNCHANGED <<txRing, sent>>
  BY <1>1, <1>3 DEF RoomInv
<1>4. CASE \E b \in Buffer : CleanUp(b)
  <2>1. PICK b \in Buffer : b \in sent /\ sent' = sent \ {b} /\ txRing' = txRing
    BY <1>4 DEF CleanUp
  <2>2. Cardinality(sent') = Cardinality(sent) - 1
    BY <2>1, Lengths, FS_RemoveElement
  <2> QED
    BY <1>1, <2>1, <2>2, Lengths DEF RoomInv
<1>5. CASE Transmit
  <2>1. txRing # <<>> /\ txRing' = Tail(txRing) /\ sent' = sent \cup {Head(txRing)}
    BY <1>5 DEF Transmit
  <2>2. Len(txRing') = Len(txRing) - 1
    BY <2>1, HeadTailProperties DEF PathType
  <2>3. Cardinality(sent') \in Nat /\ Cardinality(sent') <= Cardinality(sent) + 1
    <3>1. Cardinality(sent \cup {Head(txRing)}) =
            IF Head(txRing) \in sent THEN Cardinality(sent) ELSE Cardinality(sent) + 1
      BY Lengths, FS_AddElement
    <3>2. Cardinality(sent) \in Nat
      BY Lengths
    <3> QED
      BY <2>1, <3>1, <3>2
  <2> QED
    BY <1>1, <2>2, <2>3, Lengths DEF RoomInv
<1> QED
  BY <1>2, <1>3, <1>4, <1>5 DEF OutputEth

LEMMA QueueHasRoom ==
    ASSUME PathType, RoomInv, UNCHANGED <<txRing, sent, link>>,
           \/ UNCHANGED xNetworkEventQueue
           \/ /\ Len(xNetworkEventQueue) < EventQueueLength
              /\ \E e \in Events : xNetworkEventQueue' = Append(xNetworkEventQueue, e)
           \/ xNetworkEventQueue # <<>> /\ xNetworkEventQueue' = Tail(xNetworkEventQueue)
    PROVE  RoomInv'
<1>1. Len(xNetworkEventQueue') <= EventQueueLength
  <2>1. CASE /\ Len(xNetworkEventQueue) < EventQueueLength
             /\ \E e \in Events : xNetworkEventQueue' = Append(xNetworkEventQueue, e)
    <3>1. Len(xNetworkEventQueue') = Len(xNetworkEventQueue) + 1
      BY <2>1, AppendProperties DEF PathType
    <3> QED
      BY <2>1, <3>1, Lengths
  <2>2. CASE xNetworkEventQueue # <<>> /\ xNetworkEventQueue' = Tail(xNetworkEventQueue)
    <3>1. Len(xNetworkEventQueue') = Len(xNetworkEventQueue) - 1
      BY <2>2, HeadTailProperties DEF PathType
    <3> QED
      BY <3>1, Lengths DEF RoomInv
  <2> QED
    BY <2>1, <2>2 DEF RoomInv
<1> QED
  BY <1>1 DEF RoomInv

LEMMA RoomKeeps ==
    ASSUME PathType, RoomInv, [Next]_vars
    PROVE  RoomInv'
<1>1. \A b \in Buffer : Rx(b) \in Events /\ StackTx(b) \in Events
  BY DEF Rx, StackTx, Events
<1>2. NetworkDown \in Events
  BY DEF Events
<1>3. ASSUME UNCHANGED queues, link' \in BOOLEAN
      PROVE  RoomInv'
  BY <1>3 DEF queues, RoomInv
<1>4. CASE UNCHANGED vars
  BY <1>3, <1>4 DEF vars, RoomInv
<1>5. ASSUME NEW t \in Task, Duplicate(t) \/ Output(t)
      PROVE  RoomInv'
  <2>1. CASE Duplicate(t)
    BY <1>3, <2>1 DEF Duplicate, RoomInv
  <2>2. ASSUME NEW b \in Buffer, OutputPlc(t, b) \/ OutputFromDevice(t, b)
        PROVE  RoomInv'
    BY <2>2, QueueHasRoom DEF OutputPlc, OutputFromDevice, queues
  <2>3. ASSUME NEW b \in Buffer, OutputEth(t, b)
        PROVE  RoomInv'
    BY <2>3, RingHasRoom DEF Task
  <2>4. ASSUME NEW b \in Buffer, OutputDevice(t, b)
        PROVE  RoomInv'
    BY <1>1, <2>4, QueueHasRoom DEF OutputDevice
  <2> QED
    BY <1>5, <2>1, <2>2, <2>3, <2>4 DEF Output
<1>6. CASE EmacLoses \/ LinkChanges \/ SpiReceive
  BY <1>3, <1>6 DEF EmacLoses, LinkChanges, SpiReceive, RoomInv
<1>7. CASE Transmit \/ \E b \in Buffer : CleanUp(b)
  BY <1>7, RingHasRoom
<1>8. CASE SendDown \/ TakeEvent \/ SpiTransmit
  BY <1>2, <1>8, QueueHasRoom DEF SendDown, TakeEvent, SpiTransmit
<1>9. ASSUME NEW b \in Buffer, FinishSendTo(b)
      PROVE  RoomInv'
  BY <1>1, <1>9, QueueHasRoom DEF FinishSendTo
<1>10. ASSUME NEW b \in Buffer,
              \/ SetupRxDescriptor(b) \/ EmacReceive(b) \/ Drop(b) \/ AllocateRxDesc(b)
              \/ IpStep(b) \/ SendOwn(b) \/ Read(b) \/ SendTo(b)
       PROVE  RoomInv'
  BY <1>3, <1>10 DEF SetupRxDescriptor, EmacReceive, Drop, AllocateRxDesc, IpStep,
       ProcessEthernetPacket, ProcessGeneratedUDPPacket, SendOwn, Read, SendTo, RoomInv
<1> QED
  BY <1>4, <1>5, <1>6, <1>7, <1>8, <1>9, <1>10 DEF Next

(***************************************************************************)
(* The types of the ways a buffer takes; neither the transmit ring nor the *)
(* event queue is ever overfilled, by whichever of the four tasks.         *)
(***************************************************************************)
THEOREM PathTypeCorrect == Spec => []TypeOK
<1>1. Init => IInv /\ RoomInv
  <2> SUFFICES ASSUME Init PROVE RoomInv
    BY InitKeeps
  <2>1. txRing = <<>> /\ sent = {} /\ xNetworkEventQueue = <<>> /\ link = TRUE
    BY DEF Init
  <2>2. Len(txRing) = 0 /\ Len(xNetworkEventQueue) = 0 /\ Cardinality(sent) = 0
    BY <2>1, FS_EmptySet
  <2> QED
    BY <2>1, <2>2, PathAssumption DEF RoomInv
<1>2. IInv /\ RoomInv /\ [Next]_vars => (IInv /\ RoomInv)'
  BY StepKeeps, RoomKeeps DEF IInv
<1>3. IInv /\ RoomInv => TypeOK
  <2> SUFFICES ASSUME IInv, RoomInv PROVE TypeOK
    OBVIOUS
  <2>1. \A e \in InSeq(xNetworkEventQueue) : e \in Events
    BY ElementOfSeq DEF IInv, PathType, InSeq
  <2> QED
    BY <2>1 DEF IInv, PathType, RoomInv, Events, Jobs, Steps, TypeOK
<1> QED
  BY <1>1, <1>2, <1>3, PTL DEF Spec
-----------------------------------------------------------------------------
(***************************************************************************)
(* Theorems about the forwarding table, for any stations, interfaces, ages *)
(* and table sizes, in every mode but the one in which the table is aged   *)
(* while the drivers preempt it.                                           *)
(***************************************************************************)
Rows == DOMAIN xForwardingTable
Mac(r) == xForwardingTable[r].xMACAddress
Via(r) == xForwardingTable[r].pxInterface
Age(r) == xForwardingTable[r].ucAge

(***************************************************************************)
(* What the IP task knows of its row, whoever preempts it.                 *)
(***************************************************************************)
PlaceInv ==
  /\ pc \in {"scan", "claim", "count", "mac", "interface", "age"} => ~initialised
  /\ pc \in {"load", "store", "wipe"} => mode.aging
  /\ pc \in {"find", "found"} => dst \in Station
  /\ pc \in {"mac", "interface", "age", "found", "store", "wipe"} => x \in Rows
  /\ pc = "count" => x <= Entries

(***************************************************************************)
(* Until the IP task has stored its count, uxForwardTableMaxUse is not     *)
(* above the size of the array, and it never is if nobody preempts the     *)
(* entry: the count is then the one that was tested.                       *)
(***************************************************************************)
CountInv ==
  /\ ~initialised /\ pc \notin {"mac", "interface", "age"} =>
       Len(xForwardingTable) <= Entries
  /\ ~mode.preempted => /\ Len(xForwardingTable) <= Entries
                        /\ pc = "count" => x = Len(xForwardingTable) + 1

(***************************************************************************)
(* The row of the device: the IP task writes it once, and only a row that  *)
(* is not the device's is of INFINITE age without being it.                *)
(***************************************************************************)
OwnInv ==
  /\ ~initialised /\ pc \notin {"interface", "age"} => \A r \in Rows : Mac(r) # Own
  /\ pc \in {"interface", "age"} => \A r \in Rows : Mac(r) = Own => r = x
  /\ pc = "age" /\ Mac(x) = Own => Via(x) = Bridge
  /\ initialised => \A r \in Rows : Mac(r) = Own => Via(r) = Bridge /\ Age(r) = INFINITE

OneInfinite ==
  /\ ~initialised => \A r \in Rows : Live(r) /\ Age(r) = INFINITE => pc = "age" /\ r = x
  /\ \A r, q \in Rows :
       Live(r) /\ Live(q) /\ Age(r) = INFINITE /\ Age(q) = INFINITE => r = q

\* Nobody preempts the entry: it is there, and with a second row to give up it stays.
OwnStays ==
  ~mode.preempted =>
    /\ pc \in {"interface", "age"} => Mac(x) = Own
    /\ initialised /\ Entries >= 2 => \E r \in Rows : Mac(r) = Own

(***************************************************************************)
(* A table that is not aged: only its last row may be not in use, as the   *)
(* IP task counted it or is entering it, and a station has one row, which  *)
(* says where it was heard of last.                                        *)
(***************************************************************************)
UnagedInv ==
  ~mode.aging =>
    /\ \A r \in Rows : ~Live(r) =>
         /\ initialised \/ pc \in {"mac", "interface", "age"}
         /\ r = Len(xForwardingTable)
         /\ Mac(r) = Null \/ (Mac(r) = Own /\ pc = "interface" /\ r = x)
    /\ \A r, q \in Rows : Mac(r) = Mac(q) /\ Mac(r) \in Station => r = q
    /\ \A r \in Rows : Mac(r) \in Station /\ Via(r) \in Port => Via(r) = seen[Mac(r)]

(***************************************************************************)
(* A table that is aged: the rows of a station get younger towards the     *)
(* first, which says where it was heard of last; a row counts no longer    *)
(* than the station has not been silent for too long.  A row the IP task   *)
(* has not come to in its pass lags behind by one.                         *)
(***************************************************************************)
Behind(r) == \/ pc \in {"load", "store"} /\ r >= x
             \/ pc = "wipe" /\ r > x
Lag(r) == IF Behind(r) THEN 1 ELSE 0

InUse(r) == Live(r) /\ Mac(r) \in Station

AgesInv ==
  \A r \in Rows : Live(r) =>
    /\ Mac(r) # Null
    /\ Mac(r) \in Station =>
         /\ Age(r) <= MaxAge
         /\ Age(r) = 0 => pc = "wipe" /\ r = x
         /\ Age(r) + silent[Mac(r)] <= MaxAge + Lag(r)

OrderInv ==
  \A r, q \in Rows : r < q /\ InUse(q) =>
    /\ Mac(r) = Mac(q) => Live(r) /\ Age(q) < Age(r) + (Lag(q) - Lag(r))
    /\ ~Live(r) => Age(q) < MaxAge + Lag(q)

FirstInv ==
  \A r \in Rows :
    InUse(r) /\ (\A q \in Rows : q < r => Mac(q) # Mac(r)) => Via(r) = seen[Mac(r)]

\* The row the IP task takes for the device hides no row of a station.
ChoiceInv ==
  /\ pc \in {"scan", "claim"} =>
       /\ \A r \in Rows : r < x => Live(r) /\ age <= Age(r)
       /\ IF x > 1 THEN use < x /\ Age(use) = age ELSE age = INFINITE
  /\ pc = "claim" /\ x \in Rows => ~Live(x)
  /\ pc = "mac" => \A q \in Rows : q > x /\ InUse(q) => Mac(q) # Mac(x)

AgedInv ==
  mode.aging =>
    /\ AgesInv /\ OrderInv /\ FirstInv /\ ChoiceInv
    /\ pc = "store" => age = Age(x) /\ age # INFINITE

\* Nothing ages a table while the drivers preempt it.
Calm == \A m \in Modes : ~(m.aging /\ m.preempted)

TableIInv == /\ TableTypeOK /\ PlaceInv /\ CountInv /\ OwnInv /\ OneInfinite /\ OwnStays
        /\ UnagedInv /\ AgedInv
-----------------------------------------------------------------------------
(* The rows a write changes. *)

RowType == [pxInterface : AnyInterface \union {Null},
            xMACAddress : Address \union {Null},
            ucAge : 0 .. UINT8_MAX]

\* Of the table t, the table u has row w new, and the others as they were.
Changes(t, u, w) ==
  /\ u \in Seq(RowType) /\ w \in DOMAIN u
  /\ DOMAIN t \subseteq DOMAIN u
  /\ \A q \in DOMAIN u : q # w => q \in DOMAIN t /\ u[q] = t[q]

LEMMA Replaced ==
  ASSUME NEW t \in Seq(RowType), NEW w \in DOMAIN t, NEW v \in RowType
  PROVE  /\ Changes(t, [t EXCEPT ![w] = v], w)
         /\ [t EXCEPT ![w] = v][w] = v
         /\ Len([t EXCEPT ![w] = v]) = Len(t)
         /\ DOMAIN [t EXCEPT ![w] = v] = DOMAIN t
<1>1. w \in 1 .. Len(t) /\ DOMAIN t = 1 .. Len(t)
  BY LenProperties
<1>2. /\ [t EXCEPT ![w] = v] \in Seq(RowType)
      /\ Len([t EXCEPT ![w] = v]) = Len(t)
      /\ \A q \in 1 .. Len(t) : [t EXCEPT ![w] = v][q] = IF q = w THEN v ELSE t[q]
  BY <1>1, ExceptSeq
<1> QED
  BY <1>1, <1>2 DEF Changes

LEMMA Appended ==
  ASSUME NEW t \in Seq(RowType), NEW v \in RowType
  PROVE  /\ Changes(t, Append(t, v), Len(t) + 1)
         /\ Append(t, v)[Len(t) + 1] = v
         /\ Len(Append(t, v)) = Len(t) + 1
         /\ DOMAIN t = 1 .. Len(t) /\ DOMAIN Append(t, v) = 1 .. Len(t) + 1
<1>1. /\ Append(t, v) \in Seq(RowType)
      /\ Len(Append(t, v)) = Len(t) + 1
      /\ \A i \in 1 .. Len(t) : Append(t, v)[i] = t[i]
      /\ Append(t, v)[Len(t) + 1] = v
  BY AppendProperties
<1>2. /\ DOMAIN t = 1 .. Len(t) /\ Len(t) \in Nat
      /\ DOMAIN Append(t, v) = 1 .. Len(t) + 1
  BY <1>1, LenProperties
<1> QED
  BY <1>1, <1>2 DEF Changes

(***************************************************************************)
(* A set of rows has a lowest.                                             *)
(***************************************************************************)
LEMMA Lowest ==
  ASSUME NEW n \in Nat, NEW S \in SUBSET (1 .. n), S # {}
  PROVE  LowestOf(S) \in S /\ \A q \in S : LowestOf(S) <= q
<1> DEFINE less == OpToRel(<, Nat)
<1>1. \E r \in S : \A q \in S : ~ (<<q, r>> \in less)
  <2>1. IsWellFoundedOn(less, Nat)
    BY NatLessThanWellFounded
  <2>2. S \subseteq Nat
    OBVIOUS
  <2> QED
    BY <2>1, <2>2, WFMin
<1>2. less = {ss \in Nat \X Nat : ss[1] < ss[2]}
  BY DEF OpToRel
<1> HIDE DEF less
<1>3. PICK r \in S : \A q \in S : <<q, r>> \notin less
  BY <1>1
<1>4. \A q \in S : r <= q
  <2>1. TAKE q \in S
  <2>2. q \in Nat /\ r \in Nat
    OBVIOUS
  <2>3. <<q, r>> \in Nat \X Nat /\ <<q, r>>[1] = q /\ <<q, r>>[2] = r
    BY <2>2
  <2>4. ~(q < r)
    BY <1>2, <1>3, <2>3
  <2> QED
    BY <2>2, <2>4
<1> QED
  BY <1>4 DEF LowestOf

(***************************************************************************)
(* The oldest row is not an INFINITE one, if there is another.             *)
(***************************************************************************)
LEMMA OldestRow ==
  ASSUME NEW t \in Seq(RowType), NEW w \in Oldest(t)
  PROVE  /\ w \in DOMAIN t
         /\ (\E r \in DOMAIN t : t[r].ucAge < INFINITE) =>
              t[w].ucAge < INFINITE /\ \A r \in DOMAIN t : t[w].ucAge <= t[r].ucAge
<1> DEFINE aged == {r \in DOMAIN t : t[r].ucAge < INFINITE}
           low  == {r \in aged : \A q \in aged : t[r].ucAge <= t[q].ucAge}
<1>1. w \in IF low = {} THEN DOMAIN t ELSE {LowestOf(low)}
  BY DEF Oldest
<1>2. DOMAIN t = 1 .. Len(t) /\ Len(t) \in Nat
  BY LenProperties
<1>3. \A r \in DOMAIN t : t[r] \in RowType /\ t[r].ucAge \in 0 .. UINT8_MAX
  <2>1. \A r \in DOMAIN t : t[r] \in RowType
    BY <1>2, ElementOfSeq
  <2> QED
    BY <2>1 DEF RowType
<1>4. CASE low # {}
  <2>1. LowestOf(low) \in low
    <3>1. low \in SUBSET (1 .. Len(t))
      BY <1>2
    <3> HIDE DEF low
    <3> QED
      BY <1>2, <1>4, <3>1, Lowest
  <2>2. w \in DOMAIN t /\ t[w].ucAge < INFINITE /\ \A q \in aged : t[w].ucAge <= t[q].ucAge
    BY <1>1, <1>4, <2>1
  <2>3. \A r \in DOMAIN t : r \notin aged => t[r].ucAge = INFINITE
    <3>1. TAKE r \in DOMAIN t
    <3>2. t[r].ucAge \in 0 .. 255
      BY <1>3 DEF UINT8_MAX
    <3>3. r \notin aged => ~(t[r].ucAge < 255)
      BY DEF INFINITE
    <3>4. \A a \in 0 .. 255 : ~(a < 255) => a = 255
      OBVIOUS
    <3> HIDE DEF aged
    <3> QED
      BY <3>2, <3>3, <3>4 DEF INFINITE
  <2> QED
    BY <1>3, <2>2, <2>3
<1>5. CASE low = {}
  <2>1. aged = {}
    <3>1. SUFFICES ASSUME aged # {} PROVE FALSE
      OBVIOUS
    <3> DEFINE ages == {t[r].ucAge : r \in aged}
               less == OpToRel(<, Nat)
    <3>2. ages \subseteq Nat /\ ages # {}
      BY <1>3, <3>1
    <3>3. \E a \in ages : \A b \in ages : <<b, a>> \notin less
      <4>1. IsWellFoundedOn(less, Nat)
        BY NatLessThanWellFounded
      <4> HIDE DEF ages
      <4> QED
        BY <3>2, <4>1, WFMin
    <3>4. less = {ss \in Nat \X Nat : ss[1] < ss[2]}
      BY DEF OpToRel
    <3> HIDE DEF less
    <3>5. PICK r \in aged : \A q \in aged : <<t[q].ucAge, t[r].ucAge>> \notin less
      BY <3>3
    <3>6. \A q \in aged : t[r].ucAge <= t[q].ucAge
      <4>1. TAKE q \in aged
      <4>2. t[q].ucAge \in Nat /\ t[r].ucAge \in Nat
        BY <3>2
      <4>3. ~ (t[q].ucAge < t[r].ucAge)
        BY <3>4, <3>5, <4>2
      <4> QED
        BY <4>2, <4>3
    <3>7. r \in low
      BY <3>6
    <3> QED
      BY <1>5, <3>7
  <2> QED
    BY <1>1, <1>5, <2>1
<1> QED
  BY <1>4, <1>5

(***************************************************************************)
(* vRefreshForwardingTableEntry enters one row: the first usable one, else *)
(* a new one, else the oldest.                                             *)
(***************************************************************************)
Entered(t, u, w, mac, iface, a) ==
  /\ Changes(t, u, w)
  /\ u[w] = [pxInterface |-> iface, xMACAddress |-> mac, ucAge |-> a]
  /\ \/ /\ DOMAIN u = DOMAIN t /\ Usable(t[w], mac)
        /\ \A r \in DOMAIN t : r < w => ~Usable(t[r], mac)
     \/ /\ w = Len(t) + 1 /\ Len(u) = w /\ Len(t) # Entries
        /\ \A r \in DOMAIN t : ~Usable(t[r], mac)
     \/ /\ DOMAIN u = DOMAIN t /\ Len(t) = Entries
        /\ \A r \in DOMAIN t : ~Usable(t[r], mac)
        /\ (\E r \in DOMAIN t : t[r].ucAge < INFINITE) =>
             t[w].ucAge < INFINITE /\ \A r \in DOMAIN t : t[w].ucAge <= t[r].ucAge

LEMMA RefreshedRow ==
  ASSUME NEW t \in Seq(RowType), NEW mac \in Address, NEW iface \in AnyInterface, NEW a \in 0 .. UINT8_MAX,
         NEW u \in Refreshed(t, mac, iface, a)
  PROVE  \E w \in DOMAIN u : Entered(t, u, w, mac, iface, a)
<1> DEFINE v == [pxInterface |-> iface, xMACAddress |-> mac, ucAge |-> a]
           usable == {r \in DOMAIN t : Usable(t[r], mac)}
<1>1. v \in RowType /\ Unused \in RowType
  BY DEF RowType, Unused, UINT8_MAX
<1>2. DOMAIN t = 1 .. Len(t) /\ Len(t) \in Nat /\ Entries \in Nat
  BY LenProperties, TableAssumption
<1> HIDE DEF v
<1>3. CASE usable # {}
  <2>1. LowestOf(usable) \in usable /\ \A q \in usable : LowestOf(usable) <= q
    <3>1. usable \in SUBSET (1 .. Len(t))
      BY <1>2
    <3> HIDE DEF usable
    <3> QED
      BY <1>2, <1>3, <3>1, Lowest
  <2> DEFINE w == LowestOf(usable)
  <2>2. u = [t EXCEPT ![w] = v]
    BY <1>3 DEF Refreshed, Write, v
  <2>3. w \in DOMAIN t /\ Usable(t[w], mac) /\ \A r \in DOMAIN t : r < w => ~Usable(t[r], mac)
    <3>1. w \in usable /\ \A q \in usable : w <= q
      BY <2>1
    <3> HIDE DEF w
    <3>2. \A r \in DOMAIN t : r < w => ~(w <= r)
      BY <1>2, <3>1
    <3> QED
      BY <3>1, <3>2
  <2> HIDE DEF w
  <2>4. /\ Changes(t, u, w) /\ u[w] = v
        /\ Len(u) = Len(t) /\ DOMAIN u = DOMAIN t
    BY <1>1, <2>2, <2>3, Replaced
  <2>5. Entered(t, u, w, mac, iface, a)
    BY <2>3, <2>4 DEF Entered, v
  <2> QED
    BY <2>3, <2>4, <2>5
<1>4. CASE usable = {} /\ Len(t) # Entries
  <2> DEFINE n == Append(t, Unused)
             w == Len(t) + 1
  <2>1. u = [n EXCEPT ![w] = v]
    BY <1>4 DEF Refreshed, Write, v
  <2>2. /\ Changes(t, n, w)
        /\ Len(n) = w /\ DOMAIN n = 1 .. w
    BY <1>1, Appended
  <2>3. n \in Seq(RowType) /\ w \in DOMAIN n /\ w \notin DOMAIN t
    BY <1>2, <2>2 DEF Changes, w
  <2>4. w = Len(t) + 1
    OBVIOUS
  <2> HIDE DEF n, w
  <2>5. /\ Changes(n, u, w) /\ u[w] = v
        /\ Len(u) = Len(n) /\ DOMAIN u = DOMAIN n
    BY <1>1, <2>1, <2>3, Replaced
  <2>6. Changes(t, u, w)
    BY <2>2, <2>3, <2>5 DEF Changes
  <2>7. Entered(t, u, w, mac, iface, a)
    BY <1>4, <2>2, <2>4, <2>5, <2>6 DEF Entered, v
  <2> QED
    BY <2>3, <2>5, <2>7
<1>5. CASE usable = {} /\ Len(t) = Entries
  <2>1. PICK w \in Oldest(t) : u = [t EXCEPT ![w] = v]
    BY <1>5 DEF Refreshed, Write, v
  <2>2. /\ w \in DOMAIN t
        /\ (\E r \in DOMAIN t : t[r].ucAge < INFINITE) =>
             t[w].ucAge < INFINITE /\ \A r \in DOMAIN t : t[w].ucAge <= t[r].ucAge
    BY OldestRow
  <2>3. /\ Changes(t, u, w) /\ u[w] = v
        /\ Len(u) = Len(t) /\ DOMAIN u = DOMAIN t
    BY <1>1, <2>1, <2>2, Replaced
  <2>5. Entered(t, u, w, mac, iface, a)
    BY <1>5, <2>2, <2>3 DEF Entered, v
  <2> QED
    BY <2>2, <2>3, <2>5
<1> QED
  BY <1>3, <1>4, <1>5

(***************************************************************************)
(* pxFindInterfaceOnMAC takes the first row with the address.              *)
(***************************************************************************)
LEMMA FoundRow ==
  ASSUME NEW t \in Seq(RowType), NEW mac
  PROVE  \/ /\ Found(t, mac) = Null
            /\ \A r \in DOMAIN t : t[1].pxInterface = Null \/ t[r].xMACAddress # mac
         \/ \E r \in DOMAIN t : /\ Found(t, mac) = t[r].pxInterface
                                /\ t[r].xMACAddress = mac
                                /\ \A q \in DOMAIN t : q < r => t[q].xMACAddress # mac
<1> DEFINE hits == {r \in DOMAIN t : t[1].pxInterface # Null /\ t[r].xMACAddress = mac}
<1>1. DOMAIN t = 1 .. Len(t) /\ Len(t) \in Nat
  BY LenProperties
<1>2. CASE hits = {}
  BY <1>2 DEF Found
<1>3. CASE hits # {}
  <2>1. Found(t, mac) = t[LowestOf(hits)].pxInterface
    BY <1>3 DEF Found
  <2>2. hits \in SUBSET (1 .. Len(t))
    BY <1>1
  <2>3. \A r \in hits : r \in DOMAIN t /\ t[1].pxInterface # Null /\ t[r].xMACAddress = mac
    OBVIOUS
  <2>4. \A q \in DOMAIN t : q \notin hits => t[1].pxInterface = Null \/ t[q].xMACAddress # mac
    OBVIOUS
  <2> HIDE DEF hits
  <2>5. LowestOf(hits) \in hits /\ \A q \in hits : LowestOf(hits) <= q
    BY <1>1, <1>3, <2>2, Lowest
  <2>6. \A q \in DOMAIN t : q < LowestOf(hits) => t[q].xMACAddress # mac
    <3>1. SUFFICES ASSUME NEW q \in DOMAIN t, q < LowestOf(hits), q \in hits
                   PROVE  FALSE
      BY <2>3, <2>4, <2>5
    <3>2. q \in Nat /\ LowestOf(hits) \in Nat
      <4>1. \A k \in 1 .. Len(t) : k \in Nat
        BY <1>1
      <4> QED
        BY <1>1, <2>2, <2>5, <3>1, <4>1
    <3>3. \A a, b \in Nat : a < b => ~(b <= a)
      OBVIOUS
    <3> QED
      BY <2>5, <3>1, <3>2, <3>3
  <2> QED
    BY <2>1, <2>3, <2>5, <2>6
<1> QED
  BY <1>2, <1>3

LEMMA RowsTyped ==
  ASSUME xForwardingTable \in Seq(RowType)
  PROVE  /\ Len(xForwardingTable) \in Nat
         /\ \A r : r \in Rows <=> r \in Nat /\ 1 <= r /\ r <= Len(xForwardingTable)
         /\ \A r \in Rows : /\ Mac(r) \in Address \union {Null}
                            /\ Via(r) \in AnyInterface \union {Null}
                            /\ Age(r) \in Nat /\ Age(r) <= 255
<1>1. Rows = 1 .. Len(xForwardingTable) /\ Len(xForwardingTable) \in Nat
  BY LenProperties DEF Rows
<1>2. \A r \in Rows : xForwardingTable[r] \in RowType
  BY <1>1, ElementOfSeq
<1>3. \A r \in Rows : /\ Mac(r) \in Address \union {Null}
                      /\ Via(r) \in AnyInterface \union {Null}
                      /\ Age(r) \in 0 .. 255
  BY <1>2 DEF RowType, Mac, Via, Age, UINT8_MAX
<1>4. \A r : r \in Rows <=> r \in Nat /\ 1 <= r /\ r <= Len(xForwardingTable)
  BY <1>1
<1>5. \A a \in 0 .. 255 : a \in Nat /\ a <= 255
  OBVIOUS
<1> QED
  BY <1>1, <1>3, <1>4, <1>5

LEMMA Decided ==
  ASSUME NEW i \in AnyInterface, NEW d \in Address \union {Broadcast},
         NEW found \in AnyInterface \union {Null}, NEW up \in SUBSET Port,
         Decide(i, d, found, up)
  PROVE  forwarded' \in [from : AnyInterface \union {Null},
                         dst : Address \union {Broadcast, Null},
                         found : AnyInterface \union {Null}, to : SUBSET AnyInterface]
<1>1. FloodTo(i, d, up) \subseteq AnyInterface
  BY DEF FloodTo, AnyInterface
<1>2. (IF found = Null THEN FloodTo(i, d, up) ELSE {found} \ {i}) \in SUBSET AnyInterface
  BY <1>1
<1> QED
  BY <1>2 DEF Decide
-----------------------------------------------------------------------------
(***************************************************************************)
(* A frame a driver receives: the row it enters.                           *)
(***************************************************************************)
ReceivedAt(w, i, s) ==
  /\ Rows \subseteq Rows' /\ w \in Rows' /\ w \in Nat /\ w >= 1
  /\ Mac(w)' = s /\ Via(w)' = i /\ Age(w)' = MaxAge
  /\ \A q \in Rows' : q # w =>
       q \in Rows /\ Mac(q)' = Mac(q) /\ Via(q)' = Via(q) /\ Age(q)' = Age(q)
  /\ \/ /\ w \in Rows /\ (Via(w) = Null \/ Mac(w) = s)
        /\ \A r \in Rows : r < w => Via(r) # Null /\ Mac(r) # s
        /\ Len(xForwardingTable') = Len(xForwardingTable)
     \/ /\ w = Len(xForwardingTable) + 1 /\ Len(xForwardingTable') = w
        /\ Len(xForwardingTable) # Entries
        /\ \A r \in Rows : Via(r) # Null /\ Mac(r) # s
     \/ /\ w \in Rows /\ Len(xForwardingTable) = Entries
        /\ Len(xForwardingTable') = Len(xForwardingTable)
        /\ \A r \in Rows : Via(r) # Null /\ Mac(r) # s
        /\ (\E r \in Rows : Age(r) < 255) =>
             Age(w) < 255 /\ \A r \in Rows : Age(w) <= Age(r)

LEMMA ReceivedRow ==
  ASSUME TableIInv, NEW i \in Port, NEW s \in Station, NEW d, Receive(i, s, d)
  PROVE  /\ xForwardingTable' \in Seq(RowType)
         /\ Len(xForwardingTable') \in Nat
         /\ \A r : r \in Rows' <=> r \in Nat /\ 1 <= r /\ r <= Len(xForwardingTable')
         /\ \E w : ReceivedAt(w, i, s)
<1> USE TableAssumption DEF INFINITE
<1>1. xForwardingTable \in Seq(RowType)
  BY DEF TableIInv, TableTypeOK, RowType
<1>2. PICK w \in DOMAIN xForwardingTable' :
        Entered(xForwardingTable, xForwardingTable', w, s, i, MaxAge)
  <2>1. s \in Address /\ i \in AnyInterface /\ MaxAge \in 0 .. UINT8_MAX
    BY DEF Address, AnyInterface, UINT8_MAX
  <2> QED
    BY <1>1, <2>1, RefreshedRow DEF Receive
<1>3. xForwardingTable' \in Seq(RowType)
  BY <1>2 DEF Entered, Changes
<1>4. /\ Len(xForwardingTable') \in Nat
      /\ \A r : r \in Rows' <=> r \in Nat /\ 1 <= r /\ r <= Len(xForwardingTable')
  <2>1. Rows' = 1 .. Len(xForwardingTable') /\ Len(xForwardingTable') \in Nat
    BY <1>3, LenProperties DEF Rows
  <2> QED
    BY <2>1
<1>5. /\ Rows \subseteq Rows' /\ w \in Rows' /\ w \in Nat /\ w >= 1
      /\ Mac(w)' = s /\ Via(w)' = i /\ Age(w)' = MaxAge
      /\ \A q \in Rows' : q # w =>
           q \in Rows /\ Mac(q)' = Mac(q) /\ Via(q)' = Via(q) /\ Age(q)' = Age(q)
  <2>1. w \in Nat /\ w >= 1
    BY <1>2, <1>4 DEF Rows
  <2> QED
    BY <1>2, <2>1 DEF Entered, Changes, Rows, Mac, Via, Age
<1>6. \/ /\ w \in Rows /\ (Via(w) = Null \/ Mac(w) = s)
         /\ \A r \in Rows : r < w => Via(r) # Null /\ Mac(r) # s
         /\ Len(xForwardingTable') = Len(xForwardingTable)
      \/ /\ w = Len(xForwardingTable) + 1 /\ Len(xForwardingTable') = w
         /\ Len(xForwardingTable) # Entries
         /\ \A r \in Rows : Via(r) # Null /\ Mac(r) # s
      \/ /\ w \in Rows /\ Len(xForwardingTable) = Entries
         /\ Len(xForwardingTable') = Len(xForwardingTable)
         /\ \A r \in Rows : Via(r) # Null /\ Mac(r) # s
         /\ (\E r \in Rows : Age(r) < 255) =>
              Age(w) < 255 /\ \A r \in Rows : Age(w) <= Age(r)
  <2>1. Rows' = Rows => Len(xForwardingTable') = Len(xForwardingTable)
    <3>1. /\ Len(xForwardingTable) \in Nat
          /\ \A r : r \in Rows <=> r \in Nat /\ 1 <= r /\ r <= Len(xForwardingTable)
      BY <1>1, RowsTyped
    <3>2. SUFFICES ASSUME Rows' = Rows
                   PROVE  /\ Len(xForwardingTable') <= Len(xForwardingTable)
                          /\ Len(xForwardingTable) <= Len(xForwardingTable')
      BY <1>4, <3>1
    <3>3. /\ Len(xForwardingTable') = 0 \/ Len(xForwardingTable') \in Rows'
          /\ Len(xForwardingTable) = 0 \/ Len(xForwardingTable) \in Rows
      BY <1>4, <3>1
    <3> QED
      BY <1>4, <3>1, <3>2, <3>3
  <2> QED
    BY <1>2, <1>5, <2>1 DEF Entered, Usable, Rows, Mac, Via, Age
<1> QED
  BY <1>3, <1>4, <1>5, <1>6 DEF ReceivedAt

LEMMA InvRows ==
  ASSUME TableIInv
  PROVE  /\ Len(xForwardingTable) \in Nat
         /\ \A r : r \in Rows <=> r \in Nat /\ 1 <= r /\ r <= Len(xForwardingTable)
         /\ \A r \in Rows : /\ Mac(r) \in Address \union {Null}
                            /\ Via(r) \in AnyInterface \union {Null}
                            /\ Age(r) \in Nat /\ Age(r) <= 255
         /\ Entries \in Nat
         /\ x \in Nat /\ x >= 1 /\ x <= Len(xForwardingTable) + 1
         /\ MaxAge \in Nat /\ MaxAge >= 1 /\ MaxAge < 255
<1>1. xForwardingTable \in Seq(RowType)
  BY DEF TableIInv, TableTypeOK, RowType
<1>2. /\ Entries \in Nat /\ x \in 1 .. Len(xForwardingTable) + 1
      /\ MaxAge \in Nat /\ MaxAge >= 1 /\ MaxAge < 255
  BY TableAssumption DEF TableIInv, TableTypeOK, INFINITE
<1>3. Len(xForwardingTable) \in Nat
  BY <1>1, RowsTyped
<1>4. x \in Nat /\ x >= 1 /\ x <= Len(xForwardingTable) + 1
  BY <1>2, <1>3
<1> QED
  BY <1>1, <1>2, <1>3, <1>4, RowsTyped

(***************************************************************************)
(* The device's row, of INFINITE age, is not the one a full table gives    *)
(* up, since there is another.                                             *)
(***************************************************************************)
LEMMA OwnRowKept ==
  ASSUME TableIInv, Entries >= 2, initialised,
         NEW i \in Port, NEW s \in Station, NEW d, Receive(i, s, d),
         NEW o \in Rows, Mac(o) = Own
  PROVE  o \in Rows' /\ Mac(o)' = Own
<1>1. PICK w : ReceivedAt(w, i, s)
  BY ReceivedRow
<1>2. Via(o) = Bridge /\ Age(o) = 255
  BY DEF TableIInv, OwnInv, INFINITE
<1>3. o # w
  <2>1. SUFFICES ASSUME o = w PROVE FALSE
    OBVIOUS
  <2>2. /\ Len(xForwardingTable) \in Nat
        /\ \A r : r \in Rows <=> r \in Nat /\ 1 <= r /\ r <= Len(xForwardingTable)
        /\ \A r \in Rows : Age(r) \in Nat /\ Age(r) <= 255
        /\ Entries \in Nat
    BY InvRows
  <2>3. w \in Rows /\ Via(w) # Null /\ Mac(w) # s
    BY <1>2, <2>1, TableAssumption
  <2>4. w # Len(xForwardingTable) + 1
    BY <2>2, <2>3
  <2>5. /\ Len(xForwardingTable) = Entries
        /\ \A r \in Rows : Via(r) # Null
        /\ (\E r \in Rows : Age(r) < 255) => Age(w) < 255
    BY <1>1, <2>3, <2>4 DEF ReceivedAt
  <2>6. 1 \in Rows /\ 2 \in Rows
    BY <2>2, <2>5
  <2>7. \A r \in Rows : Live(r) /\ Age(r) = 255
    BY <1>2, <2>1, <2>2, <2>5 DEF Live, Via
  <2> QED
    BY <2>6, <2>7 DEF TableIInv, OneInfinite, INFINITE
<1> QED
  BY <1>1, <1>3 DEF ReceivedAt

LEMMA ReceiveKeeps ==
  ASSUME Calm, TableIInv, NEW i \in Port, NEW s \in Station,
         NEW d \in Address \union {Broadcast}, Receive(i, s, d)
  PROVE  TableIInv'
<1> USE TableAssumption DEF INFINITE
<1>1. xForwardingTable \in Seq(RowType)
  BY DEF TableIInv, TableTypeOK, RowType
<1>2. PICK w : ReceivedAt(w, i, s)
  BY ReceivedRow
<1>3. /\ xForwardingTable' \in Seq(RowType)
      /\ Len(xForwardingTable') \in Nat
      /\ \A r : r \in Rows' <=> r \in Nat /\ 1 <= r /\ r <= Len(xForwardingTable')
  BY ReceivedRow
<1>4. /\ Len(xForwardingTable) \in Nat
      /\ \A r : r \in Rows <=> r \in Nat /\ 1 <= r /\ r <= Len(xForwardingTable)
      /\ \A r \in Rows : /\ Mac(r) \in Address \union {Null}
                         /\ Via(r) \in AnyInterface \union {Null}
                         /\ Age(r) \in Nat /\ Age(r) <= 255
  BY <1>1, RowsTyped
<1>5. /\ Len(xForwardingTable') \in Nat
      /\ \A r : r \in Rows' <=> r \in Nat /\ 1 <= r /\ r <= Len(xForwardingTable')
  BY <1>3
<1>6. /\ Rows \subseteq Rows' /\ w \in Rows' /\ w \in Nat /\ w >= 1
      /\ Mac(w)' = s /\ Via(w)' = i /\ Age(w)' = MaxAge
      /\ \A q \in Rows' : q # w =>
           q \in Rows /\ Mac(q)' = Mac(q) /\ Via(q)' = Via(q) /\ Age(q)' = Age(q)
  BY <1>2 DEF ReceivedAt
<1>7. \/ /\ w \in Rows /\ (Via(w) = Null \/ Mac(w) = s)
         /\ \A r \in Rows : r < w => Via(r) # Null /\ Mac(r) # s
         /\ Len(xForwardingTable') = Len(xForwardingTable)
      \/ /\ w = Len(xForwardingTable) + 1 /\ Len(xForwardingTable') = w
         /\ Len(xForwardingTable) # Entries
         /\ \A r \in Rows : Via(r) # Null /\ Mac(r) # s
      \/ /\ w \in Rows /\ Len(xForwardingTable) = Entries
         /\ Len(xForwardingTable') = Len(xForwardingTable)
         /\ \A r \in Rows : Via(r) # Null /\ Mac(r) # s
         /\ (\E r \in Rows : Age(r) < 255) =>
              Age(w) < 255 /\ \A r \in Rows : Age(w) <= Age(r)
  BY <1>2 DEF ReceivedAt
<1>8. /\ UNCHANGED <<mode, initialised, pc, x, use, age, dst>>
      /\ mode.preempted \/ pc = "idle"
      /\ seen' = [seen EXCEPT ![s] = i] /\ silent' = [silent EXCEPT ![s] = 0]
  BY DEF Receive, ip
<1>9. s # Own /\ s # Null /\ i # Null /\ i # Bridge /\ MaxAge < 255 /\ MaxAge \in Nat \ {0}
  OBVIOUS
<1>10. /\ seen \in [Station -> Port \union {Null}] /\ silent \in [Station -> 0 .. MaxAge]
       /\ mode.aging \in BOOLEAN /\ mode.preempted \in BOOLEAN /\ mode \in Modes
  BY DEF TableIInv, TableTypeOK
<1>11. ~(mode.aging /\ mode.preempted)
  BY <1>10 DEF Calm
<1> HIDE TableAssumption
<1>12. TableTypeOK'
  <2>1. forwarded' \in [from : AnyInterface \union {Null},
                        dst : Address \union {Broadcast, Null},
                        found : AnyInterface \union {Null}, to : SUBSET AnyInterface]
    <3>1. Found(xForwardingTable, d) \in AnyInterface \union {Null}
      <4>1. \A r \in DOMAIN xForwardingTable : xForwardingTable[r].pxInterface \in AnyInterface \union {Null}
        BY <1>4 DEF Rows, Via
      <4> QED
        BY <1>1, <4>1, FoundRow
    <3>2. i \in AnyInterface
      BY DEF AnyInterface
    <3> QED
      BY <3>1, <3>2, Decided DEF Receive
  <2>2. seen' \in [Station -> Port \union {Null}] /\ silent' \in [Station -> 0 .. MaxAge]
    BY <1>8, <1>9, <1>10
  <2>3. x \in 1 .. Len(xForwardingTable') + 1
    <3>1. x \in Nat /\ x >= 1 /\ x <= Len(xForwardingTable) + 1
      BY InvRows
    <3>2. Len(xForwardingTable) <= Len(xForwardingTable')
      BY <1>4, <1>5, <1>6
    <3> QED
      BY <1>4, <1>5, <3>1, <3>2
  <2> QED
    BY <1>3, <1>8, <2>1, <2>2, <2>3 DEF TableIInv, TableTypeOK, RowType
<1>13. PlaceInv'
  <2>1. Len(xForwardingTable) <= Len(xForwardingTable')
    BY <1>4, <1>5, <1>6
  <2> QED
    BY <1>4, <1>5, <1>6, <1>8, <2>1 DEF TableIInv, PlaceInv, TableTypeOK
<1>25. CountInv'
  <2>1. Len(xForwardingTable) <= Entries => Len(xForwardingTable') <= Entries
    <3>1. \/ Len(xForwardingTable') = Len(xForwardingTable)
          \/ /\ Len(xForwardingTable') = Len(xForwardingTable) + 1
             /\ Len(xForwardingTable) # Entries
      BY <1>7
    <3>2. Entries \in Nat
      BY InvRows
    <3> QED
      BY <1>4, <3>1, <3>2
  <2> QED
    BY <1>8, <2>1 DEF TableIInv, CountInv
<1>14. OwnInv'
  <2>1. \A r \in Rows' : Mac(r)' = Own =>
          r \in Rows /\ Mac(r) = Own /\ Via(r)' = Via(r) /\ Age(r)' = Age(r)
    BY <1>6, <1>9
  <2>2. OwnInv /\ x' = x /\ pc' = pc /\ initialised' = initialised
        /\ (pc = "age" => x \in Rows)
    BY <1>8 DEF TableIInv, PlaceInv
  <2>3. pc = "age" => x \in Rows'
    BY <1>6, <2>2
  <2>4. pc = "age" /\ Mac(x)' = Own => Via(x)' = Bridge
    BY <2>1, <2>2, <2>3 DEF OwnInv
  <2>5. /\ ~initialised /\ pc \notin {"interface", "age"} => \A r \in Rows' : Mac(r)' # Own
        /\ pc \in {"interface", "age"} => \A r \in Rows' : Mac(r)' = Own => r = x
        /\ initialised => \A r \in Rows' : Mac(r)' = Own => Via(r)' = Bridge /\ Age(r)' = INFINITE
    BY <2>1, <2>2 DEF OwnInv
  <2> QED
    BY <2>2, <2>4, <2>5 DEF OwnInv, Mac, Via, Age, Rows
<1>15. OneInfinite'
  <2>1. Age(w)' # 255
    BY <1>6, <1>9
  <2>2. \A r \in Rows' : Live(r)' /\ Age(r)' = 255 => r \in Rows /\ Live(r) /\ Age(r) = 255
    BY <1>6, <2>1 DEF Live, Via
  <2> QED
    BY <1>8, <2>2 DEF TableIInv, OneInfinite
<1>16. OwnStays'
  <2>1. ~mode.preempted => pc' = "idle"
    BY <1>8
  <2>2. ASSUME ~mode.preempted, initialised, Entries >= 2
        PROVE  \E r \in Rows' : Mac(r)' = Own
    <3>1. PICK o \in Rows : Mac(o) = Own
      BY <2>2 DEF TableIInv, OwnStays
    <3> QED
      BY <2>2, <3>1, OwnRowKept
  <2> QED
    BY <1>8, <2>1, <2>2 DEF OwnStays
<1>17. UnagedInv'
  <2>1. SUFFICES ASSUME ~mode.aging PROVE UnagedInv'
    BY <1>8 DEF UnagedInv
  <2>2. /\ \A r \in Rows : Via(r) = Null =>
             /\ initialised \/ pc \in {"mac", "interface", "age"}
             /\ r = Len(xForwardingTable)
             /\ Mac(r) = Null \/ (Mac(r) = Own /\ pc = "interface" /\ r = x)
        /\ \A r, q \in Rows : Mac(r) = Mac(q) /\ Mac(r) \in Station => r = q
        /\ \A r \in Rows : Mac(r) \in Station /\ Via(r) \in Port => Via(r) = seen[Mac(r)]
    BY <2>1 DEF TableIInv, UnagedInv, Live, Via
  <2>3. ASSUME NEW r \in Rows', Via(r)' = Null
        PROVE  /\ initialised \/ pc \in {"mac", "interface", "age"}
               /\ r = Len(xForwardingTable')
               /\ Mac(r)' = Null \/ (Mac(r)' = Own /\ pc = "interface" /\ r = x)
    <3>1. r # w
      BY <1>6, <1>9, <2>3
    <3>2. /\ r \in Rows /\ Mac(r)' = Mac(r) /\ Via(r) = Null
          /\ initialised \/ pc \in {"mac", "interface", "age"}
          /\ r = Len(xForwardingTable)
          /\ Mac(r) = Null \/ (Mac(r) = Own /\ pc = "interface" /\ r = x)
      BY <1>6, <2>2, <2>3, <3>1
    <3>3. Len(xForwardingTable') = Len(xForwardingTable)
      BY <1>7, <3>2
    <3> QED
      BY <3>2, <3>3
  <2>4. ASSUME NEW q \in Rows, q # w, Mac(q) = s PROVE FALSE
    <3>1. q \in Nat /\ Via(w) = Null /\ w \in Rows /\ ~(q < w)
      BY <1>4, <1>7, <2>2, <2>4
    <3>2. w = Len(xForwardingTable)
      BY <2>2, <3>1
    <3> QED
      BY <1>4, <2>4, <3>1, <3>2
  <2>5. \A r, q \in Rows' : Mac(r)' = Mac(q)' /\ Mac(r)' \in Station => r = q
    BY <1>6, <2>2, <2>4
  <2>6. \A r \in Rows' : Mac(r)' \in Station /\ Via(r)' \in Port => Via(r)' = seen'[Mac(r)']
    BY <1>6, <1>8, <1>10, <2>2, <2>4
  <2> QED
    BY <1>8, <2>3, <2>5, <2>6 DEF UnagedInv, Live, Via
<1>18. AgedInv'
  <2>1. SUFFICES ASSUME mode.aging PROVE AgedInv'
    BY <1>8 DEF AgedInv
  <2>2. pc = "idle" /\ pc' = "idle"
    BY <1>8, <1>11, <2>1
  <2>3. AgesInv /\ OrderInv /\ FirstInv
    BY <2>1 DEF TableIInv, AgedInv
  <2>4. \A r : ~Behind(r) /\ ~Behind(r)' /\ Lag(r) = 0 /\ Lag(r)' = 0
    BY <2>2 DEF Behind, Lag
  <2>5. /\ \A r \in Rows : Via(r) # Null =>
              /\ Mac(r) # Null
              /\ Mac(r) \in Station =>
                   /\ Age(r) <= MaxAge /\ Age(r) # 0
                   /\ Age(r) + silent[Mac(r)] <= MaxAge
        /\ \A r, q \in Rows : r < q /\ Via(q) # Null /\ Mac(q) \in Station =>
             /\ Mac(r) = Mac(q) => Via(r) # Null /\ Age(q) < Age(r)
             /\ Via(r) = Null => Age(q) < MaxAge
        /\ \A r \in Rows : /\ Via(r) # Null /\ Mac(r) \in Station
                           /\ \A q \in Rows : q < r => Mac(q) # Mac(r)
                           => Via(r) = seen[Mac(r)]
    <3>1. \A r \in Rows : Via(r) # Null =>
              /\ Mac(r) # Null
              /\ Mac(r) \in Station =>
                   /\ Age(r) <= MaxAge /\ Age(r) # 0
                   /\ Age(r) + silent[Mac(r)] <= MaxAge
      <4>1. MaxAge + 0 = MaxAge
        BY <1>9
      <4> QED
        BY <2>2, <2>3, <2>4, <4>1 DEF AgesInv, Live, Via
    <3>2. \A r, q \in Rows : r < q /\ Via(q) # Null /\ Mac(q) \in Station =>
             /\ Mac(r) = Mac(q) => Via(r) # Null /\ Age(q) < Age(r)
             /\ Via(r) = Null => Age(q) < MaxAge
      <4>1. SUFFICES ASSUME NEW r \in Rows, NEW q \in Rows,
                            r < q, Via(q) # Null, Mac(q) \in Station
                     PROVE  /\ Mac(r) = Mac(q) => Via(r) # Null /\ Age(q) < Age(r)
                            /\ Via(r) = Null => Age(q) < MaxAge
        OBVIOUS
      <4>2. /\ Mac(r) = Mac(q) => Via(r) # Null /\ Age(q) < Age(r) + (0 - 0)
            /\ Via(r) = Null => Age(q) < MaxAge + 0
        BY <2>3, <2>4, <4>1 DEF OrderInv, InUse, Live, Via
      <4>3. Age(r) + (0 - 0) = Age(r) /\ MaxAge + 0 = MaxAge
        BY <1>4, <1>9
      <4> QED
        BY <4>2, <4>3
    <3>3. \A r \in Rows : /\ Via(r) # Null /\ Mac(r) \in Station
                          /\ \A q \in Rows : q < r => Mac(q) # Mac(r)
                          => Via(r) = seen[Mac(r)]
      BY <2>3 DEF FirstInv, InUse, Live, Via
    <3> QED
      BY <3>1, <3>2, <3>3
  <2>6. AgesInv'
    <3>1. ASSUME NEW r \in Rows', Via(r)' # Null
          PROVE  /\ Mac(r)' # Null
                 /\ Mac(r)' \in Station =>
                      /\ Age(r)' <= MaxAge /\ Age(r)' # 0
                      /\ Age(r)' + silent'[Mac(r)'] <= MaxAge
      <4>1. CASE r = w
        BY <1>6, <1>8, <1>9, <1>10, <4>1
      <4>2. CASE r # w
        <5>1. /\ r \in Rows /\ Via(r) # Null /\ Mac(r)' = Mac(r) /\ Age(r)' = Age(r)
              /\ Age(r) \in Nat
          BY <1>4, <1>6, <3>1, <4>2
        <5>2. Mac(r) \in Station => silent'[Mac(r)] \in Nat /\ silent[Mac(r)] \in Nat
                                    /\ silent'[Mac(r)] <= silent[Mac(r)]
          BY <1>8, <1>9, <1>10
        <5> QED
          BY <1>9, <2>5, <5>1, <5>2
      <4> QED
        BY <4>1, <4>2
    <3>2. MaxAge + 0 = MaxAge
      BY <1>9
    <3> QED
      BY <2>4, <3>1, <3>2 DEF AgesInv, Live, Via
  <2>7. ASSUME NEW q \in Rows, Mac(q) = s, q # w, Via(q) # Null
        PROVE  w < q /\ Age(q) < MaxAge
    <3>1. /\ w \in Rows /\ (Via(w) = Null \/ Mac(w) = s) /\ ~(q < w)
          /\ q \in Nat /\ w \in Nat
      BY <1>4, <1>6, <1>7, <2>7
    <3>2. w < q
      BY <2>7, <3>1
    <3>3. Age(w) \in Nat /\ Age(q) \in Nat /\ MaxAge \in Nat
      BY <1>4, <1>9, <3>1
    <3>4. CASE Via(w) = Null
      BY <2>5, <2>7, <3>1, <3>2, <3>4
    <3>5. CASE Via(w) # Null /\ Mac(w) = s
      <4>1. Age(q) < Age(w) /\ Age(w) <= MaxAge
        BY <2>5, <2>7, <3>1, <3>2, <3>5
      <4> QED
        BY <3>2, <3>3, <4>1
    <3> QED
      BY <3>1, <3>4, <3>5
  <2>8. OrderInv'
    <3>1. ASSUME NEW r \in Rows', NEW q \in Rows', r < q, Via(q)' # Null, Mac(q)' \in Station
          PROVE  /\ Mac(r)' = Mac(q)' => Via(r)' # Null /\ Age(q)' < Age(r)'
                 /\ Via(r)' = Null => Age(q)' < MaxAge
      <4>1. CASE q = w
        <5>1. r # w /\ r < w /\ r \in Rows /\ Mac(r)' = Mac(r) /\ Via(r)' = Via(r)
          BY <1>5, <1>6, <3>1, <4>1
        <5>2. Via(r) # Null /\ Mac(r) # s
          BY <1>4, <1>7, <5>1
        <5> QED
          BY <1>6, <4>1, <5>1, <5>2
      <4>2. CASE q # w /\ r = w
        BY <1>6, <1>9, <2>7, <3>1, <4>2
      <4>3. CASE q # w /\ r # w
        BY <1>6, <2>5, <3>1, <4>3
      <4> QED
        BY <4>1, <4>2, <4>3
    <3>2. \A r \in Rows' : Age(r)' \in Nat
      BY <1>4, <1>6, <1>9
    <3> QED
      BY <1>9, <2>4, <3>1, <3>2 DEF OrderInv, InUse, Live, Via
  <2>9. FirstInv'
    <3>1. ASSUME NEW r \in Rows', Via(r)' # Null, Mac(r)' \in Station,
                 \A q \in Rows' : q < r => Mac(q)' # Mac(r)'
          PROVE  Via(r)' = seen'[Mac(r)']
      <4>1. CASE r = w
        BY <1>6, <1>8, <1>10, <4>1
      <4>2. CASE r # w
        <5>1. /\ r \in Rows /\ Mac(r)' = Mac(r) /\ Via(r)' = Via(r)
          BY <1>6, <4>2
        <5>2. Mac(r) # s
          BY <1>6, <2>7, <3>1, <4>2, <5>1
        <5>3. \A q \in Rows : q < r => Mac(q) # Mac(r)
          <6>1. SUFFICES ASSUME NEW q \in Rows, q < r, Mac(q) = Mac(r)
                         PROVE  FALSE
            OBVIOUS
          <6>2. q = w /\ w \in Rows
            BY <1>6, <3>1, <5>1, <6>1
          <6>3. Via(w) # Null /\ Age(r) < Age(w)
            BY <2>5, <3>1, <5>1, <6>1, <6>2
          <6>4. w # Len(xForwardingTable) + 1
            BY <1>4, <6>2
          <6>5. Age(w) <= Age(r)
            BY <1>4, <1>7, <1>9, <2>5, <3>1, <5>1, <5>2, <6>1, <6>2, <6>3, <6>4
          <6> QED
            BY <1>4, <5>1, <6>2, <6>3, <6>5
        <5> QED
          BY <1>8, <1>10, <2>5, <3>1, <5>1, <5>2, <5>3
      <4> QED
        BY <4>1, <4>2
    <3> QED
      BY <3>1 DEF FirstInv, InUse, Live, Via
  <2>10. ChoiceInv'
    BY <2>2 DEF ChoiceInv
  <2> QED
    BY <2>2, <2>6, <2>8, <2>9, <2>10 DEF AgedInv
<1> QED
  BY <1>12, <1>13, <1>14, <1>15, <1>16, <1>17, <1>18, <1>25 DEF TableIInv

(***************************************************************************)
(* The steps of the IP task that leave the table as it is.                 *)
(***************************************************************************)
LEMMA SameRows ==
  ASSUME UNCHANGED xForwardingTable
  PROVE  /\ Rows' = Rows
         /\ \A r : /\ Mac(r)' = Mac(r) /\ Via(r)' = Via(r) /\ Age(r)' = Age(r)
                   /\ Live(r)' = Live(r) /\ InUse(r)' = InUse(r)
BY DEF Rows, Mac, Via, Age, Live, InUse

(***************************************************************************)
(* Outside of the entry and of a pass of aging, only the places, the frame *)
(* to forward and the time count.                                          *)
(***************************************************************************)
LEMMA LookupKeeps ==
  ASSUME TableIInv, \/ \E d \in Station : StartOutput(d)
               \/ FindNext \/ SendFound \/ SendNotFound \/ EndAging
  PROVE  TableIInv'
<1>1. /\ UNCHANGED xForwardingTable /\ UNCHANGED <<mode, initialised, use, age, seen, silent>>
      /\ pc \in {"idle", "find", "found", "load"} /\ pc' \in {"idle", "find", "found"}
      /\ pc = "load" => x > Len(xForwardingTable)
      /\ pc' \in {"find", "found"} => dst' \in Station
      /\ pc' = "found" => x' = x /\ x <= Len(xForwardingTable)
      /\ x' = 1 \/ x' = x \/ (x' = x + 1 /\ x <= Len(xForwardingTable))
  BY DEF StartOutput, FindNext, SendFound, SendNotFound, EndAging, Dispatched, Goto, history, TableIInv, PlaceInv
<1>2. /\ Rows' = Rows
      /\ \A r : /\ Mac(r)' = Mac(r) /\ Via(r)' = Via(r) /\ Age(r)' = Age(r)
                /\ Live(r)' = Live(r) /\ InUse(r)' = InUse(r)
  BY <1>1, SameRows
<1>3. /\ Len(xForwardingTable) \in Nat
      /\ \A r : r \in Rows <=> r \in Nat /\ 1 <= r /\ r <= Len(xForwardingTable)
      /\ x \in Nat /\ x >= 1 /\ x <= Len(xForwardingTable) + 1
  BY InvRows
<1>4. TableTypeOK'
  <2>1. forwarded' \in [from : AnyInterface \union {Null},
                        dst : Address \union {Broadcast, Null},
                        found : AnyInterface \union {Null}, to : SUBSET AnyInterface]
    <3>1. ASSUME NEW found, Dispatched(found), found \in AnyInterface \union {Null}
          PROVE  forwarded' \in [from : AnyInterface \union {Null},
                        dst : Address \union {Broadcast, Null},
                        found : AnyInterface \union {Null}, to : SUBSET AnyInterface]
      <4>1. Bridge \in AnyInterface /\ dst \in Address \union {Broadcast}
        BY DEF AnyInterface, TableIInv, TableTypeOK
      <4> QED
        BY <3>1, <4>1, Decided DEF Dispatched
    <3>2. pc = "found" => Row.pxInterface \in AnyInterface \union {Null}
      BY InvRows DEF TableIInv, PlaceInv, Row, Via
    <3>3. UNCHANGED forwarded => forwarded' \in [from : AnyInterface \union {Null},
                        dst : Address \union {Broadcast, Null},
                        found : AnyInterface \union {Null}, to : SUBSET AnyInterface]
      BY DEF TableIInv, TableTypeOK
    <3> QED
      BY <3>1, <3>2, <3>3 DEF StartOutput, FindNext, SendFound, SendNotFound, EndAging, history
  <2>2. dst' \in Address /\ x' \in 1 .. Len(xForwardingTable) + 1
    <3>1. dst' \in Address
      BY DEF StartOutput, FindNext, SendFound, SendNotFound, EndAging, Dispatched, TableIInv, TableTypeOK, Address
    <3>2. x' \in Nat /\ x' >= 1 /\ x' <= Len(xForwardingTable) + 1
      BY <1>1, <1>3
    <3> QED
      BY <1>3, <3>1, <3>2
  <2> QED
    BY <1>1, <2>1, <2>2 DEF TableIInv, TableTypeOK
<1>5. PlaceInv' /\ CountInv'
  BY <1>1, <1>2, <1>3 DEF TableIInv, PlaceInv, CountInv
<1>6. OwnInv' /\ OwnStays'
  BY <1>1, <1>2 DEF TableIInv, OwnInv, OwnStays
<1>7. OneInfinite'
  BY <1>1, <1>2 DEF TableIInv, OneInfinite
<1>8. UnagedInv'
  BY <1>1, <1>2 DEF TableIInv, UnagedInv
<1>9. AgedInv'
  <2>1. \A r \in Rows : Behind(r)' = FALSE /\ Behind(r) = FALSE
    BY <1>1, <1>3 DEF Behind
  <2>2. \A r \in Rows : Lag(r)' = Lag(r)
    BY <2>1 DEF Lag
  <2>3. AgesInv => AgesInv'
    BY <1>1, <1>2, <2>2 DEF AgesInv
  <2>4. OrderInv => OrderInv'
    BY <1>1, <1>2, <2>2 DEF OrderInv
  <2>5. FirstInv => FirstInv'
    BY <1>1, <1>2 DEF FirstInv
  <2>6. ChoiceInv'
    BY <1>1 DEF ChoiceInv
  <2> QED
    BY <1>1, <2>3, <2>4, <2>5, <2>6 DEF TableIInv, AgedInv
<1> QED
  BY <1>4, <1>5, <1>6, <1>7, <1>8, <1>9 DEF TableIInv

(***************************************************************************)
(* A pass of aging (vAgeForwardingTable): no driver preempts it.           *)
(***************************************************************************)
LEMMA LagIs ==
  \A r : /\ Lag(r) \in {0, 1}
         /\ pc \in {"load", "store"} => Lag(r) = IF r >= x THEN 1 ELSE 0
         /\ pc = "wipe" => Lag(r) = IF r > x THEN 1 ELSE 0
         /\ pc \notin {"load", "store", "wipe"} => Lag(r) = 0
BY DEF Lag, Behind

LEMMA TimerKeeps ==
  ASSUME TableIInv, TimerPeriod
  PROVE  TableIInv'
<1>1. /\ pc = "idle" /\ UNCHANGED <<xForwardingTable, mode, initialised, seen, age>>
      /\ IF mode.aging THEN pc' = "load" /\ x' = 1 ELSE UNCHANGED <<pc, x>>
  BY DEF TimerPeriod, Goto
<1>2. /\ Rows' = Rows
      /\ \A r : /\ Mac(r)' = Mac(r) /\ Via(r)' = Via(r) /\ Age(r)' = Age(r)
                /\ Live(r)' = Live(r) /\ InUse(r)' = InUse(r)
  BY <1>1, SameRows
<1>3. /\ Len(xForwardingTable) \in Nat
      /\ \A r : r \in Rows <=> r \in Nat /\ 1 <= r /\ r <= Len(xForwardingTable)
      /\ \A r \in Rows : Age(r) \in Nat
      /\ MaxAge \in Nat
  BY InvRows
<1>4. /\ silent \in [Station -> 0 .. MaxAge]
      /\ silent' = [s \in Station |-> IF silent[s] < MaxAge THEN silent[s] + 1 ELSE MaxAge]
  BY DEF TimerPeriod, OnePeriodMore, TableIInv, TableTypeOK
<1>5. TableTypeOK'
  <2>1. silent' \in [Station -> 0 .. MaxAge]
    BY <1>3, <1>4
  <2>2. 1 \in 1 .. Len(xForwardingTable) + 1
    BY <1>3
  <2> QED
    BY <1>1, <2>1, <2>2 DEF TableIInv, TableTypeOK, TimerPeriod
<1>6. PlaceInv' /\ CountInv'
  BY <1>1, <1>2 DEF TableIInv, PlaceInv, CountInv, TimerPeriod
<1>7. OwnInv' /\ OwnStays' /\ OneInfinite'
  BY <1>1, <1>2 DEF TableIInv, OwnInv, OwnStays, OneInfinite
<1>8. UnagedInv'
  BY <1>1, <1>2 DEF TableIInv, UnagedInv
<1>9. AgedInv'
  <2>1. SUFFICES ASSUME mode.aging PROVE AgedInv'
    BY <1>1 DEF AgedInv
  <2>2. pc' = "load" /\ AgesInv /\ OrderInv /\ FirstInv
    BY <1>1, <2>1 DEF TableIInv, AgedInv
  <2>3. \A r \in Rows : Lag(r) = 0
    BY <1>1 DEF Lag, Behind
  <2>4. \A r \in Rows : Lag(r)' = 1
    BY <1>1, <1>3, <2>1 DEF Lag, Behind
  <2>5. AgesInv'
    <3>1. ASSUME NEW r \in Rows, Live(r), Mac(r) \in Station
          PROVE  Age(r) <= MaxAge /\ Age(r) # 0 /\ Age(r) + silent'[Mac(r)] <= MaxAge + 1
      <4>1. Age(r) <= MaxAge /\ Age(r) # 0 /\ Age(r) + silent[Mac(r)] <= MaxAge + 0
        BY <1>1, <2>2, <2>3, <3>1 DEF AgesInv
      <4>2. silent[Mac(r)] \in Nat /\ silent[Mac(r)] <= MaxAge
        BY <1>3, <1>4, <3>1
      <4>3. silent'[Mac(r)] <= silent[Mac(r)] + 1 /\ silent'[Mac(r)] \in Nat
        BY <1>3, <1>4, <3>1, <4>2
      <4>4. Age(r) \in Nat /\ MaxAge \in Nat
        BY <1>3
      <4> QED
        BY <4>1, <4>2, <4>3, <4>4
    <3> QED
      BY <1>2, <2>2, <2>4, <3>1 DEF AgesInv
  <2>6. OrderInv'
    <3>1. ASSUME NEW r \in Rows, NEW q \in Rows, r < q, InUse(q)
          PROVE  /\ Mac(r) = Mac(q) => Live(r) /\ Age(q) < Age(r) + (1 - 1)
                 /\ ~Live(r) => Age(q) < MaxAge + 1
      <4>1. /\ Mac(r) = Mac(q) => Live(r) /\ Age(q) < Age(r) + (0 - 0)
            /\ ~Live(r) => Age(q) < MaxAge + 0
        BY <2>2, <2>3, <3>1 DEF OrderInv
      <4>2. Age(r) \in Nat /\ Age(q) \in Nat /\ MaxAge \in Nat
        BY <1>3
      <4> QED
        BY <4>1, <4>2
    <3> QED
      BY <1>2, <2>4, <3>1 DEF OrderInv
  <2>7. FirstInv' /\ ChoiceInv'
    BY <1>1, <1>2, <2>2 DEF FirstInv, ChoiceInv
  <2> QED
    BY <2>2, <2>5, <2>6, <2>7 DEF AgedInv
<1> QED
  BY <1>5, <1>6, <1>7, <1>8, <1>9 DEF TableIInv

LEMMA LoadKeeps ==
  ASSUME TableIInv, LoadAge
  PROVE  TableIInv'
<1>1. /\ pc = "load" /\ x <= Len(xForwardingTable)
      /\ UNCHANGED <<xForwardingTable, mode, initialised, seen, silent, use, dst, forwarded>>
      /\ \/ Age(x) = 255 /\ x' = x + 1 /\ pc' = "load" /\ age' = age
         \/ Age(x) # 255 /\ x' = x /\ pc' = "store" /\ age' = Age(x)
  BY DEF LoadAge, Goto, Row, Age, INFINITE, history
<1>2. /\ Rows' = Rows
      /\ \A r : /\ Mac(r)' = Mac(r) /\ Via(r)' = Via(r) /\ Age(r)' = Age(r)
                /\ Live(r)' = Live(r) /\ InUse(r)' = InUse(r)
  BY <1>1, SameRows
<1>3. /\ Len(xForwardingTable) \in Nat
      /\ \A r : r \in Rows <=> r \in Nat /\ 1 <= r /\ r <= Len(xForwardingTable)
      /\ \A r \in Rows : Age(r) \in Nat /\ Age(r) <= 255
      /\ x \in Nat /\ x >= 1 /\ MaxAge \in Nat /\ MaxAge < 255
  BY InvRows
<1>4. x \in Rows
  BY <1>1, <1>3
<1>5. TableTypeOK'
  <2>1. x' \in 1 .. Len(xForwardingTable) + 1
    BY <1>1, <1>3
  <2>2. age' \in 0 .. 255
    <3>1. age \in 0 .. 255
      BY DEF TableIInv, TableTypeOK, UINT8_MAX
    <3>2. \A a \in Nat : a <= 255 => a \in 0 .. 255
      OBVIOUS
    <3> QED
      BY <1>1, <1>3, <1>4, <3>1, <3>2
  <2> QED
    BY <1>1, <2>1, <2>2 DEF TableIInv, TableTypeOK, UINT8_MAX
<1>6. PlaceInv' /\ CountInv' /\ mode.aging
  BY <1>1, <1>2, <1>4 DEF TableIInv, PlaceInv, CountInv
<1>7. OwnInv' /\ OwnStays' /\ OneInfinite'
  BY <1>1, <1>2 DEF TableIInv, OwnInv, OwnStays, OneInfinite
<1>8. UnagedInv'
  BY <1>1, <1>6 DEF UnagedInv
<1>9. AgedInv'
  <2>1. AgesInv /\ OrderInv /\ FirstInv
    BY <1>6 DEF TableIInv, AgedInv
  <2>2. \A r \in Rows : r # x => Lag(r)' = Lag(r)
    <3>1. \A r \in Rows : r # x => (r >= x <=> r >= x + 1) /\ r \in Nat
      BY <1>3
    <3> QED
      BY <1>1, <3>1 DEF Lag, Behind
  <2>3. InUse(x) => x' = x /\ pc' = "store" /\ Lag(x)' = Lag(x)
    <3>1. InUse(x) => Age(x) # 255
      BY <1>3, <1>4, <2>1 DEF AgesInv, InUse
    <3> QED
      BY <1>1, <3>1 DEF Lag, Behind
  <2>4. \A r \in Rows : InUse(r) => Lag(r)' = Lag(r)
    BY <2>2, <2>3
  <2>5. AgesInv'
    BY <1>1, <1>2, <2>1, <2>4 DEF AgesInv, InUse
  <2>6. OrderInv'
    BY <1>2, <2>1, <2>4 DEF OrderInv, InUse
  <2>7. FirstInv' /\ ChoiceInv'
    BY <1>1, <1>2, <2>1 DEF FirstInv, ChoiceInv
  <2>8. pc' = "store" => age' = Age(x)' /\ age' # 255
    BY <1>1 DEF Age
  <2> QED
    BY <2>5, <2>6, <2>7, <2>8 DEF AgedInv, INFINITE, Age
<1> QED
  BY <1>5, <1>6, <1>7, <1>8, <1>9 DEF TableIInv

(***************************************************************************)
(* A field of the IP task's row is written.                                *)
(***************************************************************************)
LEMMA RowWritten ==
  ASSUME TableIInv, x \in Rows, NEW v \in RowType,
         xForwardingTable' = [xForwardingTable EXCEPT ![x] = v]
  PROVE  /\ xForwardingTable' \in Seq(RowType)
         /\ Len(xForwardingTable') = Len(xForwardingTable) /\ Rows' = Rows
         /\ xForwardingTable'[x] = v
         /\ \A r \in Rows : r # x =>
              /\ Mac(r)' = Mac(r) /\ Via(r)' = Via(r) /\ Age(r)' = Age(r)
              /\ Live(r)' = Live(r) /\ InUse(r)' = InUse(r)
<1>1. xForwardingTable \in Seq(RowType)
  BY DEF TableIInv, TableTypeOK, RowType
<1>2. /\ Changes(xForwardingTable, xForwardingTable', x)
      /\ xForwardingTable'[x] = v
      /\ Len(xForwardingTable') = Len(xForwardingTable)
      /\ DOMAIN xForwardingTable' = DOMAIN xForwardingTable
  BY <1>1, Replaced DEF Rows
<1>3. \A r \in Rows : r # x => xForwardingTable'[r] = xForwardingTable[r]
  BY <1>2 DEF Changes, Rows
<1> QED
  BY <1>2, <1>3 DEF Changes, Rows, Mac, Via, Age, Live, InUse

LEMMA RowIs ==
  ASSUME TableIInv, x \in Rows
  PROVE  /\ Row = [pxInterface |-> Via(x), xMACAddress |-> Mac(x), ucAge |-> Age(x)]
         /\ Row \in RowType
<1>1. Row \in RowType
  <2>1. xForwardingTable \in Seq(RowType)
    BY DEF TableIInv, TableTypeOK, RowType
  <2>2. x \in 1 .. Len(xForwardingTable)
    BY <2>1, LenProperties DEF Rows
  <2> QED
    BY <2>1, <2>2, ElementOfSeq DEF Row
<1> QED
  BY <1>1 DEF Row, RowType, Mac, Via, Age

LEMMA StoreKeeps ==
  ASSUME TableIInv, StoreAge
  PROVE  TableIInv'
<1>1. /\ pc = "store" /\ pc' = "wipe"
      /\ UNCHANGED <<mode, initialised, x, use, age, dst, forwarded, seen, silent>>
      /\ x \in Rows /\ mode.aging
  BY DEF StoreAge, Goto, history, TableIInv, PlaceInv
<1>2. /\ Len(xForwardingTable) \in Nat
      /\ \A r : r \in Rows <=> r \in Nat /\ 1 <= r /\ r <= Len(xForwardingTable)
      /\ \A r \in Rows : Age(r) \in Nat /\ Age(r) <= 255
      /\ x \in Nat /\ MaxAge \in Nat /\ MaxAge < 255
  BY InvRows
<1>3. AgesInv /\ OrderInv /\ FirstInv /\ age = Age(x) /\ age # 255
  BY <1>1 DEF TableIInv, AgedInv, INFINITE
<1>4. Older(age) \in 0 .. 255 /\ (age > 0 => Older(age) = age - 1)
  <2>1. \A a \in 0 .. 255 : (a - 1) % 256 \in 0 .. 255 /\ (a > 0 => (a - 1) % 256 = a - 1)
    OBVIOUS
  <2>2. age \in 0 .. 255
    BY DEF TableIInv, TableTypeOK, UINT8_MAX
  <2>3. Older(age) = (age - 1) % 256
    BY DEF Older, UINT8_MAX
  <2> QED
    BY <2>1, <2>2, <2>3
<1>5. /\ xForwardingTable' \in Seq(RowType)
      /\ Len(xForwardingTable') = Len(xForwardingTable) /\ Rows' = Rows
      /\ Mac(x)' = Mac(x) /\ Via(x)' = Via(x) /\ Age(x)' = Older(age)
      /\ \A r \in Rows : r # x =>
           /\ Mac(r)' = Mac(r) /\ Via(r)' = Via(r) /\ Age(r)' = Age(r)
           /\ Live(r)' = Live(r) /\ InUse(r)' = InUse(r)
  <2> DEFINE v == [pxInterface |-> Via(x), xMACAddress |-> Mac(x), ucAge |-> Older(age)]
  <2>1. v \in RowType /\ [Row EXCEPT !.ucAge = Older(age)] = v
    BY <1>1, <1>4, RowIs DEF RowType, UINT8_MAX
  <2>2. xForwardingTable' = [xForwardingTable EXCEPT ![x] = v]
    BY <2>1 DEF StoreAge, Row
  <2> HIDE DEF v
  <2>3. xForwardingTable'[x] = v
    BY <1>1, <2>1, <2>2, RowWritten
  <2>4. Mac(x)' = v.xMACAddress /\ Via(x)' = v.pxInterface /\ Age(x)' = v.ucAge
    BY <1>1, <2>3 DEF Mac, Via, Age
  <2> QED
    BY <1>1, <2>1, <2>2, <2>4, RowWritten DEF v
<1>6. /\ \A r \in Rows : /\ Mac(r)' = Mac(r) /\ Via(r)' = Via(r)
                         /\ Live(r)' = Live(r) /\ InUse(r)' = InUse(r)
  BY <1>1, <1>5 DEF Live, InUse, Via, Mac
<1>7. InUse(x) => /\ Age(x)' = Age(x) - 1 /\ Age(x) >= 1
                  /\ Lag(x) = 1 /\ Lag(x)' = 0
  <2>1. InUse(x) => Age(x) # 0
    BY <1>1, <1>3 DEF AgesInv, InUse
  <2>2. Lag(x) = 1 /\ Lag(x)' = 0
    BY <1>1, <1>2 DEF Lag, Behind
  <2> QED
    BY <1>1, <1>2, <1>3, <1>4, <1>5, <2>1, <2>2
<1>8. \A r \in Rows : r # x => Lag(r)' = Lag(r)
  BY <1>1, <1>2 DEF Lag, Behind
<1>9. TableTypeOK'
  BY <1>1, <1>5 DEF TableIInv, TableTypeOK, RowType, UINT8_MAX
<1>10. PlaceInv' /\ CountInv'
  BY <1>1, <1>5 DEF TableIInv, PlaceInv, CountInv
<1>11. OwnInv' /\ OwnStays' /\ OneInfinite'
  <2>1. Mac(x) # Own
    BY <1>1, <1>3 DEF TableIInv, OwnInv, INFINITE
  <2>2. OwnInv' /\ OwnStays'
    BY <1>1, <1>5, <1>6, <2>1 DEF TableIInv, OwnInv, OwnStays
  <2>3. Live(x) => InUse(x)
    BY <1>1, <1>3, <2>1, InvRows DEF InUse, AgesInv, Address
  <2>4. \A r \in Rows : Live(r)' /\ Age(r)' = 255 => Live(r) /\ Age(r) = 255
    BY <1>1, <1>2, <1>5, <1>6, <1>7, <2>3
  <2> QED
    BY <1>1, <1>5, <2>2, <2>4 DEF TableIInv, OneInfinite, INFINITE
<1>12. UnagedInv'
  BY <1>1 DEF UnagedInv
<1>13. AgedInv'
  <2>1. AgesInv'
    <3>1. ASSUME NEW r \in Rows, Live(r), Mac(r) \in Station
          PROVE  /\ Age(r)' <= MaxAge /\ (Age(r)' = 0 => r = x)
                 /\ Age(r)' + silent[Mac(r)] <= MaxAge + Lag(r)'
      <4>1. /\ Age(r) <= MaxAge /\ Age(r) # 0
            /\ Age(r) + silent[Mac(r)] <= MaxAge + Lag(r)
        BY <1>1, <1>3, <3>1 DEF AgesInv
      <4>2. CASE r # x
        BY <1>5, <1>8, <4>1, <4>2
      <4>3. CASE r = x
        <5>1. silent[Mac(r)] \in Nat
          BY <3>1 DEF TableIInv, TableTypeOK
        <5> QED
          BY <1>1, <1>2, <1>7, <3>1, <4>1, <4>3, <5>1 DEF InUse
      <4> QED
        BY <4>2, <4>3
    <3> QED
      BY <1>1, <1>3, <1>5, <1>6, <3>1 DEF AgesInv
  <2>2. OrderInv'
    <3>1. ASSUME NEW r \in Rows, NEW q \in Rows, r < q, InUse(q)
          PROVE  /\ Mac(r) = Mac(q) => Live(r) /\ Age(q)' < Age(r)' + (Lag(q)' - Lag(r)')
                 /\ ~Live(r) => Age(q)' < MaxAge + Lag(q)'
      <4>1. /\ Mac(r) = Mac(q) => Live(r) /\ Age(q) < Age(r) + (Lag(q) - Lag(r))
            /\ ~Live(r) => Age(q) < MaxAge + Lag(q)
        BY <1>3, <3>1 DEF OrderInv
      <4>2. /\ Age(r) \in Nat /\ Age(q) \in Nat /\ MaxAge \in Nat
            /\ Lag(r) \in {0, 1} /\ Lag(q) \in {0, 1}
        BY <1>2, LagIs
      <4>3. CASE r # x /\ q # x
        BY <1>5, <1>8, <4>1, <4>3
      <4>4. CASE q = x
        <5>1. r # x /\ Age(r)' = Age(r) /\ Lag(r)' = Lag(r)
          BY <1>2, <1>5, <1>8, <3>1, <4>4
        <5> QED
          BY <1>1, <1>7, <3>1, <4>1, <4>2, <4>4, <5>1
      <4>5. CASE r = x
        <5>1. q # x /\ Age(q)' = Age(q) /\ Lag(q)' = Lag(q)
          BY <1>2, <1>5, <1>8, <3>1, <4>5
        <5>2. Mac(r) = Mac(q) => InUse(x)
          BY <3>1, <4>1, <4>5 DEF InUse
        <5> QED
          BY <1>1, <1>7, <3>1, <4>1, <4>2, <4>5, <5>1, <5>2
      <4> QED
        BY <4>3, <4>4, <4>5
    <3> QED
      BY <1>5, <1>6, <3>1 DEF OrderInv
  <2>3. FirstInv' /\ ChoiceInv'
    BY <1>1, <1>3, <1>5, <1>6 DEF FirstInv, ChoiceInv
  <2> QED
    BY <1>1, <2>1, <2>2, <2>3 DEF AgedInv
<1> QED
  BY <1>9, <1>10, <1>11, <1>12, <1>13 DEF TableIInv

LEMMA WipeKeeps ==
  ASSUME TableIInv, Wipe
  PROVE  TableIInv'
<1>1. /\ pc = "wipe" /\ pc' = "load" /\ x' = x + 1
      /\ UNCHANGED <<mode, initialised, use, age, dst, forwarded, seen, silent>>
      /\ x \in Rows /\ mode.aging
  BY DEF Wipe, Goto, history, TableIInv, PlaceInv
<1>2. /\ Len(xForwardingTable) \in Nat
      /\ \A r : r \in Rows <=> r \in Nat /\ 1 <= r /\ r <= Len(xForwardingTable)
      /\ \A r \in Rows : Age(r) \in Nat /\ Age(r) <= 255
      /\ x \in Nat /\ x >= 1 /\ MaxAge \in Nat /\ MaxAge < 255
  BY InvRows
<1>3. AgesInv /\ OrderInv /\ FirstInv
  BY <1>1 DEF TableIInv, AgedInv
<1>4. /\ xForwardingTable' \in Seq(RowType)
      /\ Len(xForwardingTable') = Len(xForwardingTable) /\ Rows' = Rows
      /\ \A r \in Rows : /\ xForwardingTable'[r].xMACAddress = Mac(r)
                         /\ xForwardingTable'[r].ucAge = Age(r)
                         /\ xForwardingTable'[r].pxInterface
                              = IF r = x /\ Age(x) = 0 THEN Null ELSE Via(r)
  <2> DEFINE v == [pxInterface |-> IF Age(x) = 0 THEN Null ELSE Via(x),
                   xMACAddress |-> Mac(x), ucAge |-> Age(x)]
  <2>1. v \in RowType /\ [Row EXCEPT !.pxInterface = IF Row.ucAge = 0 THEN Null ELSE @] = v
    BY <1>1, RowIs DEF RowType
  <2>2. xForwardingTable' = [xForwardingTable EXCEPT ![x] = v]
    BY <2>1 DEF Wipe, Row
  <2>3. /\ v \in RowType /\ v.xMACAddress = Mac(x) /\ v.ucAge = Age(x)
        /\ v.pxInterface = IF Age(x) = 0 THEN Null ELSE Via(x)
    BY <2>1
  <2> HIDE DEF v
  <2>4. /\ xForwardingTable \in Seq(RowType) /\ x \in DOMAIN xForwardingTable
    BY <1>1 DEF TableIInv, TableTypeOK, RowType, Rows
  <2>5. /\ Changes(xForwardingTable, xForwardingTable', x)
        /\ xForwardingTable'[x] = v
        /\ Len(xForwardingTable') = Len(xForwardingTable)
        /\ DOMAIN xForwardingTable' = DOMAIN xForwardingTable
    BY <2>2, <2>3, <2>4, Replaced
  <2>6. \A r \in Rows : r # x => xForwardingTable'[r] = xForwardingTable[r]
    BY <2>5 DEF Changes, Rows
  <2> QED
    BY <2>3, <2>5, <2>6 DEF Changes, Rows, Mac, Via, Age
<1>5. \A r \in Rows :
        /\ Mac(r)' = Mac(r) /\ Age(r)' = Age(r)
        /\ Via(r)' = IF r = x /\ Age(x) = 0 THEN Null ELSE Via(r)
        /\ Live(r)' <=> Live(r) /\ ~(r = x /\ Age(r) = 0)
        /\ InUse(r)' <=> InUse(r) /\ ~(r = x /\ Age(r) = 0)
  BY <1>4 DEF Mac, Via, Age, Live, InUse
<1>6. \A r \in Rows : Lag(r)' = Lag(r)
  <2>1. \A r \in Rows : r > x <=> r >= x + 1
    BY <1>2
  <2> QED
    BY <1>1, <2>1 DEF Lag, Behind
<1>7. TableTypeOK'
  <2>1. x + 1 \in 1 .. Len(xForwardingTable') + 1
    BY <1>1, <1>2, <1>4
  <2> QED
    BY <1>1, <1>4, <2>1 DEF TableIInv, TableTypeOK, RowType, UINT8_MAX
<1>8. PlaceInv' /\ CountInv'
  BY <1>1, <1>4 DEF TableIInv, PlaceInv, CountInv
<1>9. OwnInv' /\ OwnStays' /\ OneInfinite'
  BY <1>1, <1>4, <1>5 DEF TableIInv, OwnInv, OwnStays, OneInfinite, INFINITE
<1>10. UnagedInv'
  BY <1>1 DEF UnagedInv
<1>11. AgedInv'
  <2>1. AgesInv'
    BY <1>1, <1>3, <1>4, <1>5, <1>6 DEF AgesInv
  <2>2. OrderInv'
    <3>1. ASSUME NEW r \in Rows, NEW q \in Rows, r < q, InUse(q)'
          PROVE  /\ Mac(r) = Mac(q) => Live(r)' /\ Age(q) < Age(r) + (Lag(q) - Lag(r))
                 /\ ~Live(r)' => Age(q) < MaxAge + Lag(q)
      <4>1. /\ InUse(q)
            /\ Mac(r) = Mac(q) => Live(r) /\ Age(q) < Age(r) + (Lag(q) - Lag(r))
            /\ ~Live(r) => Age(q) < MaxAge + Lag(q)
        BY <1>3, <1>5, <3>1 DEF OrderInv
      <4>2. CASE ~(r = x /\ Age(r) = 0)
        BY <1>5, <4>1, <4>2
      <4>3. CASE r = x /\ Age(r) = 0
        <5>1. Lag(r) = 0 /\ Lag(q) = 1 /\ q # x
          BY <1>1, <1>2, <3>1, <4>3, LagIs
        <5>2. Age(q) # 0 /\ Age(q) <= MaxAge
          BY <1>3, <4>1, <5>1 DEF AgesInv, InUse
        <5>3. ~(Age(q) < Age(r) + (Lag(q) - Lag(r)))
          BY <1>2, <4>3, <5>1, <5>2
        <5> QED
          BY <1>2, <4>1, <5>1, <5>2, <5>3
      <4> QED
        BY <4>2, <4>3
    <3> QED
      BY <1>4, <1>5, <1>6, <3>1 DEF OrderInv
  <2>3. FirstInv' /\ ChoiceInv'
    BY <1>1, <1>3, <1>4, <1>5 DEF FirstInv, ChoiceInv
  <2> QED
    BY <1>1, <2>1, <2>2, <2>3 DEF AgedInv
<1> QED
  BY <1>7, <1>8, <1>9, <1>10, <1>11 DEF TableIInv
-----------------------------------------------------------------------------
(***************************************************************************)
(* The entry of the device's own address.                                  *)
(***************************************************************************)
LEMMA StartInitialiseKeeps ==
  ASSUME TableIInv, StartInitialise
  PROVE  TableIInv'
<1>1. /\ pc = "idle" /\ pc' = "scan" /\ ~initialised /\ x' = 1
      /\ age' = 255 /\ use' \in 1 .. Entries
      /\ UNCHANGED <<xForwardingTable, mode, initialised, dst, forwarded, seen, silent>>
  BY DEF StartInitialise, Goto, history, UINT8_MAX
<1>2. /\ Rows' = Rows
      /\ \A r : /\ Mac(r)' = Mac(r) /\ Via(r)' = Via(r) /\ Age(r)' = Age(r)
                /\ Live(r)' = Live(r) /\ InUse(r)' = InUse(r)
  BY <1>1, SameRows
<1>3. /\ Len(xForwardingTable) \in Nat
      /\ \A r : r \in Rows <=> r \in Nat /\ 1 <= r /\ r <= Len(xForwardingTable)
      /\ Entries \in Nat
  BY InvRows
<1>4. TableTypeOK'
  <2>1. 1 \in 1 .. Len(xForwardingTable) + 1 /\ 255 \in 0 .. 255
    BY <1>3
  <2> QED
    BY <1>1, <2>1 DEF TableIInv, TableTypeOK, UINT8_MAX
<1>5. PlaceInv' /\ CountInv'
  BY <1>1, <1>3 DEF TableIInv, PlaceInv, CountInv
<1>6. OwnInv' /\ OwnStays' /\ OneInfinite' /\ UnagedInv'
  BY <1>1, <1>2 DEF TableIInv, OwnInv, OwnStays, OneInfinite, UnagedInv
<1>7. AgedInv'
  <2>1. \A r \in Rows : Lag(r)' = Lag(r)
    BY <1>1 DEF Lag, Behind
  <2>2. mode.aging => AgesInv' /\ OrderInv' /\ FirstInv'
    BY <1>1, <1>2, <2>1 DEF TableIInv, AgedInv, AgesInv, OrderInv, FirstInv
  <2>3. ChoiceInv'
    BY <1>1, <1>2, <1>3 DEF ChoiceInv, INFINITE
  <2> QED
    BY <1>1, <2>2, <2>3 DEF AgedInv
<1> QED
  BY <1>4, <1>5, <1>6, <1>7 DEF TableIInv

LEMMA ScanKeeps ==
  ASSUME TableIInv, Scan
  PROVE  TableIInv'
<1>1. /\ pc = "scan"
      /\ UNCHANGED <<xForwardingTable, mode, initialised, dst, forwarded, seen, silent>>
      /\ \/ /\ x > Len(xForwardingTable) \/ Usable(Row, Own)
            /\ pc' = "claim" /\ x' = x /\ use' = use /\ age' = age
         \/ /\ ~(x > Len(xForwardingTable)) /\ ~Usable(Row, Own)
            /\ pc' = "scan" /\ x' = x + 1
            /\ \/ Row.ucAge < age /\ age' = Row.ucAge /\ use' = x
               \/ ~(Row.ucAge < age) /\ age' = age /\ use' = use
  BY DEF Scan, Goto, history
<1>2. /\ Rows' = Rows
      /\ \A r : /\ Mac(r)' = Mac(r) /\ Via(r)' = Via(r) /\ Age(r)' = Age(r)
                /\ Live(r)' = Live(r) /\ InUse(r)' = InUse(r)
  BY <1>1, SameRows
<1>3. /\ Len(xForwardingTable) \in Nat
      /\ \A r : r \in Rows <=> r \in Nat /\ 1 <= r /\ r <= Len(xForwardingTable)
      /\ \A r \in Rows : Age(r) \in Nat /\ Age(r) <= 255
      /\ Entries \in Nat /\ Len(xForwardingTable) <= Entries
      /\ x \in Nat /\ x >= 1 /\ MaxAge \in Nat /\ MaxAge < 255
  <2>1. ~initialised /\ Len(xForwardingTable) <= Entries
    BY <1>1 DEF TableIInv, PlaceInv, CountInv
  <2> QED
    BY <2>1, InvRows
<1>4. x <= Len(xForwardingTable) + 1 /\ ~initialised
  BY <1>1, InvRows DEF TableIInv, PlaceInv
<1>5. pc' = "scan" => /\ x \in Rows /\ Live(x) /\ Mac(x) # Own /\ Row.ucAge = Age(x)
  BY <1>1, <1>3 DEF Usable, Row, Live, Mac, Age
<1>6. age \in Nat /\ age <= 255 /\ use \in 1 .. Entries
  <2>1. age \in 0 .. 255 /\ use \in 1 .. Entries
    BY DEF TableIInv, TableTypeOK, UINT8_MAX
  <2> QED
    BY <2>1
<1>7. TableTypeOK'
  <2>1. x' \in 1 .. Len(xForwardingTable) + 1
    <3>1. x' \in Nat /\ x' >= 1 /\ x' <= Len(xForwardingTable) + 1
      BY <1>1, <1>3, <1>4, <1>5
    <3> QED
      BY <1>3, <3>1
  <2>2. age' \in 0 .. 255
    <3>1. age' \in Nat /\ age' <= 255
      BY <1>1, <1>3, <1>5, <1>6
    <3> QED
      BY <3>1
  <2>3. use' \in 1 .. Entries
    BY <1>1, <1>3, <1>5, <1>6
  <2> QED
    BY <1>1, <2>1, <2>2, <2>3 DEF TableIInv, TableTypeOK, UINT8_MAX
<1>8. PlaceInv' /\ CountInv'
  BY <1>1, <1>3, <1>4, <1>5 DEF TableIInv, PlaceInv, CountInv
<1>9. OwnInv' /\ OwnStays' /\ OneInfinite' /\ UnagedInv'
  BY <1>1, <1>2 DEF TableIInv, OwnInv, OwnStays, OneInfinite, UnagedInv
<1>10. AgedInv'
  <2>1. \A r \in Rows : Lag(r)' = Lag(r)
    BY <1>1 DEF Lag, Behind
  <2>2. mode.aging => AgesInv' /\ OrderInv' /\ FirstInv'
    BY <1>1, <1>2, <2>1 DEF TableIInv, AgedInv, AgesInv, OrderInv, FirstInv
  <2>3. mode.aging => ChoiceInv'
    <3>1. SUFFICES ASSUME mode.aging PROVE ChoiceInv'
      OBVIOUS
    <3>2. /\ \A r \in Rows : r < x => Live(r) /\ age <= Age(r)
          /\ IF x > 1 THEN use < x /\ Age(use) = age ELSE age = 255
      BY <1>1, <3>1 DEF TableIInv, AgedInv, ChoiceInv, INFINITE
    <3>3. CASE pc' = "claim"
      <4>1. x \in Rows => ~Live(x)
        BY <1>1, <1>3, <1>4, <3>3 DEF TableIInv, OwnInv, Usable, Row, Live, Mac
      <4> QED
        BY <1>1, <1>2, <3>2, <3>3, <4>1 DEF ChoiceInv, INFINITE
    <3>4. CASE pc' = "scan"
      <4>1. /\ x' = x + 1 /\ x \in Rows /\ Live(x)
            /\ \/ Age(x) < age /\ age' = Age(x) /\ use' = x
               \/ ~(Age(x) < age) /\ age' = age /\ use' = use
        BY <1>1, <1>5, <3>4
      <4>2. Age(x) <= MaxAge
        <5>1. Mac(x) \in Station
          BY <1>1, <1>5, <3>1, <3>4, InvRows DEF TableIInv, AgedInv, AgesInv, Address
        <5> QED
          BY <1>5, <3>1, <3>4, <5>1 DEF TableIInv, AgedInv, AgesInv
      <4>3. \A r \in Rows : r < x + 1 => Live(r) /\ age' <= Age(r)
        <5>1. SUFFICES ASSUME NEW r \in Rows, r < x + 1 PROVE Live(r) /\ age' <= Age(r)
          OBVIOUS
        <5>2. r = x \/ r < x
          BY <1>3, <5>1
        <5>3. CASE r = x
          BY <1>3, <1>6, <4>1, <5>3
        <5>4. CASE r < x
          BY <1>3, <1>6, <3>2, <4>1, <5>1, <5>4
        <5> QED
          BY <5>2, <5>3, <5>4
      <4>4. use' < x + 1 /\ Age(use') = age'
        <5>1. CASE use' = x /\ age' = Age(x)
          BY <1>3, <5>1
        <5>2. CASE ~(Age(x) < age) /\ age' = age /\ use' = use
          <6>1. x > 1 => use < x /\ Age(use) = age
            BY <3>2
          <6>2. x # 1
            BY <1>3, <3>2, <4>1, <4>2, <5>2
          <6> QED
            BY <1>3, <1>6, <5>2, <6>1, <6>2
        <5> QED
          BY <4>1, <5>1, <5>2
      <4> QED
        BY <1>1, <1>2, <1>3, <3>4, <4>1, <4>3, <4>4 DEF ChoiceInv, Age
    <3> QED
      BY <1>1, <3>3, <3>4
  <2> QED
    BY <1>1, <2>2, <2>3 DEF AgedInv
<1> QED
  BY <1>7, <1>8, <1>9, <1>10 DEF TableIInv

LEMMA ClaimKeeps ==
  ASSUME TableIInv, Claim
  PROVE  TableIInv'
<1>1. /\ pc = "claim" /\ ~initialised
      /\ UNCHANGED <<xForwardingTable, mode, initialised, use, age, dst, forwarded, seen, silent>>
      /\ \/ x # Len(xForwardingTable) + 1 /\ pc' = "mac" /\ x' = x
         \/ x = Len(xForwardingTable) + 1 /\ x = Entries + 1 /\ pc' = "mac" /\ x' = use
         \/ x = Len(xForwardingTable) + 1 /\ x # Entries + 1 /\ pc' = "count" /\ x' = x
  BY DEF Claim, Goto, history, TableIInv, PlaceInv
<1>2. /\ Len(xForwardingTable) \in Nat
      /\ \A r : r \in Rows <=> r \in Nat /\ 1 <= r /\ r <= Len(xForwardingTable)
      /\ \A r \in Rows : Age(r) \in Nat /\ Age(r) <= 255
      /\ Entries \in Nat /\ Len(xForwardingTable) <= Entries
      /\ x \in Nat /\ x >= 1 /\ x <= Len(xForwardingTable) + 1
  <2>1. Len(xForwardingTable) <= Entries
    BY <1>1 DEF TableIInv, CountInv
  <2> QED
    BY <2>1, InvRows
<1>3. /\ Rows' = Rows
      /\ \A r : /\ Mac(r)' = Mac(r) /\ Via(r)' = Via(r) /\ Age(r)' = Age(r)
                /\ Live(r)' = Live(r) /\ InUse(r)' = InUse(r)
  BY <1>1, SameRows
<1>4. use \in Nat /\ use >= 1 /\ use <= Entries
  <2>1. use \in 1 .. Entries
    BY DEF TableIInv, TableTypeOK
  <2> QED
    BY <1>2, <2>1
<1>5. /\ pc' \in {"mac", "count"} /\ (pc' = "mac" => x' \in Rows)
      /\ pc' = "count" => x' = x /\ x <= Entries /\ x = Len(xForwardingTable) + 1
  <2>1. CASE x # Len(xForwardingTable) + 1
    BY <1>1, <1>2, <2>1
  <2>2. CASE x = Len(xForwardingTable) + 1 /\ x = Entries + 1
    BY <1>1, <1>2, <1>4, <2>2
  <2>3. CASE x = Len(xForwardingTable) + 1 /\ x # Entries + 1
    BY <1>1, <1>2, <2>3
  <2> QED
    BY <2>1, <2>2, <2>3
<1>6. TableTypeOK'
  <2>1. x' \in 1 .. Len(xForwardingTable) + 1
    BY <1>2, <1>5
  <2> QED
    BY <1>1, <1>5, <2>1 DEF TableIInv, TableTypeOK
<1>7. PlaceInv' /\ CountInv'
  BY <1>1, <1>2, <1>3, <1>5 DEF TableIInv, PlaceInv, CountInv
<1>8. OwnInv' /\ OwnStays' /\ OneInfinite' /\ UnagedInv'
  BY <1>1, <1>3, <1>5 DEF TableIInv, OwnInv, OwnStays, OneInfinite, UnagedInv
<1>9. AgedInv'
  <2>1. SUFFICES ASSUME mode.aging PROVE AgedInv'
    BY <1>1 DEF AgedInv
  <2>2. AgesInv /\ OrderInv /\ FirstInv /\ ChoiceInv
    BY <2>1 DEF TableIInv, AgedInv
  <2>3. \A r \in Rows : Lag(r) = 0 /\ Lag(r)' = 0
    BY <1>1, <1>5 DEF Lag, Behind
  <2>4. AgesInv' /\ OrderInv' /\ FirstInv'
    BY <1>1, <1>3, <1>5, <2>2, <2>3 DEF AgesInv, OrderInv, FirstInv
  <2>5. ASSUME pc' = "mac", NEW q \in Rows, q > x', InUse(q), Mac(q) = Mac(x')
        PROVE  FALSE
    <3>1. x' \in Rows /\ x' < q
      BY <1>2, <1>5, <2>5
    <3>2. Live(x') /\ Age(q) < Age(x') + (0 - 0)
      BY <2>2, <2>3, <2>5, <3>1 DEF OrderInv
    <3>3. CASE x \in Rows /\ x' = x
      BY <1>1, <2>2, <3>2, <3>3 DEF ChoiceInv
    <3>4. CASE x = Len(xForwardingTable) + 1 /\ x' = use
      <4>1. q < x /\ x > 1
        BY <1>2, <2>5, <3>4
      <4>2. Age(x') = age /\ age <= Age(q)
        BY <1>1, <2>2, <2>5, <3>4, <4>1 DEF ChoiceInv
      <4> QED
        BY <1>2, <2>5, <3>1, <3>2, <4>2
    <3> QED
      BY <1>1, <1>2, <2>5, <3>3, <3>4
  <2>6. ChoiceInv'
    BY <1>1, <1>3, <1>5, <2>5 DEF ChoiceInv, Mac
  <2> QED
    BY <1>1, <1>5, <2>4, <2>6 DEF AgedInv
<1> QED
  BY <1>6, <1>7, <1>8, <1>9 DEF TableIInv

(***************************************************************************)
(* The count the IP task stores takes a row in, or leaves rows out that    *)
(* drivers have appended, or is the count as it is; no other row changes.  *)
(***************************************************************************)
LEMMA Counted ==
  ASSUME NEW t \in Seq(RowType), NEW n \in 1 .. Len(t) + 1, NEW u \in Counting(t, n)
  PROVE  /\ u \in Seq(RowType) /\ Len(u) = n /\ Len(t) \in Nat
         /\ \A r \in DOMAIN u : r <= Len(t) => r \in DOMAIN t /\ u[r] = t[r]
         /\ n > Len(t) => /\ n = Len(t) + 1
                          /\ u[n] = Unused \/ (u[n] = Foreign /\ Entries < n)
<1>1. Len(t) \in Nat /\ DOMAIN t = 1 .. Len(t) /\ Entries \in Nat
  BY LenProperties, TableAssumption
<1>2. n \in Nat /\ n >= 1 /\ n <= Len(t) + 1
  BY <1>1
<1>3. CASE n <= Len(t)
  <2>1. u = SubSeq(t, 1, n)
    BY <1>3 DEF Counting
  <2>2. /\ u \in Seq(RowType) /\ Len(u) = n
        /\ \A r \in 1 .. n : u[r] = t[r]
    <3>1. 1 \in 1 .. Len(t) + 1 /\ n \in 0 .. Len(t)
      BY <1>1, <1>2, <1>3
    <3>2. \A r \in 1 .. Len(t) : t[r] \in RowType
      BY ElementOfSeq
    <3>3. u = [r \in 1 .. n |-> t[r]]
      <4>1. u = [r \in 1 .. (n - 1) + 1 |-> t[1 + r - 1]]
        BY <1>1, <1>2, <2>1
      <4>2. (n - 1) + 1 = n /\ \A r \in 1 .. n : 1 + r - 1 = r
        BY <1>2
      <4> QED
        BY <4>1, <4>2
    <3>4. \A r \in 1 .. n : r \in 1 .. Len(t)
      BY <1>1, <1>2, <1>3
    <3>5. u \in [1 .. n -> RowType]
      BY <3>2, <3>3, <3>4
    <3> QED
      BY <1>2, <3>3, <3>5
  <2>3. DOMAIN u = 1 .. n
    BY <2>2, LenProperties
  <2>4. \A r \in 1 .. n : r \in 1 .. Len(t)
    BY <1>1, <1>2, <1>3
  <2>5. ~(n > Len(t))
    BY <1>1, <1>2, <1>3
  <2> QED
    BY <1>1, <2>2, <2>3, <2>4, <2>5
<1>4. CASE ~(n <= Len(t))
  <2>1. n = Len(t) + 1
    BY <1>1, <1>2, <1>4
  <2>2. PICK row \in IF n <= Entries THEN {Unused} ELSE {Unused, Foreign} : u = Append(t, row)
    BY <1>4 DEF Counting
  <2>3. row = Unused \/ (row = Foreign /\ Entries < n)
    <3>1. ~(n <= Entries) => Entries < n
      BY <1>1, <1>2
    <3> QED
      BY <2>2, <3>1
  <2>4. row \in RowType
    BY <2>3 DEF RowType, Unused, Foreign, AnyInterface, UINT8_MAX
  <2>5. /\ u \in Seq(RowType) /\ Len(u) = Len(t) + 1
        /\ \A r \in 1 .. Len(t) : u[r] = t[r]
        /\ u[Len(t) + 1] = row
    BY <2>2, <2>4, AppendProperties
  <2>6. DOMAIN u = 1 .. Len(t) + 1
    BY <2>5, LenProperties
  <2>7. \A r \in 1 .. Len(t) + 1 : r <= Len(t) => r \in 1 .. Len(t)
    BY <1>1
  <2> QED
    BY <1>1, <2>1, <2>3, <2>5, <2>6, <2>7
<1> QED
  BY <1>3, <1>4

LEMMA IncrementKeeps ==
  ASSUME Calm, TableIInv, Increment
  PROVE  TableIInv'
<1>1. /\ pc = "count" /\ pc' = "mac" /\ ~initialised
      /\ UNCHANGED <<mode, initialised, x, use, age, dst, forwarded, seen, silent>>
      /\ x <= Entries
  BY DEF Increment, Goto, history, TableIInv, PlaceInv
<1>2. /\ Len(xForwardingTable) \in Nat
      /\ \A r : r \in Rows <=> r \in Nat /\ 1 <= r /\ r <= Len(xForwardingTable)
      /\ \A r \in Rows : Age(r) \in Nat /\ Age(r) <= 255
      /\ Entries \in Nat /\ Len(xForwardingTable) <= Entries
      /\ x \in Nat /\ x >= 1 /\ x <= Len(xForwardingTable) + 1
  <2>1. Len(xForwardingTable) <= Entries
    BY <1>1 DEF TableIInv, CountInv
  <2> QED
    BY <2>1, InvRows
<1>3. PICK read \in x - 1 .. Len(xForwardingTable) :
        xForwardingTable' \in Counting(xForwardingTable, read + 1)
  BY DEF Increment
<1>4. PICK n : n = read + 1
  OBVIOUS
<1>5. /\ n \in 1 .. Len(xForwardingTable) + 1 /\ n \in Nat
      /\ x <= n /\ n <= Len(xForwardingTable) + 1
  BY <1>2, <1>3, <1>4
<1>6. /\ xForwardingTable' \in Seq(RowType) /\ Len(xForwardingTable') = n
      /\ \A r \in Rows' : r <= Len(xForwardingTable) =>
           r \in Rows /\ xForwardingTable'[r] = xForwardingTable[r]
      /\ n > Len(xForwardingTable) =>
           /\ n = Len(xForwardingTable) + 1
           /\ \/ xForwardingTable'[n] = Unused
              \/ xForwardingTable'[n] = Foreign /\ Entries < n
  <2>1. xForwardingTable \in Seq(RowType)
    BY DEF TableIInv, TableTypeOK, RowType
  <2> QED
    BY <1>3, <1>4, <1>5, <2>1, Counted DEF Rows
<1>7. \A r : r \in Rows' <=> r \in Nat /\ 1 <= r /\ r <= n
  <2>1. Rows' = 1 .. n
    BY <1>6, LenProperties DEF Rows
  <2> QED
    BY <1>5, <2>1
<1>8. \A r \in Rows' :
        \/ /\ r \in Rows /\ Mac(r)' = Mac(r) /\ Via(r)' = Via(r) /\ Age(r)' = Age(r)
           /\ Live(r)' = Live(r) /\ InUse(r)' = InUse(r)
        \/ /\ r = Len(xForwardingTable) + 1 /\ r = n /\ r \notin Rows
           /\ Mac(r)' = Null /\ Age(r)' = 0 /\ ~InUse(r)'
           /\ Live(r)' => Entries < r
  <2>1. SUFFICES ASSUME NEW r \in Rows'
                 PROVE  \/ /\ r \in Rows /\ Mac(r)' = Mac(r) /\ Via(r)' = Via(r) /\ Age(r)' = Age(r)
                           /\ Live(r)' = Live(r) /\ InUse(r)' = InUse(r)
                        \/ /\ r = Len(xForwardingTable) + 1 /\ r = n /\ r \notin Rows
                           /\ Mac(r)' = Null /\ Age(r)' = 0 /\ ~InUse(r)'
                           /\ Live(r)' => Entries < r
    OBVIOUS
  <2>2. CASE r <= Len(xForwardingTable)
    BY <1>6, <2>2 DEF Mac, Via, Age, Live, InUse
  <2>3. CASE ~(r <= Len(xForwardingTable))
    <3>1. n > Len(xForwardingTable) /\ r = Len(xForwardingTable) + 1 /\ r = n /\ r \notin Rows
      BY <1>2, <1>5, <1>7, <2>3
    <3>2. Null \notin Station
      BY TableAssumption
    <3>3. /\ Mac(r)' = Null /\ Age(r)' = 0
          /\ xForwardingTable'[r] = Unused \/ Entries < r
      BY <1>6, <3>1 DEF Unused, Foreign, Mac, Age
    <3>4. Live(r)' => Entries < r
      BY <3>3 DEF Unused, Live
    <3>5. ~InUse(r)'
      BY <3>2, <3>3 DEF InUse, Mac
    <3> QED
      BY <3>1, <3>3, <3>4, <3>5
  <2> QED
    BY <2>2, <2>3
<1>9. TableTypeOK'
  <2>1. x \in 1 .. n + 1
    BY <1>2, <1>5
  <2> QED
    BY <1>1, <1>6, <2>1 DEF TableIInv, TableTypeOK, RowType
<1>10. PlaceInv'
  <2>1. x \in Rows'
    BY <1>2, <1>5, <1>7
  <2> QED
    BY <1>1, <2>1 DEF PlaceInv
<1>11. ~mode.preempted => n = x /\ x = Len(xForwardingTable) + 1
  BY <1>1, <1>2, <1>5 DEF TableIInv, CountInv
<1>12. CountInv'
  BY <1>1, <1>6, <1>11 DEF CountInv
<1>13. Null # Own /\ Null \notin Station
  BY TableAssumption
<1>14. OwnInv' /\ OwnStays'
  BY <1>1, <1>8, <1>13 DEF TableIInv, OwnInv, OwnStays
<1>15. OneInfinite'
  BY <1>1, <1>8 DEF TableIInv, OneInfinite, INFINITE
<1>16. UnagedInv'
  <2>1. SUFFICES ASSUME ~mode.aging PROVE UnagedInv'
    BY <1>1 DEF UnagedInv
  <2>2. ASSUME NEW r \in Rows', ~Live(r)'
        PROVE  r = Len(xForwardingTable') /\ Mac(r)' = Null
    <3>1. CASE r \notin Rows
      BY <1>6, <1>8, <3>1
    <3>2. CASE r \in Rows
      <4>1. ~Live(r)
        BY <1>8, <2>2, <3>2
      <4> QED
        BY <1>1, <2>1, <3>2, <4>1 DEF TableIInv, UnagedInv
    <3> QED
      BY <3>1, <3>2
  <2>3. \A r, q \in Rows' : Mac(r)' = Mac(q)' /\ Mac(r)' \in Station => r = q
    BY <1>8, <1>13, <2>1 DEF TableIInv, UnagedInv
  <2>4. \A r \in Rows' : Mac(r)' \in Station /\ Via(r)' \in Port => Via(r)' = seen[Mac(r)']
    BY <1>8, <1>13, <2>1 DEF TableIInv, UnagedInv
  <2> QED
    BY <1>1, <2>2, <2>3, <2>4 DEF UnagedInv
<1>17. AgedInv'
  <2>1. SUFFICES ASSUME mode.aging PROVE AgedInv'
    BY <1>1 DEF AgedInv
  <2>2. n = x /\ x = Len(xForwardingTable) + 1
    <3>1. mode \in Modes
      BY DEF TableIInv, TableTypeOK
    <3> QED
      BY <1>11, <2>1, <3>1 DEF Calm
  <2>3. AgesInv /\ OrderInv /\ FirstInv
    BY <2>1 DEF TableIInv, AgedInv
  <2>4. \A r : Lag(r) = 0 /\ Lag(r)' = 0
    BY <1>1 DEF Lag, Behind
  <2>5. /\ x \in Rows' /\ x \notin Rows /\ Rows \subseteq Rows'
        /\ \A r \in Rows' : r = x => ~Live(r)' /\ ~InUse(r)'
        /\ \A r \in Rows' : r # x =>
             /\ r \in Rows /\ Mac(r)' = Mac(r) /\ Via(r)' = Via(r) /\ Age(r)' = Age(r)
             /\ Live(r)' = Live(r) /\ InUse(r)' = InUse(r)
    <3>1. x \in Rows' /\ x \notin Rows /\ Rows \subseteq Rows'
      BY <1>2, <1>7, <2>2
    <3>2. ~(Entries < x)
      BY <1>1, <1>2
    <3>3. \A r \in Rows' : r = x => ~Live(r)' /\ ~InUse(r)'
      BY <1>8, <3>1, <3>2
    <3>4. ASSUME NEW r \in Rows', r # x
          PROVE  /\ r \in Rows /\ Mac(r)' = Mac(r) /\ Via(r)' = Via(r) /\ Age(r)' = Age(r)
                 /\ Live(r)' = Live(r) /\ InUse(r)' = InUse(r)
      BY <1>8, <2>2, <3>4
    <3> QED
      BY <3>1, <3>3, <3>4
  <2>6. AgesInv'
    BY <1>1, <2>3, <2>4, <2>5 DEF AgesInv
  <2>7. OrderInv'
    <3>1. ASSUME NEW r \in Rows', NEW q \in Rows', r < q, InUse(q)'
          PROVE  /\ r \in Rows /\ q \in Rows /\ InUse(q)
                 /\ Mac(r)' = Mac(r) /\ Age(r)' = Age(r) /\ Live(r)' = Live(r)
                 /\ Mac(q)' = Mac(q) /\ Age(q)' = Age(q)
      <4>1. q # x
        BY <2>5, <3>1
      <4>2. r # x
        BY <1>2, <1>7, <2>2, <3>1
      <4> QED
        BY <2>5, <3>1, <4>1, <4>2
    <3> QED
      BY <2>3, <2>4, <3>1 DEF OrderInv
  <2>8. FirstInv'
    BY <1>1, <2>3, <2>5 DEF FirstInv
  <2>9. ChoiceInv'
    <3>1. \A q \in Rows' : ~(q > x)
      BY <1>2, <1>7, <2>2
    <3> QED
      BY <1>1, <3>1 DEF ChoiceInv
  <2> QED
    BY <1>1, <2>6, <2>7, <2>8, <2>9 DEF AgedInv
<1> QED
  BY <1>9, <1>10, <1>12, <1>14, <1>15, <1>16, <1>17 DEF TableIInv

LEMMA FieldsWritten ==
  ASSUME TableIInv, WriteMac \/ WriteInterface \/ WriteAge
  PROVE  /\ x \in Rows /\ x' = x /\ x \in Nat
         /\ UNCHANGED <<mode, use, age, dst, forwarded, seen, silent>>
         /\ xForwardingTable' \in Seq(RowType)
         /\ Len(xForwardingTable') = Len(xForwardingTable) /\ Rows' = Rows
         /\ Mac(x)' = IF WriteMac THEN Own ELSE Mac(x)
         /\ Via(x)' = IF WriteInterface THEN Bridge ELSE Via(x)
         /\ Age(x)' = IF WriteAge THEN 255 ELSE Age(x)
         /\ \A r \in Rows : r # x =>
              /\ Mac(r)' = Mac(r) /\ Via(r)' = Via(r) /\ Age(r)' = Age(r)
              /\ Live(r)' = Live(r) /\ InUse(r)' = InUse(r)
<1>1. /\ x \in Rows /\ x' = x
      /\ UNCHANGED <<mode, use, age, dst, forwarded, seen, silent>>
  BY DEF WriteMac, WriteInterface, WriteAge, Assign, history, TableIInv, PlaceInv
<1>2. x \in Nat
  BY <1>1, InvRows
<1> DEFINE v == [pxInterface |-> IF WriteInterface THEN Bridge ELSE Via(x),
                 xMACAddress |-> IF WriteMac THEN Own ELSE Mac(x),
                 ucAge |-> IF WriteAge THEN 255 ELSE Age(x)]
<1>3. v \in RowType
  <2>1. Via(x) \in AnyInterface \union {Null} /\ Mac(x) \in Address \union {Null}
    BY <1>1, InvRows
  <2>2. Age(x) \in 0 .. 255
    BY <1>1, RowIs DEF RowType, UINT8_MAX
  <2> QED
    BY <2>1, <2>2 DEF RowType, AnyInterface, Address, UINT8_MAX
<1>4. xForwardingTable' = [xForwardingTable EXCEPT ![x] = v]
  <2>1. /\ WriteMac => ~WriteInterface /\ ~WriteAge
        /\ WriteInterface => ~WriteAge
    BY DEF WriteMac, WriteInterface, WriteAge
  <2>2. Row = [pxInterface |-> Via(x), xMACAddress |-> Mac(x), ucAge |-> Age(x)]
    BY <1>1, RowIs
  <2>3. CASE WriteMac
    <3>1. [Row EXCEPT !["xMACAddress"] = Own] = v
      BY <2>1, <2>2, <2>3
    <3>2. xForwardingTable' = [xForwardingTable EXCEPT ![x] = [Row EXCEPT !["xMACAddress"] = Own]]
      BY <2>3 DEF WriteMac, Assign, Row
    <3> HIDE DEF v
    <3> QED
      BY <3>1, <3>2
  <2>4. CASE WriteInterface
    <3>1. [Row EXCEPT !["pxInterface"] = Bridge] = v
      BY <2>1, <2>2, <2>4
    <3>2. xForwardingTable' = [xForwardingTable EXCEPT ![x] = [Row EXCEPT !["pxInterface"] = Bridge]]
      BY <2>4 DEF WriteInterface, Assign, Row
    <3> HIDE DEF v
    <3> QED
      BY <3>1, <3>2
  <2>5. CASE WriteAge
    <3>1. [Row EXCEPT !["ucAge"] = 255] = v
      BY <2>1, <2>2, <2>5
    <3>2. xForwardingTable' = [xForwardingTable EXCEPT ![x] = [Row EXCEPT !["ucAge"] = 255]]
      BY <2>5 DEF WriteAge, Assign, INFINITE, Row
    <3> HIDE DEF v
    <3> QED
      BY <3>1, <3>2
  <2> QED
    BY <2>3, <2>4, <2>5
<1>5. /\ v.pxInterface = IF WriteInterface THEN Bridge ELSE Via(x)
      /\ v.xMACAddress = IF WriteMac THEN Own ELSE Mac(x)
      /\ v.ucAge = IF WriteAge THEN 255 ELSE Age(x)
  OBVIOUS
<1> HIDE DEF v
<1>6. /\ xForwardingTable' \in Seq(RowType)
      /\ Len(xForwardingTable') = Len(xForwardingTable) /\ Rows' = Rows
      /\ xForwardingTable'[x] = v
      /\ \A r \in Rows : r # x =>
           /\ Mac(r)' = Mac(r) /\ Via(r)' = Via(r) /\ Age(r)' = Age(r)
           /\ Live(r)' = Live(r) /\ InUse(r)' = InUse(r)
  BY <1>1, <1>3, <1>4, RowWritten
<1>7. Mac(x)' = v.xMACAddress /\ Via(x)' = v.pxInterface /\ Age(x)' = v.ucAge
  BY <1>1, <1>6 DEF Mac, Via, Age
<1> QED
  BY <1>1, <1>2, <1>5, <1>6, <1>7

LEMMA WriteKeeps ==
  ASSUME Calm, TableIInv, WriteMac \/ WriteInterface \/ WriteAge
  PROVE  TableIInv'
<1>1. /\ x \in Rows /\ x' = x /\ x \in Nat
      /\ UNCHANGED <<mode, use, age, dst, forwarded, seen, silent>>
      /\ xForwardingTable' \in Seq(RowType)
      /\ Len(xForwardingTable') = Len(xForwardingTable) /\ Rows' = Rows
      /\ Mac(x)' = IF WriteMac THEN Own ELSE Mac(x)
      /\ Via(x)' = IF WriteInterface THEN Bridge ELSE Via(x)
      /\ Age(x)' = IF WriteAge THEN 255 ELSE Age(x)
      /\ \A r \in Rows : r # x =>
           /\ Mac(r)' = Mac(r) /\ Via(r)' = Via(r) /\ Age(r)' = Age(r)
           /\ Live(r)' = Live(r) /\ InUse(r)' = InUse(r)
  BY FieldsWritten
<1>2. /\ WriteMac => pc = "mac" /\ pc' = "interface" /\ initialised' = initialised
      /\ WriteInterface => pc = "interface" /\ pc' = "age" /\ initialised' = initialised
      /\ WriteAge => pc = "age" /\ pc' = "idle" /\ initialised' = TRUE
      /\ ~initialised
  BY DEF WriteMac, WriteInterface, WriteAge, Goto, TableIInv, PlaceInv
<1>3. Own \notin Station /\ Bridge # Null /\ Bridge \notin Port /\ Own # Null
  BY TableAssumption
<1>4. TableTypeOK'
  BY <1>1, <1>2 DEF TableIInv, TableTypeOK, RowType
<1>5. PlaceInv' /\ CountInv'
  BY <1>1, <1>2 DEF TableIInv, PlaceInv, CountInv
<1>6. OwnInv'
  <2>1. CASE WriteMac
    BY <1>1, <1>2, <2>1 DEF TableIInv, OwnInv
  <2>2. CASE WriteInterface
    BY <1>1, <1>2, <2>2 DEF TableIInv, OwnInv
  <2>3. CASE WriteAge
    BY <1>1, <1>2, <2>3 DEF TableIInv, OwnInv, INFINITE
  <2> QED
    BY <2>1, <2>2, <2>3
<1>7. Live(x)' = (IF WriteInterface THEN TRUE ELSE Live(x))
  <2>1. Live(x)' = (Via(x)' # Null) /\ Live(x) = (Via(x) # Null)
    BY DEF Live, Via
  <2> QED
    BY <1>1, <1>3, <2>1
<1>8. OneInfinite'
  <2>1. \A r \in Rows : Live(r)' /\ Age(r)' = 255 => r = x
    <3>1. \A r \in Rows : Live(r) /\ Age(r) = 255 => pc = "age" /\ r = x
      BY <1>2 DEF TableIInv, OneInfinite, INFINITE
    <3> QED
      BY <1>1, <3>1
  <2>2. ~initialised' => \A r \in Rows : Live(r)' /\ Age(r)' = 255 => pc' = "age"
    <3>1. WriteMac => \A r \in Rows : Live(r)' = Live(r) /\ Age(r)' = Age(r)
      BY <1>1, <1>2, <1>7 DEF WriteMac, WriteInterface, WriteAge
    <3> QED
      BY <1>2, <3>1 DEF TableIInv, OneInfinite, INFINITE
  <2> QED
    BY <1>1, <2>1, <2>2 DEF OneInfinite, INFINITE
<1>9. OwnStays'
  BY <1>1, <1>2 DEF TableIInv, OwnStays
<1>10. UnagedInv'
  <2>1. SUFFICES ASSUME ~mode.aging PROVE UnagedInv'
    BY <1>1 DEF UnagedInv
  <2>2. \A r \in Rows : ~Live(r)' =>
          /\ initialised' \/ pc' \in {"mac", "interface", "age"}
          /\ r = Len(xForwardingTable)
          /\ Mac(r)' = Null \/ (Mac(r)' = Own /\ pc' = "interface" /\ r = x)
    BY <1>1, <1>2, <1>7, <2>1 DEF TableIInv, UnagedInv
  <2>3. \A r, q \in Rows : Mac(r)' = Mac(q)' /\ Mac(r)' \in Station => r = q
    BY <1>1, <1>3, <2>1 DEF TableIInv, UnagedInv
  <2>4. \A r \in Rows : Mac(r)' \in Station /\ Via(r)' \in Port => Via(r)' = seen[Mac(r)']
    BY <1>1, <1>3, <2>1 DEF TableIInv, UnagedInv
  <2> QED
    BY <1>1, <2>2, <2>3, <2>4 DEF UnagedInv
<1>11. AgedInv'
  <2>1. SUFFICES ASSUME mode.aging PROVE AgedInv'
    BY <1>1 DEF AgedInv
  <2>2. AgesInv /\ OrderInv /\ FirstInv /\ ChoiceInv
    BY <2>1 DEF TableIInv, AgedInv
  <2>3. \A r : Lag(r) = 0 /\ Lag(r)' = 0
    BY <1>2 DEF Lag, Behind
  <2>4. Mac(x)' = Own /\ ~InUse(x)'
    <3>1. mode \in Modes
      BY DEF TableIInv, TableTypeOK
    <3>2. ~mode.preempted
      BY <2>1, <3>1 DEF Calm
    <3>3. ~WriteMac => Mac(x) = Own
      BY <1>2, <3>2 DEF TableIInv, OwnStays
    <3>4. Mac(x)' = Own
      BY <1>1, <3>3
    <3> QED
      BY <1>3, <3>4 DEF InUse, Mac
  <2>5. \A r \in Rows : InUse(r)' => InUse(r) /\ r # x
    BY <1>1, <2>4
  <2>6. AgesInv'
    BY <1>1, <1>2, <1>3, <2>2, <2>3, <2>4 DEF AgesInv
  <2>7. OrderInv'
    <3>1. ASSUME NEW r \in Rows, NEW q \in Rows, r < q, InUse(q)'
          PROVE  /\ Mac(r)' = Mac(q)' => Live(r)' /\ Age(q)' < Age(r)' + (0 - 0)
                 /\ ~Live(r)' => Age(q)' < MaxAge + 0
      <4>1. q # x /\ InUse(q) /\ Mac(q)' = Mac(q) /\ Age(q)' = Age(q) /\ Mac(q) \in Station
        BY <1>1, <2>5, <3>1 DEF InUse
      <4>2. /\ Mac(r) = Mac(q) => Live(r) /\ Age(q) < Age(r) + (0 - 0)
            /\ ~Live(r) => Age(q) < MaxAge + 0
        BY <2>2, <2>3, <3>1, <4>1 DEF OrderInv
      <4>3. CASE r # x
        BY <1>1, <4>1, <4>2, <4>3
      <4>4. CASE r = x
        <5>1. Mac(r)' = Own /\ (~Live(r)' => ~Live(r))
          BY <1>1, <1>7, <2>4, <4>4
        <5> QED
          BY <1>3, <4>1, <4>2, <5>1
      <4> QED
        BY <4>3, <4>4
    <3> QED
      BY <1>1, <2>3, <3>1 DEF OrderInv
  <2>8. FirstInv'
    <3>1. ASSUME NEW r \in Rows, InUse(r)', \A q \in Rows : q < r => Mac(q)' # Mac(r)'
          PROVE  Via(r)' = seen[Mac(r)']
      <4>1. r # x /\ InUse(r) /\ Mac(r)' = Mac(r) /\ Via(r)' = Via(r)
        BY <1>1, <2>5, <3>1
      <4>2. \A q \in Rows : q < r => Mac(q) # Mac(r)
        <5>1. SUFFICES ASSUME NEW q \in Rows, q < r, Mac(q) = Mac(r)
                       PROVE  FALSE
          OBVIOUS
        <5>2. q = x
          BY <1>1, <3>1, <4>1, <5>1
        <5>3. r > x
          BY <1>1, <5>1, <5>2, InvRows
        <5>4. ~WriteMac
          BY <1>2, <2>2, <4>1, <5>1, <5>2, <5>3 DEF ChoiceInv
        <5>5. Mac(x)' = Mac(x)
          BY <1>1, <5>4
        <5>6. Mac(q)' = Mac(q)
          BY <1>1, <5>2, <5>5
        <5> QED
          BY <3>1, <4>1, <5>1, <5>6
      <4> QED
        BY <2>2, <4>1, <4>2 DEF FirstInv
    <3> QED
      BY <1>1, <3>1 DEF FirstInv
  <2>9. ChoiceInv'
    BY <1>2 DEF ChoiceInv
  <2> QED
    BY <1>2, <2>6, <2>7, <2>8, <2>9 DEF AgedInv
<1> QED
  BY <1>4, <1>5, <1>6, <1>8, <1>9, <1>10, <1>11 DEF TableIInv
-----------------------------------------------------------------------------
LEMMA InitEstablishes ==
  ASSUME TableInit
  PROVE  TableIInv
<1>1. /\ xForwardingTable = <<>> /\ pc = "idle" /\ ~initialised /\ mode \in Modes
      /\ Rows = {} /\ Len(xForwardingTable) = 0
  BY DEF TableInit, Rows
<1>2. TableTypeOK
  <2>1. xForwardingTable \in Seq(RowType)
    BY <1>1, EmptySeq
  <2>2. seen \in [Station -> Port \union {Null}] /\ silent \in [Station -> 0 .. MaxAge]
    BY TableAssumption DEF TableInit
  <2>3. x \in 1 .. Len(xForwardingTable) + 1 /\ use \in 1 .. Entries /\ age \in 0 .. UINT8_MAX
    BY <1>1, TableAssumption DEF TableInit, UINT8_MAX
  <2> QED
    BY <1>1, <2>1, <2>2, <2>3 DEF TableInit, TableTypeOK, RowType, NoDecision, Address
<1> QED
  BY <1>1, <1>2, TableAssumption DEF TableIInv, PlaceInv, CountInv, OwnInv, OneInfinite, OwnStays, UnagedInv, AgedInv,
     AgesInv, OrderInv, FirstInv, ChoiceInv

LEMMA TableNextKeeps ==
  ASSUME Calm, TableIInv, [TableNext]_tableVars
  PROVE  TableIInv'
<1>1. CASE UNCHANGED tableVars
  <2>1. UNCHANGED xForwardingTable /\ Rows' = Rows
        /\ \A r : /\ Mac(r)' = Mac(r) /\ Via(r)' = Via(r) /\ Age(r)' = Age(r)
                  /\ Live(r)' = Live(r) /\ InUse(r)' = InUse(r)
    BY <1>1, SameRows DEF tableVars
  <2>2. UNCHANGED <<mode, initialised, pc, x, use, age, dst, forwarded, seen, silent>>
    BY <1>1 DEF tableVars, ip, history
  <2>3. TableTypeOK' /\ PlaceInv' /\ CountInv' /\ OwnInv' /\ OneInfinite' /\ OwnStays' /\ UnagedInv'
    BY <2>1, <2>2 DEF TableIInv, TableTypeOK, PlaceInv, CountInv, OwnInv, OneInfinite, OwnStays, UnagedInv
  <2>4. \A r : Lag(r)' = Lag(r)
    BY <2>2 DEF Lag, Behind
  <2>5. AgedInv'
    BY <2>1, <2>2, <2>4 DEF TableIInv, AgedInv, AgesInv, OrderInv, FirstInv, ChoiceInv, Age, Mac
  <2> QED
    BY <2>3, <2>5 DEF TableIInv
<1>2. ASSUME NEW i \in Port, NEW s \in Station, NEW d \in Address \union {Broadcast},
             Receive(i, s, d)
      PROVE  TableIInv'
  BY <1>2, ReceiveKeeps
<1>3. CASE IpTask
  BY <1>3, StartInitialiseKeeps, ScanKeeps, ClaimKeeps, IncrementKeeps, WriteKeeps, LookupKeeps,
     TimerKeeps, LoadKeeps, StoreKeeps, WipeKeeps DEF IpTask
<1> QED
  BY <1>1, <1>2, <1>3 DEF TableNext

(***************************************************************************)
(* The inductive invariant of the table, for any number of stations,       *)
(* interfaces and rows and any maximum age (FreeRTOS_Bridge.c).            *)
(***************************************************************************)
THEOREM TableInvariant == Calm => (TableSpec => []TableIInv)
<1>1. SUFFICES ASSUME Calm PROVE TableSpec => []TableIInv
  OBVIOUS
<1>2. TableInit => TableIInv
  BY InitEstablishes
<1>3. TableIInv /\ [TableNext]_tableVars => TableIInv'
  BY <1>1, TableNextKeeps
<1> QED
  BY <1>2, <1>3, PTL DEF TableSpec

(***************************************************************************)
(* A row says where a station was heard of last, and for no longer than it *)
(* counts: what the table is for (vRefreshForwardingTableEntry,            *)
(* vAgeForwardingTable).                                                   *)
(***************************************************************************)
LEMMA FreshRows ==
  ASSUME TableIInv
  PROVE  RowsAreFresh
<1>1. /\ \A r : r \in Rows <=> r \in Nat /\ 1 <= r /\ r <= Len(xForwardingTable)
      /\ \A r \in Rows : Age(r) \in Nat
      /\ MaxAge \in Nat
  BY InvRows
<1>2. NewestWins
  <2>1. SUFFICES ASSUME NEW s \in Station, Found(xForwardingTable, s) \in Port
                 PROVE  Found(xForwardingTable, s) = seen[s]
    BY DEF NewestWins
  <2>2. Null \notin Port
    BY TableAssumption
  <2>3. xForwardingTable \in Seq(RowType)
    BY DEF TableIInv, TableTypeOK, RowType
  <2>4. PICK r \in Rows : /\ Found(xForwardingTable, s) = Via(r)
                          /\ Mac(r) = s
                          /\ \A q \in Rows : q < r => Mac(q) # s
    BY <2>1, <2>2, <2>3, FoundRow DEF Rows, Via, Mac
  <2>5. CASE mode.aging
    <3>1. InUse(r)
      BY <2>1, <2>2, <2>4 DEF InUse, Live, Via
    <3> QED
      BY <2>4, <2>5, <3>1 DEF TableIInv, AgedInv, FirstInv
  <2>6. CASE ~mode.aging
    BY <2>1, <2>4, <2>6 DEF TableIInv, UnagedInv
  <2> QED
    BY <2>5, <2>6
<1>3. StaleRowsExpire
  <2>1. SUFFICES ASSUME mode.aging, pc = "idle", NEW s \in Station, silent[s] = MaxAge,
                        NEW r \in Rows, Live(r), Mac(r) = s
                 PROVE  FALSE
    BY DEF StaleRowsExpire, RowsOf, Rows, Mac
  <2>2. Age(r) # 0 /\ Age(r) + silent[s] <= MaxAge + 0
    <3>1. Lag(r) = 0
      BY <2>1, LagIs
    <3> QED
      BY <2>1, <3>1 DEF TableIInv, AgedInv, AgesInv
  <2> QED
    BY <1>1, <2>1, <2>2
<1> QED
  BY <1>2, <1>3 DEF RowsAreFresh

THEOREM RowsStayFresh == Calm => (TableSpec => []RowsAreFresh)
BY FreshRows, TableInvariant, PTL

(***************************************************************************)
(* As long as no row expires, an address with a row in use is found, even  *)
(* while the IP task enters its own (pxFindInterfaceOnMAC).                *)
(***************************************************************************)
LEMMA KnownFound ==
  ASSUME TableIInv
  PROVE  KnownIsFound
<1>1. SUFFICES ASSUME ~mode.aging, NEW a \in Address, NEW o \in Rows, Live(o), Mac(o) = a
               PROVE  Found(xForwardingTable, a) # Null
  BY DEF KnownIsFound, RowsOf, Rows, Mac
<1>2. \A r : r \in Rows <=> r \in Nat /\ 1 <= r /\ r <= Len(xForwardingTable)
  BY InvRows
<1>3. \A r \in Rows : ~Live(r) =>
        /\ r = Len(xForwardingTable)
        /\ Mac(r) = Null \/ (Mac(r) = Own /\ pc = "interface" /\ r = x)
  BY <1>1 DEF TableIInv, UnagedInv
<1>4. xForwardingTable \in Seq(RowType)
  BY DEF TableIInv, TableTypeOK, RowType
<1>5. CASE \A r \in DOMAIN xForwardingTable : \/ xForwardingTable[1].pxInterface = Null
                                              \/ xForwardingTable[r].xMACAddress # a
  <2>1. ~Live(1)
    BY <1>1, <1>5 DEF Rows, Live, Mac
  <2>2. 1 \in Rows /\ o = 1
    <3>1. o \in Nat /\ 1 <= o /\ o <= Len(xForwardingTable) /\ 1 \in Rows
      BY <1>1, <1>2, InvRows
    <3>2. 1 = Len(xForwardingTable)
      BY <1>3, <2>1, <3>1
    <3>3. o \in Nat /\ 1 <= o /\ o <= 1
      BY <3>1, <3>2
    <3>4. o = 1
      BY <3>3
    <3> QED
      BY <3>1, <3>4
  <2> QED
    BY <1>1, <2>1, <2>2
<1>6. ASSUME NEW r \in Rows, Found(xForwardingTable, a) = Via(r), Mac(r) = a
      PROVE  Via(r) # Null
  <2>1. SUFFICES ASSUME ~Live(r) PROVE FALSE
    BY DEF Live, Via
  <2>2. pc = "interface" /\ r = x /\ a = Own /\ r # o
    BY <1>1, <1>3, <1>6, <2>1, TableAssumption DEF Address
  <2>3. o = r
    BY <1>1, <1>6, <2>2 DEF TableIInv, OwnInv, PlaceInv
  <2> QED
    BY <2>2, <2>3
<1> QED
  BY <1>4, <1>5, <1>6, FoundRow DEF Rows, Via, Mac

THEOREM KnownStaysFound == Calm => (TableSpec => []KnownIsFound)
BY KnownFound, TableInvariant, PTL

(***************************************************************************)
(* The device in its table: entered, it stays, and frames for it reach the *)
(* IP task.  A table of one row would give it up for the next station.     *)
(***************************************************************************)
LEMMA OwnRowStays ==
  ASSUME TableIInv, Entries >= 2, initialised, [TableNext]_tableVars,
         NEW o \in Rows, Mac(o) = Own
  PROVE  o \in Rows' /\ Mac(o)' = Own /\ initialised'
<1>1. UNCHANGED xForwardingTable => Rows' = Rows /\ Mac(o)' = Mac(o)
  BY DEF Rows, Mac
<1>2. ASSUME StoreAge \/ Wipe
      PROVE  Rows' = Rows /\ Mac(o)' = Mac(o)
  <2>1. x \in DOMAIN xForwardingTable
    BY <1>2 DEF TableIInv, PlaceInv, StoreAge, Wipe, Rows
  <2>2. xForwardingTable \in Seq(RowType)
    BY DEF TableIInv, TableTypeOK, RowType
  <2>3. xForwardingTable[x] \in RowType
    BY <2>1, <2>2, ElementOfSeq, LenProperties
  <2>4. PICK v : /\ xForwardingTable' = [xForwardingTable EXCEPT ![x] = v]
                 /\ v.xMACAddress = xForwardingTable[x].xMACAddress
    <3>1. CASE StoreAge
      <4>1. [Row EXCEPT !.ucAge = Older(age)].xMACAddress = Row.xMACAddress
        BY <2>3 DEF Row, RowType
      <4> QED
        BY <3>1, <4>1 DEF StoreAge, Row
    <3>2. CASE Wipe
      <4>1. [Row EXCEPT !.pxInterface = IF Row.ucAge = 0 THEN Null ELSE @].xMACAddress
              = Row.xMACAddress
        BY <2>3 DEF Row, RowType
      <4> QED
        BY <3>2, <4>1 DEF Wipe, Row
    <3> QED
      BY <1>2, <3>1, <3>2
  <2>5. /\ DOMAIN xForwardingTable' = DOMAIN xForwardingTable
        /\ \A r \in DOMAIN xForwardingTable :
             xForwardingTable'[r] = IF r = x THEN v ELSE xForwardingTable[r]
    BY <2>1, <2>2, <2>4
  <2> QED
    BY <2>4, <2>5 DEF Rows, Mac
<1>3. ASSUME NEW i \in Port, NEW s \in Station, NEW d, Receive(i, s, d)
      PROVE  o \in Rows' /\ Mac(o)' = Own /\ initialised'
  BY <1>3, OwnRowKept DEF Receive
<1>4. CASE IpTask
  <2>1. \/ StartInitialise \/ Scan \/ Claim \/ Increment
        \/ WriteMac \/ WriteInterface \/ WriteAge
        => FALSE
    BY DEF StartInitialise, Scan, Claim, Increment, WriteMac, WriteInterface, WriteAge, TableIInv, PlaceInv
  <2>2. \/ \E d \in Station : StartOutput(d)
        \/ FindNext \/ SendFound \/ SendNotFound
        \/ TimerPeriod \/ LoadAge \/ EndAging
        => UNCHANGED <<xForwardingTable, initialised>>
    BY DEF StartOutput, FindNext, SendFound, SendNotFound, Dispatched, TimerPeriod, LoadAge, EndAging
  <2>3. StoreAge \/ Wipe => UNCHANGED initialised
    BY DEF StoreAge, Wipe
  <2> QED
    BY <1>1, <1>2, <1>4, <2>1, <2>2, <2>3 DEF IpTask
<1>5. CASE UNCHANGED tableVars
  BY <1>1, <1>5 DEF tableVars
<1> QED
  BY <1>3, <1>4, <1>5 DEF TableNext

\* A frame for the device comes from a driver.
LEMMA ForTheDevice ==
  ASSUME TableIInv, [TableNext]_tableVars, forwarded' # forwarded, forwarded'.dst = Own,
         Found(xForwardingTable, Own) = Bridge
  PROVE  Bridge \in forwarded'.to
<1>1. ASSUME NEW i \in Port, NEW s \in Station, NEW d, Receive(i, s, d)
      PROVE  Bridge \in forwarded'.to
  <2>1. PICK up \in SUBSET Port :
          Decide(i, d, IF d = Broadcast THEN Null ELSE Found(xForwardingTable, d), up)
    BY <1>1 DEF Receive
  <2>2. d = Own
    BY <2>1 DEF Decide
  <2>3. Bridge # Null /\ Bridge # i /\ d # Broadcast
    BY <2>2, TableAssumption
  <2>4. forwarded'.to = {Bridge} \ {i}
    BY <2>1, <2>2, <2>3 DEF Decide
  <2> QED
    BY <2>3, <2>4
<1>2. ASSUME NEW found, Dispatched(found), pc \in {"find", "found"}
      PROVE  FALSE
  <2>1. forwarded'.dst = dst
    BY <1>2 DEF Dispatched, Decide
  <2> QED
    BY <1>2, <2>1, TableAssumption DEF TableIInv, PlaceInv
<1>3. CASE IpTask
  <2>1. SendFound \/ SendNotFound => FALSE
    BY <1>2 DEF SendFound, SendNotFound
  <2> QED
    BY <1>3, <2>1 DEF IpTask, StartInitialise, Scan, Claim, Increment, WriteMac, WriteInterface, WriteAge,
       Assign, StartOutput, FindNext, TimerPeriod, LoadAge, StoreAge, Wipe, EndAging, history
<1>4. CASE UNCHANGED tableVars
  BY <1>4 DEF tableVars, history
<1> QED
  BY <1>1, <1>3, <1>4 DEF TableNext

THEOREM DeviceStaysKnown == Calm /\ Entries >= 2 => (TableSpec => DeviceStays)
<1>1. SUFFICES ASSUME Calm, Entries >= 2 PROVE TableSpec => DeviceStays
  OBVIOUS
<1>2. ASSUME TableIInv, TableIInv', [TableNext]_tableVars, DeviceKnown
      PROVE  /\ RowsOf(Own)' # {}
             /\ forwarded' # forwarded /\ forwarded'.dst = Own => Bridge \in forwarded'.to
  <2>1. xForwardingTable \in Seq(RowType) /\ Bridge # Null
    BY <1>2, TableAssumption DEF TableIInv, TableTypeOK, RowType
  <2>2. PICK o \in Rows : Mac(o) = Own
    BY <1>2, <2>1, FoundRow DEF DeviceKnown, Rows, Mac
  <2>3. o \in Rows' /\ Mac(o)' = Own /\ initialised'
    BY <1>1, <1>2, <2>2, OwnRowStays DEF DeviceKnown
  <2>4. Via(o)' = Bridge
    BY <1>2, <2>3 DEF TableIInv, OwnInv
  <2>5. o \in RowsOf(Own)'
    BY <2>1, <2>3, <2>4 DEF RowsOf, Rows, Mac, Via, Live
  <2> QED
    BY <1>2, <2>5, ForTheDevice DEF DeviceKnown
<1>3. TableIInv /\ TableIInv' /\ [TableNext]_tableVars =>
        [DeviceKnown => /\ RowsOf(Own)' # {}
                        /\ forwarded' # forwarded /\ forwarded'.dst = Own
                             => Bridge \in forwarded'.to]_tableVars
  BY <1>2
<1>4. TableSpec => []TableIInv
  BY <1>1, TableInvariant
<1> QED
  BY <1>3, <1>4, PTL DEF TableSpec, DeviceStays

THEOREM DeviceIsReached == Calm /\ Entries >= 2 => (TableSpec => DeviceReachable)
<1>1. SUFFICES ASSUME Calm, Entries >= 2 PROVE TableSpec => DeviceReachable
  OBVIOUS
<1>2. ASSUME TableIInv, [TableNext]_tableVars, ~mode.preempted, ~mode.aging, initialised,
             forwarded' # forwarded, forwarded'.dst = Own
      PROVE  Bridge \in forwarded'.to
  <2>1. xForwardingTable \in Seq(RowType)
    BY <1>2 DEF TableIInv, TableTypeOK, RowType
  <2>2. PICK o \in Rows : Mac(o) = Own
    BY <1>1, <1>2 DEF TableIInv, OwnStays
  <2>3. \A r \in Rows : Mac(r) = Own => Via(r) = Bridge
    BY <1>2 DEF TableIInv, OwnInv
  <2>4. o \in RowsOf(Own)
    BY <2>2, <2>3, TableAssumption DEF RowsOf, Rows, Mac, Via, Live
  <2>5. Found(xForwardingTable, Own) # Null
    BY <1>2, <2>4, KnownFound DEF KnownIsFound, Address
  <2>6. Found(xForwardingTable, Own) = Bridge
    BY <2>1, <2>3, <2>5, FoundRow DEF Rows, Mac, Via
  <2> QED
    BY <1>2, <2>6, ForTheDevice
<1>3. TableIInv /\ [TableNext]_tableVars =>
        [~mode.preempted /\ ~mode.aging =>
           (initialised /\ forwarded' # forwarded /\ forwarded'.dst = Own
              => Bridge \in forwarded'.to)]_tableVars
  BY <1>2
<1>4. TableSpec => []TableIInv
  BY <1>1, TableInvariant
<1> QED
  BY <1>3, <1>4, PTL DEF TableSpec, DeviceReachable
=============================================================================
