---------------------------- MODULE WebServer_proofs ----------------------------
(***************************************************************************)
(* For every number of peers, every backlog and every file: each child of  *)
(* the listening socket is freed once, after its last user and with its    *)
(* place, and no child waits to be accepted without anybody knowing.       *)
(*                                                                         *)
(* A child passes from hand to hand: it is nobody's while the handshake is *)
(* under way, then the listener offers it, the server takes it and makes   *)
(* it a client, and who gives it up hands it to the queue.  The invariant  *)
(* says that at any time it is in one of these hands.                      *)
(***************************************************************************)
EXTENDS WebServer, FiniteSetTheorems, SequenceTheorems, TLAPS

States == {"none", "eSYN_RECEIVED", "eESTABLISHED", "eLAST_ACK", "eCLOSE_WAIT", "eCLOSED"}
Steps == {"select", "accept", "ask", "recv", "head", "file", "delete"}

SocketsType ==
    /\ pxPeerSocket \in Peers \cup {None} /\ usChildCount \in Nat
    /\ ucTCPState \in [Peers -> States]
    /\ bPassQueued \subseteq Peers /\ bPassAccept \subseteq Peers
    /\ server \in [step : Steps, client : Peers \cup {None}, new : BOOLEAN]
    /\ pxClients \subseteq Peers /\ todo \subseteq Peers /\ lost \subseteq Peers

(***************************************************************************)
(* Who has a child in hand: the listener offers it, the server is just     *)
(* accepting it, or it is a client.                                        *)
(***************************************************************************)
HandsInv ==
    /\ pxPeerSocket # None => pxPeerSocket \in bPassAccept
    /\ pxClients \cap bPassAccept = {}
    /\ At("ask") => server.client \in Peers \ (pxClients \cup bPassAccept)
    /\ todo \subseteq pxClients
    /\ server.step \in {"recv", "head", "file", "delete"} => server.client \in pxClients \ todo
    /\ Users \cup lost \subseteq Children
    /\ Users \cap (bPassQueued \cup lost) = {}

(***************************************************************************)
(* A child of which only the SYN is known is nobody's; the age check and a *)
(* RST rely on that.                                                       *)
(***************************************************************************)
OrphansInv ==
    \A c \in Peers :
        /\ c \in bPassQueued => ucTCPState[c] \in {"eSYN_RECEIVED", "eCLOSE_WAIT", "eCLOSED"}
        /\ ucTCPState[c] = "eSYN_RECEIVED" => c \in bPassQueued \ lost

\* The children that an event in the queue may be about to close.
Closable == {c \in Children \ (Users \cup lost) : ucTCPState[c] # "eSYN_RECEIVED"}

Events == {Accept} \cup {Close(c) : c \in Peers}

\* In q, each of the children in C is closed at most once, and nothing else is.
ClosesOnce(q, C) ==
    /\ q \in Seq(Events)
    /\ \A i \in DOMAIN q : q[i] # Accept =>
        /\ q[i][2] \in C
        /\ \A j \in DOMAIN q : q[i] = q[j] => i = j

Asks(q) == \E i \in DOMAIN q : q[i] = Accept

IInv ==
    /\ SocketsType /\ HandsInv /\ OrphansInv
    /\ ClosesOnce(xNetworkEventQueue, Closable)
    /\ SlotsAreCounted
    /\ NobodyIsForgotten

-----------------------------------------------------------------------------
(***************************************************************************)
(* The queue of events.                                                    *)
(***************************************************************************)
LEMMA AcceptIsNoClose ==
    ASSUME NEW c
    PROVE  Close(c) # Accept /\ Close(c)[2] = c
BY DEF Close, Accept

LEMMA MoreToClose ==
    ASSUME NEW q, NEW C, NEW D, C \subseteq D, ClosesOnce(q, C)
    PROVE  ClosesOnce(q, D)
BY DEF ClosesOnce

LEMMA AskingIsSafe ==
    ASSUME NEW q, NEW C, ClosesOnce(q, C)
    PROVE  ClosesOnce(Append(q, Accept), C) /\ Asks(Append(q, Accept))
<1>1. q \in Seq(Events) /\ Accept \in Events
  BY DEF ClosesOnce, Events
<1>2. Append(q, Accept) \in Seq(Events)
  BY <1>1, AppendProperties
<1>3. /\ DOMAIN Append(q, Accept) = 1 .. Len(q) + 1 /\ DOMAIN q = 1 .. Len(q) /\ Len(q) \in Nat
      /\ \A i \in 1 .. Len(q) : Append(q, Accept)[i] = q[i]
      /\ Append(q, Accept)[Len(q) + 1] = Accept
  BY <1>1, AppendProperties, LenProperties
<1> DEFINE r == Append(q, Accept)
<1> HIDE DEF r
<1>4. \A i \in DOMAIN r : r[i] # Accept => i \in DOMAIN q /\ r[i] = q[i]
  BY <1>3 DEF r
<1>5. ClosesOnce(r, C)
  BY <1>2, <1>4 DEF ClosesOnce, r
<1>6. Asks(r)
  BY <1>3 DEF Asks, r
<1> QED
  BY <1>5, <1>6 DEF r

LEMMA ClosingIsSafe ==
    ASSUME NEW q, NEW C, NEW c \in Peers \ C, ClosesOnce(q, C)
    PROVE  /\ ClosesOnce(Append(q, Close(c)), C \cup {c})
           /\ Asks(q) => Asks(Append(q, Close(c)))
<1>1. q \in Seq(Events) /\ Close(c) \in Events
  BY DEF ClosesOnce, Events
<1>2. Append(q, Close(c)) \in Seq(Events)
  BY <1>1, AppendProperties
<1>3. /\ DOMAIN Append(q, Close(c)) = 1 .. Len(q) + 1 /\ DOMAIN q = 1 .. Len(q) /\ Len(q) \in Nat
      /\ \A i \in 1 .. Len(q) : Append(q, Close(c))[i] = q[i]
      /\ Append(q, Close(c))[Len(q) + 1] = Close(c)
  BY <1>1, AppendProperties, LenProperties
<1> DEFINE r == Append(q, Close(c))
<1> HIDE DEF r
<1>4. \A i \in DOMAIN q : i \in DOMAIN r /\ r[i] = q[i]
  BY <1>3 DEF r
<1>5. \A i \in DOMAIN r : \/ i \in DOMAIN q /\ r[i] = q[i]
                          \/ i = Len(q) + 1 /\ r[i] = Close(c)
  BY <1>3 DEF r
<1>6. \A i \in DOMAIN q : q[i] # Close(c)
  BY AcceptIsNoClose DEF ClosesOnce
<1>7. ASSUME NEW i \in DOMAIN r, r[i] # Accept
      PROVE  r[i][2] \in C \cup {c} /\ \A j \in DOMAIN r : r[i] = r[j] => i = j
  <2>1. CASE i \in DOMAIN q /\ r[i] = q[i]
    BY <1>5, <1>6, <1>7, <2>1 DEF ClosesOnce
  <2>2. CASE i = Len(q) + 1 /\ r[i] = Close(c)
    BY <1>5, <1>6, <2>2, AcceptIsNoClose
  <2> QED
    BY <1>5, <2>1, <2>2
<1>8. ClosesOnce(r, C \cup {c})
  BY <1>2, <1>7 DEF ClosesOnce, r
<1>9. Asks(q) => Asks(r)
  BY <1>4 DEF Asks
<1> QED
  BY <1>8, <1>9 DEF r

LEMMA TakingIsSafe ==
    ASSUME NEW q, NEW C, ClosesOnce(q, C), q # <<>>
    PROVE  /\ Head(q) = Accept => ClosesOnce(Tail(q), C)
           /\ Head(q) # Accept => /\ Head(q)[2] \in C /\ Head(q) = Close(Head(q)[2])
                                  /\ ClosesOnce(Tail(q), C \ {Head(q)[2]})
                                  /\ Asks(q) => Asks(Tail(q))
<1>1. q \in Seq(Events)
  BY DEF ClosesOnce
<1> DEFINE r == Tail(q)
<1>2. /\ r \in Seq(Events) /\ Head(q) = q[1] /\ Len(q) \in Nat \ {0}
      /\ DOMAIN q = 1 .. Len(q) /\ DOMAIN r = 1 .. Len(q) - 1
      /\ \A i \in 1 .. Len(q) - 1 : r[i] = q[i + 1]
  BY <1>1, HeadTailProperties, LenProperties, EmptySeq
<1> HIDE DEF r
<1>3. 1 \in DOMAIN q /\ \A i \in DOMAIN r : i + 1 \in DOMAIN q /\ i + 1 # 1 /\ r[i] = q[i + 1]
  BY <1>2
<1>4. \A i, j \in DOMAIN r : i + 1 = j + 1 => i = j
  BY <1>2
<1>5. ASSUME NEW i \in DOMAIN r, r[i] # Accept
      PROVE  r[i][2] \in C /\ \A j \in DOMAIN r : r[i] = r[j] => i = j
  BY <1>3, <1>4, <1>5 DEF ClosesOnce
<1>6. ClosesOnce(r, C)
  BY <1>2, <1>5 DEF ClosesOnce
<1>7. ASSUME Head(q) # Accept
      PROVE  /\ Head(q)[2] \in C /\ Head(q) = Close(Head(q)[2])
             /\ ClosesOnce(r, C \ {Head(q)[2]})
             /\ Asks(q) => Asks(r)
  <2>1. q[1] = Head(q) /\ q[1] \in Events /\ q[1][2] \in C
    BY <1>1, <1>2, <1>3, <1>7, ElementOfSeq DEF ClosesOnce
  <2>2. Head(q) = Close(Head(q)[2])
    BY <1>7, <2>1, AcceptIsNoClose DEF Events
  <2>3. ASSUME NEW i \in DOMAIN r, r[i] # Accept
        PROVE  r[i][2] # Head(q)[2]
    <3>1. r[i] \in Events
      BY <1>2, ElementOfSeq
    <3>2. r[i] = Close(r[i][2])
      BY <2>3, <3>1, AcceptIsNoClose DEF Events
    <3>3. r[i] # q[1]
      BY <1>3, <1>7, <2>1 DEF ClosesOnce
    <3> QED
      BY <2>1, <2>2, <3>2, <3>3
  <2>4. ClosesOnce(r, C \ {Head(q)[2]})
    BY <1>6, <2>3 DEF ClosesOnce
  <2>5. \A i \in DOMAIN q : i # 1 => i - 1 \in DOMAIN r /\ r[i - 1] = q[i]
    BY <1>2
  <2>6. Asks(q) => Asks(r)
    BY <1>7, <2>1, <2>5 DEF Asks
  <2> QED
    BY <2>1, <2>2, <2>4, <2>6
<1> QED
  BY <1>6, <1>7 DEF r

-----------------------------------------------------------------------------
(***************************************************************************)
(* Steps of a kind: nothing of this is touched; the server goes on; a      *)
(* child goes on.                                                          *)
(***************************************************************************)
others == <<pxPeerSocket, usChildCount, bPassQueued, bPassAccept, xNetworkEventQueue, pxClients,
            lost>>

LEMMA NothingHappens ==
    ASSUME IInv, UNCHANGED <<others, ucTCPState, server, todo>>
    PROVE  IInv'
<1>1. UNCHANGED <<Users, Children, Closable>>
  BY DEF others, Users, Children, Child, Closable, At
<1>2. SocketsType' /\ HandsInv' /\ OrphansInv'
  BY <1>1 DEF IInv, others, SocketsType, HandsInv, OrphansInv, At
<1>3. ClosesOnce(xNetworkEventQueue, Closable)' /\ SlotsAreCounted' /\ NobodyIsForgotten'
  BY <1>1 DEF IInv, others, ClosesOnce, SlotsAreCounted, NobodyIsForgotten, At
<1> QED
  BY <1>2, <1>3 DEF IInv

LEMMA ServerGoesOn ==
    ASSUME IInv, UNCHANGED <<others, ucTCPState>>,
           server' \in [step : Steps, client : Peers \cup {None}, new : BOOLEAN],
           ~At("ask"), ~At("ask")', todo' \subseteq pxClients,
           server'.step \in {"recv", "head", "file", "delete"} => server'.client \in pxClients \ todo'
    PROVE  IInv'
<1>1. UNCHANGED <<Users, Children>>
  BY DEF others, Users, Children, Child
<1>2. UNCHANGED Closable
  BY <1>1 DEF others, Closable
<1>3. SocketsType'
  BY DEF IInv, SocketsType, others
<1>4. HandsInv'
  BY <1>1 DEF IInv, HandsInv, others
<1>5. OrphansInv'
  BY DEF IInv, OrphansInv, others
<1>6. ClosesOnce(xNetworkEventQueue, Closable)' /\ SlotsAreCounted' /\ NobodyIsForgotten'
  BY <1>1, <1>2 DEF IInv, others, ClosesOnce, SlotsAreCounted, NobodyIsForgotten
<1> QED
  BY <1>3, <1>4, <1>5, <1>6 DEF IInv

LEMMA ChildGoesOn ==
    ASSUME IInv, UNCHANGED <<others, server, todo>>,
           NEW c \in Children, NEW s \in {"eLAST_ACK", "eCLOSE_WAIT", "eCLOSED"}, Becomes(c, s),
           c \in bPassQueued => s # "eLAST_ACK"
    PROVE  IInv'
<1>1. /\ ucTCPState' \in [Peers -> States] /\ c \in Peers
      /\ \A d \in Peers : ucTCPState'[d] = IF d = c THEN s ELSE ucTCPState[d]
  BY DEF IInv, SocketsType, Becomes, Children, States
<1>2. UNCHANGED <<Users, Children>>
  BY <1>1 DEF others, Users, Children, Child, At
<1>3. Closable \subseteq Closable'
  BY <1>1, <1>2 DEF others, Closable, Children
<1>4. SocketsType'
  BY <1>1 DEF IInv, SocketsType, others
<1>5. HandsInv'
  BY <1>2 DEF IInv, HandsInv, others, At
<1>6. OrphansInv'
  BY <1>1 DEF IInv, OrphansInv, others
<1>7. ClosesOnce(xNetworkEventQueue, Closable')
  BY <1>3, MoreToClose DEF IInv
<1>8. ClosesOnce(xNetworkEventQueue, Closable)' /\ SlotsAreCounted' /\ NobodyIsForgotten'
  BY <1>2, <1>7 DEF IInv, others, SlotsAreCounted, NobodyIsForgotten, At
<1> QED
  BY <1>4, <1>5, <1>6, <1>8 DEF IInv

(***************************************************************************)
(* Cardinality, for a child that comes and one that goes.                  *)
(***************************************************************************)
LEMMA ChildrenAreCounted ==
    /\ IsFiniteSet(Children) /\ Cardinality(Children) \in Nat
    /\ \A c \in Peers \ Children : Cardinality(Children \cup {c}) = Cardinality(Children) + 1
    /\ \A c \in Children : /\ Cardinality(Children \ {c}) = Cardinality(Children) - 1
                           /\ Cardinality(Children) # 0
<1>1. Children \in SUBSET Peers /\ IsFiniteSet(Peers)
  BY WebAssumption DEF Children
<1>2. IsFiniteSet(Children)
  BY <1>1, FS_Subset
<1> QED
  BY <1>2, FS_CardinalityType, FS_AddElement, FS_RemoveElement, FS_EmptySet

(***************************************************************************)
(* A child comes, is connected, and goes.                                  *)
(***************************************************************************)
LEMMA SynArrivesSafely ==
    ASSUME IInv, NEW c \in Peers, SynArrives(c)
    PROVE  IInv'
<1>1. CASE usChildCount >= Backlog
  BY <1>1, NothingHappens DEF SynArrives, listener, children, task, others
<1>2. CASE ~(usChildCount >= Backlog)
  <2>1. /\ UNCHANGED <<pxPeerSocket, bPassAccept, xNetworkEventQueue, pxClients, lost, server, todo>>
        /\ usChildCount' = usChildCount + 1 /\ bPassQueued' = bPassQueued \cup {c}
    BY <1>2 DEF SynArrives, task
  <2>2. /\ ucTCPState' \in [Peers -> States] /\ c \notin Children
        /\ \A d \in Peers : ucTCPState'[d] = IF d = c THEN "eSYN_RECEIVED" ELSE ucTCPState[d]
    BY <1>2 DEF SynArrives, Becomes, IInv, SocketsType, States, Children
  <2>3. UNCHANGED Users /\ Children' = Children \cup {c}
    BY <2>1, <2>2 DEF Users, Children, Child, At
  <2>4. Closable' = Closable
    BY <2>1, <2>2, <2>3 DEF Closable, Children
  <2>5. SocketsType'
    BY <2>1, <2>2 DEF IInv, SocketsType
  <2>6. HandsInv'
    BY <2>1, <2>2, <2>3 DEF IInv, HandsInv, At
  <2>7. OrphansInv'
    BY <2>1, <2>2 DEF IInv, HandsInv, OrphansInv
  <2>8. SlotsAreCounted'
    BY <1>2, <2>1, <2>2, <2>3, ChildrenAreCounted, WebAssumption DEF IInv, SocketsType, SlotsAreCounted
  <2>9. ClosesOnce(xNetworkEventQueue, Closable)' /\ NobodyIsForgotten'
    BY <2>1, <2>4 DEF IInv, ClosesOnce, NobodyIsForgotten, At
  <2> QED
    BY <2>5, <2>6, <2>7, <2>8, <2>9 DEF IInv
<1> QED
  BY <1>1, <1>2

LEMMA ConnectsSafely ==
    ASSUME IInv, NEW c \in Peers, ucTCPState[c] = "eSYN_RECEIVED", Connected(c),
           UNCHANGED <<usChildCount, xNetworkEventQueue, server, pxClients, todo, lost>>
    PROVE  IInv'
<1>1. /\ ucTCPState' \in [Peers -> States]
      /\ \A d \in Peers : ucTCPState'[d] = IF d = c THEN "eESTABLISHED" ELSE ucTCPState[d]
  BY DEF Connected, Becomes, IInv, SocketsType, States
<1>2. /\ c \in bPassQueued /\ c \notin Users /\ c \notin lost /\ c \in Children
  BY DEF IInv, OrphansInv, HandsInv, Children, Child
<1>3. /\ bPassQueued' = bPassQueued \ {c} /\ bPassAccept' = bPassAccept \cup {c}
      /\ pxPeerSocket' = IF pxPeerSocket = None THEN c ELSE pxPeerSocket
  BY DEF Connected
<1>4. Children' = Children /\ Users' = Users \cup {c}
  BY <1>1, <1>2, <1>3 DEF Children, Child, Users, At
<1>5. Closable' = Closable
  BY <1>1, <1>2, <1>4 DEF Closable, Children
<1>6. SocketsType'
  BY <1>1, <1>3 DEF IInv, SocketsType
<1>7. HandsInv'
  BY <1>2, <1>3, <1>4 DEF IInv, HandsInv, Users, At
<1>8. OrphansInv'
  BY <1>1, <1>3 DEF IInv, OrphansInv
<1>9. ClosesOnce(xNetworkEventQueue, Closable)' /\ SlotsAreCounted'
  BY <1>4, <1>5 DEF IInv, ClosesOnce, SlotsAreCounted
<1>10. NobodyIsForgotten'
  BY <1>3, WebAssumption DEF IInv, NobodyIsForgotten, At, SocketsType
<1> QED
  BY <1>6, <1>7, <1>8, <1>9, <1>10 DEF IInv

\* The part of vSocketClose that matters here, for a child nobody uses.
LEMMA ClosesSafely ==
    ASSUME IInv, NEW c \in Children \ (Users \cup lost), SocketClose(c),
           UNCHANGED <<bPassAccept, server, pxClients, todo, lost>>,
           pxPeerSocket' = pxPeerSocket,
           ClosesOnce(xNetworkEventQueue', Closable \ {c}),
           Asks(xNetworkEventQueue) => Asks(xNetworkEventQueue')
    PROVE  IInv'
<1>1. /\ ucTCPState' \in [Peers -> States] /\ c \in Peers
      /\ \A d \in Peers : ucTCPState'[d] = IF d = c THEN "none" ELSE ucTCPState[d]
  BY DEF SocketClose, Becomes, IInv, SocketsType, States, Children
<1>2. Children' = Children \ {c} /\ Users' = Users
  BY <1>1 DEF Children, Child, Users, At
<1>3. Closable' = Closable \ {c}
  BY <1>1, <1>2 DEF Closable, Children
<1>4. bPassQueued' = bPassQueued \ {c}
  BY DEF SocketClose
<1>5. SlotsAreCounted' /\ usChildCount' \in Nat
  <2>1. usChildCount' = IF usChildCount # 0 THEN usChildCount - 1 ELSE 0
    BY DEF SocketClose
  <2>2. usChildCount = Cardinality(Children) /\ usChildCount <= Backlog /\ usChildCount \in Nat
    BY DEF IInv, SlotsAreCounted, SocketsType
  <2> QED
    BY <1>2, <2>1, <2>2, ChildrenAreCounted, WebAssumption DEF SlotsAreCounted
<1>6. SocketsType'
  BY <1>1, <1>4, <1>5 DEF IInv, SocketsType
<1>7. HandsInv'
  BY <1>2, <1>4 DEF IInv, HandsInv, At
<1>8. OrphansInv'
  BY <1>1, <1>4 DEF IInv, OrphansInv
<1>9. ClosesOnce(xNetworkEventQueue, Closable)'
  BY <1>3 DEF ClosesOnce
<1>10. NobodyIsForgotten'
  BY DEF IInv, NobodyIsForgotten, Asks, At
<1> QED
  BY <1>5, <1>6, <1>7, <1>8, <1>9, <1>10 DEF IInv

\* FreeRTOS_closesocket, for a child that is in nobody's hand any more.
LEMMA HandsOver ==
    ASSUME IInv, NEW c \in Peers \ (Closable \cup lost), CloseSocket(c)
    PROVE  /\ ClosesOnce(xNetworkEventQueue', (Closable \cup {c}) \ (lost' \ lost))
           /\ lost' = lost \/ (lost' = lost \cup {c} /\ xNetworkEventQueue' = xNetworkEventQueue)
           /\ Asks(xNetworkEventQueue) => Asks(xNetworkEventQueue')
<1>1. ClosesOnce(xNetworkEventQueue, Closable)
  BY DEF IInv
<1>2. CASE Post(Close(c)) /\ UNCHANGED lost
  BY <1>1, <1>2, ClosingIsSafe DEF Post
<1>3. CASE lost' = lost \cup {c} /\ UNCHANGED xNetworkEventQueue
  <2>1. (Closable \cup {c}) \ (lost' \ lost) = Closable
    BY <1>3
  <2> QED
    BY <1>1, <1>3, <2>1
<1> QED
  BY <1>2, <1>3 DEF CloseSocket

LEMMA RstArrivesSafely ==
    ASSUME IInv, NEW c \in Peers, RstArrives(c)
    PROVE  IInv'
<1>1. CASE ucTCPState[c] # "eSYN_RECEIVED"
  <2>1. UNCHANGED <<others, server, todo>> /\ Becomes(c, "eCLOSED") /\ c \in Children
    BY <1>1 DEF RstArrives, others, listener, task, Active, Children, Child
  <2> QED
    BY <2>1, ChildGoesOn
<1>2. CASE ucTCPState[c] = "eSYN_RECEIVED"
  <2>1. /\ CloseSocket(c)
        /\ UNCHANGED <<pxPeerSocket, usChildCount, bPassQueued, bPassAccept, pxClients, server, todo>>
    BY <1>2 DEF RstArrives, listener, task
  <2>2. /\ ucTCPState' \in [Peers -> States]
        /\ \A d \in Peers : ucTCPState'[d] = IF d = c THEN "eCLOSED" ELSE ucTCPState[d]
    BY DEF RstArrives, Becomes, IInv, SocketsType, States
  <2>3. c \in bPassQueued /\ c \in Children \ (Users \cup lost) /\ c \notin Closable
    BY <1>2 DEF IInv, OrphansInv, HandsInv, Children, Child, Closable
  <2>4. Users' = Users /\ Children' = Children
    BY <2>1, <2>2, <2>3 DEF Users, Children, Child, At
  <2>5. /\ ClosesOnce(xNetworkEventQueue', (Closable \cup {c}) \ (lost' \ lost))
        /\ lost' \in {lost, lost \cup {c}}
        /\ Asks(xNetworkEventQueue) => Asks(xNetworkEventQueue')
    BY <2>1, <2>3, HandsOver
  <2>6. (Closable \cup {c}) \ (lost' \ lost) \subseteq Closable'
    BY <2>2, <2>3, <2>4, <2>5 DEF Closable, Children
  <2>7. ClosesOnce(xNetworkEventQueue, Closable)'
    BY <2>5, <2>6, MoreToClose
  <2>8. SocketsType'
    BY <2>1, <2>2, <2>5 DEF IInv, SocketsType
  <2>9. HandsInv'
    BY <2>1, <2>3, <2>4, <2>5 DEF IInv, HandsInv, At
  <2>10. OrphansInv'
    BY <2>1, <2>2, <2>5 DEF IInv, OrphansInv
  <2>11. SlotsAreCounted' /\ NobodyIsForgotten'
    BY <2>1, <2>4, <2>5 DEF IInv, SlotsAreCounted, NobodyIsForgotten, Asks, At
  <2> QED
    BY <2>7, <2>8, <2>9, <2>10, <2>11 DEF IInv
<1> QED
  BY <1>1, <1>2

LEMMA AgeCheckIsSafe ==
    ASSUME IInv, NEW c \in Peers, AgeCheck(c)
    PROVE  IInv'
<1>1. c \in Children
  BY DEF AgeCheck, Children, Child
<1>2. CASE c \in bPassQueued
  <2>1. /\ SocketClose(c)
        /\ UNCHANGED <<pxPeerSocket, bPassAccept, server, pxClients, todo, lost, xNetworkEventQueue>>
    BY <1>2 DEF AgeCheck, task
  <2>2. ucTCPState[c] = "eSYN_RECEIVED"
    BY <1>2 DEF AgeCheck, IInv, OrphansInv
  <2>3. c \notin Users \cup lost /\ Closable \ {c} = Closable
    BY <1>2, <2>2 DEF IInv, OrphansInv, HandsInv, Closable
  <2> QED
    BY <1>1, <2>1, <2>3, ClosesSafely DEF IInv
<1>3. CASE c \notin bPassQueued
  <2>1. UNCHANGED <<others, server, todo>> /\ Becomes(c, "eCLOSE_WAIT")
    BY <1>3 DEF AgeCheck, others, task
  <2> QED
    BY <1>1, <1>3, <2>1, ChildGoesOn
<1> QED
  BY <1>2, <1>3

LEMMA TakesEventSafely ==
    ASSUME IInv, TakeEvent
    PROVE  IInv'
<1> DEFINE e == Head(xNetworkEventQueue)
<1>1. /\ xNetworkEventQueue # <<>> /\ xNetworkEventQueue' = Tail(xNetworkEventQueue)
      /\ UNCHANGED <<bPassAccept, server, pxClients, todo, lost>>
  BY DEF TakeEvent, task
<1>2. CASE e # Accept
  <2>1. SocketClose(e[2]) /\ pxPeerSocket' = pxPeerSocket
    BY <1>2 DEF TakeEvent
  <2>2. /\ e[2] \in Closable /\ ClosesOnce(xNetworkEventQueue', Closable \ {e[2]})
        /\ Asks(xNetworkEventQueue) => Asks(xNetworkEventQueue')
    BY <1>1, <1>2, TakingIsSafe DEF IInv
  <2>3. e[2] \in Children \ (Users \cup lost)
    BY <2>2 DEF Closable
  <2> HIDE DEF e
  <2> QED
    BY <1>1, <2>1, <2>2, <2>3, ClosesSafely
<1>3. CASE e = Accept
  <2>1. CheckNewClient /\ UNCHANGED <<usChildCount, ucTCPState, bPassQueued>>
    BY <1>3 DEF TakeEvent
  <2>2. ClosesOnce(xNetworkEventQueue', Closable)
    BY <1>1, <1>3, TakingIsSafe DEF IInv
  <2>3. UNCHANGED <<Users, Children, Closable>>
    BY <1>1, <2>1 DEF Users, Children, Child, Closable, At
  <2>4. IF bPassAccept = {} THEN pxPeerSocket' = pxPeerSocket ELSE pxPeerSocket' \in bPassAccept
    BY <2>1 DEF CheckNewClient
  <2>5. SocketsType'
    BY <1>1, <2>1, <2>4 DEF IInv, SocketsType
  <2>6. HandsInv'
    BY <1>1, <2>1, <2>3, <2>4 DEF IInv, HandsInv, At
  <2>7. OrphansInv' /\ SlotsAreCounted'
    BY <1>1, <2>1, <2>3 DEF IInv, OrphansInv, SlotsAreCounted
  <2>8. NobodyIsForgotten'
    BY <1>1, <2>4, WebAssumption DEF IInv, NobodyIsForgotten, SocketsType
  <2>9. ClosesOnce(xNetworkEventQueue, Closable)'
    BY <2>2, <2>3 DEF ClosesOnce
  <2> QED
    BY <2>5, <2>6, <2>7, <2>8, <2>9 DEF IInv
<1> QED
  BY <1>2, <1>3

-----------------------------------------------------------------------------
(***************************************************************************)
(* The server takes a child, makes it a client, and gives it up.           *)
(***************************************************************************)
LEMMA TakesClientSafely ==
    ASSUME IInv, TakeClient
    PROVE  IInv'
<1>1. CASE pxPeerSocket # None /\ pxPeerSocket \in bPassAccept
  <2>1. /\ UNCHANGED <<usChildCount, ucTCPState, bPassQueued, xNetworkEventQueue, pxClients, todo, lost>>
        /\ pxPeerSocket' = None /\ bPassAccept' = bPassAccept \ {pxPeerSocket}
        /\ server' = [step |-> "ask", client |-> pxPeerSocket, new |-> FALSE]
    BY <1>1 DEF TakeClient
  <2>2. server.step = "accept" /\ server'.step = "ask" /\ server'.client = pxPeerSocket
    BY <2>1 DEF TakeClient, At
  <2>3. Users' = Users /\ Children' = Children
    BY <1>1, <2>1, <2>2 DEF Users, Children, Child, At
  <2>4. Closable' = Closable
    BY <2>1, <2>3 DEF Closable
  <2>5. server' \in [step : Steps, client : Peers \cup {None}, new : BOOLEAN]
    BY <2>1 DEF Steps, IInv, SocketsType
  <2>6. SocketsType'
    BY <2>1, <2>5 DEF IInv, SocketsType
  <2>7. HandsInv'
    BY <1>1, <2>1, <2>2, <2>3 DEF IInv, HandsInv, At, SocketsType
  <2>8. OrphansInv' /\ SlotsAreCounted'
    BY <2>1, <2>3 DEF IInv, OrphansInv, SlotsAreCounted
  <2>9. ClosesOnce(xNetworkEventQueue, Closable)' /\ NobodyIsForgotten'
    BY <2>1, <2>2, <2>4 DEF IInv, ClosesOnce, NobodyIsForgotten, At
  <2> QED
    BY <2>6, <2>7, <2>8, <2>9 DEF IInv
<1>2. CASE ~(pxPeerSocket # None /\ pxPeerSocket \in bPassAccept)
  <2>1. pxPeerSocket = None /\ pxPeerSocket' = None
    BY <1>2 DEF TakeClient, IInv, HandsInv
  <2>2. server' = Idle("select") /\ UNCHANGED bPassAccept /\ todo' = pxClients
    BY <1>2 DEF TakeClient, Turns
  <2>3. UNCHANGED <<others, ucTCPState>>
    BY <2>1, <2>2 DEF TakeClient, others
  <2>4. server'.step = "select" /\ server' \in [step : Steps, client : Peers \cup {None}, new : BOOLEAN]
    BY <2>2 DEF Idle, Steps
  <2> QED
    BY <2>2, <2>3, <2>4, ServerGoesOn DEF TakeClient, At
<1> QED
  BY <1>1, <1>2

LEMMA ReceivesNewClientSafely ==
    ASSUME IInv, ReceiveNewClient
    PROVE  IInv'
<1>1. /\ UNCHANGED <<pxPeerSocket, usChildCount, ucTCPState, bPassQueued, bPassAccept, lost>>
      /\ xNetworkEventQueue' = Append(xNetworkEventQueue, Accept)
      /\ pxClients' = pxClients \cup {server.client} /\ todo' = pxClients'
      /\ server.step = "ask" /\ server' = Idle("select")
  BY DEF ReceiveNewClient, listener, children, AskForNext, Post, Turns, At
<1>2. server'.step = "select" /\ server' \in [step : Steps, client : Peers \cup {None}, new : BOOLEAN]
  BY <1>1 DEF Idle, Steps
<1>3. Users' = Users /\ Children' = Children
  BY <1>1, <1>2 DEF Users, Children, Child, At
<1>4. Closable' = Closable
  BY <1>1, <1>3 DEF Closable
<1>5. server.client \in Peers \ (pxClients \cup bPassAccept)
  BY <1>1 DEF IInv, HandsInv, At
<1>6. SocketsType'
  BY <1>1, <1>2, <1>5 DEF IInv, SocketsType
<1>7. HandsInv'
  BY <1>1, <1>2, <1>3, <1>5 DEF IInv, HandsInv, At
<1>8. OrphansInv' /\ SlotsAreCounted'
  BY <1>1, <1>3 DEF IInv, OrphansInv, SlotsAreCounted
<1>9. ClosesOnce(xNetworkEventQueue', Closable) /\ Asks(xNetworkEventQueue')
  BY <1>1, AskingIsSafe DEF IInv
<1>10. ClosesOnce(xNetworkEventQueue, Closable)' /\ NobodyIsForgotten'
  BY <1>4, <1>9 DEF ClosesOnce, NobodyIsForgotten, Asks
<1> QED
  BY <1>6, <1>7, <1>8, <1>10 DEF IInv

LEMMA DeletesSafely ==
    ASSUME IInv, Delete
    PROVE  IInv'
<1> DEFINE c == server.client
<1>1. /\ UNCHANGED <<pxPeerSocket, usChildCount, ucTCPState, bPassQueued, bPassAccept, todo>>
      /\ CloseSocket(c) /\ pxClients' = pxClients \ {c}
      /\ server.step = "delete" /\ server' = Idle("select")
  BY DEF Delete, listener, children, Turns, At
<1>2. server'.step = "select" /\ server' \in [step : Steps, client : Peers \cup {None}, new : BOOLEAN]
  BY <1>1 DEF Idle, Steps
<1>3. c \in pxClients \ todo /\ c \in Peers
  BY <1>1 DEF IInv, HandsInv, SocketsType
<1>4. c \notin bPassAccept /\ c \in Children \ (bPassQueued \cup lost) /\ c \notin Closable
  BY <1>3 DEF IInv, HandsInv, Users, Closable
<1>5. ucTCPState[c] # "eSYN_RECEIVED"
  BY <1>3, <1>4 DEF IInv, OrphansInv
<1>6. Users' = Users \ {c} /\ Children' = Children
  BY <1>1, <1>2, <1>4 DEF Users, Children, Child, At
<1>7. /\ ClosesOnce(xNetworkEventQueue', (Closable \cup {c}) \ (lost' \ lost))
      /\ lost' \in {lost, lost \cup {c}}
      /\ Asks(xNetworkEventQueue) => Asks(xNetworkEventQueue')
  BY <1>1, <1>3, <1>4, HandsOver
<1> HIDE DEF c
<1>8. (Closable \cup {c}) \ (lost' \ lost) \subseteq Closable'
  BY <1>1, <1>4, <1>5, <1>6, <1>7 DEF Closable
<1>9. ClosesOnce(xNetworkEventQueue, Closable)'
  BY <1>7, <1>8, MoreToClose
<1>10. SocketsType'
  BY <1>1, <1>2, <1>3, <1>7 DEF IInv, SocketsType
<1>11. HandsInv'
  BY <1>1, <1>2, <1>3, <1>4, <1>6, <1>7 DEF IInv, HandsInv, At
<1>12. OrphansInv'
  BY <1>1, <1>5, <1>7 DEF IInv, OrphansInv
<1>13. SlotsAreCounted' /\ NobodyIsForgotten'
  BY <1>1, <1>6, <1>7 DEF IInv, SlotsAreCounted, NobodyIsForgotten, Asks, At
<1> QED
  BY <1>9, <1>10, <1>11, <1>12, <1>13 DEF IInv

(***************************************************************************)
(* The other steps of the server.                                          *)
(***************************************************************************)
LEMMA ServesSafely ==
    ASSUME IInv, Select \/ Turn \/ Receive \/ SendReply \/ SendFile
    PROVE  IInv'
<1> DEFINE turns == {"recv", "head", "file", "delete"}
           tasks == [step : Steps, client : Peers \cup {None}, new : BOOLEAN]
<1>1. /\ server \in tasks /\ todo \subseteq pxClients /\ pxClients \subseteq Peers
      /\ server.step \in turns => server.client \in pxClients \ todo
  BY DEF IInv, SocketsType, HandsInv
<1>2. \A step \in Steps : Idle(step) \in tasks /\ Idle(step).step = step
  BY DEF Idle
<1>3. ASSUME NEW step \in turns
      PROVE  [server EXCEPT !.step = step] \in tasks /\ [server EXCEPT !.step = step].step = step
             /\ [server EXCEPT !.step = step].client = server.client
  BY <1>1 DEF Steps
<1>4. CASE Select
  <2>1. UNCHANGED <<others, ucTCPState>> /\ server.step = "select" /\ todo' \subseteq pxClients
    BY <1>1, <1>4 DEF Select, others, listener, children, At
  <2>2. server' = server \/ server' = Idle("accept")
    BY <1>4 DEF Select, Turns
  <2>3. server' \in tasks /\ server'.step \in {"select", "accept"}
    BY <1>1, <1>2, <2>1, <2>2 DEF Steps
  <2> QED
    BY <2>1, <2>3, ServerGoesOn DEF At
<1>5. CASE Turn
  <2>1. UNCHANGED <<others, ucTCPState>> /\ server.step = "select"
    BY <1>5 DEF Turn, others, listener, children, At
  <2>2. PICK c \in todo : /\ todo' = todo \ {c}
                          /\ server' = [step |-> IF uxBytesLeft[c] > 0 THEN "file" ELSE "recv",
                                        client |-> c, new |-> FALSE]
    BY <1>5 DEF Turn
  <2>3. c \in Peers /\ c \in pxClients
    BY <1>1
  <2>4. server' \in tasks /\ server'.step \in {"file", "recv"} /\ server'.client = c
    BY <2>2, <2>3 DEF Steps
  <2> QED
    BY <1>1, <2>1, <2>2, <2>3, <2>4, ServerGoesOn DEF At
<1>6. CASE Receive \/ SendReply \/ SendFile
  <2>1. UNCHANGED <<others, ucTCPState, todo>> /\ server.step \in turns
    BY <1>6 DEF Receive, SendReply, SendFile, others, listener, children, At
  <2>2. \/ server' = server \/ server' = Idle("select")
        \/ server' = [step |-> "file", client |-> server.client, new |-> TRUE]
        \/ \E step \in turns : server' = [server EXCEPT !.step = step]
    BY <1>6 DEF Receive, SendReply, SendFile, Turns, Goes
  <2>3. \/ server' \in tasks /\ server'.step = "select"
        \/ server' \in tasks /\ server'.step \in turns /\ server'.client = server.client
    <3>1. CASE server' = server
      BY <1>1, <2>1, <3>1
    <3>2. CASE server' = Idle("select")
      BY <1>2, <3>2 DEF Steps
    <3>3. CASE server' = [step |-> "file", client |-> server.client, new |-> TRUE]
      BY <1>1, <3>3 DEF Steps
    <3>4. CASE \E step \in turns : server' = [server EXCEPT !.step = step]
      BY <1>3, <3>4
    <3> QED
      BY <2>2, <3>1, <3>2, <3>3, <3>4
  <2> QED
    BY <1>1, <2>1, <2>3, ServerGoesOn DEF At
<1> QED
  BY <1>4, <1>5, <1>6

-----------------------------------------------------------------------------
LEMMA InitIsSafe ==
    ASSUME Init
    PROVE  IInv
<1>1. /\ pxPeerSocket = None /\ usChildCount = 0 /\ ucTCPState = [c \in Peers |-> "none"]
      /\ bPassQueued = {} /\ bPassAccept = {} /\ pxClients = {} /\ todo = {} /\ lost = {}
      /\ xNetworkEventQueue = <<>> /\ server = Idle("select")
  BY DEF Init
<1>2. server.step = "select" /\ server \in [step : Steps, client : Peers \cup {None}, new : BOOLEAN]
  BY <1>1 DEF Idle, Steps
<1>3. Users = {} /\ Children = {}
  BY <1>1, <1>2 DEF Users, Children, Child, At
<1>4. SocketsType
  BY <1>1, <1>2 DEF SocketsType, States
<1>5. HandsInv /\ OrphansInv
  BY <1>1, <1>2, <1>3 DEF HandsInv, OrphansInv, At
<1>6. ClosesOnce(xNetworkEventQueue, Closable)
  <2>1. <<>> \in Seq(Events) /\ DOMAIN <<>> = {}
    OBVIOUS
  <2> QED
    BY <1>1, <2>1 DEF ClosesOnce
<1>7. SlotsAreCounted /\ NobodyIsForgotten
  BY <1>1, <1>3, FS_EmptySet, WebAssumption DEF SlotsAreCounted, NobodyIsForgotten
<1> QED
  BY <1>4, <1>5, <1>6, <1>7 DEF IInv

LEMMA StepIsSafe ==
    ASSUME IInv, [Next]_vars
    PROVE  IInv'
<1>1. ASSUME NEW c \in Peers, HandshakeEnds(c) \/ RequestArrives(c)
      PROVE  IInv'
  <2>1. CASE HandshakeEnds(c)
    BY <2>1, ConnectsSafely DEF HandshakeEnds, task
  <2>2. CASE RequestArrives(c) /\ ucTCPState[c] = "eSYN_RECEIVED"
    BY <2>2, ConnectsSafely DEF RequestArrives, task
  <2>3. CASE RequestArrives(c) /\ ucTCPState[c] # "eSYN_RECEIVED"
    BY <2>3, NothingHappens DEF RequestArrives, children, task, others
  <2> QED
    BY <1>1, <2>1, <2>2, <2>3
<1>2. ASSUME NEW c \in Peers, AckArrives(c) \/ Refused(c) \/ Leaves(c)
      PROVE  IInv'
  BY <1>2, NothingHappens DEF AckArrives, Refused, Leaves, listener, children, task, others
<1>3. ASSUME NEW c \in Peers, FinArrives(c) \/ LastAckArrives(c)
      PROVE  IInv'
  <2>1. c \in Children /\ UNCHANGED <<others, server, todo>>
    BY <1>3 DEF FinArrives, LastAckArrives, Children, Child, others, listener, task
  <2>2. c \in bPassQueued => ucTCPState[c] \in {"eSYN_RECEIVED", "eCLOSE_WAIT", "eCLOSED"}
    BY DEF IInv, OrphansInv
  <2>3. Becomes(c, "eCLOSE_WAIT") \/ (Becomes(c, "eLAST_ACK") /\ c \notin bPassQueued)
    BY <1>3, <2>2 DEF FinArrives, LastAckArrives
  <2> QED
    BY <2>1, <2>3, ChildGoesOn
<1>4. ASSUME NEW c \in Peers, Segment(c) \/ AgeCheck(c) \/ Leaves(c)
      PROVE  IInv'
  BY <1>1, <1>2, <1>3, <1>4, SynArrivesSafely, RstArrivesSafely, AgeCheckIsSafe DEF Segment
<1>5. CASE Server
  BY <1>5, TakesClientSafely, ReceivesNewClientSafely, DeletesSafely, ServesSafely DEF Server
<1>6. CASE UNCHANGED vars
  BY <1>6, NothingHappens DEF vars, listener, children, task, others
<1> QED
  BY <1>4, <1>5, <1>6, TakesEventSafely DEF Next

(***************************************************************************)
(* The invariant, for every number of peers and every backlog.             *)
(***************************************************************************)
THEOREM WebInvariant == Spec => []IInv
<1>1. Init => IInv
  BY InitIsSafe
<1>2. IInv /\ [Next]_vars => IInv'
  BY StepIsSafe
<1> QED
  BY <1>1, <1>2, PTL DEF Spec

(***************************************************************************)
(* Every child is freed once, after its last user, and gives back its      *)
(* place: prvTCPStatusAgeCheck, vTCPStateChange and the server never close *)
(* the same one.                                                           *)
(***************************************************************************)
THEOREM SocketsFreedOnce == Spec => []SocketsAreFreedOnce
<1>1. IInv => SocketsAreFreedOnce
  <2> SUFFICES ASSUME IInv PROVE SocketsAreFreedOnce
    OBVIOUS
  <2>1. Users \subseteq Children /\ (pxPeerSocket # None => pxPeerSocket \in bPassAccept)
    BY DEF IInv, HandsInv
  <2>2. ASSUME NEW i \in Closing
        PROVE  /\ xNetworkEventQueue[i][2] \in Children \ (Users \cup lost)
               /\ \A j \in Closing : xNetworkEventQueue[i] = xNetworkEventQueue[j] => i = j
    BY DEF IInv, ClosesOnce, Closable, Closing
  <2> QED
    BY <2>1, <2>2 DEF IInv, SocketsAreFreedOnce, SocketOutlivesItsUsers
<1> QED
  BY <1>1, WebInvariant, PTL

(***************************************************************************)
(* A connected child that nobody has accepted is offered, or will be: the  *)
(* one pointer of the listener and the question that FreeRTOS_accept asks  *)
(* the IP task are enough for any number of children.                      *)
(***************************************************************************)
THEOREM NobodyForgotten == Spec => []NobodyIsForgotten
<1>1. IInv => NobodyIsForgotten
  BY DEF IInv
<1> QED
  BY <1>1, WebInvariant, PTL

-----------------------------------------------------------------------------
(***************************************************************************)
(* What the streams hold.  A peer that is there waits for all that is on   *)
(* its way to it: what is sent, what is left of the file, the head that    *)
(* comes next and the answer to the request nobody has read.               *)
(***************************************************************************)
Requested(kind) == IF kind = None THEN 0 ELSE IF kind = "file" THEN FileUnits + 1 ELSE 1
Heading(c) == IF At("head") /\ server.client = c THEN 1 ELSE 0
Owed(c) == txStream[c] + uxBytesLeft[c] + Requested(rxStream[c]) + Heading(c)

Served(c) ==
    /\ ~Child(c) => rxStream[c] = None /\ txStream[c] = 0
    /\ c \notin pxClients => uxBytesLeft[c] = 0
    /\ peer[c] = "open" => Owed(c) <= due[c]

StreamsType ==
    /\ rxStream \in [Peers -> {None, "file", "short"}] /\ txStream \in [Peers -> 0 .. TxUnits]
    /\ uxBytesLeft \in [Peers -> 0 .. FileUnits]
    /\ peer \in [Peers -> {"gone", "open", "closing"}]
    /\ due \in [Peers -> 0 .. FileUnits + 1]

StreamInv == StreamsType /\ \A c \in Peers : Served(c)

LEMMA Amounts ==
    ASSUME StreamsType, NEW c \in Peers
    PROVE  /\ FileUnits \in Nat /\ TxUnits \in Nat /\ txStream[c] \in Nat /\ uxBytesLeft[c] \in Nat
           /\ Requested(rxStream[c]) \in Nat /\ Heading(c) \in {0, 1} /\ due[c] \in Nat
           /\ txStream[c] <= TxUnits /\ uxBytesLeft[c] <= FileUnits
BY WebAssumption DEF StreamsType, Requested, Heading

\* A client is a child, and the server is about to reply to clients only.
LEMMA RepliesToClients ==
    ASSUME IInv, NEW c \in Peers
    PROVE  /\ c \in pxClients => Child(c)
           /\ c \notin pxClients => Heading(c) = 0
BY DEF IInv, HandsInv, Users, Children, Heading, At

(***************************************************************************)
(* A step that concerns one child.                                         *)
(***************************************************************************)
LEMMA ForOneChild ==
    ASSUME StreamInv, NEW c \in Peers, StreamsType', Served(c)',
           \A d \in Peers \ {c} :
               /\ rxStream'[d] = rxStream[d] /\ txStream'[d] = txStream[d]
               /\ uxBytesLeft'[d] = uxBytesLeft[d] /\ peer'[d] = peer[d] /\ due'[d] = due[d]
               /\ ucTCPState'[d] = ucTCPState[d] /\ (d \in pxClients' <=> d \in pxClients)
               /\ Heading(d)' <= Heading(d)
    PROVE  StreamInv'
<1>1. ASSUME NEW d \in Peers \ {c}
      PROVE  Served(d)'
  <2>1. Served(d) /\ StreamsType
    BY DEF StreamInv
  <2>2. (~Child(d) => rxStream[d] = None /\ txStream[d] = 0)'
    BY <2>1 DEF Served, Child
  <2>3. (d \notin pxClients => uxBytesLeft[d] = 0)'
    BY <2>1 DEF Served
  <2>4. peer[d] = "open" => Owed(d) <= due[d]
    BY <2>1 DEF Served
  <2>5. Heading(d)' \in {0, 1} /\ Requested(rxStream'[d]) = Requested(rxStream[d])
    BY DEF Heading
  <2>6. Owed(d)' <= Owed(d)
    BY <2>1, <2>5, Amounts DEF Owed, Requested
  <2>7. Owed(d) \in Nat /\ Owed(d)' \in Nat /\ due[d] \in Nat
    BY <2>1, <2>5, Amounts DEF Owed, Requested
  <2> QED
    BY <2>2, <2>3, <2>4, <2>6, <2>7 DEF Served
<1> QED
  BY <1>1 DEF StreamInv

\* Nothing is read, written or served.
LEMMA StreamsStay ==
    ASSUME StreamInv, UNCHANGED <<streams, uxBytesLeft, peers>>, pxClients \subseteq pxClients',
           Children \subseteq Children',
           \A d \in Peers : Heading(d)' <= Heading(d)
    PROVE  StreamInv'
<1>1. StreamsType /\ StreamsType'
  BY DEF StreamInv, StreamsType, streams, peers
<1>2. ASSUME NEW d \in Peers
      PROVE  Served(d)'
  <2>1. Served(d) /\ UNCHANGED <<rxStream, txStream, uxBytesLeft, peer, due>>
    BY DEF StreamInv, streams, peers
  <2>2. Child(d) => Child(d)'
    BY DEF Children
  <2>3. Heading(d)' \in {0, 1} /\ Heading(d)' <= Heading(d)
    BY DEF Heading
  <2>4. Owed(d)' <= Owed(d) /\ Owed(d) \in Nat /\ Owed(d)' \in Nat /\ due[d] \in Nat
    BY <1>1, <2>1, <2>3, Amounts DEF Owed, Requested
  <2> QED
    BY <2>1, <2>2, <2>4 DEF Served
<1> QED
  BY <1>1, <1>2 DEF StreamInv

LEMMA PeerGoesOn ==
    ASSUME StreamInv, NEW c \in Peers, NEW s \in {"gone", "open", "closing"}, PeerBecomes(c, s)
    PROVE  /\ peer' \in [Peers -> {"gone", "open", "closing"}]
           /\ due' \in [Peers -> 0 .. FileUnits + 1]
           /\ peer'[c] = s /\ (s = "open" => due'[c] = due[c])
           /\ \A d \in Peers \ {c} : peer'[d] = peer[d] /\ due'[d] = due[d]
BY WebAssumption DEF StreamInv, StreamsType, PeerBecomes

\* A segment or a timer that leaves the streams alone.
LEMMA PeerStepServes ==
    ASSUME StreamInv, NEW c \in Peers,
           UNCHANGED <<streams, task>>,
           NEW s \in {"gone", "closing"}, PeerBecomes(c, s),
           UNCHANGED ucTCPState \/ (Child(c) /\ \E t \in States \ {"none"} : Becomes(c, t)),
           IInv
    PROVE  StreamInv'
<1>1. StreamsType /\ Served(c) /\ UNCHANGED <<rxStream, txStream, server, pxClients, uxBytesLeft>>
  BY DEF StreamInv, streams, task
<1>2. StreamsType'
  BY <1>1, PeerGoesOn DEF StreamsType
<1>3. \A d \in Peers : (ucTCPState'[d] = "none" <=> ucTCPState[d] = "none")
                       /\ (d # c => ucTCPState'[d] = ucTCPState[d])
  BY DEF IInv, SocketsType, Becomes, Child
<1>4. Served(c)'
  BY <1>1, <1>3, PeerGoesOn DEF Served, Child
<1>5. \A d \in Peers : Heading(d)' <= Heading(d)
  BY <1>1 DEF Heading, At
<1> QED
  BY <1>1, <1>2, <1>3, <1>4, <1>5, PeerGoesOn, ForOneChild

LEMMA SynServes ==
    ASSUME IInv, StreamInv, NEW c \in Peers, SynArrives(c)
    PROVE  StreamInv'
<1>1. CASE usChildCount >= Backlog
  BY <1>1, PeerStepServes DEF SynArrives
<1>2. CASE ~(usChildCount >= Backlog)
  <2>1. /\ Becomes(c, "eSYN_RECEIVED") /\ PeerBecomes(c, "open") /\ ~Child(c)
        /\ UNCHANGED <<rxStream, txStream, server, pxClients, uxBytesLeft>>
    BY <1>2 DEF SynArrives, streams, task
  <2>2. StreamsType /\ Served(c) /\ StreamsType'
    BY <2>1, PeerGoesOn DEF StreamInv, StreamsType
  <2>3. ucTCPState'[c] # "none" /\ \A d \in Peers \ {c} : ucTCPState'[d] = ucTCPState[d]
    BY <2>1 DEF IInv, SocketsType, Becomes
  <2>4. \A d \in Peers : Heading(d)' <= Heading(d)
    BY <2>1 DEF Heading, At
  <2>5. rxStream[c] = None /\ txStream[c] = 0 /\ uxBytesLeft[c] = 0 /\ Heading(c) = 0
    BY <2>1, <2>2, RepliesToClients DEF Served
  <2>6. Owed(c)' = 0 /\ due'[c] = due[c] /\ due[c] \in Nat
    BY <2>1, <2>2, <2>5, PeerGoesOn, Amounts DEF Owed, Requested, Heading, At
  <2>7. Served(c)'
    BY <2>1, <2>2, <2>3, <2>6 DEF Served, Child
  <2> QED
    BY <2>1, <2>2, <2>3, <2>4, <2>7, PeerGoesOn, ForOneChild
<1> QED
  BY <1>1, <1>2

LEMMA RequestServes ==
    ASSUME IInv, StreamInv, NEW c \in Peers, RequestArrives(c)
    PROVE  StreamInv'
<1>1. PICK kind \in {"file", "short"} :
        /\ rxStream' = [rxStream EXCEPT ![c] = kind]
        /\ due' = [due EXCEPT ![c] = IF kind = "file" THEN FileUnits + 1 ELSE 1]
  BY DEF RequestArrives
<1>2. /\ UNCHANGED <<txStream, server, pxClients, uxBytesLeft, peer>>
      /\ peer[c] = "open" /\ due[c] = 0
  BY DEF RequestArrives, task
<1>3. /\ ucTCPState'[c] # "none" /\ \A d \in Peers \ {c} : ucTCPState'[d] = ucTCPState[d]
  BY DEF RequestArrives, Connected, Becomes, children, IInv, SocketsType
<1>4. StreamsType /\ Served(c)
  BY DEF StreamInv
<1>5. StreamsType'
  BY <1>1, <1>2, <1>4, WebAssumption DEF StreamsType
<1>6. rxStream'[c] = kind /\ due'[c] = IF kind = "file" THEN FileUnits + 1 ELSE 1
  BY <1>1, <1>4 DEF StreamsType
<1>7. Owed(c) <= 0
  BY <1>2, <1>4 DEF Served
<1>8. txStream[c] = 0 /\ uxBytesLeft[c] = 0 /\ Heading(c) = 0
  BY <1>4, <1>7, Amounts DEF Owed
<1>9. Owed(c)' <= due'[c]
  <2>1. Requested(rxStream'[c]) <= due'[c] /\ Requested(rxStream'[c]) \in Nat
    BY <1>6, WebAssumption DEF Requested
  <2> QED
    BY <1>2, <1>8, <2>1 DEF Owed, Heading, At
<1>10. Served(c)'
  BY <1>2, <1>3, <1>4, <1>9 DEF Served, Child
<1>11. \A d \in Peers : Heading(d)' <= Heading(d)
  BY <1>2 DEF Heading, At
<1> QED
  BY <1>1, <1>2, <1>3, <1>4, <1>5, <1>10, <1>11, ForOneChild DEF StreamsType

LEMMA AckServes ==
    ASSUME IInv, StreamInv, NEW c \in Peers, AckArrives(c)
    PROVE  StreamInv'
<1>1. PICK n \in 1 .. txStream[c] :
        /\ txStream' = [txStream EXCEPT ![c] = @ - n]
        /\ due' = [due EXCEPT ![c] = IF peer[c] = "open" THEN @ - n ELSE 0]
  BY DEF AckArrives
<1>2. /\ UNCHANGED <<rxStream, server, pxClients, uxBytesLeft, peer, ucTCPState>>
      /\ ucTCPState[c] = "eESTABLISHED"
  BY DEF AckArrives, task, children
<1>3. StreamsType /\ Served(c)
  BY DEF StreamInv
<1>4. /\ n \in Nat /\ n <= txStream[c] /\ txStream[c] \in Nat /\ txStream[c] <= TxUnits
      /\ due[c] \in Nat /\ due[c] <= FileUnits + 1 /\ FileUnits \in Nat /\ TxUnits \in Nat
  BY <1>1, <1>3, Amounts DEF StreamsType
<1>5. peer[c] = "open" => Owed(c) <= due[c] /\ n <= due[c]
  <2>1. txStream[c] <= Owed(c) /\ Owed(c) \in Nat
    BY <1>3, Amounts DEF Owed
  <2> QED
    BY <1>3, <1>4, <2>1 DEF Served
<1>6. /\ txStream' \in [Peers -> 0 .. TxUnits] /\ txStream'[c] = txStream[c] - n
      /\ due' \in [Peers -> 0 .. FileUnits + 1]
      /\ peer[c] = "open" => due'[c] = due[c] - n
      /\ \A d \in Peers \ {c} : txStream'[d] = txStream[d] /\ due'[d] = due[d]
  BY <1>1, <1>3, <1>4, <1>5 DEF StreamsType
<1>7. StreamsType'
  BY <1>2, <1>3, <1>6 DEF StreamsType
<1>8. Owed(c)' = Owed(c) - n /\ Owed(c) \in Nat
  BY <1>2, <1>3, <1>4, <1>6, Amounts DEF Owed, Requested, Heading, At
<1>9. Served(c)'
  BY <1>2, <1>3, <1>4, <1>5, <1>6, <1>8 DEF Served, Child
<1>10. \A d \in Peers : Heading(d)' <= Heading(d)
  BY <1>2 DEF Heading, At
<1> QED
  BY <1>2, <1>6, <1>7, <1>9, <1>10, ForOneChild

\* The end of a child that is nobody's client.
LEMMA CloseServes ==
    ASSUME IInv, StreamInv, NEW c \in Peers \ pxClients, SocketClose(c), UNCHANGED <<task, peers>>
    PROVE  StreamInv'
<1>1. StreamsType /\ Served(c) /\ UNCHANGED <<server, pxClients, uxBytesLeft, peer, due>>
  BY DEF StreamInv, task, peers
<1>2. /\ rxStream'[c] = None /\ txStream'[c] = 0
      /\ \A d \in Peers \ {c} : /\ rxStream'[d] = rxStream[d] /\ txStream'[d] = txStream[d]
                                /\ ucTCPState'[d] = ucTCPState[d]
  BY <1>1 DEF SocketClose, Becomes, StreamsType, IInv, SocketsType
<1>3. StreamsType'
  BY <1>1, WebAssumption DEF StreamsType, SocketClose
<1>4. uxBytesLeft[c] = 0 /\ Heading(c)' = 0 /\ due[c] \in Nat
  BY <1>1, RepliesToClients, Amounts DEF Served, Heading, At
<1>5. Served(c)'
  BY <1>1, <1>2, <1>4 DEF Served, Owed, Requested
<1>6. \A d \in Peers : Heading(d)' <= Heading(d)
  BY <1>1 DEF Heading, At
<1> QED
  BY <1>1, <1>2, <1>3, <1>5, <1>6, ForOneChild

\* The server's task goes on with client c, which it had or takes.
LEMMA Headings ==
    ASSUME NEW c, \/ server' = [server EXCEPT !.step = "head"] /\ server.client = c
                  \/ server'.step # "head"
                  \/ server' = server,
           server \in [step : Steps, client : Peers \cup {None}, new : BOOLEAN]
    PROVE  /\ \A d \in Peers \ {c} : Heading(d)' <= Heading(d)
           /\ Heading(c)' \in {0, 1}
           /\ server'.step # "head" => Heading(c)' = 0
BY DEF Heading, At

LEMMA ReceiveServes ==
    ASSUME IInv, StreamInv, Receive
    PROVE  StreamInv'
<1>1. PICK c \in Peers :
         /\ c = server.client /\ c \in pxClients /\ server.step = "recv"
         /\ server \in [step : Steps, client : Peers \cup {None}, new : BOOLEAN]
  BY DEF Receive, At, IInv, SocketsType, HandsInv
<1>2. /\ UNCHANGED <<txStream, pxClients, peer, due, ucTCPState>>
  BY DEF Receive, peers, children
<1>3. StreamsType /\ Served(c)
  BY <1>1 DEF StreamInv
<1>4. CASE /\ rxStream[c] # None /\ Goes("head")
           /\ rxStream' = [rxStream EXCEPT ![c] = None]
           /\ uxBytesLeft' = [uxBytesLeft EXCEPT ![c] = IF rxStream[c] = "file" THEN FileUnits ELSE 0]
  <2>1. StreamsType'
    BY <1>1, <1>2, <1>3, <1>4, WebAssumption DEF StreamsType
  <2>2. /\ rxStream'[c] = None /\ uxBytesLeft'[c] = IF rxStream[c] = "file" THEN FileUnits ELSE 0
        /\ \A d \in Peers \ {c} : rxStream'[d] = rxStream[d] /\ uxBytesLeft'[d] = uxBytesLeft[d]
    BY <1>1, <1>3, <1>4 DEF StreamsType
  <2>3. Heading(c)' \in {0, 1} /\ \A d \in Peers \ {c} : Heading(d)' <= Heading(d)
    BY <1>1, <1>4, Headings DEF Goes
  <2>4. Requested(rxStream[c]) = uxBytesLeft'[c] + 1 /\ uxBytesLeft'[c] \in Nat
    BY <1>4, <2>2, WebAssumption DEF Requested
  <2>5. Owed(c)' <= Owed(c) /\ Owed(c) \in Nat /\ Owed(c)' \in Nat /\ due[c] \in Nat
    <3>1. Requested(rxStream'[c]) = 0
      BY <2>2 DEF Requested
    <3> QED
      BY <1>1, <1>2, <1>3, <2>3, <2>4, <3>1, Amounts DEF Owed
  <2>6. Served(c)'
    BY <1>1, <1>2, <1>3, <2>2, <2>5 DEF Served, Child
  <2> QED
    BY <1>1, <1>2, <2>1, <2>2, <2>3, <2>6, ForOneChild
<1>5. CASE rxStream' = rxStream /\ uxBytesLeft' = uxBytesLeft /\ (Goes("delete") \/ Turns("select"))
  <2>1. server'.step # "head"
    BY <1>1, <1>5 DEF Goes, Turns, Idle
  <2>2. \A d \in Peers : Heading(d)' <= Heading(d)
    BY <2>1 DEF Heading, At
  <2> QED
    BY <1>2, <1>5, <2>2, StreamsStay DEF streams, peers, Children, Child
<1> QED
  BY <1>1, <1>4, <1>5 DEF Receive

LEMMA SendTypes ==
    ASSUME IInv, StreamInv, NEW c \in Peers, Send(c)
    PROVE  /\ txStream' \in [Peers -> 0 .. TxUnits]
           /\ txStream'[c] \in {txStream[c], txStream[c] + 1}
           /\ txStream'[c] # txStream[c] => Child(c)
           /\ \A d \in Peers \ {c} : txStream'[d] = txStream[d]
<1>1. StreamsType /\ txStream[c] \in Nat /\ TxUnits \in Nat
  BY Amounts DEF StreamInv
<1>2. CASE ucTCPState[c] = "eESTABLISHED" /\ ~Full(c)
  BY <1>1, <1>2 DEF Send, Full, Child, StreamsType
<1>3. CASE ~(ucTCPState[c] = "eESTABLISHED" /\ ~Full(c))
  BY <1>1, <1>3 DEF Send, StreamsType
<1> QED
  BY <1>2, <1>3

LEMMA ReplyServes ==
    ASSUME IInv, StreamInv, SendReply
    PROVE  StreamInv'
<1>1. PICK c \in Peers :
         /\ c = server.client /\ c \in pxClients /\ server.step = "head"
         /\ server \in [step : Steps, client : Peers \cup {None}, new : BOOLEAN]
  BY DEF SendReply, At, IInv, SocketsType, HandsInv
<1>2. UNCHANGED <<rxStream, pxClients, uxBytesLeft, peer, due, ucTCPState>> /\ Send(c)
  BY <1>1 DEF SendReply, peers, children
<1>3. StreamsType /\ Served(c) /\ Child(c)
  BY <1>1, RepliesToClients DEF StreamInv
<1>4. /\ txStream' \in [Peers -> 0 .. TxUnits]
      /\ txStream'[c] \in {txStream[c], txStream[c] + 1}
      /\ \A d \in Peers \ {c} : txStream'[d] = txStream[d]
  BY <1>1, <1>2, SendTypes
<1>5. server'.step # "head"
  BY <1>1 DEF SendReply, Goes, Turns, Idle
<1>6. \A d \in Peers : Heading(d)' <= Heading(d) /\ Heading(d)' = 0
  BY <1>5 DEF Heading, At
<1>7. StreamsType'
  BY <1>2, <1>3, <1>4 DEF StreamsType
<1>8. Heading(c) = 1
  BY <1>1 DEF Heading, At
<1>9. Owed(c)' <= Owed(c) /\ Owed(c) \in Nat /\ Owed(c)' \in Nat /\ due[c] \in Nat
  BY <1>1, <1>2, <1>3, <1>4, <1>6, <1>8, Amounts DEF Owed, Requested
<1>10. Served(c)'
  BY <1>1, <1>2, <1>3, <1>9 DEF Served, Child
<1> QED
  BY <1>1, <1>2, <1>4, <1>6, <1>7, <1>10, ForOneChild

LEMMA FileServes ==
    ASSUME IInv, StreamInv, SendFile
    PROVE  StreamInv'
<1>1. PICK c \in Peers :
         /\ c = server.client /\ c \in pxClients /\ server.step = "file"
         /\ server \in [step : Steps, client : Peers \cup {None}, new : BOOLEAN]
  BY DEF SendFile, At, IInv, SocketsType, HandsInv
<1>2. UNCHANGED <<rxStream, pxClients, peer, due, ucTCPState>>
  BY DEF SendFile, peers, children
<1>3. StreamsType /\ Served(c) /\ Child(c)
  BY <1>1, RepliesToClients DEF StreamInv
<1>4. server'.step # "head"
  BY <1>1 DEF SendFile, Goes, Turns, Idle
<1>5. \A d \in Peers : Heading(d)' <= Heading(d) /\ Heading(d)' = 0
  BY <1>4 DEF Heading, At
<1>6. CASE UNCHANGED <<txStream, uxBytesLeft>>
  BY <1>2, <1>5, <1>6, StreamsStay DEF streams, peers, Children, Child
<1>7. CASE /\ ~(uxBytesLeft[c] = 0) /\ Send(c)
           /\ uxBytesLeft' = [uxBytesLeft EXCEPT ![c] = @ - 1]
  <2>1. /\ txStream' \in [Peers -> 0 .. TxUnits]
        /\ txStream'[c] \in {txStream[c], txStream[c] + 1}
        /\ \A d \in Peers \ {c} : txStream'[d] = txStream[d]
    BY <1>1, <1>7, SendTypes
  <2>2. /\ uxBytesLeft' \in [Peers -> 0 .. FileUnits] /\ uxBytesLeft'[c] = uxBytesLeft[c] - 1
        /\ uxBytesLeft[c] \in Nat \ {0}
        /\ \A d \in Peers \ {c} : uxBytesLeft'[d] = uxBytesLeft[d]
    BY <1>1, <1>3, <1>7, Amounts DEF StreamsType
  <2>3. StreamsType'
    BY <1>2, <1>3, <2>1, <2>2 DEF StreamsType
  <2>4. Owed(c)' <= Owed(c) /\ Owed(c) \in Nat /\ Owed(c)' \in Nat /\ due[c] \in Nat
    BY <1>1, <1>2, <1>3, <1>5, <2>1, <2>2, Amounts DEF Owed, Requested
  <2>5. Served(c)'
    BY <1>1, <1>2, <1>3, <2>4 DEF Served, Child
  <2> QED
    BY <1>1, <1>2, <1>5, <2>1, <2>2, <2>3, <2>5, ForOneChild
<1> QED
  BY <1>1, <1>6, <1>7 DEF SendFile

LEMMA DeleteServes ==
    ASSUME IInv, StreamInv, Delete
    PROVE  StreamInv'
<1>1. PICK c \in Peers : c = server.client /\ c \in pxClients /\ Child(c)
  BY RepliesToClients DEF Delete, At, IInv, SocketsType, HandsInv
<1>2. /\ UNCHANGED <<rxStream, txStream, peer, due, ucTCPState>>
      /\ pxClients' = pxClients \ {c} /\ uxBytesLeft' = [uxBytesLeft EXCEPT ![c] = 0]
      /\ server'.step # "head"
  BY <1>1 DEF Delete, peers, children, streams, Turns, Idle
<1>3. StreamsType /\ Served(c)
  BY <1>1 DEF StreamInv
<1>4. \A d \in Peers : Heading(d)' <= Heading(d) /\ Heading(d)' = 0
  BY <1>2 DEF Heading, At
<1>5. uxBytesLeft'[c] = 0 /\ \A d \in Peers \ {c} : uxBytesLeft'[d] = uxBytesLeft[d]
  BY <1>1, <1>2, <1>3 DEF StreamsType
<1>6. StreamsType'
  BY <1>2, <1>3, WebAssumption DEF StreamsType
<1>7. Owed(c)' <= Owed(c) /\ Owed(c) \in Nat /\ Owed(c)' \in Nat /\ due[c] \in Nat
  BY <1>1, <1>2, <1>3, <1>4, <1>5, Amounts DEF Owed, Requested
<1>8. Served(c)'
  BY <1>1, <1>2, <1>3, <1>5, <1>7 DEF Served, Child
<1> QED
  BY <1>1, <1>2, <1>4, <1>5, <1>6, <1>8, ForOneChild

LEMMA EventServes ==
    ASSUME IInv, StreamInv, TakeEvent
    PROVE  StreamInv'
<1> DEFINE e == Head(xNetworkEventQueue)
<1>1. UNCHANGED <<task, peers>>
  BY DEF TakeEvent
<1>2. CASE e = Accept /\ UNCHANGED <<ucTCPState, streams>>
  <2>1. \A d \in Peers : Heading(d)' <= Heading(d)
    BY <1>1 DEF task, Heading, At
  <2> QED
    BY <1>1, <1>2, <2>1, StreamsStay DEF task, Children, Child
<1>3. CASE e # Accept /\ SocketClose(e[2])
  <2>1. ClosesOnce(xNetworkEventQueue, Closable) /\ xNetworkEventQueue # <<>>
    BY DEF IInv, TakeEvent
  <2>2. e[2] \in Closable
    BY <1>3, <2>1, TakingIsSafe
  <2>3. e[2] \in Peers \ pxClients
    BY <2>2 DEF Closable, Children, Users
  <2> QED
    BY <1>1, <1>3, <2>3, CloseServes
<1> QED
  BY <1>2, <1>3 DEF TakeEvent

LEMMA AgeServes ==
    ASSUME IInv, StreamInv, NEW c \in Peers, AgeCheck(c)
    PROVE  StreamInv'
<1>1. CASE c \in bPassQueued /\ SocketClose(c)
  <2>1. c \in Peers \ pxClients
    BY <1>1 DEF IInv, HandsInv, Users
  <2> QED
    BY <1>1, <2>1, CloseServes DEF AgeCheck
<1>2. CASE Becomes(c, "eCLOSE_WAIT") /\ UNCHANGED streams
  <2>1. Children \subseteq Children' /\ UNCHANGED <<task, peers>>
    BY <1>2 DEF AgeCheck, Becomes, Children, Child, IInv, SocketsType
  <2>2. \A d \in Peers : Heading(d)' <= Heading(d)
    BY <2>1 DEF task, Heading, At
  <2> QED
    BY <1>2, <2>1, <2>2, StreamsStay DEF task
<1> QED
  BY <1>1, <1>2 DEF AgeCheck

LEMMA SegmentServes ==
    ASSUME IInv, StreamInv, NEW c \in Peers, Segment(c) \/ AgeCheck(c) \/ Leaves(c)
    PROVE  StreamInv'
<1>1. CASE HandshakeEnds(c) \/ (FinArrives(c) /\ UNCHANGED peers)
  <2>1. UNCHANGED <<task, streams, peers>>
    BY <1>1 DEF HandshakeEnds, FinArrives
  <2>2. Children \subseteq Children'
    BY <1>1 DEF HandshakeEnds, FinArrives, Connected, Becomes, Children, Child, IInv, SocketsType
  <2>3. \A d \in Peers : Heading(d)' <= Heading(d)
    BY <2>1 DEF task, Heading, At
  <2> QED
    BY <2>1, <2>2, <2>3, StreamsStay DEF task
<1>2. CASE (FinArrives(c) /\ ~UNCHANGED peers) \/ LastAckArrives(c) \/ RstArrives(c)
  <2>1. UNCHANGED <<streams, task>> /\ PeerBecomes(c, "gone") /\ Child(c)
    BY <1>2 DEF FinArrives, LastAckArrives, RstArrives, Active, Child
  <2>2. Becomes(c, "eCLOSE_WAIT") \/ Becomes(c, "eCLOSED")
    BY <1>2 DEF FinArrives, LastAckArrives, RstArrives
  <2> QED
    BY <2>1, <2>2, PeerStepServes DEF States
<1>3. CASE Refused(c) \/ Leaves(c)
  <2>1. UNCHANGED <<streams, task, ucTCPState>>
    BY <1>3 DEF Refused, Leaves, children
  <2>2. PeerBecomes(c, "gone") \/ PeerBecomes(c, "closing")
    BY <1>3 DEF Refused, Leaves
  <2> QED
    BY <2>1, <2>2, PeerStepServes
<1> QED
  BY <1>1, <1>2, <1>3, SynServes, RequestServes, AckServes, AgeServes DEF Segment

LEMMA ServerServes ==
    ASSUME IInv, StreamInv, Select \/ TakeClient \/ ReceiveNewClient \/ Turn
    PROVE  StreamInv'
<1>1. UNCHANGED <<streams, uxBytesLeft, peers, ucTCPState>> /\ pxClients \subseteq pxClients'
  BY DEF Select, TakeClient, ReceiveNewClient, Turn, children
<1>2. server.step # "head" /\ server'.step # "head"
  BY DEF Select, TakeClient, ReceiveNewClient, Turn, At, Turns, Idle
<1>3. \A d \in Peers : Heading(d)' <= Heading(d)
  BY <1>2 DEF Heading, At
<1> QED
  BY <1>1, <1>3, StreamsStay DEF Children, Child

LEMMA StepServes ==
    ASSUME IInv, StreamInv, [Next]_vars
    PROVE  StreamInv'
<1>1. CASE UNCHANGED vars
  <2>1. \A d \in Peers : Heading(d)' <= Heading(d)
    BY <1>1 DEF vars, task, Heading, At
  <2> QED
    BY <1>1, <2>1, StreamsStay DEF vars, task, children, Children, Child
<1>2. CASE Server
  BY <1>2, ServerServes, ReceiveServes, ReplyServes, FileServes, DeleteServes DEF Server
<1> QED
  BY <1>1, <1>2, SegmentServes, EventServes DEF Next

LEMMA InitServes ==
    ASSUME Init
    PROVE  StreamInv
<1>1. StreamsType
  BY WebAssumption DEF Init, StreamsType
<1>2. ASSUME NEW c \in Peers
      PROVE  Served(c)
  BY DEF Init, Served, Child
<1> QED
  BY <1>1, <1>2 DEF StreamInv

\* Nothing is under way to a peer that it does not wait for.
NeverTooMuch == \A c \in Peers : peer[c] = "open" => Owed(c) <= due[c]

(***************************************************************************)
(* No peer is sent more than it waits for: its requests and the units that *)
(* are left of their files stay together, whichever turn of the server     *)
(* ends in the middle of a file (prvSendFile) and whichever connection of  *)
(* the same name came before.                                              *)
(***************************************************************************)
THEOREM SentAsRequested == Spec => []NeverTooMuch
<1>1. Init => IInv /\ StreamInv
  BY InitIsSafe, InitServes
<1>2. IInv /\ StreamInv /\ [Next]_vars => (IInv /\ StreamInv)'
  BY StepIsSafe, StepServes
<1>3. StreamInv => NeverTooMuch
  BY DEF StreamInv, Served, NeverTooMuch
<1> QED
  BY <1>1, <1>2, <1>3, PTL DEF Spec

(***************************************************************************)
(* The types of the listener, its children, the server and the peers; that *)
(* a peer's count of what it waits for never falls below zero is the       *)
(* property above.                                                         *)
(***************************************************************************)
THEOREM WebTypeCorrect == Spec => []TypeOK
<1>1. Init => IInv /\ StreamInv
  BY InitIsSafe, InitServes
<1>2. IInv /\ StreamInv /\ [Next]_vars => (IInv /\ StreamInv)'
  BY StepIsSafe, StepServes
<1>3. IInv /\ StreamInv => TypeOK
  BY DEF IInv, StreamInv, StreamsType, SocketsType, ClosesOnce, Events, States, Steps, TypeOK
<1> QED
  BY <1>1, <1>2, <1>3, PTL DEF Spec
=============================================================================
