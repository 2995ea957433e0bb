----------------------------- MODULE BufferPool -----------------------------
(***************************************************************************)
(* What the network buffer pool promises to its clients: a buffer is free, *)
(* or it belongs to one holder, who got it from the pool or from another   *)
(* holder and alone may give it back.                                      *)
(***************************************************************************)
CONSTANTS Holder, Buffer

VARIABLES free, held

poolVars == <<free, held>>

Init ==
  /\ free = Buffer
  /\ held = [h \in Holder |-> {}]

Get(h, b) ==
  /\ b \in free
  /\ free' = free \ {b}
  /\ held' = [held EXCEPT ![h] = @ \union {b}]

Release(h, b) ==
  /\ b \in held[h]
  /\ free' = free \union {b}
  /\ held' = [held EXCEPT ![h] = @ \ {b}]

HandOver(g, h, b) ==
  /\ g # h
  /\ b \in held[g]
  /\ held' = [held EXCEPT ![g] = @ \ {b}, ![h] = @ \union {b}]
  /\ UNCHANGED free

Next ==
  \E h \in Holder, b \in Buffer :
    \/ Get(h, b)
    \/ Release(h, b)
    \/ \E g \in Holder : HandOver(g, h, b)

Spec == Init /\ [][Next]_poolVars
-----------------------------------------------------------------------------
(***************************************************************************)
(* No buffer is free and held, held twice, or lost.                        *)
(***************************************************************************)
Partition ==
  /\ \A h \in Holder : held[h] \intersect free = {}
  /\ \A g, h \in Holder : g # h => held[g] \intersect held[h] = {}
  /\ free \union UNION {held[h] : h \in Holder} = Buffer
=============================================================================
