--------------------------- MODULE LpcEmac_proofs ---------------------------
(***************************************************************************)
(* Theorems about the Ethernet driver, for any number of descriptors and   *)
(* any bounds on the frames received and the changes of the link.          *)
(***************************************************************************)
EXTENDS LpcEmac, TLAPS

\* How far the descriptor i is from k, and the descriptor j ahead of k.
Distance(k, i) == IF k <= i THEN i - k ELSE i - k + TxDescriptors
Ahead(k, j) == IF k + j < TxDescriptors THEN k + j ELSE k + j - TxDescriptors

\* The callers that have counted a descriptor down and not filled it yet.
Claims(c) == IF pc[c] \in {"check", "asserted", "lock", "produce"} THEN 1 ELSE 0

(***************************************************************************)
(* The ring, from the cleanup index on: s descriptors that were sent, q    *)
(* that are queued, and the empty ones; the semaphore counts those that    *)
(* are neither filled nor claimed.                                         *)
(***************************************************************************)
Ring(s, q) ==
  /\ s \in Nat /\ q \in Nat /\ s + q <= TxDescriptors
  /\ ulTxConsumeIndex = Ahead(ulTxCleanupIndex, s)
  /\ ulTxProduceIndex = Ahead(ulTxCleanupIndex, s + q)
  /\ \A i \in Index :
       slot[i] = IF Distance(ulTxCleanupIndex, i) < s THEN "sent"
                 ELSE IF Distance(ulTxCleanupIndex, i) < s + q THEN "queued"
                 ELSE "empty"
  /\ xTXDescriptorSemaphore + Claims(ip) + Claims(spi) + s + q = TxDescriptors

\* What the EMAC task will still clean up, or will be woken for.
ToClean == Distance(ulTxCleanupIndex, ulConsumeIndex)
Announced(bit) == bit \in status \union notified

(***************************************************************************)
(* The EMAC task cleans up no more than was sent; and what was sent is     *)
(* announced or in its hands, but for a ring that was sent as a whole.     *)
(***************************************************************************)
CleanupInv(s) ==
  /\ emac = "clean" => ToClean <= s
  /\ s > 0 /\ ~Announced("TXDONE") =>
       \/ emac = "cleanup"
       \/ emac = "receive" /\ "TXDONE" \in value
       \/ emac = "clean" /\ ToClean = s
       \/ s = TxDescriptors /\ (emac = "clean" => ToClean = 0)

RingInv == \E s, q \in Nat : Ring(s, q) /\ CleanupInv(s)

\* Nothing the handler clears has not been announced; and so for the frames.
IrqInv == /\ irq \subseteq notified
          /\ unread > 0 => Announced("RXDONE") \/ emac = "receive"

IInv == TypeOK /\ RingInv /\ IrqInv
-----------------------------------------------------------------------------
(* Going around the ring. *)

LEMMA Indices ==
  /\ TxDescriptors \in Nat /\ TxDescriptors > 1
  /\ \A i : i \in Index <=> i \in Nat /\ i < TxDescriptors
BY EmacAssumption DEF Index

LEMMA NextIndex ==
  ASSUME NEW i \in Index
  PROVE  Following(i) = IF i = TxDescriptors - 1 THEN 0 ELSE i + 1
<1>1. TxDescriptors \in Nat /\ TxDescriptors > 1 /\ i \in Nat /\ i < TxDescriptors
  BY Indices
<1> QED
  BY <1>1 DEF Following

LEMMA Modulo ==
  ASSUME NEW i \in Index, NEW k \in Index
  PROVE  (i - k) % TxDescriptors = Distance(k, i)
<1>1. TxDescriptors \in Nat /\ TxDescriptors > 1 /\ i \in Nat /\ i < TxDescriptors
      /\ k \in Nat /\ k < TxDescriptors
  BY Indices
<1> QED
  BY <1>1 DEF Distance

LEMMA Around ==
  ASSUME NEW k \in Index
  PROVE  /\ \A i \in Index : Distance(k, i) \in Nat /\ Distance(k, i) < TxDescriptors
                             /\ (Distance(k, i) = 0 <=> i = k)
         /\ \A i, j \in Index : Distance(k, i) = Distance(k, j) => i = j
         /\ \A j \in Nat : j <= TxDescriptors =>
              /\ Ahead(k, j) \in Index
              /\ Distance(k, Ahead(k, j)) = IF j = TxDescriptors THEN 0 ELSE j
              /\ j < TxDescriptors => Following(Ahead(k, j)) = Ahead(k, j + 1)
         /\ Ahead(k, 0) = k /\ Ahead(k, TxDescriptors) = k
<1>1. k \in Nat /\ k < TxDescriptors
  BY Indices
<1>2. \A i \in Index : Distance(k, i) \in Nat /\ Distance(k, i) < TxDescriptors
                       /\ (Distance(k, i) = 0 <=> i = k)
  BY <1>1, Indices DEF Distance
<1>3. \A i, j \in Index : Distance(k, i) = Distance(k, j) => i = j
  BY <1>1, Indices DEF Distance
<1>4. ASSUME NEW j \in Nat, j <= TxDescriptors
      PROVE  /\ Ahead(k, j) \in Index
             /\ Distance(k, Ahead(k, j)) = IF j = TxDescriptors THEN 0 ELSE j
             /\ j < TxDescriptors => Following(Ahead(k, j)) = Ahead(k, j + 1)
  <2>1. Ahead(k, j) \in Index
    BY <1>1, <1>4, Indices DEF Ahead
  <2>2. Distance(k, Ahead(k, j)) = IF j = TxDescriptors THEN 0 ELSE j
    BY <1>1, <1>4, Indices DEF Ahead, Distance
  <2>3. j < TxDescriptors => Following(Ahead(k, j)) = Ahead(k, j + 1)
    <3>1. Following(Ahead(k, j)) = IF Ahead(k, j) = TxDescriptors - 1 THEN 0 ELSE Ahead(k, j) + 1
      BY <2>1, NextIndex
    <3> QED
      BY <1>1, <1>4, <3>1, Indices DEF Ahead
  <2> QED
    BY <2>1, <2>2, <2>3
<1>5. Ahead(k, 0) = k /\ Ahead(k, TxDescriptors) = k
  BY <1>1, Indices DEF Ahead
<1> QED
  BY <1>2, <1>3, <1>4, <1>5

\* The cleanup index moves on: everything is one nearer, and its place the last.
LEMMA Nearer ==
  ASSUME NEW k \in Index
  PROVE  /\ Following(k) \in Index
         /\ \A i \in Index : Distance(Following(k), i) =
              IF i = k THEN TxDescriptors - 1 ELSE Distance(k, i) - 1
         /\ \A j \in Nat : j >= 1 /\ j <= TxDescriptors => Ahead(Following(k), j - 1) = Ahead(k, j)
<1>1. k \in Nat /\ k < TxDescriptors
  BY Indices
<1>2. Following(k) = IF k = TxDescriptors - 1 THEN 0 ELSE k + 1
  BY NextIndex
<1>3. Following(k) \in Index
  BY <1>1, <1>2, Indices
<1>4. \A i \in Index : Distance(Following(k), i) =
        IF i = k THEN TxDescriptors - 1 ELSE Distance(k, i) - 1
  BY <1>1, <1>2, Indices DEF Distance
<1>5. \A j \in Nat : j >= 1 /\ j <= TxDescriptors => Ahead(Following(k), j - 1) = Ahead(k, j)
  BY <1>1, <1>2, Indices DEF Ahead
<1> QED
  BY <1>3, <1>4, <1>5
-----------------------------------------------------------------------------
(* What most steps leave alone. *)

LEMMA RingStays ==
  ASSUME NEW s \in Nat, NEW q \in Nat, Ring(s, q),
         UNCHANGED <<ring, xTXDescriptorSemaphore>>,
         Claims(ip)' + Claims(spi)' = Claims(ip) + Claims(spi), TypeOK
  PROVE  Ring(s, q)'
<1>1. \A c \in Caller : Claims(c) \in Nat /\ Claims(c)' \in Nat
  BY DEF Claims
<1>2. ip \in Caller /\ spi \in Caller /\ xTXDescriptorSemaphore \in Nat
  BY DEF Caller, TypeOK
<1>3. (xTXDescriptorSemaphore + Claims(ip) + Claims(spi) + s + q = TxDescriptors)'
  <2>1. xTXDescriptorSemaphore + (Claims(ip) + Claims(spi)) + s + q = TxDescriptors
    BY <1>1, <1>2 DEF Ring
  <2>2. xTXDescriptorSemaphore' + (Claims(ip)' + Claims(spi)') + s + q = TxDescriptors
    BY <2>1
  <2> QED
    BY <1>1, <1>2, <2>2
<1> QED
  BY <1>3 DEF Ring, ring

LEMMA CleanupStays ==
  ASSUME NEW s \in Nat, CleanupInv(s),
         UNCHANGED <<ulTxCleanupIndex, emacTask>>,
         Announced("TXDONE") => Announced("TXDONE")'
  PROVE  CleanupInv(s)'
BY DEF CleanupInv, ToClean, emacTask

LEMMA ClaimsMove ==
  ASSUME TypeOK, NEW c \in Caller, NEW p, Goto(c, p)
  PROVE  /\ Claims(ip)' + Claims(spi)' =
              Claims(ip) + Claims(spi) - Claims(c)
                + (IF p \in {"check", "asserted", "lock", "produce"} THEN 1 ELSE 0)
         /\ \A d \in Caller : Claims(d) \in {0, 1}
         /\ Claims(c) <= Claims(ip) + Claims(spi)
<1>1. \A d \in Caller : pc'[d] = IF d = c THEN p ELSE pc[d]
  BY DEF Goto, TypeOK
<1>2. ip \in Caller /\ spi \in Caller /\ ip # spi /\ (c = ip \/ c = spi)
  BY EmacAssumption DEF Caller
<1> QED
  BY <1>1, <1>2 DEF Claims

\* A caller that goes on and changes nothing but the locks, and counts the same.
LEMMA CallerKeeps ==
  ASSUME IInv, NEW c \in Caller, NEW p, Goto(c, p),
         p \in {"idle", "take", "check", "asserted", "lock", "produce", "unlock", "done",
                "initialise"},
         Claims(c) = IF p \in {"check", "asserted", "lock", "produce"} THEN 1 ELSE 0,
         cpu' \in {"nobody", "spi", "emac"},
         xTXMutex' \in Caller \union {"none"},
         UNCHANGED <<ring, xTXDescriptorSemaphore, emacTask, irqVars, rx>>,
         {enabled, link, physts, connected, downEvent, bInterfaceUp}' \subseteq BOOLEAN,
         UNCHANGED flaps
  PROVE  IInv'
<1>1. PICK s, q \in Nat : Ring(s, q) /\ CleanupInv(s)
  BY DEF IInv, RingInv
<1>2. pc' \in [Caller -> {"idle", "take", "check", "asserted", "lock", "produce",
                          "unlock", "done", "initialise"}]
  BY DEF Goto, IInv, TypeOK
<1>3. TypeOK'
  BY <1>2 DEF IInv, TypeOK, ring, emacTask, irqVars, rx
<1>4. Claims(ip)' + Claims(spi)' = Claims(ip) + Claims(spi)
  <2>1. Claims(ip) \in Nat /\ Claims(spi) \in Nat /\ Claims(c) \in Nat
    BY DEF Claims
  <2> QED
    BY <2>1, ClaimsMove DEF IInv
<1>5. Ring(s, q)' /\ CleanupInv(s)'
  BY <1>1, <1>4, RingStays, CleanupStays DEF IInv, ring, Announced, irqVars
<1>6. IrqInv'
  BY DEF IInv, IrqInv, Announced, irqVars, rx, emacTask
<1> QED
  BY <1>3, <1>5, <1>6 DEF IInv, RingInv

\* The semaphore and the claims change by the same.
LEMMA SemaphoreMoves ==
  ASSUME NEW s \in Nat, NEW q \in Nat, Ring(s, q), TypeOK, UNCHANGED ring,
         xTXDescriptorSemaphore' \in Int,
         (Claims(ip)' + Claims(spi)') + xTXDescriptorSemaphore'
           = (Claims(ip) + Claims(spi)) + xTXDescriptorSemaphore
  PROVE  Ring(s, q)'
<1>1. /\ Claims(ip) \in Nat /\ Claims(spi) \in Nat /\ xTXDescriptorSemaphore \in Nat
      /\ Claims(ip)' \in Nat /\ Claims(spi)' \in Nat
  BY DEF Claims, TypeOK
<1>2. xTXDescriptorSemaphore + Claims(ip) + Claims(spi) + s + q = TxDescriptors
  BY DEF Ring
<1>3. xTXDescriptorSemaphore' + Claims(ip)' + Claims(spi)' + s + q = TxDescriptors
  BY <1>1, <1>2
<1> QED
  BY <1>3 DEF Ring, ring

\* A caller that is about to fill a descriptor has one that is left.
LEMMA ClaimedIsFree ==
  ASSUME TypeOK, NEW s \in Nat, NEW q \in Nat, Ring(s, q), NEW c \in Caller, pc[c] = "produce"
  PROVE  /\ s + q + 1 <= TxDescriptors
         /\ Goto(c, "unlock") => Claims(ip)' + Claims(spi)' + 1 = Claims(ip) + Claims(spi)
<1>1. Claims(ip) \in Nat /\ Claims(spi) \in Nat /\ xTXDescriptorSemaphore \in Nat
  BY DEF Claims, TypeOK
<1>2. Claims(c) = 1
  BY DEF Claims
<1>3. c = ip \/ c = spi
  BY DEF Caller
<1>4. xTXDescriptorSemaphore + Claims(ip) + Claims(spi) + s + q = TxDescriptors
  BY DEF Ring
<1>5. s + q + 1 <= TxDescriptors
  BY <1>1, <1>2, <1>3, <1>4, Indices
<1>6. Goto(c, "unlock") => Claims(ip)' + Claims(spi)' + 1 = Claims(ip) + Claims(spi)
  <2>1. Goto(c, "unlock") =>
          Claims(ip)' + Claims(spi)' = Claims(ip) + Claims(spi) - Claims(c) + 0
    BY ClaimsMove
  <2> QED
    BY <1>1, <1>2, <2>1
<1> QED
  BY <1>5, <1>6

\* A ring that is full, and either all sent or all queued, is lapped.
LEMMA WholeRing ==
  ASSUME TypeOK, NEW s \in Nat, NEW q \in Nat, Ring(s, q), s = 0 \/ s = TxDescriptors,
         s + q = TxDescriptors \/ s = TxDescriptors
  PROVE  Lapped
<1> DEFINE K == ulTxCleanupIndex
<1>1. K \in Index
  BY DEF TypeOK
<1>2. s + q = TxDescriptors /\ ulTxConsumeIndex = Ahead(K, s) /\ ulTxProduceIndex = Ahead(K, s + q)
  BY Indices DEF Ring
<1>3. ulTxConsumeIndex = K /\ ulTxProduceIndex = K
  BY <1>1, <1>2, Around
<1>4. slot[K] # "empty"
  <2>1. Distance(K, K) = 0
    BY <1>1, Around
  <2>2. slot[K] = IF Distance(K, K) < s THEN "sent"
                  ELSE IF Distance(K, K) < s + q THEN "queued" ELSE "empty"
    BY <1>1 DEF Ring
  <2>3. 0 < s + q
    BY <1>2, Indices
  <2> QED
    BY <2>1, <2>2, <2>3
<1> QED
  BY <1>3, <1>4 DEF Lapped
-----------------------------------------------------------------------------
LEMMA InitEstablishes == Init => IInv
<1> SUFFICES ASSUME Init PROVE IInv
  OBVIOUS
<1>2. 0 \in Index
  BY Indices
<1>1. TypeOK
  <2>1. /\ InitialCount \in 0 .. TxDescriptors
        /\ 0 \in 0 .. RxDescriptors - 1 /\ 0 \in 0 .. MaxReceived /\ 0 \in 0 .. MaxFlaps
    BY EmacAssumption DEF InitialCount
  <2>2. {enabled, link, physts, connected, downEvent, bInterfaceUp} \subseteq BOOLEAN
    BY DEF Init
  <2>3. slot \in [Index -> {"empty", "queued", "sent"}]
    BY DEF Init
  <2> QED
    BY <1>2, <2>1, <2>2, <2>3 DEF Init, TypeOK
<1>3. Ring(0, 0)
  <2>1. Claims(ip) = 0 /\ Claims(spi) = 0
    BY DEF Init, Claims, Caller
  <2>2. Ahead(0, 0) = 0 /\ \A i \in Index : Distance(0, i) \in Nat
    BY <1>2, Around
  <2> QED
    BY <1>2, <2>1, <2>2, Indices DEF Init, Ring, InitialCount
<1>4. CleanupInv(0)
  BY DEF Init, CleanupInv
<1>5. IrqInv
  BY DEF Init, IrqInv
<1> QED
  BY <1>1, <1>3, <1>4, <1>5 DEF IInv, RingInv

\* The hardware has sent a frame.
LEMMA TxSentKeeps == ASSUME IInv, TxSent PROVE IInv'
<1>1. PICK s, q \in Nat : Ring(s, q) /\ CleanupInv(s)
  BY DEF IInv, RingInv
<1> DEFINE K == ulTxCleanupIndex
<1>2. /\ K \in Index /\ ulTxConsumeIndex \in Index
      /\ slot \in [Index -> {"empty", "queued", "sent"}]
      /\ ulTxConsumeIndex # ulTxProduceIndex
      /\ slot' = [slot EXCEPT ![ulTxConsumeIndex] = "sent"]
      /\ ulTxConsumeIndex' = Following(ulTxConsumeIndex)
      /\ status' = status \union {"TXDONE"}
      /\ UNCHANGED <<ulTxProduceIndex, ulTxCleanupIndex, locks, pc, cpu, emacTask,
                     irq, notified, rx, enabled, phy>>
  BY DEF IInv, TypeOK, TxSent
<1>3. /\ s + q <= TxDescriptors /\ ulTxConsumeIndex = Ahead(K, s)
      /\ ulTxProduceIndex = Ahead(K, s + q)
  BY <1>1 DEF Ring
<1>4. q > 0 /\ s < TxDescriptors
  <2>1. q # 0
    BY <1>2, <1>3
  <2> QED
    BY <1>3, <2>1, Indices
<1>5. /\ ulTxConsumeIndex' = Ahead(K, s + 1) /\ Distance(K, ulTxConsumeIndex) = s
      /\ ulTxConsumeIndex' \in Index
  <2>1. s \in Nat /\ s <= TxDescriptors /\ s # TxDescriptors /\ s + 1 \in Nat
        /\ s + 1 <= TxDescriptors
    BY <1>4, Indices
  <2> QED
    BY <1>2, <1>3, <1>4, <2>1, Around
<1>6. (s + 1) + (q - 1) = s + q /\ s + 1 \in Nat /\ q - 1 \in Nat
  BY <1>4
<1>7. Ring(s + 1, q - 1)'
  <2>1. \A i \in Index : slot'[i] = IF Distance(K, i) < s + 1 THEN "sent"
                                    ELSE IF Distance(K, i) < s + q THEN "queued" ELSE "empty"
    <3>1. TAKE i \in Index
    <3>2. slot[i] = IF Distance(K, i) < s THEN "sent"
                    ELSE IF Distance(K, i) < s + q THEN "queued" ELSE "empty"
      BY <1>1 DEF Ring
    <3>3. Distance(K, i) \in Nat /\ (Distance(K, i) = s => i = ulTxConsumeIndex)
      BY <1>2, <1>5, Around
    <3>4. slot'[i] = IF i = ulTxConsumeIndex THEN "sent" ELSE slot[i]
      BY <1>2
    <3> QED
      BY <1>5, <3>2, <3>3, <3>4
  <2>2. xTXDescriptorSemaphore' = xTXDescriptorSemaphore /\ pc' = pc
    BY <1>2 DEF locks
  <2>3. Claims(ip)' = Claims(ip) /\ Claims(spi)' = Claims(spi) /\ Claims(ip) \in Nat
        /\ Claims(spi) \in Nat /\ xTXDescriptorSemaphore \in Nat
    BY <2>2 DEF Claims, IInv, TypeOK
  <2>4. xTXDescriptorSemaphore + Claims(ip) + Claims(spi) + s + q = TxDescriptors
    BY <1>1 DEF Ring
  <2>5. xTXDescriptorSemaphore' + Claims(ip)' + Claims(spi)' + (s + 1) + (q - 1) = TxDescriptors
    BY <2>2, <2>3, <2>4
  <2> QED
    BY <1>2, <1>3, <1>5, <1>6, <2>1, <2>5 DEF Ring
<1>8. CleanupInv(s + 1)'
  <2>1. Announced("TXDONE")'
    BY <1>2 DEF Announced
  <2>2. emac = "clean" => ToClean <= s
    BY <1>1 DEF CleanupInv
  <2>3. emac' = emac /\ ToClean' = ToClean
    BY <1>2 DEF emacTask, ToClean
  <2>4. ToClean \in Int
    BY <1>2, Around DEF ToClean, IInv, TypeOK
  <2> QED
    BY <2>1, <2>2, <2>3, <2>4 DEF CleanupInv
<1>9. IrqInv'
  BY <1>2 DEF IInv, IrqInv, Announced, emacTask, rx
<1>10. TypeOK'
  BY <1>2, <1>5 DEF IInv, TypeOK, locks, emacTask, rx, phy
<1> QED
  BY <1>6, <1>7, <1>8, <1>9, <1>10 DEF IInv, RingInv

\* The steps of the hardware and the interrupt that leave the ring alone.
LEMMA AroundTheRing ==
  ASSUME IInv, UNCHANGED <<ring, locks, pc, cpu, emacTask>>, TypeOK', IrqInv',
         Announced("TXDONE") => Announced("TXDONE")'
  PROVE  IInv'
<1>1. PICK s, q \in Nat : Ring(s, q) /\ CleanupInv(s)
  BY DEF IInv, RingInv
<1>2. Ring(s, q)' /\ CleanupInv(s)'
  BY <1>1, RingStays, CleanupStays DEF IInv, locks, Claims, ring
<1> QED
  BY <1>2 DEF IInv, RingInv

LEMMA RxArrivesKeeps == ASSUME IInv, RxArrives PROVE IInv'
<1>1. TypeOK'
  <2>1. unread' \in 0 .. RxDescriptors - 1 /\ received' \in 0 .. MaxReceived
    BY EmacAssumption DEF RxArrives, IInv, TypeOK
  <2> QED
    BY <2>1 DEF RxArrives, IInv, TypeOK, ring, locks, emacTask, phy
<1>2. IrqInv'
  BY DEF RxArrives, IInv, IrqInv, Announced
<1> QED
  BY <1>1, <1>2, AroundTheRing DEF RxArrives, Announced

LEMMA LinkChangesKeeps == ASSUME IInv, LinkChanges PROVE IInv'
<1>1. TypeOK'
  <2>1. flaps' \in 0 .. MaxFlaps /\ link' \in BOOLEAN
    BY EmacAssumption DEF LinkChanges, IInv, TypeOK
  <2> QED
    BY <2>1 DEF LinkChanges, IInv, TypeOK, ring, locks, emacTask, irqVars, rx
<1>2. IrqInv'
  BY DEF LinkChanges, IInv, IrqInv, Announced, irqVars, rx, emacTask
<1> QED
  BY <1>1, <1>2, AroundTheRing DEF LinkChanges, Announced, irqVars

LEMMA IrqNotifiesKeeps == ASSUME IInv, IrqNotifies PROVE IInv'
<1>1. TypeOK'
  BY DEF IrqNotifies, IInv, TypeOK, ring, locks, emacTask, rx, phy
<1>2. IrqInv'
  BY DEF IrqNotifies, IInv, IrqInv, Announced, emacTask, rx
<1> QED
  BY <1>1, <1>2, AroundTheRing DEF IrqNotifies, Announced

LEMMA IrqClearsKeeps == ASSUME IInv, IrqClears PROVE IInv'
<1>1. TypeOK'
  BY DEF IrqClears, IInv, TypeOK, ring, locks, emacTask, rx, phy
<1>2. IrqInv'
  BY DEF IrqClears, IInv, IrqInv, Announced, emacTask, rx
<1>3. Announced("TXDONE") => Announced("TXDONE")'
  BY DEF IrqClears, IInv, IrqInv, Announced
<1> QED
  BY <1>1, <1>2, <1>3, AroundTheRing DEF IrqClears
-----------------------------------------------------------------------------
(* The callers. *)

LEMMA SpiRunsKeeps == ASSUME IInv, SpiRuns PROVE IInv'
<1>1. UNCHANGED <<ring, locks, pc, emacTask, irqVars, rx, enabled, phy>> /\ cpu' = "spi"
  BY DEF SpiRuns
<1>2. PICK s, q \in Nat : Ring(s, q) /\ CleanupInv(s)
  BY DEF IInv, RingInv
<1>3. Ring(s, q)' /\ CleanupInv(s)'
  BY <1>1, <1>2, RingStays, CleanupStays DEF IInv, locks, Claims, ring, Announced, irqVars
<1>4. IrqInv' /\ TypeOK'
  BY <1>1 DEF IInv, TypeOK, IrqInv, Announced, ring, locks, emacTask, irqVars, rx, phy
<1> QED
  BY <1>3, <1>4 DEF IInv, RingInv

LEMMA BooleansStay ==
  ASSUME IInv, UNCHANGED <<enabled, phy>>
  PROVE  /\ {enabled, link, physts, connected, downEvent, bInterfaceUp}' \subseteq BOOLEAN
         /\ UNCHANGED flaps
BY DEF IInv, TypeOK, phy

LEMMA Places ==
  /\ ip \in Caller /\ spi \in Caller
  /\ \A c \in Caller : c = ip \/ c = spi
BY DEF Caller

LEMMA SpiBlocksKeeps == ASSUME IInv, SpiBlocks PROVE IInv'
<1> DEFINE p == IF pc[spi] = "done" THEN "idle" ELSE pc[spi]
<1>1. /\ pc' = [pc EXCEPT ![spi] = p] /\ cpu' = "nobody"
      /\ UNCHANGED <<ring, locks, emacTask, irqVars, rx, enabled, phy>>
  BY DEF SpiBlocks
<1>2. p \in {"idle", "take", "check", "asserted", "lock", "produce", "unlock", "done",
             "initialise"}
  BY Places DEF IInv, TypeOK
<1>3. Claims(spi) = IF p \in {"check", "asserted", "lock", "produce"} THEN 1 ELSE 0
  BY DEF Claims
<1>4. Goto(spi, p)
  BY <1>1 DEF Goto
<1>5. xTXMutex' \in Caller \union {"none"} /\ UNCHANGED xTXDescriptorSemaphore
  BY <1>1 DEF locks, IInv, TypeOK
<1> HIDE DEF p
<1> QED
  BY <1>1, <1>2, <1>3, <1>4, <1>5, Places, BooleansStay, CallerKeeps

LEMMA StartOutputKeeps == ASSUME IInv, NEW c \in Caller, StartOutput(c) PROVE IInv'
<1>1. /\ pc[c] = "idle" /\ Goto(c, "take")
      /\ UNCHANGED <<ring, locks, cpu, emacTask, irqVars, rx, enabled, phy>>
  BY DEF StartOutput
<1>2. Claims(c) = 0
  BY <1>1 DEF Claims
<1>3. cpu' \in {"nobody", "spi", "emac"} /\ xTXMutex' \in Caller \union {"none"}
      /\ UNCHANGED xTXDescriptorSemaphore
  BY <1>1 DEF locks, IInv, TypeOK
<1> QED
  BY <1>1, <1>2, <1>3, BooleansStay, CallerKeeps

LEMMA CheckKeeps == ASSUME IInv, NEW c \in Caller, Check(c) PROVE IInv'
<1> DEFINE p == IF TxFull THEN "asserted" ELSE "lock"
<1>1. /\ pc[c] = "check" /\ Goto(c, p)
      /\ UNCHANGED <<ring, locks, cpu, emacTask, irqVars, rx, enabled, phy>>
  BY DEF Check
<1>2. Claims(c) = 1 /\ p \in {"asserted", "lock"}
  BY <1>1 DEF Claims
<1>3. cpu' \in {"nobody", "spi", "emac"} /\ xTXMutex' \in Caller \union {"none"}
      /\ UNCHANGED xTXDescriptorSemaphore
  BY <1>1 DEF locks, IInv, TypeOK
<1> HIDE DEF p
<1> QED
  BY <1>1, <1>2, <1>3, BooleansStay, CallerKeeps

LEMMA LockKeeps == ASSUME IInv, NEW c \in Caller, Lock(c) PROVE IInv'
<1>1. /\ pc[c] = "lock" /\ Goto(c, "produce") /\ xTXMutex' = c
      /\ UNCHANGED <<ring, xTXDescriptorSemaphore, cpu, emacTask, irqVars, rx, enabled, phy>>
  BY DEF Lock
<1>2. Claims(c) = 1
  BY <1>1 DEF Claims
<1>3. cpu' \in {"nobody", "spi", "emac"} /\ xTXMutex' \in Caller \union {"none"}
  BY <1>1 DEF IInv, TypeOK
<1> QED
  BY <1>1, <1>2, <1>3, BooleansStay, CallerKeeps

LEMMA UnlockKeeps == ASSUME IInv, NEW c \in Caller, Unlock(c) PROVE IInv'
<1> DEFINE p == IF c = spi THEN "done" ELSE "idle"
<1>1. /\ pc[c] = "unlock" /\ Goto(c, p) /\ xTXMutex' = "none"
      /\ UNCHANGED <<ring, xTXDescriptorSemaphore, cpu, emacTask, irqVars, rx, enabled, phy>>
  BY DEF Unlock, End
<1>2. Claims(c) = 0 /\ p \in {"done", "idle"}
  BY <1>1 DEF Claims
<1>3. cpu' \in {"nobody", "spi", "emac"} /\ xTXMutex' \in Caller \union {"none"}
  BY <1>1 DEF IInv, TypeOK
<1> HIDE DEF p
<1> QED
  BY <1>1, <1>2, <1>3, BooleansStay, CallerKeeps

LEMMA DisableKeeps == ASSUME IInv, Disable PROVE IInv'
<1>1. /\ pc[ip] = "idle" /\ Goto(ip, "initialise") /\ enabled' = FALSE /\ downEvent' = FALSE
      /\ UNCHANGED <<ring, locks, cpu, emacTask, irqVars, rx, link, flaps, physts,
                     connected, bInterfaceUp>>
  BY DEF Disable
<1>2. Claims(ip) = 0
  BY <1>1 DEF Claims
<1>3. /\ cpu' \in {"nobody", "spi", "emac"} /\ xTXMutex' \in Caller \union {"none"}
      /\ UNCHANGED xTXDescriptorSemaphore
      /\ {enabled, link, physts, connected, downEvent, bInterfaceUp}' \subseteq BOOLEAN
  BY <1>1 DEF locks, IInv, TypeOK
<1> QED
  BY <1>1, <1>2, <1>3, Places, CallerKeeps

LEMMA EnableKeeps == ASSUME IInv, Enable PROVE IInv'
<1>1. /\ pc[ip] = "initialise" /\ Goto(ip, "idle") /\ enabled' = connected
      /\ bInterfaceUp' = (bInterfaceUp \/ connected)
      /\ UNCHANGED <<ring, locks, cpu, emacTask, irqVars, rx, link, flaps, physts,
                     connected, downEvent>>
  BY DEF Enable
<1>2. Claims(ip) = 0
  BY <1>1 DEF Claims
<1>3. bInterfaceUp' \in BOOLEAN /\ enabled' \in BOOLEAN
  BY <1>1 DEF IInv, TypeOK
<1>4. /\ cpu' \in {"nobody", "spi", "emac"} /\ xTXMutex' \in Caller \union {"none"}
      /\ UNCHANGED xTXDescriptorSemaphore
      /\ {enabled, link, physts, connected, downEvent, bInterfaceUp}' \subseteq BOOLEAN
  BY <1>1, <1>3 DEF locks, IInv, TypeOK
<1> QED
  BY <1>1, <1>2, <1>4, Places, CallerKeeps

LEMMA NetworkTimerKeeps == ASSUME IInv, NetworkTimer PROVE IInv'
<1>1. /\ UNCHANGED <<ring, locks, pc, cpu, emacTask, irqVars, rx, enabled, link,
                     flaps, physts, connected, bInterfaceUp>>
      /\ downEvent' = TRUE
  BY DEF NetworkTimer
<1>2. TypeOK' /\ IrqInv'
  BY <1>1 DEF IInv, TypeOK, IrqInv, Announced, ring, locks, emacTask, irqVars, rx
<1> QED
  BY <1>1, <1>2, AroundTheRing DEF Announced, irqVars

LEMMA TakeSemaphoreKeeps == ASSUME IInv, NEW c \in Caller, TakeSemaphore(c) PROVE IInv'
<1>1. PICK s, q \in Nat : Ring(s, q) /\ CleanupInv(s)
  BY DEF IInv, RingInv
<1>2. /\ pc[c] = "take" /\ Goto(c, "check") /\ xTXDescriptorSemaphore > 0
      /\ xTXDescriptorSemaphore' = xTXDescriptorSemaphore - 1
      /\ UNCHANGED <<ring, xTXMutex, cpu, emacTask, irqVars, rx, enabled, phy>>
  BY DEF TakeSemaphore, Available
<1>3. Claims(c) = 0
  BY <1>2 DEF Claims
<1>4. Claims(ip)' + Claims(spi)' = Claims(ip) + Claims(spi) + 1
  <2>1. Claims(ip) \in Nat /\ Claims(spi) \in Nat
    BY DEF Claims
  <2> QED
    BY <1>2, <1>3, <2>1, ClaimsMove DEF IInv
<1>5. Ring(s, q)'
  <2>1. Claims(ip) \in Nat /\ Claims(spi) \in Nat /\ xTXDescriptorSemaphore \in Nat
    BY DEF Claims, IInv, TypeOK
  <2>2. /\ (Claims(ip)' + Claims(spi)') + xTXDescriptorSemaphore'
             = (Claims(ip) + Claims(spi)) + xTXDescriptorSemaphore
        /\ xTXDescriptorSemaphore' \in Int
    BY <1>2, <1>4, <2>1
  <2> QED
    BY <1>1, <1>2, <2>2, SemaphoreMoves DEF IInv
<1>6. CleanupInv(s)' /\ IrqInv'
  BY <1>1, <1>2, CleanupStays DEF IInv, IrqInv, Announced, ring, irqVars, rx, emacTask
<1>7. TypeOK'
  <2>1. pc' \in [Caller -> {"idle", "take", "check", "asserted", "lock", "produce",
                            "unlock", "done", "initialise"}]
    BY <1>2 DEF Goto, IInv, TypeOK
  <2>2. xTXDescriptorSemaphore' \in 0 .. TxDescriptors
    BY <1>2, Indices DEF IInv, TypeOK
  <2> QED
    BY <1>2, <2>1, <2>2 DEF IInv, TypeOK, ring, emacTask, irqVars, rx, phy
<1> QED
  BY <1>5, <1>6, <1>7 DEF IInv, RingInv

LEMMA TimeOutKeeps == ASSUME IInv, NEW c \in Caller, TimeOut(c) PROVE IInv'
<1> DEFINE p == IF c = spi THEN "done" ELSE "idle"
<1>1. PICK s, q \in Nat : Ring(s, q) /\ CleanupInv(s)
  BY DEF IInv, RingInv
<1>2. /\ Blocked(c) /\ Goto(c, p) /\ cpu' \in {"spi", cpu}
      /\ xTXDescriptorSemaphore' = xTXDescriptorSemaphore + GivenBack(c)
      /\ UNCHANGED <<ring, xTXMutex, emacTask, irqVars, rx, enabled, phy>>
  BY DEF TimeOut, End
<1>3. Claims(c) = GivenBack(c) /\ GivenBack(c) \in Nat
  BY <1>2 DEF Claims, Blocked, GivenBack
<1>4. p \in {"done", "idle"}
  OBVIOUS
<1> HIDE DEF p
<1>5. /\ Claims(ip)' + Claims(spi)' = Claims(ip) + Claims(spi) - GivenBack(c)
      /\ GivenBack(c) <= Claims(ip) + Claims(spi)
  <2>1. Claims(ip) \in Nat /\ Claims(spi) \in Nat
    BY DEF Claims
  <2> QED
    BY <1>2, <1>3, <1>4, <2>1, ClaimsMove DEF IInv
<1>6. Ring(s, q)' /\ xTXDescriptorSemaphore' \in 0 .. TxDescriptors
  <2>1. Claims(ip) \in Nat /\ Claims(spi) \in Nat /\ xTXDescriptorSemaphore \in Nat
    BY DEF Claims, IInv, TypeOK
  <2>2. (Claims(ip)' + Claims(spi)') + xTXDescriptorSemaphore'
          = (Claims(ip) + Claims(spi)) + xTXDescriptorSemaphore
    BY <1>2, <1>3, <1>5, <2>1
  <2>3. Ring(s, q)'
    BY <1>1, <1>2, <2>2, SemaphoreMoves, <1>3, <2>1 DEF IInv
  <2>4. xTXDescriptorSemaphore' <= TxDescriptors
    <3>1. xTXDescriptorSemaphore + Claims(ip) + Claims(spi) + s + q = TxDescriptors
      BY <1>1 DEF Ring
    <3> QED
      BY <1>2, <1>3, <1>5, <2>1, <3>1, Indices
  <2> QED
    BY <1>2, <1>3, <2>1, <2>3, <2>4, Indices
<1>7. CleanupInv(s)' /\ IrqInv'
  BY <1>1, <1>2, CleanupStays DEF IInv, IrqInv, Announced, ring, irqVars, rx, emacTask
<1>8. TypeOK'
  <2>1. pc' \in [Caller -> {"idle", "take", "check", "asserted", "lock", "produce",
                            "unlock", "done", "initialise"}]
    BY <1>2, <1>4 DEF Goto, IInv, TypeOK
  <2> QED
    BY <1>2, <1>6, <2>1 DEF IInv, TypeOK, ring, emacTask, irqVars, rx, phy
<1> QED
  BY <1>6, <1>7, <1>8 DEF IInv, RingInv

\* A caller fills the descriptor it has claimed.
LEMMA ProduceKeeps == ASSUME IInv, NEW c \in Caller, Produce(c) PROVE IInv'
<1>1. PICK s, q \in Nat : Ring(s, q) /\ CleanupInv(s)
  BY DEF IInv, RingInv
<1> DEFINE K == ulTxCleanupIndex
           P == ulTxProduceIndex
<1>2. /\ pc[c] = "produce" /\ Goto(c, "unlock")
      /\ slot' = [slot EXCEPT ![P] = "queued"]
      /\ ulTxProduceIndex' = Following(P)
      /\ UNCHANGED <<ulTxConsumeIndex, ulTxCleanupIndex, locks, cpu, emacTask,
                     irqVars, rx, enabled, phy>>
      /\ K \in Index /\ P \in Index
      /\ slot \in [Index -> {"empty", "queued", "sent"}]
  BY DEF Produce, IInv, TypeOK
<1>3. /\ s + q + 1 <= TxDescriptors
      /\ Claims(ip)' + Claims(spi)' + 1 = Claims(ip) + Claims(spi)
  BY <1>1, <1>2, ClaimedIsFree, ClaimsMove DEF IInv
<1>4. P = Ahead(K, s + q) /\ s + q \in Nat /\ s + q < TxDescriptors
  BY <1>1, <1>3, Indices DEF Ring
<1>5. P' = Ahead(K, (s + q) + 1) /\ Distance(K, P) = s + q /\ P' \in Index
  <2>1. (s + q) + 1 \in Nat /\ (s + q) + 1 <= TxDescriptors /\ s + q # TxDescriptors
        /\ s + q <= TxDescriptors
    BY <1>4, Indices
  <2> QED
    BY <1>2, <1>4, <2>1, Around
<1>6. (s + q) + 1 = s + (q + 1) /\ q + 1 \in Nat
  OBVIOUS
<1>7. Ring(s, q + 1)'
  <2>1. \A i \in Index : slot'[i] = IF Distance(K, i) < s THEN "sent"
                                    ELSE IF Distance(K, i) < s + (q + 1) THEN "queued" ELSE "empty"
    <3>1. TAKE i \in Index
    <3>2. slot[i] = IF Distance(K, i) < s THEN "sent"
                    ELSE IF Distance(K, i) < s + q THEN "queued" ELSE "empty"
      BY <1>1 DEF Ring
    <3>3. Distance(K, i) \in Nat /\ (Distance(K, i) = s + q => i = P)
      BY <1>2, <1>5, Around
    <3>4. slot'[i] = IF i = P THEN "queued" ELSE slot[i]
      BY <1>2
    <3> QED
      BY <1>5, <3>2, <3>3, <3>4
  <2>2. xTXDescriptorSemaphore' = xTXDescriptorSemaphore /\ xTXDescriptorSemaphore \in Nat
    BY <1>2 DEF locks, IInv, TypeOK
  <2>3. Claims(ip) \in Nat /\ Claims(spi) \in Nat /\ Claims(ip)' \in Nat /\ Claims(spi)' \in Nat
    BY DEF Claims
  <2>4. xTXDescriptorSemaphore + Claims(ip) + Claims(spi) + s + q = TxDescriptors
    BY <1>1 DEF Ring
  <2>5. xTXDescriptorSemaphore' + Claims(ip)' + Claims(spi)' + s + (q + 1) = TxDescriptors
    BY <1>3, <2>2, <2>3, <2>4
  <2>6. ulTxConsumeIndex' = Ahead(K', s)
    BY <1>1, <1>2 DEF Ring
  <2>7. ulTxProduceIndex' = Ahead(K', s + (q + 1)) /\ s + (q + 1) <= TxDescriptors
    BY <1>2, <1>3, <1>5, <1>6
  <2> QED
    BY <1>2, <1>6, <2>1, <2>5, <2>6, <2>7 DEF Ring
<1>8. CleanupInv(s)' /\ IrqInv'
  BY <1>1, <1>2, CleanupStays DEF IInv, IrqInv, Announced, irqVars, rx, emacTask
<1>9. TypeOK'
  <2>1. pc' \in [Caller -> {"idle", "take", "check", "asserted", "lock", "produce",
                            "unlock", "done", "initialise"}]
    BY <1>2 DEF Goto, IInv, TypeOK
  <2> QED
    BY <1>2, <1>5, <2>1 DEF IInv, TypeOK, locks, emacTask, irqVars, rx, phy
<1> QED
  BY <1>6, <1>7, <1>8, <1>9 DEF IInv, RingInv

LEMMA OutputStepKeeps == ASSUME IInv, NEW c \in Caller, OutputStep(c) PROVE IInv'
BY TakeSemaphoreKeeps, TimeOutKeeps, CheckKeeps, LockKeeps, ProduceKeeps, UnlockKeeps
DEF OutputStep
-----------------------------------------------------------------------------
(* The EMAC task. *)

\* A step of the task in which it leaves the ring alone.
LEMMA TaskKeeps ==
  ASSUME IInv, UNCHANGED <<ring, locks, pc>>,
         TypeOK', IrqInv', \A s \in Nat : s <= TxDescriptors /\ CleanupInv(s) => CleanupInv(s)'
  PROVE  IInv'
<1>1. PICK s, q \in Nat : Ring(s, q) /\ CleanupInv(s)
  BY DEF IInv, RingInv
<1>2. s <= TxDescriptors
  BY <1>1, Indices DEF Ring
<1>3. Ring(s, q)' /\ CleanupInv(s)'
  BY <1>1, <1>2, RingStays DEF IInv, locks, Claims
<1> QED
  BY <1>3 DEF IInv, RingInv

LEMMA TakeNotificationKeeps == ASSUME IInv, TakeNotification PROVE IInv'
<1>1. /\ irq = {} /\ emac = "wait" /\ notified' = {}
      /\ IF "RXDONE" \in notified
         THEN emac' = "receive" /\ value' = notified
         ELSE emac' = AfterReceive(notified) /\ UNCHANGED value
      /\ cpu' \in {"nobody", "emac"}
      /\ UNCHANGED <<ring, locks, pc, ulConsumeIndex, status, irq, rx, enabled, phy>>
  BY DEF TakeNotification, NoIrq, EmacGoto
<1>2. AfterReceive(notified) = IF "TXDONE" \in notified THEN "cleanup" ELSE "wait"
  BY DEF AfterReceive, CleansAfter
<1>3. TypeOK'
  BY <1>1, <1>2 DEF IInv, TypeOK, ring, locks, rx, phy
<1>4. IrqInv'
  BY <1>1, <1>2 DEF IInv, IrqInv, Announced, rx
<1>5. \A s \in Nat : CleanupInv(s) => CleanupInv(s)'
  BY <1>1, <1>2 DEF CleanupInv, Announced
<1> QED
  BY <1>1, <1>3, <1>4, <1>5, TaskKeeps

LEMMA ReceiveFrameKeeps == ASSUME IInv, ReceiveFrame PROVE IInv'
<1>1. /\ emac = "receive" /\ unread > 0 /\ unread' = unread - 1 /\ connected' \in {connected, TRUE}
      /\ UNCHANGED <<ring, locks, pc, cpu, emacTask, irqVars, received, enabled,
                     link, flaps, physts, downEvent, bInterfaceUp>>
  BY DEF ReceiveFrame
<1>2. TypeOK'
  <2>1. unread' \in 0 .. RxDescriptors - 1
    BY <1>1, EmacAssumption DEF IInv, TypeOK
  <2>2. connected' \in BOOLEAN
    BY <1>1 DEF IInv, TypeOK
  <2> QED
    BY <1>1, <2>1, <2>2 DEF IInv, TypeOK, ring, locks, emacTask, irqVars
<1>3. IrqInv'
  BY <1>1 DEF IInv, IrqInv, Announced, irqVars, emacTask
<1> QED
  BY <1>1, <1>2, <1>3, CleanupStays, TaskKeeps DEF Announced, irqVars, ring

LEMMA EndReceiveKeeps == ASSUME IInv, EndReceive PROVE IInv'
<1>1. /\ emac = "receive" /\ unread = 0 /\ emac' = AfterReceive(value) /\ value' = {}
      /\ cpu' \in {"nobody", "emac"}
      /\ UNCHANGED <<ring, locks, pc, ulConsumeIndex, irqVars, rx, enabled, phy>>
  BY DEF EndReceive, RxEmpty, EmacGoto
<1>2. AfterReceive(value) = IF "TXDONE" \in value THEN "cleanup" ELSE "wait"
  BY DEF AfterReceive, CleansAfter
<1>3. TypeOK'
  BY <1>1, <1>2 DEF IInv, TypeOK, ring, locks, irqVars, rx, phy
<1>4. IrqInv'
  BY <1>1, <1>2 DEF IInv, IrqInv, Announced, rx, irqVars
<1>5. \A s \in Nat : CleanupInv(s) => CleanupInv(s)'
  BY <1>1, <1>2 DEF CleanupInv, Announced, irqVars
<1> QED
  BY <1>1, <1>3, <1>4, <1>5, TaskKeeps

LEMMA StartCleanupKeeps == ASSUME IInv, StartCleanup PROVE IInv'
<1>1. PICK s, q \in Nat : Ring(s, q) /\ CleanupInv(s)
  BY DEF IInv, RingInv
<1>2. /\ emac = "cleanup" /\ emac' = "clean" /\ cpu' = "emac" /\ ulConsumeIndex' = ulTxConsumeIndex
      /\ UNCHANGED <<ring, locks, pc, value, irqVars, rx, enabled, phy>>
  BY DEF StartCleanup, EmacGoto, CleanUpTo
<1>3. TypeOK'
  BY <1>2 DEF IInv, TypeOK, ring, locks, irqVars, rx, phy
<1>4. IrqInv'
  BY <1>2 DEF IInv, IrqInv, Announced, rx, irqVars
<1>5. s <= TxDescriptors /\ ToClean' = IF s = TxDescriptors THEN 0 ELSE s
  <2>1. s <= TxDescriptors /\ ulTxCleanupIndex \in Index
        /\ ulTxConsumeIndex = Ahead(ulTxCleanupIndex, s)
    BY <1>1, Indices DEF Ring, IInv, TypeOK
  <2>2. ToClean' = Distance(ulTxCleanupIndex, ulTxConsumeIndex)
    BY <1>2 DEF ToClean, ring
  <2> QED
    BY <2>1, <2>2, Around
<1>6. CleanupInv(s)'
  BY <1>2, <1>5, Indices DEF CleanupInv
<1>7. Ring(s, q)'
  BY <1>1, <1>2, RingStays DEF IInv, locks, Claims
<1> QED
  BY <1>3, <1>4, <1>6, <1>7 DEF IInv, RingInv

\* The task cleans a descriptor up.
LEMMA CleanKeeps == ASSUME IInv, Clean PROVE IInv'
<1>1. PICK s, q \in Nat : Ring(s, q) /\ CleanupInv(s)
  BY DEF IInv, RingInv
<1> DEFINE K == ulTxCleanupIndex
<1>2. /\ emac = "clean" /\ K # ulConsumeIndex
      /\ slot' = [slot EXCEPT ![K] = "empty"]
      /\ xTXDescriptorSemaphore' = xTXDescriptorSemaphore + 1
      /\ ulTxCleanupIndex' = Following(K)
      /\ UNCHANGED <<ulTxProduceIndex, ulTxConsumeIndex, xTXMutex, pc, cpu,
                     emacTask, irqVars, rx, enabled, phy>>
      /\ K \in Index /\ ulConsumeIndex \in Index
      /\ slot \in [Index -> {"empty", "queued", "sent"}]
  BY DEF Clean, IInv, TypeOK
<1>3. /\ ToClean \in Nat /\ ToClean # 0 /\ ToClean <= s
      /\ s > 0 /\ ~Announced("TXDONE") => ToClean = s
  <2>1. ToClean \in Nat /\ ToClean # 0
    BY <1>2, Around DEF ToClean
  <2> QED
    BY <1>1, <1>2, <2>1 DEF CleanupInv
<1>4. s >= 1 /\ s - 1 \in Nat /\ s <= TxDescriptors /\ s + q <= TxDescriptors
      /\ s + q \in Nat /\ s + q >= 1 /\ (s - 1) + q = (s + q) - 1
  BY <1>1, <1>3, Indices DEF Ring
<1>5. K' \in Index
  BY <1>2, Nearer
<1>6. Ring(s - 1, q)'
  <2>1. \A i \in Index : slot'[i] = IF Distance(K', i) < s - 1 THEN "sent"
                                    ELSE IF Distance(K', i) < (s - 1) + q THEN "queued" ELSE "empty"
    <3>1. TAKE i \in Index
    <3>2. slot[i] = IF Distance(K, i) < s THEN "sent"
                    ELSE IF Distance(K, i) < s + q THEN "queued" ELSE "empty"
      BY <1>1 DEF Ring
    <3>3. /\ Distance(K, i) \in Nat
          /\ Distance(K', i) = IF i = K THEN TxDescriptors - 1 ELSE Distance(K, i) - 1
      BY <1>2, Around, Nearer
    <3>4. slot'[i] = IF i = K THEN "empty" ELSE slot[i]
      BY <1>2
    <3>5. CASE i = K
      <4>1. Distance(K', i) = TxDescriptors - 1 /\ slot'[i] = "empty"
        BY <3>3, <3>4, <3>5
      <4>2. ~(TxDescriptors - 1 < s - 1) /\ ~(TxDescriptors - 1 < (s - 1) + q)
        BY <1>4, Indices
      <4> QED
        BY <4>1, <4>2
    <3>6. CASE i # K
      <4>1. Distance(K', i) = Distance(K, i) - 1 /\ slot'[i] = slot[i]
        BY <3>3, <3>4, <3>6
      <4>2. /\ Distance(K, i) - 1 < s - 1 <=> Distance(K, i) < s
            /\ Distance(K, i) - 1 < (s - 1) + q <=> Distance(K, i) < s + q
        BY <1>4, <3>3
      <4> QED
        BY <3>2, <4>1, <4>2
    <3> QED
      BY <3>5, <3>6
  <2>2. /\ ulTxConsumeIndex' = Ahead(K', s - 1)
        /\ ulTxProduceIndex' = Ahead(K', (s - 1) + q)
    <3>1. ulTxConsumeIndex = Ahead(K, s) /\ ulTxProduceIndex = Ahead(K, s + q)
      BY <1>1 DEF Ring
    <3>2. Ahead(Following(K), s - 1) = Ahead(K, s)
          /\ Ahead(Following(K), (s + q) - 1) = Ahead(K, s + q)
      BY <1>2, <1>4, Nearer
    <3> QED
      BY <1>2, <1>4, <3>1, <3>2
  <2>3. Claims(ip)' = Claims(ip) /\ Claims(spi)' = Claims(spi) /\ Claims(ip) \in Nat
        /\ Claims(spi) \in Nat /\ xTXDescriptorSemaphore \in Nat
    BY <1>2 DEF Claims, IInv, TypeOK
  <2>4. xTXDescriptorSemaphore + Claims(ip) + Claims(spi) + s + q = TxDescriptors
    BY <1>1 DEF Ring
  <2>5. xTXDescriptorSemaphore' + Claims(ip)' + Claims(spi)' + (s - 1) + q = TxDescriptors
    BY <1>2, <2>3, <2>4
  <2>6. (s - 1) + q <= TxDescriptors
    BY <1>4, Indices
  <2> QED
    BY <1>4, <2>1, <2>2, <2>5, <2>6 DEF Ring
<1>7. CleanupInv(s - 1)'
  <2>1. ToClean' = ToClean - 1
    <3>1. ToClean' = Distance(Following(K), ulConsumeIndex)
      BY <1>2 DEF ToClean, emacTask
    <3> QED
      BY <1>2, <3>1, Nearer DEF ToClean
  <2>2. emac' = emac /\ (Announced("TXDONE")' <=> Announced("TXDONE"))
    BY <1>2 DEF emacTask, Announced, irqVars
  <2> QED
    BY <1>2, <1>3, <1>4, <2>1, <2>2 DEF CleanupInv
<1>8. IrqInv'
  BY <1>2 DEF IInv, IrqInv, Announced, irqVars, rx, emacTask
<1>9. TypeOK'
  <2>1. xTXDescriptorSemaphore' \in 0 .. TxDescriptors
    <3>1. xTXDescriptorSemaphore + Claims(ip) + Claims(spi) + s + q = TxDescriptors
          /\ Claims(ip) \in Nat /\ Claims(spi) \in Nat /\ xTXDescriptorSemaphore \in Nat
      BY <1>1 DEF Ring, Claims, IInv, TypeOK
    <3> QED
      BY <1>2, <1>4, <3>1, Indices
  <2> QED
    BY <1>2, <1>5, <2>1 DEF IInv, TypeOK, emacTask, irqVars, rx, phy
<1> QED
  BY <1>4, <1>6, <1>7, <1>8, <1>9 DEF IInv, RingInv

LEMMA EndCleanupKeeps == ASSUME IInv, EndCleanup PROVE IInv'
<1>1. /\ emac = "clean" /\ emac' = "wait" /\ cpu' = "nobody" /\ ulConsumeIndex' = 0
      /\ ulTxCleanupIndex = ulConsumeIndex
      /\ UNCHANGED <<ring, locks, pc, value, irqVars, rx, enabled, phy>>
  BY DEF EndCleanup, EmacGoto
<1>2. TypeOK'
  BY <1>1, Indices DEF IInv, TypeOK, ring, locks, irqVars, rx, phy
<1>3. IrqInv'
  BY <1>1 DEF IInv, IrqInv, Announced, rx, irqVars
<1>4. ToClean = 0
  BY <1>1, Around DEF ToClean, IInv, TypeOK
<1>5. \A s \in Nat : CleanupInv(s) => CleanupInv(s)'
  BY <1>1, <1>4 DEF CleanupInv, Announced, irqVars
<1> QED
  BY <1>1, <1>2, <1>3, <1>5, TaskKeeps

LEMMA PollLinkKeeps == ASSUME IInv, PollLink PROVE IInv'
<1>1. /\ emac = "wait" /\ emac' \in {"wait", "delay"} /\ cpu' = "nobody"
      /\ physts' = link /\ connected' = link
      /\ downEvent' \in BOOLEAN /\ value' \subseteq {"RXDONE", "TXDONE", "CHANGED"}
      /\ UNCHANGED <<ring, locks, pc, ulConsumeIndex, irqVars, rx, enabled, link,
                     flaps, bInterfaceUp>>
  BY DEF PollLink, EmacGoto, IInv, TypeOK
<1>2. TypeOK'
  BY <1>1 DEF IInv, TypeOK, ring, locks, irqVars, rx
<1>3. IrqInv'
  BY <1>1 DEF IInv, IrqInv, Announced, rx, irqVars
<1>4. \A s \in Nat : CleanupInv(s) => CleanupInv(s)'
  BY <1>1 DEF CleanupInv, Announced, irqVars
<1> QED
  BY <1>1, <1>2, <1>3, <1>4, TaskKeeps

LEMMA EndDelayKeeps == ASSUME IInv, EndDelay PROVE IInv'
<1>1. /\ emac = "delay" /\ emac' = "wait" /\ cpu' = "nobody"
      /\ downEvent' \in BOOLEAN /\ value' = {}
      /\ UNCHANGED <<ring, locks, pc, ulConsumeIndex, irqVars, rx, enabled, link,
                     flaps, physts, connected, bInterfaceUp>>
  BY DEF EndDelay, EmacGoto, IInv, TypeOK
<1>2. TypeOK'
  BY <1>1 DEF IInv, TypeOK, ring, locks, irqVars, rx
<1>3. IrqInv'
  BY <1>1 DEF IInv, IrqInv, Announced, rx, irqVars
<1>4. \A s \in Nat : CleanupInv(s) => CleanupInv(s)'
  BY <1>1 DEF CleanupInv, Announced, irqVars
<1> QED
  BY <1>1, <1>2, <1>3, <1>4, TaskKeeps
-----------------------------------------------------------------------------
LEMMA NextKeeps == IInv /\ [Next]_vars => IInv'
<1> SUFFICES ASSUME IInv, [Next]_vars PROVE IInv'
  OBVIOUS
<1>1. CASE TxSent \/ RxArrives \/ LinkChanges
  BY <1>1, TxSentKeeps, RxArrivesKeeps, LinkChangesKeeps
<1>2. CASE Irq
  BY <1>2, IrqNotifiesKeeps, IrqClearsKeeps DEF Irq
<1>3. CASE SpiRuns \/ SpiTask
  BY <1>3, SpiRunsKeeps, SpiBlocksKeeps, OutputStepKeeps, Places DEF SpiTask
<1>4. CASE IpTask \/ NetworkTimer
  BY <1>4, OutputStepKeeps, DisableKeeps, EnableKeeps, NetworkTimerKeeps, Places
  DEF IpTask, Initialise
<1>5. CASE \E c \in Caller : StartOutput(c)
  BY <1>5, StartOutputKeeps
<1>6. CASE EmacTask \/ PollLink
  BY <1>6, TakeNotificationKeeps, ReceiveFrameKeeps, EndReceiveKeeps, StartCleanupKeeps,
     CleanKeeps, EndCleanupKeeps, EndDelayKeeps, PollLinkKeeps DEF EmacTask
<1>7. CASE UNCHANGED vars
  <2>1. UNCHANGED <<ring, locks, pc, cpu, emacTask, irqVars, rx, enabled, phy>>
    BY <1>7 DEF vars
  <2>2. TypeOK' /\ IrqInv'
    BY <2>1 DEF IInv, TypeOK, IrqInv, Announced, ring, locks, emacTask, irqVars, rx, phy
  <2> QED
    BY <2>1, <2>2, AroundTheRing DEF Announced, irqVars
<1> QED
  BY <1>1, <1>2, <1>3, <1>4, <1>5, <1>6, <1>7 DEF Next

(***************************************************************************)
(* The inductive invariant of the transmit ring, its semaphore, and what   *)
(* the interrupt and the EMAC task hand each other, with the types of all  *)
(* the variables (LPC1758/NetworkInterface.c).                             *)
(***************************************************************************)
THEOREM EmacInvariant == Spec => []IInv
BY InitEstablishes, NextKeeps, PTL DEF Spec

(***************************************************************************)
(* No caller of the output writes over a descriptor that still has a       *)
(* buffer, although two check for a full ring before either takes the      *)
(* mutex: the semaphore has counted a descriptor for each of them.         *)
(***************************************************************************)
THEOREM WritesFreeDescriptors == Spec => []DescriptorIsFree
<1>1. IInv => DescriptorIsFree
  <2>1. SUFFICES ASSUME IInv, NEW c \in Caller, pc[c] = "produce"
                 PROVE  slot[ulTxProduceIndex] = "empty"
    BY DEF DescriptorIsFree
  <2>2. PICK s, q \in Nat : Ring(s, q)
    BY <2>1 DEF IInv, RingInv
  <2>3. s + q + 1 <= TxDescriptors
    BY <2>1, <2>2, ClaimedIsFree DEF IInv
  <2>4. /\ ulTxCleanupIndex \in Index /\ ulTxProduceIndex \in Index
        /\ ulTxProduceIndex = Ahead(ulTxCleanupIndex, s + q)
        /\ s + q \in Nat /\ s + q <= TxDescriptors /\ s + q # TxDescriptors
    BY <2>1, <2>2, <2>3, Indices DEF Ring, IInv, TypeOK
  <2>5. Distance(ulTxCleanupIndex, ulTxProduceIndex) = s + q
    BY <2>4, Around
  <2> QED
    BY <2>2, <2>4, <2>5 DEF Ring
<1> QED
  BY <1>1, EmacInvariant, PTL

(***************************************************************************)
(* The buffer of a frame that has yet to be sent is never released.        *)
(***************************************************************************)
THEOREM KeepsUnsent == Spec => []UnsentIsKept
<1>1. IInv => UnsentIsKept
  <2>1. SUFFICES ASSUME IInv, NEW i \in Index,
                        (i - ulTxConsumeIndex) % TxDescriptors
                          < (ulTxProduceIndex - ulTxConsumeIndex) % TxDescriptors
                 PROVE  slot[i] = "queued"
    BY DEF UnsentIsKept
  <2>2. PICK s, q \in Nat : Ring(s, q)
    BY <2>1 DEF IInv, RingInv
  <2> DEFINE K == ulTxCleanupIndex
             C == ulTxConsumeIndex
             P == ulTxProduceIndex
  <2>3. K \in Index /\ C \in Index /\ P \in Index
    BY <2>1 DEF IInv, TypeOK
  <2>4. Distance(C, i) < Distance(C, P)
    BY <2>1, <2>3, Modulo
  <2>5. /\ C = Ahead(K, s) /\ P = Ahead(K, s + q) /\ s + q <= TxDescriptors
        /\ slot[i] = IF Distance(K, i) < s THEN "sent"
                     ELSE IF Distance(K, i) < s + q THEN "queued" ELSE "empty"
    BY <2>2 DEF Ring
  <2>6. ~(Distance(K, i) < s) /\ Distance(K, i) < s + q
    <3>1. K \in Nat /\ K < TxDescriptors /\ i \in Nat /\ i < TxDescriptors
      BY <2>3, Indices
    <3> QED
      BY <2>4, <2>5, <3>1, Indices DEF Distance, Ahead
  <2> QED
    BY <2>5, <2>6
<1> QED
  BY <1>1, EmacInvariant, PTL

(***************************************************************************)
(* The EMAC task never goes to sleep over an interrupt, however the DMA,   *)
(* the handler and the task's look at the consume index interleave; only a *)
(* ring that was filled as a whole and sent is left as it is.              *)
(***************************************************************************)
THEOREM ForgetsNothing == Spec => []NothingForgotten
<1>1. IInv => NothingForgotten
  <2>1. SUFFICES ASSUME IInv, emac = "wait", notified = {}, irq = {}, status = {}
                 PROVE  unread = 0 /\ (Lapped \/ \A i \in Index : slot[i] # "sent")
    BY DEF NothingForgotten
  <2>2. ~Announced("RXDONE") /\ ~Announced("TXDONE")
    BY <2>1 DEF Announced
  <2>3. unread = 0
    BY <2>1, <2>2, EmacAssumption DEF IInv, IrqInv, TypeOK
  <2>4. PICK s, q \in Nat : Ring(s, q) /\ CleanupInv(s)
    BY <2>1 DEF IInv, RingInv
  <2>5. s = 0 \/ s = TxDescriptors
    BY <2>1, <2>2, <2>4 DEF CleanupInv
  <2>6. CASE s = 0
    <3>1. \A i \in Index : Distance(ulTxCleanupIndex, i) \in Nat
      BY <2>1, Around DEF IInv, TypeOK
    <3> QED
      BY <2>3, <2>4, <2>6, <3>1 DEF Ring
  <2>7. CASE s = TxDescriptors
    BY <2>1, <2>3, <2>4, <2>7, WholeRing DEF IInv
  <2> QED
    BY <2>5, <2>6, <2>7
<1> QED
  BY <1>1, EmacInvariant, PTL

(***************************************************************************)
(* With everything sent and nothing to be done the semaphore has counted   *)
(* every descriptor back, but for a ring that was filled as a whole.       *)
(***************************************************************************)
THEOREM CountsDescriptorsBack == Spec => []AllAvailableAtRest
<1>1. IInv => AllAvailableAtRest
  <2>1. SUFFICES ASSUME IInv, enabled, Resting
                 PROVE  Lapped \/ xTXDescriptorSemaphore = TxDescriptors
    BY DEF AllAvailableAtRest
  <2>2. /\ emac = "wait" /\ notified = {} /\ status = {}
        /\ \A c \in Caller : pc[c] \in {"idle", "take"}
        /\ ulTxConsumeIndex = ulTxProduceIndex
    BY <2>1 DEF Resting, NoIrq, IrqPending
  <2>3. PICK s, q \in Nat : Ring(s, q) /\ CleanupInv(s)
    BY <2>1 DEF IInv, RingInv
  <2>4. s = 0 \/ s = TxDescriptors
    BY <2>2, <2>3 DEF CleanupInv, Announced
  <2>5. s + q <= TxDescriptors /\ s + q \in Nat /\ ulTxCleanupIndex \in Index
        /\ ulTxConsumeIndex = Ahead(ulTxCleanupIndex, s)
        /\ ulTxProduceIndex = Ahead(ulTxCleanupIndex, s + q)
    BY <2>1, <2>3 DEF Ring, IInv, TypeOK
  <2>6. CASE s + q = TxDescriptors
    BY <2>1, <2>3, <2>4, <2>6, WholeRing DEF IInv
  <2>7. CASE s + q # TxDescriptors
    <3>1. s = 0 /\ q < TxDescriptors
      BY <2>4, <2>5, <2>7, Indices
    <3>2. Ahead(ulTxCleanupIndex, q) = ulTxCleanupIndex
      <4>1. s + q = q
        BY <3>1
      <4>2. Ahead(ulTxCleanupIndex, 0) = Ahead(ulTxCleanupIndex, q)
        BY <2>2, <2>5, <3>1, <4>1
      <4> QED
        BY <2>5, <4>2, Around
    <3>3. q = 0
      BY <2>5, <3>1, <3>2, Around
    <3>4. Claims(ip) = 0 /\ Claims(spi) = 0
      BY <2>2, Places DEF Claims
    <3>5. xTXDescriptorSemaphore + Claims(ip) + Claims(spi) + s + q = TxDescriptors
          /\ xTXDescriptorSemaphore \in Nat
      BY <2>1, <2>3 DEF Ring, IInv, TypeOK
    <3> QED
      BY <3>1, <3>3, <3>4, <3>5
  <2> QED
    BY <2>6, <2>7
<1> QED
  BY <1>1, EmacInvariant, PTL
=============================================================================
