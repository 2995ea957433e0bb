------------------------ MODULE NetworkBuffers_proofs ------------------------
(***************************************************************************)
(* The pool of BufferAllocation_1.c for every number of buffers, every     *)
(* finite set of tasks and every number of stale pointers: the list has no *)
(* descriptor twice, list and semaphore agree up to the calls under way,   *)
(* and as long as no stale pointer is kept the list and the buffers held   *)
(* behave as BufferPool says.                                              *)
(***************************************************************************)
EXTENDS NetworkBuffers, SequenceTheorems, FiniteSetTheorems, TLAPS

(***************************************************************************)
(* No client has a stale pointer before the first one is kept, and the     *)
(* interrupt holds buffers only until then.                                *)
(***************************************************************************)
Pointers ==
  /\ aliases = 0 => alias = {}
  /\ held[Isr] # {} => aliases = 0

IInv == TypeOK /\ NoDoubleLink /\ SemaphoreMatchesList /\ OneOwner /\ Pointers

-----------------------------------------------------------------------------
(* The list. *)

LEMMA TailOfList ==
  ASSUME NEW s \in Seq(Buffer), s # <<>>, IsInjective(s)
  PROVE  /\ Head(s) \in Buffer /\ Tail(s) \in Seq(Buffer)
         /\ Len(Tail(s)) = Len(s) - 1
         /\ IsInjective(Tail(s))
         /\ Head(s) \in Range(s) /\ Range(Tail(s)) = Range(s) \ {Head(s)}
<1>1. /\ Head(s) \in Buffer /\ Tail(s) \in Seq(Buffer) /\ Len(Tail(s)) = Len(s) - 1
      /\ \A i \in 1 .. Len(Tail(s)) : Tail(s)[i] = s[i + 1]
  BY HeadTailProperties
<1>2. /\ Len(s) \in Nat \ {0} /\ DOMAIN s = 1 .. Len(s)
      /\ DOMAIN Tail(s) = 1 .. Len(s) - 1
  BY <1>1, EmptySeq, LenProperties
<1>3. Head(s) = s[1]
  OBVIOUS
<1>4. \A i, j \in 1 .. Len(s) : s[i] = s[j] => i = j
  BY <1>2 DEF IsInjective
<1>5. IsInjective(Tail(s))
  <2>1. SUFFICES ASSUME NEW i \in 1 .. Len(s) - 1, NEW j \in 1 .. Len(s) - 1,
                        Tail(s)[i] = Tail(s)[j]
                 PROVE  i = j
    BY <1>2 DEF IsInjective
  <2>2. s[i + 1] = s[j + 1] /\ i + 1 \in 1 .. Len(s) /\ j + 1 \in 1 .. Len(s)
    BY <1>1, <1>2, <2>1
  <2> QED
    BY <1>4, <2>2
<1>6. Range(Tail(s)) \subseteq Range(s) \ {Head(s)}
  <2>1. SUFFICES ASSUME NEW i \in 1 .. Len(s) - 1
                 PROVE  Tail(s)[i] \in Range(s) /\ Tail(s)[i] # s[1]
    BY <1>2, <1>3 DEF Range
  <2>2. Tail(s)[i] = s[i + 1] /\ i + 1 \in 1 .. Len(s) /\ i + 1 # 1 /\ 1 \in 1 .. Len(s)
    BY <1>1, <1>2
  <2> QED
    BY <1>2, <1>4, <2>2 DEF Range
<1>7. Range(s) \ {Head(s)} \subseteq Range(Tail(s))
  <2>1. SUFFICES ASSUME NEW i \in 1 .. Len(s), s[i] # s[1]
                 PROVE  s[i] \in Range(Tail(s))
    BY <1>2, <1>3 DEF Range
  <2>2. i - 1 \in 1 .. Len(s) - 1 /\ Tail(s)[i - 1] = s[i]
    BY <1>1, <1>2, <2>1
  <2> QED
    BY <1>2, <2>2 DEF Range
<1>8. Head(s) \in Range(s)
  BY <1>2, <1>3 DEF Range
<1> QED
  BY <1>1, <1>5, <1>6, <1>7, <1>8

LEMMA AppendToList ==
  ASSUME NEW s \in Seq(Buffer), NEW b \in Buffer
  PROVE  /\ Append(s, b) \in Seq(Buffer)
         /\ Len(Append(s, b)) = Len(s) + 1
         /\ Range(Append(s, b)) = Range(s) \union {b}
         /\ IsInjective(s) /\ b \notin Range(s) => IsInjective(Append(s, b))
<1> DEFINE a == Append(s, b)
<1>1. /\ a \in Seq(Buffer) /\ Len(a) = Len(s) + 1
      /\ \A i \in 1 .. Len(s) : a[i] = s[i]
      /\ a[Len(s) + 1] = b
  BY AppendProperties
<1>2. Len(s) \in Nat /\ DOMAIN s = 1 .. Len(s) /\ DOMAIN a = 1 .. Len(s) + 1
  BY <1>1, LenProperties
<1>3. \A i \in 1 .. Len(s) + 1 : a[i] = IF i = Len(s) + 1 THEN b ELSE s[i]
  BY <1>1, <1>2
<1> HIDE DEF a
<1>4. Range(a) = Range(s) \union {b}
  BY <1>2, <1>3 DEF Range
<1>5. ASSUME IsInjective(s), b \notin Range(s) PROVE IsInjective(a)
  <2>1. SUFFICES ASSUME NEW i \in 1 .. Len(s) + 1, NEW j \in 1 .. Len(s) + 1, a[i] = a[j]
                 PROVE  i = j
    BY <1>2 DEF IsInjective
  <2>2. \A k \in 1 .. Len(s) : s[k] # b
    BY <1>2, <1>5 DEF Range
  <2>3. \A k, l \in 1 .. Len(s) : s[k] = s[l] => k = l
    BY <1>2, <1>5 DEF IsInjective
  <2> QED
    BY <1>2, <1>3, <2>1, <2>2, <2>3
<1> QED
  BY <1>1, <1>4, <1>5 DEF a

(***************************************************************************)
(* A list without a descriptor twice is not longer than there are          *)
(* descriptors.                                                            *)
(***************************************************************************)
LEMMA ListFits ==
  ASSUME NEW s \in Seq(Buffer), IsInjective(s)
  PROVE  Len(s) \in 0 .. NumBuffers
<1>1. Len(s) \in Nat /\ s \in [1 .. Len(s) -> Buffer]
  BY LenProperties
<1>2. s \in Injection(1 .. Len(s), Buffer)
  BY <1>1 DEF Injection
<1>3. IsFiniteSet(Buffer) /\ Cardinality(Buffer) = NumBuffers
  BY FS_Interval, PoolAssumption DEF Buffer
<1>4. Cardinality(1 .. Len(s)) = Len(s)
  BY <1>1, FS_Interval
<1>5. Cardinality(1 .. Len(s)) <= Cardinality(Buffer)
  BY <1>2, <1>3, FS_Injection
<1> QED
  BY <1>1, <1>3, <1>4, <1>5, PoolAssumption

-----------------------------------------------------------------------------
(* The tasks that are at a place of the code. *)

Places == {"outside", "taken", "obtained", "counted", "latching", "inserted"}

LEMMA WithinFinite ==
  ASSUME NEW place
  PROVE  IsFiniteSet(Within(place)) /\ Cardinality(Within(place)) \in Nat
<1>1. IsFiniteSet(Within(place))
  BY FS_Subset, PoolAssumption DEF Within
<1> QED
  BY <1>1, FS_CardinalityType

LEMMA TaskMoves ==
  ASSUME TypeOK, NEW t \in Task, NEW from \in Places, NEW to \in Places,
         At(t, from), Goto(t, to), NEW q, from # to
  PROVE  Cardinality(Within(q))' =
           IF q = to THEN Cardinality(Within(q)) + 1
           ELSE IF q = from THEN Cardinality(Within(q)) - 1
           ELSE Cardinality(Within(q))
<1>1. pc \in [Task -> Places] /\ pc[t] = from /\ pc' = [pc EXCEPT ![t] = to]
  BY DEF TypeOK, At, Goto, Places
<1>2. Within(q)' = IF q = to THEN Within(q) \union {t}
                   ELSE IF q = from THEN Within(q) \ {t}
                   ELSE Within(q)
  BY <1>1 DEF Within
<1>3. (t \in Within(q)) <=> q = from
  BY <1>1 DEF Within
<1>4. IsFiniteSet(Within(q))
  BY WithinFinite
<1> QED
  BY <1>2, <1>3, <1>4, FS_AddElement, FS_RemoveElement

-----------------------------------------------------------------------------
(* Which buffers are free and which are held. *)

Divided(F, H) ==
  /\ \A b \in F : \A h \in Holder : b \notin H[h]
  /\ \A g, h \in Holder : \A b \in Buffer : b \in H[g] /\ b \in H[h] => g = h
  /\ \A b \in Buffer : b \in F \/ \E h \in Holder : b \in H[h]

LEMMA PartitionIsDivided ==
  ASSUME NEW F \in SUBSET Buffer, NEW H \in [Holder -> SUBSET Buffer]
  PROVE  Divided(F, H) <=>
           /\ \A h \in Holder : H[h] \intersect F = {}
           /\ \A g, h \in Holder : g # h => H[g] \intersect H[h] = {}
           /\ F \union UNION {H[h] : h \in Holder} = Buffer
  BY DEF Divided

LEMMA DividedGet ==
  ASSUME NEW F \in SUBSET Buffer, NEW H \in [Holder -> SUBSET Buffer], Divided(F, H),
         NEW b \in F, NEW h \in Holder
  PROVE  Divided(F \ {b}, [H EXCEPT ![h] = @ \union {b}])
  BY DEF Divided

LEMMA DividedRelease ==
  ASSUME NEW F \in SUBSET Buffer, NEW H \in [Holder -> SUBSET Buffer], Divided(F, H),
         NEW h \in Holder, NEW b \in H[h]
  PROVE  Divided(F \union {b}, [H EXCEPT ![h] = @ \ {b}])
  BY DEF Divided

LEMMA DividedHandOver ==
  ASSUME NEW F \in SUBSET Buffer, NEW H \in [Holder -> SUBSET Buffer], Divided(F, H),
         NEW g \in Holder, NEW h \in Holder, g # h, NEW b \in H[g]
  PROVE  Divided(F, [H EXCEPT ![g] = @ \ {b}, ![h] = @ \union {b}])
  BY DEF Divided
-----------------------------------------------------------------------------
(* The invariant. *)

OneOwnerNow == aliases = 0 => Divided(Range(xFreeBuffersList), held)

LEMMA OwnersAreDivided ==
  ASSUME TypeOK
  PROVE  OneOwner <=> OneOwnerNow
<1>1. Range(xFreeBuffersList) \in SUBSET Buffer /\ held \in [Holder -> SUBSET Buffer]
  BY RangeOfSeq DEF TypeOK
<1> QED
  BY <1>1, PartitionIsDivided DEF OneOwner, OneOwnerNow, Pool!Partition

LEMMA OwnersAreDividedNext ==
  ASSUME TypeOK'
  PROVE  OneOwner' <=> OneOwnerNow'
<1>1. Range(xFreeBuffersList') \in SUBSET Buffer /\ held' \in [Holder -> SUBSET Buffer]
  BY RangeOfSeq DEF TypeOK
<1> QED
  BY <1>1, PartitionIsDivided DEF OneOwner, OneOwnerNow, Pool!Partition

LEMMA InitEstablishes == Init => IInv
<1>1. SUFFICES ASSUME Init PROVE IInv
  OBVIOUS
<1> DEFINE list == [i \in Buffer |-> i]
<1>2. NumBuffers \in Nat /\ Buffer = 1 .. NumBuffers
  BY PoolAssumption DEF Buffer
<1>3. /\ list \in Seq(Buffer) /\ Len(list) = NumBuffers
      /\ IsInjective(list) /\ Range(list) = Buffer
  BY <1>2 DEF IsInjective, Range
<1>4. TypeOK
  BY <1>1, <1>2, <1>3, PoolAssumption DEF Init, TypeOK
<1>5. NoDoubleLink
  BY <1>1, <1>3 DEF Init, NoDoubleLink
<1>6. SemaphoreMatchesList
  <2>1. Within("taken") = {} /\ Within("inserted") = {}
    BY <1>1 DEF Init, Within
  <2>2. Cardinality(Within("taken")) = 0 /\ Cardinality(Within("inserted")) = 0
    BY <2>1, FS_EmptySet
  <2>3. Len(xFreeBuffersList) = NumBuffers /\ xNetworkBufferSemaphore = NumBuffers
    BY <1>1, <1>3 DEF Init
  <2> QED
    BY <1>2, <2>2, <2>3 DEF SemaphoreMatchesList
<1>7. OneOwnerNow
  BY <1>1, <1>3 DEF Init, OneOwnerNow, Divided
<1>8. Pointers
  BY <1>1 DEF Init, Pointers, Holder
<1> QED
  BY <1>4, <1>5, <1>6, <1>7, <1>8, OwnersAreDivided DEF IInv

(***************************************************************************)
(* What each action needs of the invariant, with OneOwner in the form that *)
(* the lemmas about Divided speak of.                                      *)
(***************************************************************************)
Known ==
  /\ TypeOK /\ NoDoubleLink /\ SemaphoreMatchesList /\ OneOwnerNow /\ Pointers

LEMMA KnownIsInvariant ==
  /\ IInv <=> Known
  /\ TypeOK' => (IInv' <=> Known')
  BY OwnersAreDivided, OwnersAreDividedNext DEF IInv, Known

(***************************************************************************)
(* Counting the tasks at the two places that matter.                       *)
(***************************************************************************)
LEMMA Counts ==
  ASSUME TypeOK
  PROVE  /\ Cardinality(Within("taken")) \in Nat
         /\ Cardinality(Within("inserted")) \in Nat
         /\ xNetworkBufferSemaphore \in Nat
         /\ Len(xFreeBuffersList) \in Nat
         /\ NumBuffers \in Nat
<1>1. Len(xFreeBuffersList) \in Nat
  BY LenProperties DEF TypeOK
<1> QED
  BY <1>1, WithinFinite, PoolAssumption DEF TypeOK

LEMMA TakeKeeps ==
  ASSUME Known, NEW t \in Task, Take(t)
  PROVE  Known'
<1>1. TypeOK'
  BY PoolAssumption DEF Known, Take, TypeOK, Available, stats, clients, Goto
<1>2. /\ Cardinality(Within("taken"))' = Cardinality(Within("taken")) + 1
      /\ Cardinality(Within("inserted"))' = Cardinality(Within("inserted"))
  BY TaskMoves DEF Known, Take, Places
<1>3. SemaphoreMatchesList'
  BY <1>2, Counts DEF Known, Take, Available, SemaphoreMatchesList
<1>4. NoDoubleLink' /\ OneOwnerNow' /\ Pointers'
  BY DEF Known, Take, NoDoubleLink, OneOwnerNow, Pointers, clients
<1> QED
  BY <1>1, <1>3, <1>4 DEF Known

(***************************************************************************)
(* A task that has taken the semaphore finds a buffer: the branch for an   *)
(* empty list is never taken.                                              *)
(***************************************************************************)
LEMMA TakenFinds ==
  ASSUME Known, NEW t \in Task, At(t, "taken")
  PROVE  xFreeBuffersList # <<>>
<1>1. Within("taken") # {}
  BY DEF At, Within
<1>2. Cardinality(Within("taken")) # 0
  BY <1>1, WithinFinite, FS_EmptySet
<1>3. Len(xFreeBuffersList) > 0
  BY <1>2, Counts DEF Known, SemaphoreMatchesList
<1> QED
  BY <1>3

LEMMA RemoveHeadKeeps ==
  ASSUME Known, NEW t \in Task, RemoveHead(t)
  PROVE  Known'
<1> DEFINE b == Head(xFreeBuffersList)
<1>1. At(t, "taken") /\ xFreeBuffersList # <<>>
  BY TakenFinds DEF RemoveHead
<1>2. /\ xFreeBuffersList' = Tail(xFreeBuffersList)
      /\ held' = [held EXCEPT ![t] = @ \union {b}]
      /\ Goto(t, "obtained")
      /\ UNCHANGED <<xNetworkBufferSemaphore, stats, alias, aliases>>
  BY <1>1 DEF RemoveHead, ListRemoveHead
<1>3. /\ b \in Buffer /\ Tail(xFreeBuffersList) \in Seq(Buffer)
      /\ Len(Tail(xFreeBuffersList)) = Len(xFreeBuffersList) - 1
      /\ IsInjective(Tail(xFreeBuffersList))
      /\ b \in Range(xFreeBuffersList)
      /\ Range(Tail(xFreeBuffersList)) = Range(xFreeBuffersList) \ {b}
  BY <1>1, TailOfList DEF Known, TypeOK, NoDoubleLink
<1> HIDE DEF b
<1>4. t \in Holder /\ t # Isr
  BY PoolAssumption DEF Holder
<1>5. TypeOK'
  BY <1>2, <1>3, <1>4 DEF Known, TypeOK, stats, Goto
<1>6. NoDoubleLink'
  BY <1>2, <1>3 DEF NoDoubleLink
<1>7. SemaphoreMatchesList'
  <2>1. /\ Cardinality(Within("taken"))' = Cardinality(Within("taken")) - 1
        /\ Cardinality(Within("inserted"))' = Cardinality(Within("inserted"))
    BY <1>1, <1>2, TaskMoves DEF Known, Places
  <2> QED
    BY <1>2, <1>3, <2>1, Counts DEF Known, SemaphoreMatchesList
<1>8. OneOwnerNow'
  <2>1. held \in [Holder -> SUBSET Buffer] /\ Range(xFreeBuffersList) \in SUBSET Buffer
    BY RangeOfSeq DEF Known, TypeOK
  <2>2. Divided(Range(xFreeBuffersList), held)
          => Divided(Range(xFreeBuffersList) \ {b}, [held EXCEPT ![t] = @ \union {b}])
    BY <1>3, <1>4, <2>1, DividedGet
  <2> QED
    BY <1>2, <1>3, <2>2 DEF Known, OneOwnerNow
<1>9. Pointers'
  BY <1>2, <1>4 DEF Known, TypeOK, Pointers
<1> QED
  BY <1>5, <1>6, <1>7, <1>8, <1>9 DEF Known

(***************************************************************************)
(* The three steps for the statistics touch neither the list nor the       *)
(* semaphore nor the buffers held.                                         *)
(***************************************************************************)
LEMMA StatsKeep ==
  ASSUME Known, NEW t \in Task,
         ReadCount(t) \/ CompareMinimum(t) \/ LatchMinimum(t)
  PROVE  Known'
<1>1. Len(xFreeBuffersList) \in 0 .. NumBuffers
  BY ListFits DEF Known, TypeOK, NoDoubleLink
<1>2. TypeOK'
  <2>1. CASE ReadCount(t)
    BY <1>1, <2>1 DEF Known, ReadCount, TypeOK, Goto, clients
  <2>2. CASE CompareMinimum(t)
    BY <2>2 DEF Known, CompareMinimum, TypeOK, Goto, clients, stats
  <2>3. CASE LatchMinimum(t)
    BY <2>3 DEF Known, LatchMinimum, TypeOK, Goto, clients
  <2> QED
    BY <2>1, <2>2, <2>3
<1>3. UNCHANGED <<xFreeBuffersList, xNetworkBufferSemaphore, held, alias, aliases>>
  BY DEF ReadCount, CompareMinimum, LatchMinimum, clients, stats
<1>4. /\ Cardinality(Within("taken"))' = Cardinality(Within("taken"))
      /\ Cardinality(Within("inserted"))' = Cardinality(Within("inserted"))
  <2>1. CASE ReadCount(t)
    BY <2>1, TaskMoves DEF Known, ReadCount, Places
  <2>2. CASE CompareMinimum(t)
    BY <2>2, TaskMoves DEF Known, CompareMinimum, Places
  <2>3. CASE LatchMinimum(t)
    BY <2>3, TaskMoves DEF Known, LatchMinimum, Places
  <2> QED
    BY <2>1, <2>2, <2>3
<1>5. SemaphoreMatchesList'
  BY <1>3, <1>4 DEF Known, SemaphoreMatchesList
<1>6. NoDoubleLink' /\ OneOwnerNow' /\ Pointers'
  BY <1>3 DEF Known, NoDoubleLink, OneOwnerNow, Pointers
<1> QED
  BY <1>2, <1>5, <1>6 DEF Known

(***************************************************************************)
(* A release: of a buffer that is held, or by a stale pointer.  Only the   *)
(* look at the list keeps a buffer from entering it twice then.            *)
(***************************************************************************)
LEMMA InsertEndKeeps ==
  ASSUME Known, NEW t \in Task, NEW b \in Buffer, InsertEnd(t, b)
  PROVE  Known'
<1>1. /\ At(t, "outside")
      /\ b \in held[t] \/ <<t, b>> \in alias
      /\ held' = [held EXCEPT ![t] = @ \ {b}]
      /\ alias' = alias \ {<<t, b>>}
      /\ UNCHANGED <<xNetworkBufferSemaphore, stats, aliases>>
  BY DEF InsertEnd
<1>2. t \in Holder /\ t # Isr
  BY PoolAssumption DEF Holder
<1>3. Pointers'
  BY <1>1, <1>2 DEF Known, TypeOK, Pointers
<1>4. CASE IsFree(b)
  <2>1. UNCHANGED <<xFreeBuffersList, pc>>
    BY <1>4 DEF InsertEnd
  <2>2. TypeOK'
    BY <1>1, <1>2, <2>1 DEF Known, TypeOK, stats
  <2>3. NoDoubleLink' /\ SemaphoreMatchesList'
    BY <1>1, <2>1 DEF Known, NoDoubleLink, SemaphoreMatchesList, Within
  <2>4. aliases' # 0
    <3>1. aliases = 0 => b \in held[t] /\ b \notin held[t]
      BY <1>1, <1>2, <1>4 DEF Known, Pointers, OneOwnerNow, Divided, IsFree
    <3> QED
      BY <1>1, <3>1
  <2> QED
    BY <1>3, <2>2, <2>3, <2>4 DEF Known, OneOwnerNow
<1>5. CASE ~IsFree(b)
  <2>1. /\ xFreeBuffersList' = Append(xFreeBuffersList, b)
        /\ Goto(t, "inserted")
        /\ b \notin Range(xFreeBuffersList)
    BY <1>5 DEF InsertEnd, IsFree
  <2>2. /\ Append(xFreeBuffersList, b) \in Seq(Buffer)
        /\ Len(Append(xFreeBuffersList, b)) = Len(xFreeBuffersList) + 1
        /\ Range(Append(xFreeBuffersList, b)) = Range(xFreeBuffersList) \union {b}
        /\ IsInjective(Append(xFreeBuffersList, b))
    BY <2>1, AppendToList DEF Known, TypeOK, NoDoubleLink
  <2>3. TypeOK'
    BY <1>1, <1>2, <2>1, <2>2 DEF Known, TypeOK, stats, Goto
  <2>4. NoDoubleLink'
    BY <2>1, <2>2 DEF NoDoubleLink
  <2>5. SemaphoreMatchesList'
    <3>1. /\ Cardinality(Within("taken"))' = Cardinality(Within("taken"))
          /\ Cardinality(Within("inserted"))' = Cardinality(Within("inserted")) + 1
      BY <1>1, <2>1, TaskMoves DEF Known, Places
    <3> QED
      BY <1>1, <2>1, <2>2, <3>1, Counts DEF Known, SemaphoreMatchesList
  <2>6. OneOwnerNow'
    <3>1. aliases = 0 => b \in held[t]
      BY <1>1 DEF Known, Pointers
    <3>2. held \in [Holder -> SUBSET Buffer] /\ Range(xFreeBuffersList) \in SUBSET Buffer
      BY RangeOfSeq DEF Known, TypeOK
    <3>3. aliases = 0 =>
            Divided(Range(xFreeBuffersList) \union {b}, [held EXCEPT ![t] = @ \ {b}])
      BY <1>2, <3>1, <3>2, DividedRelease DEF Known, OneOwnerNow
    <3> QED
      BY <1>1, <2>1, <2>2, <3>3 DEF OneOwnerNow
  <2> QED
    BY <1>3, <2>3, <2>4, <2>5, <2>6 DEF Known
<1> QED
  BY <1>4, <1>5

(***************************************************************************)
(* The semaphore is never at its maximum when it is given: no count is     *)
(* lost.                                                                   *)
(***************************************************************************)
LEMMA GiveKeeps ==
  ASSUME Known, NEW t \in Task, Give(t)
  PROVE  Known'
<1>1. /\ At(t, "inserted") /\ Goto(t, "outside")
      /\ xNetworkBufferSemaphore' = Given(xNetworkBufferSemaphore)
      /\ UNCHANGED <<xFreeBuffersList, stats, clients>>
  BY DEF Give
<1>2. Cardinality(Within("inserted")) # 0
  BY <1>1, WithinFinite, FS_EmptySet DEF At, Within
<1>3. Len(xFreeBuffersList) \in 0 .. NumBuffers
  BY ListFits DEF Known, TypeOK, NoDoubleLink
<1>4. xNetworkBufferSemaphore < NumBuffers
  BY <1>2, <1>3, Counts DEF Known, SemaphoreMatchesList
<1>5. xNetworkBufferSemaphore' = xNetworkBufferSemaphore + 1
  BY <1>1, <1>4 DEF Given
<1>6. TypeOK'
  BY <1>1, <1>4, <1>5, Counts DEF Known, TypeOK, stats, clients, Goto
<1>7. SemaphoreMatchesList'
  <2>1. /\ Cardinality(Within("taken"))' = Cardinality(Within("taken"))
        /\ Cardinality(Within("inserted"))' = Cardinality(Within("inserted")) - 1
    BY <1>1, TaskMoves DEF Known, Places
  <2> QED
    BY <1>1, <1>5, <2>1, Counts DEF Known, SemaphoreMatchesList
<1>8. NoDoubleLink' /\ OneOwnerNow' /\ Pointers'
  BY <1>1 DEF Known, NoDoubleLink, OneOwnerNow, Pointers, clients
<1> QED
  BY <1>6, <1>7, <1>8 DEF Known

(***************************************************************************)
(* The interrupt: the threshold is a count that the list then has.         *)
(***************************************************************************)
LEMMA GetFromISRKeeps ==
  ASSUME Known, GetFromISR
  PROVE  Known' /\ xFreeBuffersList # <<>>
<1> DEFINE b == Head(xFreeBuffersList)
<1>1. /\ aliases = 0 /\ xNetworkBufferSemaphore > 0
      /\ xNetworkBufferSemaphore' = xNetworkBufferSemaphore - 1
      /\ held' = [held EXCEPT ![Isr] = @ \union {b}]
      /\ xFreeBuffersList' = Tail(xFreeBuffersList)
      /\ UNCHANGED <<stats, pc, alias, aliases>>
  BY Counts, PoolAssumption DEF Known, GetFromISR, ListRemoveHead
<1>2. Len(xFreeBuffersList) > 0
  BY <1>1, Counts DEF Known, SemaphoreMatchesList
<1>3. xFreeBuffersList # <<>>
  BY <1>2
<1>4. /\ b \in Buffer /\ Tail(xFreeBuffersList) \in Seq(Buffer)
      /\ Len(Tail(xFreeBuffersList)) = Len(xFreeBuffersList) - 1
      /\ IsInjective(Tail(xFreeBuffersList))
      /\ b \in Range(xFreeBuffersList)
      /\ Range(Tail(xFreeBuffersList)) = Range(xFreeBuffersList) \ {b}
  BY <1>3, TailOfList DEF Known, TypeOK, NoDoubleLink
<1> HIDE DEF b
<1>5. Isr \in Holder
  BY DEF Holder
<1>6. TypeOK'
  BY <1>1, <1>4, <1>5, Counts DEF Known, TypeOK, stats
<1>7. NoDoubleLink' /\ Pointers'
  BY <1>1, <1>4 DEF Known, NoDoubleLink, Pointers
<1>8. SemaphoreMatchesList'
  BY <1>1, <1>4, Counts DEF Known, SemaphoreMatchesList, Within
<1>9. OneOwnerNow'
  <2>1. held \in [Holder -> SUBSET Buffer] /\ Range(xFreeBuffersList) \in SUBSET Buffer
    BY RangeOfSeq DEF Known, TypeOK
  <2>2. Divided(Range(xFreeBuffersList) \ {b}, [held EXCEPT ![Isr] = @ \union {b}])
    BY <1>1, <1>4, <1>5, <2>1, DividedGet DEF Known, OneOwnerNow
  <2> QED
    BY <1>1, <1>4, <2>2 DEF OneOwnerNow
<1> QED
  BY <1>3, <1>6, <1>7, <1>8, <1>9 DEF Known

LEMMA ReleaseFromISRKeeps ==
  ASSUME Known, NEW b \in Buffer, ReleaseFromISR(b)
  PROVE  Known'
<1>1. /\ b \in held[Isr]
      /\ held' = [held EXCEPT ![Isr] = @ \ {b}]
      /\ xFreeBuffersList' = Append(xFreeBuffersList, b)
      /\ xNetworkBufferSemaphore' = Given(xNetworkBufferSemaphore)
      /\ UNCHANGED <<stats, pc, alias, aliases>>
  BY DEF ReleaseFromISR
<1>2. Isr \in Holder
  BY DEF Holder
<1>3. aliases = 0 /\ b \notin Range(xFreeBuffersList)
  BY <1>1, <1>2 DEF Known, Pointers, OneOwnerNow, Divided
<1>4. /\ Append(xFreeBuffersList, b) \in Seq(Buffer)
      /\ Len(Append(xFreeBuffersList, b)) = Len(xFreeBuffersList) + 1
      /\ Range(Append(xFreeBuffersList, b)) = Range(xFreeBuffersList) \union {b}
      /\ IsInjective(Append(xFreeBuffersList, b))
  BY <1>3, AppendToList DEF Known, TypeOK, NoDoubleLink
<1>5. Len(Append(xFreeBuffersList, b)) \in 0 .. NumBuffers
  BY <1>4, ListFits
<1>6. xNetworkBufferSemaphore < NumBuffers
  BY <1>4, <1>5, Counts DEF Known, SemaphoreMatchesList
<1>7. xNetworkBufferSemaphore' = xNetworkBufferSemaphore + 1
  BY <1>1, <1>6 DEF Given
<1>8. TypeOK'
  BY <1>1, <1>2, <1>4, <1>6, <1>7, Counts DEF Known, TypeOK, stats
<1>9. NoDoubleLink' /\ Pointers'
  BY <1>1, <1>3, <1>4 DEF Known, NoDoubleLink, Pointers
<1>10. SemaphoreMatchesList'
  BY <1>1, <1>4, <1>7, Counts DEF Known, SemaphoreMatchesList, Within
<1>11. OneOwnerNow'
  <2>1. held \in [Holder -> SUBSET Buffer] /\ Range(xFreeBuffersList) \in SUBSET Buffer
    BY RangeOfSeq DEF Known, TypeOK
  <2>2. Divided(Range(xFreeBuffersList) \union {b}, [held EXCEPT ![Isr] = @ \ {b}])
    BY <1>1, <1>2, <1>3, <2>1, DividedRelease DEF Known, OneOwnerNow
  <2> QED
    BY <1>1, <1>4, <2>2 DEF OneOwnerNow
<1> QED
  BY <1>8, <1>9, <1>10, <1>11 DEF Known

(***************************************************************************)
(* A buffer that is passed on has its new owner at once.                   *)
(***************************************************************************)
LEMMA HandOverKeeps ==
  ASSUME Known, NEW g \in Holder, NEW h \in Holder, NEW b \in Buffer, HandOver(g, h, b)
  PROVE  Known'
<1>1. /\ g # h /\ h \in Task /\ b \in held[g]
      /\ held' = [held EXCEPT ![g] = @ \ {b}, ![h] = @ \union {b}]
      /\ UNCHANGED <<xFreeBuffersList, xNetworkBufferSemaphore, stats, pc,
                     alias, aliases>>
  BY DEF HandOver
<1>2. held \in [Holder -> SUBSET Buffer] /\ Range(xFreeBuffersList) \in SUBSET Buffer
  BY RangeOfSeq DEF Known, TypeOK
<1>3. held' \in [Holder -> SUBSET Buffer]
  BY <1>1, <1>2
<1>4. TypeOK'
  BY <1>1, <1>3 DEF Known, TypeOK, stats
<1>5. NoDoubleLink' /\ SemaphoreMatchesList'
  BY <1>1 DEF Known, NoDoubleLink, SemaphoreMatchesList, Within
<1>6. OneOwnerNow'
  BY <1>1, <1>2, DividedHandOver DEF Known, OneOwnerNow
<1>7. Pointers'
  <2>1. Isr \in Holder /\ h # Isr
    BY <1>1, PoolAssumption DEF Holder
  <2>2. held'[Isr] \subseteq held[Isr]
    BY <1>1, <1>2, <2>1
  <2> QED
    BY <1>1, <2>2 DEF Known, Pointers
<1> QED
  BY <1>4, <1>5, <1>6, <1>7 DEF Known

LEMMA KeepPointerKeeps ==
  ASSUME Known, NEW t \in Task, NEW b \in Buffer, KeepPointer(t, b)
  PROVE  Known' /\ aliases' > 0
<1>1. /\ aliases < MaxAliases /\ held[Isr] = {}
      /\ alias' = alias \union {<<t, b>>} /\ aliases' = aliases + 1
      /\ UNCHANGED <<xFreeBuffersList, xNetworkBufferSemaphore, stats, pc, held>>
  BY DEF KeepPointer
<1>2. aliases \in Nat /\ MaxAliases \in Nat
  BY PoolAssumption DEF Known, TypeOK
<1>3. aliases' > 0 /\ aliases' \in 0 .. MaxAliases
  BY <1>1, <1>2
<1>4. TypeOK'
  BY <1>1, <1>3 DEF Known, TypeOK, stats
<1>5. NoDoubleLink' /\ SemaphoreMatchesList'
  BY <1>1 DEF Known, NoDoubleLink, SemaphoreMatchesList, Within
<1>6. OneOwnerNow' /\ Pointers'
  BY <1>1, <1>3 DEF OneOwnerNow, Pointers
<1> QED
  BY <1>3, <1>4, <1>5, <1>6 DEF Known

LEMMA NextKeeps == IInv /\ [Next]_vars => IInv'
<1>1. SUFFICES ASSUME Known, [Next]_vars PROVE Known'
  BY KnownIsInvariant DEF Known
<1>2. ASSUME NEW t \in Task, TaskStep(t) PROVE Known'
  <2>1. CASE Take(t)
    BY <1>1, <2>1, TakeKeeps
  <2>2. CASE RemoveHead(t)
    BY <1>1, <2>2, RemoveHeadKeeps
  <2>3. CASE ReadCount(t) \/ CompareMinimum(t) \/ LatchMinimum(t)
    BY <1>1, <2>3, StatsKeep
  <2>4. CASE \E b \in Buffer : InsertEnd(t, b) \/ KeepPointer(t, b)
    BY <1>1, <2>4, InsertEndKeeps, KeepPointerKeeps
  <2>5. CASE Give(t)
    BY <1>1, <2>5, GiveKeeps
  <2> QED
    BY <1>2, <2>1, <2>2, <2>3, <2>4, <2>5 DEF TaskStep
<1>3. CASE GetFromISR
  BY <1>1, <1>3, GetFromISRKeeps
<1>4. CASE \E b \in Buffer : ReleaseFromISR(b)
  BY <1>1, <1>4, ReleaseFromISRKeeps
<1>5. CASE \E g, h \in Holder, b \in Buffer : HandOver(g, h, b)
  BY <1>1, <1>5, HandOverKeeps
<1>6. CASE UNCHANGED vars
  BY <1>1, <1>6 DEF Known, TypeOK, NoDoubleLink, SemaphoreMatchesList, Within,
                    OneOwnerNow, Pointers, vars
<1> QED
  BY <1>1, <1>2, <1>3, <1>4, <1>5, <1>6 DEF Next

-----------------------------------------------------------------------------
(***************************************************************************)
(* The strengthening is an invariant of the pool, in every interleaving    *)
(* of its critical sections.                                               *)
(***************************************************************************)
THEOREM PoolInvariant == Spec => []IInv
  BY InitEstablishes, NextKeeps, PTL DEF Spec

(***************************************************************************)
(* The variables of BufferAllocation_1.c keep their ranges; the semaphore  *)
(* stays between 0 and the number of buffers it was created with.          *)
(***************************************************************************)
THEOREM PoolTypeCorrect == Spec => []TypeOK
<1>1. IInv => TypeOK
  BY DEF IInv
<1> QED
  BY <1>1, PoolInvariant, PTL

(***************************************************************************)
(* The semaphore and the list agree up to the calls under way: a task that *)
(* has taken the semaphore finds a buffer, and no count is lost, even when *)
(* buffers are released twice.                                             *)
(***************************************************************************)
THEOREM ListMatchesSemaphore == Spec => []SemaphoreMatchesList
<1>1. IInv => SemaphoreMatchesList
  BY DEF IInv
<1> QED
  BY <1>1, PoolInvariant, PTL

(***************************************************************************)
(* No descriptor is in the list twice, even when it is released twice.     *)
(***************************************************************************)
THEOREM NoDescriptorTwice == Spec => []NoDoubleLink
<1>1. IInv => NoDoubleLink
  BY DEF IInv
<1> QED
  BY <1>1, PoolInvariant, PTL

(***************************************************************************)
(* Both together.                                                          *)
(***************************************************************************)
THEOREM ListSound == Spec => []ListIsSound
<1>1. SemaphoreMatchesList /\ NoDoubleLink => ListIsSound
  BY DEF ListIsSound
<1> QED
  BY <1>1, ListMatchesSemaphore, NoDescriptorTwice, PTL

(***************************************************************************)
(* As long as no client keeps a pointer, each buffer is free or has one    *)
(* owner, whatever calls are under way.                                    *)
(***************************************************************************)
THEOREM BufferHasOneOwner == Spec => []OneOwner
<1>1. IInv => OneOwner
  BY DEF IInv
<1> QED
  BY <1>1, PoolInvariant, PTL

-----------------------------------------------------------------------------
(* The refinement: every step is one of the abstract pool, or none.        *)

LEMMA InitRefines == Init => Pool!Init
<1>1. SUFFICES ASSUME Init PROVE Pool!Init
  OBVIOUS
<1>2. xFreeBuffersList = [i \in Buffer |-> i] /\ held = [h \in Holder |-> {}]
  BY <1>1 DEF Init
<1>3. Range(xFreeBuffersList) = Buffer
  BY <1>2 DEF Range
<1> QED
  BY <1>2, <1>3 DEF Pool!Init

LEMMA GetRefines ==
  ASSUME Known, NEW h \in Holder, xFreeBuffersList # <<>>,
         xFreeBuffersList' = Tail(xFreeBuffersList),
         held' = [held EXCEPT ![h] = @ \union {Head(xFreeBuffersList)}]
  PROVE  Pool!Next
<1>1. /\ Head(xFreeBuffersList) \in Buffer
      /\ Head(xFreeBuffersList) \in Range(xFreeBuffersList)
      /\ Range(xFreeBuffersList') = Range(xFreeBuffersList) \ {Head(xFreeBuffersList)}
  BY TailOfList DEF Known, TypeOK, NoDoubleLink
<1>2. Pool!Get(h, Head(xFreeBuffersList))
  BY <1>1 DEF Pool!Get
<1> QED
  BY <1>1, <1>2 DEF Pool!Next

LEMMA ReleaseRefines ==
  ASSUME Known, NEW h \in Holder, NEW b \in held[h],
         xFreeBuffersList' = Append(xFreeBuffersList, b),
         held' = [held EXCEPT ![h] = @ \ {b}]
  PROVE  Pool!Next
<1>1. b \in Buffer
  BY DEF Known, TypeOK
<1>2. Range(xFreeBuffersList') = Range(xFreeBuffersList) \union {b}
  BY <1>1, AppendToList DEF Known, TypeOK
<1>3. Pool!Release(h, b)
  BY <1>2 DEF Pool!Release
<1> QED
  BY <1>1, <1>3 DEF Pool!Next

LEMMA TaskRefines ==
  ASSUME Known, NEW t \in Task, TaskStep(t)
  PROVE  Pool!Next \/ aliases' > 0 \/ UNCHANGED Pool!poolVars
<1>1. t \in Holder
  BY DEF Holder
<1>2. CASE Take(t) \/ ReadCount(t) \/ CompareMinimum(t) \/ LatchMinimum(t) \/ Give(t)
  <2>1. UNCHANGED <<xFreeBuffersList, held>>
    BY <1>2 DEF Take, ReadCount, CompareMinimum, LatchMinimum, Give, clients
  <2> QED
    BY <2>1 DEF Pool!poolVars
<1>3. CASE RemoveHead(t)
  <2>1. At(t, "taken") /\ xFreeBuffersList # <<>>
    BY <1>3, TakenFinds DEF RemoveHead
  <2>2. /\ xFreeBuffersList' = Tail(xFreeBuffersList)
        /\ held' = [held EXCEPT ![t] = @ \union {Head(xFreeBuffersList)}]
    BY <1>3, <2>1 DEF RemoveHead, ListRemoveHead
  <2> QED
    BY <1>1, <2>1, <2>2, GetRefines
<1>4. ASSUME NEW b \in Buffer, InsertEnd(t, b)
      PROVE  Pool!Next \/ aliases' > 0
  <2>1. /\ b \in held[t] \/ <<t, b>> \in alias
        /\ held' = [held EXCEPT ![t] = @ \ {b}]
        /\ aliases' = aliases
        /\ ~IsFree(b) => xFreeBuffersList' = Append(xFreeBuffersList, b)
    BY <1>4 DEF InsertEnd
  <2>2. aliases \in Nat
    BY PoolAssumption DEF Known, TypeOK
  <2>3. aliases = 0 => b \in held[t] /\ ~IsFree(b)
    BY <1>1, <2>1 DEF Known, Pointers, OneOwnerNow, Divided, IsFree
  <2>4. aliases = 0 => Pool!Next
    BY <1>1, <2>1, <2>3, ReleaseRefines
  <2> QED
    BY <2>1, <2>2, <2>4
<1>5. ASSUME NEW b \in Buffer, KeepPointer(t, b)
      PROVE  aliases' > 0
  BY <1>5, KeepPointerKeeps
<1> QED
  BY <1>2, <1>3, <1>4, <1>5 DEF TaskStep

LEMMA NextRefines ==
  IInv /\ [Next]_vars => [Pool!Next \/ aliases' > 0]_(Pool!poolVars)
<1>1. SUFFICES ASSUME Known, [Next]_vars
               PROVE  Pool!Next \/ aliases' > 0 \/ UNCHANGED Pool!poolVars
  BY KnownIsInvariant
<1>2. ASSUME NEW t \in Task, TaskStep(t)
      PROVE  Pool!Next \/ aliases' > 0 \/ UNCHANGED Pool!poolVars
  BY <1>1, <1>2, TaskRefines
<1>3. CASE GetFromISR
  <2>1. /\ xFreeBuffersList' = Tail(xFreeBuffersList)
        /\ held' = [held EXCEPT ![Isr] = @ \union {Head(xFreeBuffersList)}]
    BY <1>3 DEF GetFromISR, ListRemoveHead
  <2>2. xFreeBuffersList # <<>> /\ Isr \in Holder
    BY <1>1, <1>3, GetFromISRKeeps DEF Holder
  <2> QED
    BY <1>1, <2>1, <2>2, GetRefines
<1>4. ASSUME NEW b \in Buffer, ReleaseFromISR(b)
      PROVE  Pool!Next
  BY <1>1, <1>4, ReleaseRefines DEF ReleaseFromISR, Holder
<1>5. ASSUME NEW g \in Holder, NEW h \in Holder, NEW b \in Buffer, HandOver(g, h, b)
      PROVE  Pool!Next
  <2>1. Pool!HandOver(g, h, b)
    BY <1>5 DEF HandOver, Pool!HandOver
  <2> QED
    BY <2>1 DEF Pool!Next
<1>6. CASE UNCHANGED vars
  BY <1>6 DEF vars, Pool!poolVars
<1> QED
  BY <1>1, <1>2, <1>3, <1>4, <1>5, <1>6 DEF Next

(***************************************************************************)
(* The list and the buffers held behave as BufferPool promises until a     *)
(* client keeps a pointer to a buffer it has passed on: a buffer is given  *)
(* to one holder only, and only its holder gives it back.                  *)
(***************************************************************************)
THEOREM ImplementsPool == Spec => PoolSpec
<1>1. Init => Pool!Init
  BY InitRefines
<1>2. IInv /\ [Next]_vars => [Pool!Next \/ aliases' > 0]_(Pool!poolVars)
  BY NextRefines
<1> QED
  BY <1>1, <1>2, PoolInvariant, PTL DEF Spec, PoolSpec
=============================================================================
