--------------------------- MODULE NetworkBuffers ---------------------------
(***************************************************************************)
(* The network buffer pool of BufferAllocation_1.c: a list of free         *)
(* descriptors behind a critical section, and a counting semaphore that    *)
(* tells how many there are.  The two are never updated together: a task   *)
(* takes the semaphore before it takes from the list and puts into the     *)
(* list before it gives the semaphore, and may be preempted in between.    *)
(*                                                                         *)
(* The clients are left open: any task may ask for a buffer, hand a buffer *)
(* it holds to another task (the queues of the IP stack) and release it.   *)
(* A client may also keep a pointer to a buffer that it has handed over    *)
(* (the SPI driver does so with the frames of the MME handler) and release *)
(* the buffer again later.  No interrupt handler of the firmware uses the  *)
(* pool; here one does, in the behaviours where no pointer is kept: its    *)
(* release does not look whether the buffer is free.                       *)
(***************************************************************************)
EXTENDS Integers, FiniteSets, SequencesExt

CONSTANTS Task,         \* the tasks that use buffers
          Isr,          \* the interrupt handlers, as one more holder
          NumBuffers,   \* ipconfigNUM_NETWORK_BUFFER_DESCRIPTORS, 20
          IsrThreshold, \* baINTERRUPT_BUFFER_GET_THRESHOLD, 3
          MaxAliases    \* bound on the stale pointers kept

ASSUME PoolAssumption ==
  /\ Isr \notin Task
  /\ IsFiniteSet(Task)
  /\ NumBuffers \in Nat \ {0}
  /\ IsrThreshold \in Nat /\ MaxAliases \in Nat

Holder == Task \union {Isr}
Buffer == 1 .. NumBuffers

VARIABLES
  xFreeBuffersList,            \* the free descriptors, oldest first
  xNetworkBufferSemaphore,     \* the semaphore's count
  uxMinimumFreeNetworkBuffers,
  pc,       \* how far each task is in a call of the pool
  uxCount,  \* the list length each task has read
  held,     \* the buffers each client owns
  alias,    \* stale pointers: <<task, buffer>>
  aliases   \* how many stale pointers have been kept so far

vars == <<xFreeBuffersList, xNetworkBufferSemaphore,
          uxMinimumFreeNetworkBuffers, pc, uxCount, held, alias, aliases>>

stats   == <<uxMinimumFreeNetworkBuffers, uxCount>>
clients == <<held, alias, aliases>>

Init ==
  /\ xFreeBuffersList = [i \in Buffer |-> i]
  /\ xNetworkBufferSemaphore = NumBuffers
  /\ uxMinimumFreeNetworkBuffers = NumBuffers
  /\ pc = [t \in Task |-> "outside"]
  /\ uxCount = [t \in Task |-> 0]
  /\ held = [h \in Holder |-> {}]
  /\ alias = {} /\ aliases = 0

At(t, place)   == pc[t] = place
Goto(t, place) == pc' = [pc EXCEPT ![t] = place]
-----------------------------------------------------------------------------
(* pxGetNetworkBufferWithDescriptor; a call that times out changes nothing. *)

Available == xNetworkBufferSemaphore > 0

Take(t) ==
  /\ At(t, "outside")
  /\ Available
  /\ xNetworkBufferSemaphore' = xNetworkBufferSemaphore - 1
  /\ Goto(t, "taken")
  /\ UNCHANGED <<xFreeBuffersList, stats, clients>>

\* Mutant: the descriptor at the other end is unlinked.
MutListRemoveTail(list) == SubSeq(list, 1, Len(list) - 1)

ListRemoveHead(list) == Tail(list)

(***************************************************************************)
(* With an empty list the head is no descriptor: the call returns NULL and *)
(* the count that was taken is lost.                                       *)
(***************************************************************************)
RemoveHead(t) ==
  /\ At(t, "taken")
  /\ IF xFreeBuffersList = <<>>
       THEN /\ Goto(t, "outside")
            /\ UNCHANGED <<xFreeBuffersList, held>>
       ELSE /\ xFreeBuffersList' = ListRemoveHead(xFreeBuffersList)
            /\ held' = [held EXCEPT ![t] = @ \union {Head(xFreeBuffersList)}]
            /\ Goto(t, "obtained")
  /\ UNCHANGED <<xNetworkBufferSemaphore, stats, alias, aliases>>

ReadCount(t) ==
  /\ At(t, "obtained")
  /\ uxCount' = [uxCount EXCEPT ![t] = Len(xFreeBuffersList)]
  /\ Goto(t, "counted")
  /\ UNCHANGED <<xFreeBuffersList, xNetworkBufferSemaphore,
                 uxMinimumFreeNetworkBuffers, clients>>

CompareMinimum(t) ==
  /\ At(t, "counted")
  /\ Goto(t, IF uxMinimumFreeNetworkBuffers > uxCount[t]
               THEN "latching" ELSE "outside")
  /\ UNCHANGED <<xFreeBuffersList, xNetworkBufferSemaphore, stats, clients>>

LatchMinimum(t) ==
  /\ At(t, "latching")
  /\ uxMinimumFreeNetworkBuffers' = uxCount[t]
  /\ Goto(t, "outside")
  /\ UNCHANGED <<xFreeBuffersList, xNetworkBufferSemaphore, uxCount, clients>>
-----------------------------------------------------------------------------
(* vReleaseNetworkBufferAndDescriptor. *)

\* Mutant: no look at the list before the descriptor is inserted.
MutIsFreeUnchecked(b) == FALSE

IsFree(b) == b \in Range(xFreeBuffersList)

(***************************************************************************)
(* The critical section: a descriptor that is already in the list is left  *)
(* there, and the semaphore is not given for it.                           *)
(***************************************************************************)
InsertEnd(t, b) ==
  /\ At(t, "outside")
  /\ b \in held[t] \/ <<t, b>> \in alias
  /\ held' = [held EXCEPT ![t] = @ \ {b}]
  /\ alias' = alias \ {<<t, b>>}
  /\ IF IsFree(b)
       THEN UNCHANGED <<xFreeBuffersList, pc>>
       ELSE /\ xFreeBuffersList' = Append(xFreeBuffersList, b)
            /\ Goto(t, "inserted")
  /\ UNCHANGED <<xNetworkBufferSemaphore, stats, aliases>>

Given(count) == IF count < NumBuffers THEN count + 1 ELSE count

Give(t) ==
  /\ At(t, "inserted")
  /\ xNetworkBufferSemaphore' = Given(xNetworkBufferSemaphore)
  /\ Goto(t, "outside")
  /\ UNCHANGED <<xFreeBuffersList, stats, clients>>
-----------------------------------------------------------------------------
(* The calls for interrupt handlers, which no task can interrupt. *)

GetFromISR ==
  /\ aliases = 0
  /\ xNetworkBufferSemaphore > IsrThreshold
  /\ xNetworkBufferSemaphore' = xNetworkBufferSemaphore - 1
  /\ held' = [held EXCEPT ![Isr] = @ \union {Head(xFreeBuffersList)}]
  /\ xFreeBuffersList' = ListRemoveHead(xFreeBuffersList)
  /\ UNCHANGED <<stats, pc, alias, aliases>>

ReleaseFromISR(b) ==
  /\ b \in held[Isr]
  /\ held' = [held EXCEPT ![Isr] = @ \ {b}]
  /\ xFreeBuffersList' = Append(xFreeBuffersList, b)
  /\ xNetworkBufferSemaphore' = Given(xNetworkBufferSemaphore)
  /\ UNCHANGED <<stats, pc, alias, aliases>>
-----------------------------------------------------------------------------
(* The clients pass their buffers on to a task, and may keep a pointer. *)

HandOver(g, h, b) ==
  /\ g # h /\ h \in Task
  /\ g \in Task => At(g, "outside")
  /\ b \in held[g]
  /\ held' = [held EXCEPT ![g] = @ \ {b}, ![h] = @ \union {b}]
  /\ UNCHANGED <<xFreeBuffersList, xNetworkBufferSemaphore, stats, pc,
                 alias, aliases>>

KeepPointer(t, b) ==
  /\ aliases < MaxAliases /\ held[Isr] = {}
  /\ At(t, "outside")
  /\ b \in held[t]
  /\ alias' = alias \union {<<t, b>>}
  /\ aliases' = aliases + 1
  /\ UNCHANGED <<xFreeBuffersList, xNetworkBufferSemaphore, stats, pc, held>>

TaskStep(t) ==
  \/ Take(t) \/ RemoveHead(t)
  \/ ReadCount(t) \/ CompareMinimum(t) \/ LatchMinimum(t)
  \/ \E b \in Buffer : InsertEnd(t, b) \/ KeepPointer(t, b)
  \/ Give(t)

Next ==
  \/ \E t \in Task : TaskStep(t)
  \/ GetFromISR
  \/ \E b \in Buffer : ReleaseFromISR(b)
  \/ \E g, h \in Holder, b \in Buffer : HandOver(g, h, b)

Spec == Init /\ [][Next]_vars
-----------------------------------------------------------------------------
TypeOK ==
  /\ xFreeBuffersList \in Seq(Buffer)
  /\ xNetworkBufferSemaphore \in 0 .. NumBuffers
  /\ uxMinimumFreeNetworkBuffers \in 0 .. NumBuffers
  /\ pc \in [Task -> {"outside", "taken", "obtained", "counted", "latching",
                      "inserted"}]
  /\ uxCount \in [Task -> 0 .. NumBuffers]
  /\ held \in [Holder -> SUBSET Buffer]
  /\ alias \subseteq Task \X Buffer /\ aliases \in 0 .. MaxAliases

Within(place) == {t \in Task : pc[t] = place}

(***************************************************************************)
(* The semaphore and the list agree up to the calls that are under way,    *)
(* even when buffers are released twice: "if there is a semaphore          *)
(* available, there is a network buffer available", and no count is lost.  *)
(***************************************************************************)
SemaphoreMatchesList ==
  Len(xFreeBuffersList) = xNetworkBufferSemaphore
                          + Cardinality(Within("taken"))
                          + Cardinality(Within("inserted"))

(***************************************************************************)
(* No descriptor is linked into the list twice, even when it is released   *)
(* twice: a double release of a free buffer is noticed.                    *)
(***************************************************************************)
NoDoubleLink == IsInjective(xFreeBuffersList)

(***************************************************************************)
(* The list is what the semaphore counts, and each buffer once.            *)
(***************************************************************************)
ListIsSound == SemaphoreMatchesList /\ NoDoubleLink

(***************************************************************************)
(* As long as no client keeps a pointer, the list and the semaphore        *)
(* together do what BufferPool promises: every step of theirs, seen        *)
(* through the list alone, is a step of the abstract pool.                 *)
(***************************************************************************)
Pool == INSTANCE BufferPool WITH free <- Range(xFreeBuffersList)

PoolSpec == Pool!Init /\ [][Pool!Next \/ aliases' > 0]_(Pool!poolVars)

(***************************************************************************)
(* As long as no client keeps a pointer, each buffer is free or has one    *)
(* owner, whatever calls are under way.                                    *)
(***************************************************************************)
OneOwner == aliases = 0 => Pool!Partition
=============================================================================
