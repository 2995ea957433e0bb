------------------------------- MODULE QcaBurst -------------------------------
(***************************************************************************)
(* One DMA burst between the SPI thread and the QCA7000: the channels, the *)
(* dispatcher of the DMA's interrupt, and the counting semaphore by which  *)
(* the interrupt tells the thread that a transfer has ended.  A write uses *)
(* one channel.  A read uses two: the SSP has to send to drive the clock,  *)
(* so dummy data goes out while the frame comes in.                        *)
(*                                                                         *)
(* The interrupt may come between any two steps of the thread, and the     *)
(* thread does not run before it has ended.  The DMA itself runs on beside *)
(* both.  A channel may end in an error; it does so at most MaxFailed      *)
(* times, a bound of the model.                                            *)
(***************************************************************************)
EXTENDS Integers, Sequences

CONSTANTS
    NChannels,  \* GPDMA_NUMBER_CHANNELS
    MaxFailed

ASSUME BurstAssumption == NChannels \in Nat /\ NChannels >= 2 /\ MaxFailed \in Nat

VARIABLES
    thread,         \* the SPI thread: its step, the transfers of the burst, how
                    \* many of them the step is done with, and their channels
    ChannelStatus,  \* the channels whose status is ENABLE: not free
    handler,        \* the channels with a function in the dispatcher
    enabled,        \* ENBLDCHNS: the channels the DMA works on
    tc, err,        \* the pending terminal count and error interrupts
    semaphore,      \* xGreenPHY_DMASemaphore
    isr,            \* the channel DMA_IRQHandler looks at, or NChannels
    errors          \* how many transfers have failed

hardware == <<enabled, tc, err>>
burstVars == <<thread, ChannelStatus, handler, hardware, semaphore, isr, errors>>

Channel == 0 .. NChannels - 1
Write == 1
Read == 2
SemaphoreMax == 2

Idle == [step |-> "idle", transfers |-> 0, done |-> 0, channels |-> <<>>]

\* The transfer that the thread's step is to do next: the outgoing one is first.
Ch == thread.channels[thread.done + 1]

\* The same step for the burst's next transfer, or the next step.
Advance(next) ==
    LET more == thread.done + 1 < thread.transfers
    IN [step |-> IF more THEN thread.step ELSE next,
        transfers |-> thread.transfers,
        done |-> IF more THEN thread.done + 1 ELSE 0,
        channels |-> thread.channels]

-----------------------------------------------------------------------------
(* The thread *)

Runs(step) == isr = NChannels /\ thread.step = step

Burst(kind) ==
    /\ Runs("idle")
    /\ thread' = [Idle EXCEPT !.step = "acquire", !.transfers = kind]
    /\ UNCHANGED <<ChannelStatus, handler, hardware, semaphore, isr, errors>>

\* Mutant: the channel is given out and remains free.
MutAcquire(c) == UNCHANGED ChannelStatus
Acquire(c) == ChannelStatus' = ChannelStatus \cup {c}

\* The first free channel; channel 0 when there is none.
GetFreeChannel ==
    /\ Runs("acquire")
    /\ LET unused == Channel \ (ChannelStatus \cup enabled)
       IN IF unused = {}
          THEN /\ thread' = [Advance("register") EXCEPT !.channels = Append(@, 0)]
               /\ UNCHANGED ChannelStatus
          ELSE \E c \in unused :
                /\ \A d \in unused : c <= d
                /\ thread' = [Advance("register") EXCEPT !.channels = Append(@, c)]
                /\ Acquire(c)
    /\ UNCHANGED <<handler, hardware, semaphore, isr, errors>>

\* registerInterruptHandlerDMA; a channel that has a function keeps it.
RegisterHandler ==
    /\ Runs("register")
    /\ handler' = handler \cup {Ch}
    /\ thread' = Advance("transfer")
    /\ UNCHANGED <<ChannelStatus, hardware, semaphore, isr, errors>>

\* Chip_GPDMA_Transfer, whose result nobody looks at: it fails if the channel works.
Transfer ==
    /\ Runs("transfer")
    /\ IF Ch \in enabled
       THEN UNCHANGED hardware
       ELSE /\ enabled' = enabled \cup {Ch}
            /\ tc' = tc \ {Ch}
            /\ err' = err \ {Ch}
    /\ thread' = Advance("wait")
    /\ UNCHANGED <<ChannelStatus, handler, semaphore, isr, errors>>

\* Mutant: a read waits for one of its transfers.
MutAwaited == [thread EXCEPT !.step = "stop", !.done = 0]
Awaited == Advance("stop")

\* xSemaphoreTake without a timeout.
Take ==
    /\ Runs("wait")
    /\ semaphore > 0
    /\ semaphore' = semaphore - 1
    /\ thread' = Awaited
    /\ UNCHANGED <<ChannelStatus, handler, hardware, isr, errors>>

\* Chip_GPDMA_Stop
Stop ==
    /\ Runs("stop")
    /\ enabled' = enabled \ {Ch}
    /\ tc' = tc \ {Ch}
    /\ err' = err \ {Ch}
    /\ ChannelStatus' = ChannelStatus \ {Ch}
    /\ thread' = IF Advance("idle").step = "idle" THEN Idle ELSE Advance("idle")
    /\ UNCHANGED <<handler, semaphore, isr, errors>>

ThreadStep == GetFreeChannel \/ RegisterHandler \/ Transfer \/ Take \/ Stop

-----------------------------------------------------------------------------
(* The DMA, which the SSP asks for data while the thread waits *)

\* What comes in is clocked by what goes out.
Works(c) ==
    /\ thread.step = "wait"
    /\ c \in enabled
    /\ thread.channels[1] = c \/ thread.channels[1] \notin enabled \cup err

Finish(c) ==
    /\ Works(c)
    /\ enabled' = enabled \ {c}
    /\ tc' = tc \cup {c}
    /\ UNCHANGED <<thread, ChannelStatus, handler, err, semaphore, isr, errors>>

Fail(c) ==
    /\ Works(c)
    /\ errors < MaxFailed
    /\ errors' = errors + 1
    /\ enabled' = enabled \ {c}
    /\ err' = err \cup {c}
    /\ UNCHANGED <<thread, ChannelStatus, handler, tc, semaphore, isr>>

-----------------------------------------------------------------------------
(* The interrupt: enabled while the dispatcher has a function *)

Interrupt ==
    /\ isr = NChannels
    /\ handler # {} /\ tc \cup err # {}
    /\ isr' = 0
    /\ UNCHANGED <<thread, ChannelStatus, handler, hardware, semaphore, errors>>

Unregister(c) == handler' = handler \ {c}

\* One turn of the loop in DMA_IRQHandler.
Dispatch ==
    /\ isr \in Channel
    /\ isr' = isr + 1
    /\ IF isr \in handler /\ isr \in tc
       THEN /\ tc' = tc \ {isr}
            /\ semaphore' = IF semaphore < SemaphoreMax THEN semaphore + 1 ELSE semaphore
            /\ Unregister(isr)
            /\ UNCHANGED err
       ELSE /\ err' = IF isr \in handler THEN err \ {isr} ELSE err
            /\ UNCHANGED <<tc, semaphore, handler>>
    /\ UNCHANGED <<thread, ChannelStatus, enabled, errors>>

-----------------------------------------------------------------------------
BurstInit ==
    /\ thread = Idle
    /\ ChannelStatus = {} /\ handler = {}
    /\ enabled = {} /\ tc = {} /\ err = {}
    /\ semaphore = 0
    /\ isr = NChannels
    /\ errors = 0

BurstNext ==
    \/ \E kind \in {Write, Read} : Burst(kind)
    \/ GetFreeChannel \/ RegisterHandler \/ Transfer \/ Take \/ Stop
    \/ \E c \in Channel : Finish(c) \/ Fail(c)
    \/ Interrupt \/ Dispatch

\* The thread has the highest priority, the interrupt comes and ends, and the DMA
\* ends every transfer.
BurstFairness ==
    /\ WF_burstVars(ThreadStep)
    /\ WF_burstVars(\E c \in Channel : Finish(c) \/ Fail(c))
    /\ WF_burstVars(Interrupt \/ Dispatch)

BurstSpec == BurstInit /\ [][BurstNext]_burstVars /\ BurstFairness

-----------------------------------------------------------------------------
BurstTypeOK ==
    /\ thread \in [step : {"idle", "acquire", "register", "transfer", "wait", "stop"},
                   transfers : {0, Write, Read}, done : {0, 1}, channels : Seq(Channel)]
    /\ ChannelStatus \subseteq Channel /\ handler \subseteq Channel
    /\ enabled \subseteq Channel /\ tc \subseteq Channel /\ err \subseteq Channel
    /\ semaphore \in 0 .. SemaphoreMax
    /\ isr \in 0 .. NChannels
    /\ errors \in Nat

\* A burst that goes on has all its data, and leaves nothing to the next: the
\* thread is released once for each of its transfers and by nothing else, or it
\* would use what is still being written, and the next burst would be
\* released by this one's interrupt.
NothingLeftOver ==
    thread.step \in {"stop", "idle"} =>
        enabled = {} /\ handler = {} /\ tc = {} /\ err = {} /\ semaphore = 0 /\ errors = 0

\* Every burst ends, unless one of its transfers fails: then the interrupt clears
\* the error and gives nothing, and the thread waits for ever (qca_spi.c:152, 234).
BurstEnds == (thread.step # "idle") ~> (thread.step = "idle" \/ errors > 0)
=============================================================================
