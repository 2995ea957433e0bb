---------------------------- MODULE ClickboardConfig ----------------------------
(***************************************************************************)
(* The clickboard manager (APP/ClickboardConfig/clickboard_config.c) and   *)
(* the tasks of the clickboards (APP/Clickboards), on top of SaveConfig.   *)
(*                                                                         *)
(* The web server's task handles one request after the other; it runs      *)
(* above the clickboards' tasks, which it creates and deletes, and shares  *)
(* the mutex of the I2C bus with them.  Each parameter of a request is an  *)
(* action; one that has to wait for the mutex is two.  A clickboard's task *)
(* can be preempted while it uses the bus.  xTaskCreate fails only with    *)
(* the allocation in it, and that does not return.                         *)
(***************************************************************************)
EXTENDS SaveConfig, FiniteSets

CONSTANTS
    InitTakesMutex,     \* the clickboards whose Init uses the bus
    None                \* no port, no task, no board

\* Ports and tags are the same thing, and so are clickboards and values.
Ports == Tags
Boards == Values

ASSUME BoardsAssumption == InitTakesMutex \subseteq Boards /\ None \notin Ports \cup Boards

VARIABLES
    xPortsActive,       \* of each clickboard: the port, or None
    task,               \* of each clickboard: "none", "ready" or on the "bus"
    xI2C1_Mutex,        \* "free", the clickboard that has it, or "dead"
    server,             \* the activation that waits for the mutex, or Serving
    erased              \* since the start the cache was emptied, or a write failed

boardVars == <<xPortsActive, task, xI2C1_Mutex, server, erased>>
vars == <<storeVars, boardVars>>

Serving == [board |-> None, port |-> None]
Active(p) == {b \in Boards : xPortsActive[b] = p}

\* Between two parameters: the server is neither in an activation nor in the store.
BetweenRequests == server = Serving /\ write.step = "idle"

-----------------------------------------------------------------------------
(* Starting and stopping clickboards *)

\* The Deinit functions: a task is deleted wherever it is, with the mutex if it
\* has it.
Deinit(out) ==
    xI2C1_Mutex' = IF xI2C1_Mutex \in out THEN "dead" ELSE xI2C1_Mutex

\* xClickboardDeactivate, for the clickboards `out': what it sets in the store.
Freed(out) == {xPortsActive[c] : c \in out}

\* xClickboardActivate: what is on the port, and the clickboard itself, are
\* deactivated; its Init comes next, and pvSetConfig last.
Activate(b, p) ==
    LET out == Active(p) \cup {c \in {b} : xPortsActive[b] # None}
        waits == b \in InitTakesMutex /\ xI2C1_Mutex # "free"
    IN  /\ BetweenRequests
        /\ xPortsActive[b] # p
        /\ xPortsActive' = [c \in Boards |-> IF c = b THEN p
                                             ELSE IF c \in out THEN None ELSE xPortsActive[c]]
        /\ task' = [c \in Boards |-> IF c = b /\ ~waits THEN "ready"
                                     ELSE IF c \in out THEN "none" ELSE task[c]]
        /\ Deinit(out)
        /\ server' = IF waits THEN [board |-> b, port |-> p] ELSE Serving
        /\ IF waits
           THEN SetConfig([q \in Freed(out) |-> NoValue])
           ELSE SetConfig([q \in Freed(out) \cup {p} |-> IF q = p THEN b ELSE NoValue])
        /\ UNCHANGED erased

\* The rest of an activation that had to wait for the mutex.
FinishActivate ==
    /\ server # Serving
    /\ xI2C1_Mutex = "free"
    /\ task' = [task EXCEPT ![server.board] = "ready"]
    /\ SetConfig([q \in {server.port} |-> server.board])
    /\ server' = Serving
    /\ UNCHANGED <<xPortsActive, xI2C1_Mutex, erased>>

\* A request with "none" for the port.
Deactivate(p) ==
    /\ BetweenRequests
    /\ Active(p) # {}
    /\ xPortsActive' = [c \in Boards |-> IF c \in Active(p) THEN None ELSE xPortsActive[c]]
    /\ task' = [c \in Boards |-> IF c \in Active(p) THEN "none" ELSE task[c]]
    /\ Deinit(Active(p))
    /\ SetConfig([q \in {p} |-> NoValue])
    /\ UNCHANGED <<server, erased>>

\* A request with "write" or "erase"; the server does not block in the store.
Write == BetweenRequests /\ WriteConfig /\ UNCHANGED boardVars

Erase ==
    /\ BetweenRequests
    /\ EraseConfig
    /\ erased' = TRUE
    /\ UNCHANGED <<xPortsActive, task, xI2C1_Mutex, server>>

\* What is on the page is not what was to be written there.
Failed == ~Verified(flash, write.destination) \/ flash[write.destination].list # write.buffer

Store ==
    /\ EraseSector \/ ProgramPage \/ VerifyWrite
    /\ erased' = (erased \/ (write.step = "verify" /\ Failed))
    /\ UNCHANGED <<xPortsActive, task, xI2C1_Mutex, server>>

-----------------------------------------------------------------------------
(* The clickboards' tasks, when the server lets them run *)

TakeMutex(b) ==
    /\ BetweenRequests
    /\ task[b] = "ready" /\ xI2C1_Mutex = "free"
    /\ task' = [task EXCEPT ![b] = "bus"]
    /\ xI2C1_Mutex' = b
    /\ UNCHANGED <<storeVars, xPortsActive, server, erased>>

\* Mutant: the mutex is given only to a request that already waits for it.
MutGiveMutex(b) ==
    /\ write.step = "idle"
    /\ task[b] = "bus"
    /\ task' = [task EXCEPT ![b] = "ready"]
    /\ xI2C1_Mutex' = IF server = Serving THEN xI2C1_Mutex ELSE "free"
    /\ UNCHANGED <<storeVars, xPortsActive, server, erased>>

GiveMutex(b) ==
    /\ write.step = "idle"
    /\ task[b] = "bus"
    /\ task' = [task EXCEPT ![b] = "ready"]
    /\ xI2C1_Mutex' = "free"
    /\ UNCHANGED <<storeVars, xPortsActive, server, erased>>

-----------------------------------------------------------------------------
(* Start-up *)

\* xClickboardsInit.  Of a tag without a value it reads address 0, the vector
\* table's first word, which is no clickboard's number.
PortInConfig(list, b) ==
    IF \E p \in Ports : list[p] = b THEN CHOOSE p \in Ports : list[p] = b ELSE None

RestartBoards ==
    /\ Restart
    /\ xPortsActive' = [b \in Boards |-> PortInConfig([t \in Tags |-> cache'[t].value], b)]
    /\ task' = [b \in Boards |-> IF xPortsActive'[b] = None THEN "none" ELSE "ready"]
    /\ xI2C1_Mutex' = "free"
    /\ server' = Serving
    /\ erased' = FALSE

Init ==
    /\ InitStore
    /\ xPortsActive = [b \in Boards |-> None]
    /\ task = [b \in Boards |-> "none"]
    /\ xI2C1_Mutex = "free"
    /\ server = Serving
    /\ erased = FALSE

Next ==
    \/ \E b \in Boards, p \in Ports : Activate(b, p)
    \/ FinishActivate
    \/ \E p \in Ports : Deactivate(p)
    \/ Write
    \/ Erase
    \/ Store
    \/ \E b \in Boards : TakeMutex(b) \/ GiveMutex(b)
    \/ RestartBoards

\* A clickboard's task gets through what it does on the bus when the server
\* waits for it or has nothing to do, and the server goes on with the mutex.
Fairness ==
    /\ WF_vars(FinishActivate)
    /\ WF_vars(Store)
    /\ \A b \in Boards : WF_vars(GiveMutex(b))

Spec == Init /\ [][Next]_vars /\ Fairness

-----------------------------------------------------------------------------
TypeOK ==
    /\ StoreTypeOK
    /\ xPortsActive \in [Boards -> Ports \cup {None}]
    /\ task \in [Boards -> {"none", "ready", "bus"}]
    /\ xI2C1_Mutex \in {"free", "dead"} \cup Boards
    /\ server \in [board : Boards, port : Ports] \cup {Serving}
    /\ erased \in BOOLEAN

\* Between requests the clickboards that run are those the store would save,
\* each on its port: neither a clickboard that moves to the other port, nor one
\* that is replaced, nor a restart in the middle of a write leaves one running
\* that is not in the store, or one in the store that is not running
\* (clickboard_config.c:142-167, 184-198, 286-304).
RunningIsStored ==
    BetweenRequests /\ ~erased =>
        \A b \in Boards, p \in Ports : (cache[p].value = b) = (task[b] # "none" /\ xPortsActive[b] = p)

\* A request that waits for the bus (color2click.c:343, expand2click.c:263) is
\* answered, unless the mutex went with a deleted task.
RequestReturns == (server # Serving) ~> (server = Serving \/ xI2C1_Mutex = "dead")
=============================================================================
