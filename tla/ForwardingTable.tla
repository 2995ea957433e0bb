--------------------------- MODULE ForwardingTable ---------------------------
(***************************************************************************)
(* The bridge's forwarding table and forwarding decision                   *)
(* (FreeRTOS_Bridge.c).                                                    *)
(*                                                                         *)
(* The tasks of the two drivers learn from every frame they receive; they  *)
(* have one priority above the IP task and do not block in the table, so a *)
(* call of theirs is one step.  The IP task enters the device's own        *)
(* address, looks up where to send its frames, and ages the table; its     *)
(* loops go row by row, and the drivers may preempt them at any row.       *)
(*                                                                         *)
(* A behaviour has a mode: whether anything calls vAgeForwardingTable      *)
(* (nothing in the firmware does), and whether the drivers do preempt the  *)
(* IP task in the table (in the firmware they do).                         *)
(*                                                                         *)
(* A row is a record [pxInterface, xMACAddress, ucAge]; the table is the   *)
(* sequence of the rows that are counted as used, its length is            *)
(* uxForwardTableMaxUse.  A driver that preempts the IP task between its   *)
(* tests of that count and its increment can bring it above the size of    *)
(* the array.  The rows from there on are the memory behind it: taken for  *)
(* free rows or for rows in use, but not for those of a station, and what  *)
(* a driver's writing them does to the variables that really are there is  *)
(* not modelled.                                                           *)
(***************************************************************************)
EXTENDS Integers, Sequences, FiniteSets

CONSTANTS Station,     \* the addresses of the stations in the network
          Own,         \* the address of the device's endpoint
          Port,        \* the bridged interfaces
          Bridge,      \* the bridge interface, where the IP task is
          Broadcast, Null,
          Places,      \* the interfaces each station may be reached by
          Entries,     \* ipconfigFORWARDING_TABLE_ENTRIES, 32
          MaxAge,      \* ipconfigMAX_FORWARDING_TABLE_AGE, 30
          Modes        \* the ways to run the table

INFINITE  == 255       \* INFINITE_FORWARDING_TABLE_AGE
UINT8_MAX == 255

ASSUME TableAssumption ==
  /\ Own \notin Station /\ Bridge \notin Port
  /\ Broadcast \notin Station \union {Own}
  /\ Null \notin Station \union {Own, Bridge} \union Port
  /\ Places \in [Station -> SUBSET Port]
  /\ Entries \in Nat \ {0} /\ MaxAge \in 1 .. INFINITE - 1
  /\ Modes \subseteq [aging : BOOLEAN, preempted : BOOLEAN]

Address   == Station \union {Own}
AnyInterface == Port \union {Bridge}

VARIABLES
  mode,
  xForwardingTable,
  initialised, \* the bridge interface's bInterfaceInitialised
  pc,          \* where the IP task is in the table
  x,           \* the row of its loop
  use,         \* its xUseEntry's candidate to replace, xOldestEntry
  age,         \* the age it has loaded
  dst,         \* the address it looks up
  forwarded,   \* the last forwarding decision
  seen,        \* history: where each station was last heard
  silent       \* history: timer periods since then, up to MaxAge

ip      == <<pc, x, use, age, dst>>
history == <<forwarded, seen, silent>>
tableVars    == <<mode, xForwardingTable, initialised, ip, history>>

Unused == [pxInterface |-> Null, xMACAddress |-> Null, ucAge |-> 0]

NoDecision == [from |-> Null, dst |-> Null, found |-> Null, to |-> {}]

TableInit ==
  /\ mode \in Modes
  /\ xForwardingTable = <<>> /\ initialised = FALSE
  /\ pc = "idle" /\ x = 1 /\ use = 1 /\ age = 0 /\ dst = Own
  /\ forwarded = NoDecision
  /\ seen = [s \in Station |-> Null] /\ silent = [s \in Station |-> 0]
-----------------------------------------------------------------------------
(* The operations as the drivers see them, in one step each. *)

LowestOf(rows) == CHOOSE r \in rows : \A q \in rows : r <= q

\* Mutant: the last row with the address is taken.
MutFoundLast(t, mac) ==
  LET hits == {r \in DOMAIN t : /\ t[1].pxInterface # Null
                                /\ t[r].xMACAddress = mac}
  IN  IF hits = {} THEN Null
      ELSE t[CHOOSE r \in hits : \A q \in hits : q <= r].pxInterface

\* Mutant: off by one, the last row is not looked at.
MutFoundShort(t, mac) ==
  LET hits == {r \in 1 .. Len(t) - 1 : /\ t[1].pxInterface # Null
                                       /\ t[r].xMACAddress = mac}
  IN  IF hits = {} THEN Null ELSE t[LowestOf(hits)].pxInterface

(***************************************************************************)
(* pxFindInterfaceOnMAC.  The row it tests for being in use is the first   *)
(* one, whatever row it is at.                                             *)
(***************************************************************************)
Found(t, mac) ==
  LET hits == {r \in DOMAIN t : /\ t[1].pxInterface # Null
                                /\ t[r].xMACAddress = mac}
  IN  IF hits = {} THEN Null ELSE t[LowestOf(hits)].pxInterface

\* Mutant: a full table replaces its first row.
MutOldestFirst(t) == {1}

(***************************************************************************)
(* The row that a full table gives up: the first of the lowest age; with   *)
(* no age below INFINITE, xOldestEntry is never assigned.                  *)
(***************************************************************************)
Oldest(t) ==
  LET aged == {r \in DOMAIN t : t[r].ucAge < INFINITE}
      low  == {r \in aged : \A q \in aged : t[r].ucAge <= t[q].ucAge}
  IN  IF low = {} THEN DOMAIN t ELSE {LowestOf(low)}

Usable(row, mac) == row.pxInterface = Null \/ row.xMACAddress = mac

Write(t, r, mac, iface, a) ==
  [t EXCEPT ![r] = [pxInterface |-> iface, xMACAddress |-> mac, ucAge |-> a]]

(***************************************************************************)
(* vRefreshForwardingTableEntry: the tables it may leave.                  *)
(***************************************************************************)
Refreshed(t, mac, iface, a) ==
  LET usable == {r \in DOMAIN t : Usable(t[r], mac)}
  IN  IF usable # {} THEN {Write(t, LowestOf(usable), mac, iface, a)}
      ELSE IF Len(t) # Entries
        THEN {Write(Append(t, Unused), Len(t) + 1, mac, iface, a)}
      ELSE {Write(t, r, mac, iface, a) : r \in Oldest(t)}

(***************************************************************************)
(* The decision of xBridge_Process: to the interface of the destination,   *)
(* or, when that is not known, to all the others whose link is up; to the  *)
(* bridge interface, whose addresses are all known, broadcasts only.       *)
(***************************************************************************)
FloodTo(from, d, up) ==
  {i \in up \union {Bridge} : i # from /\ (i # Bridge \/ d = Broadcast)}

Decide(from, d, found, up) ==
  forwarded' = [from |-> from, dst |-> d, found |-> found,
                to |-> IF found = Null THEN FloodTo(from, d, up)
                                       ELSE {found} \ {from}]
-----------------------------------------------------------------------------
(* A driver receives a frame. *)

Receive(i, src, d) ==
  /\ i \in Places[src]
  /\ d # src
  /\ mode.preempted \/ pc = "idle"
  /\ \E up \in SUBSET Port :
       Decide(i, d, IF d = Broadcast THEN Null
                                     ELSE Found(xForwardingTable, d), up)
  /\ xForwardingTable' \in Refreshed(xForwardingTable, src, i, MaxAge)
  /\ seen' = [seen EXCEPT ![src] = i]
  /\ silent' = [silent EXCEPT ![src] = 0]
  /\ UNCHANGED <<mode, initialised, ip>>
-----------------------------------------------------------------------------
(* The IP task. *)

Row == xForwardingTable[x]

Goto(place) == pc' = place

(***************************************************************************)
(* xBridge_NetworkInterfaceInitialise enters the device's own address,     *)
(* with the same call, but preemptible.                                    *)
(***************************************************************************)
StartInitialise ==
  /\ pc = "idle" /\ ~initialised
  /\ Goto("scan") /\ x' = 1 /\ age' = UINT8_MAX /\ use' \in 1 .. Entries
  /\ UNCHANGED <<mode, xForwardingTable, initialised, dst, history>>

Scan ==
  /\ pc = "scan"
  /\ IF x > Len(xForwardingTable) \/ Usable(Row, Own)
       THEN Goto("claim") /\ UNCHANGED <<x, use, age>>
       ELSE /\ x' = x + 1
            /\ IF Row.ucAge < age
                 THEN age' = Row.ucAge /\ use' = x
                 ELSE UNCHANGED <<age, use>>
            /\ UNCHANGED pc
  /\ UNCHANGED <<mode, xForwardingTable, initialised, dst, history>>

(***************************************************************************)
(* Was that all of the table, and is the table full?                       *)
(***************************************************************************)
Claim ==
  /\ pc = "claim"
  /\ IF x # Len(xForwardingTable) + 1 THEN Goto("mac") /\ UNCHANGED x
     ELSE IF x = Entries + 1 THEN Goto("mac") /\ x' = use
     ELSE Goto("count") /\ UNCHANGED x
  /\ UNCHANGED <<mode, xForwardingTable, initialised, use, age, dst, history>>

\* In the place of the first row behind the array: one free, or one in use.
Foreign == [Unused EXCEPT !.pxInterface = Bridge]

Counting(t, n) ==
  IF n <= Len(t) THEN {SubSeq(t, 1, n)}
  ELSE {Append(t, row) : row \in IF n <= Entries THEN {Unused}
                                                ELSE {Unused, Foreign}}

(***************************************************************************)
(* uxForwardTableMaxUse++ stores one more than it has read, and that may   *)
(* have been any value of the count since the test: drivers that append    *)
(* before the reading make it count an unused row, those that append       *)
(* between the reading and the storing are not counted.                    *)
(***************************************************************************)
Increment ==
  /\ pc = "count" /\ Goto("mac")
  /\ \E read \in x - 1 .. Len(xForwardingTable) :
       xForwardingTable' \in Counting(xForwardingTable, read + 1)
  /\ UNCHANGED <<mode, initialised, x, use, age, dst, history>>

Assign(field, value) ==
  /\ xForwardingTable' = [xForwardingTable EXCEPT ![x][field] = value]
  /\ UNCHANGED <<mode, x, use, age, dst, history>>

WriteMac ==
  /\ pc = "mac" /\ Goto("interface")
  /\ Assign("xMACAddress", Own)
  /\ UNCHANGED initialised

WriteInterface ==
  /\ pc = "interface" /\ Goto("age")
  /\ Assign("pxInterface", Bridge)
  /\ UNCHANGED initialised

\* Mutant: the device's own address is entered with the age of a station's.
MutWriteAge ==
  /\ pc = "age" /\ Goto("idle")
  /\ Assign("ucAge", MaxAge)
  /\ initialised' = TRUE

WriteAge ==
  /\ pc = "age" /\ Goto("idle")
  /\ Assign("ucAge", INFINITE)
  /\ initialised' = TRUE

(***************************************************************************)
(* xBridge_NetworkInterfaceOutput: a frame of the IP task.                 *)
(***************************************************************************)
StartOutput(d) ==
  /\ pc = "idle" /\ initialised
  /\ Goto("find") /\ x' = 1 /\ dst' = d
  /\ UNCHANGED <<mode, xForwardingTable, initialised, use, age, history>>

Hit == xForwardingTable[1].pxInterface # Null /\ Row.xMACAddress = dst

FindNext ==
  /\ pc = "find" /\ x <= Len(xForwardingTable)
  /\ IF Hit THEN Goto("found") /\ UNCHANGED x ELSE x' = x + 1 /\ UNCHANGED pc
  /\ UNCHANGED <<mode, xForwardingTable, initialised, use, age, dst, history>>

Dispatched(found) ==
  /\ Goto("idle")
  /\ \E up \in SUBSET Port : Decide(Bridge, dst, found, up)
  /\ UNCHANGED <<mode, xForwardingTable, initialised, x, use, age, dst, seen,
                 silent>>

SendFound    == pc = "found" /\ Dispatched(Row.pxInterface)
SendNotFound == pc = "find" /\ x > Len(xForwardingTable) /\ Dispatched(Null)

(***************************************************************************)
(* ipFORWARDING_TABLE_TIMER_PERIOD_MS passes.  In the firmware nothing     *)
(* happens then: vAgeForwardingTable has no caller.                        *)
(***************************************************************************)
OnePeriodMore == [s \in Station |-> IF silent[s] < MaxAge THEN silent[s] + 1
                                                          ELSE MaxAge]

TimerPeriod ==
  /\ pc = "idle"
  /\ IF mode.aging THEN Goto("load") /\ x' = 1 ELSE UNCHANGED <<pc, x>>
  /\ silent' = OnePeriodMore
  /\ UNCHANGED <<mode, xForwardingTable, initialised, use, age, dst, forwarded,
                 seen>>

LoadAge ==
  /\ pc = "load" /\ x <= Len(xForwardingTable)
  /\ IF Row.ucAge = INFINITE
       THEN x' = x + 1 /\ UNCHANGED <<pc, age>>
       ELSE Goto("store") /\ age' = Row.ucAge /\ UNCHANGED x
  /\ UNCHANGED <<mode, xForwardingTable, initialised, use, dst, history>>

Older(a) == (a - 1) % (UINT8_MAX + 1)

StoreAge ==
  /\ pc = "store" /\ Goto("wipe")
  /\ xForwardingTable' = [xForwardingTable EXCEPT ![x].ucAge = Older(age)]
  /\ UNCHANGED <<mode, initialised, x, use, age, dst, history>>

Wipe ==
  /\ pc = "wipe" /\ Goto("load")
  /\ x' = x + 1
  /\ xForwardingTable' = [xForwardingTable EXCEPT ![x].pxInterface =
                            IF Row.ucAge = 0 THEN Null ELSE @]
  /\ UNCHANGED <<mode, initialised, use, age, dst, history>>

EndAging ==
  /\ pc = "load" /\ x > Len(xForwardingTable)
  /\ Goto("idle")
  /\ UNCHANGED <<mode, xForwardingTable, initialised, x, use, age, dst, history>>

IpTask ==
  \/ StartInitialise \/ Scan \/ Claim \/ Increment
  \/ WriteMac \/ WriteInterface \/ WriteAge
  \/ \E d \in Station : StartOutput(d)
  \/ FindNext \/ SendFound \/ SendNotFound
  \/ TimerPeriod \/ LoadAge \/ StoreAge \/ Wipe \/ EndAging

TableNext ==
  \/ \E i \in Port, s \in Station, d \in Address \union {Broadcast} :
       Receive(i, s, d)
  \/ IpTask

TableSpec == TableInit /\ [][TableNext]_tableVars
-----------------------------------------------------------------------------
TableTypeOK ==
  /\ mode \in Modes
  /\ xForwardingTable \in Seq([pxInterface : AnyInterface \union {Null},
                               xMACAddress : Address \union {Null},
                               ucAge : 0 .. UINT8_MAX])
  /\ initialised \in BOOLEAN
  /\ pc \in {"idle", "scan", "claim", "count", "mac", "interface", "age",
             "find", "found", "load", "store", "wipe"}
  /\ x \in 1 .. Len(xForwardingTable) + 1 /\ use \in 1 .. Entries /\ age \in 0 .. UINT8_MAX
  /\ dst \in Address
  /\ forwarded \in [from : AnyInterface \union {Null},
                    dst : Address \union {Broadcast, Null},
                    found : AnyInterface \union {Null}, to : SUBSET AnyInterface]
  /\ seen \in [Station -> Port \union {Null}]
  /\ silent \in [Station -> 0 .. MaxAge]

Live(r) == xForwardingTable[r].pxInterface # Null

RowsOf(mac) == {r \in DOMAIN xForwardingTable :
                  Live(r) /\ xForwardingTable[r].xMACAddress = mac}

(***************************************************************************)
(* A station that moved is never found at the port it has left: "a         *)
(* previously used entry of this MAC" that "may be left for time out" does *)
(* not hide the new one.                                                   *)
(***************************************************************************)
NewestWins ==
  \A s \in Station : Found(xForwardingTable, s) \in Port =>
                       Found(xForwardingTable, s) = seen[s]

(***************************************************************************)
(* "The forwarding table is used to determine which interface can reach a  *)
(* specific MAC": as long as no row ever expires, an address with a row in *)
(* use is found, preempted or not.                                         *)
(***************************************************************************)
KnownIsFound ==
  ~mode.aging =>
    \A a \in Address : RowsOf(a) # {} => Found(xForwardingTable, a) # Null

(***************************************************************************)
(* Once the device's own address is in the table it stays, and a frame for *)
(* it reaches the IP task, however many stations the table has to hold,    *)
(* however old it gets and whoever preempts whom.                          *)
(***************************************************************************)
DeviceKnown == Found(xForwardingTable, Own) = Bridge /\ initialised

DeviceStays ==
  [][DeviceKnown =>
       /\ RowsOf(Own)' # {}
       /\ forwarded' # forwarded /\ forwarded'.dst = Own
            => Bridge \in forwarded'.to]_tableVars

(***************************************************************************)
(* "When the Interface is initialised the EndPoint's MAC is added to the   *)
(* forwarding table": from then on a frame for the device reaches its IP   *)
(* task, in a table that is not aged (see KnownIsFound) and provided that  *)
(* no driver preempts the entry.  In the firmware one may (line 160): it   *)
(* takes the row whose address the IP task has just written, the entry is  *)
(* lost, and the row sends the frames of a station to the device.          *)
(***************************************************************************)
DeviceReachable ==
  [][~mode.preempted /\ ~mode.aging =>
       (initialised /\ forwarded' # forwarded /\ forwarded'.dst = Own
          => Bridge \in forwarded'.to)]_tableVars

(***************************************************************************)
(* MaxAge is "the maximum time between an entry in the forwarding table    *)
(* being created or refreshed and the entry being removed", if anything    *)
(* ages the table.                                                         *)
(***************************************************************************)
StaleRowsExpire ==
  mode.aging /\ pc = "idle" =>
    \A s \in Station : silent[s] = MaxAge => RowsOf(s) = {}

(***************************************************************************)
(* A row says where a station was heard of last, and not for longer than   *)
(* that counts.                                                            *)
(***************************************************************************)
RowsAreFresh == NewestWins /\ StaleRowsExpire
==============================================================================
