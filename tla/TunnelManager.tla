--------------------------- MODULE TunnelManager ---------------------------
(***************************************************************************)
(* The server's registry of device tunnels (tunnel/manager.go) and the     *)
(* connection handlers that drive it (tunnel/server.go), for one device.   *)
(*                                                                         *)
(* The registry maps a device to one DeviceConnection, an item that holds  *)
(* the QUIC control and data connections, the TCP control connection and a *)
(* buffered channel of idle TCP data connections.  The map is protected by *)
(* a mutex; everything that follows an update of the map (closing the      *)
(* replaced item, updating the device_connections table) runs after the    *)
(* mutex is released and interleaves with every other thread.              *)
(*                                                                         *)
(* Abstractions.  An item is named by the connection whose registration    *)
(* allocated it: a connection sends one hello, so it allocates at most one *)
(* item.  The channel of TCP data connections is a set: no property tells  *)
(* apart which idle connection is taken first.  A connection may fail at   *)
(* any time, so a read, write or accept on it may fail in every state.     *)
(* Frames, timestamps and the info record are left out.                    *)
(***************************************************************************)
EXTENDS Naturals, FiniteSets

CONSTANTS
  QConns,    \* QUIC connections the device may open
  TConns,    \* TCP connections the device may open
  Openers,   \* gateway goroutines calling OpenTCPStream / OpenServiceLogStream
  Admin,     \* the goroutine calling CloseDevice (device deletion)
  Stopper,   \* the goroutine calling Server.Stop
  RolePlans, \* which connections the device opens, and the role each announces
  QueueCap,  \* capacity of the tcpData channel (64 in the code)
  None       \* nil

Conns == QConns \cup TConns
Threads == Conns \cup Openers \cup {Admin, Stopper}

ASSUME ConnsAssumption ==
  /\ QConns \cap TConns = {}
  /\ None \notin Conns

RoleValues == {"absent", "legacy", "control", "data"}

ASSUME RolePlansAssumption == RolePlans \subseteq [Conns -> RoleValues]

ASSUME ThreadsAssumption ==
  /\ Openers \cap Conns = {}
  /\ Admin \notin Conns \cup Openers
  /\ Stopper \notin Conns \cup Openers \cup {Admin}

ASSUME QueueCapAssumption == QueueCap \in Nat \ {0}

VARIABLES
  current,   \* the item registered for the device, or None
  items,     \* the items, named by the connection that allocated them
  role,      \* the role in each connection's hello (constant; "absent": not opened)
  pc,        \* where each goroutine is
  victim,    \* the item (or replaced data connection) a goroutine must close
  closed,    \* connections the server has closed
  snap,      \* the item and data connection an opener read under the lock
  held,      \* the TCP data connection an opener took from the channel
  rows,      \* device_connections: the row each control registration inserted
             \* ("swept": disabled, and by the sweep of stale rows)
  overlap    \* auxiliary: the last registration or teardown met another

vars == <<current, items, role, pc, victim, closed, snap, held, rows, overlap>>

-----------------------------------------------------------------------------
Item == [control: QConns \cup {None}, data: QConns \cup {None},
         tcpControl: TConns \cup {None}, tcpData: SUBSET TConns]
EmptyItem == [control |-> None, data |-> None, tcpControl |-> None, tcpData |-> {}]
Snapshot == [item: Conns \cup {None}, data: QConns \cup {None}]
NoSnapshot == [item |-> None, data |-> None]

\* An item with a control channel is a tunnel; without one it was allocated by
\* a data connection that found no item.
Controlled(i) == items[i].control # None \/ items[i].tcpControl # None

\* The connections an item refers to.
Members(i) ==
  ({items[i].control, items[i].data, items[i].tcpControl} \ {None}) \cup items[i].tcpData

\* A goroutine between its update of the map and its last database statement.
Updating(t) == pc[t] \in {"close", "drain", "mark", "record"}
Overlapping(t) == \E u \in Threads \ {t} : Updating(u)

\* A goroutine that still has to close item i.
Closing(t, i) == victim[t] = i /\ pc[t] \in {"close", "drain"}

TypeOK ==
  /\ current \in Conns \cup {None}
  /\ items \in [Conns -> Item]
  /\ role \in [Conns -> RoleValues]
  /\ pc \in [Threads -> {"hello", "closeData", "close", "drain", "mark",
                         "record", "serving", "idle", "try", "ack", "fallback",
                         "session", "done"}]
  /\ victim \in [Threads -> Conns \cup {None}]
  /\ closed \subseteq Conns
  /\ snap \in [Openers -> Snapshot]
  /\ held \in [Openers -> TConns \cup {None}]
  /\ rows \in [Conns -> {"none", "enabled", "disabled", "swept"}]
  /\ overlap \in BOOLEAN

Init ==
  /\ current = None
  /\ items = [c \in Conns |-> EmptyItem]
  /\ role \in RolePlans
  /\ pc = [t \in Threads |-> IF t \notin Conns THEN "idle"
                              ELSE IF role[t] = "absent" THEN "done" ELSE "hello"]
  /\ victim = [t \in Threads |-> None]
  /\ closed = {}
  /\ snap = [o \in Openers |-> NoSnapshot]
  /\ held = [o \in Openers |-> None]
  /\ rows = [c \in Conns |-> "none"]
  /\ overlap = FALSE

-----------------------------------------------------------------------------
(* Connection handlers.                                                    *)

\* No hello in ten seconds, a malformed one, or authentication failed.
HelloRejected(c) ==
  /\ pc[c] = "hello"
  /\ closed' = closed \cup {c}
  /\ pc' = [pc EXCEPT ![c] = "done"]
  /\ UNCHANGED <<current, items, role, victim, snap, held, rows, overlap>>

\* The map entry is replaced under the lock; the handler then closes the
\* replaced item and rewrites the device's rows without the lock.
ReplaceItem(c, item) ==
  /\ pc[c] = "hello"
  /\ items' = [items EXCEPT ![c] = item]
  /\ current' = c
  /\ victim' = [victim EXCEPT ![c] = current]
  /\ pc' = [pc EXCEPT ![c] = IF current = None THEN "mark" ELSE "close"]
  /\ overlap' = Overlapping(c)
  /\ UNCHANGED <<role, closed, snap, held, rows>>

\* Seeded fault: a full channel drops the connection without closing it.
RegisterTCPDataForgets(c) ==
  LET i == IF current = None THEN c ELSE current
      full == Cardinality(items[i].tcpData) >= QueueCap
  IN /\ pc[c] = "hello"
     /\ current' = i
     /\ items' = IF full THEN items
                 ELSE [items EXCEPT ![i].tcpData = @ \cup {c}]
     /\ pc' = [pc EXCEPT ![c] = "done"]
     /\ UNCHANGED <<role, victim, closed, snap, held, rows, overlap>>

\* Seeded fault: the idle TCP data connections move to the new item, which
\* the replaced one still refers to and will drain.
RegisterQUICControlKeepsQueue(c) ==
  ReplaceItem(c, [EmptyItem EXCEPT !.control = c,
                                   !.data = IF role[c] = "legacy" THEN c ELSE None,
                                   !.tcpData = IF current = None THEN {}
                                               ELSE items[current].tcpData])

\* RegisterQUIC with the control role, or with none (a client of the first
\* protocol, whose one connection carries both).
RegisterQUICControl(c) ==
  ReplaceItem(c, [EmptyItem EXCEPT !.control = c,
                                   !.data = IF role[c] = "legacy" THEN c ELSE None])

RegisterTCPControl(c) ==
  ReplaceItem(c, [EmptyItem EXCEPT !.tcpControl = c])

\* RegisterQUIC with the data role: join the registered item, or allocate one.
RegisterQUICData(c) ==
  LET i == IF current = None THEN c ELSE current
      old == items[i].data
      replaced == IF old # items[i].control THEN old ELSE None
  IN /\ pc[c] = "hello"
     /\ items' = [items EXCEPT ![i].data = c]
     /\ current' = i
     /\ victim' = [victim EXCEPT ![c] = replaced]
     /\ pc' = [pc EXCEPT ![c] = IF replaced = None THEN "serving" ELSE "closeData"]
     /\ UNCHANGED <<role, closed, snap, held, rows, overlap>>

\* The data connection that was replaced is closed after the unlock.
CloseReplacedData(c) ==
  /\ pc[c] = "closeData"
  /\ closed' = closed \cup {victim[c]}
  /\ victim' = [victim EXCEPT ![c] = None]
  /\ pc' = [pc EXCEPT ![c] = "serving"]
  /\ UNCHANGED <<current, items, role, snap, held, rows, overlap>>

\* RegisterTCP with the data role: a non-blocking send under the lock; a full
\* channel closes the connection.  The handler returns at once.
RegisterTCPData(c) ==
  LET i == IF current = None THEN c ELSE current
      full == Cardinality(items[i].tcpData) >= QueueCap
  IN /\ pc[c] = "hello"
     /\ current' = i
     /\ items' = IF full THEN items
                 ELSE [items EXCEPT ![i].tcpData = @ \cup {c}]
     /\ closed' = IF full THEN closed \cup {c} ELSE closed
     /\ pc' = [pc EXCEPT ![c] = "done"]
     /\ UNCHANGED <<role, victim, snap, held, rows, overlap>>

Hello(c) ==
  \/ c \in QConns /\ role[c] # "data" /\ RegisterQUICControl(c)
  \/ c \in QConns /\ role[c] = "data" /\ RegisterQUICData(c)
  \/ c \in TConns /\ role[c] # "data" /\ RegisterTCPControl(c)
  \/ c \in TConns /\ role[c] = "data" /\ RegisterTCPData(c)

\* The item leaves the map and goroutine t goes on to close it.
Retire(t) ==
  /\ current' = None
  /\ victim' = [victim EXCEPT ![t] = current]
  /\ pc' = [pc EXCEPT ![t] = "close"]
  /\ overlap' = Overlapping(t)

IsControlOf(c, i) == c \in {items[i].control, items[i].tcpControl}

\* Seeded fault: the deferred call removes whatever item is registered.
UnregisterAnyControl(c) ==
  /\ pc[c] = "serving" /\ role[c] # "data"
  /\ IF current # None
       THEN Retire(c)
       ELSE /\ pc' = [pc EXCEPT ![c] = "done"]
            /\ UNCHANGED <<current, victim, overlap>>
  /\ UNCHANGED <<items, role, closed, snap, held, rows>>

\* UnregisterQUICControl / UnregisterTCPControl, deferred by the handler:
\* only the item whose control connection is this one is removed.
UnregisterControl(c) ==
  /\ pc[c] = "serving" /\ role[c] # "data"
  /\ IF current # None /\ IsControlOf(c, current)
       THEN Retire(c)
       ELSE /\ pc' = [pc EXCEPT ![c] = "done"]
            /\ UNCHANGED <<current, victim, overlap>>
  /\ UNCHANGED <<items, role, closed, snap, held, rows>>

\* UnregisterQUICData: detach the data connection, and drop an item that has
\* no control connection without closing it.
UnregisterQUICData(c) ==
  /\ pc[c] = "serving" /\ role[c] = "data"
  /\ pc' = [pc EXCEPT ![c] = "done"]
  /\ IF current # None /\ items[current].data = c
       THEN /\ items' = [items EXCEPT ![current].data = None]
            /\ current' = IF Controlled(current) THEN current ELSE None
       ELSE UNCHANGED <<items, current>>
  /\ UNCHANGED <<role, victim, closed, snap, held, rows, overlap>>

-----------------------------------------------------------------------------
(* Closing an item and updating device_connections, without the lock.      *)

\* closeDeviceItem, first part: the control and data connections.
CloseItem(t) ==
  /\ pc[t] = "close"
  /\ closed' = closed \cup (Members(victim[t]) \ items[victim[t]].tcpData)
  /\ pc' = [pc EXCEPT ![t] = "drain"]
  /\ UNCHANGED <<current, items, role, victim, snap, held, rows, overlap>>

\* closeDeviceItem, second part: receive from the channel until it is empty.
DrainItem(t) ==
  /\ pc[t] = "drain"
  /\ \E c \in items[victim[t]].tcpData :
       /\ items' = [items EXCEPT ![victim[t]].tcpData = @ \ {c}]
       /\ closed' = closed \cup {c}
  /\ UNCHANGED <<current, role, pc, victim, snap, held, rows, overlap>>

\* Seeded fault: the connections waiting in the channel are forgotten.
AlwaysDrained(t) == pc[t] \in {"mark", "drain"}

\* Nothing is left to close.  A retired channel only empties, so the last look
\* at it is taken together with the step that follows.
Drained(t) ==
  \/ pc[t] = "mark"
  \/ pc[t] = "drain" /\ items[victim[t]].tcpData = {}

AfterMark(t) == IF t \notin Conns THEN "idle" ELSE IF rows[t] = "none" THEN "record" ELSE "done"

\* Seeded fault: only the row of the goroutine's own connection is closed.
MarkOwnRowClosed(t) ==
  /\ t # Stopper /\ Drained(t)
  /\ rows' = [c \in Conns |-> IF rows[c] = "enabled" /\ c = t THEN "disabled" ELSE rows[c]]
  /\ victim' = [victim EXCEPT ![t] = None]
  /\ pc' = [pc EXCEPT ![t] = AfterMark(t)]
  /\ UNCHANGED <<current, items, role, closed, snap, held, overlap>>

\* markDeviceConnectionsClosed: every enabled row of the device.
MarkRowsClosed(t) ==
  /\ t # Stopper /\ Drained(t)
  /\ rows' = [c \in Conns |-> IF rows[c] = "enabled" THEN "disabled" ELSE rows[c]]
  /\ victim' = [victim EXCEPT ![t] = None]
  /\ pc' = [pc EXCEPT ![t] = AfterMark(t)]
  /\ UNCHANGED <<current, items, role, closed, snap, held, overlap>>

\* recordDeviceConnection: one enabled row; then the handler serves streams.
RecordRow(c) ==
  /\ pc[c] = "record"
  /\ rows' = [rows EXCEPT ![c] = "enabled"]
  /\ pc' = [pc EXCEPT ![c] = "serving"]
  /\ UNCHANGED <<current, items, role, victim, closed, snap, held, overlap>>

\* closeStaleDeviceConnections, from the offline cleaner and at boot: the rows
\* whose last activity is old, of whatever device; the registry is not asked.
CloseStaleRows ==
  \E stale \in SUBSET {c \in Conns : rows[c] = "enabled"} \ {{}} :
    /\ rows' = [c \in Conns |-> IF c \in stale THEN "swept" ELSE rows[c]]
    /\ UNCHANGED <<current, items, role, pc, victim, closed, snap, held, overlap>>

-----------------------------------------------------------------------------
(* OpenTCPStream and OpenServiceLogStream.                                 *)

\* Read the item and its data connection under the lock.
OpenStream(o) ==
  /\ pc[o] = "idle" /\ current # None
  /\ snap' = [snap EXCEPT ![o] = [item |-> current, data |-> items[current].data]]
  /\ pc' = [pc EXCEPT ![o] = "try"]
  /\ UNCHANGED <<current, items, role, victim, closed, held, rows, overlap>>

\* openTCPOverDataConn: take an idle TCP data connection.
TakeDataConn(o) ==
  /\ pc[o] = "try"
  /\ \E c \in items[snap[o].item].tcpData :
       /\ items' = [items EXCEPT ![snap[o].item].tcpData = @ \ {c}]
       /\ held' = [held EXCEPT ![o] = c]
       /\ pc' = [pc EXCEPT ![o] = "ack"]
  /\ UNCHANGED <<current, role, victim, closed, snap, rows, overlap>>

\* No TCP data connection: at once when the item has no TCP control and its
\* channel is empty, or when the caller's context expires (the select may then
\* prefer it to a connection that is waiting).
NoDataConn(o) ==
  /\ pc[o] = "try"
  /\ pc' = [pc EXCEPT ![o] = "fallback"]
  /\ UNCHANGED <<current, items, role, victim, closed, snap, held, rows, overlap>>

\* The device acknowledged: the caller owns the connection.
OpenAcked(o) ==
  /\ pc[o] = "ack" /\ held[o] \notin closed
  /\ pc' = [pc EXCEPT ![o] = "session"]
  /\ UNCHANGED <<current, items, role, victim, closed, snap, held, rows, overlap>>

\* The write or the acknowledgement failed, or the device refused.
OpenRefused(o) ==
  /\ pc[o] = "ack"
  /\ closed' = closed \cup {held[o]}
  /\ held' = [held EXCEPT ![o] = None]
  /\ pc' = [pc EXCEPT ![o] = "fallback"]
  /\ UNCHANGED <<current, items, role, victim, snap, rows, overlap>>

Return(o) ==
  /\ pc' = [pc EXCEPT ![o] = "idle"]
  /\ snap' = [snap EXCEPT ![o] = NoSnapshot]

\* CloseDeviceIfCurrent: only the item the opener read.
CloseDeviceIfCurrent(o) ==
  /\ IF current = snap[o].item THEN Retire(o) /\ snap' = [snap EXCEPT ![o] = NoSnapshot]
     ELSE Return(o) /\ UNCHANGED <<current, victim, overlap>>

\* After a failed attempt over TCP: over QUIC if the item had a data
\* connection, else fail; an item with neither is closed.
OpenOverQUIC(o) ==
  /\ pc[o] = "fallback" /\ snap[o].data # None
  /\ \/ /\ snap[o].data \notin closed
        /\ pc' = [pc EXCEPT ![o] = "session"]
        /\ UNCHANGED <<snap, current, victim, overlap>>
     \/ Return(o) /\ UNCHANGED <<current, victim, overlap>>
     \/ CloseDeviceIfCurrent(o)
  /\ UNCHANGED <<items, role, closed, held, rows>>

OpenFails(o) ==
  /\ pc[o] = "fallback" /\ snap[o].data = None
  /\ IF items[snap[o].item].tcpControl # None
       THEN Return(o) /\ UNCHANGED <<current, victim, overlap>>
       ELSE CloseDeviceIfCurrent(o)
  /\ UNCHANGED <<items, role, closed, held, rows>>

\* The caller's session ends and closes its stream.
EndSession(o) ==
  /\ pc[o] = "session"
  /\ closed' = closed \cup ({held[o]} \ {None})
  /\ held' = [held EXCEPT ![o] = None]
  /\ Return(o)
  /\ UNCHANGED <<current, items, role, victim, rows, overlap>>

-----------------------------------------------------------------------------
(* Administration and shutdown.                                            *)

CloseDevice ==
  /\ pc[Admin] = "idle" /\ current # None
  /\ Retire(Admin)
  /\ UNCHANGED <<items, role, closed, snap, held, rows>>

\* Server.Stop cancels the context and closes the listeners, which makes reads
\* fail, then CloseAll swaps the map and closes its items; no row is updated ...
CloseAll ==
  /\ pc[Stopper] = "idle"
  /\ IF current # None
       THEN Retire(Stopper)
       ELSE /\ pc' = [pc EXCEPT ![Stopper] = "mark"]
            /\ UNCHANGED <<current, victim, overlap>>
  /\ UNCHANGED <<items, role, closed, snap, held, rows>>

\* ... and waits for every handler goroutine.
StopReturn ==
  /\ Drained(Stopper)
  /\ \A c \in Conns : pc[c] = "done"
  /\ victim' = [victim EXCEPT ![Stopper] = None]
  /\ pc' = [pc EXCEPT ![Stopper] = "done"]
  /\ UNCHANGED <<current, items, role, closed, snap, held, rows, overlap>>

-----------------------------------------------------------------------------
Handler(c) ==
  \/ HelloRejected(c) \/ Hello(c) \/ CloseReplacedData(c)
  \/ RecordRow(c) \/ UnregisterControl(c) \/ UnregisterQUICData(c)

Opener(o) ==
  \/ OpenStream(o) \/ TakeDataConn(o) \/ NoDataConn(o) \/ OpenAcked(o)
  \/ OpenRefused(o) \/ OpenOverQUIC(o) \/ OpenFails(o) \/ EndSession(o)

Teardown(t) == CloseItem(t) \/ DrainItem(t) \/ MarkRowsClosed(t)

Next ==
  \/ \E c \in Conns : Handler(c)
  \/ \E o \in Openers : Opener(o)
  \/ \E t \in Threads : Teardown(t)
  \/ CloseDevice \/ CloseAll \/ StopReturn \/ CloseStaleRows

Spec == Init /\ [][Next]_vars

-----------------------------------------------------------------------------
(* Properties.                                                             *)

\* The server never closes a connection the registered item refers to: the
\* closing that follows an unlock (of a replaced item, by a deferred
\* unregistration, after a failed open) reaches only what has left the map, so
\* a device that has just reconnected is never cut off by the cleanup of its
\* previous connection.
CurrentNotClosed ==
  current # None => Members(current) \cap closed = {}

\* Nothing of a tunnel outlives it: once an item with a control connection has
\* left the map, each connection it refers to is closed, or a goroutine is
\* still about to close it.  In particular no idle TCP data connection is
\* stranded in the channel of a replaced item.
RetiredTunnelsClosed ==
  \A i \in Conns \ {current} :
    Controlled(i) => Members(i) \subseteq closed \/ \E t \in Threads : Closing(t, i)

\* No TCP data connection the server has acknowledged is lost: it is closed (so
\* that the device dials another), an opener has it, or it waits in the channel
\* of the registered item or of one somebody is about to drain.  The exception
\* is an item without a tunnel that its last QUIC data connection left: it is
\* dropped from the map with what waits in it.
DataConnAccounted ==
  \A c \in TConns : role[c] = "data" /\ pc[c] = "done" =>
    \/ c \in closed
    \/ \E o \in Openers : held[o] = c
    \/ \E i \in Conns :
         /\ c \in items[i].tcpData
         /\ \/ i = current
            \/ \E t \in Threads : Closing(t, i)
            \/ ~Controlled(i) /\ items[i].data = None

\* A tunnel leaves the registry only because a newer registration replaces it,
\* its own control connection ended, it is closed by an administrator or by
\* Stop, or a stream failed to open on this very tunnel: neither the deferred
\* cleanup of an earlier connection nor an opener that had read an earlier item
\* takes down the tunnel the device has since established.
TunnelEndsForAReason ==
  [][(current # None /\ Controlled(current) /\ current' # current) =>
       \/ current' \in Conns
       \/ \E t \in Threads :
            /\ victim'[t] = current
            /\ \/ t \in {Admin, Stopper}
               \/ t \in Conns /\ IsControlOf(t, current)
               \/ t \in Openers /\ snap[t].item = current]_vars

\* device_connections tells which connection is the tunnel once the updates
\* that follow the last registration or teardown have run, unless another ran
\* beside it (the code does not order their updates of the table); the next
\* undisturbed one puts the table right.  The sweep of stale rows may take the
\* tunnel's row away, whatever the registry says, and nothing else does.  (CloseAll
\* leaves the rows of a server that shuts down enabled.)
RowsFollowRegistry ==
  (~overlap /\ pc[Stopper] = "idle" /\ \A t \in Threads : ~Updating(t)) =>
    {c \in Conns : rows[c] = "enabled"} =
      IF current = None THEN {}
      ELSE {c \in {items[current].control, items[current].tcpControl} \ {None} :
              rows[c] # "swept"}
=============================================================================
