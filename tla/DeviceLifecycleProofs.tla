----------------------- MODULE DeviceLifecycleProofs -----------------------
(***************************************************************************)
(* Theorems about DeviceLifecycle, for any number of clients, any timeouts *)
(* and any bounds.  All rest on IInv: what is acked was settled before,    *)
(* whoever acks it, and what the registry knew when the cleaner's round    *)
(* began is settled when the cleaner looks at the rows.                    *)
(***************************************************************************)
EXTENDS DeviceLifecycle, TLAPS

USE TimeAssumption

\* Nothing is dated later than now.
Clock == dirty <= now /\ scan <= now

\* A flush writes at least its snapshot, and only then acks it.
FlushSettles ==
  /\ flushPc = "tx" => snap <= stamp
  /\ flushPc = "ack" => snap <= settled

\* A heartbeat writes its time before it acks it.
HeartbeatSettles ==
  \A c \in Clients : client[c].at \in {"close", "ack"} => client[c].time <= settled

\* A flush is the cleaner's exactly while the cleaner waits for it, and holds
\* what was known when the round began; then that is settled.
RoundSettles ==
  /\ cleanerPc = "flush" <=> (flusher = "cleaner" /\ flushPc # "idle")
  /\ cleanerPc = "flush" /\ known > settled => snap >= known
  /\ cleanerPc = "stale" => known <= settled

\* A heartbeat that writes did not read a disabled row; what was read was
\* inserted.
WritersKnow ==
  /\ \A c \in Clients : client[c].at = "write" => client[c].read.status # "disabled"
  /\ \A c \in Clients :
        client[c].at # "insert" /\ client[c].read.status # "none" => created
  /\ Present => created

IInv ==
  /\ TypeOK
  /\ Clock /\ FlushSettles /\ HeartbeatSettles /\ RoundSettles /\ WritersKnow
  /\ NoActivityLost

-----------------------------------------------------------------------------
(* The shapes of things. *)

Conversations == [at : {"idle", "check", "write", "close", "ack", "validate", "save",
                        "insert"},
                  boot : BOOLEAN, read : Rows, time : Time]

LEMMA LatestTime ==
  \A a, b \in Time : Latest(a, b) \in Time /\ Latest(a, b) >= a /\ Latest(a, b) >= b
BY DEF Latest, Time

LEMMA FreeConversation == Free \in Conversations /\ Gone \in Rows
BY DEF Free, Gone, Conversations, Rows, Statuses, Time

\* A conversation of one client changes, to another conversation.
LEMMA ClientType ==
  ASSUME TypeOK, NEW c \in Clients, NEW r \in Conversations,
         client' = [client EXCEPT ![c] = r]
  PROVE  client' \in [Clients -> Conversations]
BY DEF TypeOK, Conversations

\* The row after a write, and what is settled then.
LEMMA WrittenType ==
  ASSUME TypeOK, NEW r \in Rows, Written(r)
  PROVE  row' \in Rows /\ settled' \in Time
BY LatestTime DEF TypeOK, Written, Rows, Time, Latest

LEMMA GivenUpType ==
  ASSUME TypeOK, NEW t \in Time, GivenUp(t)
  PROVE  row' \in Rows /\ settled' \in Time
BY LatestTime DEF TypeOK, GivenUp

LEMMA TouchType ==
  ASSUME TypeOK, NEW t \in Time, Touch(t)
  PROVE  dirty' \in Time /\ touched' \in Time
BY LatestTime DEF TypeOK, Touch

LEMMA AckedType == TypeOK => \A t \in Time : Acked(t) \in Time
BY DEF TypeOK, Acked, Time

LEMMA NowTime == TypeOK => now \in Time
BY DEF TypeOK, Time

-----------------------------------------------------------------------------
(* Types. *)

LEMMA InitType == Init => TypeOK
<1> SUFFICES ASSUME Init PROVE TypeOK
  OBVIOUS
<1>1. now \in 1 .. MaxTime /\ now = 1
  BY DEF Init
<1>2. row \in Rows
  BY <1>1 DEF Init, Rows, Gone, Statuses, Time
<1>3. /\ created \in BOOLEAN
      /\ token \in {"none", "enabled", "disabled"}
      /\ tunnel \in BOOLEAN
  BY DEF Init, Present
<1>4. dirty \in Time /\ snap \in Time /\ stamp \in Time /\ scan \in Time
  BY DEF Init, Time
<1>5. /\ flushPc \in {"idle", "tx", "ack"} /\ flusher \in Flushers
      /\ cleanerPc \in {"idle", "flush", "stale", "query", "record"}
      /\ adminPc \in {"idle", "create", "update", "forget"}
  BY DEF Init, Flushers
<1>6. offline \in [open : BOOLEAN, at : Time]
  BY DEF Init, Time
<1>7. client \in [Clients -> Conversations]
  BY FreeConversation DEF Init
<1>8. calls \in 0 .. MaxCalls /\ requests \in 0 .. MaxRequests
  BY DEF Init
<1>9. touched \in Time /\ known \in Time /\ settled \in Time
  BY <1>2 DEF Init, Time, Rows
<1> QED
  BY <1>1, <1>2, <1>3, <1>4, <1>5, <1>6, <1>7, <1>8, <1>9 DEF TypeOK, Conversations

LEMMA TypeStep == TypeOK /\ [Next]_vars => TypeOK'
<1> SUFFICES ASSUME TypeOK, [Next]_vars PROVE TypeOK'
  OBVIOUS
<1>a. now \in Time
  BY NowTime
<1>b. client \in [Clients -> Conversations] /\ row \in Rows
  BY DEF TypeOK, Conversations
<1>c. ASSUME NEW c \in Clients
      PROVE  /\ client[c] \in Conversations
             /\ client[c].time \in Time /\ client[c].read \in Rows
             /\ client[c].boot \in BOOLEAN
  BY <1>b DEF Conversations
<1>1. CASE Tick
  BY <1>1 DEF Tick, TypeOK, flush, cleaner, history, Time
<1>2. CASE TunnelActive
  <2>1. dirty' \in Time /\ touched' \in Time
    BY <1>2, <1>a, TouchType DEF TunnelActive
  <2> QED
    BY <1>2, <2>1 DEF TunnelActive, TypeOK, flush, cleaner
<1>3. CASE TunnelDown
  BY <1>3 DEF TunnelDown, TypeOK, flush, cleaner, history
<1>4. ASSUME NEW c \in Clients, BeginHeartbeat(c) PROVE TypeOK'
  <2>1. [Free EXCEPT !.at = "check", !.read = row] \in Conversations
    BY <1>b, FreeConversation DEF Conversations
  <2>2. client' \in [Clients -> Conversations]
    BY <1>4, <2>1, ClientType DEF BeginHeartbeat
  <2>3. calls' \in 0 .. MaxCalls
    BY <1>4 DEF BeginHeartbeat, Call, TypeOK
  <2> QED
    BY <1>4, <2>2, <2>3
       DEF BeginHeartbeat, TypeOK, flush, cleaner, history, Conversations
<1>5. ASSUME NEW c \in Clients, CheckHeartbeat(c) PROVE TypeOK'
  <2>1. client' \in [Clients -> Conversations]
    <3>1. [client[c] EXCEPT !.at = "write", !.time = now] \in Conversations
      BY <1>a, <1>c DEF Conversations
    <3>2. CASE client' = [client EXCEPT ![c].at = "write", ![c].time = now]
      <4>1. client' = [client EXCEPT ![c] = [client[c] EXCEPT !.at = "write", !.time = now]]
        BY <3>2
      <4> QED
        BY <3>1, <4>1, ClientType
    <3>3. CASE Finish(c)
      BY <3>3, ClientType, FreeConversation DEF Finish
    <3> QED
      BY <1>5, <3>2, <3>3 DEF CheckHeartbeat, Answer
  <2>2. dirty' \in Time /\ touched' \in Time
    <3>1. CASE Touch(now)
      BY <3>1, <1>a, TouchType
    <3>2. CASE UNCHANGED <<dirty, touched>>
      BY <3>2 DEF TypeOK
    <3> QED
      BY <1>5, <3>1, <3>2 DEF CheckHeartbeat
  <2>3. tunnel' \in BOOLEAN
    BY <1>5 DEF CheckHeartbeat, Answer, TypeOK
  <2> QED
    BY <1>5, <2>1, <2>2, <2>3 DEF CheckHeartbeat, TypeOK, flush, cleaner, Conversations
<1>6. ASSUME NEW c \in Clients, WriteHeartbeat(c) PROVE TypeOK'
  <2>1. row' \in Rows /\ settled' \in Time
    <3>1. [status |-> "online", seen |-> client[c].time] \in Rows
      BY <1>c DEF Rows, Statuses
    <3>2. Written([status |-> "online", seen |-> client[c].time]) \/ GivenUp(client[c].time)
      BY <1>6 DEF WriteHeartbeat
    <3> QED
      BY <1>c, <3>1, <3>2, WrittenType, GivenUpType
  <2>2. client' \in [Clients -> Conversations]
    <3>1. [client[c] EXCEPT !.at = "close", !.read = Gone] \in Conversations
      BY <1>c, FreeConversation DEF Conversations
    <3>2. client' = [client EXCEPT ![c] = [client[c] EXCEPT !.at = "close", !.read = Gone]]
      BY <1>6 DEF WriteHeartbeat
    <3> QED
      BY <3>1, <3>2, ClientType
  <2> QED
    BY <1>6, <2>1, <2>2 DEF WriteHeartbeat, TypeOK, flush, cleaner, Conversations
<1>7. ASSUME NEW c \in Clients, CloseOfflineEvents(c) PROVE TypeOK'
  <2>1. client' \in [Clients -> Conversations]
    <3>1. [client[c] EXCEPT !.at = "ack"] \in Conversations
      BY <1>c DEF Conversations
    <3>2. client' = [client EXCEPT ![c] = [client[c] EXCEPT !.at = "ack"]]
      BY <1>7 DEF CloseOfflineEvents, Goto
    <3> QED
      BY <3>1, <3>2, ClientType
  <2>2. offline' \in [open : BOOLEAN, at : Time]
    BY <1>7 DEF CloseOfflineEvents, TypeOK
  <2> QED
    BY <1>7, <2>1, <2>2
       DEF CloseOfflineEvents, TypeOK, flush, cleaner, history, Conversations
<1>8. ASSUME NEW c \in Clients, MarkPersisted(c) PROVE TypeOK'
  <2>1. client' \in [Clients -> Conversations]
    BY <1>8, ClientType, FreeConversation DEF MarkPersisted, Answer, Finish
  <2>2. dirty' \in Time
    BY <1>8, <1>c, AckedType DEF MarkPersisted
  <2>3. tunnel' \in BOOLEAN
    BY <1>8 DEF MarkPersisted, Answer, TypeOK
  <2> QED
    BY <1>8, <2>1, <2>2, <2>3
       DEF MarkPersisted, TypeOK, flush, cleaner, history, Conversations
<1>9. ASSUME NEW c \in Clients, ValidateRegister(c) PROVE TypeOK'
  <2>1. client' \in [Clients -> Conversations]
    <3>1. Registered(c) \in Rows
      BY <1>c, FreeConversation DEF Registered, Rows, Statuses
    <3> DEFINE at == IF client[c].read.status = "none" THEN "insert" ELSE "save"
               r == [client[c] EXCEPT !.at = at, !.read = Registered(c), !.time = 0]
    <3>2. r \in Conversations
      <4>1. at \in {"insert", "save"} /\ 0 \in Time
        BY DEF Time
      <4> HIDE DEF at
      <4> QED
        BY <1>c, <3>1, <4>1 DEF Conversations
    <3>3. CASE Finish(c)
      BY <3>3, ClientType, FreeConversation DEF Finish
    <3>4. CASE ~Finish(c)
      <4>1. client' = [client EXCEPT ![c] = r]
        BY <1>9, <3>4 DEF ValidateRegister
      <4> HIDE DEF r
      <4> QED
        BY <3>2, <4>1, ClientType
    <3> QED
      BY <3>3, <3>4
  <2> QED
    BY <1>9, <2>1 DEF ValidateRegister, TypeOK, flush, cleaner, history, Conversations
<1>10. ASSUME NEW c \in Clients, SaveRegister(c) PROVE TypeOK'
  <2>1. row' \in Rows /\ settled' \in Time
    BY <1>10, <1>c, WrittenType DEF SaveRegister
  <2>2. client' \in [Clients -> Conversations]
    BY <1>10, ClientType, FreeConversation DEF SaveRegister, Finish
  <2> QED
    BY <1>10, <2>1, <2>2 DEF SaveRegister, TypeOK, flush, cleaner, Conversations
<1>11. ASSUME NEW c \in Clients, InsertRegister(c) PROVE TypeOK'
  <2>1. row' \in Rows /\ settled' \in Time
    <3>1. CASE Written(client[c].read)
      BY <3>1, <1>c, WrittenType
    <3>2. CASE UNCHANGED <<row, settled>>
      BY <3>2 DEF TypeOK
    <3> QED
      BY <1>11, <3>1, <3>2 DEF InsertRegister
  <2>2. client' \in [Clients -> Conversations]
    BY <1>11, ClientType, FreeConversation DEF InsertRegister, Finish
  <2> QED
    BY <1>11, <2>1, <2>2 DEF InsertRegister, TypeOK, flush, cleaner, Conversations
<1>12. ASSUME NEW c \in Clients, NEW boot \in BOOLEAN, BeginRegister(c, boot) PROVE TypeOK'
  <2>1. [at |-> "validate", boot |-> boot, read |-> row, time |-> now] \in Conversations
    BY <1>a, <1>b DEF Conversations
  <2>2. client' \in [Clients -> Conversations]
    BY <1>12, <2>1, ClientType DEF BeginRegister
  <2>3. calls' \in 0 .. MaxCalls
    BY <1>12 DEF BeginRegister, Call, TypeOK
  <2> QED
    BY <1>12, <2>2, <2>3
       DEF BeginRegister, TypeOK, flush, cleaner, history, Conversations
<1>13. CASE DisableToken
  <2>1. requests' \in 0 .. MaxRequests
    BY <1>13 DEF DisableToken, Request, TypeOK
  <2> QED
    BY <1>13, <2>1 DEF DisableToken, TypeOK, flush, cleaner, history
<1>14. CASE Disable
  <2>1. row' \in Rows
    BY <1>14, <1>b, FreeConversation DEF Disable, Rows, Statuses
  <2>2. requests' \in 0 .. MaxRequests
    BY <1>14 DEF Disable, Request, TypeOK
  <2> QED
    BY <1>14, <2>1, <2>2 DEF Disable, TypeOK, flush, cleaner, history
<1>15. CASE BeginEnable
  <2>1. requests' \in 0 .. MaxRequests
    BY <1>15 DEF BeginEnable, Request, TypeOK
  <2> QED
    BY <1>15, <2>1 DEF BeginEnable, TypeOK, flush, cleaner, history
<1>16. CASE EnableCreateToken
  BY <1>16 DEF EnableCreateToken, TypeOK, flush, cleaner, history
<1>17. CASE EnableUpdate
  <2>1. row' \in Rows
    BY <1>17, <1>b, FreeConversation DEF EnableUpdate, Rows, Statuses
  <2> QED
    BY <1>17, <2>1 DEF EnableUpdate, TypeOK, flush, cleaner, history
<1>18. CASE Delete
  <2>1. row' \in Rows
    BY <1>18, <1>b, FreeConversation DEF Delete, Rows, Statuses
  <2>2. requests' \in 0 .. MaxRequests
    BY <1>18 DEF Delete, Request, TypeOK
  <2> QED
    BY <1>18, <2>1, <2>2 DEF Delete, TypeOK, flush, cleaner, history
<1>19. CASE ForgetDevice
  <2>1. dirty' \in Time /\ settled' \in Time
    BY <1>19, LatestTime DEF ForgetDevice, TypeOK, Time
  <2> QED
    BY <1>19, <2>1 DEF ForgetDevice, TypeOK, flush, cleaner
<1>20. ASSUME NEW f \in Flushers, BeginFlush(f) PROVE TypeOK'
  <2>1. flushPc' \in {"idle", "tx", "ack"} /\ flusher' \in Flushers
    BY <1>20 DEF BeginFlush, TypeOK, flush
  <2>2. snap' \in Time /\ stamp' \in Time
    BY <1>20, <1>a DEF BeginFlush, TypeOK, flush
  <2>3. /\ cleanerPc' \in {"idle", "flush", "stale", "query", "record"}
        /\ known' \in Time
    BY <1>20 DEF BeginFlush, BeginRound, TypeOK
  <2> QED
    BY <1>20, <2>1, <2>2, <2>3 DEF BeginFlush, TypeOK
<1>21. CASE FlushCommits
  <2>1. row' \in Rows /\ settled' \in Time
    <3>1. [status |-> "online", seen |-> Stamp] \in Rows /\ snap \in Time
      BY DEF TypeOK, Rows, Statuses, Stamp
    <3>2. Written([status |-> "online", seen |-> Stamp]) \/ GivenUp(snap)
      BY <1>21 DEF FlushCommits
    <3> QED
      BY <3>1, <3>2, WrittenType, GivenUpType
  <2> QED
    BY <1>21, <2>1 DEF FlushCommits, TypeOK, cleaner
<1>22. CASE FlushFails
  BY <1>22 DEF FlushFails, TypeOK, history, Flushers, Time
<1>23. CASE AckFlush
  <2>1. dirty' \in Time
    BY <1>23, AckedType DEF AckFlush, TypeOK
  <2> QED
    BY <1>23, <2>1 DEF AckFlush, TypeOK, history, Flushers, Time
<1>24. CASE MarkStale
  <2>1. row' \in Rows
    BY <1>24, <1>b DEF MarkStale, Rows, Statuses
  <2> QED
    BY <1>24, <2>1 DEF MarkStale, TypeOK, flush, history
<1>25. CASE QueryStale
  <2>1. scan' \in Time
    BY <1>25, <1>a DEF QueryStale, Time
  <2> QED
    BY <1>25, <2>1 DEF QueryStale, TypeOK, flush, history
<1>26. CASE RecordOffline
  <2>1. scan' \in Time /\ offline' \in [open : BOOLEAN, at : Time]
    BY <1>26 DEF RecordOffline, TypeOK, Time
  <2> QED
    BY <1>26, <2>1 DEF RecordOffline, TypeOK, flush, history
<1>27. CASE Restart
  <2>1. row' \in Rows
    BY <1>27, <1>b DEF Restart, Booted, Rows, Statuses
  <2>2. client' \in [Clients -> Conversations]
    BY <1>27, FreeConversation DEF Restart
  <2>3. settled' \in Time
    BY <1>27, LatestTime DEF Restart, TypeOK
  <2>4. 0 \in Time
    BY DEF Time
  <2> QED
    BY <1>27, <2>1, <2>2, <2>3, <2>4 DEF Restart, TypeOK, Flushers, Conversations
<1>28. CASE UNCHANGED vars
  BY <1>28 DEF vars, TypeOK, flush, cleaner, history
<1> QED
  BY <1>1, <1>2, <1>3, <1>4, <1>5, <1>6, <1>7, <1>8, <1>9, <1>10, <1>11, <1>12, <1>13,
     <1>14, <1>15, <1>16, <1>17, <1>18, <1>19, <1>20, <1>21, <1>22, <1>23, <1>24,
     <1>25, <1>26, <1>27, <1>28
     DEF Next, Client, Administrator, Cleaner

-----------------------------------------------------------------------------
(* The invariant. *)

LEMMA InitInvariant == Init => IInv
<1> SUFFICES ASSUME Init PROVE IInv
  OBVIOUS
<1>1. TypeOK
  BY InitType
<1>2. \A c \in Clients : client[c] = Free
  BY DEF Init
<1>3. Clock /\ FlushSettles /\ RoundSettles /\ NoActivityLost
  BY <1>1 DEF Init, Clock, FlushSettles, RoundSettles, NoActivityLost, TypeOK, Time
<1>4. HeartbeatSettles /\ WritersKnow
  BY <1>2 DEF Init, HeartbeatSettles, WritersKnow, Free, Present, Gone
<1> QED
  BY <1>1, <1>3, <1>4 DEF IInv

\* One case per action, and in it one step per conjunct the action disturbs.
LEMMA StepInvariant == IInv /\ [Next]_vars => IInv'
<1> SUFFICES ASSUME IInv, [Next]_vars PROVE IInv'
  OBVIOUS
<1>a. TypeOK /\ TypeOK'
  BY TypeStep DEF IInv
<1>b. /\ now \in Nat /\ dirty \in Nat /\ scan \in Nat /\ snap \in Nat /\ stamp \in Nat
      /\ touched \in Nat /\ known \in Nat /\ settled \in Nat /\ row.seen \in Nat
  BY <1>a DEF TypeOK, Time, Rows
<1>c. /\ client \in [Clients -> Conversations]
      /\ \A d \in Clients : client[d].time \in Nat /\ client[d].read.seen \in Nat
  BY <1>a DEF TypeOK, Conversations, Time, Rows
<1>d. /\ flushPc \in {"idle", "tx", "ack"} /\ flusher \in {"run", "cleaner"}
      /\ cleanerPc \in {"idle", "flush", "stale", "query", "record"}
  BY <1>a DEF TypeOK, Flushers
<1>e. Clock /\ FlushSettles /\ HeartbeatSettles /\ RoundSettles /\ WritersKnow /\ NoActivityLost
  BY DEF IInv
<1>1. CASE Tick
  <2>1. Clock'
    BY <1>1, <1>b, <1>c, <1>d, <1>e DEF Tick, Clock, flush, cleaner, history
  <2> QED
    BY <1>1, <1>a, <1>e, <2>1
       DEF Tick, FlushSettles, HeartbeatSettles, RoundSettles, WritersKnow,
           NoActivityLost, IInv, flush, cleaner, history, Present
<1>2. CASE TunnelActive
  <2>1. Clock'
    BY <1>2, <1>b, <1>c, <1>d, <1>e
       DEF TunnelActive, Touch, Latest, Clock, flush, cleaner, history
  <2>2. NoActivityLost'
    BY <1>2, <1>b, <1>c, <1>d, <1>e
       DEF TunnelActive, Touch, Latest, NoActivityLost, flush, cleaner, history
  <2> QED
    BY <1>2, <1>a, <1>e, <2>1, <2>2
       DEF TunnelActive, FlushSettles, HeartbeatSettles, RoundSettles, WritersKnow,
           IInv, flush, cleaner, history, Present
<1>3. CASE TunnelDown
  <2> QED
    BY <1>3, <1>a, <1>e
       DEF TunnelDown, Clock, FlushSettles, HeartbeatSettles, RoundSettles,
           WritersKnow, NoActivityLost, IInv, flush, cleaner, history, Present
<1>4. ASSUME NEW c \in Clients, BeginHeartbeat(c) PROVE IInv'
  <2>1. HeartbeatSettles'
    BY <1>4, <1>b, <1>c, <1>d, <1>e
       DEF BeginHeartbeat, Call, Free, HeartbeatSettles, flush, cleaner, history
  <2>2. WritersKnow'
    BY <1>4, <1>b, <1>c, <1>d, <1>e
       DEF BeginHeartbeat, Call, Free, WritersKnow, flush, cleaner, history
  <2> QED
    BY <1>4, <1>a, <1>e, <2>1, <2>2
       DEF BeginHeartbeat, Clock, FlushSettles, RoundSettles, NoActivityLost, IInv,
           flush, cleaner, history
<1>5. ASSUME NEW c \in Clients, CheckHeartbeat(c) PROVE IInv'
  <2>a. Touch(now) \/ UNCHANGED <<dirty, touched>>
    BY <1>5 DEF CheckHeartbeat
  <2>b. now' = now /\ scan' = scan /\ settled' = settled /\ UNCHANGED <<created, row>>
    BY <1>5 DEF CheckHeartbeat, cleaner
  <2>c. \/ client' = [client EXCEPT ![c] = Free]
        \/ /\ client[c].read.status # "disabled"
           /\ client' = [client EXCEPT ![c].at = "write", ![c].time = now]
    BY <1>5 DEF CheckHeartbeat, Answer, Finish
  <2>1. Clock'
    BY <2>a, <2>b, <1>b, <1>e DEF Touch, Latest, Clock
  <2>2. HeartbeatSettles'
    BY <2>b, <2>c, <1>b, <1>c, <1>e DEF HeartbeatSettles, Free, Conversations
  <2>3. WritersKnow'
    <3>1. client[c].at = "check"
      BY <1>5 DEF CheckHeartbeat
    <3> QED
      BY <2>b, <2>c, <3>1, <1>c, <1>e
         DEF WritersKnow, Free, Gone, Present, Conversations
  <2>4. NoActivityLost'
    BY <2>a, <2>b, <1>b, <1>e DEF Touch, Latest, Clock, NoActivityLost
  <2> QED
    BY <1>5, <1>a, <1>e, <2>1, <2>2, <2>3, <2>4
       DEF CheckHeartbeat, FlushSettles, RoundSettles, IInv, flush, cleaner, history
<1>6. ASSUME NEW c \in Clients, WriteHeartbeat(c) PROVE IInv'
  <2>1. FlushSettles'
    BY <1>6, <1>b, <1>c, <1>d, <1>e
       DEF WriteHeartbeat, Gone, Written, GivenUp, Latest, Present, FlushSettles,
           flush, cleaner, history
  <2>2. HeartbeatSettles'
    BY <1>6, <1>b, <1>c, <1>d, <1>e
       DEF WriteHeartbeat, Gone, Written, GivenUp, Latest, Present, HeartbeatSettles,
           flush, cleaner, history
  <2>3. RoundSettles'
    BY <1>6, <1>b, <1>c, <1>d, <1>e
       DEF WriteHeartbeat, Gone, Written, GivenUp, Latest, Present, RoundSettles,
           flush, cleaner, history
  <2>4. WritersKnow'
    BY <1>6, <1>b, <1>c, <1>d, <1>e
       DEF WriteHeartbeat, Gone, Written, GivenUp, Latest, Present, WritersKnow, flush,
           cleaner, history
  <2>5. NoActivityLost'
    BY <1>6, <1>b, <1>c, <1>d, <1>e
       DEF WriteHeartbeat, Gone, Written, GivenUp, Latest, Present, NoActivityLost,
           flush, cleaner, history
  <2> QED
    BY <1>6, <1>a, <1>e, <2>1, <2>2, <2>3, <2>4, <2>5
       DEF WriteHeartbeat, Clock, IInv, flush, cleaner, history
<1>7. ASSUME NEW c \in Clients, CloseOfflineEvents(c) PROVE IInv'
  <2>1. HeartbeatSettles'
    BY <1>7, <1>b, <1>c, <1>d, <1>e
       DEF CloseOfflineEvents, Goto, Conversations, HeartbeatSettles, flush, cleaner,
           history
  <2>2. WritersKnow'
    BY <1>7, <1>b, <1>c, <1>d, <1>e
       DEF CloseOfflineEvents, Goto, Conversations, WritersKnow, flush, cleaner,
           history, Present
  <2> QED
    BY <1>7, <1>a, <1>e, <2>1, <2>2
       DEF CloseOfflineEvents, Clock, FlushSettles, RoundSettles, NoActivityLost, IInv,
           flush, cleaner, history
<1>8. ASSUME NEW c \in Clients, MarkPersisted(c) PROVE IInv'
  <2>1. Clock'
    BY <1>8, <1>b, <1>c, <1>d, <1>e
       DEF MarkPersisted, Answer, Finish, Acked, Free, Gone, Clock, flush, cleaner,
           history
  <2>2. HeartbeatSettles'
    BY <1>8, <1>b, <1>c, <1>d, <1>e
       DEF MarkPersisted, Answer, Finish, Acked, Free, Gone, HeartbeatSettles, flush,
           cleaner, history
  <2>3. WritersKnow'
    BY <1>8, <1>b, <1>c, <1>d, <1>e
       DEF MarkPersisted, Answer, Finish, Acked, Free, Gone, WritersKnow, flush,
           cleaner, history, Present
  <2>4. NoActivityLost'
    BY <1>8, <1>b, <1>c, <1>d, <1>e
       DEF MarkPersisted, Answer, Finish, Acked, Free, Gone, NoActivityLost, flush,
           cleaner, history, HeartbeatSettles
  <2> QED
    BY <1>8, <1>a, <1>e, <2>1, <2>2, <2>3, <2>4
       DEF MarkPersisted, FlushSettles, RoundSettles, IInv, flush, cleaner, history
<1>9. ASSUME NEW c \in Clients, ValidateRegister(c) PROVE IInv'
  <2>a. /\ client'[c].at \in {"idle", "insert", "save"}
        /\ client'[c].at = "save" => client[c].read.status # "none"
        /\ client'[c].at = "idle" => client'[c] = Free
        /\ \A d \in Clients : d # c => client'[d] = client[d]
    <3>1. client[c] \in Conversations
      BY <1>c
    <3>2. CASE Finish(c)
      BY <3>2, <1>c DEF Finish, Free
    <3>3. CASE ~Finish(c)
      BY <3>1, <3>3, <1>9, <1>c DEF ValidateRegister, Conversations
    <3> QED
      BY <3>2, <3>3
  <2>1. HeartbeatSettles'
    <3>1. settled' = settled
      BY <1>9 DEF ValidateRegister, history
    <3> QED
      BY <2>a, <3>1, <1>b, <1>c, <1>e DEF HeartbeatSettles, Free, Conversations
  <2>2. WritersKnow'
    <3>1. client[c].at = "validate" /\ UNCHANGED <<created, row>>
      BY <1>9 DEF ValidateRegister
    <3> QED
      BY <2>a, <3>1, <1>c, <1>e DEF WritersKnow, Free, Gone, Present, Conversations
  <2> QED
    BY <1>9, <1>a, <1>e, <2>1, <2>2
       DEF ValidateRegister, Clock, FlushSettles, RoundSettles, NoActivityLost, IInv,
           flush, cleaner, history
<1>10. ASSUME NEW c \in Clients, SaveRegister(c) PROVE IInv'
  <2>1. FlushSettles'
    BY <1>10, <1>b, <1>c, <1>d, <1>e
       DEF SaveRegister, Written, Latest, Finish, Free, Gone, Present, FlushSettles,
           flush, cleaner, history
  <2>2. HeartbeatSettles'
    BY <1>10, <1>b, <1>c, <1>d, <1>e
       DEF SaveRegister, Written, Latest, Finish, Free, Gone, Present,
           HeartbeatSettles, flush, cleaner, history
  <2>3. RoundSettles'
    BY <1>10, <1>b, <1>c, <1>d, <1>e
       DEF SaveRegister, Written, Latest, Finish, Free, Gone, Present, RoundSettles,
           flush, cleaner, history
  <2>4. WritersKnow'
    BY <1>10, <1>b, <1>c, <1>d, <1>e
       DEF SaveRegister, Written, Latest, Finish, Free, Gone, Present, WritersKnow,
           flush, cleaner, history
  <2>5. NoActivityLost'
    BY <1>10, <1>b, <1>c, <1>d, <1>e
       DEF SaveRegister, Written, Latest, Finish, Free, Gone, Present, NoActivityLost,
           flush, cleaner, history
  <2> QED
    BY <1>10, <1>a, <1>e, <2>1, <2>2, <2>3, <2>4, <2>5
       DEF SaveRegister, Clock, IInv, flush, cleaner, history
<1>11. ASSUME NEW c \in Clients, InsertRegister(c) PROVE IInv'
  <2>1. FlushSettles'
    BY <1>11, <1>b, <1>c, <1>d, <1>e
       DEF InsertRegister, Written, Latest, Finish, Free, Gone, Present, FlushSettles,
           flush, cleaner, history
  <2>2. HeartbeatSettles'
    BY <1>11, <1>b, <1>c, <1>d, <1>e
       DEF InsertRegister, Written, Latest, Finish, Free, Gone, Present,
           HeartbeatSettles, flush, cleaner, history
  <2>3. RoundSettles'
    BY <1>11, <1>b, <1>c, <1>d, <1>e
       DEF InsertRegister, Written, Latest, Finish, Free, Gone, Present, RoundSettles,
           flush, cleaner, history
  <2>4. WritersKnow'
    BY <1>11, <1>b, <1>c, <1>d, <1>e
       DEF InsertRegister, Written, Latest, Finish, Free, Gone, Present, WritersKnow,
           flush, cleaner, history
  <2>5. NoActivityLost'
    BY <1>11, <1>b, <1>c, <1>d, <1>e
       DEF InsertRegister, Written, Latest, Finish, Free, Gone, Present,
           NoActivityLost, flush, cleaner, history
  <2> QED
    BY <1>11, <1>a, <1>e, <2>1, <2>2, <2>3, <2>4, <2>5
       DEF InsertRegister, Clock, IInv, flush, cleaner, history
<1>12. ASSUME NEW c \in Clients, NEW boot \in BOOLEAN, BeginRegister(c, boot) PROVE IInv'
  <2>1. HeartbeatSettles'
    BY <1>12, <1>b, <1>c, <1>d, <1>e
       DEF BeginRegister, Call, Present, HeartbeatSettles, flush, cleaner, history
  <2>2. WritersKnow'
    BY <1>12, <1>b, <1>c, <1>d, <1>e
       DEF BeginRegister, Call, Present, WritersKnow, flush, cleaner, history
  <2> QED
    BY <1>12, <1>a, <1>e, <2>1, <2>2
       DEF BeginRegister, Clock, FlushSettles, RoundSettles, NoActivityLost, IInv,
           flush, cleaner, history
<1>13. CASE DisableToken
  <2> QED
    BY <1>13, <1>a, <1>e
       DEF DisableToken, Clock, FlushSettles, HeartbeatSettles, RoundSettles,
           WritersKnow, NoActivityLost, IInv, flush, cleaner, history, Present
<1>14. CASE Disable
  <2>1. WritersKnow'
    BY <1>14, <1>b, <1>c, <1>d, <1>e
       DEF Disable, Request, Present, WritersKnow, flush, cleaner, history
  <2> QED
    BY <1>14, <1>a, <1>e, <2>1
       DEF Disable, Clock, FlushSettles, HeartbeatSettles, RoundSettles,
           NoActivityLost, IInv, flush, cleaner, history
<1>15. CASE BeginEnable
  <2> QED
    BY <1>15, <1>a, <1>e
       DEF BeginEnable, Clock, FlushSettles, HeartbeatSettles, RoundSettles,
           WritersKnow, NoActivityLost, IInv, flush, cleaner, history, Present
<1>16. CASE EnableCreateToken
  <2> QED
    BY <1>16, <1>a, <1>e
       DEF EnableCreateToken, Clock, FlushSettles, HeartbeatSettles, RoundSettles,
           WritersKnow, NoActivityLost, IInv, flush, cleaner, history, Present
<1>17. CASE EnableUpdate
  <2>1. WritersKnow'
    BY <1>17, <1>b, <1>c, <1>d, <1>e
       DEF EnableUpdate, Present, WritersKnow, flush, cleaner, history
  <2> QED
    BY <1>17, <1>a, <1>e, <2>1
       DEF EnableUpdate, Clock, FlushSettles, HeartbeatSettles, RoundSettles,
           NoActivityLost, IInv, flush, cleaner, history
<1>18. CASE Delete
  <2>1. WritersKnow'
    BY <1>18, <1>b, <1>c, <1>d, <1>e
       DEF Delete, Request, Present, Gone, WritersKnow, flush, cleaner, history
  <2> QED
    BY <1>18, <1>a, <1>e, <2>1
       DEF Delete, Clock, FlushSettles, HeartbeatSettles, RoundSettles, NoActivityLost,
           IInv, flush, cleaner, history
<1>19. CASE ForgetDevice
  <2>1. Clock'
    BY <1>19, <1>b, <1>c, <1>d, <1>e
       DEF ForgetDevice, Latest, Clock, flush, cleaner, history
  <2>2. FlushSettles'
    BY <1>19, <1>b, <1>c, <1>d, <1>e
       DEF ForgetDevice, Latest, FlushSettles, flush, cleaner, history
  <2>3. HeartbeatSettles'
    BY <1>19, <1>b, <1>c, <1>d, <1>e
       DEF ForgetDevice, Latest, HeartbeatSettles, flush, cleaner, history
  <2>4. RoundSettles'
    BY <1>19, <1>b, <1>c, <1>d, <1>e
       DEF ForgetDevice, Latest, RoundSettles, flush, cleaner, history
  <2>5. NoActivityLost'
    BY <1>19, <1>b, <1>c, <1>d, <1>e
       DEF ForgetDevice, Latest, NoActivityLost, flush, cleaner, history
  <2> QED
    BY <1>19, <1>a, <1>e, <2>1, <2>2, <2>3, <2>4, <2>5
       DEF ForgetDevice, WritersKnow, IInv, flush, cleaner, history, Present
<1>20. ASSUME NEW f \in Flushers, BeginFlush(f) PROVE IInv'
  <2>1. FlushSettles'
    BY <1>20, <1>b, <1>c, <1>d, <1>e
       DEF BeginFlush, BeginRound, FlushSettles, flush, cleaner, history, Clock,
           Flushers
  <2>2. RoundSettles'
    BY <1>20, <1>b, <1>c, <1>d, <1>e
       DEF BeginFlush, BeginRound, RoundSettles, flush, cleaner, history,
           NoActivityLost, Flushers
  <2> QED
    BY <1>20, <1>a, <1>e, <2>1, <2>2
       DEF BeginFlush, Clock, HeartbeatSettles, WritersKnow, NoActivityLost, IInv,
           flush, cleaner, history, Present
<1>21. CASE FlushCommits
  <2>1. FlushSettles'
    BY <1>21, <1>b, <1>c, <1>d, <1>e
       DEF FlushCommits, Written, GivenUp, Latest, Stamp, Flushable, Present,
           FlushSettles, flush, cleaner, history
  <2>2. HeartbeatSettles'
    BY <1>21, <1>b, <1>c, <1>d, <1>e
       DEF FlushCommits, Written, GivenUp, Latest, Stamp, Flushable, Present,
           HeartbeatSettles, flush, cleaner, history
  <2>3. RoundSettles'
    BY <1>21, <1>b, <1>c, <1>d, <1>e
       DEF FlushCommits, Written, GivenUp, Latest, Stamp, Flushable, Present,
           RoundSettles, flush, cleaner, history
  <2>4. WritersKnow'
    BY <1>21, <1>b, <1>c, <1>d, <1>e
       DEF FlushCommits, Written, GivenUp, Latest, Stamp, Flushable, Present,
           WritersKnow, flush, cleaner, history
  <2>5. NoActivityLost'
    BY <1>21, <1>b, <1>c, <1>d, <1>e
       DEF FlushCommits, Written, GivenUp, Latest, Stamp, Flushable, Present,
           NoActivityLost, flush, cleaner, history
  <2> QED
    BY <1>21, <1>a, <1>e, <2>1, <2>2, <2>3, <2>4, <2>5
       DEF FlushCommits, Clock, IInv, flush, cleaner, history
<1>22. CASE FlushFails
  <2>1. FlushSettles'
    BY <1>22, <1>b, <1>c, <1>d, <1>e
       DEF FlushFails, FlushSettles, flush, cleaner, history
  <2>2. RoundSettles'
    BY <1>22, <1>b, <1>c, <1>d, <1>e
       DEF FlushFails, RoundSettles, flush, cleaner, history
  <2> QED
    BY <1>22, <1>a, <1>e, <2>1, <2>2
       DEF FlushFails, Clock, HeartbeatSettles, WritersKnow, NoActivityLost, IInv,
           flush, cleaner, history, Present
<1>23. CASE AckFlush
  <2>1. Clock'
    BY <1>23, <1>b, <1>c, <1>d, <1>e DEF AckFlush, Acked, Clock, flush, cleaner, history
  <2>2. FlushSettles'
    BY <1>23, <1>b, <1>c, <1>d, <1>e
       DEF AckFlush, Acked, FlushSettles, flush, cleaner, history
  <2>3. RoundSettles'
    BY <1>23, <1>b, <1>c, <1>d, <1>e
       DEF AckFlush, Acked, RoundSettles, flush, cleaner, history, FlushSettles
  <2>4. NoActivityLost'
    BY <1>23, <1>b, <1>c, <1>d, <1>e
       DEF AckFlush, Acked, NoActivityLost, flush, cleaner, history, FlushSettles
  <2> QED
    BY <1>23, <1>a, <1>e, <2>1, <2>2, <2>3, <2>4
       DEF AckFlush, HeartbeatSettles, WritersKnow, IInv, flush, cleaner, history,
           Present
<1>24. CASE MarkStale
  <2>1. RoundSettles'
    BY <1>24, <1>b, <1>c, <1>d, <1>e
       DEF MarkStale, Present, RoundSettles, flush, cleaner, history
  <2>2. WritersKnow'
    BY <1>24, <1>b, <1>c, <1>d, <1>e
       DEF MarkStale, Present, WritersKnow, flush, cleaner, history
  <2> QED
    BY <1>24, <1>a, <1>e, <2>1, <2>2
       DEF MarkStale, Clock, FlushSettles, HeartbeatSettles, NoActivityLost, IInv,
           flush, cleaner, history
<1>25. CASE QueryStale
  <2>1. Clock'
    BY <1>25, <1>b, <1>c, <1>d, <1>e DEF QueryStale, Clock, flush, cleaner, history
  <2>2. RoundSettles'
    BY <1>25, <1>b, <1>c, <1>d, <1>e
       DEF QueryStale, RoundSettles, flush, cleaner, history
  <2> QED
    BY <1>25, <1>a, <1>e, <2>1, <2>2
       DEF QueryStale, FlushSettles, HeartbeatSettles, WritersKnow, NoActivityLost,
           IInv, flush, cleaner, history, Present
<1>26. CASE RecordOffline
  <2>1. Clock'
    BY <1>26, <1>b, <1>c, <1>d, <1>e DEF RecordOffline, Clock, flush, cleaner, history
  <2>2. RoundSettles'
    BY <1>26, <1>b, <1>c, <1>d, <1>e
       DEF RecordOffline, RoundSettles, flush, cleaner, history
  <2> QED
    BY <1>26, <1>a, <1>e, <2>1, <2>2
       DEF RecordOffline, FlushSettles, HeartbeatSettles, WritersKnow, NoActivityLost,
           IInv, flush, cleaner, history, Present
<1>27. CASE Restart
  <2>1. touched' <= settled'
    BY <1>27, <1>b DEF Restart, Latest
  <2>2. Clock' /\ FlushSettles' /\ RoundSettles'
    BY <1>27, <1>b, <1>d, <1>e DEF Restart, Clock, FlushSettles, RoundSettles
  <2>3. NoActivityLost'
    BY <2>1, <1>a DEF NoActivityLost, TypeOK, Time
  <2>4. \A c \in Clients : client'[c] = Free
    BY <1>27 DEF Restart
  <2>5. HeartbeatSettles'
    BY <2>4 DEF HeartbeatSettles, Free
  <2>6. Present' => Present
    BY <1>27 DEF Restart, Booted, Present
  <2>7. WritersKnow'
    BY <1>27, <2>4, <2>6, <1>e DEF Restart, WritersKnow, Free, Gone
  <2> QED
    BY <1>a, <2>2, <2>3, <2>5, <2>7 DEF IInv
<1>28. CASE UNCHANGED vars
  BY <1>28, <1>a, <1>e
     DEF vars, IInv, Clock, FlushSettles, HeartbeatSettles, RoundSettles, WritersKnow,
         NoActivityLost, Present, flush, cleaner, history
<1> QED
  BY <1>1, <1>2, <1>3, <1>4, <1>5, <1>6, <1>7, <1>8, <1>9, <1>10, <1>11, <1>12, <1>13,
     <1>14, <1>15, <1>16, <1>17, <1>18, <1>19, <1>20, <1>21, <1>22, <1>23, <1>24,
     <1>25, <1>26, <1>27, <1>28
     DEF Next, Client, Administrator, Cleaner

-----------------------------------------------------------------------------
(* The theorems. *)

\* Every variable keeps its type.
THEOREM TypeCorrect == Spec => []TypeOK
BY InitType, TypeStep, PTL DEF Spec

\* The strengthening of the properties below holds in every reachable state.
THEOREM Invariance == Spec => []IInv
BY InitInvariant, StepInvariant, PTL DEF Spec

\* No activity of a device is lost: it is in the registry until the row has
\* had a last_seen_time as late, whatever acks it.
THEOREM ActivityKept == Spec => []NoActivityLost
<1>1. IInv => NoActivityLost
  BY DEF IInv
<1> QED
  BY <1>1, Invariance, PTL

\* The cleaner takes only silent devices offline.
THEOREM OfflineIsSilent == Spec => OfflineMeansSilent
<1>1. ASSUME IInv, MarkStale, row' # row
      PROVE  known = 0 \/ known + Timeout < now \/ row.seen < settled
  <2>1. now \in Nat /\ known \in Nat /\ settled \in Nat /\ row.seen \in Nat
    BY <1>1 DEF IInv, TypeOK, Time, Rows
  <2>2. known <= settled
    BY <1>1 DEF IInv, RoundSettles, MarkStale
  <2>3. row.seen = 0 \/ row.seen + Timeout < now
    BY <1>1 DEF MarkStale, Before
  <2> QED
    BY <2>1, <2>2, <2>3
<1>2. IInv /\ [Next]_vars =>
        [MarkStale /\ row' # row =>
           known = 0 \/ known + Timeout < now \/ row.seen < settled]_vars
  BY <1>1
<1> QED
  BY <1>2, Invariance, PTL DEF Spec, OfflineMeansSilent

\* Only a device that was silent, or whose activity is written, is reported.
THEOREM ReportedIsSilent == Spec => OfflineEventMeansSilent
<1>1. ASSUME IInv, RecordOffline, offline' # offline
      PROVE  touched = 0 \/ touched + EventDelay <= now \/ touched <= settled
  <2>1. /\ now \in Nat /\ touched \in Nat /\ settled \in Nat /\ dirty \in Nat
        /\ scan \in Nat
    BY <1>1 DEF IInv, TypeOK, Time
  <2>2. dirty + EventDelay <= scan \/ dirty = 0
    BY <1>1 DEF RecordOffline, Silent
  <2>3. scan <= now /\ (touched > settled => dirty >= touched)
    BY <1>1 DEF IInv, Clock, NoActivityLost
  <2> QED
    BY <2>1, <2>2, <2>3
<1>2. IInv /\ [Next]_vars =>
        [RecordOffline /\ offline' # offline =>
           touched = 0 \/ touched + EventDelay <= now \/ touched <= settled]_vars
  BY <1>1
<1> QED
  BY <1>2, Invariance, PTL DEF Spec, OfflineEventMeansSilent

\* Neither the flush nor the cleaner nor a heartbeat that knew brings back a
\* device the administrator disabled.
THEOREM DisabledStays == Spec => DisabledSticks
<1> DEFINE Allowed ==
      row.status = "disabled" /\ row'.status # "disabled" =>
        \/ row' = Gone
        \/ adminPc = "update"
        \/ \E c \in Clients : Writing(c) /\ client[c].read.status # "disabled"
<1>1. ASSUME IInv, Next, row.status = "disabled", row'.status # "disabled"
      PROVE  Allowed
  <2>0. row' # row
    BY <1>1
  <2>1. ASSUME NEW c \in Clients, WriteHeartbeat(c) PROVE Allowed
    <3>1. client[c].at = "write" /\ client[c].read.status # "disabled"
      BY <1>1, <2>1 DEF IInv, WritersKnow, WriteHeartbeat
    <3>2. client'[c].at = "close"
      BY <1>1, <2>1 DEF WriteHeartbeat, IInv, TypeOK
    <3> QED
      BY <2>1, <3>1, <3>2 DEF Writing
  <2>2. ASSUME NEW c \in Clients, SaveRegister(c) PROVE Allowed
    <3>1. client[c].at = "save" /\ row' = client[c].read
      BY <2>2 DEF SaveRegister, Written
    <3>2. client'[c].at = "idle"
      BY <1>1, <2>2 DEF SaveRegister, Finish, Free, IInv, TypeOK
    <3> QED
      BY <1>1, <2>2, <3>1, <3>2 DEF Writing
  <2>3. ASSUME NEW c \in Clients, InsertRegister(c) PROVE Allowed
    BY <1>1, <2>0, <2>3 DEF InsertRegister, IInv, WritersKnow, Present
  <2>4. ASSUME NEW c \in Clients,
               \/ CheckHeartbeat(c) \/ CloseOfflineEvents(c) \/ MarkPersisted(c)
               \/ ValidateRegister(c) \/ BeginHeartbeat(c)
               \/ \E boot \in BOOLEAN : BeginRegister(c, boot)
        PROVE  row' = row
    BY <2>4 DEF CheckHeartbeat, CloseOfflineEvents, MarkPersisted, ValidateRegister,
                BeginHeartbeat, BeginRegister
  <2>5. CASE Delete
    BY <2>5 DEF Delete
  <2>6. CASE EnableUpdate
    BY <2>6 DEF EnableUpdate
  <2>7. CASE FlushCommits
    BY <1>1, <2>0, <2>7 DEF FlushCommits, Flushable, GivenUp
  <2>8. CASE MarkStale
    BY <1>1, <2>0, <2>8 DEF MarkStale
  <2>9. CASE Disable
    BY <1>1, <2>9 DEF Disable, IInv, TypeOK, Rows
  <2>10. CASE \/ Tick \/ TunnelActive \/ TunnelDown \/ DisableToken \/ BeginEnable
              \/ EnableCreateToken \/ ForgetDevice
    BY <2>0, <2>10 DEF Tick, TunnelActive, TunnelDown, DisableToken, BeginEnable,
                       EnableCreateToken, ForgetDevice
  <2>11. CASE \/ FlushFails \/ AckFlush \/ QueryStale \/ RecordOffline
              \/ \E f \in Flushers : BeginFlush(f)
    BY <2>0, <2>11 DEF FlushFails, AckFlush, QueryStale, RecordOffline, BeginFlush
  <2>12. CASE Restart
    BY <1>1, <2>0, <2>12 DEF Restart, Booted
  <2> HIDE DEF Allowed
  <2> QED
    BY <1>1, <2>0, <2>1, <2>2, <2>3, <2>4, <2>5, <2>6, <2>7, <2>8, <2>9, <2>10, <2>11,
       <2>12
       DEF Next, Client, Administrator, Cleaner
<1>2. IInv /\ [Next]_vars => [Allowed]_vars
  BY <1>1
<1> QED
  BY <1>2, Invariance, PTL DEF Spec, DisabledSticks

=============================================================================
