-------------------------- MODULE RouteStoreProofs --------------------------
(***************************************************************************)
(* Theorems of Client, for any number of heartbeat loops, sncodes, tokens, *)
(* stamps and faults, and of RouteStore, for any mappings, hosts, devices, *)
(* groups and administrators.                                              *)
(*                                                                         *)
(* The client: whoever may write the state file next writes the sncode it  *)
(* has (OneIdentity); the stamps of commands grow from the server's clock  *)
(* down to the channels (StampsInOrder), and a command is in one place     *)
(* (OneCommand).                                                           *)
(*                                                                         *)
(* The route store: unless a request for a reload is pending, what Reload  *)
(* has read so far are the tables; so what it stores is too (Inv).         *)
(***************************************************************************)
EXTENDS RouteStore, Client, FiniteSetTheorems, TLAPS

-----------------------------------------------------------------------------
(* The client                                                                *)

InTunnel == pc \in {"serveQUIC", "serveTCP", "drain"}

\* What a client and its heartbeat loops hold where they are.
LoopsHold ==
  /\ pc = "off" => \A l \in Loops : loop[l].phase = "none"
  /\ pc # "off" => cfg.sncode # None
  /\ reported # None => InTunnel
  /\ \A l \in Loops :
       /\ loop[l].live => InTunnel
       /\ loop[l].phase # "none" => loop[l].cfg.sncode # None /\ loop[l].cfg.token # None
       /\ loop[l].phase \in {"none", "select"} =>
            loop[l].command = None /\ loop[l].misses < HeartbeatFail

\* Whoever may write the state file next writes the sncode it has.
OneIdentity ==
  /\ file.sncode = None => pc = "off" /\ known = {} /\ ~received
  /\ known \subseteq {file.sncode}
  /\ pc # "off" => cfg.sncode = file.sncode
  /\ \A l \in Loops : loop[l].phase # "none" => loop[l].cfg.sncode = file.sncode

TokenKept == file.token # None /\ (pc # "off" => cfg.token # None)

Remembered ==
  /\ ~spoiled => OneIdentity
  /\ ~spoiled /\ ~refused /\ received => TokenKept

\* The stamps under way are of requests up to the last, and what the client has
\* had was delivered.
StampsInOrder ==
  /\ requested <= now /\ delivered <= now /\ lastRequested <= delivered
  /\ signal <= lastRequested /\ reported <= lastRequested
  /\ \A s \in restarted : s <= lastRequested
  /\ \A l \in Loops :
       /\ loop[l].command <= now
       /\ loop[l].phase = "answer" => loop[l].command <= delivered
       /\ Passing(l) => loop[l].command # None /\ loop[l].command <= lastRequested

\* A command is passed on by one loop, or is in the channel, or is reported, or
\* has ended a tunnel.
OneCommand ==
  /\ RestartsOnce
  /\ signal # None => signal # reported /\ signal \notin restarted
  /\ \A l \in Loops : Passing(l) =>
       loop[l].command # signal /\ loop[l].command # reported /\ loop[l].command \notin restarted
  /\ \A l, k \in Loops :
       l # k /\ Passing(l) /\ Passing(k) => loop[l].command # loop[k].command

ClientInductive ==
  /\ ClientTypeOK /\ LoopsHold /\ Remembered /\ StampsInOrder /\ OneCommand
  /\ RestartNotForgotten

-----------------------------------------------------------------------------
(* What is remembered *)

LEMMA FaultType ==
  ASSUME ClientTypeOK, Fault
  PROVE  faults' \in 0 .. MaxFaults
BY ClientAssumption DEF ClientTypeOK, Fault

LEMMA SaveEffect ==
  ASSUME ClientTypeOK, NEW s \in State, SaveState(s)
  PROVE  /\ file' \in State /\ spoiled' \in BOOLEAN /\ faults' \in 0 .. MaxFaults
         /\ spoiled => spoiled'
         /\ ~spoiled' => file' = s
<1>1. NoState \in State BY DEF NoState, State
<1>2. CASE file' = s /\ UNCHANGED <<spoiled, faults>> BY <1>2 DEF ClientTypeOK
<1>3. CASE Fault /\ file' \in {file, NoState} /\ spoiled' = TRUE
  BY <1>1, <1>3, FaultType DEF ClientTypeOK
<1> QED BY <1>2, <1>3 DEF SaveState

\* Nobody new may write the state file.
LEMMA RememberedKept ==
  ASSUME Remembered, UNCHANGED <<known, file, spoiled, received, refused>>,
         pc' # "off" => pc # "off" /\ cfg' = cfg,
         \A l \in Loops : loop'[l].phase # "none" =>
            loop[l].phase # "none" /\ loop'[l].cfg = loop[l].cfg
  PROVE  Remembered'
BY DEF Remembered, OneIdentity, TokenKept

LEMMA LoopsHoldKept ==
  ASSUME LoopsHold, UNCHANGED <<cfg, reported, loop>>,
         pc' # "off" <=> pc # "off", InTunnel => InTunnel'
  PROVE  LoopsHold'
BY DEF LoopsHold

-----------------------------------------------------------------------------
(* Where the commands are *)

Stamps == StampsInOrder /\ OneCommand /\ RestartNotForgotten

LEMMA StampTypes ==
  ASSUME ClientTypeOK
  PROVE  /\ now \in Nat /\ requested \in Nat /\ delivered \in Nat /\ reported \in Nat
         /\ signal \in Nat /\ lastRequested \in Nat
         /\ now <= MaxTime /\ MaxTime \in Nat
         /\ \A l \in Loops : loop[l].command \in Nat
         /\ \A s \in restarted : s \in Nat
<1>1. {now, requested, delivered, reported, signal, lastRequested} \subseteq Time
  BY DEF ClientTypeOK
<1>2. \A l \in Loops : loop[l].command \in Time BY DEF ClientTypeOK, LoopState
<1>3. restarted \subseteq Time BY DEF ClientTypeOK
<1> QED BY <1>1, <1>2, <1>3, ClientAssumption DEF Time

\* Loops that keep their command, or have none, disturb no order.
LEMMA OrderKept ==
  ASSUME ClientTypeOK, StampsInOrder, OneCommand,
         UNCHANGED <<restart, reported, commands, restarted>>,
         \A l \in Loops :
           \/ loop'[l].command = loop[l].command /\ loop'[l].phase = loop[l].phase
           \/ loop'[l].command = None /\ loop'[l].phase \in {"none", "select", "answer"}
  PROVE  StampsInOrder' /\ OneCommand'
<1>1. /\ now' = now /\ requested' = requested /\ delivered' = delivered /\ reported' = reported
      /\ signal' = signal /\ lastRequested' = lastRequested /\ restarted' = restarted
  BY DEF restart, commands
<1>2. now \in Nat /\ delivered \in Nat BY StampTypes
<1>3. StampsInOrder' BY <1>1, <1>2 DEF StampsInOrder, Passing, None
<1>4. OneCommand' BY <1>1 DEF OneCommand, Passing, RestartsOnce
<1> QED BY <1>3, <1>4

\* A loop may drop a command that is not new, or that is counted as lost.
LEMMA NotForgottenKept ==
  ASSUME RestartNotForgotten,
         UNCHANGED <<restart, reported, commands, rebuilt>>, lost => lost',
         \A l \in Loops :
           \/ loop'[l].command = loop[l].command /\ loop'[l].phase = loop[l].phase
           \/ ~Passing(l) /\ (~(loop[l].command > lastRequested) \/ lost')
  PROVE  RestartNotForgotten'
<1>1. /\ requested' = requested /\ delivered' = delivered /\ reported' = reported
      /\ signal' = signal /\ lastRequested' = lastRequested /\ rebuilt' = rebuilt
  BY DEF restart, commands
<1> QED BY <1>1 DEF RestartNotForgotten, RestartUnderWay, Commanded, Passing

LEMMA StampsKept ==
  ASSUME ClientTypeOK, Stamps, UNCHANGED <<restart, reported, commands, history>>,
         \A l \in Loops : loop'[l].command = loop[l].command /\ loop'[l].phase = loop[l].phase
  PROVE  Stamps'
<1>1. UNCHANGED <<rebuilt, lost, restarted>> BY DEF history
<1> QED BY <1>1, OrderKept, NotForgottenKept DEF Stamps

-----------------------------------------------------------------------------
(* Steps that change no identity, no loop and no stamp                       *)

LEMMA Kept ==
  ASSUME ClientInductive, ClientTypeOK',
         UNCHANGED <<identity, known, loop, restart, reported, commands, history>>,
         pc' # "off" <=> pc # "off", InTunnel => InTunnel'
  PROVE  ClientInductive'
<1>1. UNCHANGED <<cfg, file, spoiled, received, refused>> BY DEF identity
<1>2. LoopsHold' BY <1>1, LoopsHoldKept DEF ClientInductive
<1>3. Remembered' BY <1>1, RememberedKept DEF ClientInductive
<1>4. Stamps' BY StampsKept DEF ClientInductive, Stamps
<1> QED BY <1>2, <1>3, <1>4 DEF ClientInductive, Stamps

LEMMA PassesOn ==
  ASSUME ClientTypeOK,
         \/ Wake \/ ConnectQUICFails \/ ConnectTCPFails \/ LeaveAccept \/ RegisterUnreachable
  PROVE  /\ pc \notin {"off", "serveTCP", "drain"} /\ (pc = "serveQUIC" => pc' = "drain")
         /\ pc' \in {"register", "poll", "backoff", "quic", "tcp", "drain"}
         /\ ended' \in {"error", "restart"}
         /\ UNCHANGED <<setup, network, server, restart, identity, loop, commands, faults, history,
                        control, data, streams, dialing, dataErr, missed, reported>>
<1>1. LoopStart(cfg) \in {"register", "poll", "quic", "tcp"}
  BY DEF LoopStart, AfterRegister
<1>2. CASE Wake BY <1>1, <1>2 DEF Wake, tunnel, ClientTypeOK
<1>3. CASE ConnectQUICFails
  BY <1>1, <1>3 DEF ConnectQUICFails, AfterQUIC, Disconnect, tunnel, ClientTypeOK
<1>4. CASE ConnectTCPFails
  BY <1>1, <1>4 DEF ConnectTCPFails, Disconnect, tunnel, ClientTypeOK
<1>5. CASE LeaveAccept BY <1>5 DEF LeaveAccept
<1>6. CASE RegisterUnreachable
  BY <1>6
  DEF RegisterUnreachable, RegisterError, ShouldRetryWithRegisterToken, identity, tunnel,
      ClientTypeOK
<1> QED BY <1>2, <1>3, <1>4, <1>5, <1>6

LEMMA PassesOnKeeps ==
  ASSUME ClientInductive,
         \/ Wake \/ ConnectQUICFails \/ ConnectTCPFails \/ LeaveAccept \/ RegisterUnreachable
  PROVE  ClientInductive'
<1>1. ClientTypeOK BY DEF ClientInductive
<1>2. ClientTypeOK'
  BY <1>1, PassesOn DEF ClientTypeOK, setup, server, restart, identity, commands, history
<1> QED BY <1>1, <1>2, PassesOn, Kept DEF InTunnel, server

Data ==
  DialData \/ RecycleData \/ AcceptStream \/ StreamDone \/ NetworkChanges \/ Break

LEMMA DataSteps ==
  ASSUME ClientTypeOK, Data
  PROVE  /\ network' \in {"none", "tcp", "all"}
         /\ {control', data', dataErr'} \subseteq BOOLEAN
         /\ streams' \in 0 .. MaxStreams /\ dialing' \in 0 .. Channels
         /\ faults' \in 0 .. MaxFaults
         /\ UNCHANGED <<setup, server, restart, pc, identity, ended, missed, reported, loop,
                        commands, history>>
<1>1. /\ network \in {"none", "tcp", "all"} /\ {control, data, dataErr} \subseteq BOOLEAN
      /\ streams \in 0 .. MaxStreams /\ dialing \in 0 .. Channels /\ faults \in 0 .. MaxFaults
  BY DEF ClientTypeOK
<1>2. MaxStreams \in Nat /\ Channels \in Nat BY ClientAssumption
<1>3. CASE DialData
  <2>1. dialing' \in 0 .. Channels BY <1>1, <1>2, <1>3 DEF DialData
  <2>2. dataErr' \in BOOLEAN BY <1>1, <1>3 DEF DialData
  <2> QED BY <1>1, <1>3, <2>1, <2>2 DEF DialData
<1>4. CASE RecycleData
  <2>1. dialing' \in 0 .. Channels BY <1>1, <1>2, <1>4 DEF RecycleData
  <2> QED BY <1>1, <1>4, <2>1 DEF RecycleData
<1>5. CASE AcceptStream
  <2>1. streams' \in 0 .. MaxStreams BY <1>1, <1>2, <1>5 DEF AcceptStream
  <2> QED BY <1>1, <1>5, <2>1 DEF AcceptStream
<1>6. CASE StreamDone
  <2>1. streams' \in 0 .. MaxStreams BY <1>1, <1>2, <1>6 DEF StreamDone
  <2> QED BY <1>1, <1>6, <2>1 DEF StreamDone
<1>7. CASE NetworkChanges
  <2>1. faults' \in 0 .. MaxFaults BY <1>1, <1>7, FaultType DEF NetworkChanges
  <2>2. network' \in {"none", "tcp", "all"} BY <1>7 DEF NetworkChanges
  <2> QED BY <1>1, <1>7, <2>1, <2>2 DEF NetworkChanges, tunnel
<1>8. CASE Break
  <2>1. faults' \in 0 .. MaxFaults BY <1>8, FaultType DEF Break
  <2> QED BY <1>1, <1>8, <2>1 DEF Break
<1> QED BY <1>3, <1>4, <1>5, <1>6, <1>7, <1>8 DEF Data

LEMMA DataKeeps ==
  ASSUME ClientInductive, Data
  PROVE  ClientInductive'
<1>1. ClientTypeOK BY DEF ClientInductive
<1>2. ClientTypeOK'
  BY <1>1, DataSteps DEF ClientTypeOK, setup, server, restart, identity, commands, history
<1> QED BY <1>1, <1>2, DataSteps, Kept DEF InTunnel, server

-----------------------------------------------------------------------------
(* Start and registration                                                    *)

\* The main goroutine is not in a tunnel: no loop and no stamp changes.
LEMMA KeptOutside ==
  ASSUME ClientInductive, ClientTypeOK', Remembered',
         UNCHANGED <<restart, tunnel, loop, commands, history>>,
         ~InTunnel, pc' # "off", cfg'.sncode # None
  PROVE  ClientInductive'
<1>1. LoopsHold' BY DEF ClientInductive, LoopsHold, tunnel
<1>2. Stamps' BY StampsKept DEF ClientInductive, Stamps, tunnel
<1> QED BY <1>1, <1>2 DEF ClientInductive, Stamps

LEMMA StartType ==
  ASSUME NEW s
  PROVE  /\ LoopStart(s) \in {"register", "poll", "quic", "tcp"}
         /\ AfterRegister(s) \in {"poll", "quic", "tcp"}
BY DEF LoopStart, AfterRegister

LEMMA LoadKeeps ==
  ASSUME ClientInductive, LoadState
  PROVE  ClientInductive'
<1>1. /\ pc = "off" /\ file.sncode # None /\ cfg' = file /\ pc' # "off"
      /\ pc' \in {"register", "poll", "quic", "tcp"}
      /\ UNCHANGED <<setup, network, server, restart, file, generated, spoiled, received, refused,
                     tunnel, loop, commands, faults, history>>
  BY StartType DEF LoadState
<1>2. ClientTypeOK'
  BY <1>1 DEF ClientInductive, ClientTypeOK, setup, server, restart, tunnel, commands, history
<1>3. Remembered'
  BY <1>1 DEF ClientInductive, Remembered, OneIdentity, TokenKept, server
<1> QED BY <1>1, <1>2, <1>3, KeptOutside DEF InTunnel

LEMMA GenerateKeeps ==
  ASSUME ClientInductive, GenerateState
  PROVE  ClientInductive'
<1> DEFINE s == [sncode |-> generated + 1, token |-> None]
<1>1. /\ pc = "off" /\ file.sncode = None /\ generated < MaxSncode
      /\ cfg' = s /\ SaveState(s) /\ generated' = generated + 1
      /\ pc' # "off" /\ pc' \in {"register", "poll", "quic", "tcp"}
      /\ UNCHANGED <<setup, network, server, restart, received, refused,
                     tunnel, loop, commands, history>>
  BY StartType DEF GenerateState
<1>2. ClientTypeOK BY DEF ClientInductive
<1>3. generated' \in 0 .. MaxSncode /\ generated' \in Sncodes /\ generated' # None
  BY <1>1, <1>2, ClientAssumption DEF ClientTypeOK, Sncodes, None
<1>4. s \in State /\ s.sncode # None /\ s.sncode \in Sncodes
  BY <1>1, <1>3 DEF State
<1> HIDE DEF s
<1>5. /\ file' \in State /\ spoiled' \in BOOLEAN /\ faults' \in 0 .. MaxFaults
      /\ spoiled => spoiled'
      /\ ~spoiled' => file' = s
  BY <1>1, <1>2, <1>4, SaveEffect
<1>6. ClientTypeOK'
  BY <1>1, <1>2, <1>3, <1>4, <1>5 DEF ClientTypeOK, setup, server, restart, tunnel, commands, history
<1>7. Remembered'
  <2>1. \A l \in Loops : loop'[l].phase = "none"
    BY <1>1 DEF ClientInductive, LoopsHold
  <2>2. ASSUME ~spoiled' PROVE OneIdentity' /\ ~received'
    <3>1. known' = {} /\ ~received'
      BY <1>1, <1>5, <2>2 DEF ClientInductive, Remembered, OneIdentity, server
    <3> QED BY <1>1, <1>4, <1>5, <2>1, <2>2, <3>1 DEF OneIdentity
  <2> QED BY <2>2 DEF Remembered
<1> QED BY <1>1, <1>4, <1>6, <1>7, KeptOutside DEF InTunnel

LEMMA RegisterKeeps ==
  ASSUME ClientInductive, RegisterDevice
  PROVE  ClientInductive'
<1> DEFINE s == [cfg EXCEPT !.token = TokenFor(cfg)]
<1>1. /\ pc = "register" /\ cfg' = s /\ SaveState(s) /\ known' = known \cup {cfg.sncode}
      /\ received' = (received \/ s.token # None)
      /\ pc' # "off" /\ pc' \in {"poll", "quic", "tcp"}
      /\ UNCHANGED <<setup, network, enabled, issued, restart, generated, refused,
                     tunnel, loop, commands, history>>
  BY StartType DEF RegisterDevice
<1>2. ClientTypeOK BY DEF ClientInductive
<1>3. cfg \in State /\ cfg.sncode # None /\ cfg.sncode \in Sncodes
  BY <1>1, <1>2 DEF ClientInductive, LoopsHold, ClientTypeOK, State
<1>4. TokenFor(cfg) \in Tokens \cup {None} /\ (cfg.token # None => TokenFor(cfg) = cfg.token)
  BY <1>2, <1>3 DEF TokenFor, ClientTypeOK, State
<1>5. s \in State /\ s.sncode = cfg.sncode /\ s.token = TokenFor(cfg)
  BY <1>3, <1>4 DEF State
<1> HIDE DEF s
<1>6. /\ file' \in State /\ spoiled' \in BOOLEAN /\ faults' \in 0 .. MaxFaults
      /\ spoiled => spoiled'
      /\ ~spoiled' => file' = s
  BY <1>1, <1>2, <1>5, SaveEffect
<1>7. ClientTypeOK'
  <2>1. received' \in BOOLEAN /\ known' \subseteq Sncodes
    BY <1>1, <1>2, <1>3 DEF ClientTypeOK
  <2> QED BY <1>1, <1>2, <1>5, <1>6, <2>1 DEF ClientTypeOK, setup, restart, tunnel, commands, history
<1>8. ASSUME ~spoiled' PROVE OneIdentity'
  <2>1. OneIdentity BY <1>6, <1>8 DEF ClientInductive, Remembered
  <2> QED BY <1>1, <1>3, <1>5, <1>6, <1>8, <2>1 DEF OneIdentity
<1>9. ASSUME ~spoiled', ~refused', received' PROVE TokenKept'
  <2>1. s.token # None
    BY <1>1, <1>4, <1>5, <1>6, <1>9 DEF ClientInductive, Remembered, TokenKept
  <2> QED BY <1>1, <1>6, <1>9, <2>1 DEF TokenKept
<1> QED BY <1>1, <1>3, <1>5, <1>7, <1>8, <1>9, KeptOutside DEF InTunnel, Remembered

LEMMA RegisterRefusedKeeps ==
  ASSUME ClientInductive, RegisterRefused
  PROVE  ClientInductive'
<1> DEFINE s == [cfg EXCEPT !.token = None]
<1>1. /\ pc = "register" /\ refused' = TRUE
      /\ UNCHANGED <<setup, network, server, restart, generated, received,
                     tunnel, loop, commands, history>>
  BY DEF RegisterRefused
<1>2. ClientTypeOK BY DEF ClientInductive
<1>3. cfg \in State /\ cfg.sncode # None
  BY <1>1, <1>2 DEF ClientInductive, LoopsHold, ClientTypeOK
<1>4. s \in State /\ s.sncode = cfg.sncode BY <1>3 DEF State
<1> HIDE DEF s
<1>5. \/ cfg' = s /\ SaveState(s) /\ pc' = pc
      \/ pc' = "backoff" /\ UNCHANGED <<cfg, file, spoiled, faults>>
  BY DEF RegisterRefused, RegisterError, DropToken, s
<1>6. /\ file' \in State /\ spoiled' \in BOOLEAN /\ faults' \in 0 .. MaxFaults
      /\ spoiled => spoiled'
      /\ cfg' \in State /\ cfg'.sncode = cfg.sncode
      /\ pc' \in {"register", "backoff"}
      /\ ~spoiled' => file' = file \/ file'.sncode = cfg.sncode
  <2>1. CASE cfg' = s /\ SaveState(s) /\ pc' = pc
    BY <1>1, <1>2, <1>4, <2>1, SaveEffect
  <2>2. CASE pc' = "backoff" /\ UNCHANGED <<cfg, file, spoiled, faults>>
    BY <1>2, <1>3, <2>2 DEF ClientTypeOK
  <2> QED BY <1>5, <2>1, <2>2
<1>7. ClientTypeOK'
  BY <1>1, <1>2, <1>6 DEF ClientTypeOK, setup, server, restart, tunnel, commands, history
<1>8. ASSUME ~spoiled' PROVE OneIdentity'
  <2>1. OneIdentity BY <1>6, <1>8 DEF ClientInductive, Remembered
  <2>2. file'.sncode = cfg.sncode BY <1>1, <1>6, <1>8, <2>1 DEF OneIdentity
  <2> QED BY <1>1, <1>3, <1>6, <2>1, <2>2 DEF OneIdentity, server
<1>9. Remembered' BY <1>1, <1>8 DEF Remembered
<1> QED BY <1>1, <1>3, <1>6, <1>7, <1>9, KeptOutside DEF InTunnel

LEMMA RegisterLostKeeps ==
  ASSUME ClientInductive, RegisterLost
  PROVE  ClientInductive'
<1>1. /\ pc = "register" /\ pc' = "backoff" /\ known' = known \cup {cfg.sncode} /\ Fault
      /\ UNCHANGED <<setup, network, enabled, issued, restart, identity,
                     tunnel, loop, commands, history>>
  BY DEF RegisterLost
<1>2. ClientTypeOK BY DEF ClientInductive
<1>3. cfg.sncode # None /\ cfg.sncode \in Sncodes
  BY <1>1, <1>2 DEF ClientInductive, LoopsHold, ClientTypeOK, State
<1>4. ClientTypeOK'
  <2>1. known' \subseteq Sncodes BY <1>1, <1>2, <1>3 DEF ClientTypeOK
  <2>2. faults' \in 0 .. MaxFaults BY <1>1, <1>2, FaultType
  <2> QED
    BY <1>1, <1>2, <2>1, <2>2 DEF ClientTypeOK, setup, restart, identity, tunnel, commands, history
<1>5. Remembered'
  BY <1>1, <1>3 DEF ClientInductive, Remembered, OneIdentity, TokenKept, identity
<1> QED BY <1>1, <1>3, <1>4, <1>5, KeptOutside DEF InTunnel, identity

-----------------------------------------------------------------------------
(* The tunnel                                                                *)

LEMMA NoLoopIs ==
  /\ NoLoop.phase = "none" /\ NoLoop.live = FALSE /\ NoLoop.misses = 0
  /\ NoLoop.command = None /\ NoLoop \in LoopState
BY ClientAssumption DEF NoLoop, LoopState, NoState, State, Time, None

\* The tunnel begins with the configuration of the main goroutine.
LEMMA ServeEffect ==
  ASSUME ClientTypeOK, LoopsHold, NEW state, Serve(state), cfg.token # None
  PROVE  /\ pc' = state /\ control' = TRUE /\ missed' = FALSE /\ reported' = None
         /\ UNCHANGED <<ended, streams>>
         /\ loop' \in [Loops -> LoopState]
         /\ \A l \in Loops :
              \/ loop'[l] = loop[l]
              \/ /\ loop'[l].phase = "select" /\ loop'[l].cfg = cfg
                 /\ loop[l].command = None /\ loop'[l].command = None /\ loop'[l].misses = 0
<1> DEFINE q == [NoLoop EXCEPT !.phase = "select", !.live = TRUE, !.cfg = cfg]
<1>1. PICK m \in FreeLoops : loop' = [loop EXCEPT ![m] = q]
  BY DEF Serve
<1>2. m \in Loops /\ loop[m].phase = "none" BY DEF FreeLoops
<1>3. q \in LoopState /\ q.phase = "select" /\ q.cfg = cfg /\ q.command = None /\ q.misses = 0
  BY NoLoopIs DEF LoopState, ClientTypeOK
<1> HIDE DEF q
<1>4. loop' \in [Loops -> LoopState] BY <1>1, <1>2, <1>3 DEF ClientTypeOK
<1>5. loop[m].command = None BY <1>2 DEF LoopsHold
<1>6. loop'[m] = q /\ \A l \in Loops \ {m} : loop'[l] = loop[l]
  BY <1>1, <1>2 DEF ClientTypeOK
<1> QED BY <1>3, <1>4, <1>5, <1>6 DEF Serve

LEMMA ConnectKeeps ==
  ASSUME ClientInductive, ConnectQUIC \/ ConnectTCP
  PROVE  ClientInductive'
<1>1. ClientTypeOK /\ LoopsHold /\ Valid(cfg) /\ ~InTunnel /\ pc # "off"
  BY DEF ClientInductive, ConnectQUIC, ConnectTCP, InTunnel
<1>2. cfg.token # None BY <1>1 DEF Valid
<1>3. /\ pc' \in {"serveQUIC", "serveTCP"} /\ control' = TRUE /\ missed' = FALSE
      /\ reported' = None
      /\ UNCHANGED <<ended, streams>>
      /\ loop' \in [Loops -> LoopState]
      /\ \A l \in Loops :
           \/ loop'[l] = loop[l]
           \/ /\ loop'[l].phase = "select" /\ loop'[l].cfg = cfg
              /\ loop[l].command = None /\ loop'[l].command = None /\ loop'[l].misses = 0
  BY <1>1, <1>2, ServeEffect DEF ConnectQUIC, ConnectTCP
<1>4. /\ data' \in BOOLEAN /\ dataErr' \in BOOLEAN /\ dialing' \in 0 .. Channels
      /\ UNCHANGED <<setup, network, server, restart, identity, commands, faults, history>>
  <2>1. data \in BOOLEAN /\ dataErr \in BOOLEAN /\ dialing \in 0 .. Channels
    BY <1>1 DEF ClientTypeOK
  <2>2. Channels \in 0 .. Channels BY ClientAssumption
  <2>3. CASE ConnectQUIC BY <2>1, <2>3 DEF ConnectQUIC
  <2>4. CASE ConnectTCP BY <2>1, <2>2, <2>4 DEF ConnectTCP
  <2> QED BY <2>3, <2>4
<1>5. ClientTypeOK'
  <2>1. 0 \in Time BY ClientAssumption DEF Time
  <2> QED
    BY <1>1, <1>3, <1>4, <2>1 DEF ClientTypeOK, setup, server, restart, identity, commands, history,
        None
<1>6. reported = None BY <1>1 DEF LoopsHold
<1>7. Stamps'
  <2>1. UNCHANGED <<rebuilt, lost, restarted>> BY <1>4 DEF history
  <2>2. \A l \in Loops :
          \/ loop'[l].command = loop[l].command /\ loop'[l].phase = loop[l].phase
          \/ /\ loop'[l].command = None /\ loop'[l].phase = "select"
             /\ ~Passing(l) /\ ~(loop[l].command > lastRequested)
    <3>1. lastRequested \in Nat BY <1>1, StampTypes
    <3>2. \A l \in Loops : loop[l].command = None => ~Passing(l)
      BY DEF ClientInductive, StampsInOrder
    <3> QED BY <1>3, <3>1, <3>2 DEF None
  <2>3. StampsInOrder' /\ OneCommand'
    BY <1>1, <1>3, <1>4, <1>6, <2>1, <2>2, OrderKept DEF ClientInductive
  <2>4. RestartNotForgotten'
    BY <1>3, <1>4, <1>6, <2>1, <2>2, NotForgottenKept DEF ClientInductive
  <2> QED BY <2>3, <2>4 DEF Stamps
<1>8. LoopsHold'
  <2>1. InTunnel' BY <1>3 DEF InTunnel
  <2>2. cfg' = cfg /\ cfg.sncode # None BY <1>1, <1>4 DEF LoopsHold, identity
  <2>3. 0 < HeartbeatFail BY ClientAssumption
  <2> QED BY <1>1, <1>2, <1>3, <2>1, <2>2, <2>3 DEF LoopsHold
<1>9. Remembered'
  BY <1>1, <1>3, <1>4 DEF ClientInductive, Remembered, OneIdentity, TokenKept, identity, server
<1> QED BY <1>5, <1>7, <1>8, <1>9 DEF ClientInductive, Stamps

\* What was reported has ended a tunnel.
LEMMA TunnelEndsKeeps ==
  ASSUME ClientTypeOK, Stamps, TunnelEnds, reported' = None,
         UNCHANGED <<restart, commands>>,
         \A l \in Loops : loop'[l].command = loop[l].command /\ loop'[l].phase = loop[l].phase
  PROVE  /\ Stamps' /\ rebuilt' = TRUE /\ lost' \in BOOLEAN /\ restarted' \subseteq Time
<1>1. /\ now' = now /\ requested' = requested /\ delivered' = delivered
      /\ signal' = signal /\ lastRequested' = lastRequested /\ reported' = 0
      /\ rebuilt' = TRUE /\ lost' = lost /\ restarted' = restarted \cup ({reported} \ {0})
  BY DEF restart, commands, TunnelEnds, None
<1>2. reported \in Time /\ restarted \subseteq Time /\ lost \in BOOLEAN BY DEF ClientTypeOK
<1>3. lastRequested \in Nat BY StampTypes
<1>4. \A l \in Loops : Passing(l)' <=> Passing(l) BY DEF Passing
<1>5. StampsInOrder' BY <1>1, <1>3, <1>4 DEF Stamps, StampsInOrder
<1>6. OneCommand'
  <2>1. RestartsOnce' BY <1>1 DEF RestartsOnce, None
  <2>2. signal' # None => signal' # reported' /\ signal' \notin restarted'
    BY <1>1 DEF Stamps, OneCommand, None
  <2>3. \A l \in Loops : Passing(l)' =>
          /\ loop'[l].command # signal' /\ loop'[l].command # reported'
          /\ loop'[l].command \notin restarted'
    BY <1>1, <1>4 DEF Stamps, OneCommand, StampsInOrder, None
  <2>4. \A l, k \in Loops :
          l # k /\ Passing(l)' /\ Passing(k)' => loop'[l].command # loop'[k].command
    BY <1>4 DEF Stamps, OneCommand
  <2> QED BY <2>1, <2>2, <2>3, <2>4 DEF OneCommand
<1>7. RestartNotForgotten' BY <1>1 DEF RestartNotForgotten
<1> QED BY <1>1, <1>2, <1>5, <1>6, <1>7 DEF Stamps

LEMMA CancelEffect ==
  ASSUME ClientTypeOK, Cancel
  PROVE  /\ loop' \in [Loops -> LoopState]
         /\ \A l \in Loops :
              /\ loop'[l].live = FALSE /\ loop'[l].phase = loop[l].phase
              /\ loop'[l].cfg = loop[l].cfg /\ loop'[l].command = loop[l].command
              /\ loop'[l].misses = loop[l].misses
<1>1. ASSUME NEW l \in Loops
      PROVE  /\ loop'[l] \in LoopState
             /\ loop'[l].live = FALSE /\ loop'[l].phase = loop[l].phase
             /\ loop'[l].cfg = loop[l].cfg /\ loop'[l].command = loop[l].command
             /\ loop'[l].misses = loop[l].misses
  <2>1. loop[l] \in LoopState BY DEF ClientTypeOK
  <2>2. loop'[l] = [loop[l] EXCEPT !.live = FALSE] BY DEF Cancel
  <2> QED BY <2>1, <2>2 DEF LoopState
<1>2. loop' = [l \in Loops |-> loop'[l]] BY DEF Cancel
<1> QED BY <1>1, <1>2

LEMMA LeaveKeeps ==
  ASSUME ClientInductive, LeaveHeartbeat \/ LeaveQUIC \/ LeaveTCP
  PROVE  ClientInductive'
<1>1. ClientTypeOK /\ LoopsHold /\ InTunnel
  BY DEF ClientInductive, LeaveHeartbeat, LeaveQUIC, LeaveTCP, InTunnel
<1>2. LoopStart(cfg) \in {"register", "poll", "quic", "tcp"} BY StartType
<1>3. /\ TunnelEnds /\ missed' = FALSE /\ reported' = None /\ control' = FALSE
      /\ UNCHANGED <<setup, network, server, restart, identity, streams, commands, faults>>
  BY DEF LeaveHeartbeat, LeaveQUIC, LeaveTCP
<1>4. /\ pc' \in {"register", "poll", "backoff", "quic", "tcp", "drain"}
      /\ ended' \in {"error", "restart"}
      /\ data' \in BOOLEAN /\ dataErr' \in BOOLEAN /\ dialing' \in 0 .. Channels
  <2>1. CASE LeaveHeartbeat
    BY <1>1, <2>1 DEF LeaveHeartbeat, HeartbeatErr, ClientTypeOK
  <2>2. CASE LeaveQUIC
    BY <1>1, <1>2, <2>2 DEF LeaveQUIC, AfterQUIC, Disconnect, ClientTypeOK
  <2>3. CASE LeaveTCP
    <3>1. 0 \in 0 .. Channels BY ClientAssumption
    <3> QED BY <1>1, <1>2, <2>3, <3>1 DEF LeaveTCP, Disconnect, ClientTypeOK
  <2> QED BY <2>1, <2>2, <2>3
<1>5. /\ loop' \in [Loops -> LoopState]
      /\ \A l \in Loops :
           /\ loop'[l].live => loop[l].live /\ pc' = "drain"
           /\ loop'[l].phase = loop[l].phase
           /\ loop'[l].cfg = loop[l].cfg /\ loop'[l].command = loop[l].command
           /\ loop'[l].misses = loop[l].misses
  <2>1. CASE LeaveHeartbeat
    BY <1>1, <2>1 DEF LeaveHeartbeat, ClientTypeOK
  <2>2. CASE LeaveQUIC \/ LeaveTCP
    BY <1>1, <2>2, CancelEffect DEF LeaveQUIC, LeaveTCP
  <2> QED BY <2>1, <2>2
<1>6. Stamps' /\ rebuilt' = TRUE /\ lost' \in BOOLEAN /\ restarted' \subseteq Time
  BY <1>1, <1>3, <1>5, TunnelEndsKeeps DEF ClientInductive, Stamps
<1>7. ClientTypeOK'
  <2>1. 0 \in Time BY ClientAssumption DEF Time
  <2> QED
    BY <1>1, <1>3, <1>4, <1>5, <1>6, <2>1
    DEF ClientTypeOK, setup, server, restart, identity, commands, None
<1>8. LoopsHold'
  BY <1>1, <1>3, <1>4, <1>5 DEF LoopsHold, InTunnel, identity
<1>9. Remembered'
  BY <1>1, <1>3, <1>4, <1>5, RememberedKept
  DEF ClientInductive, identity, server, InTunnel
<1> QED BY <1>6, <1>7, <1>8, <1>9 DEF ClientInductive, Stamps

-----------------------------------------------------------------------------
(* The heartbeat loops                                                       *)

\* A loop goes on, or ends.
LEMMA LoopMoves ==
  ASSUME ClientTypeOK, LoopsHold, NEW l \in Loops, NEW q \in LoopState,
         loop' = [loop EXCEPT ![l] = q],
         q.phase # "none" => loop[l].phase # "none" /\ q.cfg = loop[l].cfg,
         q.live => loop[l].live,
         q.phase \in {"none", "select"} => q.command = None /\ q.misses < HeartbeatFail,
         UNCHANGED <<pc, cfg>>,
         reported' # None => reported # None \/ loop[l].live
  PROVE  /\ loop' \in [Loops -> LoopState] /\ LoopsHold'
         /\ loop'[l] = q /\ \A k \in Loops \ {l} : loop'[k] = loop[k]
         /\ \A k \in Loops : loop'[k].phase # "none" =>
              loop[k].phase # "none" /\ loop'[k].cfg = loop[k].cfg
<1>1. loop' \in [Loops -> LoopState] BY DEF ClientTypeOK
<1>2. loop'[l] = q /\ \A k \in Loops \ {l} : loop'[k] = loop[k] BY DEF ClientTypeOK
<1>3. InTunnel' <=> InTunnel BY DEF InTunnel
<1>4. loop[l].live => InTunnel BY DEF LoopsHold
<1>5. LoopsHold' BY <1>2, <1>3, <1>4 DEF LoopsHold
<1> QED BY <1>1, <1>2, <1>5

\* What the end of a round makes of a loop.
LEMMA RoundEffect ==
  ASSUME ClientTypeOK, NEW l \in Loops, NEW n \in Nat, LoopRound(l, n)
  PROVE  /\ missed' \in BOOLEAN /\ reported' = reported
         /\ \E q \in LoopState :
              /\ loop' = [loop EXCEPT ![l] = q]
              /\ q.phase \in {"none", "select"} /\ q.command = None /\ q.misses < HeartbeatFail
              /\ q.phase # "none" => q.cfg = loop[l].cfg
              /\ q.live => loop[l].live
<1>1. loop[l] \in LoopState BY DEF ClientTypeOK
<1>2. CASE n >= HeartbeatFail
  <2>1. loop' = [loop EXCEPT ![l] = NoLoop] BY <1>2 DEF LoopRound, LoopEnds
  <2>2. missed' \in BOOLEAN /\ reported' = reported
    BY <1>1, <1>2 DEF LoopRound, Report, ClientTypeOK, LoopState
  <2>3. 0 < HeartbeatFail BY ClientAssumption
  <2> QED BY <2>1, <2>2, <2>3, NoLoopIs
<1>3. CASE ~(n >= HeartbeatFail)
  <2> DEFINE q == [loop[l] EXCEPT !.phase = "select", !.misses = n, !.command = None]
  <2>1. loop' = [loop EXCEPT ![l] = q] /\ UNCHANGED <<missed, reported>>
    BY <1>3 DEF LoopRound, ClientTypeOK
  <2>2. n < HeartbeatFail /\ n \in 0 .. HeartbeatFail /\ None \in Time
    BY <1>3, ClientAssumption DEF Time, None
  <2>3. /\ q \in LoopState /\ q.phase = "select" /\ q.command = None /\ q.misses = n
        /\ q.cfg = loop[l].cfg /\ q.live = loop[l].live
    BY <1>1, <2>2 DEF LoopState
  <2> HIDE DEF q
  <2> QED BY <2>1, <2>2, <2>3 DEF ClientTypeOK
<1> QED BY <1>2, <1>3

LEMMA MissesType ==
  ASSUME ClientTypeOK, LoopsHold, NEW l \in Loops, loop[l].phase = "select"
  PROVE  Misses(l) \in 0 .. HeartbeatFail
<1>1. loop[l].misses \in 0 .. HeartbeatFail /\ loop[l].misses < HeartbeatFail
  BY DEF ClientTypeOK, LoopState, LoopsHold
<1> QED BY <1>1, ClientAssumption DEF Misses

\* A step of a loop that keeps the stamps in order and remembers the identity.
LEMMA LoopStepKeeps ==
  ASSUME ClientInductive, Remembered', Stamps', LoopsHold', loop' \in [Loops -> LoopState],
         {now', delivered', reported', signal', lastRequested'} \subseteq Time,
         restarted' \subseteq Time, {rebuilt', lost', missed'} \subseteq BOOLEAN,
         file' \in State, spoiled' \in BOOLEAN, faults' \in 0 .. MaxFaults,
         UNCHANGED <<unlessLoop, requested, cfg, generated, received, refused>>
  PROVE  ClientInductive'
<1>1. ClientTypeOK'
  BY DEF ClientInductive, ClientTypeOK, unlessLoop, setup, server
<1> QED BY <1>1 DEF ClientInductive, Stamps

LEMMA LoopTakesCommandKeeps ==
  ASSUME ClientInductive, NEW l \in Loops, LoopTakesCommand(l)
  PROVE  ClientInductive'
<1>1. ClientTypeOK /\ LoopsHold /\ Remembered /\ Stamps BY DEF ClientInductive, Stamps
<1>2. /\ loop[l].phase = "select" /\ signal # None /\ signal' = None
      /\ loop' = [loop EXCEPT ![l] = NoLoop]
      /\ reported' = IF loop[l].live THEN signal ELSE reported
      /\ missed' \in BOOLEAN
      /\ rebuilt' = rebuilt /\ restarted' = restarted /\ lost' = (lost \/ ~loop[l].live)
      /\ UNCHANGED <<unlessLoop, restart, identity, lastRequested, faults>>
  BY <1>1 DEF LoopTakesCommand, Report, LoopEnds, LosesCommand, ClientTypeOK, LoopState
<1>3. /\ loop' \in [Loops -> LoopState] /\ LoopsHold'
      /\ loop'[l] = NoLoop /\ \A k \in Loops \ {l} : loop'[k] = loop[k]
      /\ \A k \in Loops : loop'[k].phase # "none" =>
           loop[k].phase # "none" /\ loop'[k].cfg = loop[k].cfg
  <2>1. 0 < HeartbeatFail BY ClientAssumption
  <2>2. UNCHANGED <<pc, cfg>> BY <1>2 DEF unlessLoop, identity
  <2>3. reported' # None => reported # None \/ loop[l].live BY <1>2
  <2> QED BY <1>1, <1>2, <2>1, <2>2, <2>3, NoLoopIs, LoopMoves
<1>4. Remembered'
  BY <1>1, <1>2, <1>3, RememberedKept DEF identity, unlessLoop, server
<1>5. /\ now' = now /\ requested' = requested /\ delivered' = delivered
      /\ lastRequested' = lastRequested
  BY <1>2 DEF restart
<1>6. /\ loop[l].command = None /\ ~Passing(l) /\ ~Passing(l)' /\ loop'[l].command = None
      /\ \A k \in Loops \ {l} : Passing(k)' <=> Passing(k)
  BY <1>1, <1>2, <1>3, NoLoopIs DEF LoopsHold, Passing
<1>7. StampsInOrder'
  <2>1. signal \in Nat /\ lastRequested \in Nat /\ reported \in Nat /\ now \in Nat
        /\ delivered \in Nat
    BY <1>1, StampTypes
  <2>2. reported' \in {signal, reported} /\ reported' <= lastRequested
    BY <1>1, <1>2 DEF Stamps, StampsInOrder
  <2>3. \A k \in Loops :
          /\ loop'[k].command <= now
          /\ loop'[k].phase = "answer" => loop'[k].command <= delivered
          /\ Passing(k)' => loop'[k].command # None /\ loop'[k].command <= lastRequested
    <3>1. loop'[l].command <= now /\ loop'[l].phase = "none"
      BY <1>3, <1>6, <2>1, NoLoopIs DEF None
    <3> QED BY <1>1, <1>3, <1>6, <3>1 DEF Stamps, StampsInOrder
  <2> QED BY <1>1, <1>2, <1>5, <2>1, <2>2, <2>3 DEF Stamps, StampsInOrder, None
<1>8. OneCommand'
  <2>1. reported' \in {signal, reported} BY <1>2
  <2>2. RestartsOnce' BY <1>1, <1>2, <2>1 DEF Stamps, OneCommand, RestartsOnce
  <2>3. \A k \in Loops : Passing(k)' =>
          /\ loop'[k].command # signal' /\ loop'[k].command # reported'
          /\ loop'[k].command \notin restarted'
    BY <1>1, <1>2, <1>3, <1>6, <2>1 DEF Stamps, OneCommand, StampsInOrder
  <2>4. \A m, k \in Loops :
          m # k /\ Passing(m)' /\ Passing(k)' => loop'[m].command # loop'[k].command
    BY <1>1, <1>3, <1>6 DEF Stamps, OneCommand
  <2> QED BY <1>2, <2>2, <2>3, <2>4 DEF OneCommand
<1>9. RestartNotForgotten'
  <2>1. CASE loop[l].live
    <3>1. reported' # None BY <1>2, <2>1
    <3> QED BY <3>1 DEF RestartNotForgotten, RestartUnderWay, Commanded
  <2>2. CASE ~loop[l].live BY <1>2, <2>2 DEF RestartNotForgotten
  <2> QED BY <2>1, <2>2
<1>10. /\ {now', delivered', reported', signal', lastRequested'} \subseteq Time
       /\ restarted' \subseteq Time /\ {rebuilt', lost', missed'} \subseteq BOOLEAN
  <2>1. {now, delivered, reported, signal, lastRequested} \subseteq Time
    BY <1>1 DEF ClientTypeOK
  <2>2. signal' \in Time BY <1>2, ClientAssumption DEF Time, None
  <2>3. restarted \subseteq Time /\ {rebuilt, lost} \subseteq BOOLEAN BY <1>1 DEF ClientTypeOK
  <2> QED BY <1>2, <1>5, <2>1, <2>2, <2>3
<1>11. /\ file' \in State /\ spoiled' \in BOOLEAN /\ faults' \in 0 .. MaxFaults
       /\ UNCHANGED <<unlessLoop, requested, cfg, generated, received, refused>>
  BY <1>1, <1>2, <1>5 DEF ClientTypeOK, identity
<1> QED
  BY <1>3, <1>4, <1>7, <1>8, <1>9, <1>10, <1>11, LoopStepKeeps DEF Stamps

LEMMA RoundKeeps ==
  ASSUME ClientInductive, NEW l \in Loops, loop[l].phase = "select",
         \/ LoopCancelled(l) \/ PostFails(l) \/ PostAccepted(l)
  PROVE  ClientInductive'
<1>1. ClientTypeOK /\ LoopsHold /\ Remembered /\ Stamps BY DEF ClientInductive, Stamps
<1>2. UNCHANGED <<unlessLoop, restart, identity, commands, faults, history>>
  BY DEF LoopCancelled, PostFails, PostAccepted
<1>3. /\ missed' \in BOOLEAN /\ reported' = reported
      /\ \E q \in LoopState :
           /\ loop' = [loop EXCEPT ![l] = q]
           /\ q.phase # "none" => q.cfg = loop[l].cfg
           /\ q.live => loop[l].live
           /\ q.phase \in {"none", "select"} => q.command = None /\ q.misses < HeartbeatFail
           /\ \/ q.command = None /\ q.phase \in {"none", "select", "answer"}
              \/ q.command = requested /\ requested > delivered /\ q.phase = "take"
  <2>1. loop[l].command = None /\ loop[l] \in LoopState
    BY <1>1 DEF LoopsHold, ClientTypeOK
  <2>2. missed \in BOOLEAN /\ requested \in Time BY <1>1 DEF ClientTypeOK
  <2>3. Misses(l) \in 0 .. HeartbeatFail BY <1>1, MissesType
  <2>4. CASE LoopCancelled(l)
    <3>1. 0 < HeartbeatFail BY ClientAssumption
    <3> QED BY <2>1, <2>2, <2>4, <3>1, NoLoopIs DEF LoopCancelled, LoopEnds
  <2>5. CASE PostFails(l)
    <3>1. LoopRound(l, Misses(l)) BY <2>5 DEF PostFails
    <3>2. Misses(l) \in Nat BY <2>3, ClientAssumption
    <3> QED BY <1>1, <2>1, <3>1, <3>2, RoundEffect
  <2>6. CASE PostAccepted(l)
    <3> DEFINE t == [loop[l] EXCEPT !.phase = "take", !.command = requested, !.misses = Misses(l)]
               a == [loop[l] EXCEPT !.phase = "answer", !.misses = Misses(l)]
    <3>1. UNCHANGED <<missed, reported>> BY <2>6 DEF PostAccepted
    <3>2. \/ requested > delivered /\ loop' = [loop EXCEPT ![l] = t]
          \/ loop' = [loop EXCEPT ![l] = a]
      BY <1>1, <2>6 DEF PostAccepted, ClientTypeOK
    <3>3. /\ t \in LoopState /\ t.phase = "take" /\ t.cfg = loop[l].cfg
          /\ t.live = loop[l].live /\ t.command = requested
      BY <2>1, <2>2, <2>3 DEF LoopState
    <3>4. /\ a \in LoopState /\ a.phase = "answer" /\ a.cfg = loop[l].cfg
          /\ a.live = loop[l].live /\ a.command = loop[l].command
      BY <2>1, <2>2, <2>3 DEF LoopState
    <3> HIDE DEF t, a
    <3>5. CASE requested > delivered /\ loop' = [loop EXCEPT ![l] = t]
      BY <2>2, <3>1, <3>3, <3>5
    <3>6. CASE loop' = [loop EXCEPT ![l] = a]
      BY <2>1, <2>2, <3>1, <3>4, <3>6
    <3> QED BY <3>2, <3>5, <3>6
  <2> QED BY <2>4, <2>5, <2>6
<1>4. PICK q \in LoopState :
        /\ loop' = [loop EXCEPT ![l] = q]
        /\ q.phase # "none" => q.cfg = loop[l].cfg
        /\ q.live => loop[l].live
        /\ q.phase \in {"none", "select"} => q.command = None /\ q.misses < HeartbeatFail
        /\ \/ q.command = None /\ q.phase \in {"none", "select", "answer"}
           \/ q.command = requested /\ requested > delivered /\ q.phase = "take"
  BY <1>3
<1>5. /\ loop' \in [Loops -> LoopState] /\ LoopsHold'
      /\ loop'[l] = q /\ \A k \in Loops \ {l} : loop'[k] = loop[k]
      /\ \A k \in Loops : loop'[k].phase # "none" =>
           loop[k].phase # "none" /\ loop'[k].cfg = loop[k].cfg
  <2>1. UNCHANGED <<pc, cfg>> BY <1>2 DEF unlessLoop, identity
  <2>2. q.phase # "none" => loop[l].phase # "none" /\ q.cfg = loop[l].cfg BY <1>4
  <2>3. reported' # None => reported # None \/ loop[l].live BY <1>3
  <2> QED BY <1>1, <1>4, <2>1, <2>2, <2>3, LoopMoves
<1>6. Remembered'
  BY <1>1, <1>2, <1>5, RememberedKept DEF identity, unlessLoop, server
<1>7. Stamps'
  <2>0. UNCHANGED <<rebuilt, lost, restarted>> BY <1>2 DEF history
  <2>1. loop[l].command = None /\ ~Passing(l) BY <1>1 DEF LoopsHold, Passing
  <2>2. lastRequested \in Nat BY <1>1, StampTypes
  <2>3. ~(loop[l].command > lastRequested) BY <2>1, <2>2 DEF None
  <2>4. RestartNotForgotten'
    BY <1>1, <1>2, <1>3, <1>5, <2>0, <2>1, <2>3, NotForgottenKept DEF Stamps
  <2>5. StampsInOrder' /\ OneCommand'
    <3>1. CASE q.command = None /\ q.phase \in {"none", "select", "answer"}
      BY <1>1, <1>2, <1>3, <1>5, <2>0, <3>1, OrderKept DEF Stamps
    <3>2. CASE q.command = requested /\ requested > delivered /\ q.phase = "take"
      <4>1. /\ now' = now /\ requested' = requested /\ delivered' = delivered
            /\ signal' = signal /\ lastRequested' = lastRequested
        BY <1>2 DEF restart, commands
      <4>2. ~Passing(l)' /\ loop'[l].command = requested /\ loop'[l].phase = "take"
        BY <1>5, <3>2 DEF Passing
      <4>3. StampsInOrder'
        BY <1>1, <1>3, <1>5, <2>0, <4>1, <4>2 DEF Stamps, StampsInOrder, Passing
      <4>4. OneCommand'
        BY <1>1, <1>3, <1>5, <2>0, <4>1, <4>2 DEF Stamps, OneCommand, RestartsOnce, Passing
      <4> QED BY <4>3, <4>4
    <3> QED BY <1>4, <3>1, <3>2
  <2> QED BY <2>4, <2>5 DEF Stamps
<1>8. /\ {now', delivered', reported', signal', lastRequested'} \subseteq Time
      /\ restarted' \subseteq Time /\ {rebuilt', lost', missed'} \subseteq BOOLEAN
      /\ file' \in State /\ spoiled' \in BOOLEAN /\ faults' \in 0 .. MaxFaults
      /\ UNCHANGED <<unlessLoop, requested, cfg, generated, received, refused>>
  BY <1>1, <1>2, <1>3 DEF ClientTypeOK, identity, restart, commands, history
<1> QED BY <1>5, <1>6, <1>7, <1>8, LoopStepKeeps

LEMMA TakeCommandKeeps ==
  ASSUME ClientInductive, NEW l \in Loops, TakeCommand(l)
  PROVE  ClientInductive'
<1>1. ClientTypeOK /\ LoopsHold /\ Remembered /\ Stamps BY DEF ClientInductive, Stamps
<1>2. /\ loop[l].phase = "take"
      /\ rebuilt' = rebuilt /\ restarted' = restarted
      /\ lost' = (lost \/ (loop[l].command # requested /\ loop[l].command <= lastRequested))
      /\ UNCHANGED <<unlessLoop, requested, identity, missed, reported, commands, faults>>
  BY DEF TakeCommand, LosesCommand
<1>3. PICK t \in {now, now + 1} \cap Time : now' = t /\ delivered' = t
  BY DEF TakeCommand
<1> DEFINE q == [loop[l] EXCEPT !.phase = "answer"]
<1>4. loop' = [loop EXCEPT ![l] = q] BY <1>1 DEF TakeCommand, ClientTypeOK
<1>5. /\ q \in LoopState /\ q.phase = "answer" /\ q.cfg = loop[l].cfg
      /\ q.live = loop[l].live /\ q.command = loop[l].command
  BY <1>1 DEF ClientTypeOK, LoopState
<1> HIDE DEF q
<1>6. /\ loop' \in [Loops -> LoopState] /\ LoopsHold'
      /\ loop'[l] = q /\ \A k \in Loops \ {l} : loop'[k] = loop[k]
      /\ \A k \in Loops : loop'[k].phase # "none" =>
           loop[k].phase # "none" /\ loop'[k].cfg = loop[k].cfg
  <2>1. UNCHANGED <<pc, cfg>> BY <1>2 DEF unlessLoop, identity
  <2>2. q.phase # "none" => loop[l].phase # "none" /\ q.cfg = loop[l].cfg BY <1>2, <1>5
  <2>3. q.live => loop[l].live BY <1>5
  <2>4. q.phase \in {"none", "select"} => q.command = None /\ q.misses < HeartbeatFail BY <1>5
  <2>5. reported' # None => reported # None \/ loop[l].live BY <1>2
  <2> QED BY <1>1, <1>4, <1>5, <2>1, <2>2, <2>3, <2>4, <2>5, LoopMoves
<1>7. Remembered'
  BY <1>1, <1>2, <1>6, RememberedKept DEF identity, unlessLoop, server
<1>8. \A k \in Loops : loop'[k].command = loop[k].command BY <1>5, <1>6
<1>9. /\ now \in Nat /\ requested \in Nat /\ delivered \in Nat /\ lastRequested \in Nat
      /\ t \in Nat /\ now <= t /\ requested <= now /\ delivered <= now
      /\ lastRequested <= delivered /\ loop[l].command \in Nat
  BY <1>1, <1>3, StampTypes DEF Stamps, StampsInOrder
<1>10. /\ reported' = reported /\ signal' = signal /\ lastRequested' = lastRequested
       /\ requested' = requested
       /\ \A k \in Loops : Passing(k)' <=> Passing(k)
  BY <1>2, <1>5, <1>6 DEF commands, Passing
<1>11. StampsInOrder'
  <2>1. \A k \in Loops : loop'[k].command <= now BY <1>1, <1>8 DEF Stamps, StampsInOrder
  <2>2. \A k \in Loops : loop[k].command \in Nat BY <1>1, StampTypes
  <2>3. \A k \in Loops : loop'[k].command <= t BY <1>8, <1>9, <2>1, <2>2
  <2>4. requested <= t /\ lastRequested <= t BY <1>9
  <2> QED BY <1>1, <1>2, <1>3, <1>8, <1>9, <1>10, <2>3, <2>4 DEF Stamps, StampsInOrder
<1>12. OneCommand' BY <1>1, <1>2, <1>8, <1>10 DEF Stamps, OneCommand, RestartsOnce
<1>13. RestartNotForgotten'
  <2>1. CASE loop[l].command > lastRequested
    BY <1>8, <1>10, <2>1 DEF RestartNotForgotten, RestartUnderWay
  <2>2. CASE ~(loop[l].command > lastRequested) /\ loop[l].command # requested
    <3>1. loop[l].command <= lastRequested BY <1>9, <2>2
    <3>2. lost' BY <1>2, <2>2, <3>1
    <3> QED BY <3>2 DEF RestartNotForgotten
  <2>3. CASE ~(loop[l].command > lastRequested) /\ loop[l].command = requested
    <3>1. ~(requested > delivered) BY <1>9, <2>3
    <3> QED
      BY <1>1, <1>2, <1>8, <1>10, <3>1
      DEF Stamps, RestartNotForgotten, RestartUnderWay, Commanded
  <2> QED BY <2>1, <2>2, <2>3
<1>14. /\ {now', delivered', reported', signal', lastRequested'} \subseteq Time
       /\ restarted' \subseteq Time /\ {rebuilt', lost', missed'} \subseteq BOOLEAN
  BY <1>1, <1>2, <1>3, <1>10 DEF ClientTypeOK
<1>15. /\ file' \in State /\ spoiled' \in BOOLEAN /\ faults' \in 0 .. MaxFaults
       /\ UNCHANGED <<unlessLoop, requested, cfg, generated, received, refused>>
  BY <1>1, <1>2 DEF ClientTypeOK, identity
<1> QED
  BY <1>6, <1>7, <1>11, <1>12, <1>13, <1>14, <1>15, LoopStepKeeps DEF Stamps

\* The end of a round, wherever its request went.
LEMMA AnswerRound ==
  ASSUME ClientTypeOK, LoopsHold, NEW l \in Loops, loop[l].phase # "none",
         LoopRound(l, loop[l].misses), UNCHANGED <<pc, cfg>>
  PROVE  /\ loop' \in [Loops -> LoopState] /\ LoopsHold'
         /\ loop'[l].command = None /\ loop'[l].phase \in {"none", "select"}
         /\ \A k \in Loops \ {l} : loop'[k] = loop[k]
         /\ \A k \in Loops : loop'[k].phase # "none" =>
              loop[k].phase # "none" /\ loop'[k].cfg = loop[k].cfg
         /\ missed' \in BOOLEAN /\ reported' = reported
<1>1. loop[l].misses \in Nat BY ClientAssumption DEF ClientTypeOK, LoopState
<1>2. /\ missed' \in BOOLEAN /\ reported' = reported
      /\ \E q \in LoopState :
           /\ loop' = [loop EXCEPT ![l] = q]
           /\ q.phase \in {"none", "select"} /\ q.command = None /\ q.misses < HeartbeatFail
           /\ q.phase # "none" => q.cfg = loop[l].cfg
           /\ q.live => loop[l].live
  BY <1>1, RoundEffect
<1>3. PICK q \in LoopState :
        /\ loop' = [loop EXCEPT ![l] = q]
        /\ q.phase \in {"none", "select"} /\ q.command = None /\ q.misses < HeartbeatFail
        /\ q.phase # "none" => q.cfg = loop[l].cfg
        /\ q.live => loop[l].live
  BY <1>2
<1>4. /\ q.phase # "none" => loop[l].phase # "none" /\ q.cfg = loop[l].cfg
      /\ q.phase \in {"none", "select"} => q.command = None /\ q.misses < HeartbeatFail
      /\ reported' # None => reported # None \/ loop[l].live
  BY <1>2, <1>3
<1>5. /\ loop' \in [Loops -> LoopState] /\ LoopsHold'
      /\ loop'[l] = q /\ \A k \in Loops \ {l} : loop'[k] = loop[k]
      /\ \A k \in Loops : loop'[k].phase # "none" =>
           loop[k].phase # "none" /\ loop'[k].cfg = loop[k].cfg
  BY <1>3, <1>4, LoopMoves
<1> QED BY <1>2, <1>3, <1>5

LEMMA AnswerLostKeeps ==
  ASSUME ClientInductive, NEW l \in Loops, AnswerLost(l)
  PROVE  ClientInductive'
<1>1. ClientTypeOK /\ LoopsHold /\ Remembered /\ Stamps BY DEF ClientInductive, Stamps
<1>2. /\ loop[l].phase = "answer" /\ LoopRound(l, loop[l].misses)
      /\ rebuilt' = rebuilt /\ restarted' = restarted
      /\ lost' = (lost \/ loop[l].command > lastRequested)
      /\ UNCHANGED <<unlessLoop, restart, identity, commands>>
  BY DEF AnswerLost, LosesCommand
<1>3. faults' \in 0 .. MaxFaults
  BY <1>1, FaultType DEF AnswerLost, ClientTypeOK
<1>4. UNCHANGED <<pc, cfg>> BY <1>2 DEF unlessLoop, identity
<1>5. /\ loop' \in [Loops -> LoopState] /\ LoopsHold'
      /\ loop'[l].command = None /\ loop'[l].phase \in {"none", "select"}
      /\ \A k \in Loops \ {l} : loop'[k] = loop[k]
      /\ \A k \in Loops : loop'[k].phase # "none" =>
           loop[k].phase # "none" /\ loop'[k].cfg = loop[k].cfg
      /\ missed' \in BOOLEAN /\ reported' = reported
  BY <1>1, <1>2, <1>4, AnswerRound
<1>6. Remembered'
  BY <1>1, <1>2, <1>5, RememberedKept DEF identity, unlessLoop, server
<1>7. StampsInOrder' /\ OneCommand'
  BY <1>1, <1>2, <1>5, OrderKept DEF Stamps
<1>8. RestartNotForgotten'
  <2>1. ~Passing(l) BY <1>2 DEF Passing
  <2> QED BY <1>1, <1>2, <1>5, <2>1, NotForgottenKept DEF Stamps
<1>9. /\ {now', delivered', reported', signal', lastRequested'} \subseteq Time
      /\ restarted' \subseteq Time /\ {rebuilt', lost', missed'} \subseteq BOOLEAN
  BY <1>1, <1>2, <1>5 DEF ClientTypeOK, restart, commands
<1>10. /\ file' \in State /\ spoiled' \in BOOLEAN
       /\ UNCHANGED <<unlessLoop, requested, cfg, generated, received, refused>>
  BY <1>1, <1>2 DEF ClientTypeOK, identity, restart
<1> QED
  BY <1>3, <1>5, <1>6, <1>7, <1>8, <1>9, <1>10, LoopStepKeeps DEF Stamps

\* The loop goes on passing its command on.
LEMMA PassesEffect ==
  ASSUME ClientTypeOK, LoopsHold, NEW l \in Loops, loop[l].phase \notin {"none", "select"},
         NEW p \in {"send", "drain", "resend"}, loop' = [loop EXCEPT ![l].phase = p],
         UNCHANGED <<pc, cfg, reported>>
  PROVE  /\ loop' \in [Loops -> LoopState] /\ LoopsHold'
         /\ loop'[l].command = loop[l].command /\ loop'[l].phase = p
         /\ \A k \in Loops \ {l} : loop'[k] = loop[k]
         /\ \A k \in Loops : loop'[k].phase # "none" =>
              loop[k].phase # "none" /\ loop'[k].cfg = loop[k].cfg
<1> DEFINE q == [loop[l] EXCEPT !.phase = p]
<1>1. loop' = [loop EXCEPT ![l] = q] BY DEF ClientTypeOK
<1>2. loop[l] \in LoopState BY DEF ClientTypeOK
<1>3. /\ q \in LoopState /\ q.phase = p /\ q.cfg = loop[l].cfg /\ q.live = loop[l].live
      /\ q.command = loop[l].command
  BY <1>2 DEF LoopState
<1> HIDE DEF q
<1>4. /\ q.phase # "none" => loop[l].phase # "none" /\ q.cfg = loop[l].cfg
      /\ q.live => loop[l].live
      /\ q.phase \in {"none", "select"} => q.command = None /\ q.misses < HeartbeatFail
      /\ reported' # None => reported # None \/ loop[l].live
  BY <1>3
<1>5. /\ loop' \in [Loops -> LoopState] /\ LoopsHold'
      /\ loop'[l] = q /\ \A k \in Loops \ {l} : loop'[k] = loop[k]
      /\ \A k \in Loops : loop'[k].phase # "none" =>
           loop[k].phase # "none" /\ loop'[k].cfg = loop[k].cfg
  BY <1>1, <1>3, <1>4, LoopMoves
<1> QED BY <1>3, <1>5

\* A command that is new is greater than all that were passed on.
LEMMA PostAnsweredKeeps ==
  ASSUME ClientInductive, NEW l \in Loops, PostAnswered(l)
  PROVE  ClientInductive'
<1>1. ClientTypeOK /\ LoopsHold /\ Remembered /\ Stamps BY DEF ClientInductive, Stamps
<1>2. /\ loop[l].phase = "answer" /\ SaveState(loop[l].cfg) /\ SignalVPNRestart(l)
      /\ UNCHANGED <<unlessLoop, restart, cfg, generated, received, refused, signal, history>>
  BY DEF PostAnswered
<1>3. /\ loop[l].cfg \in State /\ loop[l].cfg.sncode # None /\ loop[l].cfg.token # None
  BY <1>1, <1>2 DEF ClientTypeOK, LoopState, LoopsHold
<1>4. UNCHANGED <<pc, cfg>> BY <1>2 DEF unlessLoop
<1> DEFINE c == loop[l].command
<1>5. /\ loop' \in [Loops -> LoopState] /\ LoopsHold'
      /\ \A k \in Loops \ {l} : loop'[k] = loop[k]
      /\ \A k \in Loops : loop'[k].phase # "none" =>
           loop[k].phase # "none" /\ loop'[k].cfg = loop[k].cfg
      /\ missed' \in BOOLEAN /\ reported' = reported
      /\ \/ /\ c > lastRequested /\ lastRequested' = c
            /\ loop'[l].command = c /\ loop'[l].phase = "send"
         \/ /\ ~(c > lastRequested) /\ lastRequested' = lastRequested
            /\ loop'[l].command = None /\ loop'[l].phase \in {"none", "select"}
  <2>1. CASE c > lastRequested
    <3>1. /\ lastRequested' = c /\ loop' = [loop EXCEPT ![l].phase = "send"]
          /\ UNCHANGED <<missed, reported>>
      BY <1>2, <2>1 DEF SignalVPNRestart
    <3>2. missed \in BOOLEAN BY <1>1 DEF ClientTypeOK
    <3> QED BY <1>1, <1>2, <1>4, <2>1, <3>1, <3>2, PassesEffect
  <2>2. CASE ~(c > lastRequested)
    <3>1. lastRequested' = lastRequested /\ LoopRound(l, loop[l].misses)
      BY <1>2, <2>2 DEF SignalVPNRestart
    <3> QED BY <1>1, <1>2, <1>4, <2>2, <3>1, AnswerRound
  <2> QED BY <2>1, <2>2
<1>6. /\ file' \in State /\ spoiled' \in BOOLEAN /\ faults' \in 0 .. MaxFaults
      /\ spoiled => spoiled'
      /\ ~spoiled' => file' = loop[l].cfg
  BY <1>1, <1>2, <1>3, SaveEffect
<1>7. Remembered'
  <2>1. ASSUME ~spoiled' PROVE OneIdentity'
    <3>1. OneIdentity BY <1>1, <1>6, <2>1 DEF Remembered
    <3>2. file'.sncode = file.sncode BY <1>2, <1>6, <2>1, <3>1 DEF OneIdentity
    <3> QED
      BY <1>2, <1>3, <1>4, <1>5, <1>6, <2>1, <3>1, <3>2 DEF OneIdentity, unlessLoop, server
  <2>2. ASSUME ~spoiled', ~refused', received' PROVE TokenKept'
    BY <1>1, <1>2, <1>3, <1>4, <1>6, <2>2 DEF Remembered, TokenKept
  <2> QED BY <2>1, <2>2 DEF Remembered
<1>8. /\ now' = now /\ requested' = requested /\ delivered' = delivered /\ signal' = signal
      /\ reported' = reported /\ rebuilt' = rebuilt /\ lost' = lost /\ restarted' = restarted
  BY <1>2, <1>5 DEF restart, history
<1>9. Stamps'
  <2>1. CASE /\ ~(c > lastRequested) /\ lastRequested' = lastRequested
             /\ loop'[l].command = None /\ loop'[l].phase \in {"none", "select"}
    <3>1. UNCHANGED <<restart, reported, commands, restarted, rebuilt>> /\ (lost => lost')
      BY <1>2, <1>8, <2>1 DEF commands
    <3>2. ~Passing(l) BY <1>2 DEF Passing
    <3>3. StampsInOrder' /\ OneCommand' BY <1>1, <1>5, <2>1, <3>1, OrderKept DEF Stamps
    <3>4. RestartNotForgotten'
      BY <1>1, <1>5, <2>1, <3>1, <3>2, NotForgottenKept DEF Stamps
    <3> QED BY <3>3, <3>4 DEF Stamps
  <2>2. CASE /\ c > lastRequested /\ lastRequested' = c
             /\ loop'[l].command = c /\ loop'[l].phase = "send"
    <3>1. /\ c \in Nat /\ lastRequested \in Nat /\ signal \in Nat /\ reported \in Nat
          /\ delivered \in Nat /\ now \in Nat
          /\ \A k \in Loops : loop[k].command \in Nat
          /\ \A s \in restarted : s \in Nat
      BY <1>1, StampTypes
    <3>2. c <= delivered /\ c <= now BY <1>1, <1>2 DEF Stamps, StampsInOrder
    <3>3. c # None BY <2>2, <3>1 DEF None
    <3>4. signal < c /\ reported < c BY <1>1, <2>2, <3>1 DEF Stamps, StampsInOrder
    <3>5. \A s \in restarted : s < c BY <1>1, <2>2, <3>1 DEF Stamps, StampsInOrder
    <3>6. /\ ~Passing(l) /\ Passing(l)'
          /\ \A k \in Loops \ {l} : (Passing(k)' <=> Passing(k)) /\ loop'[k] = loop[k]
      BY <1>2, <1>5, <2>2 DEF Passing
    <3>7. \A k \in Loops \ {l} : Passing(k) => loop[k].command < c
      BY <1>1, <2>2, <3>1 DEF Stamps, StampsInOrder
    <3>8. \A k \in Loops : Passing(k)' => loop'[k].command # None /\ loop'[k].command <= c
      BY <1>1, <2>2, <3>1, <3>3, <3>6, <3>7 DEF Stamps, StampsInOrder
    <3>9. StampsInOrder'
      <4>1. signal' <= lastRequested' /\ reported' <= lastRequested' BY <1>8, <2>2, <3>1, <3>4
      <4>2. \A s \in restarted' : s <= lastRequested' BY <1>8, <2>2, <3>1, <3>5
      <4>3. \A k \in Loops :
              /\ loop'[k].command <= now'
              /\ loop'[k].phase = "answer" => loop'[k].command <= delivered'
        BY <1>1, <1>8, <2>2, <3>2, <3>6 DEF Stamps, StampsInOrder
      <4> QED BY <1>1, <1>8, <2>2, <3>2, <3>8, <4>1, <4>2, <4>3 DEF Stamps, StampsInOrder
    <3>10. OneCommand'
      <4>1. RestartsOnce' BY <1>1, <1>8 DEF Stamps, OneCommand, RestartsOnce
      <4>2. signal' # None => signal' # reported' /\ signal' \notin restarted'
        BY <1>1, <1>8 DEF Stamps, OneCommand
      <4>3. c # signal /\ c # reported /\ c \notin restarted BY <3>1, <3>4, <3>5
      <4>4. \A k \in Loops : Passing(k)' =>
              /\ loop'[k].command # signal' /\ loop'[k].command # reported'
              /\ loop'[k].command \notin restarted'
        BY <1>1, <1>8, <2>2, <3>6, <4>3 DEF Stamps, OneCommand
      <4>5. \A k \in Loops \ {l} : Passing(k) => loop[k].command # c BY <3>1, <3>7
      <4>6. \A m, k \in Loops :
              m # k /\ Passing(m)' /\ Passing(k)' => loop'[m].command # loop'[k].command
        BY <1>1, <2>2, <3>6, <4>5 DEF Stamps, OneCommand
      <4> QED BY <4>1, <4>2, <4>4, <4>6 DEF OneCommand
    <3>11. RestartNotForgotten'
      BY <3>6 DEF RestartNotForgotten, RestartUnderWay, Commanded
    <3> QED BY <3>9, <3>10, <3>11 DEF Stamps
  <2> QED BY <1>5, <2>1, <2>2
<1>10. /\ {now', delivered', reported', signal', lastRequested'} \subseteq Time
       /\ restarted' \subseteq Time /\ {rebuilt', lost', missed'} \subseteq BOOLEAN
  <2>1. /\ {now, delivered, reported, signal, lastRequested} \subseteq Time /\ c \in Time
        /\ restarted \subseteq Time /\ {rebuilt, lost} \subseteq BOOLEAN
    BY <1>1 DEF ClientTypeOK, LoopState
  <2> QED BY <1>5, <1>8, <2>1
<1>11. UNCHANGED <<unlessLoop, requested, cfg, generated, received, refused>>
  BY <1>2, <1>8
<1> QED
  BY <1>5, <1>6, <1>7, <1>9, <1>10, <1>11, LoopStepKeeps

\* In the three selects a command is put, kept by its loop, or gives way to the
\* command that is in the channel.
LEMMA SignalKeeps ==
  ASSUME ClientInductive, NEW l \in Loops,
         \/ SendCommand(l) \/ DrainChannel(l) \/ ResendCommand(l)
  PROVE  ClientInductive'
<1>1. ClientTypeOK /\ LoopsHold /\ Remembered /\ Stamps BY DEF ClientInductive, Stamps
<1>2. Passing(l) /\ UNCHANGED unlessSignal
  BY DEF SendCommand, DrainChannel, ResendCommand, Passing
<1>3. UNCHANGED <<unlessLoop, restart, identity, lastRequested, faults, history>>
  BY <1>2 DEF unlessSignal
<1>4. UNCHANGED <<pc, cfg>> BY <1>3 DEF unlessLoop, identity
<1> DEFINE c == loop[l].command
<1>5. loop[l].phase \notin {"none", "select"} /\ missed \in BOOLEAN
  BY <1>1, <1>2 DEF Passing, ClientTypeOK
<1>6. /\ loop' \in [Loops -> LoopState] /\ LoopsHold'
      /\ \A k \in Loops \ {l} : loop'[k] = loop[k]
      /\ \A k \in Loops : loop'[k].phase # "none" =>
           loop[k].phase # "none" /\ loop'[k].cfg = loop[k].cfg
      /\ missed' \in BOOLEAN /\ reported' = reported
      /\ \/ /\ signal' \in {signal, None}
            /\ loop'[l].command = c /\ loop'[l].phase \in {"drain", "resend"}
         \/ /\ signal' \in {signal, c} /\ signal' # None
            /\ loop'[l].command = None /\ loop'[l].phase \in {"none", "select"}
  <2>0. c # None BY <1>1, <1>2 DEF Stamps, StampsInOrder
  <2>1. CASE SendCommand(l)
    <3>1. CASE signal = None /\ signal' = c /\ LoopRound(l, loop[l].misses)
      BY <1>1, <1>4, <1>5, <2>0, <3>1, AnswerRound
    <3>2. CASE /\ loop' = [loop EXCEPT ![l].phase = "drain"]
               /\ UNCHANGED <<signal, missed, reported>>
      BY <1>1, <1>4, <1>5, <3>2, PassesEffect
    <3> QED BY <2>1, <3>1, <3>2 DEF SendCommand
  <2>2. CASE DrainChannel(l)
    <3>1. /\ signal' = None /\ loop' = [loop EXCEPT ![l].phase = "resend"]
          /\ UNCHANGED <<missed, reported>>
      BY <2>2 DEF DrainChannel
    <3> QED BY <1>1, <1>4, <1>5, <3>1, PassesEffect
  <2>3. CASE ResendCommand(l)
    <3>1. signal' \in {signal, c} /\ signal' # None /\ LoopRound(l, loop[l].misses)
      BY <2>0, <2>3 DEF ResendCommand
    <3> QED BY <1>1, <1>4, <1>5, <3>1, AnswerRound
  <2> QED BY <2>1, <2>2, <2>3
<1>7. Remembered'
  BY <1>1, <1>3, <1>6, RememberedKept DEF identity, unlessLoop, server
<1>8. /\ now' = now /\ requested' = requested /\ delivered' = delivered
      /\ lastRequested' = lastRequested /\ reported' = reported
      /\ rebuilt' = rebuilt /\ lost' = lost /\ restarted' = restarted
  BY <1>3, <1>6 DEF restart, history
<1>9. /\ \A k \in Loops \ {l} : (Passing(k)' <=> Passing(k)) /\ loop'[k] = loop[k]
      /\ c # None /\ c <= lastRequested /\ c # reported /\ c \notin restarted
  BY <1>1, <1>2, <1>6 DEF Passing, Stamps, StampsInOrder, OneCommand
<1>10. /\ now \in Nat /\ delivered \in Nat /\ lastRequested \in Nat /\ signal \in Nat
  BY <1>1, StampTypes
<1>11. ASSUME /\ signal' \in {signal, None}
              /\ loop'[l].command = c /\ loop'[l].phase \in {"drain", "resend"}
       PROVE  Stamps'
  <2>1. Passing(l)' BY <1>11 DEF Passing
  <2>2. StampsInOrder'
    <3>1. signal' <= lastRequested BY <1>1, <1>10, <1>11 DEF Stamps, StampsInOrder, None
    <3> QED BY <1>1, <1>8, <1>9, <1>11, <2>1, <3>1 DEF Stamps, StampsInOrder
  <2>3. OneCommand'
    <3>1. \A k \in Loops : Passing(k)' =>
            /\ loop'[k].command # signal' /\ loop'[k].command # reported'
            /\ loop'[k].command \notin restarted'
      BY <1>1, <1>2, <1>8, <1>9, <1>11 DEF Stamps, OneCommand, StampsInOrder
    <3>2. \A m, k \in Loops :
            m # k /\ Passing(m)' /\ Passing(k)' => loop'[m].command # loop'[k].command
      BY <1>1, <1>2, <1>9, <1>11 DEF Stamps, OneCommand
    <3>3. /\ RestartsOnce'
          /\ signal' # None => signal' # reported' /\ signal' \notin restarted'
      BY <1>1, <1>8, <1>11 DEF Stamps, OneCommand, RestartsOnce
    <3> QED BY <3>1, <3>2, <3>3 DEF OneCommand
  <2>4. RestartNotForgotten' BY <2>1 DEF RestartNotForgotten, RestartUnderWay, Commanded
  <2> QED BY <2>2, <2>3, <2>4 DEF Stamps
<1>12. ASSUME /\ signal' \in {signal, c} /\ signal' # None
              /\ loop'[l].command = None /\ loop'[l].phase \in {"none", "select"}
       PROVE  Stamps'
  <2>1. ~Passing(l)' BY <1>12 DEF Passing
  <2>2. StampsInOrder'
    <3>1. signal' <= lastRequested BY <1>1, <1>9, <1>12 DEF Stamps, StampsInOrder
    <3>2. loop'[l].command <= now /\ loop'[l].phase # "answer" BY <1>10, <1>12 DEF None
    <3> QED BY <1>1, <1>8, <1>9, <2>1, <3>1, <3>2 DEF Stamps, StampsInOrder
  <2>3. OneCommand'
    <3>1. \A k \in Loops : Passing(k)' =>
            /\ loop'[k].command # signal' /\ loop'[k].command # reported'
            /\ loop'[k].command \notin restarted'
      BY <1>1, <1>2, <1>8, <1>9, <1>12, <2>1 DEF Stamps, OneCommand
    <3>2. \A m, k \in Loops :
            m # k /\ Passing(m)' /\ Passing(k)' => loop'[m].command # loop'[k].command
      BY <1>1, <1>9, <2>1 DEF Stamps, OneCommand
    <3>3. /\ RestartsOnce'
          /\ signal' # None => signal' # reported' /\ signal' \notin restarted'
      BY <1>1, <1>8, <1>9, <1>12 DEF Stamps, OneCommand, RestartsOnce
    <3> QED BY <3>1, <3>2, <3>3 DEF OneCommand
  <2>4. RestartNotForgotten' BY <1>12 DEF RestartNotForgotten, RestartUnderWay, Commanded
  <2> QED BY <2>2, <2>3, <2>4 DEF Stamps
<1>13. Stamps' BY <1>6, <1>11, <1>12
<1>14. /\ {now', delivered', reported', signal', lastRequested'} \subseteq Time
       /\ restarted' \subseteq Time /\ {rebuilt', lost', missed'} \subseteq BOOLEAN
  <2>1. /\ {now, delivered, reported, signal, lastRequested, None} \subseteq Time /\ c \in Time
        /\ restarted \subseteq Time /\ {rebuilt, lost} \subseteq BOOLEAN
    BY <1>1, ClientAssumption DEF ClientTypeOK, LoopState, Time, None
  <2> QED BY <1>6, <1>8, <2>1
<1>15. /\ file' \in State /\ spoiled' \in BOOLEAN /\ faults' \in 0 .. MaxFaults
       /\ UNCHANGED <<unlessLoop, requested, cfg, generated, received, refused>>
  BY <1>1, <1>3, <1>8 DEF ClientTypeOK, identity
<1> QED BY <1>6, <1>7, <1>13, <1>14, <1>15, LoopStepKeeps

-----------------------------------------------------------------------------
(* The server and the machine                                                *)

LEMMA TokenKeeps ==
  ASSUME ClientInductive, NEW n \in Sncodes, CreateToken(n) \/ RevokeToken(n)
  PROVE  ClientInductive'
<1>1. ClientTypeOK BY DEF ClientInductive
<1>2. /\ UNCHANGED <<setup, network, known, restart, pc, identity, tunnel, loop, commands,
                     history>>
      /\ enabled' \in [Sncodes -> Tokens \cup {None}] /\ issued' \in 0 .. MaxToken
      /\ faults' \in 0 .. MaxFaults
  <2>1. CASE CreateToken(n)
    <3>1. issued + 1 \in Tokens /\ issued + 1 \in 0 .. MaxToken
      BY <1>1, <2>1, ClientAssumption DEF CreateToken, ClientTypeOK, Tokens
    <3> QED BY <1>1, <2>1, <3>1 DEF CreateToken, ClientTypeOK
  <2>2. CASE RevokeToken(n)
    <3>1. faults' \in 0 .. MaxFaults BY <1>1, <2>2, FaultType DEF RevokeToken
    <3> QED BY <1>1, <2>2, <3>1 DEF RevokeToken, ClientTypeOK
  <2> QED BY <2>1, <2>2
<1>3. ClientTypeOK'
  BY <1>1, <1>2 DEF ClientTypeOK, setup, restart, identity, tunnel, commands, history
<1> QED BY <1>2, <1>3, Kept DEF InTunnel, tunnel

LEMMA RequestKeeps ==
  ASSUME ClientInductive, RequestVPNRestart
  PROVE  ClientInductive'
<1>1. ClientTypeOK /\ LoopsHold /\ Remembered /\ Stamps BY DEF ClientInductive, Stamps
<1>2. /\ UNCHANGED <<setup, network, server, delivered, pc, identity, tunnel, loop, commands,
                     faults>>
  BY DEF RequestVPNRestart
<1>3. PICK t \in ({now, now + 1} \cap Time) \ {0} :
        /\ now' = t /\ requested' = t
        /\ rebuilt' = FALSE /\ lost' = (t <= delivered) /\ restarted' = restarted
  BY DEF RequestVPNRestart
<1>4. t \in Nat /\ t \in Time /\ now <= t /\ requested <= t
  BY <1>1, <1>3, StampTypes DEF Stamps, StampsInOrder
<1>5. UNCHANGED <<delivered, reported, signal, lastRequested, loop>>
  BY <1>2 DEF tunnel, commands
<1>6. now \in Nat /\ delivered \in Nat /\ \A l \in Loops : loop[l].command \in Nat
  BY <1>1, StampTypes
<1>7. \A l \in Loops : Passing(l)' <=> Passing(l) BY <1>5 DEF Passing
<1>8. StampsInOrder'
  <2>1. \A l \in Loops : loop[l].command <= now BY <1>1 DEF Stamps, StampsInOrder
  <2>2. \A l \in Loops : loop[l].command <= t BY <1>4, <1>6, <2>1
  <2>3. delivered <= now BY <1>1 DEF Stamps, StampsInOrder
  <2>4. delivered <= t /\ t <= t BY <1>4, <1>6, <2>3
  <2> QED BY <1>1, <1>3, <1>5, <1>7, <2>2, <2>4 DEF Stamps, StampsInOrder
<1>9. OneCommand' BY <1>1, <1>3, <1>5, <1>7 DEF Stamps, OneCommand, RestartsOnce
<1>10. RestartNotForgotten'
  <2>1. t > delivered \/ t <= delivered BY <1>4, <1>6
  <2> QED BY <1>3, <1>5, <2>1 DEF RestartNotForgotten, RestartUnderWay
<1>11. ClientTypeOK'
  <2>1. lost' \in BOOLEAN BY <1>3
  <2> QED
    BY <1>1, <1>2, <1>3, <1>4, <2>1 DEF ClientTypeOK, setup, server, identity, tunnel, commands
<1>12. LoopsHold' /\ Remembered'
  <2>1. UNCHANGED <<pc, cfg, file, known, spoiled, received, refused, reported, loop>>
    BY <1>2 DEF identity, server, tunnel
  <2> QED BY <1>1, <2>1, LoopsHoldKept, RememberedKept DEF InTunnel
<1> QED BY <1>8, <1>9, <1>10, <1>11, <1>12 DEF ClientInductive

LEMMA DieKeeps ==
  ASSUME ClientInductive, Die
  PROVE  ClientInductive'
<1>1. ClientTypeOK /\ LoopsHold /\ Remembered /\ Stamps BY DEF ClientInductive, Stamps
<1>2. /\ pc' = "off" /\ cfg' = NoState
      /\ ended' = "error" /\ control' = FALSE /\ data' = FALSE /\ streams' = 0 /\ dialing' = 0
      /\ dataErr' = FALSE /\ missed' = FALSE /\ reported' = 0
      /\ signal' = 0 /\ lastRequested' = 0
      /\ rebuilt' = TRUE /\ lost' = lost /\ restarted' = {}
      /\ UNCHANGED <<setup, network, server, restart, file, generated, spoiled, received, refused>>
  BY DEF Die, None
<1>3. /\ loop' \in [Loops -> LoopState]
      /\ \A l \in Loops : loop'[l] = NoLoop
  BY NoLoopIs DEF Die
<1>4. faults' \in 0 .. MaxFaults BY <1>1, FaultType DEF Die
<1>5. /\ now' = now /\ requested' = requested /\ delivered' = delivered
  BY <1>2 DEF restart
<1>6. /\ \A l \in Loops : loop'[l].command = 0 /\ loop'[l].phase = "none" /\ ~Passing(l)'
  BY <1>3, NoLoopIs DEF None, Passing
<1>7. StampsInOrder'
  <2>1. now \in Nat /\ delivered \in Nat BY <1>1, StampTypes
  <2> QED BY <1>1, <1>2, <1>5, <1>6, <2>1 DEF Stamps, StampsInOrder
<1>8. OneCommand' BY <1>2, <1>6 DEF OneCommand, RestartsOnce, None
<1>9. RestartNotForgotten' BY <1>2 DEF RestartNotForgotten
<1>10. ClientTypeOK'
  <2>1. 0 \in Time /\ lost \in BOOLEAN BY <1>1, ClientAssumption DEF Time, ClientTypeOK
  <2>2. NoState \in State BY DEF NoState, State
  <2>3. 0 \in 0 .. MaxStreams /\ 0 \in 0 .. Channels BY ClientAssumption
  <2> QED
    BY <1>1, <1>2, <1>3, <1>4, <2>1, <2>2, <2>3 DEF ClientTypeOK, setup, server, restart
<1>11. LoopsHold'
  <2>1. 0 < HeartbeatFail BY ClientAssumption
  <2> QED BY <1>2, <1>3, <2>1, NoLoopIs DEF LoopsHold, None
<1>12. Remembered'
  BY <1>1, <1>2, <1>3, NoLoopIs DEF Remembered, OneIdentity, TokenKept, server
<1> QED BY <1>7, <1>8, <1>9, <1>10, <1>11, <1>12 DEF ClientInductive

-----------------------------------------------------------------------------
(* The theorems                                                              *)

LEMMA ClientStarts ==
  ASSUME ClientInit
  PROVE  ClientInductive
<1>1. /\ network = "all" /\ transport \in Transports /\ skip \in BOOLEAN
      /\ now \in Time /\ requested = 0 /\ delivered = 0 /\ pc = "off" /\ cfg = NoState
      /\ ended = "error" /\ control = FALSE /\ data = FALSE /\ streams = 0 /\ dialing = 0
      /\ dataErr = FALSE /\ missed = FALSE /\ reported = 0
      /\ signal = 0 /\ lastRequested = 0 /\ faults = 0
      /\ spoiled = FALSE /\ refused = FALSE
      /\ rebuilt = FALSE /\ lost = FALSE /\ restarted = {}
  BY DEF ClientInit, None
<1>2. /\ loop \in [Loops -> LoopState] /\ \A l \in Loops : loop[l] = NoLoop
  BY NoLoopIs DEF ClientInit
<1>3. 1 \in Sncodes /\ 1 \in Tokens /\ 0 \in 0 .. MaxStreams /\ 0 \in 0 .. Channels
      /\ 0 \in 0 .. MaxFaults /\ 0 \in Time
  BY ClientAssumption DEF Sncodes, Tokens, Time
<1>4. /\ file \in State /\ known \subseteq Sncodes /\ known \subseteq {file.sncode}
      /\ enabled \in [Sncodes -> Tokens \cup {None}]
      /\ issued \in 0 .. MaxToken /\ generated \in 0 .. MaxSncode /\ received \in BOOLEAN
      /\ file.sncode = None => known = {} /\ ~received
      /\ received => file.token # None
  <2>1. CASE skip = FALSE
    <3>1. /\ file = NoState /\ known = {} /\ issued = 0 /\ generated = 0
          /\ enabled = [n \in Sncodes |-> None] /\ received = FALSE
      BY <2>1 DEF ClientInit
    <3>2. NoState \in State BY DEF NoState, State
    <3>3. 0 \in 0 .. MaxToken /\ 0 \in 0 .. MaxSncode BY ClientAssumption
    <3> QED BY <3>1, <3>2, <3>3
  <2>2. CASE skip = TRUE
    <3>1. /\ file = [sncode |-> 1, token |-> 1] /\ known = {1} /\ issued = 1 /\ generated = 1
          /\ enabled = [n \in Sncodes |-> IF n = 1 THEN 1 ELSE None] /\ received = TRUE
      BY <2>2 DEF ClientInit
    <3>2. file \in State /\ file.sncode = 1 /\ file.token = 1 BY <1>3, <3>1 DEF State
    <3>3. 1 \in 0 .. MaxToken /\ 1 \in 0 .. MaxSncode BY ClientAssumption
    <3> QED BY <1>3, <3>1, <3>2, <3>3 DEF None
  <2> QED BY <1>1, <2>1, <2>2
<1>5. NoState \in State BY DEF NoState, State
<1>6. ClientTypeOK BY <1>1, <1>2, <1>3, <1>4, <1>5 DEF ClientTypeOK
<1>7. LoopsHold
  <2>1. 0 < HeartbeatFail BY ClientAssumption
  <2> QED BY <1>1, <1>2, <2>1, NoLoopIs DEF LoopsHold, None
<1>8. Remembered BY <1>1, <1>2, <1>4, NoLoopIs DEF Remembered, OneIdentity, TokenKept
<1>9. StampsInOrder /\ OneCommand
  <2>1. now \in Nat BY <1>1, ClientAssumption DEF Time
  <2>2. \A l \in Loops : loop[l].command = 0 /\ loop[l].phase = "none" /\ ~Passing(l)
    BY <1>2, NoLoopIs DEF None, Passing
  <2>3. StampsInOrder BY <1>1, <2>1, <2>2 DEF StampsInOrder
  <2>4. OneCommand BY <1>1, <2>2 DEF OneCommand, RestartsOnce, None
  <2> QED BY <2>3, <2>4
<1>10. RestartNotForgotten BY <1>1 DEF RestartNotForgotten
<1> QED BY <1>6, <1>7, <1>8, <1>9, <1>10 DEF ClientInductive

\* What a client, its loops and its state file hold in every state: the
\* invariant the three theorems below follow from.
THEOREM ClientInvariant == ClientSpec => []ClientInductive
<1>1. ClientInit => ClientInductive BY ClientStarts
<1>2. ClientInductive /\ [ClientNext]_clientVars => ClientInductive'
  <2> SUFFICES ASSUME ClientInductive, [ClientNext]_clientVars PROVE ClientInductive'
    OBVIOUS
  <2>1. ASSUME Run PROVE ClientInductive'
    BY <2>1, LoadKeeps, GenerateKeeps, RegisterKeeps, RegisterRefusedKeeps, RegisterLostKeeps,
       PassesOnKeeps, ConnectKeeps, LeaveKeeps DEF Run
  <2>2. ASSUME DialData PROVE ClientInductive' BY <2>2, DataKeeps DEF Data
  <2>3. ASSUME NEW l \in Loops, LoopStep(l) PROVE ClientInductive'
    <3>1. CASE \/ LoopCancelled(l) \/ PostFails(l) \/ PostAccepted(l)
      <4>1. loop[l].phase = "select" BY <3>1 DEF LoopCancelled, PostFails, PostAccepted
      <4> QED BY <3>1, <4>1, RoundKeeps
    <3> QED
      BY <2>3, <3>1, LoopTakesCommandKeeps, TakeCommandKeeps, AnswerLostKeeps, PostAnsweredKeeps,
         SignalKeeps
      DEF LoopStep
  <2>4. ASSUME Environment PROVE ClientInductive'
    <3>1. ASSUME NEW n \in Sncodes, CreateToken(n) \/ RevokeToken(n) PROVE ClientInductive'
      BY <3>1, TokenKeeps
    <3> QED BY <2>4, <3>1, DataKeeps, RequestKeeps, DieKeeps DEF Environment, Data
  <2>5. ASSUME UNCHANGED clientVars PROVE ClientInductive'
    <3>1. UNCHANGED <<setup, network, server, restart, pc, identity, tunnel, loop, commands,
                      faults, history>>
      BY <2>5 DEF clientVars
    <3>2. ClientTypeOK'
      BY <3>1 DEF ClientInductive, ClientTypeOK, setup, server, restart, identity, tunnel, commands,
             history
    <3> QED BY <3>1, <3>2, Kept DEF InTunnel, tunnel, server
  <2> QED BY <2>1, <2>2, <2>3, <2>4, <2>5 DEF ClientNext
<1> QED BY <1>1, <1>2, PTL DEF ClientSpec

\* A machine makes a second row at the server only after a write of its state
\* file failed or was cut (run, registerDevice, saveClientState).
THEOREM IdentityKept == ClientSpec => []IdentitySurvives
<1>1. ClientInductive => IdentitySurvives
  <2> SUFFICES ASSUME ClientInductive, ~spoiled PROVE ~(Cardinality(known) > 1)
    BY DEF IdentitySurvives
  <2>1. known \subseteq {file.sncode} BY DEF ClientInductive, Remembered, OneIdentity
  <2>2. IsFiniteSet({file.sncode}) /\ Cardinality({file.sncode}) = 1 BY FS_Singleton
  <2>3. Cardinality(known) <= 1 /\ Cardinality(known) \in Nat
    BY <2>1, <2>2, FS_Subset, FS_CardinalityType
  <2> QED BY <2>3
<1> QED BY <1>1, ClientInvariant, PTL

\* A device that was given a token is back to the register token only because
\* the server refused a token of its, or the file was spoiled (run,
\* shouldRetryWithRegisterToken, postHeartbeat).
THEOREM TokenLossExplained == ClientSpec => []TokenLossIsExplained
<1>1. ClientInductive => TokenLossIsExplained
  BY DEF ClientInductive, Remembered, TokenKept, TokenLossIsExplained
<1> QED BY <1>1, ClientInvariant, PTL

\* After a request for a restart of the tunnel a tunnel has ended, a restart is
\* under way, or a command was lost in one of the ways of LosesCommand
\* (TakeVPNRestartCommand, signalVPNRestart, heartbeatLoop).
THEOREM RestartIsSomewhere == ClientSpec => []RestartNotForgotten
<1>1. ClientInductive => RestartNotForgotten BY DEF ClientInductive
<1> QED BY <1>1, ClientInvariant, PTL

\* No request is reported to a second tunnel by the same process, whichever
\* loops brought it and in whatever order they use the channel
\* (signalVPNRestart).
THEOREM RequestsEndOneTunnel == ClientSpec => []RestartsOnce
<1>1. ClientInductive => RestartsOnce BY DEF ClientInductive, OneCommand
<1> QED BY <1>1, ClientInvariant, PTL

-----------------------------------------------------------------------------
(* The route store                                                           *)

Reads == [m : [Mappings -> MappingRow \cup {NoRow}],
          d : [Devices -> Row \cup {NoRow}], p : SUBSET Targets]
Budgets == [change : 0 .. MaxChanges, failure : 0 .. MaxFailures, restart : 0 .. MaxRestarts]

\* A bounded counter stays within its bound.
LEMMA WithinBudget ==
  ASSUME budget \in Budgets, NEW k \in {"change", "failure", "restart"}, Within(k)
  PROVE  budget' \in Budgets
BY BoundAssumption DEF Within, Budgets

\* Every route Reload compiles is a route.
LEMMA RoutesType ==
  ASSUME NEW r \in Reads
  PROVE  Routes(r.m, r.d, r.p) \subseteq Route
<1>1. SUFFICES ASSUME NEW g \in Mappings, r.m[g] # NoRow
               PROVE  [mapping |-> g, host |-> r.m[g].host, device |-> r.m[g].device,
                       allowed |-> Allowed(r.m[g].device, r.d[r.m[g].device].group, g, r.p)]
                        \in Route
  BY DEF Routes
<1>2. r.m[g] \in MappingRow
  BY <1>1 DEF Reads
<1>3. r.m[g].host \in Hosts /\ r.m[g].device \in Devices
  BY <1>2 DEF MappingRow
<1>4. Allowed(r.m[g].device, r.d[r.m[g].device].group, g, r.p) \in BOOLEAN
  BY DEF Allowed
<1> QED
  BY <1>3, <1>4 DEF Route

-----------------------------------------------------------------------------
(* Types *)

Rest == /\ admin \in [Admins -> {"idle", "trigger"}]
        /\ client \in [device : Devices, row : Row \cup {NoRow}] \cup {NoRow}
        /\ token \in BOOLEAN
        /\ reloader \in {"idle", "wait", "drain", "mappings", "devices", "policies", "store"}
        /\ snapshot = NoRow \/ snapshot \subseteq Route
        /\ failed \in BOOLEAN /\ silent \in BOOLEAN

Tables == /\ mappings \in [Mappings -> MappingRow \cup {NoRow}]
          /\ devices \in [Devices -> Row \cup {NoRow}]
          /\ denying \subseteq Targets

Typed == Tables /\ Rest /\ read \in Reads /\ budget \in Budgets

LEMMA TypedIsTypeOK == Typed <=> TypeOK
BY DEF Typed, Tables, Rest, Reads, Budgets, TypeOK

\* The console's changes keep the types.
LEMMA ConsoleTyped ==
  ASSUME Typed, NEW a \in Admins, ConsoleNext(a)
  PROVE  Typed'
<1> USE DEF Typed
<1>1. ASSUME Committed(a)
      PROVE  Rest' /\ (read \in Reads)' /\ (budget \in Budgets)'
  <2>1. (budget \in Budgets)'
    BY <1>1, WithinBudget DEF Committed
  <2> QED
    BY <1>1, <2>1 DEF Committed, Rest
<1>2. ASSUME NEW g \in Mappings, DisableMapping(a, g)
      PROVE  Typed'
  <2>1. mappings[g] \in MappingRow
    BY <1>2 DEF DisableMapping, Tables
  <2>2. [mappings[g] EXCEPT !.on = FALSE] \in MappingRow
    BY <2>1 DEF MappingRow
  <2>3. Tables'
    BY <1>2, <2>2 DEF DisableMapping, Tables
  <2> QED
    BY <1>1, <1>2, <2>3 DEF DisableMapping
<1>3. ASSUME NEW g \in Mappings, NEW row \in MappingRow, SaveMapping(a, g, row)
      PROVE  Typed'
  <2>1. Tables'
    BY <1>3 DEF SaveMapping, Tables
  <2> QED
    BY <1>1, <1>3, <2>1 DEF SaveMapping
<1>4. ASSUME NEW t \in Targets, SavePolicy(a, t) \/ DisablePolicy(a, t)
      PROVE  Typed'
  <2>1. Tables'
    BY <1>4 DEF SavePolicy, DisablePolicy, Tables
  <2> QED
    BY <1>1, <1>4, <2>1 DEF SavePolicy, DisablePolicy
<1>5. ASSUME NEW d \in Devices, DeleteDevice(a, d)
      PROVE  Typed'
  <2>1. Tables'
    BY <1>5 DEF DeleteDevice, Tables
  <2> QED
    BY <1>1, <1>5, <2>1 DEF DeleteDevice
<1>6. ASSUME NEW d \in Devices, NEW on \in BOOLEAN, SetDeviceStatus(a, d, on)
      PROVE  Typed'
  <2>1. devices[d] \in Row
    BY <1>6 DEF SetDeviceStatus, Tables
  <2>2. [devices[d] EXCEPT !.on = on] \in Row
    BY <2>1 DEF Row
  <2>3. Tables'
    BY <1>6, <2>2 DEF SetDeviceStatus, Tables
  <2> QED
    BY <1>1, <1>6, <2>3 DEF SetDeviceStatus
<1>7. ASSUME NEW d \in Devices, NEW g \in Groups, AssignDevice(a, d, g)
      PROVE  Typed'
  <2>1. devices[d] \in Row
    BY <1>7 DEF AssignDevice, Tables
  <2>2. [devices[d] EXCEPT !.group = g] \in Row
    BY <2>1 DEF Row
  <2>3. Tables'
    BY <1>7, <2>2 DEF AssignDevice, Tables
  <2> QED
    BY <1>1, <1>7, <2>3 DEF AssignDevice
<1>8. CASE ChangeGroup(a)
  BY <1>1, <1>8 DEF ChangeGroup, Tables, database
<1>9. CASE RequestReload(a)
  BY <1>9 DEF RequestReload, Tables, Rest, database
<1> QED
  BY <1>2, <1>3, <1>4, <1>5, <1>6, <1>7, <1>8, <1>9 DEF ConsoleNext

\* The client's requests keep the types.
LEMMA ClientTyped ==
  ASSUME Typed, DeviceNext
  PROVE  Typed'
<1> USE DEF Typed
<1>1. ASSUME NEW d \in Devices, ClientReads(d)
      PROVE  Typed'
  <2>1. (budget \in Budgets)'
    BY <1>1, WithinBudget DEF ClientReads
  <2>2. client' \in [device : Devices, row : Row \cup {NoRow}]
    BY <1>1 DEF ClientReads, Tables
  <2> QED
    BY <1>1, <2>1, <2>2 DEF ClientReads, Tables, Rest, database
<1>2. ASSUME NEW row \in Row \cup {NoRow}, client # NoRow, Written(row)
      PROVE  Typed'
  <2>1. Tables'
    BY <1>2 DEF Written, Tables
  <2>2. silent' \in BOOLEAN
    BY <1>2 DEF Written, Rest
  <2> QED
    BY <1>2, <2>1, <2>2 DEF Written, Rest
<1>3. client # NoRow => /\ client.row \in Row \cup {NoRow} /\ client.device \in Devices
  BY DEF Rest
<1>4. CASE Register
  <2>1. CASE client.row = NoRow
    <3>1. PICK g \in Groups : Written([on |-> TRUE, group |-> g])
      BY <1>4, <2>1 DEF Register
    <3> QED
      BY <1>2, <1>4, <3>1 DEF Register, Row
  <2>2. CASE client.row # NoRow
    <3>1. PICK on \in {client.row.on, TRUE} : Written([client.row EXCEPT !.on = on])
      BY <1>4, <2>2 DEF Register
    <3>2. client.row \in Row
      BY <1>3, <1>4, <2>2 DEF Register
    <3>3. [client.row EXCEPT !.on = on] \in Row
      BY <3>1, <3>2 DEF Row
    <3> QED
      BY <1>2, <1>4, <3>1, <3>3 DEF Register
  <2> QED
    BY <2>1, <2>2
<1>5. CASE Heartbeat
  <2>1. CASE devices[client.device] = NoRow
    BY <1>2, <1>5, <2>1 DEF Heartbeat
  <2>2. CASE devices[client.device] # NoRow
    <3>1. devices[client.device] \in Row
      BY <1>3, <1>5, <2>2 DEF Heartbeat, Tables
    <3>2. [devices[client.device] EXCEPT !.on = TRUE] \in Row
      BY <3>1 DEF Row
    <3> QED
      BY <1>2, <1>5, <2>2, <3>2 DEF Heartbeat
  <2> QED
    BY <2>1, <2>2
<1> QED
  BY <1>1, <1>4, <1>5 DEF DeviceNext

LEMMA NothingType == Nothing \in Reads
BY DEF Nothing, Reads

\* The reloader, its failures and restarts keep the types.
LEMMA ServerTyped ==
  ASSUME Typed, ReloaderNext \/ ReloadFails \/ Restart
  PROVE  Typed'
<1> USE DEF Typed
<1>1. CASE TakeToken \/ TimerFires \/ DrainToken \/ Drained
  BY <1>1 DEF TakeToken, TimerFires, DrainToken, Drained, Go, ReloaderOnly, Tables, Rest, database
<1>2. CASE ReadMappings
  <2>1. read' \in Reads
    BY <1>2 DEF ReadMappings, Reads, Tables
  <2> QED
    BY <1>2, <2>1 DEF ReadMappings, Go, ReloaderOnly, Tables, Rest, database
<1>3. CASE ReadDevices
  <2>1. read' \in Reads
    BY <1>3 DEF ReadDevices, Reads, Tables
  <2> QED
    BY <1>3, <2>1 DEF ReadDevices, Go, ReloaderOnly, Tables, Rest, database
<1>4. CASE ReadPolicies
  <2>1. read' \in Reads
    BY <1>4 DEF ReadPolicies, Reads, Tables
  <2> QED
    BY <1>4, <2>1 DEF ReadPolicies, Go, ReloaderOnly, Tables, Rest, database
<1>5. CASE Store
  <2>1. snapshot' \subseteq Route
    BY <1>5, RoutesType DEF Store
  <2> QED
    BY <1>5, <2>1, NothingType DEF Store, Go, ReloaderOnly, Tables, Rest, database
<1>6. CASE ReloadFails
  <2>1. (budget \in Budgets)'
    BY <1>6, WithinBudget DEF ReloadFails
  <2> QED
    BY <1>6, <2>1, NothingType DEF ReloadFails, Tables, Rest, database
<1>7. CASE Restart
  <2>1. (budget \in Budgets)'
    BY <1>7, WithinBudget DEF Restart
  <2> QED
    BY <1>7, <2>1, NothingType DEF Restart, Tables, Rest, database
<1> QED
  BY <1>1, <1>2, <1>3, <1>4, <1>5, <1>6, <1>7 DEF ReloaderNext

\* Every variable keeps its type, whatever the order of changes and reloads.
THEOREM TypeCorrect == Spec => []TypeOK
<1>1. Init => Typed
  <2> SUFFICES ASSUME Init PROVE Typed
    OBVIOUS
  <2>1. Tables
    <3>1. mappings \in [Mappings -> MappingRow \cup {NoRow}]
      BY DEF Init
    <3>2. devices \in [Devices -> Row \cup {NoRow}]
      <4>1. {[on |-> TRUE, group |-> g] : g \in Groups} \subseteq Row
        <5>1. ASSUME NEW g \in Groups PROVE [on |-> TRUE, group |-> g] \in Row
          BY SMT DEF Row
        <5> QED
          BY <5>1, Zenon
      <4>2. devices \in [Devices -> {[on |-> TRUE, group |-> g] : g \in Groups}]
        BY DEF Init
      <4> QED
        BY <4>1, <4>2
    <3>3. denying \subseteq Targets
      BY DEF Init
    <3> QED
      BY <3>1, <3>2, <3>3 DEF Tables
  <2>2. Rest
    BY DEF Init, Rest
  <2>3. budget \in Budgets
    BY BoundAssumption DEF Init, Budgets
  <2> QED
    BY <2>1, <2>2, <2>3, NothingType DEF Init, Typed
<1>2. Typed /\ [Next]_vars => Typed'
  <2> SUFFICES ASSUME Typed, [Next]_vars PROVE Typed'
    OBVIOUS
  <2>1. CASE UNCHANGED vars
    BY <2>1 DEF vars, database, Typed, Tables, Rest
  <2> QED
    BY <2>1, ConsoleTyped, ClientTyped, ServerTyped DEF Next
<1> QED
  BY <1>1, <1>2, TypedIsTypeOK, PTL DEF Spec

-----------------------------------------------------------------------------
(* Staleness *)

\* What the reloader has read is what the tables hold, or a request is pending.
ReadIsFresh ==
  /\ reloader \in {"devices", "policies", "store"} => read.m = mappings \/ Pending
  /\ reloader \in {"policies", "store"} => read.d = devices \/ Pending \/ silent
  /\ reloader = "store" => read.p = denying \/ Pending

Inv == Typed /\ ReadIsFresh /\ StaleIsNoticed

\* A step of the console leaves a request behind.
LEMMA ConsoleLeavesRequest ==
  ASSUME Typed, NEW a \in Admins, ConsoleNext(a)
  PROVE  Pending' /\ UNCHANGED <<reloader, read, snapshot, failed, silent>>
<1>1. ASSUME Committed(a)
      PROVE  Pending' /\ UNCHANGED <<reloader, read, snapshot, failed, silent>>
  <2>1. admin'[a] = "trigger"
    BY <1>1 DEF Committed, Typed, Rest
  <2> QED
    BY <1>1, <2>1 DEF Committed, Pending
<1>2. CASE RequestReload(a)
  BY <1>2 DEF RequestReload, Pending
<1> QED
  BY <1>1, <1>2 DEF ConsoleNext, SaveMapping, DisableMapping, SavePolicy, DisablePolicy,
                    SetDeviceStatus, AssignDevice, DeleteDevice, ChangeGroup

\* A step of the client that changes the tables is remembered in silent.
LEMMA ClientIsSilent ==
  ASSUME Typed, DeviceNext
  PROVE  /\ UNCHANGED <<mappings, denying, admin, token, reloader, read, snapshot, failed>>
         /\ silent => silent'
         /\ silent' \/ UNCHANGED devices
<1>1. ASSUME NEW row, client # NoRow, Written(row)
      PROVE  /\ UNCHANGED <<mappings, denying, admin, token, reloader, read, snapshot, failed>>
             /\ silent => silent'
             /\ silent' \/ UNCHANGED devices
  <2>1. CASE row = devices[client.device]
    BY <1>1, <2>1 DEF Written, Typed, Tables
  <2>2. CASE row # devices[client.device]
    BY <1>1, <2>2 DEF Written
  <2> QED
    BY <2>1, <2>2
<1>2. CASE \E d \in Devices : ClientReads(d)
  BY <1>2 DEF ClientReads, database
<1>3. CASE Register
  BY <1>1, <1>3 DEF Register
<1>4. CASE Heartbeat
  BY <1>1, <1>4 DEF Heartbeat
<1> QED
  BY <1>2, <1>3, <1>4 DEF DeviceNext

\* Pending is a matter of the token and of the administrators.
LEMMA PendingKept ==
  ASSUME UNCHANGED <<admin, token>>
  PROVE  Pending' <=> Pending
BY DEF Pending

\* One step of the reloader.
LEMMA ReloaderKeepsInv ==
  ASSUME Inv, ReloaderNext \/ ReloadFails \/ Restart
  PROVE  (ReadIsFresh /\ StaleIsNoticed)'
<1>1. CASE TakeToken \/ TimerFires \/ DrainToken \/ Drained
  BY <1>1 DEF TakeToken, TimerFires, DrainToken, Drained, Go, ReadIsFresh, StaleIsNoticed
<1>2. CASE ReadMappings
  <2>1. read'.m = mappings
    BY <1>2 DEF ReadMappings, Inv, Typed, Reads
  <2> QED
    BY <1>2, <2>1 DEF ReadMappings, Go, ReloaderOnly, database, ReadIsFresh, StaleIsNoticed
<1>3. CASE ReadDevices
  <2>1. read'.d = devices /\ read'.m = read.m
    BY <1>3 DEF ReadDevices, Inv, Typed, Reads
  <2>2. Pending' <=> Pending
    BY <1>3, PendingKept DEF ReadDevices, ReloaderOnly
  <2> QED
    BY <1>3, <2>1, <2>2 DEF ReadDevices, Go, ReloaderOnly, database, Inv, ReadIsFresh, StaleIsNoticed
<1>4. CASE ReadPolicies
  <2>1. read'.p = denying /\ read'.m = read.m /\ read'.d = read.d
    BY <1>4 DEF ReadPolicies, Inv, Typed, Reads
  <2>2. Pending' <=> Pending
    BY <1>4, PendingKept DEF ReadPolicies, ReloaderOnly
  <2> QED
    BY <1>4, <2>1, <2>2 DEF ReadPolicies, Go, ReloaderOnly, database, Inv, ReadIsFresh, StaleIsNoticed
<1>5. CASE Store
  <2>1. Pending' <=> Pending
    BY <1>5, PendingKept DEF Store, ReloaderOnly
  <2>2. ~Pending /\ ~silent => snapshot' = Routes(mappings, devices, denying)
    BY <1>5 DEF Store, Go, Inv, ReadIsFresh
  <2>3. Routes(mappings, devices, denying)' = Routes(mappings, devices, denying)
    BY <1>5 DEF Store, ReloaderOnly, database
  <2> QED
    BY <1>5, <2>1, <2>2, <2>3 DEF Store, Go, ReadIsFresh, StaleIsNoticed, Fresh
<1>6. CASE ReloadFails
  BY <1>6 DEF ReloadFails, ReadIsFresh, StaleIsNoticed
<1>7. CASE Restart
  BY <1>7 DEF Restart, ReadIsFresh, StaleIsNoticed
<1> QED
  BY <1>1, <1>2, <1>3, <1>4, <1>5, <1>6, <1>7 DEF ReloaderNext

\* No change of the console is forgotten: a resting reloader's snapshot is that
\* of the tables, or a reload is requested, or the last one failed, or a client
\* wrote its row.
THEOREM NoChangeForgotten == Spec => []StaleIsNoticed
<1>1. Init => ReadIsFresh /\ StaleIsNoticed
  BY DEF Init, ReadIsFresh, StaleIsNoticed
<1>2. Inv /\ [Next]_vars => (ReadIsFresh /\ StaleIsNoticed)'
  <2> SUFFICES ASSUME Inv, [Next]_vars PROVE (ReadIsFresh /\ StaleIsNoticed)'
    OBVIOUS
  <2>1. ASSUME NEW a \in Admins, ConsoleNext(a)
        PROVE  (ReadIsFresh /\ StaleIsNoticed)'
    <3>1. Pending'
      BY <2>1, ConsoleLeavesRequest DEF Inv
    <3> QED
      BY <3>1 DEF ReadIsFresh, StaleIsNoticed
  <2>2. CASE DeviceNext
    <3>1. /\ UNCHANGED <<mappings, denying, admin, token, reloader, read, snapshot, failed>>
          /\ silent => silent'
          /\ silent' \/ UNCHANGED devices
      BY <2>2, ClientIsSilent DEF Inv
    <3>2. Pending' <=> Pending
      BY <3>1, PendingKept
    <3>3. ReadIsFresh'
      BY <3>1, <3>2 DEF Inv, ReadIsFresh
    <3>4. UNCHANGED devices => (Fresh' <=> Fresh)
      BY <3>1 DEF Fresh
    <3>5. StaleIsNoticed'
      BY <3>1, <3>2, <3>4 DEF Inv, StaleIsNoticed
    <3> QED
      BY <3>3, <3>5
  <2>3. CASE ReloaderNext \/ ReloadFails \/ Restart
    BY <2>3, ReloaderKeepsInv
  <2>4. CASE UNCHANGED vars
    <3>1. (Pending' <=> Pending) /\ (Fresh' <=> Fresh)
      BY <2>4, PendingKept DEF vars, database, Fresh
    <3> QED
      BY <2>4, <3>1 DEF vars, database, Inv, ReadIsFresh, StaleIsNoticed
  <2> QED
    BY <2>1, <2>2, <2>3, <2>4 DEF Next
<1>3. Typed /\ ReadIsFresh /\ StaleIsNoticed <=> Inv
  BY DEF Inv
<1> QED
  BY <1>1, <1>2, <1>3, TypeCorrect, TypedIsTypeOK, PTL DEF Spec

-----------------------------------------------------------------------------
(* The two ways to answer a request *)

\* routeAllowsHTTP and IsAllowed decide alike.
LEMMA PoliciesAgree ==
  ASSUME NEW d, NEW g
  PROVE  Allowed(d, devices[d].group, g, denying) = IsAllowed(d, g)
<1>1. Allowed(d, devices[d].group, g, denying) <=> IsAllowed(d, g)
  BY DEF Allowed, IsAllowed
<1>2. Allowed(d, devices[d].group, g, denying) \in BOOLEAN /\ IsAllowed(d, g) \in BOOLEAN
  BY DEF Allowed, IsAllowed
<1> QED
  BY <1>1, <1>2

\* A fresh snapshot answers every request as the tables would, in any state.
THEOREM AnswersAgree == CachedAnswersAgree
<1> SUFFICES ASSUME NEW host \in Hosts
             PROVE  Cached(Routes(mappings, devices, denying), host) = Direct(host)
  BY DEF CachedAnswersAgree
<1> DEFINE Served(x) == /\ mappings[x] # NoRow /\ mappings[x].on
                        /\ devices[mappings[x].device] # NoRow
                        /\ devices[mappings[x].device].on
           RouteOf(x) == [mapping |-> x, host |-> mappings[x].host,
                          device |-> mappings[x].device,
                          allowed |-> Allowed(mappings[x].device,
                                              devices[mappings[x].device].group, x, denying)]
           AnswerOf(x) == <<x, mappings[x].device, IsAllowed(mappings[x].device, x)>>
<1>1. Routes(mappings, devices, denying) = {RouteOf(x) : x \in {y \in Mappings : Served(y)}}
  BY DEF Routes
<1>2. Direct(host) = {AnswerOf(x) : x \in {y \in Mappings : Served(y) /\ mappings[y].host = host}}
  BY DEF Direct
<1>3. ASSUME NEW x \in Mappings
      PROVE  /\ <<RouteOf(x).mapping, RouteOf(x).device, RouteOf(x).allowed>> = AnswerOf(x)
             /\ RouteOf(x).host = mappings[x].host
  BY PoliciesAgree
<1> HIDE DEF Served, RouteOf, AnswerOf
<1>4. Cached(Routes(mappings, devices, denying), host)
        = {AnswerOf(x) : x \in {y \in Mappings : Served(y) /\ mappings[y].host = host}}
  BY <1>1, <1>3 DEF Cached
<1> QED
  BY <1>2, <1>4

=============================================================================
