------------------------------- MODULE Client -------------------------------
(***************************************************************************)
(* The life of a device's client (cmd/navmesh-client/main.go): load the    *)
(* state file, register, wait for activation, connect over QUIC or TCP,    *)
(* serve the tunnel with a heartbeat loop of its own, reconnect.  Of the   *)
(* server it has what the client can tell: which devices have a row, the   *)
(* enabled token of each, and the two columns of a VPN restart request.    *)
(*                                                                         *)
(* Concurrency.  The main goroutine and the heartbeat loop of a tunnel     *)
(* meet in a channel of errors.  The loop is told to stop when its tunnel  *)
(* ends, but may be in the middle of a request: it may end much later, and *)
(* meanwhile writes the same state file and reads the same channel of      *)
(* restart commands as the loop of the next tunnel.                        *)
(*                                                                         *)
(* Faults.  The process may die at any step; the state file is written in  *)
(* place, so a crash or a full disk leaves it unreadable; the network may  *)
(* go, or lose UDP only; connections break; answers are lost.              *)
(*                                                                         *)
(* Abstractions.  A state file and a configuration are the sncode and the  *)
(* device token: guid, type, alias and remark follow the sncode.  Sncodes  *)
(* and tokens are numbers in the order they are made; 0 is none, and a     *)
(* file that is missing or torn reads as none of both.  Dialling the       *)
(* connections of a tunnel and their hellos are one step that succeeds or  *)
(* fails.  A data loop of a TCP tunnel that has ended goes on with its     *)
(* last connection until the server closes it (TunnelManager), and touches *)
(* nothing modelled here.  Sncode and token are not given on the command   *)
(* line.  The status of the device (DeviceLifecycle) and the validation    *)
(* cache (DeviceTokens) are left out.                                      *)
(***************************************************************************)
EXTENDS Naturals, FiniteSets

CONSTANTS
  Transports,    \* values of -transport: "auto", "quic", "tcp"
  Loops,         \* heartbeat loops alive at once
  HeartbeatFail, \* cfg.HeartbeatFail
  Channels,      \* cfg.DataChannels
  MaxStreams,    \* bound: streams of a QUIC tunnel at once
  MaxSncode,     \* bound: sncodes generated
  MaxToken,      \* bound: device tokens created
  MaxTime,       \* bound: the server's clock
  MaxFaults      \* bound: faults of the network, the disk and the process

ASSUME ClientAssumption ==
  /\ Transports \subseteq {"auto", "quic", "tcp"}
  /\ HeartbeatFail \in Nat \ {0} /\ Channels \in Nat \ {0}
  /\ MaxStreams \in Nat /\ MaxSncode \in Nat \ {0} /\ MaxToken \in Nat \ {0}
  /\ MaxTime \in Nat /\ MaxFaults \in Nat

Sncodes == 1 .. MaxSncode
Tokens == 1 .. MaxToken
None == 0
Time == 0 .. MaxTime
State == [sncode: Sncodes \cup {None}, token: Tokens \cup {None}]
NoState == [sncode |-> None, token |-> None]

VARIABLES
  transport,   \* cfg.Transport
  skip,        \* cfg.SkipRegister
  network,     \* what gets through: "none", "tcp" or "all"
  known,       \* sncodes of the rows of devices
  enabled,     \* the enabled token of each device
  issued,      \* tokens created so far: 1 .. issued
  now,         \* the server's clock
  requested,   \* vpn_restart_requested_at
  delivered,   \* vpn_restart_delivered_at
  pc,          \* where run is
  cfg,         \* cfg of run
  file,        \* the state file
  generated,   \* sncodes generated so far
  ended,       \* how the tunnel ended: "error" or "restart"
  control,     \* the control connection of the tunnel works
  data,        \* the data connection of the QUIC tunnel works
  streams,     \* handlers of streams of the QUIC tunnel: wg
  dialing,     \* data loops of the TCP tunnel without a connection
  dataErr,     \* dataErr holds an error
  missed,      \* heartbeatErr holds "heartbeat failed"
  reported,    \* heartbeatErr holds the restart requested at that time
  loop,        \* heartbeat loops
  signal,      \* vpnRestartState.ch
  lastRequested, \* vpnRestartState.lastRequestedAt
  faults,      \* faults so far
  spoiled,     \* auxiliary: a write of the state file failed or was cut
  received,    \* auxiliary: the client was given a token
  refused,     \* auxiliary: the server refused a token at registration
  rebuilt,     \* auxiliary: a tunnel has ended since the last restart request
  lost,        \* auxiliary: a command was lost since in one of the ways LosesCommand names
  restarted    \* auxiliary: the requests that were reported to a tunnel that ended

server == <<known, enabled, issued>>
restart == <<now, requested, delivered>>
setup == <<transport, skip>>
identity == <<cfg, file, generated, spoiled, received, refused>>
tunnel == <<ended, control, data, streams, dialing, dataErr, missed, reported>>
commands == <<signal, lastRequested>>
history == <<rebuilt, lost, restarted>>
clientVars == <<setup, network, server, restart, pc, identity, tunnel, loop, commands,
          faults, history>>

NoLoop == [phase |-> "none", live |-> FALSE, misses |-> 0, cfg |-> NoState, command |-> None]
LoopState ==
  [phase: {"none", "select", "take", "answer", "send", "drain", "resend"}, live: BOOLEAN,
   misses: 0 .. HeartbeatFail, cfg: State, command: Time]

ClientTypeOK ==
  /\ transport \in Transports /\ skip \in BOOLEAN
  /\ network \in {"none", "tcp", "all"}
  /\ known \subseteq Sncodes
  /\ enabled \in [Sncodes -> Tokens \cup {None}]
  /\ issued \in 0 .. MaxToken
  /\ {now, requested, delivered, reported, signal, lastRequested} \subseteq Time
  /\ pc \in {"off", "register", "poll", "backoff", "quic", "tcp", "serveQUIC", "serveTCP", "drain"}
  /\ {cfg, file} \subseteq State
  /\ generated \in 0 .. MaxSncode
  /\ ended \in {"error", "restart"}
  /\ {control, data, dataErr, missed, spoiled, received, refused, rebuilt, lost} \subseteq BOOLEAN
  /\ restarted \subseteq Time
  /\ streams \in 0 .. MaxStreams
  /\ dialing \in 0 .. Channels
  /\ loop \in [Loops -> LoopState]
  /\ faults \in 0 .. MaxFaults

\* A device that was never registered, or one that is active and is started
\* with -skipRegister.
ClientInit ==
  /\ transport \in Transports
  /\ network = "all"
  /\ \/ /\ skip = FALSE
        /\ file = NoState /\ known = {} /\ issued = 0 /\ generated = 0
        /\ enabled = [n \in Sncodes |-> None]
        /\ received = FALSE
     \/ /\ skip = TRUE
        /\ file = [sncode |-> 1, token |-> 1] /\ known = {1} /\ issued = 1 /\ generated = 1
        /\ enabled = [n \in Sncodes |-> IF n = 1 THEN 1 ELSE None]
        /\ received = TRUE
  /\ now \in Time /\ requested = 0 /\ delivered = 0
  /\ pc = "off" /\ cfg = NoState
  /\ ended = "error" /\ control = FALSE /\ data = FALSE /\ streams = 0 /\ dialing = 0
  /\ dataErr = FALSE /\ missed = FALSE /\ reported = None
  /\ loop = [l \in Loops |-> NoLoop]
  /\ signal = None /\ lastRequested = 0
  /\ faults = 0
  /\ spoiled = FALSE /\ refused = FALSE
  /\ rebuilt = FALSE /\ lost = FALSE /\ restarted = {}

\* A tunnel has ended, after what its heartbeat loop reported.
TunnelEnds ==
  /\ rebuilt' = TRUE
  /\ restarted' = restarted \cup ({reported} \ {None})
  /\ lost' = lost

\* A command that no other will stand for is lost if this holds.
LosesCommand(condition) ==
  lost' = (lost \/ condition) /\ UNCHANGED <<rebuilt, restarted>>

\* The token the server accepts for the device of s.
Valid(s) == s.sncode \in known /\ s.token # None /\ enabled[s.sncode] = s.token

Fault == faults < MaxFaults /\ faults' = faults + 1

\* saveClientState: the file is truncated and written; its errors are ignored.
SaveState(s) ==
  \/ file' = s /\ UNCHANGED <<spoiled, faults>>
  \/ Fault /\ file' \in {file, NoState} /\ spoiled' = TRUE

-----------------------------------------------------------------------------
(* Start and registration.                                                 *)

\* Where the body of the loop of run goes on with a registered device.
AfterRegister(s) ==
  CASE s.token = None -> "poll"
    [] transport = "tcp" -> "tcp"
    [] OTHER -> "quic"

LoopStart(s) == IF skip THEN AfterRegister(s) ELSE "register"

\* loadClientState succeeds with a sncode.
LoadState ==
  /\ pc = "off" /\ file.sncode # None
  /\ cfg' = file
  /\ pc' = LoopStart(file)
  /\ UNCHANGED <<setup, network, server, restart, file, generated, spoiled, received, refused,
                 tunnel, loop, commands, faults, history>>

(* Seeded fault: the new sncode is left for the registration to save.      *)
GenerateStateUnsaved ==
  /\ pc = "off" /\ file.sncode = None /\ generated < MaxSncode
  /\ LET s == [sncode |-> generated + 1, token |-> None]
     IN cfg' = s /\ pc' = LoopStart(s)
  /\ generated' = generated + 1
  /\ UNCHANGED <<setup, network, server, restart, file, spoiled, received, refused,
                 tunnel, loop, commands, faults, history>>

\* No file, or one that cannot be read: a new sncode, saved at once.
GenerateState ==
  /\ pc = "off" /\ file.sncode = None /\ generated < MaxSncode
  /\ LET s == [sncode |-> generated + 1, token |-> None]
     IN /\ cfg' = s
        /\ SaveState(s)
        /\ pc' = LoopStart(s)
  /\ generated' = generated + 1
  /\ UNCHANGED <<setup, network, server, restart, received, refused,
                 tunnel, loop, commands, history>>

\* What registration with the register token answers: the enabled token.
TokenFor(s) == IF s.token = None THEN enabled[s.sncode] ELSE s.token

Accepted(s) == s.token = None \/ Valid(s)

RegisterDevice ==
  /\ pc = "register" /\ network # "none" /\ Accepted(cfg)
  /\ known' = known \cup {cfg.sncode}
  /\ LET s == [cfg EXCEPT !.token = TokenFor(cfg)]
     IN /\ cfg' = s
        /\ SaveState(s)
        /\ pc' = AfterRegister(s)
        /\ received' = (received \/ s.token # None)
  /\ UNCHANGED <<setup, network, enabled, issued, restart, generated, refused,
                 tunnel, loop, commands, history>>

(* Seeded faults: any error drops the token; none does.                    *)
RetryOnAnyError(error) == cfg.token # None
NeverRetry(error) == FALSE

\* shouldRetryWithRegisterToken: the text of the error names the token or the device.
ShouldRetryWithRegisterToken(error) == cfg.token # None /\ error = "refused"

\* The device token is dropped, in the file too, and registration starts over at once.
DropToken ==
  /\ cfg' = [cfg EXCEPT !.token = None]
  /\ SaveState([cfg EXCEPT !.token = None])
  /\ UNCHANGED pc

RegisterError(error) ==
  IF ShouldRetryWithRegisterToken(error)
  THEN DropToken
  ELSE pc' = "backoff" /\ UNCHANGED <<cfg, file, spoiled, faults>>

RegisterRefused ==
  /\ pc = "register" /\ network # "none" /\ ~Accepted(cfg)
  /\ refused' = TRUE
  /\ RegisterError("refused")
  /\ UNCHANGED <<setup, network, server, restart, generated, received,
                 tunnel, loop, commands, history>>

\* The server cannot be reached.
RegisterUnreachable ==
  /\ pc = "register" /\ network = "none"
  /\ RegisterError("unreachable")
  /\ UNCHANGED <<setup, network, server, restart, generated, received, refused,
                 tunnel, loop, commands, history>>

\* The server takes the registration and its answer is lost.
RegisterLost ==
  /\ pc = "register" /\ network # "none" /\ Accepted(cfg) /\ Fault
  /\ known' = known \cup {cfg.sncode}
  /\ pc' = "backoff"
  /\ UNCHANGED <<setup, network, enabled, issued, restart, identity,
                 tunnel, loop, commands, history>>

\* waitActivationPoll and waitReconnect return.
Wake ==
  /\ pc \in {"poll", "backoff"}
  /\ pc' = LoopStart(cfg)
  /\ UNCHANGED <<setup, network, server, restart, identity, tunnel, loop, commands,
                 faults, history>>

-----------------------------------------------------------------------------
(* The tunnel.                                                             *)

\* connectAndServe ends with an error: back to the loop of run.  A restart
\* starts over at once, as the first failure does after its wait.
Disconnect(how) == pc' = IF how = "restart" THEN LoopStart(cfg) ELSE "backoff"

\* connectAndServeAuto falls back to TCP whatever ended the QUIC tunnel.
AfterQUIC(how) ==
  IF transport = "auto" THEN pc' = "tcp" ELSE Disconnect(how)

FreeLoops == {l \in Loops : loop[l].phase = "none"}

\* The hellos are accepted; the tunnel's heartbeat loop starts, with the
\* configuration of this moment and an empty channel of errors.
Serve(state) ==
  /\ FreeLoops # {}
  /\ LET l == CHOOSE l \in FreeLoops : TRUE
     IN loop' = [loop EXCEPT ![l] = [NoLoop EXCEPT !.phase = "select", !.live = TRUE, !.cfg = cfg]]
  /\ pc' = state
  /\ control' = TRUE
  /\ missed' = FALSE /\ reported' = None
  /\ UNCHANGED <<ended, streams>>

ConnectQUIC ==
  /\ pc = "quic" /\ network = "all" /\ Valid(cfg)
  /\ Serve("serveQUIC")
  /\ data' = TRUE
  /\ UNCHANGED <<setup, network, server, restart, identity, dialing, dataErr, commands,
                 faults, history>>

ConnectQUICFails ==
  /\ pc = "quic" /\ ~(network = "all" /\ Valid(cfg))
  /\ AfterQUIC("error")
  /\ UNCHANGED <<setup, network, server, restart, identity, tunnel, loop, commands,
                 faults, history>>

ConnectTCP ==
  /\ pc = "tcp" /\ network # "none" /\ Valid(cfg)
  /\ Serve("serveTCP")
  /\ dialing' = Channels /\ dataErr' = FALSE
  /\ UNCHANGED <<setup, network, server, restart, identity, data, commands,
                 faults, history>>

ConnectTCPFails ==
  /\ pc = "tcp" /\ ~(network # "none" /\ Valid(cfg))
  /\ Disconnect("error")
  /\ UNCHANGED <<setup, network, server, restart, identity, tunnel, loop, commands,
                 faults, history>>

\* tcpDataLoop dials a data connection and says hello on it.
DialData ==
  /\ pc = "serveTCP" /\ dialing > 0
  /\ dialing' = dialing - 1
  /\ dataErr' = (dataErr \/ ~(network # "none" /\ Valid(cfg)))
  /\ UNCHANGED <<setup, network, server, restart, pc, identity, ended, control, data, streams,
                 missed, reported, loop, commands, faults, history>>

\* handleTCPDataConnection returns: its stream is over, or its connection broke.
RecycleData ==
  /\ pc = "serveTCP" /\ dialing < Channels
  /\ dialing' = dialing + 1
  /\ UNCHANGED <<setup, network, server, restart, pc, identity, ended, control, data, streams,
                 dataErr, missed, reported, loop, commands, faults, history>>

\* The server opens a stream; the handler dials the local service.
AcceptStream ==
  /\ pc = "serveQUIC" /\ data /\ network = "all" /\ streams < MaxStreams
  /\ streams' = streams + 1
  /\ UNCHANGED <<setup, network, server, restart, pc, identity, ended, control, data, dialing,
                 dataErr, missed, reported, loop, commands, faults, history>>

\* A handler returns.  After its connection is gone it still waits for the
\* local service to send something or to close (bridge).
StreamDone ==
  /\ streams > 0
  /\ streams' = streams - 1
  /\ UNCHANGED <<setup, network, server, restart, pc, identity, ended, control, data, dialing,
                 dataErr, missed, reported, loop, commands, faults, history>>

Cancel == loop' = [l \in Loops |-> [loop[l] EXCEPT !.live = FALSE]]
Heartbeats == missed \/ reported # None
HeartbeatErr == IF reported # None THEN "restart" ELSE "error"

\* The first deferred call waits for the handlers of streams: the heartbeat
\* loop is stopped and the connections are closed after it.
LeaveAccept ==
  /\ pc = "serveQUIC" /\ ~(data /\ network = "all")
  /\ pc' = "drain" /\ ended' = "error"
  /\ UNCHANGED <<setup, network, server, restart, identity, control, data, streams, dialing,
                 dataErr, missed, reported, loop, commands, faults, history>>

\* The heartbeat loop reported; both connections are closed before the wait.
LeaveHeartbeat ==
  /\ pc = "serveQUIC" /\ Heartbeats
  /\ pc' = "drain" /\ ended' = HeartbeatErr
  /\ control' = FALSE /\ data' = FALSE
  /\ TunnelEnds
  /\ missed' = FALSE /\ reported' = None
  /\ UNCHANGED <<setup, network, server, restart, identity, streams, dialing, dataErr,
                 loop, commands, faults>>

\* Every handler has returned: stop the heartbeat loop, close, and go on.
\* What the loop reports from now on nobody reads.
LeaveQUIC ==
  /\ pc = "drain" /\ streams = 0
  /\ Cancel
  /\ control' = FALSE /\ data' = FALSE
  /\ TunnelEnds
  /\ missed' = FALSE /\ reported' = None
  /\ AfterQUIC(ended) /\ ended' = "error"
  /\ UNCHANGED <<setup, network, server, restart, identity, streams, dialing, dataErr,
                 commands, faults>>

\* The TCP tunnel waits for nothing: its loops are cancelled and it returns.
LeaveTCP ==
  /\ pc = "serveTCP"
  /\ \/ Heartbeats /\ Disconnect(HeartbeatErr)
     \/ dataErr /\ Disconnect("error")
  /\ TunnelEnds
  /\ Cancel
  /\ control' = FALSE /\ dialing' = 0 /\ dataErr' = FALSE
  /\ missed' = FALSE /\ reported' = None
  /\ UNCHANGED <<setup, network, server, restart, identity, ended, data, streams,
                 commands, faults>>

-----------------------------------------------------------------------------
(* The heartbeat loop l: heartbeatLoop and tcpHeartbeatLoop.               *)

unlessLoop == <<setup, network, server, pc, ended, control, data, streams, dialing, dataErr>>

\* The loop reports in the channel of its tunnel; when the tunnel has ended
\* nobody reads it.
Report(l, stamp) ==
  /\ missed' = (missed \/ (loop[l].live /\ stamp = None))
  /\ reported' = IF loop[l].live /\ stamp # None THEN stamp ELSE reported

LoopEnds(l) == loop' = [loop EXCEPT ![l] = NoLoop]

\* The loop takes a restart command and reports it; one of an ended tunnel
\* takes it from the loop it was meant for.
LoopTakesCommand(l) ==
  /\ loop[l].phase = "select" /\ signal # None
  /\ signal' = None
  /\ Report(l, signal)
  /\ LosesCommand(~loop[l].live)
  /\ LoopEnds(l)
  /\ UNCHANGED <<unlessLoop, restart, identity, lastRequested, faults>>

LoopCancelled(l) ==
  /\ loop[l].phase = "select" /\ ~loop[l].live
  /\ LoopEnds(l)
  /\ UNCHANGED <<unlessLoop, restart, identity, missed, reported, commands, faults, history>>

\* heartbeatFailed: only the heartbeat on the tunnel counts.
HeartbeatFailed(l) == ~(loop[l].live /\ control /\ network # "none")

\* Heartbeats on the tunnel that failed in a row, with the one of this tick.
Misses(l) == IF HeartbeatFailed(l) THEN loop[l].misses + 1 ELSE 0

\* The end of a round: too many heartbeats failed, or the next select.
LoopRound(l, misses) ==
  IF misses >= HeartbeatFail
  THEN Report(l, None) /\ LoopEnds(l)
  ELSE /\ loop' = [loop EXCEPT ![l].phase = "select", ![l].misses = misses, ![l].command = None]
       /\ UNCHANGED <<missed, reported>>

\* The ticker: a heartbeat on the tunnel, then the HTTP heartbeat, which fails
\* or is refused: the tunnel is kept.  select may choose the ticker although
\* the loop is cancelled.
PostFails(l) ==
  /\ loop[l].phase = "select"
  /\ LoopRound(l, Misses(l))
  /\ UNCHANGED <<unlessLoop, restart, identity, commands, faults, history>>

\* The ticker: the server accepts the HTTP heartbeat and reads the restart
\* columns (TakeVPNRestartCommand), unless it has an upgrade to hand out.
PostAccepted(l) ==
  /\ loop[l].phase = "select" /\ loop[l].live /\ network # "none" /\ Valid(loop[l].cfg)
  /\ \/ /\ requested > delivered
        /\ loop' = [loop EXCEPT ![l].phase = "take", ![l].command = requested,
                                ![l].misses = Misses(l)]
     \/ loop' = [loop EXCEPT ![l].phase = "answer", ![l].misses = Misses(l)]
  /\ UNCHANGED <<unlessLoop, restart, identity, missed, reported, commands, faults, history>>

\* A request made since the columns were read, but not later than now, counts as
\* delivered although the answer holds the one before, which may be one the
\* client has had.
TakeCommand(l) ==
  /\ loop[l].phase = "take"
  /\ \E t \in {now, now + 1} \cap Time : now' = t /\ delivered' = t
  /\ loop' = [loop EXCEPT ![l].phase = "answer"]
  /\ LosesCommand(loop[l].command # requested /\ loop[l].command <= lastRequested)
  /\ UNCHANGED <<unlessLoop, requested, identity, missed, reported, commands, faults>>

\* The answer of the server is lost, or its request was cancelled.
AnswerLost(l) ==
  /\ loop[l].phase = "answer" /\ (Fault \/ (~loop[l].live /\ faults' = faults))
  /\ LoopRound(l, loop[l].misses)
  /\ LosesCommand(loop[l].command > lastRequested)
  /\ UNCHANGED <<unlessLoop, restart, identity, commands>>

(* Seeded fault: a command is passed on whatever was seen before.          *)
SignalAgain(l) ==
  IF loop[l].command # None
  THEN /\ lastRequested' = loop[l].command
       /\ loop' = [loop EXCEPT ![l].phase = "send"]
       /\ UNCHANGED <<missed, reported>>
  ELSE UNCHANGED lastRequested /\ LoopRound(l, loop[l].misses)

\* signalVPNRestart compares and sets the last stamp under its lock; the
\* channel is filled without it, in the steps below.
SignalVPNRestart(l) ==
  IF loop[l].command > lastRequested
  THEN /\ lastRequested' = loop[l].command
       /\ loop' = [loop EXCEPT ![l].phase = "send"]
       /\ UNCHANGED <<missed, reported>>
  ELSE UNCHANGED lastRequested /\ LoopRound(l, loop[l].misses)

\* postHeartbeat with an answer: save what it says with the token the loop
\* started with, pass a new command on or end the round.
PostAnswered(l) ==
  /\ loop[l].phase = "answer"
  /\ SaveState(loop[l].cfg)
  /\ SignalVPNRestart(l)
  /\ UNCHANGED <<unlessLoop, restart, cfg, generated, received, refused, signal, history>>

unlessSignal ==
  <<unlessLoop, restart, identity, lastRequested, faults, history>>

\* The first select: the command goes into the channel, which has one place.
SendCommand(l) ==
  /\ loop[l].phase = "send"
  /\ \/ /\ signal = None
        /\ signal' = loop[l].command
        /\ LoopRound(l, loop[l].misses)
     \/ /\ signal # None
        /\ loop' = [loop EXCEPT ![l].phase = "drain"]
        /\ UNCHANGED <<signal, missed, reported>>
  /\ UNCHANGED unlessSignal

(* Seeded fault: the channel is emptied and the command not sent again.    *)
DrainOnly(l) ==
  /\ loop[l].phase = "drain"
  /\ signal' = None
  /\ LoopRound(l, loop[l].misses)
  /\ UNCHANGED unlessSignal

\* The second select takes what the channel holds now: by then it may be
\* empty, or hold a newer command than this one.
DrainChannel(l) ==
  /\ loop[l].phase = "drain"
  /\ signal' = None
  /\ loop' = [loop EXCEPT ![l].phase = "resend"]
  /\ UNCHANGED <<missed, reported>>
  /\ UNCHANGED unlessSignal

\* The third select: another loop may have filled the channel meanwhile, and
\* then this command is dropped.
ResendCommand(l) ==
  /\ loop[l].phase = "resend"
  /\ signal' = IF signal = None THEN loop[l].command ELSE signal
  /\ LoopRound(l, loop[l].misses)
  /\ UNCHANGED unlessSignal

LoopStep(l) ==
  \/ LoopTakesCommand(l) \/ LoopCancelled(l)
  \/ PostFails(l) \/ PostAccepted(l) \/ TakeCommand(l) \/ AnswerLost(l) \/ PostAnswered(l)
  \/ SendCommand(l) \/ DrainChannel(l) \/ ResendCommand(l)

-----------------------------------------------------------------------------
(* The server, the network and the machine.                                *)

\* An administrator activates the device or rotates its token.
CreateToken(n) ==
  /\ n \in known /\ issued < MaxToken
  /\ issued' = issued + 1
  /\ enabled' = [enabled EXCEPT ![n] = issued + 1]
  /\ UNCHANGED <<setup, network, known, restart, pc, identity, tunnel, loop, commands,
                 faults, history>>

\* The token is revoked, or the device deleted with it.
RevokeToken(n) ==
  /\ enabled[n] # None /\ Fault
  /\ enabled' = [enabled EXCEPT ![n] = None]
  /\ UNCHANGED <<setup, network, known, issued, restart, pc, identity, tunnel, loop, commands,
                 history>>

\* RequestVPNRestart: overwrites a request nobody took.  One made in the
\* millisecond of the last delivery counts as delivered.
RequestVPNRestart ==
  /\ Valid(cfg)
  /\ \E t \in ({now, now + 1} \cap Time) \ {0} :
       /\ now' = t /\ requested' = t
       /\ rebuilt' = FALSE /\ lost' = (t <= delivered) /\ restarted' = restarted
  /\ UNCHANGED <<setup, network, server, delivered, pc, identity, tunnel, loop, commands,
                 faults>>

NetworkChanges ==
  /\ \E n \in {"none", "tcp", "all"} \ {network} :
       /\ network' = n
       /\ IF n = "all" THEN faults' = faults ELSE Fault
  /\ UNCHANGED <<setup, server, restart, pc, identity, tunnel, loop, commands, history>>

\* The server closes the tunnel, or one of its connections breaks.
Break ==
  /\ Fault
  /\ \/ control /\ control' = FALSE /\ data' = data
     \/ data /\ data' = FALSE /\ control' = control
     \/ control /\ data /\ control' = FALSE /\ data' = FALSE
  /\ UNCHANGED <<setup, network, server, restart, pc, identity, ended, streams, dialing,
                 dataErr, missed, reported, loop, commands, history>>

\* The process ends; the supervisor starts another one.
Die ==
  /\ pc # "off" /\ Fault
  /\ pc' = "off" /\ cfg' = NoState
  /\ ended' = "error" /\ control' = FALSE /\ data' = FALSE /\ streams' = 0 /\ dialing' = 0
  /\ dataErr' = FALSE /\ missed' = FALSE /\ reported' = None
  /\ loop' = [l \in Loops |-> NoLoop]
  /\ signal' = None /\ lastRequested' = 0
  /\ rebuilt' = TRUE /\ lost' = lost /\ restarted' = {}
  /\ UNCHANGED <<setup, network, server, restart, file, generated, spoiled, received, refused>>

Run ==
  \/ LoadState \/ GenerateState
  \/ RegisterDevice \/ RegisterRefused \/ RegisterUnreachable \/ RegisterLost \/ Wake
  \/ ConnectQUIC \/ ConnectQUICFails \/ ConnectTCP \/ ConnectTCPFails
  \/ LeaveAccept \/ LeaveHeartbeat \/ LeaveQUIC \/ LeaveTCP

Environment ==
  \/ RecycleData \/ AcceptStream \/ StreamDone
  \/ \E n \in Sncodes : CreateToken(n) \/ RevokeToken(n)
  \/ RequestVPNRestart \/ NetworkChanges \/ Break \/ Die

ClientNext ==
  \/ Run
  \/ DialData
  \/ \E l \in Loops : LoopStep(l)
  \/ Environment

\* The client's goroutines go on.  The local services, the administrator and
\* the network owe nothing.
ClientFairness ==
  /\ WF_clientVars(Run)
  /\ WF_clientVars(DialData)
  /\ \A l \in Loops : WF_clientVars(LoopStep(l))

ClientSpec == ClientInit /\ [][ClientNext]_clientVars
ClientFairSpec == ClientSpec /\ ClientFairness

-----------------------------------------------------------------------------
(* What the client promises.                                               *)

\* A machine is one device: it makes a second row at the server only after a
\* write of its state file failed or was cut, however it dies between making
\* its sncode, registering it and saving what the server answered (run,
\* registerDevice, saveClientState).
IdentitySurvives == Cardinality(known) > 1 => spoiled

\* A device that was given a token is back to the register token only because
\* the server refused a token of its, or the file was spoiled: no failure of
\* the network, no late save and no death makes it forget (run,
\* shouldRetryWithRegisterToken, postHeartbeat).
TokenLossIsExplained ==
  pc # "off" /\ cfg.token = None /\ received => refused \/ spoiled

Passing(l) == loop[l].phase \in {"send", "drain", "resend"}

\* A command that will end the tunnel is in the channel, on its way there, or
\* reported.
Commanded == (\E l \in Loops : Passing(l)) \/ signal # None \/ reported # None

\* A restart is under way: requested at the server, in an answer the client
\* will take for new, or commanded.
RestartUnderWay ==
  \/ requested > delivered
  \/ \E l \in Loops : loop[l].command > lastRequested
  \/ Commanded

\* After a request for a restart the tunnel does not stay up: a tunnel has ended
\* since, or a restart is under way, however the requests overwrite each other
\* at the server and the commands of two heartbeat loops in their channel.  The
\* exceptions are the ways of LosesCommand: the answer is lost, the loop of a
\* tunnel that has ended takes the command, the request comes in the
\* millisecond of a delivery, or between a heartbeat's read of the columns and
\* its delivery of a request the client has had (TakeVPNRestartCommand,
\* signalVPNRestart, heartbeatLoop).
RestartNotForgotten ==
  requested = 0 \/ RestartUnderWay \/ rebuilt \/ lost

\* One request ends one tunnel: a command that two heartbeat loops brought, or
\* that was sent twice to the channel, is not reported to a second tunnel by
\* the same process (signalVPNRestart, heartbeatLoop, LeaveTCP).
RestartsOnce ==
  reported # None => reported \notin restarted

\* What the client needs to be served: the network its transport takes, an
\* active device, and either registration or the right token in the file.
Reachable ==
  /\ network # "none" /\ (transport = "quic" => network = "all")
  /\ enabled[cfg.sncode] # None
  /\ skip => Valid(cfg)

Serving ==
  \/ pc = "serveQUIC" /\ control /\ data /\ network = "all"
  \/ pc = "serveTCP" /\ control /\ network # "none"

\* A handler of the ended tunnel still waits for its local service.
HeldByLocalService == pc = "drain" /\ streams > 0

\* A client that can be served ends up served, whatever happened before, but
\* for one that waits for a local service (run, connectAndServe, wg.Wait).
Reconnects ==
  <>[](pc # "off" => Reachable) => []<>(Serving \/ HeldByLocalService)
=============================================================================
