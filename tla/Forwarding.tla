----------------------------- MODULE Forwarding -----------------------------
(***************************************************************************)
(* The way of the bytes of one forwarded connection, from the user through *)
(* the gateway (internal/streambridge, used by the TCP and SSH gateways),  *)
(* the tunnel and the client's own bridge (cmd/navmesh-client) to the      *)
(* service on the device, and back:                                        *)
(*                                                                         *)
(*   user --user-- gateway --tunnel-- client --local-- service             *)
(*                                                                         *)
(* Each of the three connections has a channel per direction; each bridge  *)
(* copies both directions in goroutines of their own.  The tunnel is a TCP *)
(* data connection or a QUIC stream, whose Close ends only its own         *)
(* sending, and is not given a CancelRead by the gateway.                  *)
(*                                                                         *)
(* Abstractions.  Bytes are counted in buffers full.  The idle deadline of *)
(* a read may pass whenever nothing has come.  TCP connections closed with *)
(* unread data may be reset, which loses what the other end has not read.  *)
(***************************************************************************)
EXTENDS Naturals

CONSTANTS
  Capacity,   \* buffers a channel holds
  MaxSend     \* bound: buffers the user, and the service, send

ASSUME ForwardingAssumption == Capacity \in Nat \ {0} /\ MaxSend \in Nat

VARIABLES
  quic,      \* the tunnel is a QUIC stream
  chan,      \* per channel: what is in it, writer's end shut, reader's end gone
  copier,    \* per bridge and direction: reading, writing what it read, done
  ended,     \* bridges that have returned
  sent, got, \* per direction: what the sending end sent, what the other got
  cut,       \* the session was cut short: idle, by an administrator, by the
             \* user, by the tunnel
  early      \* the service closed before it had read all the user sent

forwardingVars == <<quic, chan, copier, ended, sent, got, cut, early>>

Bridges == {"gateway", "client"}
Dirs == {"up", "down"}
Channels == {"user", "tunnel", "local"} \X Dirs

\* Where a copier reads and writes.
In(b, d) == <<CASE b = "gateway" /\ d = "up" -> "user"
                [] b = "client" /\ d = "down" -> "local"
                [] OTHER -> "tunnel", d>>
Out(b, d) == <<CASE b = "gateway" /\ d = "down" -> "user"
                 [] b = "client" /\ d = "up" -> "local"
                 [] OTHER -> "tunnel", d>>

ForwardingTypeOK ==
  /\ quic \in BOOLEAN
  /\ chan \in [Channels -> [n : 0 .. Capacity, fin : BOOLEAN, gone : BOOLEAN]]
  /\ copier \in [Bridges -> [Dirs -> {"read", "write", "done"}]]
  /\ ended \subseteq Bridges
  /\ sent \in [Dirs -> 0 .. MaxSend] /\ got \in [Dirs -> 0 .. MaxSend]
  /\ cut \in BOOLEAN /\ early \in BOOLEAN

ForwardingInit ==
  /\ quic \in BOOLEAN
  /\ chan = [c \in Channels |-> [n |-> 0, fin |-> FALSE, gone |-> FALSE]]
  /\ copier = [b \in Bridges |-> [d \in Dirs |-> "read"]]
  /\ ended = {}
  /\ sent = [d \in Dirs |-> 0] /\ got = [d \in Dirs |-> 0]
  /\ cut = FALSE /\ early = FALSE

-----------------------------------------------------------------------------
(* Channels. *)

Put(c) == [chan EXCEPT ![c].n = @ + 1]
Taken(c) == [chan EXCEPT ![c].n = @ - 1]
Eof(c) == chan[c].n = 0 /\ chan[c].fin
Broken(c) == chan[c].fin \/ chan[c].gone     \* as its writer finds it
Shut(f, c) == [f EXCEPT ![c].fin = TRUE]
Abandoned(f, c) == [f EXCEPT ![c].n = 0, ![c].gone = TRUE]

\* Close of a TCP connection that writes to out and reads from in.
Closes(f, out, in) ==
  LET closed == Abandoned(Shut(f, out), in) IN
  {closed} \cup IF f[in].n > 0 THEN {[closed EXCEPT ![out].n = 0]} ELSE {}

\* Close of the gateway's end of the user's connection, and of the tunnel.
CloseUser(f) == Closes(f, <<"user", "down">>, <<"user", "up">>)
CloseTunnel(f) ==
  IF quic THEN {Shut(f, <<"tunnel", "up">>)}
  ELSE Closes(f, <<"tunnel", "up">>, <<"tunnel", "down">>)

-----------------------------------------------------------------------------
(* The bridges. *)

\* What a goroutine does when its copy ends: the gateway's closes the
\* connection it wrote to, the client's only the two directions it served.
EndCopy(b, d) ==
  /\ copier' = [copier EXCEPT ![b][d] = "done"]
  /\ IF b = "gateway"
     THEN chan' \in IF d = "up" THEN CloseTunnel(chan) ELSE CloseUser(chan)
     ELSE chan' = Abandoned(Shut(chan, Out(b, d)), In(b, d))

\* plausible bug: the error of a read is looked at before its bytes
ReadErrorFirst(b, d) ==
  /\ copier[b][d] = "read"
  /\ IF chan[In(b, d)].n > 0 /\ ~chan[In(b, d)].fin
     THEN chan' = Taken(In(b, d)) /\ copier' = [copier EXCEPT ![b][d] = "write"]
     ELSE Broken(In(b, d)) /\ EndCopy(b, d)
  /\ UNCHANGED <<quic, ended, sent, got, cut, early>>

Read(b, d) ==
  /\ copier[b][d] = "read"
  /\ IF chan[In(b, d)].n > 0
     THEN chan' = Taken(In(b, d)) /\ copier' = [copier EXCEPT ![b][d] = "write"]
     ELSE (Eof(In(b, d)) \/ chan[In(b, d)].gone) /\ EndCopy(b, d)
  /\ UNCHANGED <<quic, ended, sent, got, cut, early>>

\* A write to a reader that has gone fails, if not the first then a later one.
Write(b, d) ==
  /\ copier[b][d] = "write"
  /\ \/ /\ ~Broken(Out(b, d)) /\ chan[Out(b, d)].n < Capacity
        /\ chan' = Put(Out(b, d)) /\ copier' = [copier EXCEPT ![b][d] = "read"]
     \/ Broken(Out(b, d)) /\ EndCopy(b, d)
     \/ /\ Broken(Out(b, d)) /\ ~chan[Out(b, d)].fin
        /\ copier' = [copier EXCEPT ![b][d] = "read"] /\ UNCHANGED chan
  /\ UNCHANGED <<quic, ended, sent, got, cut, early>>

\* plausible bug: reads have no deadline either
IdleNever(d) == FALSE /\ UNCHANGED forwardingVars

\* The gateway's reads have a deadline; its writes go through countingWriter,
\* which has none to set.
IdleRead(d) ==
  /\ copier["gateway"][d] = "read" /\ chan[In("gateway", d)].n = 0
  /\ EndCopy("gateway", d)
  /\ cut' = TRUE
  /\ UNCHANGED <<quic, ended, sent, got, early>>

\* Both ends close both connections when the bridge has returned.
Return(b) ==
  /\ b \notin ended /\ \A d \in Dirs : copier[b][d] = "done"
  /\ ended' = ended \cup {b}
  /\ IF b = "gateway" THEN \E f \in CloseUser(chan) : chan' \in CloseTunnel(f)
     ELSE \E f \in Closes(chan, <<"local", "up">>, <<"local", "down">>) :
            chan' \in Closes(f, <<"tunnel", "down">>, <<"tunnel", "up">>)
  /\ UNCHANGED <<quic, copier, sent, got, cut, early>>

\* SessionRegistry.CloseSession
CloseSession ==
  /\ "gateway" \notin ended /\ cut' = TRUE
  /\ \E f \in CloseUser(chan) : chan' \in CloseTunnel(f)
  /\ UNCHANGED <<quic, copier, ended, sent, got, early>>

TunnelBreaks ==
  /\ cut' = TRUE
  /\ \E d \in Dirs : ~chan[<<"tunnel", d>>].gone
  /\ chan' = [c \in Channels |-> IF c[1] = "tunnel"
                                 THEN [n |-> 0, fin |-> TRUE, gone |-> TRUE]
                                 ELSE chan[c]]
  /\ UNCHANGED <<quic, copier, ended, sent, got, early>>

-----------------------------------------------------------------------------
(* The ends: a user, who may shut down its sending and read on, and a        *)
(* service, which may answer before or after it has read everything.         *)

First(d) == IF d = "up" THEN <<"user", "up">> ELSE <<"local", "down">>
Last(d) == IF d = "up" THEN <<"local", "up">> ELSE <<"user", "down">>

Send(d) ==
  /\ sent[d] < MaxSend /\ ~Broken(First(d)) /\ chan[First(d)].n < Capacity
  /\ chan' = Put(First(d)) /\ sent' = [sent EXCEPT ![d] = @ + 1]
  /\ UNCHANGED <<quic, copier, ended, got, cut, early>>

Receive(d) ==
  /\ chan[Last(d)].n > 0
  /\ chan' = Taken(Last(d)) /\ got' = [got EXCEPT ![d] = @ + 1]
  /\ UNCHANGED <<quic, copier, ended, sent, cut, early>>

UserShuts ==
  /\ ~chan[<<"user", "up">>].fin
  /\ chan' = Shut(chan, <<"user", "up">>)
  /\ UNCHANGED <<quic, copier, ended, sent, got, cut, early>>

UserQuits ==
  /\ ~chan[<<"user", "down">>].gone
  /\ chan' \in Closes(chan, <<"user", "up">>, <<"user", "down">>)
  /\ cut' = TRUE
  /\ UNCHANGED <<quic, copier, ended, sent, got, early>>

ServiceCloses ==
  /\ ~chan[<<"local", "down">>].fin
  /\ chan' \in Closes(chan, <<"local", "down">>, <<"local", "up">>)
  /\ early' = (early \/ ~Eof(<<"local", "up">>))
  /\ UNCHANGED <<quic, copier, ended, sent, got, cut>>

ForwardingNext ==
  \/ \E b \in Bridges : Return(b) \/ \E d \in Dirs : Read(b, d) \/ Write(b, d)
  \/ \E d \in Dirs : IdleRead(d) \/ Send(d) \/ Receive(d)
  \/ CloseSession \/ TunnelBreaks
  \/ UserShuts \/ UserQuits \/ ServiceCloses

\* The goroutines run and their deadlines pass; of the user and the service
\* nothing is assumed.
ForwardingFairness ==
  /\ \A b \in Bridges : WF_forwardingVars(Return(b))
  /\ \A b \in Bridges, d \in Dirs :
       WF_forwardingVars(Read(b, d)) /\ WF_forwardingVars(Write(b, d))
  /\ \A d \in Dirs : WF_forwardingVars(IdleRead(d))

\* A user that reads on, and a service that reads on and closes after the user.
FairEnds ==
  /\ \A d \in Dirs : WF_forwardingVars(Receive(d))
  /\ WF_forwardingVars(Eof(<<"local", "up">>) /\ ServiceCloses)

ForwardingSpec == ForwardingInit /\ [][ForwardingNext]_forwardingVars /\ ForwardingFairness
ForwardingFairSpec == ForwardingSpec /\ FairEnds

-----------------------------------------------------------------------------
\* A user that reads on to the end has got everything the service sent, if
\* nothing cut the session short: all of it is copied over three connections
\* before each is closed.  Over QUIC this holds even if the user shut its
\* sending side, because Close of the stream ends only the gateway's sending
\* (streambridge.Bridge 20-29) and the client's bridge half-closes; the service
\* must have read to the end before it closed.  Over TCP the gateway's Close
\* ends both directions, so it holds for a user that has not shut its sending
\* side and all of whose bytes have arrived.
DownloadComplete ==
  /\ Eof(<<"user", "down">>) /\ ~cut
  /\ \/ quic /\ ~early
     \/ ~chan[<<"user", "up">>].fin /\ got["up"] = sent["up"]
  => got["down"] = sent["down"]

\* The bridges end, and the gateway frees its session, whatever the ends do, as
\* long as they read what they are sent and the service closes once it has read
\* to the end: the gateway's reads have deadlines, and over TCP the client's
\* bridge, which has none, ends with it.
BridgesEnd == <>("gateway" \in ended /\ (quic \/ ended = Bridges))
=============================================================================
