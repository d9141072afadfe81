--------------------------- MODULE SessionsProofs ---------------------------
(***************************************************************************)
(* Proofs about the bytes that a session forwards (Forwarding), and about  *)
(* Sessions: types, the conservation of permits, and the limits on the     *)
(* streams open to the devices.                                            *)
(*                                                                         *)
(* For Sessions, the counters equal the number of sessions that hold a     *)
(* permit only because Release runs once per session: a handler that       *)
(* releases with its stream still open would, like the HTTP gateway, go on *)
(* to close it.  Inductive therefore adds where a stream can be open.      *)
(***************************************************************************)
EXTENDS Sessions, Forwarding, Integers, FiniteSetTheorems, TLAPS

-----------------------------------------------------------------------------
(* Forwarding: the download of an undisturbed session is complete.           *)
(*                                                                           *)
(* Nothing in DownloadComplete says why the bytes are not still on their way *)
(* when the user reads the end, nor why none was lost.  Both follow from the *)
(* order in which the ends of the copies close the connections.  DownChain   *)
(* has it for what the service sends: the user's connection is shut only by  *)
(* the gateway's copy, which ends only at the end of the tunnel, which the   *)
(* client's copy shuts at the end of what the service sent.  Over QUIC the   *)
(* other way matters too (UpChain), for a Close that finds unread bytes      *)
(* resets what it sent; over TCP such a loss shows in the upload, and Calm   *)
(* asks that there was none.                                                 *)

UserUp == <<"user", "up">>
UserDown == <<"user", "down">>
TunnelUp == <<"tunnel", "up">>
TunnelDown == <<"tunnel", "down">>
LocalUp == <<"local", "up">>
LocalDown == <<"local", "down">>

GatewayDone(d) == copier["gateway"][d] = "done"
ClientDone(d) == copier["client"][d] = "done"
Held(b, d) == IF copier[b][d] = "write" THEN 1 ELSE 0

\* What was sent one way and is neither received nor on its way.
UpLost ==
  sent["up"] - got["up"]
    - (chan[UserUp].n + Held("gateway", "up") + chan[TunnelUp].n
         + Held("client", "up") + chan[LocalUp].n)
DownLost ==
  sent["down"] - got["down"]
    - (chan[LocalDown].n + Held("client", "down") + chan[TunnelDown].n
         + Held("gateway", "down") + chan[UserDown].n)

\* Nothing is left for a reader that has gone.
GoneEmpty ==
  /\ chan[UserUp].gone => chan[UserUp].n = 0
  /\ chan[UserDown].gone => chan[UserDown].n = 0
  /\ chan[TunnelUp].gone => chan[TunnelUp].n = 0
  /\ chan[TunnelDown].gone => chan[TunnelDown].n = 0
  /\ chan[LocalUp].gone => chan[LocalUp].n = 0
  /\ chan[LocalDown].gone => chan[LocalDown].n = 0

\* What the end of a copy, and of a bridge, leaves behind.
EndsClosed ==
  /\ ClientDone("up") => chan[LocalUp].fin /\ chan[TunnelUp].gone
  /\ ClientDone("down") => chan[TunnelDown].fin /\ chan[LocalDown].gone
  /\ GatewayDone("down") => chan[UserDown].fin /\ chan[UserUp].gone
  /\ GatewayDone("up") => chan[TunnelUp].fin /\ (quic \/ chan[TunnelDown].gone)
  /\ "gateway" \in ended => GatewayDone("up") /\ GatewayDone("down")
  /\ "client" \in ended => ClientDone("up") /\ ClientDone("down")

\* The sessions DownloadComplete speaks of, before their end.
ReadToEnd == ~cut /\ quic /\ ~early
Calm ==
  \/ ReadToEnd
  \/ ~cut /\ ~chan[UserUp].fin /\ UpLost = 0

\* The order in which the way down is closed, and over QUIC the way up.
DownChain ==
  /\ ~chan[UserDown].gone
  /\ chan[UserDown].fin \/ chan[UserUp].gone => GatewayDone("down")
  /\ GatewayDone("down") => Eof(TunnelDown)
  /\ chan[TunnelDown].gone => ~quic /\ GatewayDone("down")
  /\ chan[TunnelDown].fin \/ chan[LocalDown].gone => ClientDone("down")
  /\ ClientDone("down") => Eof(LocalDown)

UpChain ==
  /\ chan[LocalDown].fin \/ chan[LocalUp].gone => chan[LocalUp].fin
  /\ chan[LocalUp].fin \/ chan[TunnelUp].gone => ClientDone("up")
  /\ ClientDone("up") => chan[TunnelUp].fin
  /\ chan[TunnelUp].fin => GatewayDone("up")
  /\ GatewayDone("up") => /\ chan[UserUp].n = 0
                          /\ chan[UserUp].fin \/ chan[UserUp].gone

ForwardingInductive ==
  /\ ForwardingTypeOK /\ GoneEmpty /\ EndsClosed
  /\ UpLost >= 0 /\ DownLost >= 0
  /\ Calm => DownLost = 0 /\ DownChain
  /\ ReadToEnd => UpChain

-----------------------------------------------------------------------------
(* What the operators on channels leave, for each of the six channels.       *)

Chans == [Channels -> [n : 0 .. Capacity, fin : BOOLEAN, gone : BOOLEAN]]

LEMMA SixChannels ==
  /\ Channels = {UserUp, UserDown, TunnelUp, TunnelDown, LocalUp, LocalDown}
  /\ UserUp \notin {UserDown, TunnelUp, TunnelDown, LocalUp, LocalDown}
  /\ UserDown \notin {TunnelUp, TunnelDown, LocalUp, LocalDown}
  /\ TunnelUp \notin {TunnelDown, LocalUp, LocalDown}
  /\ TunnelDown \notin {LocalUp, LocalDown}
  /\ LocalUp # LocalDown
BY DEF Channels, Dirs, UserUp, UserDown, TunnelUp, TunnelDown, LocalUp, LocalDown

LEMMA ShutEffect ==
  ASSUME NEW f \in Chans, NEW c \in Channels
  PROVE  /\ Shut(f, c) \in Chans
         /\ \A e \in Channels \ {c} : Shut(f, c)[e] = f[e]
         /\ Shut(f, c)[c].n = f[c].n
         /\ Shut(f, c)[c].fin
         /\ Shut(f, c)[c].gone = f[c].gone
<1>1. f[c] \in [n : 0 .. Capacity, fin : BOOLEAN, gone : BOOLEAN] BY DEF Chans
<1>2. Shut(f, c) = [f EXCEPT ![c] = [f[c] EXCEPT !.fin = TRUE]] BY DEF Shut, Chans
<1>3. [f[c] EXCEPT !.fin = TRUE] \in [n : 0 .. Capacity, fin : BOOLEAN, gone : BOOLEAN]
  BY <1>1
<1> QED BY <1>1, <1>2, <1>3 DEF Chans

LEMMA AbandonedEffect ==
  ASSUME NEW f \in Chans, NEW c \in Channels
  PROVE  /\ Abandoned(f, c) \in Chans
         /\ \A e \in Channels \ {c} : Abandoned(f, c)[e] = f[e]
         /\ Abandoned(f, c)[c].n = 0
         /\ Abandoned(f, c)[c].fin = f[c].fin
         /\ Abandoned(f, c)[c].gone
<1>1. f[c] \in [n : 0 .. Capacity, fin : BOOLEAN, gone : BOOLEAN] BY DEF Chans
<1>2. Abandoned(f, c) = [f EXCEPT ![c] = [f[c] EXCEPT !.n = 0, !.gone = TRUE]]
  BY DEF Abandoned, Chans
<1>3. [f[c] EXCEPT !.n = 0, !.gone = TRUE]
        \in [n : 0 .. Capacity, fin : BOOLEAN, gone : BOOLEAN]
  <2>1. 0 \in 0 .. Capacity BY ForwardingAssumption
  <2> QED BY <1>1, <2>1
<1> QED BY <1>1, <1>2, <1>3 DEF Chans

LEMMA PutEffect ==
  ASSUME chan \in Chans, NEW c \in Channels, chan[c].n < Capacity
  PROVE  /\ Put(c) \in Chans
         /\ \A e \in Channels \ {c} : Put(c)[e] = chan[e]
         /\ Put(c)[c].n = chan[c].n + 1
         /\ Put(c)[c].fin = chan[c].fin
         /\ Put(c)[c].gone = chan[c].gone
<1>1. chan[c] \in [n : 0 .. Capacity, fin : BOOLEAN, gone : BOOLEAN] BY DEF Chans
<1>2. Put(c) = [chan EXCEPT ![c] = [chan[c] EXCEPT !.n = chan[c].n + 1]]
  BY DEF Put, Chans
<1>3. [chan[c] EXCEPT !.n = chan[c].n + 1]
        \in [n : 0 .. Capacity, fin : BOOLEAN, gone : BOOLEAN]
  BY <1>1, ForwardingAssumption
<1> QED BY <1>1, <1>2, <1>3 DEF Chans

LEMMA TakenEffect ==
  ASSUME chan \in Chans, NEW c \in Channels, chan[c].n > 0
  PROVE  /\ Taken(c) \in Chans
         /\ \A e \in Channels \ {c} : Taken(c)[e] = chan[e]
         /\ Taken(c)[c].n = chan[c].n - 1
         /\ Taken(c)[c].fin = chan[c].fin
         /\ Taken(c)[c].gone = chan[c].gone
<1>1. chan[c] \in [n : 0 .. Capacity, fin : BOOLEAN, gone : BOOLEAN] BY DEF Chans
<1>2. Taken(c) = [chan EXCEPT ![c] = [chan[c] EXCEPT !.n = chan[c].n - 1]]
  BY DEF Taken, Chans
<1>3. [chan[c] EXCEPT !.n = chan[c].n - 1]
        \in [n : 0 .. Capacity, fin : BOOLEAN, gone : BOOLEAN]
  BY <1>1, ForwardingAssumption
<1> QED BY <1>1, <1>2, <1>3 DEF Chans

LEMMA ClosesEffect ==
  ASSUME NEW f \in Chans, NEW o \in Channels, NEW i \in Channels \ {o},
         NEW g \in Closes(f, o, i)
  PROVE  /\ g \in Chans
         /\ \A e \in Channels \ {o, i} : g[e] = f[e]
         /\ g[o].fin /\ g[o].gone = f[o].gone
         /\ g[i].gone /\ g[i].fin = f[i].fin /\ g[i].n = 0
         /\ \/ g[o].n = f[o].n
            \/ f[i].n > 0 /\ g[o].n = 0
<1> DEFINE s == Shut(f, o)
           a == Abandoned(s, i)
<1>1. /\ s \in Chans /\ \A e \in Channels \ {o} : s[e] = f[e]
      /\ s[o].n = f[o].n /\ s[o].fin /\ s[o].gone = f[o].gone
  BY ShutEffect
<1> HIDE DEF s
<1>2. /\ a \in Chans /\ \A e \in Channels \ {i} : a[e] = s[e]
      /\ a[i].n = 0 /\ a[i].fin = s[i].fin /\ a[i].gone
  BY <1>1, AbandonedEffect
<1> HIDE DEF a
<1>3. \/ g = a
      \/ f[i].n > 0 /\ g = [a EXCEPT ![o].n = 0]
  BY DEF Closes, a, s
<1>4. CASE g = a BY <1>1, <1>2, <1>4
<1>5. CASE f[i].n > 0 /\ g = [a EXCEPT ![o].n = 0]
  <2>1. a[o] \in [n : 0 .. Capacity, fin : BOOLEAN, gone : BOOLEAN]
    BY <1>2 DEF Chans
  <2>2. g = [a EXCEPT ![o] = [a[o] EXCEPT !.n = 0]] BY <1>2, <1>5 DEF Chans
  <2>3. [a[o] EXCEPT !.n = 0] \in [n : 0 .. Capacity, fin : BOOLEAN, gone : BOOLEAN]
    <3>1. 0 \in 0 .. Capacity BY ForwardingAssumption
    <3> QED BY <2>1, <3>1
  <2> QED BY <1>1, <1>2, <1>5, <2>1, <2>2, <2>3 DEF Chans
<1> QED BY <1>3, <1>4, <1>5

\* Where each copier reads and writes.
LEMMA Routes ==
  /\ In("gateway", "up") = UserUp /\ Out("gateway", "up") = TunnelUp
  /\ In("client", "up") = TunnelUp /\ Out("client", "up") = LocalUp
  /\ In("client", "down") = LocalDown /\ Out("client", "down") = TunnelDown
  /\ In("gateway", "down") = TunnelDown /\ Out("gateway", "down") = UserDown
  /\ First("up") = UserUp /\ Last("up") = LocalUp
  /\ First("down") = LocalDown /\ Last("down") = UserDown
<1> USE DEF UserUp, UserDown, TunnelUp, TunnelDown, LocalUp, LocalDown
<1>1. /\ In("gateway", "up") = UserUp /\ Out("gateway", "up") = TunnelUp
      /\ In("client", "up") = TunnelUp /\ Out("client", "up") = LocalUp
  BY Zenon DEF In, Out
<1>2. /\ In("client", "down") = LocalDown /\ Out("client", "down") = TunnelDown
      /\ In("gateway", "down") = TunnelDown /\ Out("gateway", "down") = UserDown
  BY Zenon DEF In, Out
<1>3. /\ First("up") = UserUp /\ Last("up") = LocalUp
      /\ First("down") = LocalDown /\ Last("down") = UserDown
  BY DEF First, Last
<1> QED BY <1>1, <1>2, <1>3

LEMMA TwoWays == Dirs = {"up", "down"} /\ Bridges = {"gateway", "client"}
BY DEF Dirs, Bridges

\* The counts, named one by one.
Numbers ==
  /\ chan[UserUp].n \in Nat /\ chan[UserDown].n \in Nat
  /\ chan[TunnelUp].n \in Nat /\ chan[TunnelDown].n \in Nat
  /\ chan[LocalUp].n \in Nat /\ chan[LocalDown].n \in Nat
  /\ sent["up"] \in Nat /\ got["up"] \in Nat
  /\ sent["down"] \in Nat /\ got["down"] \in Nat

\* The state, component by component.
LEMMA Typed ==
  ASSUME ForwardingTypeOK
  PROVE  /\ chan \in Chans /\ Numbers
         /\ \A c \in Channels : /\ chan[c].n \in 0 .. Capacity
                                /\ chan[c].fin \in BOOLEAN /\ chan[c].gone \in BOOLEAN
         /\ \A d \in Dirs : sent[d] \in 0 .. MaxSend /\ got[d] \in 0 .. MaxSend
         /\ quic \in BOOLEAN /\ cut \in BOOLEAN /\ early \in BOOLEAN
<1>1. /\ chan \in Chans
      /\ \A c \in Channels : /\ chan[c].n \in 0 .. Capacity
                             /\ chan[c].fin \in BOOLEAN /\ chan[c].gone \in BOOLEAN
      /\ \A d \in Dirs : sent[d] \in 0 .. MaxSend /\ got[d] \in 0 .. MaxSend
      /\ quic \in BOOLEAN /\ cut \in BOOLEAN /\ early \in BOOLEAN
  BY DEF ForwardingTypeOK, Chans
<1> QED BY <1>1, SixChannels, TwoWays DEF Numbers

LEMMA TypedAfter ==
  ASSUME ForwardingTypeOK'
  PROVE  Numbers'
<1>1. /\ \A c \in Channels : chan'[c].n \in 0 .. Capacity
      /\ \A d \in Dirs : sent'[d] \in 0 .. MaxSend /\ got'[d] \in 0 .. MaxSend
  BY DEF ForwardingTypeOK
<1> QED BY <1>1, SixChannels, TwoWays DEF Numbers

\* A session that is calm after a step was calm before it.
LEMMA CalmBefore ==
  ASSUME ForwardingTypeOK, UpLost' >= UpLost, UpLost >= 0, UpLost \in Int, UpLost' \in Int,
         quic' = quic, cut => cut', early => early', chan[UserUp].fin => chan'[UserUp].fin,
         Calm'
  PROVE  Calm
BY DEF Calm, ReadToEnd

\* What is lost of each way, as a number.
LEMMA LostNumbers ==
  ASSUME Numbers
  PROVE  UpLost \in Int /\ DownLost \in Int
BY DEF Numbers, UpLost, DownLost, Held

LEMMA LostNumbersAfter ==
  ASSUME Numbers'
  PROVE  UpLost' \in Int /\ DownLost' \in Int
BY DEF Numbers, UpLost, DownLost, Held

LEMMA CopierSet ==
  ASSUME ForwardingTypeOK, NEW b \in Bridges, NEW d \in Dirs,
         NEW x \in {"read", "write", "done"},
         copier' = [copier EXCEPT ![b][d] = x]
  PROVE  /\ copier' \in [Bridges -> [Dirs -> {"read", "write", "done"}]]
         /\ copier'[b][d] = x
         /\ \A c \in Bridges, e \in Dirs :
              c # b \/ e # d => copier'[c][e] = copier[c][e]
BY DEF ForwardingTypeOK

\* Two functions that agree on the channels outside S, named one by one.
Others(f, g, S) ==
  /\ UserUp \in S \/ g[UserUp] = f[UserUp]
  /\ UserDown \in S \/ g[UserDown] = f[UserDown]
  /\ TunnelUp \in S \/ g[TunnelUp] = f[TunnelUp]
  /\ TunnelDown \in S \/ g[TunnelDown] = f[TunnelDown]
  /\ LocalUp \in S \/ g[LocalUp] = f[LocalUp]
  /\ LocalDown \in S \/ g[LocalDown] = f[LocalDown]

LEMMA Agree ==
  ASSUME NEW f, NEW g, NEW S, \A e \in Channels \ S : g[e] = f[e]
  PROVE  Others(f, g, S)
BY SixChannels DEF Others

\* The same for what a bridge, or an administrator, closes.
LEMMA CloseUserEffect ==
  ASSUME NEW f \in Chans, NEW g \in CloseUser(f)
  PROVE  /\ g \in Chans /\ Others(f, g, {UserUp, UserDown})
         /\ g[UserDown].fin /\ g[UserDown].gone = f[UserDown].gone
         /\ g[UserUp].gone /\ g[UserUp].fin = f[UserUp].fin /\ g[UserUp].n = 0
         /\ \/ g[UserDown].n = f[UserDown].n
            \/ f[UserUp].n > 0 /\ g[UserDown].n = 0
<1>1. /\ UserDown \in Channels /\ UserUp \in Channels \ {UserDown}
      /\ g \in Closes(f, UserDown, UserUp)
  BY SixChannels DEF CloseUser, UserUp, UserDown
<1>2. \A e \in Channels \ {UserUp, UserDown} : g[e] = f[e] BY <1>1, ClosesEffect
<1> QED BY <1>1, <1>2, ClosesEffect, Agree

LEMMA CloseTunnelEffect ==
  ASSUME NEW f \in Chans, NEW g \in CloseTunnel(f)
  PROVE  /\ g \in Chans /\ Others(f, g, {TunnelUp, TunnelDown})
         /\ g[TunnelUp].fin /\ g[TunnelUp].gone = f[TunnelUp].gone
         /\ \/ ~quic /\ g[TunnelDown].gone /\ g[TunnelDown].n = 0
            \/ quic /\ g[TunnelDown] = f[TunnelDown]
         /\ g[TunnelDown].fin = f[TunnelDown].fin
         /\ \/ g[TunnelUp].n = f[TunnelUp].n
            \/ ~quic /\ f[TunnelDown].n > 0 /\ g[TunnelUp].n = 0
<1>1. TunnelUp \in Channels /\ TunnelDown \in Channels \ {TunnelUp} BY SixChannels
<1>2. CASE quic
  <2>1. g = Shut(f, TunnelUp) BY <1>2 DEF CloseTunnel, TunnelUp
  <2>2. \A e \in Channels \ {TunnelUp, TunnelDown} : g[e] = f[e]
    BY <1>1, <2>1, ShutEffect
  <2> QED BY <1>1, <1>2, <2>1, <2>2, ShutEffect, Agree
<1>3. CASE ~quic
  <2>1. g \in Closes(f, TunnelUp, TunnelDown)
    BY <1>3 DEF CloseTunnel, TunnelUp, TunnelDown
  <2>2. \A e \in Channels \ {TunnelUp, TunnelDown} : g[e] = f[e]
    BY <1>1, <2>1, ClosesEffect
  <2> QED BY <1>1, <1>3, <2>1, <2>2, ClosesEffect, Agree
<1> QED BY <1>2, <1>3

LEMMA CloseLocalEffect ==
  ASSUME NEW f \in Chans, NEW g \in Closes(f, LocalUp, LocalDown)
  PROVE  /\ g \in Chans /\ Others(f, g, {LocalUp, LocalDown})
         /\ g[LocalUp].fin /\ g[LocalUp].gone = f[LocalUp].gone
         /\ g[LocalDown].gone /\ g[LocalDown].fin = f[LocalDown].fin
         /\ g[LocalDown].n = 0
         /\ \/ g[LocalUp].n = f[LocalUp].n
            \/ f[LocalDown].n > 0 /\ g[LocalUp].n = 0
<1>1. LocalUp \in Channels /\ LocalDown \in Channels \ {LocalUp} BY SixChannels
<1>2. \A e \in Channels \ {LocalUp, LocalDown} : g[e] = f[e] BY <1>1, ClosesEffect
<1> QED BY <1>1, <1>2, ClosesEffect, Agree

-----------------------------------------------------------------------------
(* The copies end.  Why one does: there is nothing more to read, or nobody  *)
(* to write to, or the deadline of the gateway's read has passed.           *)

Ends(b, d) ==
  \/ /\ copier[b][d] = "read" /\ chan[In(b, d)].n = 0
     /\ \/ chan[In(b, d)].fin \/ chan[In(b, d)].gone
        \/ b = "gateway" /\ cut'
  \/ /\ copier[b][d] = "write"
     /\ chan[Out(b, d)].fin \/ chan[Out(b, d)].gone

EndStep(b, d) ==
  /\ Ends(b, d) /\ EndCopy(b, d)
  /\ UNCHANGED <<quic, ended, sent, got, early>>
  /\ cut' \in BOOLEAN /\ (cut => cut')

\* The gateway's copy to the user ends: it closes the user's connection.
LEMMA GatewayDownEnds ==
  ASSUME ForwardingInductive, EndStep("gateway", "down")
  PROVE  ForwardingInductive'
<1>0. chan \in Chans /\ Numbers BY Typed DEF ForwardingInductive
<1>1. /\ copier' = [copier EXCEPT !["gateway"]["down"] = "done"]
      /\ chan' \in CloseUser(chan)
  BY DEF EndStep, EndCopy
<1>2. /\ chan' \in Chans
      /\ chan'[TunnelUp] = chan[TunnelUp] /\ chan'[TunnelDown] = chan[TunnelDown]
      /\ chan'[LocalUp] = chan[LocalUp] /\ chan'[LocalDown] = chan[LocalDown]
      /\ chan'[UserDown].fin /\ chan'[UserDown].gone = chan[UserDown].gone
      /\ chan'[UserUp].gone /\ chan'[UserUp].fin = chan[UserUp].fin
      /\ chan'[UserUp].n = 0
      /\ \/ chan'[UserDown].n = chan[UserDown].n
         \/ chan[UserUp].n > 0 /\ chan'[UserDown].n = 0
  BY <1>0, <1>1, CloseUserEffect, SixChannels DEF Others
<1>3. /\ copier' \in [Bridges -> [Dirs -> {"read", "write", "done"}]]
      /\ copier'["gateway"]["down"] = "done"
      /\ copier'["gateway"]["up"] = copier["gateway"]["up"]
      /\ copier'["client"]["up"] = copier["client"]["up"]
      /\ copier'["client"]["down"] = copier["client"]["down"]
  BY <1>1, CopierSet, TwoWays DEF ForwardingInductive
<1>4. /\ UNCHANGED <<quic, ended, sent, got, early>>
      /\ cut' \in BOOLEAN /\ (cut => cut') /\ Ends("gateway", "down")
  BY DEF EndStep
<1>5. \/ /\ copier["gateway"]["down"] = "read" /\ chan[TunnelDown].n = 0
         /\ \/ chan[TunnelDown].fin \/ chan[TunnelDown].gone
            \/ cut'
      \/ /\ copier["gateway"]["down"] = "write"
         /\ chan[UserDown].fin \/ chan[UserDown].gone
  BY <1>4, Routes DEF Ends
<1>6. ForwardingTypeOK' /\ Numbers'
  <2>1. ForwardingTypeOK'
    BY <1>0, <1>2, <1>3, <1>4, <1>5
    DEF ForwardingInductive, ForwardingTypeOK, Chans, Bridges
  <2> QED BY <2>1, TypedAfter
<1>7. GoneEmpty'
  BY <1>0, <1>2, <1>3, <1>4, <1>5 DEF ForwardingInductive, GoneEmpty, Numbers
<1>8. EndsClosed'
  BY <1>0, <1>2, <1>3, <1>4, <1>5
  DEF ForwardingInductive, EndsClosed, GatewayDone, ClientDone
<1>9. UpLost' >= UpLost /\ DownLost' >= DownLost
  <2>1. UpLost' >= UpLost BY <1>0, <1>2, <1>3, <1>4 DEF Numbers, UpLost, Held
  <2>2. DownLost' >= DownLost BY <1>0, <1>2, <1>3, <1>4 DEF Numbers, DownLost, Held
  <2> QED BY <2>1, <2>2
<1>10. UpLost \in Nat /\ DownLost \in Nat /\ UpLost' \in Int /\ DownLost' \in Int
  BY <1>0, <1>6, LostNumbers, LostNumbersAfter DEF ForwardingInductive
<1>11. ASSUME Calm' PROVE DownLost' = 0 /\ DownChain'
  <2>1. Calm
    <3>1. chan[UserUp].fin => chan'[UserUp].fin BY <1>0, <1>2, <1>3, <1>4, <1>5
    <3> QED
      BY <1>0, <1>2, <1>3, <1>4, <1>5, <1>9, <1>10, <1>11, <3>1, CalmBefore
      DEF ForwardingInductive
  <2>2. DownLost = 0 /\ DownChain BY <2>1 DEF ForwardingInductive
  <2>3. ~cut' /\ ~chan[UserDown].fin /\ ~chan[UserDown].gone /\ ~chan[TunnelDown].gone
    BY <1>5, <1>11, <2>2 DEF DownChain, GatewayDone, Calm, ReadToEnd
  <2>4. copier["gateway"]["down"] = "read" /\ chan[TunnelDown].n = 0 /\ chan[TunnelDown].fin
    BY <1>5, <2>3
  <2>5. chan[UserUp].n = 0
    <3>1. CASE ReadToEnd'
      <4>1. UpChain BY <1>4, <3>1 DEF ForwardingInductive, ReadToEnd
      <4>2. GatewayDone("up") BY <2>2, <2>4, <4>1 DEF DownChain, UpChain, Eof
      <4> QED BY <4>1, <4>2 DEF UpChain
    <3>2. CASE ~ReadToEnd'
      <4>1. UpLost' = 0 BY <1>11, <3>2 DEF Calm
      <4>2. UpLost' = UpLost + chan[UserUp].n
        <5>1. /\ Held("gateway", "up")' = Held("gateway", "up")
              /\ Held("client", "up")' = Held("client", "up")
          BY <1>3 DEF Held
        <5>2. Held("gateway", "up") \in Nat /\ Held("client", "up") \in Nat
          BY DEF Held
        <5> QED BY <1>0, <1>2, <1>4, <5>1, <5>2 DEF Numbers, UpLost
      <4> QED BY <1>0, <1>10, <4>1, <4>2 DEF Numbers
    <3> QED BY <3>1, <3>2
  <2>6. DownLost' = DownLost /\ Eof(TunnelDown)
    BY <1>0, <1>2, <1>3, <1>4, <2>4, <2>5 DEF Numbers, DownLost, Held, Eof
  <2>7. DownChain'
    BY <1>0, <1>2, <1>3, <1>4, <1>5, <1>11, <2>1, <2>2, <2>6
    DEF DownChain, GatewayDone, ClientDone, Eof, Numbers, Calm, ReadToEnd
  <2> QED BY <2>2, <2>6, <2>7
<1>12. ReadToEnd' => UpChain'
  BY <1>0, <1>2, <1>3, <1>4, <1>5
  DEF ForwardingInductive, ReadToEnd, GoneEmpty, EndsClosed, UpChain,
      GatewayDone, ClientDone, Eof, Numbers
<1> QED BY <1>6, <1>7, <1>8, <1>9, <1>10, <1>11, <1>12 DEF ForwardingInductive

\* The gateway's copy from the user ends: it closes the tunnel, both ways over
\* TCP.
LEMMA GatewayUpEnds ==
  ASSUME ForwardingInductive, EndStep("gateway", "up")
  PROVE  ForwardingInductive'
<1>0. chan \in Chans /\ Numbers BY Typed DEF ForwardingInductive
<1>1. /\ copier' = [copier EXCEPT !["gateway"]["up"] = "done"]
      /\ chan' \in CloseTunnel(chan)
  BY DEF EndStep, EndCopy
<1>2. /\ chan' \in Chans
      /\ chan'[UserUp] = chan[UserUp] /\ chan'[UserDown] = chan[UserDown]
      /\ chan'[LocalUp] = chan[LocalUp] /\ chan'[LocalDown] = chan[LocalDown]
      /\ chan'[TunnelUp].fin /\ chan'[TunnelUp].gone = chan[TunnelUp].gone
      /\ \/ ~quic /\ chan'[TunnelDown].gone /\ chan'[TunnelDown].n = 0
         \/ quic /\ chan'[TunnelDown] = chan[TunnelDown]
      /\ chan'[TunnelDown].fin = chan[TunnelDown].fin
      /\ \/ chan'[TunnelUp].n = chan[TunnelUp].n
         \/ ~quic /\ chan[TunnelDown].n > 0 /\ chan'[TunnelUp].n = 0
  BY <1>0, <1>1, CloseTunnelEffect, SixChannels DEF Others
<1>3. /\ copier' \in [Bridges -> [Dirs -> {"read", "write", "done"}]]
      /\ copier'["gateway"]["up"] = "done"
      /\ copier'["gateway"]["down"] = copier["gateway"]["down"]
      /\ copier'["client"]["up"] = copier["client"]["up"]
      /\ copier'["client"]["down"] = copier["client"]["down"]
  BY <1>1, CopierSet, TwoWays DEF ForwardingInductive
<1>4. /\ UNCHANGED <<quic, ended, sent, got, early>>
      /\ cut' \in BOOLEAN /\ (cut => cut') /\ Ends("gateway", "up")
  BY DEF EndStep
<1>5. \/ /\ copier["gateway"]["up"] = "read" /\ chan[UserUp].n = 0
         /\ \/ chan[UserUp].fin \/ chan[UserUp].gone
            \/ cut'
      \/ /\ copier["gateway"]["up"] = "write"
         /\ chan[TunnelUp].fin \/ chan[TunnelUp].gone
  BY <1>4, Routes DEF Ends
<1>6. ForwardingTypeOK' /\ Numbers'
  <2>1. ForwardingTypeOK'
    BY <1>0, <1>2, <1>3, <1>4, <1>5
    DEF ForwardingInductive, ForwardingTypeOK, Chans, Bridges
  <2> QED BY <2>1, TypedAfter
<1>7. GoneEmpty'
  BY <1>0, <1>2, <1>3, <1>4, <1>5 DEF ForwardingInductive, GoneEmpty, Numbers
<1>8. EndsClosed'
  BY <1>0, <1>2, <1>3, <1>4, <1>5
  DEF ForwardingInductive, EndsClosed, GatewayDone, ClientDone
<1>9. UpLost' >= UpLost /\ DownLost' >= DownLost
  <2>1. UpLost' >= UpLost BY <1>0, <1>2, <1>3, <1>4 DEF Numbers, UpLost, Held
  <2>2. DownLost' >= DownLost BY <1>0, <1>2, <1>3, <1>4 DEF Numbers, DownLost, Held
  <2> QED BY <2>1, <2>2
<1>10. UpLost \in Nat /\ DownLost \in Nat /\ UpLost' \in Int /\ DownLost' \in Int
  BY <1>0, <1>6, LostNumbers, LostNumbersAfter DEF ForwardingInductive
<1>11. ASSUME Calm' PROVE DownLost' = 0 /\ DownChain'
  <2>1. Calm
    <3>1. chan[UserUp].fin => chan'[UserUp].fin BY <1>0, <1>2, <1>3, <1>4, <1>5
    <3> QED
      BY <1>0, <1>2, <1>3, <1>4, <1>5, <1>9, <1>10, <1>11, <3>1, CalmBefore
      DEF ForwardingInductive
  <2>2. DownLost = 0 /\ DownChain BY <2>1 DEF ForwardingInductive
  <2>3. DownLost' = DownLost /\ (quic \/ GatewayDone("down"))
    <3>1. CASE quic
      BY <1>0, <1>2, <1>3, <1>4, <3>1 DEF Numbers, DownLost, Held
    <3>2. CASE ~quic
      <4>1. ~cut' /\ ~chan[UserUp].fin /\ UpLost' = 0
        BY <1>2, <1>4, <1>11, <3>2 DEF Calm, ReadToEnd
      <4>2. UpLost' >= UpLost + Held("gateway", "up")
        BY <1>0, <1>2, <1>3, <1>4 DEF Numbers, UpLost, Held
      <4>3. copier["gateway"]["up"] # "write" BY <1>10, <4>1, <4>2 DEF Held
      <4>4. GatewayDone("down") BY <1>5, <2>2, <4>1, <4>3 DEF DownChain
      <4>5. chan[TunnelDown].n = 0 BY <2>2, <4>4 DEF DownChain, Eof
      <4> QED BY <1>0, <1>2, <1>3, <1>4, <4>4, <4>5 DEF Numbers, DownLost, Held
    <3> QED BY <3>1, <3>2
  <2>4. DownChain'
    BY <1>0, <1>2, <1>3, <1>4, <1>5, <1>11, <2>1, <2>2, <2>3
    DEF DownChain, GatewayDone, ClientDone, Eof, Numbers, Calm, ReadToEnd
  <2> QED BY <2>2, <2>3, <2>4
<1>12. ReadToEnd' => UpChain'
  BY <1>0, <1>2, <1>3, <1>4, <1>5
  DEF ForwardingInductive, ReadToEnd, GoneEmpty, EndsClosed, UpChain,
      GatewayDone, ClientDone, Eof, Numbers
<1> QED BY <1>6, <1>7, <1>8, <1>9, <1>10, <1>11, <1>12 DEF ForwardingInductive

\* The client's copies end: each half-closes what it served.
LEMMA ClientUpEnds ==
  ASSUME ForwardingInductive, EndStep("client", "up")
  PROVE  ForwardingInductive'
<1>0. chan \in Chans /\ Numbers BY Typed DEF ForwardingInductive
<1>1. /\ copier' = [copier EXCEPT !["client"]["up"] = "done"]
      /\ chan' = Abandoned(Shut(chan, LocalUp), TunnelUp)
  BY Routes DEF EndStep, EndCopy
<1>2. /\ chan' \in Chans
      /\ chan'[UserUp] = chan[UserUp] /\ chan'[UserDown] = chan[UserDown]
      /\ chan'[TunnelDown] = chan[TunnelDown] /\ chan'[LocalDown] = chan[LocalDown]
      /\ chan'[LocalUp].n = chan[LocalUp].n /\ chan'[LocalUp].fin
      /\ chan'[LocalUp].gone = chan[LocalUp].gone
      /\ chan'[TunnelUp].n = 0 /\ chan'[TunnelUp].gone
      /\ chan'[TunnelUp].fin = chan[TunnelUp].fin
  <2>1. LocalUp \in Channels /\ TunnelUp \in Channels \ {LocalUp} BY SixChannels
  <2>2. PICK h \in Chans : h = Shut(chan, LocalUp) BY <1>0, <2>1, ShutEffect
  <2>3. /\ h[LocalUp].n = chan[LocalUp].n /\ h[LocalUp].fin
        /\ h[LocalUp].gone = chan[LocalUp].gone
        /\ \A e \in Channels \ {LocalUp} : h[e] = chan[e]
    BY <1>0, <2>1, <2>2, ShutEffect
  <2>4. chan' = Abandoned(h, TunnelUp) BY <1>1, <2>2
  <2>5. /\ chan' \in Chans /\ \A e \in Channels \ {TunnelUp} : chan'[e] = h[e]
        /\ chan'[TunnelUp].n = 0 /\ chan'[TunnelUp].fin = h[TunnelUp].fin
        /\ chan'[TunnelUp].gone
    BY <2>1, <2>4, AbandonedEffect
  <2> QED BY <2>3, <2>5, SixChannels
<1>3. /\ copier' \in [Bridges -> [Dirs -> {"read", "write", "done"}]]
      /\ copier'["client"]["up"] = "done"
      /\ copier'["gateway"]["up"] = copier["gateway"]["up"]
      /\ copier'["gateway"]["down"] = copier["gateway"]["down"]
      /\ copier'["client"]["down"] = copier["client"]["down"]
  BY <1>1, CopierSet, TwoWays DEF ForwardingInductive
<1>4. /\ UNCHANGED <<quic, ended, sent, got, early>>
      /\ cut' \in BOOLEAN /\ (cut => cut') /\ Ends("client", "up")
  BY DEF EndStep
<1>5. \/ /\ copier["client"]["up"] = "read" /\ chan[TunnelUp].n = 0
         /\ \/ chan[TunnelUp].fin \/ chan[TunnelUp].gone
      \/ /\ copier["client"]["up"] = "write"
         /\ chan[LocalUp].fin \/ chan[LocalUp].gone
  BY <1>4, Routes DEF Ends
<1>6. ForwardingTypeOK' /\ Numbers'
  <2>1. ForwardingTypeOK'
    BY <1>0, <1>2, <1>3, <1>4, <1>5
    DEF ForwardingInductive, ForwardingTypeOK, Chans, Bridges
  <2> QED BY <2>1, TypedAfter
<1>7. GoneEmpty'
  BY <1>0, <1>2, <1>3, <1>4, <1>5 DEF ForwardingInductive, GoneEmpty, Numbers
<1>8. EndsClosed'
  BY <1>0, <1>2, <1>3, <1>4, <1>5
  DEF ForwardingInductive, EndsClosed, GatewayDone, ClientDone
<1>9. UpLost' >= UpLost /\ DownLost' >= DownLost
  <2>1. UpLost' >= UpLost BY <1>0, <1>2, <1>3, <1>4 DEF Numbers, UpLost, Held
  <2>2. DownLost' >= DownLost BY <1>0, <1>2, <1>3, <1>4 DEF Numbers, DownLost, Held
  <2> QED BY <2>1, <2>2
<1>10. UpLost \in Nat /\ DownLost \in Nat /\ UpLost' \in Int /\ DownLost' \in Int
  BY <1>0, <1>6, LostNumbers, LostNumbersAfter DEF ForwardingInductive
<1>11. ASSUME Calm' PROVE DownLost' = 0 /\ DownChain'
  <2>1. Calm
    <3>1. chan[UserUp].fin => chan'[UserUp].fin BY <1>0, <1>2, <1>3, <1>4, <1>5
    <3> QED
      BY <1>0, <1>2, <1>3, <1>4, <1>5, <1>9, <1>10, <1>11, <3>1, CalmBefore
      DEF ForwardingInductive
  <2>2. DownLost = 0 /\ DownChain BY <2>1 DEF ForwardingInductive
  <2>3. DownLost' = DownLost
    BY <1>0, <1>2, <1>3, <1>4, <1>5 DEF Numbers, DownLost, Held
  <2>4. DownChain'
    BY <1>0, <1>2, <1>3, <1>4, <1>5, <1>11, <2>1, <2>2, <2>3
    DEF DownChain, GatewayDone, ClientDone, Eof, Numbers, Calm, ReadToEnd
  <2> QED BY <2>2, <2>3, <2>4
<1>12. ReadToEnd' => UpChain'
  BY <1>0, <1>2, <1>3, <1>4, <1>5
  DEF ForwardingInductive, ReadToEnd, GoneEmpty, EndsClosed, UpChain,
      GatewayDone, ClientDone, Eof, Numbers
<1> QED BY <1>6, <1>7, <1>8, <1>9, <1>10, <1>11, <1>12 DEF ForwardingInductive

LEMMA ClientDownEnds ==
  ASSUME ForwardingInductive, EndStep("client", "down")
  PROVE  ForwardingInductive'
<1>0. chan \in Chans /\ Numbers BY Typed DEF ForwardingInductive
<1>1. /\ copier' = [copier EXCEPT !["client"]["down"] = "done"]
      /\ chan' = Abandoned(Shut(chan, TunnelDown), LocalDown)
  BY Routes DEF EndStep, EndCopy
<1>2. /\ chan' \in Chans
      /\ chan'[UserUp] = chan[UserUp] /\ chan'[UserDown] = chan[UserDown]
      /\ chan'[TunnelUp] = chan[TunnelUp] /\ chan'[LocalUp] = chan[LocalUp]
      /\ chan'[TunnelDown].n = chan[TunnelDown].n /\ chan'[TunnelDown].fin
      /\ chan'[TunnelDown].gone = chan[TunnelDown].gone
      /\ chan'[LocalDown].n = 0 /\ chan'[LocalDown].gone
      /\ chan'[LocalDown].fin = chan[LocalDown].fin
  <2>1. TunnelDown \in Channels /\ LocalDown \in Channels \ {TunnelDown}
    BY SixChannels
  <2>2. PICK h \in Chans : h = Shut(chan, TunnelDown) BY <1>0, <2>1, ShutEffect
  <2>3. /\ h[TunnelDown].n = chan[TunnelDown].n /\ h[TunnelDown].fin
        /\ h[TunnelDown].gone = chan[TunnelDown].gone
        /\ \A e \in Channels \ {TunnelDown} : h[e] = chan[e]
    BY <1>0, <2>1, <2>2, ShutEffect
  <2>4. chan' = Abandoned(h, LocalDown) BY <1>1, <2>2
  <2>5. /\ chan' \in Chans /\ \A e \in Channels \ {LocalDown} : chan'[e] = h[e]
        /\ chan'[LocalDown].n = 0 /\ chan'[LocalDown].fin = h[LocalDown].fin
        /\ chan'[LocalDown].gone
    BY <2>1, <2>4, AbandonedEffect
  <2> QED BY <2>3, <2>5, SixChannels
<1>3. /\ copier' \in [Bridges -> [Dirs -> {"read", "write", "done"}]]
      /\ copier'["client"]["down"] = "done"
      /\ copier'["gateway"]["up"] = copier["gateway"]["up"]
      /\ copier'["gateway"]["down"] = copier["gateway"]["down"]
      /\ copier'["client"]["up"] = copier["client"]["up"]
  BY <1>1, CopierSet, TwoWays DEF ForwardingInductive
<1>4. /\ UNCHANGED <<quic, ended, sent, got, early>>
      /\ cut' \in BOOLEAN /\ (cut => cut') /\ Ends("client", "down")
  BY DEF EndStep
<1>5. \/ /\ copier["client"]["down"] = "read" /\ chan[LocalDown].n = 0
         /\ \/ chan[LocalDown].fin \/ chan[LocalDown].gone
      \/ /\ copier["client"]["down"] = "write"
         /\ chan[TunnelDown].fin \/ chan[TunnelDown].gone
  BY <1>4, Routes DEF Ends
<1>6. ForwardingTypeOK' /\ Numbers'
  <2>1. ForwardingTypeOK'
    BY <1>0, <1>2, <1>3, <1>4, <1>5
    DEF ForwardingInductive, ForwardingTypeOK, Chans, Bridges
  <2> QED BY <2>1, TypedAfter
<1>7. GoneEmpty'
  BY <1>0, <1>2, <1>3, <1>4, <1>5 DEF ForwardingInductive, GoneEmpty, Numbers
<1>8. EndsClosed'
  BY <1>0, <1>2, <1>3, <1>4, <1>5
  DEF ForwardingInductive, EndsClosed, GatewayDone, ClientDone
<1>9. UpLost' >= UpLost /\ DownLost' >= DownLost
  <2>1. UpLost' >= UpLost BY <1>0, <1>2, <1>3, <1>4 DEF Numbers, UpLost, Held
  <2>2. DownLost' >= DownLost BY <1>0, <1>2, <1>3, <1>4 DEF Numbers, DownLost, Held
  <2> QED BY <2>1, <2>2
<1>10. UpLost \in Nat /\ DownLost \in Nat /\ UpLost' \in Int /\ DownLost' \in Int
  BY <1>0, <1>6, LostNumbers, LostNumbersAfter DEF ForwardingInductive
<1>11. ASSUME Calm' PROVE DownLost' = 0 /\ DownChain'
  <2>1. Calm
    <3>1. chan[UserUp].fin => chan'[UserUp].fin BY <1>0, <1>2, <1>3, <1>4, <1>5
    <3> QED
      BY <1>0, <1>2, <1>3, <1>4, <1>5, <1>9, <1>10, <1>11, <3>1, CalmBefore
      DEF ForwardingInductive
  <2>2. DownLost = 0 /\ DownChain BY <2>1 DEF ForwardingInductive
  <2>3. copier["client"]["down"] = "read" /\ Eof(LocalDown)
    BY <1>5, <2>2 DEF DownChain, ClientDone, GatewayDone, Eof
  <2>4. DownLost' = DownLost /\ Eof(LocalDown)
    BY <1>0, <1>2, <1>3, <1>4, <2>3 DEF Numbers, DownLost, Held, Eof
  <2>5. DownChain'
    BY <1>0, <1>2, <1>3, <1>4, <1>5, <1>11, <2>1, <2>2, <2>4
    DEF DownChain, GatewayDone, ClientDone, Eof, Numbers, Calm, ReadToEnd
  <2> QED BY <2>2, <2>4, <2>5
<1>12. ReadToEnd' => UpChain'
  BY <1>0, <1>2, <1>3, <1>4, <1>5
  DEF ForwardingInductive, ReadToEnd, GoneEmpty, EndsClosed, UpChain,
      GatewayDone, ClientDone, Eof, Numbers
<1> QED BY <1>6, <1>7, <1>8, <1>9, <1>10, <1>11, <1>12 DEF ForwardingInductive

-----------------------------------------------------------------------------
(* The buffers on their way.                                                *)

\* A copier reads a buffer.
LEMMA TakesBuffer ==
  ASSUME ForwardingInductive, NEW b \in Bridges, NEW d \in Dirs, NEW i \in Channels,
         i = In(b, d), copier[b][d] = "read", chan[i].n > 0,
         chan' = Taken(i), copier' = [copier EXCEPT ![b][d] = "write"],
         UNCHANGED <<quic, ended, sent, got, cut, early>>
  PROVE  ForwardingInductive'
<1>0. chan \in Chans /\ Numbers BY Typed DEF ForwardingInductive
<1>1. \/ b = "gateway" /\ d = "up" /\ i = UserUp
      \/ b = "gateway" /\ d = "down" /\ i = TunnelDown
      \/ b = "client" /\ d = "up" /\ i = TunnelUp
      \/ b = "client" /\ d = "down" /\ i = LocalDown
  BY Routes, TwoWays
<1>2. /\ chan' \in Chans /\ Others(chan, chan', {i})
      /\ chan'[i].n = chan[i].n - 1 /\ chan'[i].fin = chan[i].fin
      /\ chan'[i].gone = chan[i].gone
  BY <1>0, TakenEffect, Agree
<1>3. /\ copier' \in [Bridges -> [Dirs -> {"read", "write", "done"}]]
      /\ copier'[b][d] = "write"
      /\ \/ b = "gateway" /\ d = "up"
         \/ copier'["gateway"]["up"] = copier["gateway"]["up"]
      /\ \/ b = "gateway" /\ d = "down"
         \/ copier'["gateway"]["down"] = copier["gateway"]["down"]
      /\ \/ b = "client" /\ d = "up"
         \/ copier'["client"]["up"] = copier["client"]["up"]
      /\ \/ b = "client" /\ d = "down"
         \/ copier'["client"]["down"] = copier["client"]["down"]
  <2>1. \A c \in Bridges, e \in Dirs : c # b \/ e # d => copier'[c][e] = copier[c][e]
    BY CopierSet DEF ForwardingInductive
  <2>2. /\ copier' \in [Bridges -> [Dirs -> {"read", "write", "done"}]]
        /\ copier'[b][d] = "write"
    BY CopierSet DEF ForwardingInductive
  <2> QED BY <1>1, <2>1, <2>2, TwoWays
<1>4. ForwardingTypeOK' /\ Numbers'
  <2>1. ForwardingTypeOK'
    BY <1>0, <1>1, <1>2, <1>3, SixChannels
    DEF Others, ForwardingInductive, ForwardingTypeOK, Chans, Bridges
  <2> QED BY <2>1, TypedAfter
<1>5. GoneEmpty'
  BY <1>0, <1>1, <1>2, <1>3, SixChannels
  DEF Others, ForwardingInductive, GoneEmpty, Numbers
<1>6. EndsClosed'
  BY <1>0, <1>1, <1>2, <1>3, SixChannels
  DEF Others, ForwardingInductive, EndsClosed, GatewayDone, ClientDone
<1>7. UpLost' >= UpLost /\ DownLost' = DownLost
  <2>1. UpLost' >= UpLost
    <3>1. CASE b = "gateway" /\ d = "up" /\ i = UserUp
      BY <1>0, <1>1, <1>2, <1>3, SixChannels, <3>1 DEF Others, Numbers, UpLost, Held
    <3>2. CASE b = "gateway" /\ d = "down" /\ i = TunnelDown
      BY <1>0, <1>1, <1>2, <1>3, SixChannels, <3>2 DEF Others, Numbers, UpLost, Held
    <3>3. CASE b = "client" /\ d = "up" /\ i = TunnelUp
      BY <1>0, <1>1, <1>2, <1>3, SixChannels, <3>3 DEF Others, Numbers, UpLost, Held
    <3>4. CASE b = "client" /\ d = "down" /\ i = LocalDown
      BY <1>0, <1>1, <1>2, <1>3, SixChannels, <3>4 DEF Others, Numbers, UpLost, Held
    <3> QED BY <3>1, <3>2, <3>3, <3>4, <1>1
  <2>2. DownLost' = DownLost
    <3>1. CASE b = "gateway" /\ d = "up" /\ i = UserUp
      BY <1>0, <1>1, <1>2, <1>3, SixChannels, <3>1
      DEF Others, Numbers, DownLost, Held
    <3>2. CASE b = "gateway" /\ d = "down" /\ i = TunnelDown
      BY <1>0, <1>1, <1>2, <1>3, SixChannels, <3>2
      DEF Others, Numbers, DownLost, Held
    <3>3. CASE b = "client" /\ d = "up" /\ i = TunnelUp
      BY <1>0, <1>1, <1>2, <1>3, SixChannels, <3>3
      DEF Others, Numbers, DownLost, Held
    <3>4. CASE b = "client" /\ d = "down" /\ i = LocalDown
      BY <1>0, <1>1, <1>2, <1>3, SixChannels, <3>4
      DEF Others, Numbers, DownLost, Held
    <3> QED BY <3>1, <3>2, <3>3, <3>4, <1>1
  <2> QED BY <1>0, <2>1, <2>2, LostNumbers
<1>8. UpLost \in Nat /\ DownLost \in Nat /\ UpLost' \in Int /\ DownLost' \in Int
  BY <1>0, <1>4, LostNumbers, LostNumbersAfter DEF ForwardingInductive
<1>9. ASSUME Calm' PROVE DownLost' = 0 /\ DownChain'
  <2>1. Calm
    <3>1. chan[UserUp].fin => chan'[UserUp].fin
      BY <1>0, <1>1, <1>2, <1>3, SixChannels DEF Others
    <3> QED
      BY <1>0, <1>1, <1>2, <1>3, SixChannels, <1>7, <1>8, <1>9, <3>1,
         CalmBefore
      DEF ForwardingInductive
  <2>2. DownLost = 0 /\ DownChain BY <2>1 DEF ForwardingInductive
  <2>3. DownLost' = DownLost BY <1>7
  <2>4. DownChain'
    BY <1>0, <1>1, <1>2, <1>3, SixChannels, <1>9, <2>1, <2>2, <2>3
    DEF Others, DownChain, GatewayDone, ClientDone, Eof, Numbers, Calm, ReadToEnd
  <2> QED BY <2>2, <2>3, <2>4
<1>10. ReadToEnd' => UpChain'
  BY <1>0, <1>1, <1>2, <1>3, SixChannels
  DEF Others, ForwardingInductive, ReadToEnd, GoneEmpty, EndsClosed, UpChain,
      GatewayDone, ClientDone, Eof, Numbers
<1> QED BY <1>4, <1>5, <1>6, <1>7, <1>8, <1>9, <1>10 DEF ForwardingInductive

\* A copier writes what it read.
LEMMA PutsBuffer ==
  ASSUME ForwardingInductive, NEW b \in Bridges, NEW d \in Dirs, NEW o \in Channels,
         o = Out(b, d), copier[b][d] = "write", ~Broken(o), chan[o].n < Capacity,
         chan' = Put(o), copier' = [copier EXCEPT ![b][d] = "read"],
         UNCHANGED <<quic, ended, sent, got, cut, early>>
  PROVE  ForwardingInductive'
<1>0. chan \in Chans /\ Numbers BY Typed DEF ForwardingInductive
<1>1. \/ b = "gateway" /\ d = "up" /\ o = TunnelUp
      \/ b = "gateway" /\ d = "down" /\ o = UserDown
      \/ b = "client" /\ d = "up" /\ o = LocalUp
      \/ b = "client" /\ d = "down" /\ o = TunnelDown
  BY Routes, TwoWays
<1>2. /\ chan' \in Chans /\ Others(chan, chan', {o})
      /\ chan'[o].n = chan[o].n + 1 /\ chan'[o].fin = chan[o].fin
      /\ chan'[o].gone = chan[o].gone
  BY <1>0, PutEffect, Agree
<1>3. /\ copier' \in [Bridges -> [Dirs -> {"read", "write", "done"}]]
      /\ copier'[b][d] = "read"
      /\ \/ b = "gateway" /\ d = "up"
         \/ copier'["gateway"]["up"] = copier["gateway"]["up"]
      /\ \/ b = "gateway" /\ d = "down"
         \/ copier'["gateway"]["down"] = copier["gateway"]["down"]
      /\ \/ b = "client" /\ d = "up"
         \/ copier'["client"]["up"] = copier["client"]["up"]
      /\ \/ b = "client" /\ d = "down"
         \/ copier'["client"]["down"] = copier["client"]["down"]
  <2>1. \A c \in Bridges, e \in Dirs : c # b \/ e # d => copier'[c][e] = copier[c][e]
    BY CopierSet DEF ForwardingInductive
  <2>2. /\ copier' \in [Bridges -> [Dirs -> {"read", "write", "done"}]]
        /\ copier'[b][d] = "read"
    BY CopierSet DEF ForwardingInductive
  <2> QED BY <1>1, <2>1, <2>2, TwoWays
<1>4. ForwardingTypeOK' /\ Numbers'
  <2>1. ForwardingTypeOK'
    BY <1>0, <1>1, <1>2, <1>3, SixChannels
    DEF Others, Broken, ForwardingInductive, ForwardingTypeOK, Chans,
        Bridges
  <2> QED BY <2>1, TypedAfter
<1>5. GoneEmpty'
  BY <1>0, <1>1, <1>2, <1>3, SixChannels
  DEF Others, Broken, ForwardingInductive, GoneEmpty, Numbers
<1>6. EndsClosed'
  BY <1>0, <1>1, <1>2, <1>3, SixChannels
  DEF Others, Broken, ForwardingInductive, EndsClosed, GatewayDone,
      ClientDone
<1>7. UpLost' >= UpLost /\ DownLost' = DownLost
  <2>1. UpLost' >= UpLost
    <3>1. CASE b = "gateway" /\ d = "up" /\ o = TunnelUp
      BY <1>0, <1>1, <1>2, <1>3, SixChannels, <3>1
      DEF Others, Broken, Numbers, UpLost, Held
    <3>2. CASE b = "gateway" /\ d = "down" /\ o = UserDown
      BY <1>0, <1>1, <1>2, <1>3, SixChannels, <3>2
      DEF Others, Broken, Numbers, UpLost, Held
    <3>3. CASE b = "client" /\ d = "up" /\ o = LocalUp
      BY <1>0, <1>1, <1>2, <1>3, SixChannels, <3>3
      DEF Others, Broken, Numbers, UpLost, Held
    <3>4. CASE b = "client" /\ d = "down" /\ o = TunnelDown
      BY <1>0, <1>1, <1>2, <1>3, SixChannels, <3>4
      DEF Others, Broken, Numbers, UpLost, Held
    <3> QED BY <3>1, <3>2, <3>3, <3>4, <1>1
  <2>2. DownLost' = DownLost
    <3>1. CASE b = "gateway" /\ d = "up" /\ o = TunnelUp
      BY <1>0, <1>1, <1>2, <1>3, SixChannels, <3>1
      DEF Others, Broken, Numbers, DownLost, Held
    <3>2. CASE b = "gateway" /\ d = "down" /\ o = UserDown
      BY <1>0, <1>1, <1>2, <1>3, SixChannels, <3>2
      DEF Others, Broken, Numbers, DownLost, Held
    <3>3. CASE b = "client" /\ d = "up" /\ o = LocalUp
      BY <1>0, <1>1, <1>2, <1>3, SixChannels, <3>3
      DEF Others, Broken, Numbers, DownLost, Held
    <3>4. CASE b = "client" /\ d = "down" /\ o = TunnelDown
      BY <1>0, <1>1, <1>2, <1>3, SixChannels, <3>4
      DEF Others, Broken, Numbers, DownLost, Held
    <3> QED BY <3>1, <3>2, <3>3, <3>4, <1>1
  <2> QED BY <1>0, <2>1, <2>2, LostNumbers
<1>8. UpLost \in Nat /\ DownLost \in Nat /\ UpLost' \in Int /\ DownLost' \in Int
  BY <1>0, <1>4, LostNumbers, LostNumbersAfter DEF ForwardingInductive
<1>9. ASSUME Calm' PROVE DownLost' = 0 /\ DownChain'
  <2>1. Calm
    <3>1. chan[UserUp].fin => chan'[UserUp].fin
      BY <1>0, <1>1, <1>2, <1>3, SixChannels DEF Others, Broken, Broken
    <3> QED
      BY <1>0, <1>1, <1>2, <1>3, SixChannels, <1>7, <1>8, <1>9, <3>1,
         CalmBefore
      DEF ForwardingInductive
  <2>2. DownLost = 0 /\ DownChain BY <2>1 DEF ForwardingInductive
  <2>3. DownLost' = DownLost BY <1>7
  <2>4. DownChain'
    BY <1>0, <1>1, <1>2, <1>3, SixChannels, <1>9, <2>1, <2>2, <2>3
    DEF Others, Broken, DownChain, GatewayDone, ClientDone, Eof, Numbers, Calm,
        ReadToEnd
  <2> QED BY <2>2, <2>3, <2>4
<1>10. ReadToEnd' => UpChain'
  BY <1>0, <1>1, <1>2, <1>3, SixChannels
  DEF Others, Broken, ForwardingInductive, ReadToEnd, GoneEmpty,
      EndsClosed, UpChain, GatewayDone, ClientDone, Eof, Numbers
<1> QED BY <1>4, <1>5, <1>6, <1>7, <1>8, <1>9, <1>10 DEF ForwardingInductive

\* A write to a reader that has gone is lost unnoticed: the session is not calm.
LEMMA LosesBuffer ==
  ASSUME ForwardingInductive, NEW b \in Bridges, NEW d \in Dirs, NEW o \in Channels,
         o = Out(b, d), copier[b][d] = "write", chan[o].gone, ~chan[o].fin,
         copier' = [copier EXCEPT ![b][d] = "read"],
         UNCHANGED <<quic, chan, ended, sent, got, cut, early>>
  PROVE  ForwardingInductive'
<1>0. chan \in Chans /\ Numbers BY Typed DEF ForwardingInductive
<1>1. \/ b = "gateway" /\ d = "up" /\ o = TunnelUp
      \/ b = "gateway" /\ d = "down" /\ o = UserDown
      \/ b = "client" /\ d = "up" /\ o = LocalUp
      \/ b = "client" /\ d = "down" /\ o = TunnelDown
  BY Routes, TwoWays
<1>2. chan' = chan OBVIOUS
<1>3. /\ copier' \in [Bridges -> [Dirs -> {"read", "write", "done"}]]
      /\ copier'[b][d] = "read"
      /\ \/ b = "gateway" /\ d = "up"
         \/ copier'["gateway"]["up"] = copier["gateway"]["up"]
      /\ \/ b = "gateway" /\ d = "down"
         \/ copier'["gateway"]["down"] = copier["gateway"]["down"]
      /\ \/ b = "client" /\ d = "up"
         \/ copier'["client"]["up"] = copier["client"]["up"]
      /\ \/ b = "client" /\ d = "down"
         \/ copier'["client"]["down"] = copier["client"]["down"]
  <2>1. \A c \in Bridges, e \in Dirs : c # b \/ e # d => copier'[c][e] = copier[c][e]
    BY CopierSet DEF ForwardingInductive
  <2>2. /\ copier' \in [Bridges -> [Dirs -> {"read", "write", "done"}]]
        /\ copier'[b][d] = "read"
    BY CopierSet DEF ForwardingInductive
  <2> QED BY <1>1, <2>1, <2>2, TwoWays
<1>4. ForwardingTypeOK' /\ Numbers'
  <2>1. ForwardingTypeOK'
    BY <1>0, <1>1, <1>2, <1>3
    DEF ForwardingInductive, ForwardingTypeOK, Chans, Bridges
  <2> QED BY <2>1, TypedAfter
<1>5. GoneEmpty'
  BY <1>0, <1>1, <1>2, <1>3 DEF ForwardingInductive, GoneEmpty, Numbers
<1>6. EndsClosed'
  BY <1>0, <1>1, <1>2, <1>3
  DEF ForwardingInductive, EndsClosed, GatewayDone, ClientDone
<1>7. UpLost' >= UpLost /\ DownLost' >= DownLost
  <2>1. UpLost' >= UpLost BY <1>0, <1>1, <1>2, <1>3 DEF Numbers, UpLost, Held
  <2>2. DownLost' >= DownLost BY <1>0, <1>1, <1>2, <1>3 DEF Numbers, DownLost, Held
  <2> QED BY <2>1, <2>2
<1>8. UpLost \in Nat /\ DownLost \in Nat /\ UpLost' \in Int /\ DownLost' \in Int
  BY <1>0, <1>4, LostNumbers, LostNumbersAfter DEF ForwardingInductive
<1>9. ASSUME Calm' PROVE DownLost' = 0 /\ DownChain'
  <2>1. Calm
    <3>1. chan[UserUp].fin => chan'[UserUp].fin BY <1>0, <1>1, <1>2, <1>3
    <3> QED
      BY <1>0, <1>1, <1>2, <1>3, <1>7, <1>8, <1>9, <3>1, CalmBefore
      DEF ForwardingInductive
  <2>2. DownLost = 0 /\ DownChain BY <2>1 DEF ForwardingInductive
  <2>3. d = "up" BY <1>1, <2>2 DEF DownChain, GatewayDone, Eof
  <2>4. DownLost' = DownLost BY <1>1, <1>2, <1>3, <2>3 DEF DownLost, Held
  <2>5. DownChain'
    BY <1>0, <1>1, <1>2, <1>3, <1>9, <2>1, <2>2, <2>4
    DEF DownChain, GatewayDone, ClientDone, Eof, Numbers, Calm, ReadToEnd
  <2> QED BY <2>2, <2>4, <2>5
<1>10. ReadToEnd' => UpChain'
  BY <1>0, <1>1, <1>2, <1>3
  DEF ForwardingInductive, ReadToEnd, GoneEmpty, EndsClosed, UpChain,
      GatewayDone, ClientDone, Eof, Numbers
<1> QED BY <1>4, <1>5, <1>6, <1>7, <1>8, <1>9, <1>10 DEF ForwardingInductive

\* The user, or the service, sends.
LEMMA Sends ==
  ASSUME ForwardingInductive, NEW d \in Dirs, Send(d)
  PROVE  ForwardingInductive'
<1>0. chan \in Chans /\ Numbers BY Typed DEF ForwardingInductive
<1>1. PICK c \in Channels : c = First(d) BY Routes, SixChannels, TwoWays
<1>2. \/ d = "up" /\ c = UserUp
      \/ d = "down" /\ c = LocalDown
  BY <1>1, Routes, TwoWays
<1>3. /\ chan' \in Chans /\ Others(chan, chan', {c})
      /\ chan'[c].n = chan[c].n + 1 /\ chan'[c].fin = chan[c].fin
      /\ chan'[c].gone = chan[c].gone
  <2>1. chan' = Put(c) /\ chan[c].n < Capacity BY <1>1 DEF Send
  <2> QED BY <1>0, <2>1, PutEffect, Agree
<1>4. /\ ~chan[c].fin /\ ~chan[c].gone /\ sent[d] < MaxSend
      /\ sent' = [sent EXCEPT ![d] = @ + 1]
      /\ UNCHANGED <<quic, copier, ended, got, cut, early>>
  BY <1>1 DEF Send, Broken
<1>5. /\ sent' \in [Dirs -> 0 .. MaxSend] /\ sent'[d] = sent[d] + 1
      /\ d = "up" \/ sent'["up"] = sent["up"]
      /\ d = "down" \/ sent'["down"] = sent["down"]
  BY <1>4, TwoWays, ForwardingAssumption DEF ForwardingInductive, ForwardingTypeOK
<1>6. ForwardingTypeOK' /\ Numbers'
  <2>1. ForwardingTypeOK'
    BY <1>0, <1>2, <1>3, <1>4, <1>5, SixChannels
    DEF Others, ForwardingInductive, ForwardingTypeOK, Chans, Bridges
  <2> QED BY <2>1, TypedAfter
<1>7. GoneEmpty'
  BY <1>0, <1>2, <1>3, <1>4, <1>5, SixChannels
  DEF Others, ForwardingInductive, GoneEmpty, Numbers
<1>8. EndsClosed'
  BY <1>0, <1>2, <1>3, <1>4, <1>5, SixChannels
  DEF Others, ForwardingInductive, EndsClosed, GatewayDone, ClientDone
<1>9. UpLost' >= UpLost /\ DownLost' = DownLost
  <2>1. UpLost' >= UpLost
    <3>1. CASE d = "up"
      BY <1>0, <1>2, <1>3, <1>4, <1>5, SixChannels, <3>1
      DEF Others, Numbers, UpLost, Held
    <3>2. CASE d = "down"
      BY <1>0, <1>2, <1>3, <1>4, <1>5, SixChannels, <3>2
      DEF Others, Numbers, UpLost, Held
    <3> QED BY <3>1, <3>2, <1>2
  <2>2. DownLost' = DownLost
    <3>1. CASE d = "up"
      BY <1>0, <1>2, <1>3, <1>4, <1>5, SixChannels, <3>1
      DEF Others, Numbers, DownLost, Held
    <3>2. CASE d = "down"
      BY <1>0, <1>2, <1>3, <1>4, <1>5, SixChannels, <3>2
      DEF Others, Numbers, DownLost, Held
    <3> QED BY <3>1, <3>2, <1>2
  <2> QED BY <1>0, <2>1, <2>2, LostNumbers
<1>10. UpLost \in Nat /\ DownLost \in Nat /\ UpLost' \in Int /\ DownLost' \in Int
  BY <1>0, <1>6, LostNumbers, LostNumbersAfter DEF ForwardingInductive
<1>11. ASSUME Calm' PROVE DownLost' = 0 /\ DownChain'
  <2>1. Calm
    <3>1. chan[UserUp].fin => chan'[UserUp].fin
      BY <1>0, <1>2, <1>3, <1>4, <1>5, SixChannels DEF Others
    <3> QED
      BY <1>0, <1>2, <1>3, <1>4, <1>5, SixChannels, <1>9, <1>10, <1>11, <3>1,
         CalmBefore
      DEF ForwardingInductive
  <2>2. DownLost = 0 /\ DownChain BY <2>1 DEF ForwardingInductive
  <2>3. DownLost' = DownLost BY <1>9
  <2>4. DownChain'
    BY <1>0, <1>2, <1>3, <1>4, <1>5, SixChannels, <1>11, <2>1, <2>2, <2>3
    DEF Others, DownChain, GatewayDone, ClientDone, Eof, Numbers, Calm, ReadToEnd
  <2> QED BY <2>2, <2>3, <2>4
<1>12. ReadToEnd' => UpChain'
  BY <1>0, <1>2, <1>3, <1>4, <1>5, SixChannels
  DEF Others, ForwardingInductive, ReadToEnd, GoneEmpty, EndsClosed, UpChain,
      GatewayDone, ClientDone, Eof, Numbers
<1> QED BY <1>6, <1>7, <1>8, <1>9, <1>10, <1>11, <1>12 DEF ForwardingInductive

\* The service, or the user, receives.
LEMMA Receives ==
  ASSUME ForwardingInductive, NEW d \in Dirs, Receive(d)
  PROVE  ForwardingInductive'
<1>0. chan \in Chans /\ Numbers BY Typed DEF ForwardingInductive
<1>1. PICK c \in Channels : c = Last(d) BY Routes, SixChannels, TwoWays
<1>2. \/ d = "up" /\ c = LocalUp
      \/ d = "down" /\ c = UserDown
  BY <1>1, Routes, TwoWays
<1>3. /\ chan' \in Chans /\ Others(chan, chan', {c}) /\ chan[c].n > 0
      /\ chan'[c].n = chan[c].n - 1 /\ chan'[c].fin = chan[c].fin
      /\ chan'[c].gone = chan[c].gone
  <2>1. chan' = Taken(c) /\ chan[c].n > 0 BY <1>1 DEF Receive
  <2> QED BY <1>0, <2>1, TakenEffect, Agree
<1>4. /\ got' = [got EXCEPT ![d] = @ + 1]
      /\ UNCHANGED <<quic, copier, ended, sent, cut, early>>
  BY <1>1 DEF Receive
<1>5. got[d] < sent[d]
  BY <1>0, <1>2, <1>3 DEF ForwardingInductive, Numbers, UpLost, DownLost, Held
<1>6. /\ got' \in [Dirs -> 0 .. MaxSend] /\ got'[d] = got[d] + 1
      /\ d = "up" \/ got'["up"] = got["up"]
      /\ d = "down" \/ got'["down"] = got["down"]
  <2>1. got \in [Dirs -> 0 .. MaxSend] /\ sent[d] \in 0 .. MaxSend
    BY DEF ForwardingInductive, ForwardingTypeOK
  <2> QED BY <1>4, <1>5, <2>1, TwoWays, ForwardingAssumption
<1>7. ForwardingTypeOK' /\ Numbers'
  <2>1. ForwardingTypeOK'
    BY <1>0, <1>2, <1>3, <1>4, <1>6, SixChannels
    DEF Others, ForwardingInductive, ForwardingTypeOK, Chans, Bridges
  <2> QED BY <2>1, TypedAfter
<1>8. GoneEmpty'
  BY <1>0, <1>2, <1>3, <1>4, <1>6, SixChannels
  DEF Others, ForwardingInductive, GoneEmpty, Numbers
<1>9. EndsClosed'
  BY <1>0, <1>2, <1>3, <1>4, <1>6, SixChannels
  DEF Others, ForwardingInductive, EndsClosed, GatewayDone, ClientDone
<1>10. UpLost' >= UpLost /\ DownLost' = DownLost
  <2>1. UpLost' >= UpLost
    <3>1. CASE d = "up"
      BY <1>0, <1>2, <1>3, <1>4, <1>6, SixChannels, <3>1
      DEF Others, Numbers, UpLost, Held
    <3>2. CASE d = "down"
      BY <1>0, <1>2, <1>3, <1>4, <1>6, SixChannels, <3>2
      DEF Others, Numbers, UpLost, Held
    <3> QED BY <3>1, <3>2, <1>2
  <2>2. DownLost' = DownLost
    <3>1. CASE d = "up"
      BY <1>0, <1>2, <1>3, <1>4, <1>6, SixChannels, <3>1
      DEF Others, Numbers, DownLost, Held
    <3>2. CASE d = "down"
      BY <1>0, <1>2, <1>3, <1>4, <1>6, SixChannels, <3>2
      DEF Others, Numbers, DownLost, Held
    <3> QED BY <3>1, <3>2, <1>2
  <2> QED BY <1>0, <2>1, <2>2, LostNumbers
<1>11. UpLost \in Nat /\ DownLost \in Nat /\ UpLost' \in Int /\ DownLost' \in Int
  BY <1>0, <1>7, LostNumbers, LostNumbersAfter DEF ForwardingInductive
<1>12. ASSUME Calm' PROVE DownLost' = 0 /\ DownChain'
  <2>1. Calm
    <3>1. chan[UserUp].fin => chan'[UserUp].fin
      BY <1>0, <1>2, <1>3, <1>4, <1>6, SixChannels DEF Others
    <3> QED
      BY <1>0, <1>2, <1>3, <1>4, <1>6, SixChannels, <1>10, <1>11, <1>12, <3>1,
         CalmBefore
      DEF ForwardingInductive
  <2>2. DownLost = 0 /\ DownChain BY <2>1 DEF ForwardingInductive
  <2>3. DownLost' = DownLost BY <1>10
  <2>4. DownChain'
    BY <1>0, <1>2, <1>3, <1>4, <1>6, SixChannels, <1>12, <2>1, <2>2, <2>3
    DEF Others, DownChain, GatewayDone, ClientDone, Eof, Numbers, Calm, ReadToEnd
  <2> QED BY <2>2, <2>3, <2>4
<1>13. ReadToEnd' => UpChain'
  BY <1>0, <1>2, <1>3, <1>4, <1>6, SixChannels
  DEF Others, ForwardingInductive, ReadToEnd, GoneEmpty, EndsClosed, UpChain,
      GatewayDone, ClientDone, Eof, Numbers
<1> QED BY <1>7, <1>8, <1>9, <1>10, <1>11, <1>12, <1>13 DEF ForwardingInductive
-----------------------------------------------------------------------------
(* The ends, and what is cut short.                                         *)

\* The gateway's bridge returns: both its copies have closed what they served.
LEMMA GatewayReturns ==
  ASSUME ForwardingInductive, Return("gateway") \/ CloseSession
  PROVE  ForwardingInductive'
<1>0. chan \in Chans /\ Numbers BY Typed DEF ForwardingInductive
<1>1. PICK f \in CloseUser(chan) : chan' \in CloseTunnel(f)
  BY DEF Return, CloseSession
<1>2. /\ f \in Chans /\ Others(chan, f, {UserUp, UserDown})
      /\ f[UserDown].fin /\ f[UserDown].gone = chan[UserDown].gone
      /\ f[UserUp].gone /\ f[UserUp].fin = chan[UserUp].fin /\ f[UserUp].n = 0
      /\ \/ f[UserDown].n = chan[UserDown].n
         \/ chan[UserUp].n > 0 /\ f[UserDown].n = 0
  BY <1>0, <1>1, CloseUserEffect
<1>3. /\ chan' \in Chans /\ Others(f, chan', {TunnelUp, TunnelDown})
      /\ chan'[TunnelUp].fin /\ chan'[TunnelUp].gone = f[TunnelUp].gone
      /\ \/ ~quic /\ chan'[TunnelDown].gone /\ chan'[TunnelDown].n = 0
         \/ quic /\ chan'[TunnelDown] = f[TunnelDown]
      /\ chan'[TunnelDown].fin = f[TunnelDown].fin
      /\ \/ chan'[TunnelUp].n = f[TunnelUp].n
         \/ ~quic /\ f[TunnelDown].n > 0 /\ chan'[TunnelUp].n = 0
  BY <1>1, <1>2, CloseTunnelEffect
<1>4. /\ UNCHANGED <<quic, copier, sent, got, early>>
      /\ \/ cut' = TRUE /\ ended' = ended
         \/ /\ copier["gateway"]["up"] = "done" /\ copier["gateway"]["down"] = "done"
            /\ ended' = ended \cup {"gateway"} /\ cut' = cut
  BY TwoWays DEF Return, CloseSession
<1>5. /\ chan'[LocalUp] = chan[LocalUp] /\ chan'[LocalDown] = chan[LocalDown]
      /\ chan'[UserDown].fin /\ chan'[UserDown].gone = chan[UserDown].gone
      /\ chan'[UserUp].gone /\ chan'[UserUp].fin = chan[UserUp].fin /\ chan'[UserUp].n = 0
      /\ \/ chan'[UserDown].n = chan[UserDown].n
         \/ chan[UserUp].n > 0 /\ chan'[UserDown].n = 0
      /\ chan'[TunnelUp].fin /\ chan'[TunnelUp].gone = chan[TunnelUp].gone
      /\ \/ ~quic /\ chan'[TunnelDown].gone /\ chan'[TunnelDown].n = 0
         \/ quic /\ chan'[TunnelDown] = chan[TunnelDown]
      /\ chan'[TunnelDown].fin = chan[TunnelDown].fin
      /\ \/ chan'[TunnelUp].n = chan[TunnelUp].n
         \/ ~quic /\ chan[TunnelDown].n > 0 /\ chan'[TunnelUp].n = 0
      /\ chan' \in Chans
  BY <1>2, <1>3, SixChannels DEF Others
<1>6. ForwardingTypeOK' /\ Numbers'
  <2>1. ForwardingTypeOK'
    BY <1>0, <1>4, <1>5 DEF ForwardingInductive, ForwardingTypeOK, Chans, Bridges
  <2> QED BY <2>1, TypedAfter
<1>7. GoneEmpty' BY <1>0, <1>4, <1>5 DEF ForwardingInductive, GoneEmpty, Numbers
<1>8. EndsClosed'
  BY <1>0, <1>4, <1>5 DEF ForwardingInductive, EndsClosed, GatewayDone, ClientDone
<1>9. UpLost' >= UpLost /\ DownLost' >= DownLost
  <2>1. UpLost' >= UpLost BY <1>0, <1>4, <1>5 DEF Numbers, UpLost, Held
  <2>2. DownLost' >= DownLost BY <1>0, <1>4, <1>5 DEF Numbers, DownLost, Held
  <2> QED BY <2>1, <2>2
<1>10. UpLost \in Nat /\ DownLost \in Nat /\ UpLost' \in Int /\ DownLost' \in Int
  BY <1>0, <1>6, LostNumbers, LostNumbersAfter DEF ForwardingInductive
<1>11. ASSUME Calm' PROVE DownLost' = 0 /\ DownChain'
  <2>1. Calm
    <3>1. chan[UserUp].fin => chan'[UserUp].fin BY <1>0, <1>4, <1>5
    <3> QED
      BY <1>0, <1>4, <1>5, <1>9, <1>10, <1>11, <3>1, CalmBefore
      DEF ForwardingInductive
  <2>2. DownLost = 0 /\ DownChain BY <2>1 DEF ForwardingInductive
  <2>3. GatewayDone("up") /\ GatewayDone("down")
    BY <1>4, <1>11 DEF Calm, ReadToEnd, GatewayDone
  <2>4. chan[UserUp].n = 0 /\ (quic \/ chan[TunnelDown].n = 0)
    BY <2>3 DEF ForwardingInductive, EndsClosed, GoneEmpty
  <2>5. DownLost' = DownLost /\ GatewayDone("down")
    BY <1>0, <1>4, <1>5, <2>3, <2>4 DEF Numbers, DownLost, Held
  <2>6. DownChain'
    BY <1>0, <1>4, <1>5, <1>11, <2>1, <2>2, <2>5
    DEF DownChain, GatewayDone, ClientDone, Eof, Numbers, Calm, ReadToEnd
  <2> QED BY <2>2, <2>5, <2>6
<1>12. ReadToEnd' => UpChain'
  BY <1>0, <1>4, <1>5
  DEF ForwardingInductive, ReadToEnd, GoneEmpty, EndsClosed, UpChain,
      GatewayDone, ClientDone, Eof, Numbers
<1> QED BY <1>6, <1>7, <1>8, <1>9, <1>10, <1>11, <1>12 DEF ForwardingInductive

\* So has the client's; its Close finds nothing unread.
LEMMA ClientReturns ==
  ASSUME ForwardingInductive, Return("client")
  PROVE  ForwardingInductive'
<1>0. chan \in Chans /\ Numbers BY Typed DEF ForwardingInductive
<1>1. PICK f \in Closes(chan, LocalUp, LocalDown) : chan' \in Closes(f, TunnelDown, TunnelUp)
  BY DEF Return, LocalUp, LocalDown, TunnelUp, TunnelDown
<1>2. /\ f \in Chans /\ Others(chan, f, {LocalUp, LocalDown})
      /\ f[LocalUp].fin /\ f[LocalUp].gone = chan[LocalUp].gone
      /\ f[LocalDown].gone /\ f[LocalDown].fin = chan[LocalDown].fin /\ f[LocalDown].n = 0
      /\ \/ f[LocalUp].n = chan[LocalUp].n
         \/ chan[LocalDown].n > 0 /\ f[LocalUp].n = 0
  BY <1>0, <1>1, CloseLocalEffect
<1>3. /\ chan' \in Chans /\ Others(f, chan', {TunnelUp, TunnelDown})
      /\ chan'[TunnelDown].fin /\ chan'[TunnelDown].gone = f[TunnelDown].gone
      /\ chan'[TunnelUp].gone /\ chan'[TunnelUp].fin = f[TunnelUp].fin
      /\ chan'[TunnelUp].n = 0
      /\ \/ chan'[TunnelDown].n = f[TunnelDown].n
         \/ f[TunnelUp].n > 0 /\ chan'[TunnelDown].n = 0
  <2>1. TunnelDown \in Channels /\ TunnelUp \in Channels \ {TunnelDown}
    BY SixChannels
  <2>2. \A e \in Channels \ {TunnelUp, TunnelDown} : chan'[e] = f[e]
    BY <1>1, <1>2, <2>1, ClosesEffect
  <2> QED BY <1>1, <1>2, <2>1, <2>2, ClosesEffect, Agree
<1>4. /\ UNCHANGED <<quic, copier, sent, got, cut, early>>
      /\ copier["client"]["up"] = "done" /\ copier["client"]["down"] = "done"
      /\ ended' = ended \cup {"client"}
  BY TwoWays DEF Return
<1>5. /\ chan'[TunnelDown].n = chan[TunnelDown].n /\ chan'[LocalDown].n = chan[LocalDown].n
      /\ chan'[TunnelUp].n = chan[TunnelUp].n /\ chan'[LocalUp].n = chan[LocalUp].n
  <2>1. chan[TunnelUp].n = 0 /\ chan[LocalDown].n = 0
    BY <1>4, SixChannels DEF ForwardingInductive, GoneEmpty, EndsClosed, ClientDone
  <2> QED BY <1>0, <1>2, <1>3, <2>1, SixChannels DEF Others
<1>6. ForwardingTypeOK' /\ Numbers'
  <2>1. ForwardingTypeOK'
    BY <1>0, <1>1, <1>2, <1>3, <1>4, <1>5, SixChannels
    DEF Others, ForwardingInductive, ForwardingTypeOK, Chans, Bridges
  <2> QED BY <2>1, TypedAfter
<1>7. GoneEmpty'
  BY <1>0, <1>1, <1>2, <1>3, <1>4, <1>5, SixChannels
  DEF Others, ForwardingInductive, GoneEmpty, Numbers
<1>8. EndsClosed'
  BY <1>0, <1>1, <1>2, <1>3, <1>4, <1>5, SixChannels
  DEF Others, ForwardingInductive, EndsClosed, GatewayDone, ClientDone
<1>9. UpLost' >= UpLost /\ DownLost' >= DownLost
  <2>1. UpLost' >= UpLost
    BY <1>0, <1>1, <1>2, <1>3, <1>4, <1>5, SixChannels
    DEF Others, Numbers, UpLost, Held
  <2>2. DownLost' >= DownLost
    BY <1>0, <1>1, <1>2, <1>3, <1>4, <1>5, SixChannels
    DEF Others, Numbers, DownLost, Held
  <2> QED BY <2>1, <2>2
<1>10. UpLost \in Nat /\ DownLost \in Nat /\ UpLost' \in Int /\ DownLost' \in Int
  BY <1>0, <1>6, LostNumbers, LostNumbersAfter DEF ForwardingInductive
<1>11. ASSUME Calm' PROVE DownLost' = 0 /\ DownChain'
  <2>1. Calm
    <3>1. chan[UserUp].fin => chan'[UserUp].fin
      BY <1>0, <1>1, <1>2, <1>3, <1>4, <1>5, SixChannels DEF Others
    <3> QED
      BY <1>0, <1>1, <1>2, <1>3, <1>4, <1>5, SixChannels, <1>9, <1>10, <1>11,
         <3>1, CalmBefore
      DEF ForwardingInductive
  <2>2. DownLost = 0 /\ DownChain BY <2>1 DEF ForwardingInductive
  <2>3. DownLost' = DownLost
    BY <1>0, <1>1, <1>2, <1>3, <1>4, <1>5, SixChannels
    DEF Others, Numbers, DownLost, Held
  <2>4. DownChain'
    BY <1>0, <1>1, <1>2, <1>3, <1>4, <1>5, SixChannels, <1>11, <2>1, <2>2, <2>3
    DEF Others, DownChain, GatewayDone, ClientDone, Eof, Numbers, Calm, ReadToEnd
  <2> QED BY <2>2, <2>3, <2>4
<1>12. ReadToEnd' => UpChain'
  BY <1>0, <1>1, <1>2, <1>3, <1>4, <1>5, SixChannels
  DEF Others, ForwardingInductive, ReadToEnd, GoneEmpty, EndsClosed, UpChain,
      GatewayDone, ClientDone, Eof, Numbers
<1> QED BY <1>6, <1>7, <1>8, <1>9, <1>10, <1>11, <1>12 DEF ForwardingInductive

LEMMA Breaks ==
  ASSUME ForwardingInductive, TunnelBreaks
  PROVE  ForwardingInductive'
<1>0. chan \in Chans /\ Numbers BY Typed DEF ForwardingInductive
<1>1. chan' = [c \in Channels |-> IF c[1] = "tunnel"
                                   THEN [n |-> 0, fin |-> TRUE, gone |-> TRUE]
                                   ELSE chan[c]]
  BY DEF TunnelBreaks
<1>2. chan' \in Chans
  <2>1. [n |-> 0, fin |-> TRUE, gone |-> TRUE]
          \in [n : 0 .. Capacity, fin : BOOLEAN, gone : BOOLEAN]
    <3>1. 0 \in 0 .. Capacity BY ForwardingAssumption
    <3> QED BY <3>1
  <2> QED BY <1>0, <1>1, <2>1 DEF Chans
<1>3. /\ chan'[UserUp] = chan[UserUp] /\ chan'[UserDown] = chan[UserDown]
      /\ chan'[LocalUp] = chan[LocalUp] /\ chan'[LocalDown] = chan[LocalDown]
      /\ chan'[TunnelUp] = [n |-> 0, fin |-> TRUE, gone |-> TRUE]
      /\ chan'[TunnelDown] = [n |-> 0, fin |-> TRUE, gone |-> TRUE]
  BY <1>1, SixChannels
  DEF UserUp, UserDown, TunnelUp, TunnelDown, LocalUp, LocalDown
<1>4. cut' = TRUE /\ UNCHANGED <<quic, copier, ended, sent, got, early>>
  BY DEF TunnelBreaks
<1>5. ForwardingTypeOK' /\ Numbers'
  <2>1. ForwardingTypeOK'
    BY <1>0, <1>2, <1>3, <1>4
    DEF ForwardingInductive, ForwardingTypeOK, Chans, Bridges
  <2> QED BY <2>1, TypedAfter
<1>6. GoneEmpty'
  BY <1>0, <1>2, <1>3, <1>4 DEF ForwardingInductive, GoneEmpty, Numbers
<1>7. EndsClosed'
  BY <1>0, <1>2, <1>3, <1>4
  DEF ForwardingInductive, EndsClosed, GatewayDone, ClientDone
<1>8. UpLost' >= UpLost /\ DownLost' >= DownLost
  <2>1. UpLost' >= UpLost BY <1>0, <1>2, <1>3, <1>4 DEF Numbers, UpLost, Held
  <2>2. DownLost' >= DownLost BY <1>0, <1>2, <1>3, <1>4 DEF Numbers, DownLost, Held
  <2> QED BY <2>1, <2>2
<1>9. UpLost \in Nat /\ DownLost \in Nat /\ UpLost' \in Int /\ DownLost' \in Int
  BY <1>0, <1>5, LostNumbers, LostNumbersAfter DEF ForwardingInductive
<1>10. ~Calm' /\ ~ReadToEnd' BY <1>0, <1>2, <1>3, <1>4 DEF Calm, ReadToEnd
<1> QED BY <1>5, <1>6, <1>7, <1>8, <1>9, <1>10 DEF ForwardingInductive

LEMMA Quits ==
  ASSUME ForwardingInductive, UserQuits
  PROVE  ForwardingInductive'
<1>0. chan \in Chans /\ Numbers BY Typed DEF ForwardingInductive
<1>1. UserUp \in Channels /\ UserDown \in Channels \ {UserUp} BY SixChannels
<1>2. chan' \in Closes(chan, UserUp, UserDown) BY DEF UserQuits, UserUp, UserDown
<1>3. /\ chan' \in Chans /\ Others(chan, chan', {UserUp, UserDown})
      /\ chan'[UserUp].fin /\ chan'[UserUp].gone = chan[UserUp].gone
      /\ chan'[UserDown].gone /\ chan'[UserDown].fin = chan[UserDown].fin
      /\ chan'[UserDown].n = 0
      /\ \/ chan'[UserUp].n = chan[UserUp].n
         \/ chan[UserDown].n > 0 /\ chan'[UserUp].n = 0
  <2>1. \A e \in Channels \ {UserUp, UserDown} : chan'[e] = chan[e]
    BY <1>0, <1>1, <1>2, ClosesEffect
  <2> QED BY <1>0, <1>1, <1>2, <2>1, ClosesEffect, Agree
<1>4. cut' = TRUE /\ UNCHANGED <<quic, copier, ended, sent, got, early>>
  BY DEF UserQuits
<1>5. ForwardingTypeOK' /\ Numbers'
  <2>1. ForwardingTypeOK'
    BY <1>0, <1>3, <1>4, SixChannels
    DEF Others, ForwardingInductive, ForwardingTypeOK, Chans, Bridges
  <2> QED BY <2>1, TypedAfter
<1>6. GoneEmpty'
  BY <1>0, <1>3, <1>4, SixChannels
  DEF Others, ForwardingInductive, GoneEmpty, Numbers
<1>7. EndsClosed'
  BY <1>0, <1>3, <1>4, SixChannels
  DEF Others, ForwardingInductive, EndsClosed, GatewayDone, ClientDone
<1>8. UpLost' >= UpLost /\ DownLost' >= DownLost
  <2>1. UpLost' >= UpLost
    BY <1>0, <1>3, <1>4, SixChannels DEF Others, Numbers, UpLost, Held
  <2>2. DownLost' >= DownLost
    BY <1>0, <1>3, <1>4, SixChannels DEF Others, Numbers, DownLost, Held
  <2> QED BY <2>1, <2>2
<1>9. UpLost \in Nat /\ DownLost \in Nat /\ UpLost' \in Int /\ DownLost' \in Int
  BY <1>0, <1>5, LostNumbers, LostNumbersAfter DEF ForwardingInductive
<1>10. ~Calm' /\ ~ReadToEnd' BY <1>0, <1>3, <1>4, SixChannels DEF Calm, ReadToEnd
<1> QED BY <1>5, <1>6, <1>7, <1>8, <1>9, <1>10 DEF ForwardingInductive

LEMMA Shuts ==
  ASSUME ForwardingInductive, UserShuts
  PROVE  ForwardingInductive'
<1>0. chan \in Chans /\ Numbers BY Typed DEF ForwardingInductive
<1>1. UserUp \in Channels /\ chan' = Shut(chan, UserUp)
  BY SixChannels DEF UserShuts, UserUp
<1>2. /\ chan' \in Chans /\ Others(chan, chan', {UserUp})
      /\ chan'[UserUp].n = chan[UserUp].n /\ chan'[UserUp].fin
      /\ chan'[UserUp].gone = chan[UserUp].gone
  BY <1>0, <1>1, ShutEffect, Agree
<1>3. UNCHANGED <<quic, copier, ended, sent, got, cut, early>>
  BY DEF UserShuts
<1>4. ForwardingTypeOK' /\ Numbers'
  <2>1. ForwardingTypeOK'
    BY <1>0, <1>2, <1>3, SixChannels
    DEF Others, ForwardingInductive, ForwardingTypeOK, Chans, Bridges
  <2> QED BY <2>1, TypedAfter
<1>5. GoneEmpty'
  BY <1>0, <1>2, <1>3, SixChannels
  DEF Others, ForwardingInductive, GoneEmpty, Numbers
<1>6. EndsClosed'
  BY <1>0, <1>2, <1>3, SixChannels
  DEF Others, ForwardingInductive, EndsClosed, GatewayDone, ClientDone
<1>7. UpLost' >= UpLost /\ DownLost' >= DownLost
  <2>1. UpLost' >= UpLost
    BY <1>0, <1>2, <1>3, SixChannels DEF Others, Numbers, UpLost, Held
  <2>2. DownLost' >= DownLost
    BY <1>0, <1>2, <1>3, SixChannels DEF Others, Numbers, DownLost, Held
  <2> QED BY <2>1, <2>2
<1>8. UpLost \in Nat /\ DownLost \in Nat /\ UpLost' \in Int /\ DownLost' \in Int
  BY <1>0, <1>4, LostNumbers, LostNumbersAfter DEF ForwardingInductive
<1>9. ASSUME Calm' PROVE DownLost' = 0 /\ DownChain'
  <2>1. Calm
    <3>1. chan[UserUp].fin => chan'[UserUp].fin
      BY <1>0, <1>2, <1>3, SixChannels DEF Others
    <3> QED
      BY <1>0, <1>2, <1>3, SixChannels, <1>7, <1>8, <1>9, <3>1, CalmBefore
      DEF ForwardingInductive
  <2>2. DownLost = 0 /\ DownChain BY <2>1 DEF ForwardingInductive
  <2>3. DownLost' = DownLost
    BY <1>0, <1>2, <1>3, SixChannels DEF Others, Numbers, DownLost, Held
  <2>4. DownChain'
    BY <1>0, <1>2, <1>3, SixChannels, <1>9, <2>1, <2>2, <2>3
    DEF Others, DownChain, GatewayDone, ClientDone, Eof, Numbers, Calm, ReadToEnd
  <2> QED BY <2>2, <2>3, <2>4
<1>10. ReadToEnd' => UpChain'
  BY <1>0, <1>2, <1>3, SixChannels
  DEF Others, ForwardingInductive, ReadToEnd, GoneEmpty, EndsClosed, UpChain,
      GatewayDone, ClientDone, Eof, Numbers
<1> QED BY <1>4, <1>5, <1>6, <1>7, <1>8, <1>9, <1>10 DEF ForwardingInductive

\* The service closes: before it has read all, or at the end of what is sent.
LEMMA Serves ==
  ASSUME ForwardingInductive, ServiceCloses
  PROVE  ForwardingInductive'
<1>0. chan \in Chans /\ Numbers BY Typed DEF ForwardingInductive
<1>1. LocalDown \in Channels /\ LocalUp \in Channels \ {LocalDown} BY SixChannels
<1>2. chan' \in Closes(chan, LocalDown, LocalUp)
  BY DEF ServiceCloses, LocalUp, LocalDown
<1>3. /\ chan' \in Chans /\ Others(chan, chan', {LocalUp, LocalDown})
      /\ chan'[LocalDown].fin /\ chan'[LocalDown].gone = chan[LocalDown].gone
      /\ chan'[LocalUp].gone /\ chan'[LocalUp].fin = chan[LocalUp].fin
      /\ chan'[LocalUp].n = 0
      /\ \/ chan'[LocalDown].n = chan[LocalDown].n
         \/ chan[LocalUp].n > 0 /\ chan'[LocalDown].n = 0
  <2>1. \A e \in Channels \ {LocalUp, LocalDown} : chan'[e] = chan[e]
    BY <1>0, <1>1, <1>2, ClosesEffect
  <2> QED BY <1>0, <1>1, <1>2, <2>1, ClosesEffect, Agree
<1>4. UNCHANGED <<quic, copier, ended, sent, got, cut>> BY DEF ServiceCloses
<1>5. /\ early' \in BOOLEAN /\ (early => early')
      /\ ~early' => Eof(LocalUp)
  <2>1. early' = (early \/ ~Eof(LocalUp)) BY DEF ServiceCloses, LocalUp
  <2> QED BY <2>1, Typed DEF ForwardingInductive
<1>6. ForwardingTypeOK' /\ Numbers'
  <2>1. ForwardingTypeOK'
    BY <1>0, <1>3, <1>4, <1>5, SixChannels
    DEF Others, ForwardingInductive, ForwardingTypeOK, Chans, Bridges
  <2> QED BY <2>1, TypedAfter
<1>7. GoneEmpty'
  BY <1>0, <1>3, <1>4, <1>5, SixChannels
  DEF Others, ForwardingInductive, GoneEmpty, Numbers
<1>8. EndsClosed'
  BY <1>0, <1>3, <1>4, <1>5, SixChannels
  DEF Others, ForwardingInductive, EndsClosed, GatewayDone, ClientDone
<1>9. UpLost' >= UpLost /\ DownLost' >= DownLost
  <2>1. UpLost' >= UpLost
    BY <1>0, <1>3, <1>4, <1>5, SixChannels DEF Others, Numbers, UpLost, Held
  <2>2. DownLost' >= DownLost
    BY <1>0, <1>3, <1>4, <1>5, SixChannels DEF Others, Numbers, DownLost, Held
  <2> QED BY <2>1, <2>2
<1>10. UpLost \in Nat /\ DownLost \in Nat /\ UpLost' \in Int /\ DownLost' \in Int
  BY <1>0, <1>6, LostNumbers, LostNumbersAfter DEF ForwardingInductive
<1>11. ASSUME Calm' PROVE DownLost' = 0 /\ DownChain'
  <2>1. Calm
    <3>1. chan[UserUp].fin => chan'[UserUp].fin
      BY <1>0, <1>3, <1>4, <1>5, SixChannels DEF Others
    <3> QED
      BY <1>0, <1>3, <1>4, <1>5, SixChannels, <1>9, <1>10, <1>11, <3>1,
         CalmBefore
      DEF ForwardingInductive
  <2>2. DownLost = 0 /\ DownChain BY <2>1 DEF ForwardingInductive
  <2>3. chan[LocalUp].n = 0
    <3>1. CASE ReadToEnd' BY <1>5, <3>1 DEF ReadToEnd, Eof
    <3>2. CASE ~ReadToEnd'
      <4>1. UpLost' = 0 BY <1>11, <3>2 DEF Calm
      <4>2. UpLost' = UpLost + chan[LocalUp].n
        BY <1>0, <1>3, <1>4, SixChannels DEF Others, Numbers, UpLost, Held
      <4> QED BY <1>0, <1>10, <4>1, <4>2 DEF Numbers
    <3> QED BY <3>1, <3>2
  <2>4. DownLost' = DownLost
    BY <1>0, <1>3, <1>4, <2>3, SixChannels DEF Others, Numbers, DownLost, Held
  <2>5. DownChain'
    BY <1>0, <1>3, <1>4, <1>5, SixChannels, <1>11, <2>1, <2>2, <2>4
    DEF Others, DownChain, GatewayDone, ClientDone, Eof, Numbers, Calm, ReadToEnd
  <2> QED BY <2>2, <2>4, <2>5
<1>12. ReadToEnd' => UpChain'
  BY <1>0, <1>3, <1>4, <1>5, SixChannels
  DEF Others, ForwardingInductive, ReadToEnd, GoneEmpty, EndsClosed, UpChain,
      GatewayDone, ClientDone, Eof, Numbers
<1> QED BY <1>6, <1>7, <1>8, <1>9, <1>10, <1>11, <1>12 DEF ForwardingInductive

LEMMA ForwardingInductiveInit == ForwardingInit => ForwardingInductive
<1> SUFFICES ASSUME ForwardingInit PROVE ForwardingInductive OBVIOUS
<1>0. 0 \in 0 .. Capacity /\ 0 \in 0 .. MaxSend BY ForwardingAssumption
<1>1. [n |-> 0, fin |-> FALSE, gone |-> FALSE]
        \in [n : 0 .. Capacity, fin : BOOLEAN, gone : BOOLEAN]
  BY <1>0
<1>2. /\ \A c \in Channels : chan[c] = [n |-> 0, fin |-> FALSE, gone |-> FALSE]
      /\ \A b \in Bridges, d \in Dirs : copier[b][d] = "read"
      /\ \A d \in Dirs : sent[d] = 0 /\ got[d] = 0
      /\ ended = {} /\ cut = FALSE
  BY DEF ForwardingInit
<1>3. ForwardingTypeOK BY <1>0, <1>1 DEF ForwardingInit, ForwardingTypeOK
<1>4. /\ chan[UserUp].n = 0 /\ ~chan[UserUp].fin /\ ~chan[UserUp].gone
      /\ chan[UserDown].n = 0 /\ ~chan[UserDown].fin /\ ~chan[UserDown].gone
      /\ chan[TunnelUp].n = 0 /\ ~chan[TunnelUp].fin /\ ~chan[TunnelUp].gone
      /\ chan[TunnelDown].n = 0 /\ ~chan[TunnelDown].fin /\ ~chan[TunnelDown].gone
      /\ chan[LocalUp].n = 0 /\ ~chan[LocalUp].fin /\ ~chan[LocalUp].gone
      /\ chan[LocalDown].n = 0 /\ ~chan[LocalDown].fin /\ ~chan[LocalDown].gone
  BY <1>2, SixChannels
<1>5. /\ copier["gateway"]["up"] = "read" /\ copier["gateway"]["down"] = "read"
      /\ copier["client"]["up"] = "read" /\ copier["client"]["down"] = "read"
      /\ sent["up"] = 0 /\ sent["down"] = 0 /\ got["up"] = 0 /\ got["down"] = 0
  BY <1>2, TwoWays
<1>6. GoneEmpty /\ EndsClosed
  BY <1>2, <1>4, <1>5 DEF GoneEmpty, EndsClosed, GatewayDone, ClientDone
<1>7. UpLost = 0 /\ DownLost = 0 BY <1>4, <1>5 DEF UpLost, DownLost, Held
<1>8. DownChain /\ UpChain
  BY <1>4, <1>5 DEF DownChain, UpChain, GatewayDone, ClientDone
<1> QED BY <1>3, <1>6, <1>7, <1>8 DEF ForwardingInductive

\* A copier's step takes or puts a buffer, loses it, or ends the copy.
LEMMA CopierSteps ==
  ASSUME ForwardingInductive, NEW b \in Bridges, NEW d \in Dirs, Read(b, d) \/ Write(b, d)
  PROVE  ForwardingInductive'
<1>1. PICK i \in Channels, o \in Channels : i = In(b, d) /\ o = Out(b, d)
  BY Routes, SixChannels, TwoWays
<1>2. UNCHANGED <<quic, ended, sent, got, cut, early>> BY DEF Read, Write
<1>3. \/ /\ copier[b][d] = "read" /\ chan[i].n > 0
         /\ chan' = Taken(i) /\ copier' = [copier EXCEPT ![b][d] = "write"]
      \/ /\ copier[b][d] = "write" /\ ~Broken(o) /\ chan[o].n < Capacity
         /\ chan' = Put(o) /\ copier' = [copier EXCEPT ![b][d] = "read"]
      \/ /\ copier[b][d] = "write" /\ chan[o].gone /\ ~chan[o].fin
         /\ copier' = [copier EXCEPT ![b][d] = "read"] /\ UNCHANGED chan
      \/ Ends(b, d) /\ EndCopy(b, d)
  <2>1. chan[i].n \in Nat BY Typed DEF ForwardingInductive
  <2> QED BY <1>1, <2>1 DEF Read, Write, Broken, Eof, Ends
<1>4. cut' \in BOOLEAN /\ (cut => cut') BY <1>2, Typed DEF ForwardingInductive
<1>5. CASE Ends(b, d) /\ EndCopy(b, d)
  <2>1. EndStep(b, d) BY <1>2, <1>4, <1>5 DEF EndStep
  <2> QED
    BY <2>1, TwoWays, GatewayUpEnds, GatewayDownEnds, ClientUpEnds,
       ClientDownEnds
<1> QED BY <1>1, <1>2, <1>3, <1>5, TakesBuffer, PutsBuffer, LosesBuffer

LEMMA ForwardingInductiveNext ==
  ForwardingInductive /\ [ForwardingNext]_forwardingVars => ForwardingInductive'
<1> SUFFICES ASSUME ForwardingInductive, [ForwardingNext]_forwardingVars
             PROVE  ForwardingInductive'
  OBVIOUS
<1>1. ASSUME NEW b \in Bridges, Return(b) PROVE ForwardingInductive'
  BY <1>1, TwoWays, GatewayReturns, ClientReturns
<1>2. ASSUME NEW b \in Bridges, NEW d \in Dirs, Read(b, d) \/ Write(b, d)
      PROVE  ForwardingInductive'
  BY <1>2, CopierSteps
<1>3. ASSUME NEW d \in Dirs, IdleRead(d) PROVE ForwardingInductive'
  <2>1. EndStep("gateway", d) BY <1>3 DEF IdleRead, EndStep, Ends
  <2> QED BY <2>1, TwoWays, GatewayUpEnds, GatewayDownEnds
<1>4. ASSUME NEW d \in Dirs, Send(d) \/ Receive(d) PROVE ForwardingInductive'
  BY <1>4, Sends, Receives
<1>5. CASE CloseSession BY <1>5, GatewayReturns
<1>6. CASE TunnelBreaks BY <1>6, Breaks
<1>7. CASE UserShuts BY <1>7, Shuts
<1>8. CASE UserQuits BY <1>8, Quits
<1>9. CASE ServiceCloses BY <1>9, Serves
<1>10. CASE UNCHANGED forwardingVars
  BY <1>10
  DEF forwardingVars, ForwardingInductive, ForwardingTypeOK, GoneEmpty,
      EndsClosed, Calm, ReadToEnd, DownChain, UpChain, GatewayDone, ClientDone,
      UpLost, DownLost, Held, Eof
<1> QED
  BY <1>1, <1>2, <1>3, <1>4, <1>5, <1>6, <1>7, <1>8, <1>9, <1>10 DEF ForwardingNext

-----------------------------------------------------------------------------
\* No more is received, or on its way, than was sent, and what a copy closes
\* when it ends stays closed (streambridge.Bridge and the client's bridge).
THEOREM ForwardingInvariant == ForwardingSpec => []ForwardingInductive
BY ForwardingInductiveInit, ForwardingInductiveNext, PTL DEF ForwardingSpec

\* A user that reads on to the end of a session that nothing cut short has got
\* everything the service sent: over QUIC even if it shut its sending side, over
\* TCP if it did not and all it sent has arrived (DownloadComplete).
THEOREM ForwardingDownloadComplete == ForwardingSpec => []DownloadComplete
<1>1. ForwardingInductive => DownloadComplete
  <2> SUFFICES ASSUME ForwardingInductive,
                      Eof(UserDown), ~cut,
                      \/ quic /\ ~early
                      \/ ~chan[UserUp].fin /\ got["up"] = sent["up"]
               PROVE  got["down"] = sent["down"]
    BY DEF DownloadComplete, UserDown, UserUp
  <2>0. Numbers BY Typed DEF ForwardingInductive
  <2>1. Calm
    BY <2>0 DEF Calm, ReadToEnd, ForwardingInductive, Numbers, UpLost, Held
  <2>2. DownLost = 0 /\ DownChain BY <2>1 DEF ForwardingInductive
  <2>3. GatewayDone("down") /\ Eof(TunnelDown) /\ ClientDone("down") /\ Eof(LocalDown)
    BY <2>2 DEF DownChain, Eof
  <2> QED
    BY <2>0, <2>2, <2>3
    DEF DownLost, Held, Eof, Numbers, GatewayDone, ClientDone
<1> QED BY <1>1, ForwardingInvariant, PTL

-----------------------------------------------------------------------------
(* Sessions.                                                                 *)

\* No stream is open before OpenTCPStream or once the session is over, and the
\* SSH and TCP gateways close it before they release the permit.
StreamsOpen ==
  \A s \in SessionIds : s \in upstream =>
    /\ pc[s] \notin {"new", "permit", "done", "dead"}
    /\ KindOf[s] # "http" => /\ pc[s] \notin {"opening", "release"}
                             /\ pc[s] = "mark" => reason[s] # "open_tunnel_failed"

WithinTotal == MaxTotal > 0 => total <= MaxTotal
WithinDevice == MaxDevice > 0 => \A d \in Devices : byDevice[d] <= MaxDevice

Inductive ==
  /\ TypeOK /\ PermitsConserved /\ StreamsOpen
  /\ WithinTotal /\ WithinDevice

USE SessionsAssumption, LimitsAssumption

-----------------------------------------------------------------------------
(* Types. *)

LEMMA TypeInit == Init => TypeOK
<1> SUFFICES ASSUME Init PROVE TypeOK OBVIOUS
<1>1. Idle \in AdminState BY DEF Idle, AdminState
<1>2. NoRow \in [status : {"none", "open", "closed"}, force : BOOLEAN, reason : Reasons]
  BY DEF NoRow, Reasons
<1>3. /\ pc \in [SessionIds -> Stages] /\ reason \in [SessionIds -> Reasons]
      /\ admin \in [Admins -> AdminState]
  BY <1>1 DEF Init, Stages, Reasons
<1>4. total \in Nat /\ byDevice \in [Devices -> Nat]
  BY DEF Init
<1>5. hits = 0 /\ requests = 0 /\ crashes = 0 BY DEF Init
<1>6. /\ hits \in 0 .. RateLimit
      /\ requests \in 0 .. MaxRequests /\ crashes \in 0 .. MaxCrashes
  BY <1>5
<1> QED BY <1>2, <1>3, <1>4, <1>6 DEF Init, TypeOK

LEMMA TypeHits == TypeOK /\ HitExpires => TypeOK'
  BY DEF TypeOK, HitExpires, registry, bounds, history

LEMMA TypePolicy ==
  ASSUME TypeOK, NEW s \in SessionIds, Acquire(s) \/ Release(s)
  PROVE  TypeOK'
<1>0. /\ total \in Nat /\ byDevice \in [Devices -> Nat] /\ hits \in 0 .. RateLimit
      /\ DeviceOf[s] \in Devices /\ pc \in [SessionIds -> Stages]
  BY DEF TypeOK
<1>1. CASE Acquire(s)
  <2>1. /\ total' \in Nat /\ byDevice' \in [Devices -> Nat]
        /\ hits' \in 0 .. RateLimit
    BY <1>0, <1>1 DEF Acquire, WithinRate
  <2>2. pc' \in [SessionIds -> Stages]
    BY <1>0, <1>1 DEF Acquire, Stages, Opening
  <2> QED BY <1>1, <2>1, <2>2 DEF TypeOK, Acquire, registry, bounds, history
<1>2. CASE Release(s)
  <2>0. Released(DeviceOf[s]) BY <1>2 DEF Release
  <2>1. total' \in Nat BY <1>0, <2>0 DEF Released
  <2>2. byDevice' \in [Devices -> Nat] BY <1>0, <2>0 DEF Released
  <2>3. pc' \in [SessionIds -> Stages]
    BY <1>0, <1>2 DEF Release, Stages, Finalizing
  <2> QED BY <1>2, <2>1, <2>2, <2>3
          DEF TypeOK, Release, Released, Reasons, registry, bounds, history
<1> QED BY <1>1, <1>2

LEMMA TypeHandler ==
  ASSUME TypeOK, NEW s \in SessionIds, Handler(s) \/ Stalls(s) \/ StreamEnds(s)
  PROVE  TypeOK'
<1>0. /\ rows[s] \in [status : {"none", "open", "closed"}, force : BOOLEAN,
                      reason : Reasons]
      /\ reason[s] \in Reasons
  BY DEF TypeOK
<1> USE DEF TypeOK, Stages, Opening, Bridged, Finalizing, Reasons, policy, registry, bounds, history
<1>1. CASE CreateRow(s) BY <1>1 DEF CreateRow, NewRow, NoRow
<1>2. CASE OpenSucceeds(s) BY <1>2 DEF OpenSucceeds
<1>3. CASE OpenFails(s) BY <1>3 DEF OpenFails
<1>4. CASE RegisterSession(s) BY <1>4 DEF RegisterSession
<1>5. CASE AnswerConnect(s) BY <1>5 DEF AnswerConnect
<1>6. CASE ConsumeForceClosed(s) BY <1>6 DEF ConsumeForceClosed
<1>7. CASE MarkSessionClosed(s)
  <2>1. [rows[s] EXCEPT !.status = "closed", !.reason = reason[s]]
          \in [status : {"none", "open", "closed"}, force : BOOLEAN, reason : Reasons]
    BY <1>0 DEF Reasons
  <2>2. rows' = [rows EXCEPT ![s] =
                   [rows[s] EXCEPT !.status = "closed", !.reason = reason[s]]]
    BY <1>7 DEF MarkSessionClosed
  <2> QED BY <1>7, <2>1, <2>2 DEF MarkSessionClosed
<1>8. CASE UnregisterSession(s) BY <1>8 DEF UnregisterSession
<1>9. CASE CloseUpstream(s) BY <1>9 DEF CloseUpstream
<1>10. CASE Release(s) BY <1>10, TypePolicy
<1>11. CASE StreamEnds(s) BY <1>11 DEF StreamEnds, CloseConn, Closed
<1>12. CASE Stalls(s) BY <1>12 DEF Stalls, Block, Unblock
<1> QED BY <1>1, <1>2, <1>3, <1>4, <1>5, <1>6, <1>7, <1>8, <1>9, <1>10, <1>11,
           <1>12 DEF Handler

\* What the administrator's steps store in its goroutine's state.
LEMMA AdminTypes ==
  ASSUME TypeOK, NEW a \in Admins
  PROVE  /\ Idle \in AdminState
         /\ Advanced(a) \in [Admins -> AdminState]
         /\ [admin EXCEPT ![a].at = "wait"] \in [Admins -> AdminState]
         /\ [admin EXCEPT ![a] = Idle] \in [Admins -> AdminState]
<1>1. Idle \in AdminState BY DEF Idle, AdminState
<1>2. admin[a] \in AdminState BY DEF TypeOK
<1>3. /\ [admin[a] EXCEPT !.at = "take", !.cur = NoSession] \in AdminState
      /\ [admin[a] EXCEPT !.at = "wait"] \in AdminState
  BY <1>2 DEF AdminState
<1>4. Advanced(a) = [admin EXCEPT ![a] =
                       [admin[a] EXCEPT !.at = "take", !.cur = NoSession]]
  BY DEF Advanced, TypeOK
<1>5. [admin EXCEPT ![a].at = "wait"] =
        [admin EXCEPT ![a] = [admin[a] EXCEPT !.at = "wait"]]
  BY DEF TypeOK
<1> QED BY <1>1, <1>3, <1>4, <1>5 DEF TypeOK

LEMMA TypeAsk ==
  ASSUME TypeOK, NEW a \in Admins,
         \/ \E s \in SessionIds : AskClose(a, s)
         \/ \E d \in Devices : AskDelete(a, d)
  PROVE  TypeOK'
<1>1. PICK d \in Devices \cup {NoDevice}, asked \in SUBSET SessionIds : Ask(a, d, asked)
  BY DEF AskClose, AskDelete, OpenRows
<1>2. admin' \in [Admins -> AdminState]
  BY <1>1 DEF Ask, TypeOK, AdminState, Idle
<1> QED BY <1>1, <1>2 DEF Ask, TypeOK, policy, registry, history

LEMMA TypeAdministrator ==
  ASSUME TypeOK, NEW a \in Admins, Administrator(a)
  PROVE  TypeOK'
<1>0. /\ Idle \in AdminState
      /\ Advanced(a) \in [Admins -> AdminState]
      /\ [admin EXCEPT ![a].at = "wait"] \in [Admins -> AdminState]
      /\ [admin EXCEPT ![a] = Idle] \in [Admins -> AdminState]
  BY AdminTypes
<1> USE DEF TypeOK, policy, registry, bounds, history
<1>1. ASSUME NEW s \in SessionIds, TakeClosers(a, s) PROVE TypeOK'
  <2>1. admin' \in [Admins -> AdminState]
    <3>1. admin[a] \in AdminState OBVIOUS
    <3>2. CASE s \in registered
      <4>1. admin' = [admin EXCEPT ![a] = [admin[a] EXCEPT !.todo = @ \ {s}, !.cur = s,
                                             !.at = "close", !.found = TRUE]]
        BY <1>1, <3>2 DEF TakeClosers
      <4>2. [admin[a] EXCEPT !.todo = @ \ {s}, !.cur = s, !.at = "close",
                             !.found = TRUE] \in AdminState
        BY <3>1 DEF AdminState
      <4> QED BY <4>1, <4>2
    <3>3. CASE s \notin registered
      <4>1. admin' = [admin EXCEPT ![a] = [admin[a] EXCEPT !.todo = @ \ {s},
                                             !.cur = NoSession, !.at = "take",
                                             !.found = FALSE]]
        <5>1. (s \in registered) = FALSE BY <3>3
        <5> QED BY <1>1, <5>1 DEF TakeClosers
      <4>2. [admin[a] EXCEPT !.todo = @ \ {s}, !.cur = NoSession, !.at = "take",
                             !.found = FALSE] \in AdminState
        BY <3>1 DEF AdminState
      <4> QED BY <4>1, <4>2
    <3> QED BY <3>2, <3>3
  <2> QED BY <1>1, <2>1 DEF TakeClosers, Marked
<1>2. CASE RunClosers(a)
  <2>1. admin[a].cur \in SessionIds \cup {NoSession} BY DEF AdminState
  <2>2. admin' \in [Admins -> AdminState]
    <3>1. \/ admin' = [admin EXCEPT ![a].at = "wait"]
          \/ admin' = Advanced(a)
      BY <1>2 DEF RunClosers
    <3> QED BY <1>0, <3>1
  <2>3. upstream' \subseteq SessionIds BY <1>2 DEF RunClosers, Closed
  <2>4. pc' \in [SessionIds -> Stages]
    BY <1>2, <2>1 DEF RunClosers, CloseConn, Stages, Opening, Finalizing
  <2> QED BY <1>2, <2>2, <2>3, <2>4 DEF RunClosers
<1>3. CASE CloserReturns(a) BY <1>0, <1>3 DEF CloserReturns
<1>4. CASE UpdateRows(a)
  <2>1. rows' \in [SessionIds -> [status : {"none", "open", "closed"},
                                  force : BOOLEAN, reason : Reasons]]
    BY <1>4 DEF UpdateRows, ForceClosed, Reasons
  <2>2. missed' \subseteq SessionIds
    BY <1>4 DEF UpdateRows, Updated, OpenRows, AdminState
  <2> QED BY <1>0, <1>4, <2>1, <2>2 DEF UpdateRows
<1> QED BY <1>1, <1>2, <1>3, <1>4 DEF Administrator

LEMMA TypeCrash == TypeOK /\ Crash => TypeOK'
<1> SUFFICES ASSUME TypeOK, Crash PROVE TypeOK' OBVIOUS
<1>1. admin' \in [Admins -> AdminState]
  BY DEF Crash, Idle, AdminState
<1>2. pc' \in [SessionIds -> Stages] BY DEF Crash, TypeOK, Stages
<1>3. /\ reason' \in [SessionIds -> Reasons] /\ rows' = rows
      /\ upstream' = {} /\ registered' = {} /\ forcedMarker' = {}
      /\ requests' = requests /\ forced' = forced /\ missed' = {}
  BY DEF Crash, Reasons
<1>4. total' = 0 /\ byDevice' = [d \in Devices |-> 0] /\ hits' = 0 BY DEF Crash
<1>5. crashes' \in 0 .. MaxCrashes
  <2>1. crashes \in 0 .. MaxCrashes /\ crashes < MaxCrashes /\ crashes' = crashes + 1
    BY DEF Crash, TypeOK
  <2> QED BY <2>1
<1>6. byDevice' \in [Devices -> Nat] /\ total' \in Nat /\ hits' \in 0 .. RateLimit
  BY <1>4
<1> QED BY <1>1, <1>2, <1>3, <1>5, <1>6 DEF TypeOK

LEMMA TypeStep == TypeOK /\ [Next]_vars => TypeOK'
<1> SUFFICES ASSUME TypeOK, [Next]_vars PROVE TypeOK' OBVIOUS
<1>1. CASE UNCHANGED vars
  BY <1>1 DEF TypeOK, vars, policy, registry, bounds, history
<1> QED
  BY <1>1, TypeHits, TypePolicy, TypeHandler, TypeAsk, TypeAdministrator,
     TypeCrash
  DEF Next

\* Types, and the rate limit: never more hits in the window than it allows
\* (RuntimePolicy.Acquire).
THEOREM TypeCorrect == Spec => []TypeOK
<1>1. Init => TypeOK BY TypeInit
<1>2. TypeOK /\ [Next]_vars => TypeOK' BY TypeStep
<1> QED BY <1>1, <1>2, PTL DEF Spec

-----------------------------------------------------------------------------
(* Permits. *)

LEMMA HoldersFinite ==
  /\ IsFiniteSet(Holders) /\ Cardinality(Holders) \in Nat
  /\ \A d : IsFiniteSet(Holders \cap On(d)) /\ Cardinality(Holders \cap On(d)) \in Nat
  BY FS_Subset, FS_CardinalityType DEF Holders, On

LEMMA Kept ==
  ASSUME PermitsConserved, WithinTotal, WithinDevice,
         UNCHANGED <<total, byDevice>>, Holders' = Holders
  PROVE  PermitsConserved' /\ WithinTotal' /\ WithinDevice'
  BY DEF PermitsConserved, WithinTotal, WithinDevice, On

\* Every step of a handler but the first and the last keeps the permit.
LEMMA HandlerHolders ==
  ASSUME TypeOK, NEW s \in SessionIds, Handler(s) \/ Stalls(s) \/ StreamEnds(s), ~Release(s)
  PROVE  Holders' = Holders /\ UNCHANGED <<total, byDevice>>
<1> SUFFICES (\A t \in SessionIds : HoldsPermit(t)' <=> HoldsPermit(t))
             /\ UNCHANGED <<total, byDevice>>
  BY DEF Holders
<1>0. pc \in [SessionIds -> Stages] BY DEF TypeOK
<1> USE DEF HoldsPermit, Opening, Bridged, Finalizing, policy
<1>1. CASE CreateRow(s) BY <1>0, <1>1 DEF CreateRow, NewRow
<1>2. CASE OpenSucceeds(s) BY <1>0, <1>2 DEF OpenSucceeds, AtOpen
<1>3. CASE OpenFails(s) BY <1>0, <1>3 DEF OpenFails, AtOpen
<1>4. CASE RegisterSession(s) BY <1>0, <1>4 DEF RegisterSession
<1>5. CASE AnswerConnect(s) BY <1>0, <1>5 DEF AnswerConnect
<1>6. CASE ConsumeForceClosed(s) BY <1>0, <1>6 DEF ConsumeForceClosed
<1>7. CASE MarkSessionClosed(s) BY <1>0, <1>7 DEF MarkSessionClosed
<1>8. CASE UnregisterSession(s) BY <1>0, <1>8 DEF UnregisterSession
<1>9. CASE CloseUpstream(s) BY <1>0, <1>9 DEF CloseUpstream
<1>10. CASE StreamEnds(s) BY <1>0, <1>10 DEF StreamEnds, CloseConn
<1>11. CASE Stalls(s) BY <1>0, <1>11 DEF Stalls, Block, Unblock
<1> QED BY <1>1, <1>2, <1>3, <1>4, <1>5, <1>6, <1>7, <1>8, <1>9, <1>10, <1>11 DEF Handler

LEMMA AdministratorHolders ==
  ASSUME TypeOK, NEW a \in Admins, Administrator(a)
  PROVE  Holders' = Holders /\ UNCHANGED <<total, byDevice>>
<1>1. CASE RunClosers(a) /\ KindOf[admin[a].cur] = "http" /\ pc[admin[a].cur] = "bridge"
  <2>1. /\ pc \in [SessionIds -> Stages]
        /\ pc' = [pc EXCEPT ![admin[a].cur] = "ended"]
        /\ pc[admin[a].cur] = "bridge" /\ UNCHANGED policy
    BY <1>1 DEF TypeOK, RunClosers, CloseConn
  <2> QED BY <2>1 DEF Holders, HoldsPermit, Opening, Bridged, Finalizing, policy
<1>2. CASE UNCHANGED pc /\ UNCHANGED policy
  BY <1>2 DEF Holders, HoldsPermit, policy
<1> QED BY <1>1, <1>2 DEF Administrator, TakeClosers, RunClosers, CloserReturns,
           UpdateRows, policy

LEMMA AcquireCounts ==
  ASSUME TypeOK, PermitsConserved, WithinTotal, WithinDevice,
         NEW s \in SessionIds, Acquire(s)
  PROVE  PermitsConserved' /\ WithinTotal' /\ WithinDevice'
<1> DEFINE d == DeviceOf[s]
<1>0. /\ pc \in [SessionIds -> Stages] /\ d \in Devices
      /\ total \in Nat /\ byDevice \in [Devices -> Nat]
  BY DEF TypeOK
<1>1. pc[s] = "new" /\ s \notin Holders
  BY DEF Acquire, Holders, HoldsPermit, Opening, Bridged, Finalizing
<1>2. CASE WithinRate /\ WithinLimits(d)
  <2>1. /\ pc' = [pc EXCEPT ![s] = "permit"] /\ total' = total + 1
        /\ byDevice' = [byDevice EXCEPT ![d] = @ + 1] /\ WithinLimits(d)
    BY <1>2 DEF Acquire
  <2>2. Holders' = Holders \cup {s}
    BY <1>0, <1>1, <2>1 DEF Holders, HoldsPermit, Opening, Bridged, Finalizing
  <2>3. total' = Cardinality(Holders')
    BY <1>1, <2>1, <2>2, HoldersFinite, FS_AddElement DEF PermitsConserved
  <2>4. ASSUME NEW e \in Devices PROVE byDevice'[e] = Cardinality(Holders' \cap On(e))
    <3>1. CASE e = d
      <4>1. Holders' \cap On(e) = (Holders \cap On(e)) \cup {s} BY <2>2, <3>1 DEF On
      <4>2. s \notin Holders \cap On(e) BY <1>1
      <4>3. Cardinality(Holders' \cap On(e)) = Cardinality(Holders \cap On(e)) + 1
        BY <4>1, <4>2, HoldersFinite, FS_AddElement
      <4> QED BY <1>0, <2>1, <3>1, <4>3 DEF PermitsConserved
    <3>2. CASE e # d
      <4>1. Holders' \cap On(e) = Holders \cap On(e) BY <2>2, <3>2 DEF On
      <4> QED BY <1>0, <2>1, <3>2, <4>1 DEF PermitsConserved
    <3> QED BY <3>1, <3>2
  <2>5. WithinTotal' BY <1>0, <2>1 DEF WithinTotal, WithinLimits
  <2>6. WithinDevice' BY <1>0, <2>1 DEF WithinDevice, WithinLimits
  <2> QED BY <2>3, <2>4, <2>5, <2>6 DEF PermitsConserved, On
<1>3. CASE ~(WithinRate /\ WithinLimits(d))
  <2>1. pc' = [pc EXCEPT ![s] = "done"] /\ UNCHANGED <<total, byDevice>>
    BY <1>3 DEF Acquire
  <2>2. Holders' = Holders
    BY <1>0, <1>1, <2>1 DEF Holders, HoldsPermit, Opening, Bridged, Finalizing
  <2> QED BY <2>1, <2>2, Kept
<1> QED BY <1>2, <1>3

LEMMA ReleaseCounts ==
  ASSUME Inductive, NEW s \in SessionIds, Release(s)
  PROVE  PermitsConserved' /\ WithinTotal' /\ WithinDevice'
<1> DEFINE d == DeviceOf[s]
<1>0. /\ pc \in [SessionIds -> Stages] /\ d \in Devices
      /\ total \in Nat /\ byDevice \in [Devices -> Nat]
  BY DEF Inductive, TypeOK
<1>1. /\ pc[s] = "release" /\ Released(d)
      /\ pc' = [pc EXCEPT ![s] = IF s \in upstream THEN "closeUpstream" ELSE "done"]
      /\ s \in Holders /\ s \in On(d)
  BY DEF Release, Holders, HoldsPermit, Finalizing, On
<1>2. s \in upstream => KindOf[s] = "http"
  BY <1>1 DEF Inductive, StreamsOpen
<1>3. Holders' = Holders \ {s}
  BY <1>0, <1>1, <1>2 DEF Holders, HoldsPermit, Opening, Bridged, Finalizing
<1>4. /\ Cardinality(Holders') = Cardinality(Holders) - 1
      /\ Cardinality(Holders) > 0
  BY <1>1, <1>3, HoldersFinite, FS_RemoveElement, FS_EmptySet
<1>5. total' = total - 1 /\ total' = Cardinality(Holders')
  BY <1>0, <1>1, <1>4 DEF Inductive, PermitsConserved, Released
<1>6. Holders' \cap On(d) = (Holders \cap On(d)) \ {s} BY <1>3
<1>7. /\ Cardinality(Holders' \cap On(d)) = Cardinality(Holders \cap On(d)) - 1
      /\ Cardinality(Holders \cap On(d)) > 0
  <2> DEFINE S == Holders \cap On(d)
  <2>1. s \in S /\ IsFiniteSet(S) /\ Cardinality(S) \in Nat BY <1>1, HoldersFinite
  <2>2. S # {} BY <2>1
  <2> HIDE DEF S
  <2>3. Cardinality(S \ {s}) = Cardinality(S) - 1 BY <2>1, FS_RemoveElement
  <2>4. Cardinality(S) # 0 BY <2>1, <2>2, FS_EmptySet
  <2> QED BY <1>6, <2>1, <2>3, <2>4 DEF S
<1>8. ASSUME NEW e \in Devices
      PROVE  byDevice'[e] = Cardinality(Holders' \cap On(e)) /\ byDevice'[e] <= byDevice[e]
  <2>1. CASE e = d
    BY <1>0, <1>1, <1>7, <2>1 DEF Inductive, PermitsConserved, Released
  <2>2. CASE e # d
    <3>1. Holders' \cap On(e) = Holders \cap On(e) BY <1>3, <2>2 DEF On
    <3> QED BY <1>0, <1>1, <2>2, <3>1 DEF Inductive, PermitsConserved, Released
  <2> QED BY <2>1, <2>2
<1>9. PermitsConserved' BY <1>5, <1>8 DEF PermitsConserved, On
<1>10. WithinTotal' BY <1>0, <1>5 DEF Inductive, WithinTotal
<1>11. byDevice' \in [Devices -> Nat] BY <1>0, <1>1 DEF Released
<1>12. WithinDevice'
  <2>1. ASSUME MaxDevice > 0, NEW e \in Devices PROVE byDevice'[e] <= MaxDevice
    <3>1. byDevice[e] <= MaxDevice BY <2>1 DEF Inductive, WithinDevice
    <3>2. byDevice'[e] <= byDevice[e] BY <1>8
    <3>3. byDevice[e] \in Nat /\ byDevice'[e] \in Nat BY <1>0, <1>11
    <3> QED BY <3>1, <3>2, <3>3
  <2> QED BY <2>1 DEF WithinDevice
<1> QED BY <1>9, <1>10, <1>12

-----------------------------------------------------------------------------
(* Streams. *)

LEMMA HandlerStreams ==
  ASSUME Inductive, NEW s \in SessionIds, Acquire(s) \/ Handler(s) \/ Stalls(s) \/ StreamEnds(s)
  PROVE  StreamsOpen'
<1>0. /\ pc \in [SessionIds -> Stages] /\ reason \in [SessionIds -> Reasons]
      /\ StreamsOpen
  BY DEF Inductive, TypeOK
<1> USE <1>0 DEF StreamsOpen
<1>1. CASE Acquire(s) BY <1>1 DEF Acquire
<1>2. CASE CreateRow(s) BY <1>2 DEF CreateRow, NewRow
<1>3. CASE OpenSucceeds(s) BY <1>3 DEF OpenSucceeds
<1>4. CASE OpenFails(s) BY <1>4 DEF OpenFails, AtOpen
<1>5. CASE RegisterSession(s) BY <1>5 DEF RegisterSession
<1>6. CASE AnswerConnect(s) BY <1>6 DEF AnswerConnect
<1>7. CASE ConsumeForceClosed(s) BY <1>7 DEF ConsumeForceClosed
<1>8. CASE MarkSessionClosed(s) BY <1>8 DEF MarkSessionClosed
<1>9. CASE UnregisterSession(s) BY <1>9 DEF UnregisterSession
<1>10. CASE CloseUpstream(s) BY <1>10 DEF CloseUpstream
<1>11. CASE Release(s) BY <1>11 DEF Release
<1>12. CASE StreamEnds(s) BY <1>12 DEF StreamEnds, CloseConn, Closed
<1>13. CASE Stalls(s) BY <1>13 DEF Stalls, Block, Unblock
<1> QED BY <1>1, <1>2, <1>3, <1>4, <1>5, <1>6, <1>7, <1>8, <1>9, <1>10, <1>11,
           <1>12, <1>13 DEF Handler

LEMMA AdministratorStreams ==
  ASSUME Inductive, NEW a \in Admins, Administrator(a)
  PROVE  StreamsOpen'
<1>0. pc \in [SessionIds -> Stages] /\ StreamsOpen
  BY DEF Inductive, TypeOK
<1>1. CASE RunClosers(a)
  <2>1. /\ upstream' \subseteq upstream /\ UNCHANGED reason
        /\ \/ pc' = [pc EXCEPT ![admin[a].cur] = "ended"]
           \/ UNCHANGED pc
    BY <1>1 DEF RunClosers, Closed, CloseConn
  <2> QED BY <1>0, <2>1 DEF StreamsOpen
<1>2. CASE UNCHANGED <<pc, upstream, reason>>
  BY <1>0, <1>2 DEF StreamsOpen
<1> QED BY <1>1, <1>2 DEF Administrator, TakeClosers, CloserReturns, UpdateRows

LEMMA InductiveInit == Init => Inductive
<1> SUFFICES ASSUME Init PROVE Inductive OBVIOUS
<1>1. Holders = {}
  BY DEF Init, Holders, HoldsPermit, Opening, Bridged, Finalizing
<1>2. total = 0 /\ byDevice = [d \in Devices |-> 0] BY DEF Init
<1>3. PermitsConserved BY <1>1, <1>2, FS_EmptySet DEF PermitsConserved
<1>4. WithinTotal /\ WithinDevice BY <1>2 DEF WithinTotal, WithinDevice
<1>5. StreamsOpen BY DEF Init, StreamsOpen
<1> QED BY <1>3, <1>4, <1>5, TypeInit DEF Inductive

LEMMA InductiveStep == Inductive /\ [Next]_vars => Inductive'
<1> SUFFICES ASSUME Inductive, [Next]_vars PROVE Inductive' OBVIOUS
<1>0. TypeOK /\ PermitsConserved /\ WithinTotal /\ WithinDevice /\ StreamsOpen
  BY DEF Inductive
<1>1. TypeOK' BY <1>0, TypeStep
<1>2. ASSUME NEW s \in SessionIds, Acquire(s) \/ Handler(s) \/ Stalls(s) \/ StreamEnds(s)
      PROVE  Inductive'
  <2>1. StreamsOpen' BY <1>2, HandlerStreams
  <2>2. CASE Acquire(s) BY <1>0, <1>1, <2>1, <2>2, AcquireCounts DEF Inductive
  <2>3. CASE Release(s) BY <1>1, <2>1, <2>3, ReleaseCounts DEF Inductive
  <2>4. CASE ~Release(s) /\ (Handler(s) \/ Stalls(s) \/ StreamEnds(s))
    BY <1>0, <1>1, <2>1, <2>4, HandlerHolders, Kept DEF Inductive
  <2> QED BY <1>2, <2>2, <2>3, <2>4 DEF Handler
<1>3. ASSUME NEW a \in Admins, Administrator(a) PROVE Inductive'
  BY <1>0, <1>1, <1>3, AdministratorHolders, AdministratorStreams, Kept
  DEF Inductive
<1>4. CASE UNCHANGED <<pc, upstream, reason, total, byDevice>>
  <2>1. Holders' = Holders
    BY <1>4 DEF Holders, HoldsPermit, Opening, Bridged, Finalizing
  <2>2. StreamsOpen' BY <1>0, <1>4 DEF StreamsOpen
  <2> QED BY <1>0, <1>1, <1>4, <2>1, <2>2, Kept DEF Inductive
<1>5. CASE Crash
  <2>1. /\ upstream' = {} /\ total' = 0 /\ byDevice' = [d \in Devices |-> 0]
        /\ pc' = [s \in SessionIds |-> IF pc[s] \in {"new", "done"} THEN pc[s] ELSE "dead"]
    BY <1>5 DEF Crash
  <2>2. Holders' = {} BY <2>1 DEF Holders, HoldsPermit, Opening, Bridged, Finalizing
  <2>3. PermitsConserved' BY <2>1, <2>2, FS_EmptySet DEF PermitsConserved
  <2>4. WithinTotal' /\ WithinDevice' BY <2>1 DEF WithinTotal, WithinDevice
  <2>5. StreamsOpen' BY <2>1 DEF StreamsOpen
  <2> QED BY <1>1, <2>3, <2>4, <2>5 DEF Inductive
<1>6. CASE HitExpires BY <1>4, <1>6 DEF HitExpires
<1>7. CASE UNCHANGED vars BY <1>4, <1>7 DEF vars, policy
<1>8. ASSUME NEW a \in Admins, \/ \E s \in SessionIds : AskClose(a, s)
                               \/ \E d \in Devices : AskDelete(a, d)
      PROVE  Inductive'
  BY <1>4, <1>8 DEF AskClose, AskDelete, Ask, policy
<1> QED BY <1>2, <1>3, <1>5, <1>6, <1>7, <1>8 DEF Next

\* The counters of the policy are its holders, and a stream is open only where
\* its handler holds a permit or is past giving it back.
THEOREM Invariance == Spec => []Inductive
<1> QED BY InductiveInit, InductiveStep, PTL DEF Spec

\* Every permit is given back exactly once, whichever way each of any number
\* of sessions ends (Acquire and Release of RuntimePolicy, the finalizers of
\* the three gateways).
THEOREM PermitsGivenBack == Spec => []PermitsConserved
<1>1. Inductive => PermitsConserved BY DEF Inductive
<1> QED BY <1>1, Invariance, PTL

\* The streams open to the devices respect the limits of the runtime policy.
THEOREM LimitsRespected == Spec => []StreamsWithinLimits
<1>1. Inductive => StreamsWithinLimits
  <2> SUFFICES ASSUME Inductive PROVE StreamsWithinLimits OBVIOUS
  <2>0. /\ pc \in [SessionIds -> Stages] /\ upstream \subseteq SessionIds
        /\ StreamsOpen /\ PermitsConserved
    BY DEF Inductive, TypeOK
  <2>1. Streams \subseteq Holders
    BY <2>0
    DEF StreamsOpen, Streams, Holders, HoldsPermit, Stages, Opening, Bridged, Finalizing
  <2>2. ASSUME MaxTotal > 0 PROVE Cardinality(Streams) <= MaxTotal
    <3>1. Cardinality(Streams) <= Cardinality(Holders) /\ Cardinality(Streams) \in Nat
      BY <2>1, HoldersFinite, FS_Subset, FS_CardinalityType
    <3>2. total <= MaxTotal /\ total = Cardinality(Holders)
      BY <2>0, <2>2 DEF Inductive, WithinTotal, PermitsConserved
    <3> QED BY <3>1, <3>2, HoldersFinite
  <2>3. ASSUME MaxDevice > 0, NEW d \in Devices
        PROVE  Cardinality(Streams \cap On(d)) <= MaxDevice
    <3> DEFINE S == Streams \cap On(d)  H == Holders \cap On(d)
    <3>1. S \subseteq H /\ IsFiniteSet(H) /\ Cardinality(H) \in Nat
      BY <2>1, HoldersFinite
    <3>2. byDevice[d] <= MaxDevice /\ byDevice[d] = Cardinality(H)
      BY <2>0, <2>3 DEF Inductive, WithinDevice, PermitsConserved
    <3> HIDE DEF S, H
    <3>3. Cardinality(S) <= Cardinality(H) /\ Cardinality(S) \in Nat
      BY <3>1, FS_Subset, FS_CardinalityType
    <3>4. Cardinality(S) <= MaxDevice BY <3>1, <3>2, <3>3
    <3> QED BY <3>4 DEF S
  <2> QED BY <2>2, <2>3 DEF StreamsWithinLimits
<1> QED BY <1>1, Invariance, PTL

-----------------------------------------------------------------------------
(* The administrator and the rows.                                          *)
(*                                                                          *)
(* A session whose closers an administrator has asked for is out of harm's  *)
(* way in one of three ways: its stream is closed, somebody is about to     *)
(* close it, or it had not registered closers yet and is recorded as        *)
(* missed.  Away says so, it survives every later step, and the rows are    *)
(* closed only by a finalizer or for sessions that are away.                *)

\* The session has registered its closers, or never will.
Past(s) == pc[s] \notin {"new"} \cup Opening

Away(s) ==
  \/ s \in missed
  \/ Past(s) /\ (pc[s] \in {"connect"} \cup Bridged /\ s \in upstream => BeingClosed(s))

OwnReasons == AdminReasons \cup {"write_connect_response_failed"}

\* The finalizer has a reason to write, and after that it has written it.
ToMark(s) == pc[s] = "mark" \/ (pc[s] = "unregister" /\ KindOf[s] = "http")
AfterRow(s) ==
  \/ pc[s] \in {"release", "closeUpstream", "done"}
  \/ pc[s] = "unregister" /\ KindOf[s] # "http"

\* The way of a forced close from the registry to the row: the marker, the
\* reason the finalizer takes from it, the row.
ForcedKnown(s) ==
  /\ Past(s)
  /\ pc[s] \in {"connect", "ended"} \cup Bridged => s \in forcedMarker
  /\ ToMark(s) => reason[s] \in OwnReasons
  /\ AfterRow(s) => rows[s].reason \in OwnReasons

SessionOK(s) ==
  /\ KindOf[s] = "http" => pc[s] \notin {"connect", "blocked"}
  /\ s \in registered => Past(s)
  /\ pc[s] \in {"connect"} \cup Bridged =>
        s \in registered \/ s \notin upstream \/ BeingClosed(s)
  /\ pc[s] \in {"new", "permit"} => rows[s].status = "none"
  /\ AfterRow(s) => rows[s].status # "open"
  /\ rows[s].status = "closed" => Away(s)
  /\ s \in forced => ForcedKnown(s)

AdminOK(a) ==
  /\ admin[a].at \in {"close", "wait"} => admin[a].cur \in SessionIds
  /\ admin[a].todo \subseteq admin[a].asked
  /\ admin[a].asked \subseteq SessionIds
  /\ \A s \in admin[a].asked : rows[s].status # "none"
  /\ \A s \in admin[a].asked \ admin[a].todo : Away(s)

Truth == (\A s \in SessionIds : SessionOK(s)) /\ (\A a \in Admins : AdminOK(a))

LEMMA TruthInit == Init => Truth
<1> SUFFICES ASSUME Init PROVE Truth OBVIOUS
<1>1. ASSUME NEW s \in SessionIds PROVE SessionOK(s)
  BY DEF Init, SessionOK, NoRow, AfterRow
<1>2. ASSUME NEW a \in Admins PROVE AdminOK(a)
  BY DEF Init, AdminOK, Idle
<1> QED BY <1>1, <1>2 DEF Truth

\* The step leaves session t alone.
Apart(t) ==
  /\ pc'[t] = pc[t] /\ reason'[t] = reason[t] /\ rows'[t] = rows[t]
  /\ t \in upstream' => t \in upstream
  /\ t \in registered' <=> t \in registered
  /\ t \in forcedMarker' <=> t \in forcedMarker
  /\ t \in forced' <=> t \in forced
  /\ t \in missed => t \in missed'

LEMMA ApartKeeps ==
  ASSUME NEW t \in SessionIds, Apart(t), BeingClosed(t) => BeingClosed(t)'
  PROVE  /\ SessionOK(t) => SessionOK(t)'
         /\ Away(t) => Away(t)'
<1>1. /\ Past(t)' <=> Past(t)
      /\ AfterRow(t)' <=> AfterRow(t)
      /\ ToMark(t)' <=> ToMark(t)
  BY DEF Apart, Past, AfterRow, ToMark
<1>2. Away(t) => Away(t)' BY <1>1 DEF Apart, Away
<1>3. ForcedKnown(t) => ForcedKnown(t)' BY <1>1 DEF Apart, ForcedKnown
<1> QED BY <1>1, <1>2, <1>3 DEF Apart, SessionOK

\* A step of one session: the others and the administrators need no look.
LEMMA OneSession ==
  ASSUME TypeOK, Truth, NEW s \in SessionIds, admin' = admin,
         \A t \in SessionIds \ {s} : Apart(t),
         SessionOK(s)', Away(s) => Away(s)',
         rows[s].status # "none" => rows'[s].status # "none"
  PROVE  Truth'
<1>1. \A t : BeingClosed(t)' <=> BeingClosed(t) BY DEF BeingClosed
<1>2. \A t \in SessionIds : SessionOK(t)' BY <1>1, ApartKeeps DEF Truth
<1>3. \A t \in SessionIds : Away(t) => Away(t)' BY <1>1, ApartKeeps
<1>4. \A t \in SessionIds : rows[t].status # "none" => rows'[t].status # "none"
  BY DEF Apart
<1>5. ASSUME NEW a \in Admins PROVE AdminOK(a)'
  BY <1>3, <1>4 DEF Truth, AdminOK
<1> QED BY <1>2, <1>5 DEF Truth

\* What a step of a session leaves alone when it changes one field of it.
LEMMA SessionSteps ==
  ASSUME TypeOK, NEW s \in SessionIds, Acquire(s) \/ Handler(s) \/ Stalls(s) \/ StreamEnds(s)
  PROVE  /\ admin' = admin
         /\ \A t \in SessionIds \ {s} : Apart(t)
         /\ forced' = forced /\ missed' = missed
<1>0. /\ pc \in [SessionIds -> Stages] /\ reason \in [SessionIds -> Reasons]
      /\ rows \in [SessionIds -> [status : {"none", "open", "closed"},
                                  force : BOOLEAN, reason : Reasons]]
  BY DEF TypeOK
<1> USE <1>0 DEF Apart, policy, registry, bounds, history
<1>1. CASE Acquire(s) BY <1>1 DEF Acquire
<1>2. CASE CreateRow(s) BY <1>2 DEF CreateRow
<1>3. CASE OpenSucceeds(s) BY <1>3 DEF OpenSucceeds
<1>4. CASE OpenFails(s) BY <1>4 DEF OpenFails
<1>5. CASE RegisterSession(s) BY <1>5 DEF RegisterSession
<1>6. CASE AnswerConnect(s) BY <1>6 DEF AnswerConnect
<1>7. CASE ConsumeForceClosed(s) BY <1>7 DEF ConsumeForceClosed
<1>8. CASE MarkSessionClosed(s) BY <1>8 DEF MarkSessionClosed
<1>9. CASE UnregisterSession(s) BY <1>9 DEF UnregisterSession
<1>10. CASE CloseUpstream(s) BY <1>10 DEF CloseUpstream
<1>11. CASE Release(s) BY <1>11 DEF Release, Released
<1>12. CASE StreamEnds(s) BY <1>12 DEF StreamEnds, CloseConn, Closed
<1>13. CASE Stalls(s) BY <1>13 DEF Stalls, Block, Unblock
<1> QED BY <1>1, <1>2, <1>3, <1>4, <1>5, <1>6, <1>7, <1>8, <1>9, <1>10, <1>11,
           <1>12, <1>13 DEF Handler

LEMMA SessionTruth ==
  ASSUME TypeOK, Truth, NEW s \in SessionIds, Acquire(s) \/ Handler(s) \/ Stalls(s) \/ StreamEnds(s)
  PROVE  Truth'
<1>0. /\ pc \in [SessionIds -> Stages] /\ reason \in [SessionIds -> Reasons]
      /\ rows \in [SessionIds -> [status : {"none", "open", "closed"},
                                  force : BOOLEAN, reason : Reasons]]
      /\ SessionOK(s)
  BY DEF TypeOK, Truth
<1>s. /\ admin' = admin /\ (\A t \in SessionIds \ {s} : Apart(t))
      /\ forced' = forced /\ missed' = missed
  BY SessionSteps
<1>b. BeingClosed(s)' <=> BeingClosed(s) BY <1>s DEF BeingClosed
<1> SUFFICES /\ SessionOK(s)' /\ (Away(s) => Away(s)')
             /\ rows[s].status # "none" => rows'[s].status # "none"
  BY <1>s, OneSession
<1> USE <1>0, <1>s, <1>b DEF SessionOK, ForcedKnown, Away, Past, AfterRow, ToMark, Opening, Bridged,
        policy, registry, bounds, history
<1>1. CASE Acquire(s) BY <1>1 DEF Acquire
<1>2. CASE CreateRow(s) BY <1>2 DEF CreateRow, NewRow, NoRow
<1>3. CASE OpenSucceeds(s) BY <1>3 DEF OpenSucceeds, AtOpen
<1>4. CASE OpenFails(s) BY <1>4 DEF OpenFails, AtOpen
<1>5. CASE RegisterSession(s) BY <1>5 DEF RegisterSession
<1>6. CASE AnswerConnect(s) BY <1>6 DEF AnswerConnect, OwnReasons
<1>7. CASE ConsumeForceClosed(s)
  BY <1>7 DEF ConsumeForceClosed, OwnReasons, AdminReasons
<1>8. CASE MarkSessionClosed(s)
  <2>1. /\ pc[s] = "mark" /\ UNCHANGED <<reason, upstream, registered, forcedMarker>>
        /\ rows'[s].status = "closed" /\ rows'[s].reason = reason[s]
        /\ pc'[s] \in {"release", "unregister"} /\ (KindOf[s] = "http" => pc'[s] = "release")
    BY <1>8 DEF MarkSessionClosed
  <2> QED BY <2>1
<1>9. CASE UnregisterSession(s) BY <1>9 DEF UnregisterSession
<1>10. CASE CloseUpstream(s) BY <1>10 DEF CloseUpstream
<1>11. CASE Release(s) BY <1>11 DEF Release
<1>12. CASE StreamEnds(s) BY <1>12 DEF StreamEnds, CloseConn, Closed
<1>13. CASE Stalls(s) BY <1>13 DEF Stalls, Block, Unblock
<1> QED BY <1>1, <1>2, <1>3, <1>4, <1>5, <1>6, <1>7, <1>8, <1>9, <1>10, <1>11,
           <1>12, <1>13 DEF Handler

LEMMA AskTruth ==
  ASSUME TypeOK, Truth, NEW a \in Admins,
         \/ \E s \in SessionIds : AskClose(a, s)
         \/ \E d \in Devices : AskDelete(a, d)
  PROVE  Truth'
<1>1. PICK d \in Devices \cup {NoDevice}, asked \in SUBSET SessionIds :
        Ask(a, d, asked) /\ \A s \in asked : rows[s].status # "none"
  <2>1. CASE \E s \in SessionIds : AskClose(a, s)
    <3>1. PICK s \in SessionIds : AskClose(a, s) BY <2>1
    <3>2. {s} \in SUBSET SessionIds /\ Ask(a, NoDevice, {s}) /\ rows[s].status # "none"
      BY <3>1 DEF AskClose
    <3> QED BY <3>2
  <2>2. CASE \E d \in Devices : AskDelete(a, d)
    <3>1. PICK d \in Devices : Ask(a, d, OpenRows(d)) BY <2>2 DEF AskDelete
    <3>2. OpenRows(d) \in SUBSET SessionIds /\ \A s \in OpenRows(d) : rows[s].status # "none"
      BY DEF OpenRows
    <3> QED BY <3>1, <3>2
  <2> QED BY <2>1, <2>2
<1>2. /\ admin'[a].at = "take" /\ admin'[a].asked = asked /\ admin'[a].todo = asked
      /\ admin[a].at = "idle" /\ \A b \in Admins \ {a} : admin'[b] = admin[b]
      /\ UNCHANGED <<pc, reason, rows, upstream, registered, forcedMarker, forced, missed>>
  BY <1>1 DEF Ask, TypeOK, Idle, registry, history
<1>3. \A t \in SessionIds : Apart(t) BY <1>2 DEF Apart
<1>4. \A t : BeingClosed(t) => BeingClosed(t)' BY <1>2 DEF BeingClosed
<1>5. \A t \in SessionIds : SessionOK(t)' /\ (Away(t) => Away(t)')
  BY <1>3, <1>4, ApartKeeps DEF Truth
<1>6. ASSUME NEW b \in Admins PROVE AdminOK(b)'
  <2>1. CASE b = a BY <1>1, <1>2, <2>1 DEF AdminOK
  <2>2. CASE b # a BY <1>2, <1>5, <2>2 DEF Truth, AdminOK
  <2> QED BY <2>1, <2>2
<1> QED BY <1>5, <1>6 DEF Truth

LEMMA TakeClosersTruth ==
  ASSUME TypeOK, Truth, NEW a \in Admins, NEW s \in SessionIds, TakeClosers(a, s)
  PROVE  Truth'
<1>0. SessionOK(s) /\ AdminOK(a) /\ rows[s].status # "none"
  BY DEF Truth, AdminOK, TakeClosers
<1>1. /\ admin[a].at = "take" /\ s \in admin[a].todo
      /\ admin'[a].todo = admin[a].todo \ {s} /\ admin'[a].asked = admin[a].asked
      /\ (s \in registered => admin'[a].at = "close" /\ admin'[a].cur = s)
      /\ (s \notin registered => admin'[a].at = "take")
      /\ \A b \in Admins \ {a} : admin'[b] = admin[b]
  BY DEF TakeClosers, TypeOK, AdminState
<1>2. /\ UNCHANGED <<pc, reason, rows, upstream>>
      /\ registered' = registered \ {s}
      /\ forcedMarker' = IF s \in registered THEN forcedMarker \cup {s} ELSE forcedMarker
      /\ forced' = IF s \in registered /\ pc[s] \in {"connect", "ended"} \cup Bridged
                   THEN forced \cup {s} ELSE forced
      /\ missed' = IF pc[s] \in Opening THEN missed \cup {s} ELSE missed
  BY DEF TakeClosers, Marked
<1>3. \A t : BeingClosed(t) => BeingClosed(t)' BY <1>1 DEF BeingClosed
<1>4. s \in registered => BeingClosed(s)' BY <1>1 DEF BeingClosed
<1>5. \A t \in SessionIds \ {s} : Apart(t) BY <1>2 DEF Apart
<1>6. pc[s] # "new" BY <1>0 DEF SessionOK
<1>7. Away(s)'
  BY <1>0, <1>2, <1>3, <1>4, <1>6 DEF SessionOK, Away, Past
<1>8. ForcedKnown(s) => ForcedKnown(s)'
  BY <1>2 DEF ForcedKnown, Past, ToMark, AfterRow
<1>9. s \in registered /\ pc[s] \in {"connect", "ended"} \cup Bridged => ForcedKnown(s)'
  BY <1>2 DEF ForcedKnown, Past, ToMark, AfterRow, Opening, Bridged
<1>10. SessionOK(s)'
  BY <1>0, <1>2, <1>3, <1>4, <1>7, <1>8, <1>9 DEF SessionOK, AfterRow, Past
<1>11. \A t \in SessionIds : SessionOK(t)' /\ (Away(t) => Away(t)')
  BY <1>3, <1>5, <1>7, <1>10, ApartKeeps DEF Truth
<1>12. ASSUME NEW b \in Admins PROVE AdminOK(b)'
  <2>1. CASE b = a
    BY <1>0, <1>1, <1>2, <1>7, <1>11, <2>1 DEF AdminOK
  <2>2. CASE b # a BY <1>1, <1>2, <1>11, <2>2 DEF Truth, AdminOK
  <2> QED BY <2>1, <2>2
<1> QED BY <1>11, <1>12 DEF Truth

LEMMA RunClosersTruth ==
  ASSUME TypeOK, Truth, NEW a \in Admins, RunClosers(a)
  PROVE  Truth'
<1>0. PICK s \in SessionIds : s = admin[a].cur BY DEF Truth, AdminOK, RunClosers
<1>1. /\ admin[a].at = "close" /\ admin'[a].at \in {"take", "wait"}
      /\ (admin'[a].at = "wait" => admin'[a].cur = s)
      /\ admin'[a].todo = admin[a].todo /\ admin'[a].asked = admin[a].asked
      /\ \A b \in Admins \ {a} : admin'[b] = admin[b]
  BY <1>0 DEF RunClosers, Advanced, TypeOK, AdminState
<1>2. /\ UNCHANGED <<reason, rows, registered, forcedMarker, forced, missed>>
      /\ upstream' \subseteq upstream
      /\ (KindOf[s] # "http" => s \notin upstream')
  BY <1>0 DEF RunClosers, Closed, registry, history
<1>3. /\ \A t \in SessionIds \ {s} : pc'[t] = pc[t]
      /\ \/ KindOf[s] = "http" /\ pc[s] = "bridge" /\ pc'[s] = "ended"
         \/ ~(KindOf[s] = "http" /\ pc[s] = "bridge") /\ pc'[s] = pc[s]
  BY <1>0 DEF RunClosers, CloseConn, TypeOK
<1>4. \A t \in SessionIds \ {s} : BeingClosed(t) => BeingClosed(t)'
  BY <1>0, <1>1 DEF BeingClosed
<1>5. \A t \in SessionIds \ {s} : Apart(t) BY <1>2, <1>3 DEF Apart
<1>6. SessionOK(s) BY DEF Truth
<1>7. pc'[s] \in {"connect"} \cup Bridged => s \notin upstream'
  BY <1>2, <1>3, <1>6 DEF SessionOK, Bridged
<1>8. Away(s) => Away(s)'
  BY <1>2, <1>3, <1>7 DEF Away, Past, Opening, Bridged
<1>9. ForcedKnown(s) => ForcedKnown(s)'
  BY <1>2, <1>3 DEF ForcedKnown, Past, ToMark, AfterRow, Opening, Bridged
<1>10. SessionOK(s)'
  BY <1>2, <1>3, <1>6, <1>7, <1>8, <1>9 DEF SessionOK, AfterRow, Past, Opening, Bridged
<1>11. \A t \in SessionIds : SessionOK(t)' /\ (Away(t) => Away(t)')
  BY <1>4, <1>5, <1>8, <1>10, ApartKeeps DEF Truth
<1>12. ASSUME NEW b \in Admins PROVE AdminOK(b)'
  <2>1. CASE b = a BY <1>1, <1>2, <1>11, <2>1 DEF Truth, AdminOK
  <2>2. CASE b # a BY <1>1, <1>2, <1>11, <2>2 DEF Truth, AdminOK
  <2> QED BY <2>1, <2>2
<1> QED BY <1>11, <1>12 DEF Truth

LEMMA CloserReturnsTruth ==
  ASSUME TypeOK, Truth, NEW a \in Admins, CloserReturns(a)
  PROVE  Truth'
<1>1. /\ admin[a].at = "wait" /\ admin'[a].at = "take"
      /\ admin'[a].todo = admin[a].todo /\ admin'[a].asked = admin[a].asked
      /\ \A b \in Admins \ {a} : admin'[b] = admin[b]
      /\ UNCHANGED <<pc, reason, rows, upstream, registered, forcedMarker, forced, missed>>
  BY DEF CloserReturns, Advanced, TypeOK, AdminState, registry, history
<1>2. \A t : BeingClosed(t) => BeingClosed(t)' BY <1>1 DEF BeingClosed
<1>3. \A t \in SessionIds : SessionOK(t)' /\ (Away(t) => Away(t)')
  BY <1>1, <1>2, ApartKeeps DEF Truth, Apart
<1>4. ASSUME NEW b \in Admins PROVE AdminOK(b)'
  <2>1. CASE b = a BY <1>1, <1>3, <2>1 DEF Truth, AdminOK
  <2>2. CASE b # a BY <1>1, <1>3, <2>2 DEF Truth, AdminOK
  <2> QED BY <2>1, <2>2
<1> QED BY <1>3, <1>4 DEF Truth

LEMMA UpdateRowsTruth ==
  ASSUME TypeOK, Truth, NEW a \in Admins, UpdateRows(a)
  PROVE  Truth'
<1>0. AdminOK(a) /\ admin[a].at = "take" /\ admin[a].todo = {}
  BY DEF Truth, UpdateRows
<1>1. /\ admin'[a].at = "idle" /\ admin'[a].todo = {} /\ admin'[a].asked = {}
      /\ \A b \in Admins \ {a} : admin'[b] = admin[b]
      /\ UNCHANGED <<pc, reason, upstream, registered, forcedMarker, forced>>
      /\ missed' = missed \cup (Updated(a) \ admin[a].asked)
  BY DEF UpdateRows, Idle, TypeOK, registry
<1>2. ASSUME NEW t \in SessionIds
      PROVE  IF t \in Updated(a)
               THEN rows'[t].status = "closed" /\ rows'[t].reason \in AdminReasons
               ELSE rows'[t] = rows[t]
  BY DEF UpdateRows, ForceClosed, AdminReasons
<1>3. \A t : BeingClosed(t) => BeingClosed(t)' BY <1>0, <1>1 DEF BeingClosed
<1>4. \A t \in SessionIds : Away(t) => Away(t)' BY <1>1, <1>3 DEF Away, Past
<1>5. \A t \in SessionIds : t \in Updated(a) => Away(t)' /\ rows[t].status # "none"
  <2> SUFFICES ASSUME NEW t \in SessionIds, t \in Updated(a)
               PROVE  Away(t)' /\ rows[t].status # "none"
    OBVIOUS
  <2>1. CASE t \in admin[a].asked BY <1>0, <1>4, <2>1 DEF AdminOK
  <2>2. CASE t \notin admin[a].asked
    <3>1. t \in missed' BY <1>1, <2>2
    <3>2. rows[t].status # "none" BY <2>2 DEF Updated, OpenRows
    <3> QED BY <3>1, <3>2 DEF Away
  <2> QED BY <2>1, <2>2
<1>6. ASSUME NEW t \in SessionIds PROVE SessionOK(t)'
  <2>1. SessionOK(t) BY DEF Truth
  <2>2. CASE t \notin Updated(a)
    <3>1. Apart(t) BY <1>1, <1>2, <2>2 DEF Apart
    <3> QED BY <1>3, <2>1, <3>1, ApartKeeps
  <2>3. CASE t \in Updated(a)
    <3>1. rows'[t].status = "closed" /\ rows'[t].reason \in OwnReasons
      BY <1>2, <2>3 DEF OwnReasons
    <3>2. Away(t)' /\ rows[t].status # "none" BY <1>5, <2>3
    <3>3. ForcedKnown(t) => ForcedKnown(t)'
      BY <1>1, <3>1 DEF ForcedKnown, Past, ToMark, AfterRow
    <3> QED BY <1>1, <1>3, <2>1, <3>1, <3>2, <3>3 DEF SessionOK, Past
  <2> QED BY <2>2, <2>3
<1>7. \A t \in SessionIds : rows[t].status # "none" => rows'[t].status # "none"
  BY <1>2
<1>8. ASSUME NEW b \in Admins PROVE AdminOK(b)'
  <2>1. CASE b = a BY <1>1, <2>1 DEF AdminOK
  <2>2. CASE b # a
    <3>1. AdminOK(b) /\ admin'[b] = admin[b] BY <1>1, <2>2 DEF Truth
    <3> QED BY <1>4, <1>7, <3>1 DEF AdminOK
  <2> QED BY <2>1, <2>2
<1> QED BY <1>6, <1>8 DEF Truth

LEMMA CrashTruth == TypeOK /\ Truth /\ Crash => Truth'
<1> SUFFICES ASSUME TypeOK, Truth, Crash PROVE Truth' OBVIOUS
<1>1. /\ \A t \in SessionIds : pc'[t] = IF pc[t] \in {"new", "done"} THEN pc[t] ELSE "dead"
      /\ upstream' = {} /\ registered' = {} /\ forcedMarker' = {} /\ missed' = {}
      /\ UNCHANGED <<rows, forced>>
      /\ admin' = [b \in Admins |-> Idle]
  BY DEF Crash
<1>2. ASSUME NEW t \in SessionIds PROVE SessionOK(t)'
  BY <1>1 DEF Truth, SessionOK, ForcedKnown, Away, Past, AfterRow, ToMark, Opening, Bridged
<1>3. ASSUME NEW b \in Admins PROVE AdminOK(b)'
  BY <1>1 DEF AdminOK, Idle
<1> QED BY <1>2, <1>3 DEF Truth

LEMMA TruthStep == TypeOK /\ Truth /\ [Next]_vars => Truth'
<1> SUFFICES ASSUME TypeOK, Truth, [Next]_vars PROVE Truth' OBVIOUS
<1>1. CASE UNCHANGED <<pc, reason, rows, upstream, registry, admin, history>>
  <2>1. \A t \in SessionIds : Apart(t) /\ (BeingClosed(t)' <=> BeingClosed(t))
    BY <1>1 DEF Apart, BeingClosed, registry, history
  <2>2. \A t \in SessionIds : SessionOK(t)' /\ (Away(t) => Away(t)')
    BY <2>1, ApartKeeps DEF Truth
  <2>3. ASSUME NEW b \in Admins PROVE AdminOK(b)'
    BY <1>1, <2>2 DEF Truth, AdminOK
  <2> QED BY <2>2, <2>3 DEF Truth
<1>2. CASE HitExpires \/ UNCHANGED vars BY <1>1, <1>2 DEF HitExpires, vars
<1> QED BY <1>2, SessionTruth, AskTruth, TakeClosersTruth, RunClosersTruth,
           CloserReturnsTruth, UpdateRowsTruth, CrashTruth DEF Next, Administrator

\* The rows, the markers and the administrators' work lists fit the sessions.
THEOREM TruthInvariance == Spec => [](TypeOK /\ Truth)
<1>1. Init => TypeOK /\ Truth BY TypeInit, TruthInit
<1>2. (TypeOK /\ Truth) /\ [Next]_vars => (TypeOK /\ Truth)' BY TypeStep, TruthStep
<1> QED BY <1>1, <1>2, PTL DEF Spec

\* While a session carries bytes an administrator can close it: it is in the
\* registry of running sessions, or somebody has taken its closers from there
\* and its stream is closed or about to be (CloseSession, RegisterSession and
\* the finalizers, in any order).
THEOREM SessionsStayReachable == Spec => []RunningSessionsReachable
<1>1. Truth => RunningSessionsReachable
  BY DEF Truth, SessionOK, RunningSessionsReachable
<1> QED BY <1>1, TruthInvariance, PTL

\* No row of a finished session stays open, no running session has a closed
\* row but the ones an administrator came too early for, and a forced close is
\* recorded as one although the finalizer writes the row last.
THEOREM RowsAreTruthful == Spec => []RowsTellTheTruth
<1>1. Truth => RowsTellTheTruth
  <2> SUFFICES ASSUME Truth, NEW s \in SessionIds
               PROVE  /\ pc[s] = "done" => rows[s].status # "open"
                      /\ pc[s] \in Bridged /\ s \in upstream /\ rows[s].status = "closed"
                           => s \in missed \/ BeingClosed(s)
                      /\ s \in forced /\ pc[s] = "done" => rows[s].reason \in OwnReasons
    BY DEF RowsTellTheTruth, OwnReasons
  <2> QED BY DEF Truth, SessionOK, AfterRow, Away, ForcedKnown
<1> QED BY <1>1, TruthInvariance, PTL
=============================================================================
