--------------------------- MODULE AccessLogProofs ---------------------------
(***************************************************************************)
(* Proofs about what the gateways leave behind.  TCPListeners: why a port  *)
(* serves something else than its mapping, why two mappings share a port,  *)
(* and that Stop is final.  AccessLog: types, the order in which the       *)
(* gateway and the writer stop, what Stop leaves behind, and that the log  *)
(* is a bounded queue.                                                     *)
(*                                                                         *)
(* StopDrains follows from where an unsettled entry can be: in the queue,  *)
(* in the batch, or in the INSERT under way. The goroutine ends with all   *)
(* three empty, and they stay empty because Enqueue cannot be between its  *)
(* check of stopping and its send once Stop has held the lock.             *)
(***************************************************************************)
EXTENDS AccessLog, TCPListeners, SequenceTheorems, WellFoundedInduction, TLAPS

-----------------------------------------------------------------------------
(* TCPListeners: the reloads of the gateway and the table they read.         *)
(*                                                                           *)
(* Reloads overlap and apply in any order, so the newest reading may not be  *)
(* the one in force.  What can be said of each is its age: a reading counts  *)
(* as current while no change was made since it began (ReadIsTrue), every    *)
(* change starts a reload that will be current (ChangeIsFollowed), and what  *)
(* is in force is right if it was (AppliedIsTrue).                           *)

\* A reading is of a state of the table that is past or the present one.
NothingAhead ==
  /\ applied.last <= applied.newest /\ applied.newest <= version
  /\ \A r \in Reloaders : reload[r].seen <= version

\* What a reload that has seen every change has read, and will apply, unless
\* its query of the setting failed.
ReadIsTrue ==
  \A r \in Reloaders :
    reload[r].seen = version /\ ~reload[r].misread =>
      /\ reload[r].at = "rows" => enabled
      /\ reload[r].at = "apply" => IF enabled THEN reload[r].desired \in Readings
                                   ELSE reload[r].desired = Nobody

\* A reload that will see the last change, or that has.
Follows(r) ==
  \/ reload[r].at = "setting"
  \/ reload[r].at \in {"rows", "apply"} /\ reload[r].seen = version

\* The last change was applied, or a reload follows it, unless one is owed, or
\* no reload is registered.
ChangeIsFollowed ==
  \/ ~registered \/ Stopped \/ silent \/ applied.newest = version
  \/ \E r \in Reloaders : Follows(r)

\* What was applied after the last change is what the listeners should be.
AppliedIsTrue ==
  ~Stopped /\ registered /\ applied.last = version /\ ~applied.misread =>
    \A p \in Ports : Serves(p, listeners[p]) \/ p \in missed

\* A gateway that was not started does nothing.
IdleUnlessRegistered ==
  ~registered => /\ listeners = Nobody
                 /\ \A r \in Reloaders : reload[r].at = "idle"

\* Nobody has taken the port of a request that goes to write, since it looked.
CheckHolds ==
  \A a \in Admins :
    save[a].at = "write" /\ save[a].on /\ ~save[a].late
      => TakenBy(save[a].port, save[a].guid) = {}

SavesNameMappings == \A a \in Admins : save[a].at # "idle" => save[a].guid \in Mappings

ListenersInductive ==
  /\ ListenersTypeOK /\ SavesNameMappings
  /\ NothingAhead /\ ReadIsTrue /\ ChangeIsFollowed /\ AppliedIsTrue /\ IdleUnlessRegistered
  /\ CheckHolds /\ SharedPortWasRaced

-----------------------------------------------------------------------------
(* Types *)

LEMMA NothingTypes == Nobody \in [Ports -> Mappings \cup {None}] /\ NoSave \in SaveState
                      /\ NoReload \in ReloadState /\ NoRow \in MappingRow
BY DEF Nobody, NoSave, NoReload, NoRow, SaveState, ReloadState, MappingRow

\* Any set of natural numbers that is not empty has a least element.
LEMMA LeastPort ==
  ASSUME NEW S \in SUBSET Nat, S # {}
  PROVE  \E p \in S : \A q \in S : p <= q
<1>1. \E p \in S : \A q \in S : ~(<<q, p>> \in OpToRel(<, Nat))
  BY WFMin, NatLessThanWellFounded, Zenon
<1>2. PICK p \in S : \A q \in S : ~(q < p)
  BY <1>1, Zenon DEF OpToRel
<1> QED BY <1>2

\* The port a request without one is given is free, if it is given one.
LEMMA NextPortType ==
  ASSUME NEW m \in Mappings
  PROVE  NextPort(m) \in Ports \cup {0}
<1> DEFINE free == {p \in Ports : TakenBy(p, m) = {}}
<1>1. CASE free = {} BY <1>1 DEF NextPort
<1>2. CASE free # {}
  <2>1. free \in SUBSET Nat BY ListenersAssumption DEF Ports
  <2>2. \E p \in free : \A q \in free : p <= q BY <1>2, <2>1, LeastPort
  <2>3. NextPort(m) = CHOOSE p \in free : \A q \in free : p <= q BY <1>2 DEF NextPort
  <2> HIDE DEF free
  <2>4. NextPort(m) \in free BY <2>2, <2>3, Zenon
  <2> QED BY <2>4 DEF free
<1> QED BY <1>1, <1>2

LEMMA AskType ==
  ASSUME ListenersTypeOK, Ask
  PROVE  asked' \in 0 .. MaxRequests
BY ListenersAssumption DEF ListenersTypeOK, Ask

LEMMA TriggerType ==
  ASSUME ListenersTypeOK, TriggerReload
  PROVE  reload' \in [Reloaders -> ReloadState]
<1>0. CASE UNCHANGED reload BY <1>0 DEF ListenersTypeOK
<1> SUFFICES ASSUME ~UNCHANGED reload PROVE reload' \in [Reloaders -> ReloadState]
  BY <1>0
<1>1. PICK r \in Reloaders : reload' = [reload EXCEPT ![r] = [reload[r] EXCEPT !.at = "setting"]]
  BY DEF TriggerReload, ListenersTypeOK
<1>2. [reload[r] EXCEPT !.at = "setting"] \in ReloadState
  BY DEF ListenersTypeOK, ReloadState
<1> QED BY <1>1, <1>2 DEF ListenersTypeOK

LEMMA SaveTypes ==
  ASSUME ListenersTypeOK, SavesNameMappings, NEW a \in Admins,
         \/ \E m \in Mappings, p \in Ports \cup {0}, on \in BOOLEAN : BeginSave(a, m, p, on)
         \/ CheckPort(a) \/ WriteSave(a)
  PROVE  ListenersTypeOK'
<1>1. ASSUME NEW m \in Mappings, NEW p \in Ports \cup {0}, NEW on \in BOOLEAN,
             BeginSave(a, m, p, on)
      PROVE  ListenersTypeOK'
  <2> DEFINE port == IF p = 0 THEN NextPort(m) ELSE p
             s == [at |-> IF on THEN "check" ELSE "write",
                   guid |-> m, port |-> port, on |-> on, late |-> FALSE]
  <2>1. port \in Ports \cup {0} BY NextPortType
  <2>2. save' = [save EXCEPT ![a] = s] BY <1>1 DEF BeginSave
  <2>3. s \in SaveState BY <2>1 DEF SaveState
  <2> HIDE DEF s
  <2>4. save' \in [Admins -> SaveState] BY <2>2, <2>3 DEF ListenersTypeOK
  <2>5. asked' \in 0 .. MaxRequests BY <1>1, AskType DEF BeginSave
  <2> QED BY <1>1, <2>4, <2>5 DEF BeginSave, ListenersTypeOK, gateway
<1>2. CASE CheckPort(a)
  <2>1. [save[a] EXCEPT !.at = "write"] \in SaveState BY DEF ListenersTypeOK, SaveState
  <2>2. save' \in [Admins -> SaveState] BY <1>2, <2>1, NothingTypes DEF CheckPort, ListenersTypeOK
  <2> QED BY <1>2, <2>2 DEF CheckPort, ListenersTypeOK, gateway
<1>3. CASE WriteSave(a)
  <2>1. save[a] \in SaveState BY DEF ListenersTypeOK
  <2>2. save[a].guid \in Mappings BY <1>3 DEF WriteSave, SavesNameMappings
  <2>3. [port |-> save[a].port, on |-> save[a].on] \in MappingRow
    BY <2>1 DEF SaveState, MappingRow
  <2>4. table' \in [Mappings -> MappingRow]
    BY <1>3, <2>2, <2>3 DEF WriteSave, ListenersTypeOK
  <2>5. ASSUME NEW b \in Admins PROVE save'[b] \in SaveState
    <3>1. CASE b = a
      <4>1. save'[b] = NoSave BY <1>3, <3>1 DEF WriteSave
      <4> QED BY <4>1, NothingTypes
    <3>2. CASE b # a
      <4> DEFINE l == save[b].late \/
                      (/\ b # a /\ save[b].at = "write" /\ save[b].on
                       /\ save[a].on /\ save[b].port = save[a].port
                       /\ save[b].guid # save[a].guid)
      <4>1. save[b] \in SaveState BY DEF ListenersTypeOK
      <4>2. save'[b] = [save[b] EXCEPT !.late = l] BY <1>3, <3>2 DEF WriteSave
      <4>3. l \in BOOLEAN BY <4>1 DEF SaveState
      <4> HIDE DEF l
      <4>4. [save[b] EXCEPT !.late = l] \in SaveState BY <4>1, <4>3 DEF SaveState
      <4> QED BY <4>2, <4>4
    <3> QED BY <3>1, <3>2
  <2>6. save' \in [Admins -> SaveState]
    <3>1. save' = [b \in Admins |-> save'[b]] BY <1>3 DEF WriteSave
    <3> QED BY <2>5, <3>1
  <2>7. raced' \subseteq Mappings BY <1>3, <2>2 DEF WriteSave, ListenersTypeOK
  <2>8. reload' \in [Reloaders -> ReloadState] BY <1>3, TriggerType DEF WriteSave
  <2>9. version' \in Nat BY <1>3 DEF WriteSave, Change, ListenersTypeOK
  <2> QED BY <1>3, <2>4, <2>6, <2>7, <2>8, <2>9 DEF WriteSave, ListenersTypeOK, gateway
<1> QED BY <1>1, <1>2, <1>3

LEMMA ConsoleTypes ==
  ASSUME ListenersTypeOK,
         \/ \E m \in Mappings : Disable(m)
         \/ SetEnabled
         \/ \E d \in Devices : DeleteDevice(d)
  PROVE  ListenersTypeOK'
<1>1. ASSUME NEW m \in Mappings, Disable(m) PROVE ListenersTypeOK'
  <2>0. table' = [table EXCEPT ![m].on = FALSE] BY <1>1 DEF Disable
  <2>1. table \in [Mappings -> MappingRow] BY DEF ListenersTypeOK
  <2>2. [table[m] EXCEPT !.on = FALSE] \in MappingRow BY <2>1 DEF MappingRow
  <2>3. table' \in [Mappings -> MappingRow] BY <2>0, <2>1, <2>2
  <2>4. reload' \in [Reloaders -> ReloadState] BY <1>1, TriggerType DEF Disable
  <2>5. asked' \in 0 .. MaxRequests BY <1>1, AskType DEF Disable
  <2>6. version' \in Nat BY <1>1 DEF Disable, Change, ListenersTypeOK
  <2> QED BY <1>1, <2>3, <2>4, <2>5, <2>6 DEF Disable, ListenersTypeOK, gateway
<1>2. CASE SetEnabled
  <2>1. reload' \in [Reloaders -> ReloadState] BY <1>2, TriggerType DEF SetEnabled, SettingReloads
  <2>2. asked' \in 0 .. MaxRequests BY <1>2, AskType DEF SetEnabled
  <2>3. version' \in Nat BY <1>2 DEF SetEnabled, Change, ListenersTypeOK
  <2> QED BY <1>2, <2>1, <2>2, <2>3 DEF SetEnabled, ListenersTypeOK, gateway
<1>3. ASSUME NEW d \in Devices, DeleteDevice(d) PROVE ListenersTypeOK'
  <2>1. table' \in [Mappings -> MappingRow]
    BY <1>3, NothingTypes DEF DeleteDevice, ListenersTypeOK
  <2>2. asked' \in 0 .. MaxRequests BY <1>3, AskType DEF DeleteDevice
  <2>3. version' \in Nat BY <1>3 DEF DeleteDevice, Change, ListenersTypeOK
  <2> QED BY <1>3, <2>1, <2>2, <2>3 DEF DeleteDevice, ListenersTypeOK, gateway
<1> QED BY <1>1, <1>2, <1>3

LEMMA ReloadTypes ==
  ASSUME ListenersTypeOK, NEW r \in Reloaders,
         ReadSetting(r) \/ ReadRows(r) \/ ReadFails(r) \/ Apply(r)
  PROVE  ListenersTypeOK'
<1>1. CASE ReadSetting(r)
  <2>1. PICK read \in {enabled, TRUE} :
          reload' = [reload EXCEPT ![r] = [at |-> IF read THEN "rows" ELSE "apply",
                                           seen |-> version, desired |-> Nobody,
                                           misread |-> read # enabled]]
    BY <1>1 DEF ReadSetting
  <2>3. [at |-> IF read THEN "rows" ELSE "apply", seen |-> version, desired |-> Nobody,
         misread |-> read # enabled] \in ReloadState
    BY NothingTypes DEF ReloadState, ListenersTypeOK
  <2>2. reload' \in [Reloaders -> ReloadState] BY <2>1, <2>3 DEF ListenersTypeOK
  <2> QED BY <1>1, <2>2 DEF ReadSetting, ListenersTypeOK, console, gateway
<1>2. CASE ReadRows(r)
  <2>1. PICK d \in Readings :
          reload' = [reload EXCEPT ![r] = [reload[r] EXCEPT !.at = "apply", !.desired = d]]
    BY <1>2 DEF ReadRows, ListenersTypeOK
  <2>2. d \in [Ports -> Mappings \cup {None}] BY DEF Readings
  <2>5. reload[r] \in ReloadState BY DEF ListenersTypeOK
  <2>3. [reload[r] EXCEPT !.at = "apply", !.desired = d] \in ReloadState
    BY <2>2, <2>5 DEF ReloadState
  <2>4. reload' \in [Reloaders -> ReloadState] BY <2>1, <2>3 DEF ListenersTypeOK
  <2> QED BY <1>2, <2>4 DEF ReadRows, ListenersTypeOK, console, gateway
<1>3. CASE ReadFails(r)
  BY <1>3, NothingTypes DEF ReadFails, ListenersTypeOK, console, gateway
<1>4. CASE Apply(r)
  <2>1. reload' \in [Reloaders -> ReloadState] BY <1>4, NothingTypes DEF Apply, ListenersTypeOK
  <2>2. /\ reload[r].desired \in [Ports -> Mappings \cup {None}]
        /\ reload[r].seen \in Nat /\ reload[r].misread \in BOOLEAN
    BY DEF ListenersTypeOK, ReloadState
  <2>3. listeners' \in [Ports -> Mappings \cup {None}]
    BY <1>4, <2>2 DEF Apply, ListenersTypeOK, Listening
  <2>4. missed' \subseteq Ports BY <1>4 DEF Apply, ListenersTypeOK, CannotListen
  <2>5. applied' \in [last : Nat, newest : Nat, misread : BOOLEAN] BY <1>4, <2>2 DEF Apply, ListenersTypeOK
  <2> QED BY <1>4, <2>1, <2>3, <2>4, <2>5 DEF Apply, ListenersTypeOK, console
<1> QED BY <1>1, <1>2, <1>3, <1>4

Others ==
  \/ \E p \in Contended : Occupy(p) \/ Vacate(p)
  \/ \E c \in Conns : \/ EndConn(c) \/ Block(c) \/ Unblock(c)
                      \/ \E p \in Ports : Accept(c, p)
  \/ BeginStop \/ CloseListeners \/ WaitHandlers

LEMMA OthersTypes ==
  ASSUME ListenersTypeOK, Others
  PROVE  ListenersTypeOK'
<1>1. ASSUME NEW p \in Contended, Occupy(p) \/ Vacate(p) PROVE ListenersTypeOK'
  <2>1. busy' \subseteq Ports
    BY <1>1, ListenersAssumption DEF Occupy, Vacate, ListenersTypeOK
  <2> QED BY <1>1, <2>1 DEF Occupy, Vacate, ListenersTypeOK, console, gateway
<1>2. ASSUME NEW c \in Conns,
             EndConn(c) \/ Block(c) \/ Unblock(c) \/ \E p \in Ports : Accept(c, p)
      PROVE  ListenersTypeOK'
  <2>1. conn' \in [Conns -> {"idle", "open", "stuck"}]
    BY <1>2 DEF EndConn, Block, Unblock, Accept, ListenersTypeOK
  <2> QED BY <1>2, <2>1 DEF EndConn, Block, Unblock, Accept, ListenersTypeOK, console
<1>3. CASE BeginStop \/ CloseListeners \/ WaitHandlers
  BY <1>3, NothingTypes
  DEF BeginStop, CloseListeners, WaitHandlers, ListenersTypeOK, console
<1> QED BY <1>1, <1>2, <1>3 DEF Others

-----------------------------------------------------------------------------
(* Saving *)

Saving == SavesNameMappings /\ CheckHolds /\ SharedPortWasRaced

LEMMA SavingKept ==
  ASSUME Saving, UNCHANGED <<table, save, raced>>
  PROVE  Saving'
<1>1. SavesNameMappings' BY DEF Saving, SavesNameMappings
<1>2. CheckHolds' BY DEF Saving, CheckHolds, TakenBy
<1>3. SharedPortWasRaced' BY DEF Saving, SharedPortWasRaced
<1> QED BY <1>1, <1>2, <1>3 DEF Saving

\* A table with less enabled takes no port.
LEMMA SavingShrinks ==
  ASSUME Saving, UNCHANGED <<save, raced>>,
         \A m \in Mappings : table'[m] = table[m] \/ ~table'[m].on
  PROVE  Saving'
<1>1. SavesNameMappings' BY DEF Saving, SavesNameMappings
<1>2. CheckHolds' BY DEF Saving, CheckHolds, TakenBy
<1>3. SharedPortWasRaced' BY DEF Saving, SharedPortWasRaced
<1> QED BY <1>1, <1>2, <1>3 DEF Saving

LEMMA RequestSaves ==
  ASSUME ListenersTypeOK, Saving, NEW a \in Admins, 
         \/ \E m \in Mappings, p \in Ports \cup {0}, on \in BOOLEAN : BeginSave(a, m, p, on)
         \/ CheckPort(a)
  PROVE  Saving'
<1>1. UNCHANGED <<table, raced>> BY DEF BeginSave, CheckPort
<1>2. \A b \in Admins : b # a => save'[b] = save[b]
  BY DEF BeginSave, CheckPort, ListenersTypeOK
<1>3. /\ save'[a].at # "idle" => save'[a].guid \in Mappings
      /\ save'[a].at = "write" /\ save'[a].on =>
            TakenBy(save'[a].port, save'[a].guid) = {}
  <2>1. CASE \E m \in Mappings, p \in Ports \cup {0}, on \in BOOLEAN : BeginSave(a, m, p, on)
    <3>1. PICK m \in Mappings, p \in Ports \cup {0}, on \in BOOLEAN : BeginSave(a, m, p, on)
      BY <2>1
    <3>2. save'[a] = [at |-> IF on THEN "check" ELSE "write", guid |-> m,
                      port |-> IF p = 0 THEN NextPort(m) ELSE p, on |-> on, late |-> FALSE]
      BY <3>1 DEF BeginSave, ListenersTypeOK
    <3> QED BY <3>2
  <2>2. CASE CheckPort(a)
    <3>1. save[a] \in SaveState BY DEF ListenersTypeOK
    <3>2. save[a].guid \in Mappings
      BY <2>2 DEF CheckPort, Saving, SavesNameMappings
    <3>3. CASE TakenBy(save[a].port, save[a].guid) = {}
      <4>1. save'[a] = [save[a] EXCEPT !.at = "write"]
        BY <2>2, <3>3 DEF CheckPort, PortFree, ListenersTypeOK
      <4> QED BY <3>1, <3>2, <3>3, <4>1 DEF SaveState
    <3>4. CASE TakenBy(save[a].port, save[a].guid) # {}
      <4>1. save'[a] = NoSave
        BY <2>2, <3>4 DEF CheckPort, PortFree, ListenersTypeOK
      <4> QED BY <4>1 DEF NoSave
    <3> QED BY <3>3, <3>4
  <2> QED BY <2>1, <2>2
<1>4. SavesNameMappings' BY <1>2, <1>3 DEF Saving, SavesNameMappings
<1>5. \A p, g : TakenBy(p, g)' = TakenBy(p, g) BY <1>1 DEF TakenBy
<1>6. CheckHolds' BY <1>1, <1>2, <1>3 DEF Saving, CheckHolds, TakenBy
<1>7. SharedPortWasRaced' BY <1>1 DEF Saving, SharedPortWasRaced
<1> QED BY <1>4, <1>6, <1>7 DEF Saving

LEMMA WriteSaves ==
  ASSUME ListenersTypeOK, Saving, NEW a \in Admins, WriteSave(a)
  PROVE  Saving'
<1> DEFINE s == save[a]
<1>1. s \in SaveState /\ s.at = "write" BY DEF WriteSave, ListenersTypeOK
<1>2. s.guid \in Mappings BY <1>1 DEF Saving, SavesNameMappings
<1>3. /\ table'[s.guid] = [port |-> s.port, on |-> s.on]
      /\ \A m \in Mappings \ {s.guid} : table'[m] = table[m]
  BY <1>2 DEF WriteSave, ListenersTypeOK
<1>4. s.on /\ ~s.late => \A n \in Mappings \ {s.guid} : ~(table[n].on /\ table[n].port = s.port)
  BY <1>1 DEF Saving, CheckHolds, TakenBy
<1>5. save'[a].at = "idle" BY DEF WriteSave, NoSave
<1>6. ASSUME NEW b \in Admins, b # a
      PROVE  /\ save'[b].at = save[b].at /\ save'[b].guid = save[b].guid
             /\ save'[b].port = save[b].port /\ save'[b].on = save[b].on
             /\ save'[b].late <=>
                  \/ save[b].late
                  \/ /\ save[b].at = "write" /\ save[b].on /\ s.on
                     /\ save[b].port = s.port /\ save[b].guid # s.guid
  <2> DEFINE l == save[b].late \/
                  (/\ b # a /\ save[b].at = "write" /\ save[b].on
                   /\ save[a].on /\ save[b].port = save[a].port
                   /\ save[b].guid # save[a].guid)
  <2>1. save'[b] = [save[b] EXCEPT !.late = l] BY <1>6 DEF WriteSave
  <2>2. save[b] \in SaveState BY DEF ListenersTypeOK
  <2>3. l <=> \/ save[b].late
              \/ /\ save[b].at = "write" /\ save[b].on /\ s.on
                 /\ save[b].port = s.port /\ save[b].guid # s.guid
    BY <1>6
  <2> HIDE DEF l
  <2> QED BY <2>1, <2>2, <2>3 DEF SaveState
<1>7. raced' = IF s.late THEN raced \cup {s.guid} ELSE raced \ {s.guid} BY DEF WriteSave
<1> HIDE DEF s
<1>8. SavesNameMappings' BY <1>5, <1>6 DEF Saving, SavesNameMappings
<1>9. CheckHolds'
  <2> SUFFICES ASSUME NEW b \in Admins, save'[b].at = "write", save'[b].on, ~save'[b].late,
                      NEW n \in Mappings, n # save'[b].guid,
                      table'[n].on, table'[n].port = save'[b].port
               PROVE  FALSE
    BY DEF CheckHolds, TakenBy
  <2>1. b # a BY <1>5
  <2>2. /\ save[b].at = "write" /\ save[b].on /\ ~save[b].late
        /\ save'[b].port = save[b].port /\ save'[b].guid = save[b].guid
    BY <1>6, <2>1
  <2>3. ~(table[n].on /\ table[n].port = save[b].port)
    BY <2>2 DEF Saving, CheckHolds, TakenBy
  <2>4. n = s.guid BY <1>3, <2>2, <2>3
  <2>5. s.on /\ s.port = save[b].port BY <1>3, <2>2, <2>4
  <2> QED BY <1>6, <2>1, <2>2, <2>4, <2>5
<1>10. SharedPortWasRaced'
  <2> SUFFICES ASSUME NEW m \in Mappings, NEW n \in Mappings, m # n,
                      table'[m].on, table'[n].on, table'[m].port = table'[n].port
               PROVE  m \in raced' \/ n \in raced'
    BY DEF SharedPortWasRaced
  <2>1. CASE m # s.guid /\ n # s.guid
    <3>1. m \in raced \/ n \in raced BY <1>3, <2>1 DEF Saving, SharedPortWasRaced
    <3> QED BY <1>7, <2>1, <3>1
  <2>2. CASE s.late BY <1>2, <1>3, <1>7, <2>1, <2>2
  <2>3. CASE ~s.late /\ m = s.guid
    BY <1>3, <1>4, <2>3
  <2>4. CASE ~s.late /\ n = s.guid
    BY <1>3, <1>4, <2>4
  <2> QED BY <2>1, <2>2, <2>3, <2>4
<1> QED BY <1>8, <1>9, <1>10 DEF Saving

-----------------------------------------------------------------------------
(* Reloading *)

Reloading == NothingAhead /\ ReadIsTrue /\ ChangeIsFollowed /\ AppliedIsTrue
             /\ IdleUnlessRegistered

LEMMA ReloadingKept ==
  ASSUME Reloading,
         UNCHANGED <<table, enabled, registered, version, reload, applied, missed, listeners,
                     stopPc, silent>>
  PROVE  Reloading'
<1>1. Readings' = Readings BY DEF Readings, TakenBy
<1>2. NothingAhead' BY DEF Reloading, NothingAhead
<1>3. ReadIsTrue' BY <1>1 DEF Reloading, ReadIsTrue
<1>4. ChangeIsFollowed' BY DEF Reloading, ChangeIsFollowed, Follows, Stopped
<1>5. AppliedIsTrue' BY <1>1 DEF Reloading, AppliedIsTrue, Stopped, Serves
<1>6. IdleUnlessRegistered' BY DEF Reloading, IdleUnlessRegistered, Nobody
<1> QED BY <1>2, <1>3, <1>4, <1>5, <1>6 DEF Reloading

\* Whatever changed, it is later than what was read; it starts a reload, or is owed.
LEMMA ReloadingChanges ==
  ASSUME ListenersTypeOK, Reloading, Change, UNCHANGED gateway,
         TriggerReload \/ (silent' /\ UNCHANGED reload)
  PROVE  Reloading'
<1>1. version \in Nat /\ applied.last \in Nat /\ applied.newest \in Nat BY DEF ListenersTypeOK
<1>2. version' = version + 1 BY DEF Change
<1>3. UNCHANGED applied /\ UNCHANGED stopPc BY DEF gateway
<1>4. ASSUME NEW r \in Reloaders
      PROVE  reload[r].seen \in Nat /\ reload'[r].seen = reload[r].seen
  <2>1. reload[r] \in ReloadState BY DEF ListenersTypeOK
  <2> QED BY <2>1 DEF TriggerReload, ListenersTypeOK, ReloadState
<1>5. \A r \in Reloaders : reload[r].seen <= version
  BY DEF Reloading, NothingAhead
<1>6. NothingAhead' BY <1>1, <1>2, <1>3, <1>4, <1>5 DEF Reloading, NothingAhead
<1>7. \A r \in Reloaders : reload'[r].seen # version' BY <1>1, <1>2, <1>4, <1>5
<1>8. ReadIsTrue' BY <1>7 DEF ReadIsTrue
<1>9. applied'.last # version'
  BY <1>1, <1>2, <1>3 DEF Reloading, NothingAhead
<1>10. AppliedIsTrue' BY <1>9 DEF AppliedIsTrue
<1>11. ChangeIsFollowed'
  <2>1. CASE TriggerReload
    <3> SUFFICES ASSUME registered PROVE ChangeIsFollowed'
      BY DEF ChangeIsFollowed, gateway
    <3>1. PICK r \in Reloaders : reload' = [reload EXCEPT ![r].at = "setting"]
      BY <2>1 DEF TriggerReload
    <3>2. reload'[r].at = "setting" BY <3>1 DEF ListenersTypeOK, ReloadState
    <3> QED BY <3>2 DEF ChangeIsFollowed, Follows
  <2>2. CASE silent' BY <2>2 DEF ChangeIsFollowed
  <2> QED BY <2>1, <2>2
<1>12. IdleUnlessRegistered'
  BY DEF Reloading, IdleUnlessRegistered, TriggerReload, gateway, Nobody
<1> QED BY <1>6, <1>8, <1>10, <1>11, <1>12 DEF Reloading

LEMMA ReadSettingReloads ==
  ASSUME ListenersTypeOK, Reloading, NEW r \in Reloaders, ReadSetting(r)
  PROVE  Reloading'
<1>1. version \in Nat BY DEF ListenersTypeOK
<1>2. /\ UNCHANGED <<table, enabled, registered, version, listeners, applied, missed, stopPc>>
      /\ ~silent'
  BY DEF ReadSetting, console, gateway
<1>3. /\ reload'[r].at \in {"rows", "apply"}
      /\ ~reload'[r].misread => reload'[r].at = (IF enabled THEN "rows" ELSE "apply")
      /\ reload'[r].seen = version /\ reload'[r].desired = Nobody
      /\ \A q \in Reloaders \ {r} : reload'[q] = reload[q]
  <2>1. PICK read \in {enabled, TRUE} :
          reload' = [reload EXCEPT ![r] = [at |-> IF read THEN "rows" ELSE "apply",
                                           seen |-> version, desired |-> Nobody,
                                           misread |-> read # enabled]]
    BY DEF ReadSetting
  <2> QED BY <2>1 DEF ListenersTypeOK
<1>4. Readings' = Readings BY <1>2 DEF Readings, TakenBy
<1>5. NothingAhead' BY <1>1, <1>2, <1>3 DEF Reloading, NothingAhead
<1>6. ReadIsTrue' BY <1>2, <1>3, <1>4 DEF Reloading, ReadIsTrue
<1>7. ChangeIsFollowed' BY <1>2, <1>3 DEF ChangeIsFollowed, Follows
<1>8. AppliedIsTrue' BY <1>2, <1>4 DEF Reloading, AppliedIsTrue, Stopped, Serves
<1>9. IdleUnlessRegistered'
  BY <1>2 DEF Reloading, IdleUnlessRegistered, ReadSetting, Nobody
<1> QED BY <1>5, <1>6, <1>7, <1>8, <1>9 DEF Reloading

LEMMA ReadRowsReloads ==
  ASSUME ListenersTypeOK, Reloading, NEW r \in Reloaders, ReadRows(r)
  PROVE  Reloading'
<1>1. UNCHANGED <<table, enabled, registered, version, listeners, applied, missed, stopPc,
                  silent>>
  BY DEF ReadRows, console, gateway
<1>2. /\ reload'[r].at = "apply" /\ reload'[r].seen = reload[r].seen
      /\ reload'[r].misread = reload[r].misread
      /\ reload'[r].desired \in Readings
      /\ \A q \in Reloaders \ {r} : reload'[q] = reload[q]
  <2>1. PICK d \in Readings :
          reload' = [reload EXCEPT ![r] = [reload[r] EXCEPT !.at = "apply", !.desired = d]]
    BY DEF ReadRows, ListenersTypeOK
  <2>2. reload[r] \in ReloadState BY DEF ListenersTypeOK
  <2>3. reload'[r] = [reload[r] EXCEPT !.at = "apply", !.desired = d]
    BY <2>1 DEF ListenersTypeOK
  <2> QED BY <2>1, <2>2, <2>3 DEF ListenersTypeOK, ReloadState
<1>3. Readings' = Readings BY <1>1 DEF Readings, TakenBy
<1>4. reload[r].at = "rows" BY DEF ReadRows
<1>5. NothingAhead' BY <1>1, <1>2 DEF Reloading, NothingAhead
<1>6. ReadIsTrue' BY <1>1, <1>2, <1>3, <1>4 DEF Reloading, ReadIsTrue
<1>7. ChangeIsFollowed'
  <2>1. ASSUME NEW q \in Reloaders, Follows(q) PROVE Follows(q)'
    BY <1>1, <1>2, <1>4, <2>1 DEF Follows
  <2> QED BY <1>1, <2>1 DEF Reloading, ChangeIsFollowed, Stopped
<1>8. AppliedIsTrue' BY <1>1, <1>3 DEF Reloading, AppliedIsTrue, Stopped, Serves
<1>9. IdleUnlessRegistered'
  BY <1>1, <1>4 DEF Reloading, IdleUnlessRegistered, Nobody
<1> QED BY <1>5, <1>6, <1>7, <1>8, <1>9 DEF Reloading

LEMMA ReadFailsReloads ==
  ASSUME ListenersTypeOK, Reloading, NEW r \in Reloaders, ReadFails(r)
  PROVE  Reloading'
<1>1. /\ UNCHANGED <<table, enabled, registered, version, listeners, applied, missed, stopPc>>
      /\ silent'
  BY DEF ReadFails, console, gateway
<1>2. /\ reload'[r].at = "idle" /\ reload'[r].seen = 0
      /\ \A q \in Reloaders \ {r} : reload'[q] = reload[q]
  BY DEF ReadFails, ListenersTypeOK, NoReload
<1>3. Readings' = Readings BY <1>1 DEF Readings, TakenBy
<1>4. version \in Nat BY DEF ListenersTypeOK
<1>5. NothingAhead' BY <1>1, <1>2, <1>4 DEF Reloading, NothingAhead
<1>6. ReadIsTrue' BY <1>1, <1>2, <1>3 DEF Reloading, ReadIsTrue
<1>7. ChangeIsFollowed' BY <1>1 DEF ChangeIsFollowed
<1>8. AppliedIsTrue' BY <1>1, <1>3 DEF Reloading, AppliedIsTrue, Stopped, Serves
<1>9. IdleUnlessRegistered'
  BY <1>1, <1>2 DEF Reloading, IdleUnlessRegistered, Nobody
<1> QED BY <1>5, <1>6, <1>7, <1>8, <1>9 DEF Reloading

\* What a reading that saw every change says a port serves is what it should.
LEMMA ReadingServes ==
  ASSUME NEW d, NEW p, IF enabled THEN d \in Readings ELSE d = Nobody, p \in Ports
  PROVE  Serves(p, d[p])
BY DEF Serves, Nobody

LEMMA ApplyReloads ==
  ASSUME ListenersTypeOK, Reloading, NEW r \in Reloaders, Apply(r)
  PROVE  Reloading'
<1>1. UNCHANGED <<table, enabled, registered, version, stopPc, silent>>
  BY DEF Apply, console
<1>2. /\ reload[r].at = "apply"
      /\ reload'[r].at = "idle" /\ reload'[r].seen = 0
      /\ \A q \in Reloaders \ {r} : reload'[q] = reload[q]
  BY DEF Apply, ListenersTypeOK, NoReload
<1>3. Readings' = Readings BY <1>1 DEF Readings, TakenBy
<1>4. /\ version \in Nat /\ reload[r].seen \in Nat
      /\ applied.last \in Nat /\ applied.newest \in Nat
  BY DEF ListenersTypeOK, ReloadState
<1>5. reload[r].seen <= version /\ applied.newest <= version
  BY DEF Reloading, NothingAhead
<1>6. ReadIsTrue'
  <2>1. \A q \in Reloaders : reload'[q].at \in {"rows", "apply"} => reload'[q] = reload[q]
    BY <1>2
  <2> QED BY <1>1, <1>3, <2>1 DEF Reloading, ReadIsTrue
<1>9. IdleUnlessRegistered'
  BY <1>1, <1>2 DEF Reloading, IdleUnlessRegistered
<1>7. CASE Stopped
  <2>1. UNCHANGED <<listeners, missed, applied>> /\ Stopped' BY <1>1, <1>7 DEF Apply, Stopped
  <2>2. NothingAhead' BY <1>1, <1>2, <1>4, <2>1 DEF Reloading, NothingAhead
  <2>3. ChangeIsFollowed' BY <2>1 DEF ChangeIsFollowed
  <2>4. AppliedIsTrue' BY <2>1 DEF AppliedIsTrue
  <2> QED BY <1>6, <1>9, <2>2, <2>3, <2>4 DEF Reloading
<1>8. CASE ~Stopped
  <2>1. /\ applied'.last = reload[r].seen /\ applied'.misread = reload[r].misread
        /\ applied'.newest = IF reload[r].seen > applied.newest THEN reload[r].seen
                             ELSE applied.newest
        /\ listeners' = Listening(reload[r].desired)
        /\ missed' = CannotListen(reload[r].desired)
    BY <1>8 DEF Apply
  <2>2. NothingAhead' BY <1>1, <1>2, <1>4, <1>5, <2>1 DEF Reloading, NothingAhead
  <2>3. ChangeIsFollowed'
    <3>1. CASE reload[r].seen = version \/ applied.newest = version
      <4>1. applied'.newest = version BY <1>4, <1>5, <2>1, <3>1
      <4> QED BY <1>1, <4>1 DEF ChangeIsFollowed
    <3>2. CASE reload[r].seen # version /\ applied.newest # version
      <4>1. ~Follows(r) BY <1>2, <3>2 DEF Follows
      <4>2. ASSUME NEW q \in Reloaders, Follows(q) PROVE Follows(q)'
        BY <1>1, <1>2, <4>1, <4>2 DEF Follows
      <4> QED BY <1>1, <3>2, <4>2 DEF Reloading, ChangeIsFollowed, Stopped
    <3> QED BY <3>1, <3>2
  <2>4. AppliedIsTrue'
    <3> SUFFICES ASSUME applied'.last = version', ~applied'.misread, NEW p \in Ports, p \notin missed'
                 PROVE  Serves(p, listeners[p])'
      BY DEF AppliedIsTrue
    <3>1. reload[r].seen = version /\ ~reload[r].misread BY <1>1, <2>1
    <3>2. IF enabled THEN reload[r].desired \in Readings ELSE reload[r].desired = Nobody
      BY <1>2, <3>1 DEF Reloading, ReadIsTrue
    <3>3. Serves(p, reload[r].desired[p]) BY <3>2, ReadingServes
    <3>4. listeners'[p] = reload[r].desired[p] BY <2>1 DEF Listening
    <3> QED BY <1>1, <1>3, <3>3, <3>4 DEF Serves
  <2> QED BY <1>6, <1>9, <2>2, <2>3, <2>4 DEF Reloading
<1> QED BY <1>7, <1>8

LEMMA OthersReload ==
  ASSUME ListenersTypeOK, Reloading, Others
  PROVE  Reloading'
<1>1. CASE BeginStop
  <2>1. UNCHANGED <<table, enabled, registered, version, reload, applied>> /\ Stopped'
    BY <1>1 DEF BeginStop, console, Stopped
  <2>2. Readings' = Readings BY <2>1 DEF Readings, TakenBy
  <2>3. NothingAhead' BY <2>1 DEF Reloading, NothingAhead
  <2>4. ReadIsTrue' BY <2>1, <2>2 DEF Reloading, ReadIsTrue
  <2>5. ChangeIsFollowed' /\ AppliedIsTrue' BY <2>1 DEF ChangeIsFollowed, AppliedIsTrue
  <2>6. IdleUnlessRegistered' BY <1>1, <2>1 DEF BeginStop, IdleUnlessRegistered
  <2> QED BY <2>3, <2>4, <2>5, <2>6 DEF Reloading
<1>2. CASE CloseListeners \/ WaitHandlers
  <2>1. UNCHANGED <<table, enabled, registered, version, reload, listeners, applied>> /\ Stopped'
    BY <1>2 DEF CloseListeners, WaitHandlers, console, Stopped
  <2>2. Readings' = Readings BY <2>1 DEF Readings, TakenBy
  <2>3. NothingAhead' BY <2>1 DEF Reloading, NothingAhead
  <2>4. ReadIsTrue' BY <2>1, <2>2 DEF Reloading, ReadIsTrue
  <2>5. ChangeIsFollowed' /\ AppliedIsTrue' BY <2>1 DEF ChangeIsFollowed, AppliedIsTrue
  <2>6. IdleUnlessRegistered' BY <2>1 DEF Reloading, IdleUnlessRegistered, Nobody
  <2> QED BY <2>3, <2>4, <2>5, <2>6 DEF Reloading
<1>3. CASE ~BeginStop /\ ~(CloseListeners \/ WaitHandlers)
  <2>1. UNCHANGED <<table, enabled, registered, version, reload, applied, missed, listeners,
                    stopPc, silent>>
    BY <1>3 DEF Others, Occupy, Vacate, Accept, EndConn, Block, Unblock, console, gateway
  <2> QED BY <2>1, ReloadingKept
<1> QED BY <1>1, <1>2, <1>3

-----------------------------------------------------------------------------

LEMMA ListenersParts ==
  /\ ListenersInductive <=> ListenersTypeOK /\ Saving /\ Reloading
  /\ ListenersInductive' <=> ListenersTypeOK' /\ Saving' /\ Reloading'
BY DEF ListenersInductive, Saving, Reloading

LEMMA ListenersStart == ListenersInit => ListenersInductive
<1> SUFFICES ASSUME ListenersInit PROVE ListenersInductive
  OBVIOUS
<1>1. PICK r \in Reloaders :
        reload = [s \in Reloaders |->
                    IF registered /\ s = r THEN [NoReload EXCEPT !.at = "setting"] ELSE NoReload]
  BY DEF ListenersInit
<1>2. /\ [NoReload EXCEPT !.at = "setting"].at = "setting"
      /\ [NoReload EXCEPT !.at = "setting"].seen = 0
  BY DEF NoReload
<1>3. [NoReload EXCEPT !.at = "setting"] \in ReloadState
  BY NothingTypes DEF ReloadState
<1>4. reload \in [Reloaders -> ReloadState] BY <1>1, <1>2, <1>3, NothingTypes
<1>5. ListenersTypeOK
  <2>1. 0 \in 0 .. MaxRequests BY ListenersAssumption
  <2>2. save \in [Admins -> SaveState] /\ table \in [Mappings -> MappingRow]
    BY NothingTypes DEF ListenersInit
  <2>3. applied \in [last : Nat, newest : Nat, misread : BOOLEAN] BY DEF ListenersInit
  <2> QED BY <1>4, <2>1, <2>2, <2>3, NothingTypes DEF ListenersInit, ListenersTypeOK
<1>6. Saving
  BY DEF ListenersInit, Saving, SavesNameMappings, CheckHolds, SharedPortWasRaced, NoSave, NoRow
<1>7. \A s \in Reloaders : reload[s].seen = 0 /\ reload[s].at \in {"idle", "setting"}
  BY <1>1, <1>2 DEF NoReload
<1>12. IdleUnlessRegistered BY <1>1 DEF ListenersInit, IdleUnlessRegistered, NoReload
<1>8. NothingAhead BY <1>7 DEF ListenersInit, NothingAhead
<1>9. ReadIsTrue BY <1>7 DEF ReadIsTrue
<1>10. ChangeIsFollowed BY DEF ListenersInit, ChangeIsFollowed
<1>11. AppliedIsTrue
  <2>1. \A p \in Ports : TakenBy(p, None) = {} BY DEF ListenersInit, TakenBy, NoRow
  <2>2. Nobody \in Readings BY <2>1, NothingTypes DEF Readings, Nobody
  <2> QED BY <2>2, ReadingServes DEF ListenersInit, AppliedIsTrue
<1> QED BY <1>5, <1>6, <1>8, <1>9, <1>10, <1>11, <1>12, ListenersParts DEF Reloading

LEMMA ListenersStep == ListenersInductive /\ [ListenersNext]_listenersVars => ListenersInductive'
<1> SUFFICES ASSUME ListenersTypeOK, Saving, Reloading, [ListenersNext]_listenersVars
             PROVE  ListenersTypeOK' /\ Saving' /\ Reloading'
  BY ListenersParts
<1>1. ASSUME NEW a \in Admins,
             \/ \E m \in Mappings, p \in Ports \cup {0}, on \in BOOLEAN : BeginSave(a, m, p, on)
             \/ CheckPort(a)
      PROVE  ListenersTypeOK' /\ Saving' /\ Reloading'
  <2>1. ListenersTypeOK' BY <1>1, SaveTypes DEF Saving
  <2>2. Saving' BY <1>1, RequestSaves
  <2>3. UNCHANGED <<table, enabled, registered, version, reload, applied, missed, listeners,
                    stopPc, silent>>
    BY <1>1 DEF BeginSave, CheckPort, gateway
  <2>4. Reloading' BY <2>3, ReloadingKept
  <2> QED BY <2>1, <2>2, <2>4
<1>2. ASSUME NEW a \in Admins, WriteSave(a)
      PROVE  ListenersTypeOK' /\ Saving' /\ Reloading'
  <2>1. ListenersTypeOK' BY <1>2, SaveTypes DEF Saving
  <2>2. Saving' BY <1>2, WriteSaves
  <2>3. Change /\ UNCHANGED gateway /\ TriggerReload BY <1>2 DEF WriteSave
  <2>4. Reloading' BY <2>3, ReloadingChanges
  <2> QED BY <2>1, <2>2, <2>4
<1>3. ASSUME \/ \E m \in Mappings : Disable(m)
             \/ SetEnabled
             \/ \E d \in Devices : DeleteDevice(d)
      PROVE  ListenersTypeOK' /\ Saving' /\ Reloading'
  <2>1. ListenersTypeOK' BY <1>3, ConsoleTypes
  <2>2. UNCHANGED <<save, raced>> BY <1>3 DEF Disable, SetEnabled, DeleteDevice
  <2>3. \A m \in Mappings : table'[m] = table[m] \/ ~table'[m].on
    <3>1. CASE \E m \in Mappings : Disable(m)
      <4>1. PICK m \in Mappings : table' = [table EXCEPT ![m].on = FALSE]
        BY <3>1 DEF Disable
      <4> QED BY <4>1 DEF ListenersTypeOK, MappingRow
    <3>2. CASE SetEnabled BY <3>2 DEF SetEnabled
    <3>3. CASE \E d \in Devices : DeleteDevice(d) BY <3>3 DEF DeleteDevice, NoRow
    <3> QED BY <1>3, <3>1, <3>2, <3>3
  <2>4. Saving' BY <2>2, <2>3, SavingShrinks
  <2>5. Change /\ UNCHANGED gateway /\ (TriggerReload \/ (silent' /\ UNCHANGED reload))
    BY <1>3 DEF Disable, SetEnabled, SettingReloads, DeleteDevice
  <2>6. Reloading' BY <2>5, ReloadingChanges
  <2> QED BY <2>1, <2>4, <2>6
<1>4. ASSUME NEW r \in Reloaders, ReadSetting(r) \/ ReadRows(r) \/ ReadFails(r) \/ Apply(r)
      PROVE  ListenersTypeOK' /\ Saving' /\ Reloading'
  <2>1. ListenersTypeOK' BY <1>4, ReloadTypes
  <2>2. UNCHANGED <<table, save, raced>>
    BY <1>4 DEF ReadSetting, ReadRows, ReadFails, Apply, console
  <2>3. Saving' BY <2>2, SavingKept
  <2>4. Reloading'
    BY <1>4, ReadSettingReloads, ReadRowsReloads, ReadFailsReloads, ApplyReloads
  <2> QED BY <2>1, <2>3, <2>4
<1>5. ASSUME Others PROVE ListenersTypeOK' /\ Saving' /\ Reloading'
  <2>1. UNCHANGED <<table, save, raced>>
    BY <1>5 DEF Others, Occupy, Vacate, Accept, EndConn, Block, Unblock, BeginStop, CloseListeners,
                WaitHandlers, console
  <2> QED BY <1>5, <2>1, OthersTypes, SavingKept, OthersReload
<1>6. CASE UNCHANGED listenersVars
  <2>1. ListenersTypeOK' BY <1>6 DEF listenersVars, ListenersTypeOK
  <2>2. Saving' BY <1>6, SavingKept DEF listenersVars
  <2>3. Reloading' BY <1>6, ReloadingKept DEF listenersVars
  <2> QED BY <2>1, <2>2, <2>3
<1> QED BY <1>1, <1>2, <1>3, <1>4, <1>5, <1>6 DEF ListenersNext, Others

\* The rows, the requests and the reloads of the TCP gateway are what they
\* should be, and ListenersInductive says of every reading how old it is.
THEOREM ListenersInvariant == ListenersSpec => []ListenersInductive
BY ListenersStart, ListenersStep, PTL DEF ListenersSpec

\* A port serves something else than the table says, with no reload under way,
\* only for one of the reasons StaleIsExplained names, whatever reloads
\* overlapped and whether or not the gateway was started.
THEOREM StalenessExplained == ListenersSpec => []StaleIsExplained
<1>1. ListenersInductive => StaleIsExplained
  <2> SUFFICES ASSUME ListenersTypeOK, Reloading, ~Stopped,
                      \A r \in Reloaders : reload[r].at = "idle",
                      NEW p \in Ports, ~(applied.last < applied.newest),
                      ~applied.misread, ~silent
               PROVE  \/ Serves(p, listeners[p]) \/ p \in missed
                      \/ ~registered /\ listeners[p] = None
    BY ListenersParts DEF StaleIsExplained
  <2>3. CASE ~registered
    BY <2>3 DEF Reloading, IdleUnlessRegistered, Nobody
  <2>4. CASE registered
    <3>1. applied.newest = version BY <2>4 DEF Reloading, ChangeIsFollowed, Follows
    <3>2. applied.last = version
      BY <3>1 DEF Reloading, NothingAhead, ListenersTypeOK
    <3> QED BY <2>4, <3>2 DEF Reloading, AppliedIsTrue
  <2> QED BY <2>3, <2>4
<1> QED BY <1>1, ListenersInvariant, PTL

\* Two mappings are enabled on one port only if one was written by a request
\* that looked before the other was there.
THEOREM SharingExplained == ListenersSpec => []SharedPortWasRaced
<1>1. ListenersInductive => SharedPortWasRaced BY DEF ListenersInductive
<1> QED BY <1>1, ListenersInvariant, PTL

-----------------------------------------------------------------------------
(* The safety half of StopEnds.                                             *)

NothingComesBack ==
  /\ Stopped => listeners = Nobody
  /\ stopPc \in {"wait", "done"} => closing = Nobody
  /\ stopPc = "done" => \A c \in Conns : conn[c] = "idle"
  /\ ~registered => stopPc = "no" /\ listeners = Nobody /\ closing = Nobody
                    /\ \A c \in Conns : conn[c] = "idle"

\* Once Stop has emptied the map no reload listens again, whatever it had read;
\* once it has closed the listeners nothing is accepted; when it returns no
\* connection is left; and a gateway that was not started has none of all that.
THEOREM ListenersStayClosed == ListenersSpec => []NothingComesBack
<1>1. ListenersInit => NothingComesBack BY DEF ListenersInit, NothingComesBack, Stopped
<1>2. ListenersInductive /\ NothingComesBack /\ [ListenersNext]_listenersVars
        => NothingComesBack'
  <2> SUFFICES ASSUME ListenersTypeOK, Reloading, NothingComesBack,
                      [ListenersNext]_listenersVars
               PROVE  NothingComesBack'
    BY ListenersParts
  <2>1. CASE UNCHANGED <<registered, listeners, closing, stopPc, conn>>
    BY <2>1 DEF NothingComesBack, Stopped, Nobody
  <2>2. ASSUME NEW r \in Reloaders, Apply(r) PROVE NothingComesBack'
    <3>1. registered BY <2>2 DEF Apply, Reloading, IdleUnlessRegistered
    <3>2. UNCHANGED <<registered, closing, stopPc, conn>> BY <2>2 DEF Apply
    <3>3. Stopped => UNCHANGED listeners BY <2>2 DEF Apply
    <3> QED BY <3>1, <3>2, <3>3 DEF NothingComesBack, Stopped, Nobody
  <2>3. ASSUME NEW c \in Conns, NEW p \in Ports, Accept(c, p) PROVE NothingComesBack'
    <3>1. listeners[p] # None \/ closing[p] # None BY <2>3 DEF Accept
    <3>2. stopPc \notin {"wait", "done"} /\ registered
      BY <3>1 DEF NothingComesBack, Stopped, Nobody
    <3> QED BY <2>3, <3>2 DEF Accept, NothingComesBack, Stopped, Nobody
  <2>4. ASSUME NEW c \in Conns, EndConn(c) \/ Block(c) \/ Unblock(c) PROVE NothingComesBack'
    <3>1. stopPc # "done" /\ registered
      BY <2>4 DEF EndConn, Block, Unblock, NothingComesBack
    <3> QED BY <2>4, <3>1 DEF EndConn, Block, Unblock, NothingComesBack, Stopped, Nobody
  <2>5. CASE BeginStop \/ CloseListeners \/ WaitHandlers
    BY <2>5
    DEF BeginStop, CloseListeners, WaitHandlers, NothingComesBack, Stopped, Nobody
  <2> QED
    BY <2>1, <2>2, <2>3, <2>4, <2>5
    DEF ListenersNext, listenersVars, BeginSave, CheckPort, WriteSave, Disable, SetEnabled,
        DeleteDevice, ReadSetting, ReadRows, ReadFails, Occupy, Vacate, console, gateway
<1> QED BY <1>1, <1>2, ListenersInvariant, PTL DEF ListenersSpec

-----------------------------------------------------------------------------
(* AccessLog.                                                                *)

\* A handler that has not returned has not logged yet.
LogsOnce == \A r \in Requests : request[r] # "ended" => fate[r] = "new"

\* An entry that was accepted was logged by a handler that has returned.
Logged ==
  \A r \in Requests : r \in ToSet(queue) \cup ToSet(batch) => request[r] = "ended"

\* What each stage of the shutdown has set, and Stop's lock: nobody who read
\* stopping as false is still about to send.
ShutdownOrder ==
  /\ writer <=> stage \in {"serving", "shutdown", "gatewayStopped"}
  /\ stopping <=> stage \in {"waiting", "logStopped", "exit"}
  /\ stopping => NoSender

\* Shutdown returned without an error only if every handler had returned.
HandlersWaitedFor ==
  stage \notin {"serving", "shutdown"} /\ "gateway" \notin timedOut => HandlersEnded

\* An accepted entry is in the queue or in the batch until it is settled.
Held ==
  \A r \in Requests :
    /\ fate[r] = "waiting" => r \in ToSet(queue) \/ (~Flushing /\ r \in ToSet(batch))
    /\ fate[r] = "working" => Flushing /\ r \in ToSet(batch)

\* Where run is, and what it holds there.
WorkerHolds ==
  /\ Flushing => batch # <<>> /\ \A r \in ToSet(batch) : fate[r] = "working"
  /\ ~Flushing => Len(batch) < BatchSize
  /\ worker \notin {"select", "flush"} => stopping
  /\ worker = "lastFlush" => queue = <<>>
  /\ worker = "ended" => queue = <<>> /\ batch = <<>>

WaitedForWriter ==
  stage \in {"logStopped", "exit"} /\ "log" \notin timedOut => worker = "ended"

Inductive ==
  /\ TypeOK /\ LogsOnce /\ ShutdownOrder /\ HandlersWaitedFor /\ RefusedAfterTimeout
  /\ Logged /\ Held /\ WorkerHolds /\ WaitedForWriter

USE SizesAssumption

-----------------------------------------------------------------------------
(* What is in a sequence. *)

LEMMA ToSetEmpty == ToSet(<<>>) = {}
  BY DEF ToSet

LEMMA ToSetAppend ==
  ASSUME NEW S, NEW s \in Seq(S), NEW e \in S
  PROVE  ToSet(Append(s, e)) = ToSet(s) \cup {e}
<1>1. /\ DOMAIN s = 1 .. Len(s) /\ Len(s) \in Nat
      /\ DOMAIN Append(s, e) = 1 .. Len(s) + 1
      /\ \A i \in 1 .. Len(s) : Append(s, e)[i] = s[i]
      /\ Append(s, e)[Len(s) + 1] = e
  OBVIOUS
<1>2. ASSUME NEW x \in ToSet(Append(s, e)) PROVE x \in ToSet(s) \cup {e}
  <2>1. PICK i \in 1 .. Len(s) + 1 : x = Append(s, e)[i] BY <1>1, <1>2 DEF ToSet
  <2>2. CASE i = Len(s) + 1 BY <1>1, <2>1, <2>2
  <2>3. CASE i # Len(s) + 1
    <3>1. i \in 1 .. Len(s) BY <1>1, <2>3
    <3> QED BY <1>1, <2>1, <3>1 DEF ToSet
  <2> QED BY <2>2, <2>3
<1>3. ASSUME NEW x \in ToSet(s) \cup {e} PROVE x \in ToSet(Append(s, e))
  <2>1. CASE x = e BY <1>1, <2>1 DEF ToSet
  <2>2. CASE x \in ToSet(s)
    <3>1. PICK i \in 1 .. Len(s) : x = s[i] BY <1>1, <2>2 DEF ToSet
    <3>2. i \in 1 .. Len(s) + 1 BY <1>1
    <3> QED BY <1>1, <3>1, <3>2 DEF ToSet
  <2> QED BY <1>3, <2>1, <2>2
<1> QED BY <1>2, <1>3

LEMMA ToSetHeadTail ==
  ASSUME NEW S, NEW s \in Seq(S), s # <<>>
  PROVE  ToSet(s) = {Head(s)} \cup ToSet(Tail(s))
<1>1. /\ DOMAIN s = 1 .. Len(s) /\ Len(s) \in Nat \ {0}
      /\ DOMAIN Tail(s) = 1 .. Len(s) - 1
      /\ \A i \in 1 .. Len(s) - 1 : Tail(s)[i] = s[i + 1]
      /\ Head(s) = s[1]
  OBVIOUS
<1>2. ASSUME NEW e \in ToSet(s) PROVE e \in {Head(s)} \cup ToSet(Tail(s))
  <2>1. PICK i \in 1 .. Len(s) : e = s[i] BY <1>1, <1>2 DEF ToSet
  <2>2. CASE i = 1 BY <1>1, <2>1, <2>2
  <2>3. CASE i # 1
    <3>1. i - 1 \in 1 .. Len(s) - 1 /\ e = Tail(s)[i - 1] BY <1>1, <2>1, <2>3
    <3> QED BY <1>1, <3>1 DEF ToSet
  <2> QED BY <2>2, <2>3
<1>3. ASSUME NEW e \in {Head(s)} \cup ToSet(Tail(s)) PROVE e \in ToSet(s)
  BY <1>1 DEF ToSet
<1> QED BY <1>2, <1>3

LEMMA ToSetNonEmpty ==
  ASSUME NEW S, NEW s \in Seq(S), s # <<>>
  PROVE  ToSet(s) # {} /\ ToSet(s) \subseteq S
  BY ToSetHeadTail DEF ToSet

-----------------------------------------------------------------------------
(* Types. *)

LEMMA TypeInit == Init => TypeOK
<1> SUFFICES ASSUME Init PROVE TypeOK OBVIOUS
<1>1. /\ request \in [Requests -> HandlerStates] /\ fate \in [Requests -> Fates]
      /\ stage \in Stages /\ worker \in WorkerStates
  BY DEF Init, HandlerStates, Fates, Stages, WorkerStates
<1>2. /\ queue \in Seq(Requests) /\ Len(queue) <= QueueSize
      /\ batch \in Seq(Requests) /\ Len(batch) <= BatchSize
      /\ attempt \in 0 .. (MaxAttempts - 1)
  BY DEF Init
<1> QED BY <1>1, <1>2 DEF Init, TypeOK

LEMMA TypeHandler ==
  ASSUME TypeOK, NEW r \in Requests, Handler(r)
  PROVE  TypeOK'
<1>1. request' \in [Requests -> HandlerStates]
  BY DEF TypeOK, HandlerStates, Handler, Move, Arrive, Reject, Respond, CloseBody, SwitchProtocols,
         ReadWriter, CheckStopping, Send
<1>2. fate' \in [Requests -> Fates]
  BY DEF TypeOK, Fates, Handler, Arrive, Reject, Respond, CloseBody, SwitchProtocols,
         ReadWriter, CheckStopping, Send
<1>3. queue' \in Seq(Requests) /\ Len(queue') <= QueueSize
  <2>1. CASE queue' = queue BY <2>1 DEF TypeOK
  <2>2. CASE Len(queue) < QueueSize /\ queue' = Append(queue, r)
    BY <2>2, AppendProperties DEF TypeOK
  <2> QED BY <2>1, <2>2 DEF Handler, Arrive, Reject, Respond, CloseBody, SwitchProtocols,
             ReadWriter, CheckStopping, Send
<1>4. UNCHANGED <<stage, timedOut, writer, stopping, batch, attempt, worker>>
  BY DEF Handler, Arrive, Reject, Respond, CloseBody, SwitchProtocols, ReadWriter, CheckStopping,
         Send, workerVars
<1> QED BY <1>1, <1>2, <1>3, <1>4 DEF TypeOK

\* Collect needs to know that the batch is not full yet.
LEMMA TypeCollect ==
  ASSUME TypeOK, WorkerHolds, Collect
  PROVE  TypeOK'
<1>1. Len(batch) < BatchSize BY DEF WorkerHolds, Collect, Flushing
<1>2. /\ queue' \in Seq(Requests) /\ Len(queue') <= QueueSize
      /\ batch' \in Seq(Requests) /\ Len(batch') <= BatchSize
  BY <1>1 DEF TypeOK, Collect
<1>3. fate' \in [Requests -> Fates] BY DEF TypeOK, Fates, Collect
<1>4. worker' \in WorkerStates /\ attempt' \in 0 .. (MaxAttempts - 1)
  BY DEF TypeOK, WorkerStates, Collect, BeginFlush
<1> QED BY <1>2, <1>3, <1>4 DEF TypeOK, Collect

LEMMA TypeRun ==
  ASSUME TypeOK, WorkerHolds, Run
  PROVE  TypeOK'
<1>1. CASE Collect BY <1>1, TypeCollect
<1>2. CASE Tick
  BY <1>2 DEF Tick, BeginFlush, Settled, TypeOK, Fates, WorkerStates
<1>3. CASE SeeCancel BY <1>3 DEF SeeCancel, httpVars, TypeOK, WorkerStates
<1>4. CASE Drained
  BY <1>4 DEF Drained, BeginFlush, Settled, TypeOK, Fates, WorkerStates
<1>5. ASSUME NEW outcome \in {"done", "lost"}, EndFlush(outcome) PROVE TypeOK'
  BY <1>5 DEF EndFlush, AfterFlush, Settled, TypeOK, Fates, WorkerStates
<1>6. CASE InsertBusy BY <1>6 DEF InsertBusy, httpVars, TypeOK
<1> QED BY <1>1, <1>2, <1>3, <1>4, <1>5, <1>6 DEF Run, Insert, InsertFails

LEMMA TypeShutdown == TypeOK /\ Shutdown => TypeOK'
  BY DEF TypeOK, Stages, Shutdown, Advance, BeginShutdown, GatewayStops,
         GatewayTimesOut, UnsetWriter, StopWriter, WriterStops, WriterTimesOut,
         Exit, workerVars

-----------------------------------------------------------------------------
(* The handlers. *)

\* A handler that has not returned when Shutdown has: the deadline had passed.
LEMMA StillHandled ==
  ASSUME HandlersWaitedFor, NEW r \in Requests, request[r] \notin {"none", "ended"},
         stage \notin {"serving", "shutdown"}
  PROVE  "gateway" \in timedOut
  BY DEF HandlersWaitedFor, HandlersEnded

LEMMA MovePreserves ==
  ASSUME Inductive, NEW r \in Requests,
         Arrive(r) \/ Reject(r) \/ Respond(r) \/ CloseBody(r) \/ SwitchProtocols(r)
  PROVE  Inductive'
<1>1. TypeOK' BY TypeHandler DEF Inductive, Handler
<1>2. /\ UNCHANGED <<stage, timedOut, fate, writer, stopping, queue, workerVars>>
      /\ request[r] \notin {"sending", "ended"} /\ request'[r] # "sending"
      /\ request[r] = "none" => stage = "serving"
      /\ \A q \in Requests \ {r} : request'[q] = request[q]
  BY DEF Inductive, TypeOK, Move, Arrive, Reject, Respond, CloseBody, SwitchProtocols
<1>3. LogsOnce' BY <1>2 DEF Inductive, LogsOnce
<1>4. ShutdownOrder' BY <1>2 DEF Inductive, ShutdownOrder, NoSender
<1>5. HandlersWaitedFor'
  BY <1>2, StillHandled DEF Inductive, HandlersWaitedFor, HandlersEnded
<1>6. (RefusedAfterTimeout /\ Logged /\ Held /\ WorkerHolds /\ WaitedForWriter)'
  BY <1>2 DEF Inductive, RefusedAfterTimeout, Logged, Held, WorkerHolds, WaitedForWriter,
              Flushing, workerVars
<1> QED BY <1>1, <1>3, <1>4, <1>5, <1>6 DEF Inductive

\* The steps that settle what becomes of the entry without the queue.
LEMMA RefusePreserves ==
  ASSUME Inductive, NEW r \in Requests, ReadWriter(r) \/ CheckStopping(r)
  PROVE  Inductive'
<1>1. TypeOK' BY TypeHandler DEF Inductive, Handler
<1>2. /\ UNCHANGED <<stage, timedOut, writer, stopping, queue, batch, attempt, worker>>
      /\ request[r] \in {"logging", "offering"} /\ fate[r] = "new"
      /\ request'[r] = "sending" => ~stopping
      /\ \/ request'[r] = "ended" /\ fate'[r] = "refused" /\ (~writer \/ stopping)
         \/ request'[r] # "ended" /\ fate'[r] = "new"
      /\ \A q \in Requests \ {r} : request'[q] = request[q] /\ fate'[q] = fate[q]
  BY DEF Inductive, TypeOK, LogsOnce, Move, ReadWriter, CheckStopping, workerVars
<1>3. LogsOnce' BY <1>2 DEF Inductive, LogsOnce
<1>4. ShutdownOrder' BY <1>2 DEF Inductive, ShutdownOrder, NoSender
<1>5. HandlersWaitedFor'
  BY <1>2, StillHandled DEF Inductive, HandlersWaitedFor, HandlersEnded
<1>6. RefusedAfterTimeout'
  <2>1. ~writer \/ stopping => stage \notin {"serving", "shutdown"}
    BY DEF Inductive, ShutdownOrder
  <2> QED BY <1>2, <2>1, StillHandled DEF Inductive, RefusedAfterTimeout
<1>7. (Logged /\ Held /\ WorkerHolds /\ WaitedForWriter)'
  <2>1. r \notin ToSet(batch) \/ ~Flushing
    BY <1>2 DEF Inductive, WorkerHolds
  <2>2. Logged' /\ Held' BY <1>2 DEF Inductive, Logged, Held, Flushing
  <2>3. WorkerHolds' BY <1>2, <2>1 DEF Inductive, WorkerHolds, Flushing, TypeOK, ToSet
  <2> QED BY <1>2, <2>2, <2>3 DEF Inductive, WaitedForWriter
<1> QED BY <1>1, <1>3, <1>4, <1>5, <1>6, <1>7 DEF Inductive

LEMMA SendPreserves ==
  ASSUME Inductive, NEW r \in Requests, Send(r)
  PROVE  Inductive'
<1>1. TypeOK' BY TypeHandler DEF Inductive, Handler
<1>2. /\ UNCHANGED <<stage, timedOut, writer, stopping, batch, attempt, worker>>
      /\ request[r] = "sending" /\ fate[r] = "new" /\ ~stopping
      /\ request'[r] = "ended" /\ fate'[r] \in {"waiting", "full"}
      /\ \A q \in Requests \ {r} : request'[q] = request[q] /\ fate'[q] = fate[q]
  BY DEF Inductive, TypeOK, LogsOnce, ShutdownOrder, NoSender, Move, Send, workerVars
<1>3. /\ ToSet(queue) \subseteq ToSet(queue')
      /\ fate'[r] = "waiting" => r \in ToSet(queue')
  BY ToSetAppend DEF Inductive, TypeOK, Send
<1>4. LogsOnce' BY <1>2 DEF Inductive, LogsOnce
<1>5. ShutdownOrder' BY <1>2 DEF Inductive, ShutdownOrder, NoSender
<1>6. HandlersWaitedFor'
  BY <1>2, StillHandled DEF Inductive, HandlersWaitedFor, HandlersEnded
<1>7. RefusedAfterTimeout' BY <1>2 DEF Inductive, RefusedAfterTimeout
<1>8. Held'
  <2>1. SUFFICES ASSUME NEW q \in Requests
                 PROVE (/\ fate[q] = "waiting" => q \in ToSet(queue)
                                                \/ (~Flushing /\ q \in ToSet(batch))
                        /\ fate[q] = "working" => Flushing /\ q \in ToSet(batch))'
    BY DEF Held
  <2> QED BY <1>2, <1>3 DEF Inductive, Held, Flushing
<1>9. WorkerHolds'
  <2>1. r \notin ToSet(batch) \/ ~Flushing
    BY <1>2 DEF Inductive, WorkerHolds
  <2>2. ToSet(batch) \subseteq Requests BY DEF Inductive, TypeOK, ToSet
  <2>3. worker \in {"select", "flush"} BY <1>2 DEF Inductive, WorkerHolds
  <2> QED BY <1>2, <2>1, <2>2, <2>3 DEF Inductive, WorkerHolds, Flushing
<1>10. WaitedForWriter' BY <1>2 DEF Inductive, WaitedForWriter
<1>11. Logged'
  <2>1. ToSet(queue') \subseteq ToSet(queue) \cup {r}
    BY ToSetAppend DEF Inductive, TypeOK, Send
  <2> QED BY <1>2, <2>1 DEF Inductive, Logged
<1> QED BY <1>1, <1>4, <1>5, <1>6, <1>7, <1>8, <1>9, <1>10, <1>11 DEF Inductive

-----------------------------------------------------------------------------
(* The writer goroutine: it changes neither stage nor handlers. *)

LEMMA RunLeaves ==
  ASSUME Run
  PROVE  /\ UNCHANGED <<stage, timedOut, request, writer, stopping>>
         /\ worker # "ended"
  BY DEF Run, Collect, Tick, SeeCancel, Drained, Insert, InsertFails, EndFlush,
         InsertBusy, BeginFlush, httpVars

\* It settles entries no handler is still about to log.
LEMMA RunFates ==
  ASSUME Inductive, Run
  PROVE  \A r \in Requests :
           fate'[r] # fate[r] => /\ fate'[r] \in {"working", "done", "lost"}
                                 /\ r \in ToSet(batch) \cup ToSet(queue)
<1>1. CASE Collect
  <2>1. queue # <<>> /\ batch \in Seq(Requests) /\ queue \in Seq(Requests)
    BY <1>1 DEF Collect, Inductive, TypeOK
  <2>2. ToSet(batch') \subseteq ToSet(batch) \cup ToSet(queue)
    BY <1>1, <2>1, ToSetAppend, ToSetHeadTail, HeadTailProperties DEF Collect
  <2> QED BY <1>1, <2>2 DEF Collect
<1>2. CASE Tick BY <1>2 DEF Tick, Settled
<1>3. CASE SeeCancel BY <1>3 DEF SeeCancel, httpVars
<1>4. CASE Drained BY <1>4 DEF Drained, Settled
<1>5. CASE Insert \/ InsertFails BY <1>5 DEF Insert, InsertFails, EndFlush, Settled
<1>6. CASE InsertBusy BY <1>6 DEF InsertBusy, httpVars
<1> QED BY <1>1, <1>2, <1>3, <1>4, <1>5, <1>6 DEF Run

LEMMA RunKeepsHandlers ==
  ASSUME Inductive, Run
  PROVE  /\ LogsOnce' /\ ShutdownOrder' /\ HandlersWaitedFor'
         /\ RefusedAfterTimeout' /\ WaitedForWriter'
<1>1. /\ UNCHANGED <<stage, timedOut, request, writer, stopping>> /\ worker # "ended"
  BY RunLeaves
<1>2. ShutdownOrder' BY <1>1 DEF Inductive, ShutdownOrder, NoSender
<1>3. HandlersWaitedFor' BY <1>1 DEF Inductive, HandlersWaitedFor, HandlersEnded
<1>4. LogsOnce' BY <1>1, RunFates DEF Inductive, LogsOnce, Logged
<1>5. RefusedAfterTimeout' BY <1>1, RunFates DEF Inductive, RefusedAfterTimeout
<1>6. WaitedForWriter' BY <1>1 DEF Inductive, WaitedForWriter
<1> QED BY <1>2, <1>3, <1>4, <1>5, <1>6

LEMMA CollectPreserves ==
  ASSUME Inductive, Collect
  PROVE  Inductive'
<1>1. TypeOK' BY TypeCollect DEF Inductive
<1>2. LogsOnce' /\ ShutdownOrder' /\ HandlersWaitedFor' /\ RefusedAfterTimeout'
      /\ WaitedForWriter'
  BY RunKeepsHandlers DEF Run
<1>3. /\ batch \in Seq(Requests) /\ queue \in Seq(Requests) /\ queue # <<>>
      /\ queue' \in Seq(Requests) /\ batch' \in Seq(Requests)
      /\ batch' = Append(batch, Head(queue)) /\ queue' = Tail(queue)
      /\ Head(queue) \in Requests /\ worker \in {"select", "drain"}
      /\ stopping' = stopping /\ request' = request
      /\ fate \in [Requests -> Fates]
  BY HeadTailProperties DEF Collect, Inductive, TypeOK
<1>4. /\ ToSet(batch') = ToSet(batch) \cup {Head(queue)}
      /\ ToSet(queue) = {Head(queue)} \cup ToSet(queue')
      /\ batch' # <<>>
  BY <1>3, ToSetAppend, ToSetHeadTail, AppendProperties
<1>5. Logged' BY <1>3, <1>4 DEF Inductive, Logged
<1>6. CASE Len(batch') >= BatchSize
  <2>1. /\ worker' \in {"flush", "drainFlush"}
        /\ worker = "select" <=> worker' = "flush"
        /\ fate' = [r \in Requests |-> IF r \in ToSet(batch') THEN "working" ELSE fate[r]]
    BY <1>3, <1>6 DEF Collect, BeginFlush
  <2>2. /\ Flushing' /\ ~Flushing BY <1>3, <2>1 DEF Flushing
  <2>3. ToSet(batch') \subseteq Requests BY <1>3 DEF ToSet
  <2>4. Held'
    <3> SUFFICES ASSUME NEW r \in Requests
                 PROVE  (/\ fate[r] = "waiting" => r \in ToSet(queue)
                                              \/ (~Flushing /\ r \in ToSet(batch))
                         /\ fate[r] = "working" => Flushing /\ r \in ToSet(batch))'
      BY DEF Held
    <3>1. /\ fate[r] = "waiting" => r \in ToSet(queue) \/ r \in ToSet(batch)
          /\ fate[r] # "working"
      BY <2>2 DEF Inductive, Held
    <3> QED BY <1>4, <2>1, <2>2, <3>1
  <2>5. WorkerHolds'
    <3>1. worker' # "flush" => stopping BY <1>3, <2>1 DEF Inductive, WorkerHolds
    <3> QED BY <1>3, <1>4, <2>1, <2>2, <2>3, <3>1 DEF WorkerHolds
  <2> QED BY <1>1, <1>2, <1>5, <2>4, <2>5 DEF Inductive
<1>7. CASE ~(Len(batch') >= BatchSize)
  <2>1. UNCHANGED <<worker, attempt, fate>> /\ Len(batch') < BatchSize
    BY <1>3, <1>7 DEF Collect
  <2>2. ~Flushing /\ ~Flushing' BY <1>3, <2>1 DEF Flushing
  <2>3. Held' BY <1>4, <2>1, <2>2 DEF Inductive, Held
  <2>4. WorkerHolds' BY <1>3, <2>1, <2>2 DEF Inductive, WorkerHolds
  <2> QED BY <1>1, <1>2, <1>5, <2>3, <2>4 DEF Inductive
<1> QED BY <1>6, <1>7

\* Tick, and Drained with rows left: the batch is written as it is.
LEMMA FlushPreserves ==
  ASSUME Inductive, Tick \/ Drained
  PROVE  Inductive'
<1>1. TypeOK' BY TypeRun DEF Inductive, Run
<1>2. LogsOnce' /\ ShutdownOrder' /\ HandlersWaitedFor' /\ RefusedAfterTimeout'
      /\ WaitedForWriter'
  BY RunKeepsHandlers DEF Run
<1>3. /\ UNCHANGED <<request, stopping, queue, batch>> /\ ~Flushing
  BY DEF Tick, Drained, Flushing
<1>4. Logged' BY <1>3 DEF Inductive, Logged
<1>5. ToSet(batch) \subseteq Requests BY DEF Inductive, TypeOK, ToSet
<1>6. CASE batch # <<>>
  <2>1. /\ fate' = Settled("working") /\ worker' \in {"flush", "lastFlush"}
        /\ worker' = "lastFlush" => worker = "drain" /\ queue = <<>>
    BY <1>6 DEF Tick, Drained, BeginFlush
  <2>2. Flushing' BY <2>1 DEF Flushing
  <2>3. Held'
    BY <1>3, <2>1, <2>2 DEF Inductive, Held, Settled
  <2>4. WorkerHolds'
    BY <1>3, <1>5, <1>6, <2>1, <2>2 DEF Inductive, WorkerHolds, Settled
  <2> QED BY <1>1, <1>2, <1>4, <2>3, <2>4 DEF Inductive
<1>7. CASE batch = <<>>
  <2>1. /\ fate' = fate /\ worker = "drain" /\ worker' = "ended" /\ queue = <<>>
    BY <1>7 DEF Tick, Drained
  <2>2. ~Flushing' BY <2>1 DEF Flushing
  <2>3. Held' BY <1>3, <2>1, <2>2 DEF Inductive, Held
  <2>4. WorkerHolds' BY <1>3, <1>7, <2>1, <2>2 DEF Inductive, WorkerHolds
  <2> QED BY <1>1, <1>2, <1>4, <2>3, <2>4 DEF Inductive
<1> QED BY <1>6, <1>7

LEMMA EndFlushPreserves ==
  ASSUME Inductive, NEW outcome \in {"done", "lost"}, EndFlush(outcome), Run
  PROVE  Inductive'
<1>1. TypeOK' BY TypeRun DEF Inductive
<1>2. LogsOnce' /\ ShutdownOrder' /\ HandlersWaitedFor' /\ RefusedAfterTimeout'
      /\ WaitedForWriter'
  BY RunKeepsHandlers
<1>3. /\ UNCHANGED <<request, stopping, queue>> /\ batch' = <<>> /\ Flushing
      /\ fate' = Settled(outcome)
  BY DEF EndFlush, Flushing
<1>4. /\ worker = "flush" => worker' = "select"
      /\ worker = "drainFlush" => worker' = "drain"
      /\ worker = "lastFlush" => worker' = "ended"
  BY DEF EndFlush, AfterFlush
<1>5. ToSet(batch') = {} BY <1>3, ToSetEmpty
<1>6. Logged' BY <1>3, <1>5 DEF Inductive, Logged
<1>7. ~Flushing' BY <1>3, <1>4 DEF Flushing
<1>8. Held' BY <1>3, <1>7 DEF Inductive, Held, Settled
<1>9. WorkerHolds'
  <2>1. Len(batch') < BatchSize BY <1>3, EmptySeq
  <2>2. worker' # "select" => stopping
    BY <1>3, <1>4 DEF Inductive, WorkerHolds, Flushing
  <2>3. worker' = "ended" => queue = <<>>
    BY <1>3, <1>4 DEF Inductive, WorkerHolds, Flushing
  <2> QED BY <1>3, <1>4, <1>7, <2>1, <2>2, <2>3 DEF WorkerHolds, Flushing
<1> QED BY <1>1, <1>2, <1>6, <1>8, <1>9 DEF Inductive

LEMMA RunPreserves ==
  ASSUME Inductive, Run
  PROVE  Inductive'
<1>1. CASE Collect BY <1>1, CollectPreserves
<1>2. CASE Tick \/ Drained BY <1>2, FlushPreserves
<1>3. CASE Insert \/ InsertFails BY <1>3, EndFlushPreserves DEF Insert, InsertFails
<1>4. CASE SeeCancel \/ InsertBusy
  <2>1. TypeOK' BY TypeRun DEF Inductive
  <2>2. LogsOnce' /\ ShutdownOrder' /\ HandlersWaitedFor' /\ RefusedAfterTimeout'
        /\ WaitedForWriter'
    BY RunKeepsHandlers
  <2>3. /\ UNCHANGED <<request, fate, stopping, queue, batch>>
        /\ worker' = worker \/ (worker = "select" /\ worker' = "drain" /\ stopping)
    BY <1>4 DEF SeeCancel, InsertBusy, httpVars
  <2>4. Flushing' <=> Flushing BY <2>3 DEF Flushing
  <2>5. Logged' /\ Held' BY <2>3, <2>4 DEF Inductive, Logged, Held
  <2>6. WorkerHolds' BY <2>3, <2>4 DEF Inductive, WorkerHolds
  <2> QED BY <2>1, <2>2, <2>5, <2>6 DEF Inductive
<1> QED BY <1>1, <1>2, <1>3, <1>4 DEF Run

-----------------------------------------------------------------------------
(* The shutdown. *)

LEMMA ShutdownPreserves ==
  ASSUME Inductive, Shutdown
  PROVE  Inductive'
<1>1. TypeOK' BY TypeShutdown DEF Inductive
<1>2. /\ UNCHANGED <<request, fate, queue, batch, attempt, worker>>
      /\ timedOut \subseteq timedOut' /\ (stopping => stopping')
  BY DEF Shutdown, BeginShutdown, GatewayStops, GatewayTimesOut, UnsetWriter,
         StopWriter, WriterStops, WriterTimesOut, Exit, workerVars
<1>3. (LogsOnce /\ RefusedAfterTimeout /\ Logged /\ Held /\ WorkerHolds)'
  BY <1>2 DEF Inductive, LogsOnce, RefusedAfterTimeout, Logged, Held, WorkerHolds,
              Flushing
<1>4. ShutdownOrder'
  BY <1>2 DEF Inductive, ShutdownOrder, NoSender, Shutdown, Advance, BeginShutdown,
              GatewayStops, GatewayTimesOut, UnsetWriter, StopWriter, WriterStops,
              WriterTimesOut, Exit
<1>5. HandlersWaitedFor'
  BY <1>2 DEF Inductive, HandlersWaitedFor, HandlersEnded, Shutdown, Advance,
              BeginShutdown, GatewayStops, GatewayTimesOut, UnsetWriter, StopWriter,
              WriterStops, WriterTimesOut, Exit
<1>6. WaitedForWriter'
  BY <1>2 DEF Inductive, WaitedForWriter, Shutdown, Advance, BeginShutdown,
              GatewayStops, GatewayTimesOut, UnsetWriter, StopWriter, WriterStops,
              WriterTimesOut, Exit
<1> QED BY <1>1, <1>3, <1>4, <1>5, <1>6 DEF Inductive

-----------------------------------------------------------------------------
(* The inductive invariant. *)

LEMMA InductiveInit == Init => Inductive
<1> SUFFICES ASSUME Init PROVE Inductive OBVIOUS
<1>1. TypeOK BY TypeInit
<1>2. ToSet(queue) = {} /\ ToSet(batch) = {} /\ ~Flushing /\ Len(batch) = 0
  BY ToSetEmpty, EmptySeq DEF Init, Flushing
<1>3. LogsOnce /\ ShutdownOrder /\ HandlersWaitedFor /\ RefusedAfterTimeout
      /\ Logged /\ Held /\ WaitedForWriter
  BY <1>2 DEF Init, LogsOnce, ShutdownOrder, HandlersWaitedFor, RefusedAfterTimeout,
              Logged, Held, WaitedForWriter
<1>4. WorkerHolds BY <1>2 DEF Init, WorkerHolds
<1> QED BY <1>1, <1>3, <1>4 DEF Inductive

LEMMA InductiveStep == Inductive /\ [Next]_vars => Inductive'
<1> SUFFICES ASSUME Inductive, [Next]_vars PROVE Inductive' OBVIOUS
<1>1. CASE UNCHANGED vars
  <2> USE <1>1 DEF vars
  <2>1. TypeOK' BY DEF Inductive, TypeOK
  <2>2. (LogsOnce /\ ShutdownOrder /\ HandlersWaitedFor /\ RefusedAfterTimeout)'
    BY DEF Inductive, LogsOnce, ShutdownOrder, NoSender, HandlersWaitedFor,
           HandlersEnded, RefusedAfterTimeout
  <2>3. (Logged /\ Held /\ WorkerHolds /\ WaitedForWriter)'
    BY DEF Inductive, Logged, Held, WorkerHolds, Flushing, WaitedForWriter
  <2> QED BY <2>1, <2>2, <2>3 DEF Inductive
<1>2. ASSUME NEW r \in Requests, Handler(r) PROVE Inductive'
  BY <1>2, MovePreserves, RefusePreserves, SendPreserves DEF Handler
<1>3. CASE Run BY <1>3, RunPreserves
<1>4. CASE Shutdown BY <1>4, ShutdownPreserves
<1> QED BY <1>1, <1>2, <1>3, <1>4 DEF Next

\* Every accepted entry is in the channel, in the batch or settled, and only the
\* goroutine of the writer, at the place where it is, holds a batch: what the
\* theorems below rest on.
THEOREM Invariance == Spec => []Inductive
BY InductiveInit, InductiveStep, PTL DEF Spec

-----------------------------------------------------------------------------
(* What the writer promises. *)

\* Every variable keeps its type; the queue never holds more than QueueSize
\* entries, the batch never more than BatchSize rows, and an INSERT is tried at
\* most MaxAttempts times.
THEOREM WithinBounds == Spec => []TypeOK
<1>1. Inductive => TypeOK BY DEF Inductive
<1> QED BY <1>1, Invariance, PTL

\* An entry finds no writer, or a stopping one, only when the gateway gave up
\* waiting for its handlers (stopHTTPMappingServer of inits/inits.go runs before
\* stopHTTPRuntime).
THEOREM RefusalsExplained == Spec => []RefusedAfterTimeout
<1>1. Inductive => RefusedAfterTimeout BY DEF Inductive
<1> QED BY <1>1, Invariance, PTL

\* Once Stop has returned without an error, no accepted entry is left unsettled,
\* and none ever will be (Enqueue, run and Stop of httpgateway/log.go).
THEOREM StopLeavesNothing == Spec => []StopDrains
<1>1. ASSUME Inductive PROVE StopDrains
  <2> SUFFICES ASSUME stage \in {"logStopped", "exit"}, "log" \notin timedOut,
                      NEW r \in Requests
               PROVE  fate[r] \notin {"waiting", "working"}
    BY DEF StopDrains
  <2>1. worker = "ended" BY <1>1 DEF Inductive, WaitedForWriter
  <2>2. queue = <<>> /\ batch = <<>> /\ ~Flushing
    BY <1>1, <2>1 DEF Inductive, WorkerHolds, Flushing
  <2> QED BY <1>1, <2>2, ToSetEmpty DEF Inductive, Held
<1> QED BY <1>1, Invariance, PTL

\* Every accepted entry is where the goroutine will find it: no entry is lost
\* between the channel and the batch.
THEOREM NothingMislaid == Spec => []Held
<1>1. Inductive => Held BY DEF Inductive
<1> QED BY <1>1, Invariance, PTL

-----------------------------------------------------------------------------
(* The log implements the abstract queue. *)

\* The abstract queue's variables.
Phase == IF stopping THEN "closed" ELSE IF writer THEN "open" ELSE "closing"
Pending == IF Flushing THEN queue ELSE batch \o queue
Fate == [r \in Requests |-> IF fate[r] = "full" THEN "refused" ELSE fate[r]]

LEMMA Abstraction ==
  /\ Log!Init <=> /\ Phase \in {"idle", "open"} /\ Pending = <<>>
                  /\ Fate = [r \in Requests |-> "new"]
  /\ UNCHANGED Log!vars <=> UNCHANGED <<Phase, Pending, Fate>>
  BY DEF Log!Init, Log!vars, Phase, Pending, Fate

\* The entries whose fate is the same stay so, and Fate hides "full".
LEMMA FateIs ==
  ASSUME TypeOK, NEW r \in Requests
  PROVE  /\ fate[r] # "full" => Fate[r] = fate[r]
         /\ fate[r] = "full" => Fate[r] = "refused"
  BY DEF TypeOK, Fate

LEMMA RefinesInit == Init => Log!Init
<1> SUFFICES ASSUME Init PROVE Log!Init OBVIOUS
<1>1. Phase = "open" BY DEF Init, Phase
<1>2. batch \o queue = <<>> BY ConcatEmptySeq, EmptySeq DEF Init
<1>3. Pending = <<>> BY <1>2 DEF Init, Pending, Flushing
<1>4. Fate = [r \in Requests |-> "new"] BY DEF Init, Fate
<1> QED BY <1>1, <1>3, <1>4, Abstraction

\* Send appends to the pending entries, or refuses when QueueSize wait.
LEMMA SendRefines ==
  ASSUME Inductive, NEW r \in Requests, Send(r)
  PROVE  Log!Accept(r) \/ Log!Refuse(r)
<1>1. /\ UNCHANGED <<writer, stopping, batch, worker>>
      /\ fate[r] = "new" /\ ~stopping
      /\ batch \in Seq(Requests) /\ queue \in Seq(Requests)
      /\ Len(queue) \in Nat /\ Len(batch) \in Nat /\ Len(batch) <= BatchSize
      /\ ~Flushing => Len(batch) < BatchSize
  BY DEF Inductive, TypeOK, LogsOnce, ShutdownOrder, NoSender, Move, Send, WorkerHolds,
         workerVars
<1>2. Phase' = Phase /\ Phase \in {"open", "closing"} /\ (Flushing' <=> Flushing)
  BY <1>1 DEF Phase, Flushing
<1>3. /\ Len(Pending) <= Len(queue) + BatchSize - 1
      /\ Len(Pending) >= Len(queue)
  BY <1>1, ConcatProperties DEF Pending
<1>4. CASE Len(queue) < QueueSize
  <2>1. queue' = Append(queue, r) /\ fate' = [fate EXCEPT ![r] = "waiting"]
    BY <1>4 DEF Send
  <2>2. (batch \o queue)' = Append(batch \o queue, r)
    <3>1. /\ Append(queue, r) = queue \o <<r>>
          /\ Append(batch \o queue, r) = (batch \o queue) \o <<r>>
      BY <1>1, AppendIsConcat, ConcatProperties
    <3> QED BY <1>1, <2>1, <3>1, ConcatAssociative
  <2>3. Pending' = Append(Pending, r) BY <1>2, <2>1, <2>2 DEF Pending
  <2>4. Fate' = [Fate EXCEPT ![r] = "waiting"]
    BY <2>1 DEF Inductive, TypeOK, Fate
  <2>5. Len(Pending) < QueueSize + BatchSize - 1
    BY <1>1, <1>3, <1>4, ConcatProperties DEF Pending
  <2>6. Fate[r] = "new" BY <1>1, FateIs DEF Inductive
  <2> QED BY <1>2, <2>3, <2>4, <2>5, <2>6 DEF Log!Accept, Phase, Pending, Fate
<1>5. CASE ~(Len(queue) < QueueSize)
  <2>1. queue' = queue /\ fate' = [fate EXCEPT ![r] = "full"]
    BY <1>5 DEF Send
  <2>2. Pending' = Pending BY <1>1, <1>2, <2>1 DEF Pending
  <2>3. Fate' = [Fate EXCEPT ![r] = "refused"]
    BY <2>1 DEF Inductive, TypeOK, Fate
  <2>4. Len(Pending) >= QueueSize
    BY <1>1, <1>3, <1>5, ConcatProperties DEF Pending
  <2>5. Fate[r] = "new" BY <1>1, FateIs DEF Inductive
  <2> QED BY <1>2, <2>2, <2>3, <2>4, <2>5 DEF Log!Refuse, Phase, Pending, Fate
<1> QED BY <1>4, <1>5

LEMMA HandlerRefines ==
  ASSUME Inductive, NEW r \in Requests, Handler(r)
  PROVE  Log!Accept(r) \/ Log!Refuse(r) \/ UNCHANGED Log!vars
<1>1. CASE Send(r) BY <1>1, SendRefines
<1>2. CASE ~Send(r)
  <2>1. /\ UNCHANGED <<writer, stopping, queue, batch, worker>>
        /\ \/ fate' = fate
           \/ /\ fate' = [fate EXCEPT ![r] = "refused"]
              /\ fate[r] = "new" /\ (~writer \/ stopping)
    BY <1>2 DEF Handler, Move, Arrive, Reject, Respond, CloseBody, SwitchProtocols, ReadWriter,
                CheckStopping, workerVars, Inductive, TypeOK, LogsOnce
  <2>2. Phase' = Phase /\ Pending' = Pending BY <2>1 DEF Phase, Pending, Flushing
  <2>3. CASE fate' = fate BY <2>2, <2>3, Abstraction DEF Fate
  <2>4. CASE fate' = [fate EXCEPT ![r] = "refused"] /\ fate[r] = "new"
             /\ (~writer \/ stopping)
    <3>1. Fate' = [Fate EXCEPT ![r] = "refused"] BY <2>4 DEF Inductive, TypeOK, Fate
    <3>2. Fate[r] = "new" BY <2>4, FateIs DEF Inductive
    <3>3. Phase \in {"closing", "closed"} BY <2>4 DEF Phase
    <3> QED BY <2>2, <3>1, <3>2, <3>3 DEF Log!Refuse, Phase, Pending, Fate
  <2> QED BY <2>1, <2>3, <2>4
<1> QED BY <1>1, <1>2

\* The front and the back of a concatenation.
LEMMA SplitConcat ==
  ASSUME NEW S, NEW s \in Seq(S), NEW t \in Seq(S)
  PROVE  /\ SubSeq(s \o t, 1, Len(s)) = s
         /\ SubSeq(s \o t, Len(s) + 1, Len(s \o t)) = t
<1>1. /\ s \o t \in Seq(S) /\ Len(s) \in Nat /\ Len(t) \in Nat
      /\ Len(s \o t) = Len(s) + Len(t)
      /\ \A i \in 1 .. Len(s) : (s \o t)[i] = s[i]
      /\ \A i \in 1 .. Len(t) : (s \o t)[Len(s) + i] = t[i]
  BY ConcatProperties
<1>2. SubSeq(s \o t, 1, Len(s)) = s BY <1>1
<1>3. SubSeq(s \o t, Len(s) + 1, Len(s \o t)) = t BY <1>1
<1> QED BY <1>2, <1>3

\* A flush takes the whole batch off the pending entries.
LEMMA TakeBatch ==
  ASSUME NEW b \in Seq(Requests), b # <<>>, NEW q \in Seq(Requests),
         Pending = b \o q, Pending' = q, Phase' = Phase, TypeOK,
         fate' = [r \in Requests |-> IF r \in ToSet(b) THEN "working" ELSE fate[r]]
  PROVE  \E n \in 1 .. Len(Pending) : Log!Take(n)
<1>1. /\ SubSeq(Pending, 1, Len(b)) = b
      /\ SubSeq(Pending, Len(b) + 1, Len(Pending)) = q
  BY SplitConcat
<1>2. Len(b) \in 1 .. Len(Pending) BY ConcatProperties, EmptySeq
<1>3. Fate' = [r \in Requests |-> IF r \in ToSet(b) THEN "working" ELSE Fate[r]]
  BY DEF Fate
<1>4. Log!ToSet(SubSeq(Pending, 1, Len(b))) = ToSet(b)
  BY <1>1 DEF Log!ToSet, ToSet
<1>5. Pending' = SubSeq(Pending, Len(b) + 1, Len(Pending))
  BY <1>1
<1>6. Fate' = [r \in Requests |-> IF r \in Log!ToSet(SubSeq(Pending, 1, Len(b)))
                                   THEN "working" ELSE Fate[r]]
  BY <1>3, <1>4
<1>7. Log!Take(Len(b))
  BY <1>5, <1>6, Zenon DEF Log!Take, Phase, Pending, Fate
<1> QED BY <1>2, <1>7

LEMMA CollectRefines ==
  ASSUME Inductive, Collect
  PROVE  (\E n \in 1 .. Len(Pending) : Log!Take(n)) \/ UNCHANGED Log!vars
<1>1. /\ batch \in Seq(Requests) /\ queue \in Seq(Requests) /\ queue # <<>>
      /\ batch' = Append(batch, Head(queue)) /\ queue' = Tail(queue)
      /\ worker \in {"select", "drain"} /\ UNCHANGED <<writer, stopping>>
  BY DEF Collect, Inductive, TypeOK
<1>2. /\ Phase' = Phase /\ ~Flushing BY <1>1 DEF Phase, Flushing
<1>3. /\ batch' \in Seq(Requests) /\ batch' # <<>> /\ queue' \in Seq(Requests)
  BY <1>1, AppendProperties, HeadTailProperties
<1>4. batch \o queue = batch' \o queue'
  <2>1. /\ Head(queue) \in Requests /\ Len(queue) \in Nat \ {0} /\ Len(batch) \in Nat
        /\ Len(batch') = Len(batch) + 1 /\ Len(queue') = Len(queue) - 1
        /\ \A i \in 1 .. Len(batch) : batch'[i] = batch[i]
        /\ batch'[Len(batch) + 1] = queue[1]
        /\ \A i \in 1 .. Len(queue) - 1 : queue'[i] = queue[i + 1]
    BY <1>1
  <2>2. /\ batch \o queue \in Seq(Requests) /\ Len(batch \o queue) = Len(batch) + Len(queue)
        /\ \A i \in 1 .. Len(batch) + Len(queue) :
             (batch \o queue)[i] = IF i <= Len(batch) THEN batch[i]
                                                      ELSE queue[i - Len(batch)]
    BY <1>1, ConcatProperties
  <2>3. /\ batch' \o queue' \in Seq(Requests)
        /\ Len(batch' \o queue') = Len(batch') + Len(queue')
        /\ \A i \in 1 .. Len(batch') + Len(queue') :
             (batch' \o queue')[i] = IF i <= Len(batch') THEN batch'[i]
                                                         ELSE queue'[i - Len(batch')]
    BY <1>3, ConcatProperties
  <2>4. ASSUME NEW i \in 1 .. Len(batch \o queue)
        PROVE  (batch \o queue)[i] = (batch' \o queue')[i]
    <3>0. i \in 1 .. Len(batch) + Len(queue) /\ i \in 1 .. Len(batch') + Len(queue')
      BY <2>1, <2>2
    <3>1. CASE i <= Len(batch) BY <2>1, <2>2, <2>3, <3>0, <3>1
    <3>2. CASE i = Len(batch) + 1
      <4>1. (batch \o queue)[i] = queue[1] BY <2>1, <2>2, <3>0, <3>2
      <4>2. (batch' \o queue')[i] = batch'[i] BY <2>1, <2>3, <3>0, <3>2
      <4> QED BY <2>1, <3>2, <4>1, <4>2
    <3>3. CASE i > Len(batch) + 1
      <4>1. (batch \o queue)[i] = queue[i - Len(batch)] BY <2>1, <2>2, <3>0, <3>3
      <4>2. (batch' \o queue')[i] = queue'[i - Len(batch')] BY <2>1, <2>3, <3>0, <3>3
      <4>3. i - Len(batch') \in 1 .. Len(queue) - 1 /\ i - Len(batch') + 1 = i - Len(batch)
        BY <2>1, <3>0, <3>3
      <4> QED BY <2>1, <4>1, <4>2, <4>3
    <3> QED BY <2>1, <3>0, <3>1, <3>2, <3>3
  <2>5. Len(batch \o queue) = Len(batch' \o queue') BY <2>1, <2>2, <2>3
  <2> QED BY <2>2, <2>3, <2>4, <2>5, SeqEqual
<1>5. Pending = batch' \o queue' BY <1>2, <1>4 DEF Pending
<1>6. CASE Len(batch') >= BatchSize
  <2>1. /\ worker' \in {"flush", "drainFlush"}
        /\ fate' = [r \in Requests |-> IF r \in ToSet(batch') THEN "working" ELSE fate[r]]
    BY <1>6 DEF Collect, BeginFlush
  <2>2. Pending' = queue' BY <2>1 DEF Pending, Flushing
  <2>3. TypeOK BY DEF Inductive
  <2> QED BY <1>2, <1>3, <1>5, <2>1, <2>2, <2>3, TakeBatch
<1>7. CASE ~(Len(batch') >= BatchSize)
  <2>1. UNCHANGED <<worker, fate>> BY <1>7 DEF Collect
  <2>2. Pending' = batch' \o queue' BY <1>2, <2>1 DEF Pending, Flushing
  <2> QED BY <1>2, <1>5, <2>1, <2>2, Abstraction DEF Fate
<1> QED BY <1>6, <1>7

LEMMA RunRefines ==
  ASSUME Inductive, Run
  PROVE  \/ \E n \in 1 .. Len(Pending) : Log!Take(n)
         \/ \E S \in (SUBSET Requests) \ {{}}, outcome \in {"done", "lost"} :
              Log!Settle(S, outcome)
         \/ UNCHANGED Log!vars
<1>1. CASE Collect BY <1>1, CollectRefines
<1>2. Phase' = Phase BY RunLeaves DEF Phase
<1>3. /\ TypeOK /\ batch \in Seq(Requests) /\ queue \in Seq(Requests)
  BY DEF Inductive, TypeOK
<1>4. CASE (Tick \/ Drained) /\ batch # <<>>
  <2>1. /\ fate' = Settled("working") /\ worker' \in {"flush", "lastFlush"}
        /\ worker \in {"select", "drain"} /\ queue' = queue
    BY <1>4 DEF Tick, Drained, BeginFlush
  <2>2. Pending = batch \o queue /\ Pending' = queue BY <2>1 DEF Pending, Flushing
  <2> QED BY <1>2, <1>3, <1>4, <2>1, <2>2, TakeBatch DEF Settled
<1>5. CASE (Tick \/ Drained) /\ batch = <<>>
  <2>1. UNCHANGED <<fate, batch, queue>> /\ ~Flushing /\ ~Flushing'
    BY <1>5 DEF Tick, Drained, Flushing
  <2> QED BY <1>2, <2>1, Abstraction DEF Pending, Fate
<1>6. ASSUME NEW outcome \in {"done", "lost"}, EndFlush(outcome)
      PROVE  \E S \in (SUBSET Requests) \ {{}} : Log!Settle(S, outcome)
  <2>1. /\ fate' = Settled(outcome) /\ batch' = <<>> /\ queue' = queue
        /\ Flushing /\ ~Flushing'
    BY <1>6 DEF EndFlush, AfterFlush, Flushing
  <2>2. Pending' = Pending BY <1>3, <2>1, ConcatEmptySeq DEF Pending
  <2>3. /\ batch # <<>>
        /\ \A r \in ToSet(batch) : fate[r] = "working"
    BY <2>1 DEF Inductive, WorkerHolds
  <2>7. ToSet(batch) \in (SUBSET Requests) \ {{}}
    BY <1>3, <2>3, ToSetNonEmpty
  <2>4. \A r \in ToSet(batch) : Fate[r] = "working" BY <1>3, <2>3, <2>7, FateIs
  <2>5. Fate' = [r \in Requests |-> IF r \in ToSet(batch) THEN outcome ELSE Fate[r]]
    BY <2>1 DEF Settled, Fate
  <2>6. Log!Settle(ToSet(batch), outcome)
    BY <1>2, <2>2, <2>4, <2>5 DEF Log!Settle, Phase, Pending, Fate
  <2> QED BY <2>6, <2>7
<1>7. CASE SeeCancel \/ InsertBusy
  <2>1. UNCHANGED <<fate, batch, queue>> /\ (Flushing' <=> Flushing)
    BY <1>7 DEF SeeCancel, InsertBusy, httpVars, Flushing
  <2> QED BY <1>2, <2>1, Abstraction DEF Pending, Fate
<1> QED BY <1>1, <1>4, <1>5, <1>6, <1>7 DEF Run, Insert, InsertFails

LEMMA ShutdownRefines ==
  ASSUME Inductive, Shutdown
  PROVE  Log!BeginClose \/ Log!Close \/ UNCHANGED Log!vars
<1>1. UNCHANGED <<fate, queue, batch, worker>>
  BY DEF Shutdown, BeginShutdown, GatewayStops, GatewayTimesOut, UnsetWriter,
         StopWriter, WriterStops, WriterTimesOut, Exit, workerVars
<1>2. Pending' = Pending /\ Fate' = Fate BY <1>1 DEF Pending, Fate, Flushing
<1>3. CASE UnsetWriter
  <2>1. Phase = "open" /\ Phase' = "closing"
    BY <1>3 DEF UnsetWriter, Advance, Inductive, ShutdownOrder, Phase
  <2> QED BY <1>2, <2>1 DEF Log!BeginClose, Phase, Pending, Fate
<1>4. CASE StopWriter
  <2>1. Phase = "closing" /\ Phase' = "closed"
    BY <1>4 DEF StopWriter, Advance, Inductive, ShutdownOrder, Phase
  <2> QED BY <1>2, <2>1 DEF Log!Close, Phase, Pending, Fate
<1>5. CASE ~UnsetWriter /\ ~StopWriter
  <2>1. Phase' = Phase
    BY <1>5 DEF Shutdown, BeginShutdown, GatewayStops, GatewayTimesOut, WriterStops,
                WriterTimesOut, Exit, Phase
  <2> QED BY <1>2, <2>1, Abstraction
<1> QED BY <1>3, <1>4, <1>5

LEMMA RefinesStep ==
  ASSUME Inductive, [Next]_vars
  PROVE  [Log!Next]_(Log!vars)
<1>1. CASE UNCHANGED vars
  BY <1>1, Abstraction DEF vars, Phase, Pending, Fate, Flushing
<1>2. ASSUME NEW r \in Requests, Handler(r) PROVE [Log!Next]_(Log!vars)
  BY <1>2, HandlerRefines DEF Log!Next
<1>3. CASE Run
  <2>1. CASE \E n \in 1 .. Len(Pending) : Log!Take(n) BY <2>1 DEF Log!Next, Pending
  <2>2. CASE \E S \in (SUBSET Requests) \ {{}}, outcome \in {"done", "lost"} :
               Log!Settle(S, outcome)
    BY <2>2 DEF Log!Next
  <2> QED BY <1>3, <2>1, <2>2, RunRefines
<1>4. CASE Shutdown BY <1>4, ShutdownRefines DEF Log!Next
<1> QED BY <1>1, <1>2, <1>3, <1>4 DEF Next

\* AccessLogWriter is a bounded queue: it accepts while it is open and has room,
\* takes entries in order and settles them once, and accepts nothing after Stop.
THEOREM LogImplementsQueue == Spec => ImplementsQueue
<1>1. Inductive /\ [Next]_vars => [Log!Next]_(Log!vars) BY RefinesStep
<1> QED BY <1>1, RefinesInit, Invariance, PTL DEF Spec, ImplementsQueue, Log!Spec

=============================================================================
