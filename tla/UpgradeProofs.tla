---------------------------- MODULE UpgradeProofs ----------------------------
(***************************************************************************)
(* Proofs about Upgrade, for any administrators, releases, sizes and       *)
(* bounds.                                                                 *)
(*                                                                         *)
(* On the device the argument follows the file: the running hash is never  *)
(* longer than the partial file, and is the file's when it is as long, so  *)
(* what is promoted is the whole release; from there each stage of the     *)
(* installation knows where the whole release is.  On the server it        *)
(* follows the reports: a report of success is about an installed release, *)
(* and once a task is finished every report and every heartbeat that had   *)
(* read its row before is marked as overtaken.                             *)
(***************************************************************************)
EXTENDS Upgrade, SequenceTheorems, TLAPS

-----------------------------------------------------------------------------
(* The inductive invariant.                                                *)

TaskRec == [release : Releases, stale : BOOLEAN, status : Final \cup {"pending", "running"}]
ReportRec == [task : 1 .. Len(tasks), status : Final \cup {"running"},
              checked : BOOLEAN, overtaken : BOOLEAN, awaited : BOOLEAN]
PollRec == [task : 0 .. Len(tasks), overtaken : BOOLEAN, heard : BOOLEAN]
BudgetRec == [fault : 0 .. MaxFaults, crash : 0 .. MaxCrashes, swap : 0 .. MaxSwaps]

TasksTyped == tasks \in Seq(TaskRec) /\ Len(tasks) <= MaxTasks

\* A report speaks of a task that exists, tells of a success that happened, and
\* if it has read the row of a task finished since, is overtaken.
Sound(r) ==
  /\ r \in ReportRec
  /\ r.status = "success" => r.task \in installed
  /\ r.checked /\ tasks[r.task].status \in Final => r.overtaken

\* So does the heartbeat that holds a task.
PollSound ==
  /\ poll \in PollRec
  /\ poll.task = 0 => poll = NoPoll
  /\ poll # NoPoll /\ tasks[poll.task].status \in Final => poll.overtaken

ServerInv ==
  /\ TasksTyped
  /\ admin \in [Admins -> Releases \cup {Nothing}]
  /\ served \in [Releases -> Seq(Bytes)]
  /\ \A r \in reports : Sound(r)
  /\ PollSound
  /\ installed \subseteq 1 .. Len(tasks)
  /\ SuccessMeansInstalled

DeviceTypes ==
  /\ up \in {"up", "stopping", "down"} /\ stage \in Stages
  /\ hash \in Seq(Bytes) /\ total \in Nat /\ attempt \in 0 .. MaxAttempts - 1
  /\ part \in [Releases -> Seq(Bytes) \cup {NoFile}]
  /\ target \in [Targets -> Seq(Bytes) \cup {NoFile}]
  /\ {current, backup} \subseteq Seq(Bytes) \cup {NoFile}
  /\ app \in Seq(Bytes) /\ appUp \in BOOLEAN /\ diskError \in BOOLEAN
  /\ budget \in BudgetRec

JobKnown == job \in 0 .. Len(tasks) /\ (stage = "idle" <=> job = 0)

\* The hash has been fed with the bytes of the file, or misses one that a
\* failing write left in it.
Follows ==
  /\ stage \in {"fetch", "verify"} =>
       /\ Len(hash) <= Len(Content(part[Release]))
       /\ Len(hash) = Len(Content(part[Release])) \/ ~diskError => hash = Content(part[Release])
  /\ stage = "verify" => part[Release] # NoFile

Good == {<<Orig>>} \cup {Whole(r) : r \in ClientReleases}

\* Where the whole release is at each stage of its installation.
Ready ==
  /\ stage = "install" => target[TargetOf(Release)] = Whole(Release)
  /\ stage = "swap" => IsClient /\ target[NewBinary] = Whole(Release) /\ backup \in Good
  /\ stage \in {"report", "restart"} => IsClient /\ current = Whole(Release)
  /\ stage \in {"stop", "copy"} => ~IsClient /\ target[Release] = Whole(Release)
  /\ stage \in {"start", "clean"} => ~IsClient /\ app = Whole(Release)
  /\ stage \in {"report", "clean"} => job \in installed

GoodBinary == current \in Good \cup {NoFile}

DeviceInv == DeviceTypes /\ JobKnown /\ Follows /\ Ready /\ GoodBinary

Inductive == ServerInv /\ DeviceInv

USE ReleaseAssumption, BoundAssumption, NoFileAssumption

-----------------------------------------------------------------------------
(* Files and tasks.                                                        *)

LEMMA WholeFile ==
  ASSUME NEW r \in Releases
  PROVE  Whole(r) \in Seq(Bytes) /\ Len(Whole(r)) = Size[r] /\ Whole(r) # NoFile
<1>1. Size[r] \in Nat /\ Whole(r) \in [1 .. Size[r] -> Bytes]
  BY DEF Whole, Bytes
<1>2. Whole(r) \in Seq(Bytes) BY <1>1, SeqDef
<1>3. DOMAIN Whole(r) = 1 .. Size[r] BY DEF Whole
<1>4. Len(Whole(r)) = Size[r] BY <1>1, <1>2, <1>3, LenProperties
<1> QED BY <1>2, <1>4

LEMMA OrigFile == <<Orig>> \in Seq(Bytes)
<1>1. Orig \in Bytes BY DEF Bytes
<1> QED BY <1>1

LEMMA GoodFiles == Good \subseteq Seq(Bytes)
<1>1. \A r \in ClientReleases : Whole(r) \in Seq(Bytes) BY WholeFile
<1> QED BY <1>1, OrigFile DEF Good

LEMMA ContentIsBytes ==
  ASSUME NEW f \in Seq(Bytes) \cup {NoFile}
  PROVE  Content(f) \in Seq(Bytes) /\ Len(Content(f)) \in Nat
         /\ (f # NoFile => Content(f) = f)
<1>1. <<>> \in Seq(Bytes) OBVIOUS
<1>2. Content(f) \in Seq(Bytes) BY <1>1 DEF Content
<1>3. Len(Content(f)) \in Nat BY <1>2, LenProperties
<1> QED BY <1>2, <1>3 DEF Content

\* The upgrade under way is that of a task, and tasks keep their release.
LEMMA JobTask ==
  ASSUME Inductive, stage # "idle"
  PROVE  /\ job \in 1 .. Len(tasks) /\ Release \in Releases
         /\ TargetOf(Release) \in Targets
<1>1. job \in 1 .. Len(tasks) BY DEF Inductive, DeviceInv, JobKnown, ServerInv, TasksTyped
<1>2. tasks[job] \in TaskRec
  BY <1>1, ElementOfSeq DEF Inductive, ServerInv, TasksTyped
<1>3. Release \in Releases BY <1>2 DEF Release, TaskRec
<1> QED BY <1>1, <1>3 DEF Targets

\* A task is replaced by one of the same release.
LEMMA TaskSet ==
  ASSUME TasksTyped, NEW t \in 1 .. Len(tasks), NEW x \in TaskRec,
         tasks' = [tasks EXCEPT ![t] = x]
  PROVE  /\ TasksTyped' /\ Len(tasks') = Len(tasks) /\ tasks'[t] = x
         /\ \A u \in 1 .. Len(tasks) : u # t => tasks'[u] = tasks[u]
BY ExceptSeq DEF TasksTyped

\* A new task comes after the others.
LEMMA TaskAppended ==
  ASSUME TasksTyped, NEW x \in TaskRec, Len(tasks) < MaxTasks, tasks' = Append(tasks, x)
  PROVE  /\ TasksTyped' /\ Len(tasks') = Len(tasks) + 1 /\ Len(tasks) \in Nat
         /\ tasks'[Len(tasks) + 1] = x
         /\ \A u \in 1 .. Len(tasks) : tasks'[u] = tasks[u]
<1>1. Len(tasks) \in Nat BY LenProperties DEF TasksTyped
<1>2. Append(tasks, x) \in Seq(TaskRec) /\ Len(Append(tasks, x)) = Len(tasks) + 1
  BY AppendProperties DEF TasksTyped
<1>3. \A u \in 1 .. Len(tasks) + 1 :
        Append(tasks, x)[u] = IF u <= Len(tasks) THEN tasks[u] ELSE x
  BY AppendProperties DEF TasksTyped
<1> QED BY <1>1, <1>2, <1>3 DEF TasksTyped

\* A row is updated in two columns at once.
LEMMA TwoColumns ==
  ASSUME TasksTyped, NEW t \in 1 .. Len(tasks), NEW s \in {"running"} \cup Final
  PROVE  \E x \in TaskRec :
           /\ [tasks EXCEPT ![t].status = s, ![t].stale = FALSE] = [tasks EXCEPT ![t] = x]
           /\ x.status = s /\ x.release = tasks[t].release
<1>1. tasks \in [1 .. Len(tasks) -> TaskRec] BY LenProperties DEF TasksTyped
<1>2. [tasks EXCEPT ![t].status = s, ![t].stale = FALSE]
      = [tasks EXCEPT ![t] = [tasks[t] EXCEPT !.status = s, !.stale = FALSE]]
  BY <1>1 DEF TaskRec
<1>3. tasks[t] \in TaskRec BY <1>1
<1>4. PICK x \in TaskRec : x = [tasks[t] EXCEPT !.status = s, !.stale = FALSE]
  BY <1>3 DEF TaskRec
<1>5. x.status = s /\ x.release = tasks[t].release BY <1>3, <1>4 DEF TaskRec
<1> QED BY <1>2, <1>4, <1>5

LEMMA FaultCounted ==
  ASSUME budget \in BudgetRec, NEW kind \in {"fault", "crash", "swap"}, Fault(kind)
  PROVE  budget' \in BudgetRec
<1>1. CASE kind = "fault" BY <1>1 DEF Fault, BudgetRec
<1>2. CASE kind = "crash" BY <1>2 DEF Fault, BudgetRec
<1>3. CASE kind = "swap" BY <1>3 DEF Fault, BudgetRec
<1> QED BY <1>1, <1>2, <1>3

-----------------------------------------------------------------------------
(* What one side does leaves the other alone.                              *)

\* The device minds no step of the server that keeps the releases of the tasks.
LEMMA DeviceKept ==
  ASSUME Inductive, UNCHANGED <<process, disk, installed>>, budget' \in BudgetRec,
         Len(tasks') \in Nat, Len(tasks) <= Len(tasks'),
         \A t \in 1 .. Len(tasks) : tasks'[t].release = tasks[t].release
  PROVE  DeviceInv'
<1> USE DEF Inductive, DeviceInv, process, disk
<1>1. DeviceTypes' BY DEF DeviceTypes
<1>0. Len(tasks) \in Nat BY LenProperties DEF ServerInv, TasksTyped
<1>2. JobKnown' BY <1>0 DEF JobKnown
<1>3. stage # "idle" => Release' = Release
  BY JobTask DEF Release
<1>4. Follows' BY <1>3 DEF Follows
<1>5. stage # "idle" => (IsClient' <=> IsClient) BY <1>3 DEF IsClient
<1>6. Ready' BY <1>3, <1>5 DEF Ready
<1>7. GoodBinary' BY DEF GoodBinary
<1> QED BY <1>1, <1>2, <1>4, <1>6, <1>7

\* A report stays sound as long as its task does not become finished.
LEMMA SoundKept ==
  ASSUME NEW r, Sound(r), Len(tasks) \in Nat, Len(tasks') \in Nat, Len(tasks) <= Len(tasks'),
         installed \subseteq installed',
         tasks'[r.task].status \in Final => tasks[r.task].status \in Final
  PROVE  Sound(r)'
<1>1. r \in ReportRec' BY DEF Sound, ReportRec
<1> QED BY <1>1 DEF Sound

LEMMA PollKept ==
  ASSUME PollSound, Len(tasks) \in Nat, Len(tasks') \in Nat, Len(tasks) <= Len(tasks'),
         poll' = poll \/ poll' = [poll EXCEPT !.heard = FALSE],
         \A t \in 1 .. Len(tasks) :
           tasks'[t].status \in Final => tasks[t].status \in Final
  PROVE  PollSound'
<1>0. PICK n \in 0 .. Len(tasks), b \in BOOLEAN, h \in BOOLEAN :
        poll = [task |-> n, overtaken |-> b, heard |-> h]
  BY DEF PollSound, PollRec
<1>a. poll' = poll \/ poll' = [task |-> n, overtaken |-> b, heard |-> FALSE] BY <1>0
<1>b. n \in 0 .. Len(tasks') OBVIOUS
<1>c. [task |-> n, overtaken |-> b, heard |-> FALSE] \in PollRec' BY <1>b DEF PollRec
<1>d. poll \in PollRec' BY <1>0, <1>b DEF PollRec
<1>1. poll' \in PollRec' BY <1>a, <1>c, <1>d
<1>2. poll'.task = poll.task /\ poll'.overtaken = poll.overtaken BY <1>0, <1>a
<1>3. poll.task = 0 => poll' = NoPoll BY DEF PollSound, NoPoll
<1>4. poll.task # 0 => poll # NoPoll BY DEF NoPoll
<1> QED BY <1>1, <1>2, <1>3, <1>4 DEF PollSound, PollRec

\* The server minds no step of the device that sends sound reports.
LEMMA ServerKept ==
  ASSUME ServerInv, UNCHANGED <<tasks, admin, served>>,
         poll' = poll \/ poll' = [poll EXCEPT !.heard = FALSE],
         installed \subseteq installed', installed' \subseteq 1 .. Len(tasks),
         \A r \in reports' : Sound(r)'
  PROVE  ServerInv'
<1>0. Len(tasks) \in Nat BY LenProperties DEF ServerInv, TasksTyped
<1>1. TasksTyped' BY DEF ServerInv, TasksTyped
<1>2. PollSound' BY <1>0, PollKept DEF ServerInv
<1>3. SuccessMeansInstalled' BY DEF ServerInv, SuccessMeansInstalled
<1> QED BY <1>1, <1>2, <1>3 DEF ServerInv

\* A step of the upgrade's goroutine, with what it reports.
LEMMA Says ==
  ASSUME Inductive, stage # "idle", UNCHANGED ServerButReports,
         installed' = installed \/ installed' = installed \cup {job},
         \/ reports' = reports
         \/ \E s \in {"running"} \cup Final : Say(s) /\ (s = "success" => job \in installed)
  PROVE  ServerInv'
<1>0. Len(tasks) \in Nat BY LenProperties DEF Inductive, ServerInv, TasksTyped
<1>1. job \in 1 .. Len(tasks) BY JobTask
<1>2. UNCHANGED <<tasks, admin, served, poll>> BY DEF ServerButReports
<1>3. installed \subseteq installed' /\ installed' \subseteq 1 .. Len(tasks)
  BY <1>1 DEF Inductive, ServerInv
<1>4. \A r \in reports : Sound(r)'
  BY <1>0, <1>2, <1>3, SoundKept DEF Inductive, ServerInv
<1>5. ASSUME NEW s \in {"running"} \cup Final, Say(s), s = "success" => job \in installed
      PROVE  \A r \in reports' : Sound(r)'
  <2>1. PICK n : /\ n = [task |-> job, status |-> s, checked |-> FALSE,
                         overtaken |-> FALSE, awaited |-> TRUE]
                 /\ reports' = reports \cup {n}
    BY <1>5 DEF Say
  <2>2. n \in ReportRec' BY <1>1, <1>2, <2>1 DEF ReportRec
  <2>3. n.status = s /\ n.task = job /\ ~n.checked BY <2>1
  <2>4. Sound(n)' BY <1>3, <1>5, <2>2, <2>3 DEF Sound
  <2> QED BY <1>4, <2>1, <2>4
<1> QED BY <1>2, <1>3, <1>4, <1>5, ServerKept DEF Inductive

-----------------------------------------------------------------------------
(* The steps of the server.                                                *)

LEMMA TasksCreated ==
  ASSUME Inductive,
         \/ \E r \in Releases : CreateBatch(r)
         \/ \E a \in Admins : InsertTask(a) \/ \E r \in Releases : CheckActive(a, r)
  PROVE  Inductive'
<1> USE DEF Inductive
<1>0. Len(tasks) \in Nat BY LenProperties DEF ServerInv, TasksTyped
<1>1. ASSUME NEW r \in Releases, tasks' = Append(tasks, Task(r)), Len(tasks) < MaxTasks,
             admin' \in [Admins -> Releases \cup {Nothing}],
             UNCHANGED <<served, poll, reports, process, disk, installed, budget>>
      PROVE  Inductive'
  <2>1. Task(r) \in TaskRec /\ Task(r).status = "pending" BY DEF Task, TaskRec
  <2>2. PICK x \in TaskRec : x = Task(r) BY <2>1
  <2>3. /\ TasksTyped' /\ Len(tasks') = Len(tasks) + 1
        /\ tasks'[Len(tasks) + 1] = x
        /\ \A u \in 1 .. Len(tasks) : tasks'[u] = tasks[u]
    BY <1>1, <2>2, TaskAppended DEF ServerInv
  <2>4. DeviceInv' BY <1>0, <1>1, <2>3, DeviceKept DEF DeviceInv, DeviceTypes
  <2>5. \A q \in reports' : Sound(q)'
    <3> SUFFICES ASSUME NEW q \in reports PROVE Sound(q)'
      BY <1>1
    <3>1. Sound(q) /\ q.task \in 1 .. Len(tasks) BY DEF ServerInv, Sound, ReportRec
    <3> QED BY <1>0, <1>1, <2>3, <3>1, SoundKept
  <2>6. PollSound' BY <1>0, <1>1, <2>3, PollKept DEF ServerInv
  <2>7. SuccessMeansInstalled'
    <3>1. DOMAIN tasks = 1 .. Len(tasks) BY LenProperties DEF ServerInv, TasksTyped
    <3>2. DOMAIN tasks' = 1 .. Len(tasks) + 1 BY <2>3, LenProperties DEF TasksTyped
    <3> QED BY <1>0, <1>1, <2>1, <2>2, <2>3, <3>1, <3>2 DEF ServerInv, SuccessMeansInstalled
  <2>8. installed' \subseteq 1 .. Len(tasks') BY <1>0, <1>1, <2>3 DEF ServerInv
  <2> QED BY <1>1, <2>3, <2>4, <2>5, <2>6, <2>7, <2>8 DEF ServerInv
<1>2. ASSUME NEW r \in Releases, CreateBatch(r) PROVE Inductive'
  BY <1>1, <1>2 DEF CreateBatch, ServerInv
<1>3. ASSUME NEW a \in Admins, InsertTask(a) PROVE Inductive'
  <2>1. admin[a] \in Releases BY <1>3 DEF InsertTask, ServerInv
  <2>2. admin' \in [Admins -> Releases \cup {Nothing}] BY <1>3 DEF InsertTask, ServerInv
  <2> QED BY <1>1, <1>3, <2>1, <2>2 DEF InsertTask
<1>4. ASSUME NEW a \in Admins, NEW r \in Releases, CheckActive(a, r) PROVE Inductive'
  <2>1. /\ admin' \in [Admins -> Releases \cup {Nothing}]
        /\ UNCHANGED <<tasks, served, poll, reports, process, disk, installed, budget>>
    BY <1>4 DEF CheckActive, ServerInv
  <2>2. DeviceInv' BY <1>0, <2>1, DeviceKept DEF DeviceInv, DeviceTypes
  <2>3. \A q \in reports' : Sound(q)' BY <1>0, <2>1, SoundKept DEF ServerInv
  <2>4. PollSound' BY <1>0, <2>1, PollKept DEF ServerInv
  <2> QED BY <2>1, <2>2, <2>3, <2>4 DEF ServerInv, TasksTyped, SuccessMeansInstalled
<1> QED BY <1>2, <1>3, <1>4

\* A package is replaced, or a lease expires.
LEMMA ServerMoves ==
  ASSUME Inductive,
         \/ \E r \in Releases : SwapPackage(r)
         \/ \E t \in DOMAIN tasks : LeaseExpires(t)
  PROVE  Inductive'
<1> USE DEF Inductive
<1>0. Len(tasks) \in Nat /\ DOMAIN tasks = 1 .. Len(tasks)
  BY LenProperties DEF ServerInv, TasksTyped
<1>1. ASSUME NEW r \in Releases, SwapPackage(r) PROVE Inductive'
  <2>1. budget' \in BudgetRec
    BY <1>1, FaultCounted DEF SwapPackage, DeviceInv, DeviceTypes
  <2>2. UNCHANGED <<tasks, admin, poll, reports, process, disk, installed>>
    BY <1>1 DEF SwapPackage
  <2>3. served' \in [Releases -> Seq(Bytes)]
    <3>1. PICK n \in {Size[r], Size[r] + 1} :
            served' = [served EXCEPT ![r] = [i \in 1 .. n |-> Swapped]]
      BY <1>1 DEF SwapPackage
    <3>2. n \in Nat /\ [i \in 1 .. n |-> Swapped] \in [1 .. n -> Bytes] BY DEF Bytes
    <3>3. [i \in 1 .. n |-> Swapped] \in Seq(Bytes) BY <3>2, SeqDef
    <3> QED BY <3>1, <3>3 DEF ServerInv
  <2>4. DeviceInv' BY <1>0, <2>1, <2>2, DeviceKept
  <2>5. \A q \in reports' : Sound(q)' BY <1>0, <2>2, SoundKept DEF ServerInv
  <2>6. PollSound' BY <1>0, <2>2, PollKept DEF ServerInv
  <2> QED BY <2>2, <2>3, <2>4, <2>5, <2>6 DEF ServerInv, TasksTyped, SuccessMeansInstalled
<1>2. ASSUME NEW t \in 1 .. Len(tasks), LeaseExpires(t) PROVE Inductive'
  <2>0. tasks[t] \in TaskRec BY ElementOfSeq DEF ServerInv, TasksTyped
  <2>1. PICK x \in TaskRec : x = [tasks[t] EXCEPT !.stale = TRUE] BY <2>0 DEF TaskRec
  <2>2. /\ tasks' = [tasks EXCEPT ![t] = x] /\ x.status = tasks[t].status
        /\ x.release = tasks[t].release
        /\ UNCHANGED <<admin, served, poll, reports, process, disk, installed, budget>>
    BY <1>2, <2>0, <2>1 DEF LeaseExpires, TaskRec
  <2>3. /\ TasksTyped' /\ Len(tasks') = Len(tasks) /\ tasks'[t] = x
        /\ \A u \in 1 .. Len(tasks) : u # t => tasks'[u] = tasks[u]
    BY <2>2, TaskSet DEF ServerInv
  <2>4. \A u \in 1 .. Len(tasks) : /\ tasks'[u].status = tasks[u].status
                                   /\ tasks'[u].release = tasks[u].release
    BY <2>2, <2>3
  <2>5. DeviceInv' BY <1>0, <2>2, <2>3, <2>4, DeviceKept DEF DeviceInv, DeviceTypes
  <2>6. \A q \in reports' : Sound(q)'
    <3> SUFFICES ASSUME NEW q \in reports PROVE Sound(q)'
      BY <2>2
    <3>1. Sound(q) /\ q.task \in 1 .. Len(tasks) BY DEF ServerInv, Sound, ReportRec
    <3> QED BY <1>0, <2>2, <2>3, <2>4, <3>1, SoundKept
  <2>7. PollSound' BY <1>0, <2>2, <2>3, <2>4, PollKept DEF ServerInv
  <2>8. SuccessMeansInstalled'
    <3>1. DOMAIN tasks' = 1 .. Len(tasks) BY <2>3, LenProperties DEF TasksTyped
    <3> QED BY <1>0, <2>2, <2>4, <3>1 DEF ServerInv, SuccessMeansInstalled
  <2> QED BY <2>2, <2>3, <2>5, <2>6, <2>7, <2>8 DEF ServerInv
<1> QED BY <1>0, <1>1, <1>2

-----------------------------------------------------------------------------
(* Reports and heartbeats.                                                 *)

\* The row of task t is written with status s: those who had read it before
\* are overtaken, or the task is not finished.
LEMMA TaskWritten ==
  ASSUME Inductive, NEW t \in 1 .. Len(tasks), NEW s \in {"running"} \cup Final,
         tasks' = [tasks EXCEPT ![t].status = s, ![t].stale = FALSE],
         s = "success" => t \in installed,
         UNCHANGED <<admin, served, process, disk, installed, budget>>,
         \A r \in reports' :
           \/ r \in reports /\ (s \in Final /\ r.task = t /\ r.checked => r.overtaken)
           \/ \E q \in reports : r = [q EXCEPT !.overtaken = TRUE],
         \/ poll' = NoPoll
         \/ s \notin Final /\ poll' = poll
         \/ poll' = [poll EXCEPT !.overtaken = @ \/ poll.task = t]
  PROVE  Inductive'
<1> USE DEF Inductive
<1>0. Len(tasks) \in Nat /\ DOMAIN tasks = 1 .. Len(tasks)
  BY LenProperties DEF ServerInv, TasksTyped
<1>1. tasks[t] \in TaskRec BY ElementOfSeq DEF ServerInv, TasksTyped
<1>2. TasksTyped BY DEF ServerInv
<1>a. PICK x \in TaskRec :
        /\ [tasks EXCEPT ![t].status = s, ![t].stale = FALSE] = [tasks EXCEPT ![t] = x]
        /\ x.status = s /\ x.release = tasks[t].release
  BY <1>2, TwoColumns
<1>3. tasks' = [tasks EXCEPT ![t] = x] /\ x.status = s /\ x.release = tasks[t].release
  BY <1>a
<1>4. /\ TasksTyped' /\ Len(tasks') = Len(tasks) /\ tasks'[t] = x
      /\ \A u \in 1 .. Len(tasks) : u # t => tasks'[u] = tasks[u]
  BY <1>3, TaskSet DEF ServerInv
<1>5. \A u \in 1 .. Len(tasks) : tasks'[u].release = tasks[u].release BY <1>3, <1>4
<1>6. DeviceInv'
  <2>1. budget' \in BudgetRec BY DEF DeviceInv, DeviceTypes
  <2>2. Len(tasks') \in Nat /\ Len(tasks) <= Len(tasks') BY <1>0, <1>4
  <2> QED BY <1>5, <2>1, <2>2, DeviceKept
<1>7. ASSUME NEW r \in reports' PROVE Sound(r)'
  <2>1. CASE r \in reports /\ (s \in Final /\ r.task = t /\ r.checked => r.overtaken)
    <3>1. Sound(r) BY <2>1 DEF ServerInv
    <3>2. r \in ReportRec' BY <1>4, <3>1 DEF Sound, ReportRec
    <3>3. r.task \in 1 .. Len(tasks) BY <3>1 DEF Sound, ReportRec
    <3>4. CASE r.task = t BY <1>3, <1>4, <2>1, <3>1, <3>2, <3>4 DEF Sound
    <3>5. CASE r.task # t BY <1>4, <3>1, <3>2, <3>3, <3>5 DEF Sound
    <3> QED BY <3>4, <3>5
  <2>2. CASE \E q \in reports : r = [q EXCEPT !.overtaken = TRUE]
    <3>1. PICK q \in reports : r = [q EXCEPT !.overtaken = TRUE] BY <2>2
    <3>2. Sound(q) BY DEF ServerInv
    <3>3. r \in ReportRec' /\ r.overtaken /\ r.task = q.task /\ r.status = q.status
      BY <1>4, <3>1, <3>2 DEF Sound, ReportRec
    <3> QED BY <3>2, <3>3 DEF Sound
  <2> QED BY <2>1, <2>2
<1>8. PollSound'
  <2>0. PollSound BY DEF ServerInv
  <2>1. CASE poll' = NoPoll BY <1>0, <1>4, <2>1 DEF PollSound, PollRec, NoPoll
  <2>2. CASE s \notin Final /\ poll' = poll
    <3>1. poll' \in PollRec' BY <1>4, <2>0, <2>2 DEF PollSound, PollRec
    <3>2. ASSUME poll # NoPoll, tasks'[poll.task].status \in Final PROVE poll.overtaken
      <4>1. poll.task \in 1 .. Len(tasks) BY <1>0, <2>0, <3>2 DEF PollSound, PollRec
      <4> QED BY <1>3, <1>4, <2>0, <2>2, <3>2, <4>1 DEF PollSound
    <3> QED BY <2>0, <2>2, <3>1, <3>2 DEF PollSound
  <2>3. CASE poll' = [poll EXCEPT !.overtaken = @ \/ poll.task = t]
    <3>0. PICK n \in 0 .. Len(tasks), b \in BOOLEAN, h \in BOOLEAN :
            poll = [task |-> n, overtaken |-> b, heard |-> h]
      BY <2>0 DEF PollSound, PollRec
    <3>1. poll' = [task |-> n, overtaken |-> (b \/ n = t), heard |-> h]
      BY <2>3, <3>0
    <3>2. poll' \in PollRec' BY <1>4, <3>1 DEF PollRec
    <3>3. n = 0 => poll' = NoPoll
      BY <2>0, <3>0, <3>1 DEF PollSound, NoPoll
    <3>4. ASSUME n # 0, tasks'[n].status \in Final PROVE b \/ n = t
      <4>1. poll # NoPoll BY <3>0, <3>4 DEF NoPoll
      <4> QED BY <1>4, <2>0, <3>0, <3>4, <4>1 DEF PollSound
    <3>5. poll'.task = n /\ poll'.overtaken = (b \/ n = t) BY <3>1
    <3> QED BY <3>2, <3>3, <3>4, <3>5 DEF PollSound
  <2> QED BY <2>1, <2>2, <2>3
<1>9. SuccessMeansInstalled'
  <2>1. DOMAIN tasks' = 1 .. Len(tasks) BY <1>4, LenProperties DEF TasksTyped
  <2> QED BY <1>0, <1>3, <1>4, <2>1 DEF ServerInv, SuccessMeansInstalled
<1> QED BY <1>4, <1>6, <1>7, <1>8, <1>9 DEF ServerInv

\* A final write overtakes every report that has read the row of its task.
LEMMA AllOvertaken ==
  ASSUME NEW t, NEW reps \in SUBSET reports, NEW r \in Overtake(t, reps)
  PROVE  \/ r \in reports /\ (r.task = t /\ r.checked => r.overtaken)
         \/ \E q \in reports : r = [q EXCEPT !.overtaken = TRUE]
BY DEF Overtake

LEMMA PollSteps ==
  ASSUME Inductive, PollTask \/ PollUnsupported \/ PollAnswer \/ PollLost
  PROVE  Inductive'
<1> USE DEF Inductive
<1>0. Len(tasks) \in Nat /\ DOMAIN tasks = 1 .. Len(tasks)
  BY LenProperties DEF ServerInv, TasksTyped
<1>k. poll # NoPoll => poll.task \in 1 .. Len(tasks)
  BY <1>0 DEF ServerInv, PollSound, PollRec
<1>1. CASE PollTask
  <2>1. PICK t \in 1 .. Len(tasks) :
          HandedOut(t) /\ poll' = [task |-> t, overtaken |-> FALSE, heard |-> TRUE]
    BY <1>0, <1>1 DEF PollTask
  <2>2. UNCHANGED <<tasks, admin, served, reports, process, disk, installed, budget>>
    BY <1>1 DEF PollTask
  <2>3. tasks[t].status \notin Final BY <2>1 DEF HandedOut, Final
  <2>4. PollSound' BY <1>0, <2>1, <2>2, <2>3 DEF PollSound, PollRec
  <2>5. DeviceInv' BY <1>0, <2>2, DeviceKept DEF DeviceInv, DeviceTypes
  <2>6. \A q \in reports' : Sound(q)' BY <1>0, <2>2, SoundKept DEF ServerInv
  <2> QED BY <2>2, <2>4, <2>5, <2>6 DEF ServerInv, TasksTyped, SuccessMeansInstalled
<1>2. CASE PollUnsupported
  <2>1. /\ poll # NoPoll /\ poll' = NoPoll
        /\ tasks' = [tasks EXCEPT ![poll.task].status = "failed", ![poll.task].stale = FALSE]
        /\ reports' = Overtake(poll.task, reports)
        /\ UNCHANGED <<admin, served, process, disk, installed, budget>>
    BY <1>2 DEF PollUnsupported
  <2>2. PICK t \in 1 .. Len(tasks) : t = poll.task BY <1>k, <2>1
  <2>3. PICK s \in {"running"} \cup Final : s = "failed" BY DEF Final
  <2>4. \A r \in reports' :
           \/ r \in reports /\ (s \in Final /\ r.task = t /\ r.checked => r.overtaken)
           \/ \E q \in reports : r = [q EXCEPT !.overtaken = TRUE]
    BY <2>1, <2>2, AllOvertaken
  <2>5. tasks' = [tasks EXCEPT ![t].status = s, ![t].stale = FALSE] BY <2>1, <2>2, <2>3
  <2>6. s = "success" => t \in installed BY <2>3
  <2>7. UNCHANGED <<admin, served, process, disk, installed, budget>> BY <2>1
  <2>8. \/ poll' = NoPoll
        \/ s \notin Final /\ poll' = poll
        \/ poll' = [poll EXCEPT !.overtaken = @ \/ poll.task = t]
    BY <2>1
  <2> QED BY <2>4, <2>5, <2>6, <2>7, <2>8, TaskWritten
<1>3. CASE PollAnswer
  <2>1. /\ poll # NoPoll /\ poll' = NoPoll
        /\ UNCHANGED <<tasks, admin, served, reports, disk, installed, budget,
                       up, hash, total, attempt, diskError>>
    BY <1>3 DEF PollAnswer
  <2>2. PollSound' BY <1>0, <2>1 DEF PollSound, PollRec, NoPoll
  <2>3. \A q \in reports' : Sound(q)' BY <1>0, <2>1, SoundKept DEF ServerInv
  <2>4. DeviceInv'
    <3>1. CASE UNCHANGED <<job, stage>>
      BY <1>0, <2>1, <3>1, DeviceKept DEF process, DeviceInv, DeviceTypes
    <3>2. CASE job' = poll.task /\ stage' = "begin"
      <4>1. DeviceTypes' BY <2>1, <3>2 DEF DeviceInv, DeviceTypes, disk, Stages
      <4>2. JobKnown' BY <1>k, <2>1, <3>2 DEF JobKnown
      <4>3. Follows' /\ Ready' BY <3>2 DEF Follows, Ready
      <4>4. GoodBinary' BY <2>1 DEF DeviceInv, GoodBinary, disk
      <4> QED BY <4>1, <4>2, <4>3, <4>4 DEF DeviceInv
    <3> QED BY <1>3, <3>1, <3>2 DEF PollAnswer
  <2> QED BY <2>1, <2>2, <2>3, <2>4 DEF ServerInv, TasksTyped, SuccessMeansInstalled
<1>4. CASE PollLost
  <2>1. /\ poll' = [poll EXCEPT !.heard = FALSE]
        /\ UNCHANGED <<tasks, admin, served, reports, process, disk, installed>>
    BY <1>4 DEF PollLost
  <2>2. budget' \in BudgetRec
    BY <1>4, FaultCounted DEF PollLost, DeviceInv, DeviceTypes
  <2>3. DeviceInv' BY <1>0, <2>1, <2>2, DeviceKept
  <2>4. \A q \in reports' : Sound(q)' BY <1>0, <2>1, SoundKept DEF ServerInv
  <2>5. ServerInv' BY <2>1, <2>4, ServerKept DEF ServerInv
  <2> QED BY <2>3, <2>5
<1> QED BY <1>1, <1>2, <1>3, <1>4

LEMMA ReportSteps ==
  ASSUME Inductive, NEW r \in reports,
         ReportTimeout(r) \/ ReportLost(r) \/ ReportRead(r) \/ ReportWrite(r)
  PROVE  Inductive'
<1> USE DEF Inductive
<1>0. Len(tasks) \in Nat /\ DOMAIN tasks = 1 .. Len(tasks)
  BY LenProperties DEF ServerInv, TasksTyped
<1>r. Sound(r) /\ r \in ReportRec BY DEF ServerInv, Sound
<1>a. ASSUME UNCHANGED <<tasks, admin, served, poll, process, disk, installed>>,
             budget' \in BudgetRec,
             NEW x, reports' \subseteq reports \cup {x}, x \in reports' => Sound(x)
      PROVE  Inductive'
  <2>1. DeviceInv' BY <1>0, <1>a, DeviceKept
  <2>2. \A q \in reports' : Sound(q) BY <1>a DEF ServerInv
  <2>3. \A q \in reports' : Sound(q)' BY <1>0, <1>a, <2>2, SoundKept
  <2>4. ServerInv' BY <1>a, <2>3, ServerKept DEF ServerInv
  <2> QED BY <2>1, <2>4
<1>1. CASE ReportTimeout(r)
  <2>1. PICK x : x = [r EXCEPT !.awaited = FALSE] OBVIOUS
  <2>2. Sound(x) BY <1>r, <2>1 DEF Sound, ReportRec
  <2>3. budget' \in BudgetRec
    BY <1>1, FaultCounted DEF ReportTimeout, DeviceInv, DeviceTypes
  <2> QED BY <1>1, <1>a, <2>1, <2>2, <2>3 DEF ReportTimeout
<1>2. CASE ReportLost(r)
  <2>1. budget' \in BudgetRec
    BY <1>2, FaultCounted DEF ReportLost, DeviceInv, DeviceTypes
  <2> QED BY <1>2, <1>a, <1>r, <2>1 DEF ReportLost
<1>3. CASE ReportRead(r)
  <2>0. budget' \in BudgetRec BY <1>3 DEF ReportRead, DeviceInv, DeviceTypes
  <2>1. PICK x : x = [r EXCEPT !.checked = TRUE] OBVIOUS
  <2>2. CASE tasks[r.task].status \in Final
    BY <1>3, <1>a, <1>r, <2>0, <2>2 DEF ReportRead
  <2>3. CASE tasks[r.task].status \notin Final
    <3>1. Sound(x) BY <1>r, <2>1, <2>3 DEF Sound, ReportRec
    <3>2. reports' = (reports \ {r}) \cup {x} BY <1>3, <2>1, <2>3 DEF ReportRead
    <3> QED BY <1>3, <1>a, <2>0, <3>1, <3>2 DEF ReportRead
  <2> QED BY <2>2, <2>3
<1>4. CASE ReportWrite(r)
  <2>1. PICK t \in 1 .. Len(tasks), s \in {"running"} \cup Final : t = r.task /\ s = r.status
    BY <1>r DEF ReportRec
  <2>2. /\ tasks' = [tasks EXCEPT ![t].status = s, ![t].stale = FALSE]
        /\ UNCHANGED <<admin, served, process, disk, installed, budget>>
    BY <1>4, <2>1 DEF ReportWrite
  <2>3. s = "success" => t \in installed BY <1>r, <2>1 DEF Sound
  <2>4. CASE s \in Final
    <3>1. /\ reports' = Overtake(t, reports \ {r})
          /\ poll' = [poll EXCEPT !.overtaken = @ \/ poll.task = t]
      BY <1>4, <2>1, <2>4 DEF ReportWrite
    <3>2. \A q \in reports' :
           \/ q \in reports /\ (s \in Final /\ q.task = t /\ q.checked => q.overtaken)
           \/ \E p \in reports : q = [p EXCEPT !.overtaken = TRUE]
      <4>1. reports \ {r} \in SUBSET reports OBVIOUS
      <4> QED BY <3>1, <4>1, AllOvertaken
    <3>3. \/ poll' = NoPoll
          \/ s \notin Final /\ poll' = poll
          \/ poll' = [poll EXCEPT !.overtaken = @ \/ poll.task = t]
      BY <3>1
    <3> QED BY <2>2, <2>3, <3>2, <3>3, TaskWritten
  <2>5. CASE s \notin Final
    <3>1. reports' = reports \ {r} /\ poll' = poll
      BY <1>4, <2>1, <2>5 DEF ReportWrite
    <3>2. \A q \in reports' :
           \/ q \in reports /\ (s \in Final /\ q.task = t /\ q.checked => q.overtaken)
           \/ \E p \in reports : q = [p EXCEPT !.overtaken = TRUE]
      BY <2>5, <3>1
    <3> QED BY <2>2, <2>3, <2>5, <3>1, <3>2, TaskWritten
  <2> QED BY <2>4, <2>5
<1> QED BY <1>1, <1>2, <1>3, <1>4

LEMMA ServerSteps == Inductive /\ ServerNext => Inductive'
BY TasksCreated, ServerMoves, PollSteps, ReportSteps DEF ServerNext

-----------------------------------------------------------------------------
(* The steps of the upgrade's goroutine.                                   *)

\* A step of the goroutine that goes on with its upgrade keeps the invariant,
\* if it leaves the files of the device as the next stage needs them.
LEMMA Moves ==
  ASSUME Inductive, stage # "idle", stage' # "idle", UNCHANGED <<ServerButReports, job>>,
         installed' = installed \/ installed' = installed \cup {job},
         \/ reports' = reports
         \/ \E s \in {"running"} \cup Final : Say(s) /\ (s = "success" => job \in installed),
         DeviceTypes', Follows', Ready', GoodBinary'
  PROVE  Inductive'
<1>1. ServerInv' BY Says
<1>2. JobKnown' BY DEF Inductive, DeviceInv, JobKnown, ServerButReports
<1> QED BY <1>1, <1>2 DEF Inductive, DeviceInv

\* Between the stages that hold a package nothing is asked of the files.
LEMMA NothingHeld ==
  ASSUME stage' \in {"begin", "load", "failing", "ending"}
  PROVE  Follows' /\ Ready'
BY DEF Follows, Ready

LEMMA SameTask ==
  ASSUME Inductive, stage # "idle", UNCHANGED <<ServerButReports, job>>
  PROVE  \E r \in Releases :
           /\ r = Release /\ r = Release' /\ TargetOf(r) \in Targets
           /\ (IsClient <=> r \in ClientReleases) /\ (IsClient' <=> r \in ClientReleases)
           /\ TargetOf(r) = (IF r \in ClientReleases THEN NewBinary ELSE r)
<1>1. Release' = Release BY DEF ServerButReports, Release
<1> QED BY <1>1, JobTask DEF IsClient, TargetOf

LEMMA Chunk ==
  ASSUME NEW body \in Seq(Bytes), NEW n \in 0 .. Len(body)
  PROVE  SubSeq(body, 1, n) \in Seq(Bytes) /\ Len(SubSeq(body, 1, n)) = n
<1>1. Len(body) \in Nat BY LenProperties
<1>2. \A i \in 1 .. n : body[i] \in Bytes BY <1>1, ElementOfSeq
<1> QED BY <1>1, <1>2, SubSeqProperties

LEMMA Joined ==
  ASSUME NEW a \in Seq(Bytes), NEW b \in Seq(Bytes)
  PROVE  \E c \in Seq(Bytes) : c = a \o b /\ Len(c) = Len(a) + Len(b)
<1>1. a \o b \in Seq(Bytes) /\ Len(a \o b) = Len(a) + Len(b) BY ConcatProperties
<1> QED BY <1>1

\* Another attempt starts from the file and the hash as they are.
LEMMA AgainTyped ==
  ASSUME Inductive, Again
  PROVE  /\ stage' \in {"fetch", "begin"} /\ attempt' \in 0 .. MaxAttempts - 1
         /\ reports' = reports \/ Say("running")
BY DEF Again, Inductive, DeviceInv, DeviceTypes

\* What arrives is added to the file and to the hash: the hash may lack the
\* byte of a failing write, and can then never be as long as the file again.
LEMMA ArriveSteps ==
  ASSUME Inductive, Fetching, FetchUnchanged,
         NEW base \in Seq(Bytes), NEW fed \in Seq(Bytes), NEW body \in Seq(Bytes),
         NEW ignored \in BOOLEAN,
         Len(fed) <= Len(base), Len(fed) = Len(base) \/ ~diskError => fed = base,
         total' \in Nat, Arrive(base, fed, body, ignored)
  PROVE  Inductive'
<1> USE DEF Inductive, DeviceInv
<1>0. stage = "fetch" /\ UNCHANGED <<ServerButReports, job, installed>>
  BY DEF Fetching, FetchUnchanged
<1>r. PICK r \in Releases : r = Release /\ r = Release' BY <1>0, SameTask
<1>1. PICK n \in 0 .. Len(body), lost \in {0, 1} :
        /\ lost = 0 \/ (0 < n /\ n < Len(body))
        /\ part' = [part EXCEPT ![Release] = base \o SubSeq(body, 1, n)]
        /\ hash' = fed \o SubSeq(body, 1, n - lost)
        /\ diskError' = (diskError \/ lost = 1)
        /\ \/ stage' = "verify" /\ UNCHANGED <<attempt, reports>>
           \/ Again
        /\ Fault("fault") \/ UNCHANGED budget
  BY DEF Arrive, Received
<1>2. Len(base) \in Nat /\ Len(fed) \in Nat /\ Len(body) \in Nat BY LenProperties
<1>3. n \in Nat /\ n - lost \in 0 .. Len(body) BY <1>1, <1>2
<1>4. PICK piece \in Seq(Bytes), shorter \in Seq(Bytes) :
        /\ piece = SubSeq(body, 1, n) /\ Len(piece) = n
        /\ shorter = SubSeq(body, 1, n - lost) /\ Len(shorter) = n - lost
  BY <1>2, <1>3, Chunk
<1>a. PICK file \in Seq(Bytes) : file = base \o piece /\ Len(file) = Len(base) + Len(piece)
  BY Joined
<1>b. PICK fed2 \in Seq(Bytes) : fed2 = fed \o shorter /\ Len(fed2) = Len(fed) + Len(shorter)
  BY Joined
<1>5. /\ file = base \o piece /\ Len(file) = Len(base) + n
      /\ fed2 = fed \o shorter /\ Len(fed2) = Len(fed) + n - lost
  BY <1>a, <1>b, <1>1, <1>2, <1>3, <1>4
<1>6. part' = [part EXCEPT ![r] = file] /\ hash' = fed2
  BY <1>r, <1>1, <1>4, <1>5
<1>7. part'[r] = file /\ Content(part'[r]) = file /\ file # NoFile
  BY <1>5, <1>6 DEF DeviceTypes, Content
<1>8. Len(fed2) <= Len(file) BY <1>1, <1>2, <1>3, <1>5
<1>9. ASSUME Len(fed2) = Len(file) \/ ~diskError' PROVE fed2 = file
  <2>1. lost = 0 /\ (Len(fed) = Len(base) \/ ~diskError)
    <3>1. CASE Len(fed2) = Len(file) BY <1>2, <1>3, <1>5, <3>1
    <3>2. CASE ~diskError' BY <1>1, <3>2
    <3> QED BY <1>9, <3>1, <3>2
  <2>2. fed = base BY <2>1
  <2>3. shorter = piece BY <1>3, <1>4, <2>1
  <2> QED BY <1>5, <2>2, <2>3
<1>10. Follows' BY <1>r, <1>6, <1>7, <1>8, <1>9 DEF Follows
<1>11. stage' \in {"verify", "fetch", "begin"} /\ attempt' \in 0 .. MaxAttempts - 1
       /\ (reports' = reports \/ Say("running"))
  BY <1>1, AgainTyped DEF DeviceTypes
<1>12. Ready' BY <1>11 DEF Ready
<1>13. budget' \in BudgetRec BY <1>1, FaultCounted DEF DeviceTypes
<1>14. /\ hash' \in Seq(Bytes) /\ part' \in [Releases -> Seq(Bytes) \cup {NoFile}]
       /\ diskError' \in BOOLEAN /\ stage' \in Stages
  <2>1. part' \in [Releases -> Seq(Bytes) \cup {NoFile}] BY <1>6 DEF DeviceTypes
  <2>2. diskError' \in BOOLEAN BY <1>1
  <2>3. stage' \in Stages BY <1>11 DEF Stages
  <2> QED BY <1>6, <2>1, <2>2, <2>3
<1>15. UNCHANGED <<up, target, current, backup, app, appUp>>
  BY DEF FetchUnchanged, Program
<1>16. DeviceTypes' BY <1>11, <1>13, <1>14, <1>15 DEF DeviceTypes
<1>17. GoodBinary' BY <1>15 DEF GoodBinary
<1> QED BY <1>0, <1>10, <1>11, <1>12, <1>16, <1>17, Moves

LEMMA FetchSteps ==
  ASSUME Inductive, FetchRest \/ FetchAll \/ FetchUnsatisfiable \/ FetchFails
  PROVE  Inductive'
<1> USE DEF Inductive, DeviceInv
<1>f. stage = "fetch"
  BY DEF FetchRest, FetchAll, FetchUnsatisfiable, FetchFails, Fetching
<1>0. PICK r \in Releases : r = Release BY <1>f, JobTask
<1>2. Content(part[r]) \in Seq(Bytes) /\ Len(Content(part[r])) \in Nat
  BY ContentIsBytes DEF DeviceTypes
<1>e. <<>> \in Seq(Bytes) /\ Len(<<>>) = 0 BY EmptySeq
<1>s. Len(served[r]) \in Nat BY LenProperties DEF ServerInv
<1>3. CASE FetchRest
  <2>0. Fetching /\ FetchUnchanged /\ r = Release BY <1>0, <1>3 DEF FetchRest, Fetching
  <2>1. /\ Len(Content(part[r])) < Len(served[r]) /\ total' = Len(served[r])
        /\ Arrive(Content(part[r]), hash,
                  SubSeq(served[r], Len(Content(part[r])) + 1, Len(served[r])), FALSE)
    BY <1>3, <2>0 DEF FetchRest
  <2>2. SubSeq(served[r], Len(Content(part[r])) + 1, Len(served[r])) \in Seq(Bytes)
    <3>1. \A i \in Len(Content(part[r])) + 1 .. Len(served[r]) : served[r][i] \in Bytes
      BY <1>2, <1>s, ElementOfSeq DEF ServerInv
    <3> QED BY <1>2, <1>s, <3>1, SubSeqProperties
  <2>3. /\ Len(hash) <= Len(Content(part[r]))
        /\ Len(hash) = Len(Content(part[r])) \/ ~diskError => hash = Content(part[r])
    BY <2>0 DEF Follows, Fetching
  <2>4. hash \in Seq(Bytes) BY DEF DeviceTypes
  <2> QED BY <1>2, <1>s, <2>0, <2>1, <2>2, <2>3, <2>4, ArriveSteps
<1>4. CASE FetchAll
  <2>0. Fetching /\ FetchUnchanged /\ r = Release BY <1>0, <1>4 DEF FetchAll, Fetching
  <2>1. PICK ignored \in BOOLEAN : ignored = (Content(part[r]) # <<>>) OBVIOUS
  <2>2. PICK fed : fed = IF ignored THEN <<>> ELSE hash OBVIOUS
  <2>b. PICK base \in Seq(Bytes) : base = <<>> BY <1>e
  <2>3. total' = total /\ Arrive(base, fed, served[r], ignored)
    BY <1>4, <2>0, <2>1, <2>2, <2>b DEF FetchAll
  <2>4. ~ignored => hash = <<>>
    <3>1. ~ignored => Len(hash) <= 0 BY <1>e, <2>0, <2>1 DEF Follows, Fetching
    <3> QED BY <3>1, EmptySeq DEF DeviceTypes
  <2>5. fed = base BY <2>2, <2>4, <2>b
  <2>6. total' \in Nat BY <2>3 DEF DeviceTypes
  <2>7. served[r] \in Seq(Bytes) BY DEF ServerInv
  <2>8. Len(fed) <= Len(base) /\ fed \in Seq(Bytes) BY <1>e, <2>5, <2>b
  <2> QED BY <2>0, <2>3, <2>5, <2>6, <2>7, <2>8, ArriveSteps
<1>5. CASE FetchUnsatisfiable
  <2>0. /\ stage = "fetch" /\ r = Release /\ total' = Len(served[r])
        /\ 0 < Len(Content(part[r])) /\ UNCHANGED <<diskError, budget>>
        /\ UNCHANGED <<ServerButReports, job, installed>>
        /\ UNCHANGED <<up, target, current, backup, app, appUp>>
    BY <1>0, <1>5 DEF FetchUnsatisfiable, Fetching, FetchUnchanged, Program
  <2>1. r = Release' BY <2>0, SameTask
  <2>2. part[r] # NoFile BY <1>e, <2>0 DEF Content
  <2>3. \/ stage' = "verify" /\ UNCHANGED <<reports, attempt, part, hash>>
        \/ Again /\ part' = [part EXCEPT ![r] = NoFile] /\ hash' = <<>>
    BY <1>5, <2>0 DEF FetchUnsatisfiable
  <2>4. stage' \in {"verify", "fetch", "begin"} /\ attempt' \in 0 .. MaxAttempts - 1
        /\ (reports' = reports \/ Say("running"))
    BY <2>3, AgainTyped DEF DeviceTypes
  <2>5. Follows'
    <3>1. CASE stage' = "verify" /\ UNCHANGED <<reports, attempt, part, hash>>
      BY <2>0, <2>1, <2>2, <3>1 DEF Follows
    <3>2. CASE Again /\ part' = [part EXCEPT ![r] = NoFile] /\ hash' = <<>>
      <4>1. Content(part'[r]) = hash' /\ Len(hash') = 0
        BY <1>e, <3>2 DEF Content, DeviceTypes
      <4>2. stage' # "verify" BY <3>2, AgainTyped
      <4> QED BY <2>1, <4>1, <4>2 DEF Follows
    <3> QED BY <2>3, <3>1, <3>2
  <2>6. part' \in [Releases -> Seq(Bytes) \cup {NoFile}] /\ hash' \in Seq(Bytes)
    BY <1>e, <2>3 DEF DeviceTypes
  <2>7. DeviceTypes' BY <1>s, <2>0, <2>4, <2>6 DEF DeviceTypes, Stages
  <2>8. Ready' /\ GoodBinary' BY <2>0, <2>4 DEF Ready, GoodBinary
  <2> QED BY <2>0, <2>4, <2>5, <2>7, <2>8, Moves
<1>6. CASE FetchFails
  <2>0. /\ stage = "fetch" /\ Again /\ UNCHANGED <<hash, total, diskError, part>>
        /\ UNCHANGED <<ServerButReports, job, installed>>
        /\ UNCHANGED <<up, target, current, backup, app, appUp>>
    BY <1>6 DEF FetchFails, Fetching, FetchUnchanged, Program
  <2>1. r = Release /\ r = Release' BY <1>0, <2>0, SameTask
  <2>2. stage' \in {"fetch", "begin"} /\ attempt' \in 0 .. MaxAttempts - 1
        /\ (reports' = reports \/ Say("running"))
    BY <2>0, AgainTyped
  <2>3. budget' \in BudgetRec BY <1>6, FaultCounted DEF FetchFails, DeviceTypes
  <2>4. DeviceTypes' BY <2>0, <2>2, <2>3 DEF DeviceTypes, Stages
  <2>5. Follows' /\ Ready' /\ GoodBinary'
    BY <2>0, <2>1, <2>2 DEF Follows, Ready, GoodBinary
  <2> QED BY <2>0, <2>2, <2>4, <2>5, Moves
<1> QED BY <1>3, <1>4, <1>5, <1>6

\* The steps of the download that move no byte, and its end.
LEMMA DownloadSteps ==
  ASSUME Inductive, DownloadNext
  PROVE  Inductive'
<1> USE DEF Inductive, DeviceInv
<1>1. CASE Begin
  <2>1. /\ stage # "idle" /\ stage' = "load" /\ Say("running")
        /\ UNCHANGED <<ServerButReports, up, job, Download, disk, installed, budget>>
    BY <1>1 DEF Begin, Step
  <2>2. DeviceTypes' /\ GoodBinary'
    BY <2>1 DEF DeviceTypes, GoodBinary, Download, disk, Stages
  <2> QED BY <2>1, <2>2, NothingHeld, Moves
<1>2. CASE LoadPart
  <2>0. stage # "idle" /\ stage' = "fetch" /\ Say("running") /\ UNCHANGED ServerButReports
        /\ UNCHANGED <<up, job, current, backup, app, appUp, installed, budget>>
    BY <1>2 DEF LoadPart, Step, Program
  <2>1. PICK r \in Releases : r = Release /\ r = Release' /\ TargetOf(r) \in Targets
    BY <2>0, SameTask
  <2>2. PICK found \in Seq(Bytes) \cup {NoFile}, kept \in Seq(Bytes) \cup {NoFile} :
          /\ kept = IF Len(Content(found)) > Size[r] THEN NoFile ELSE found
          /\ part' = [part EXCEPT ![r] = kept]
          /\ hash' = Content(kept) /\ total' = Size[r] /\ attempt' = 0 /\ diskError' = FALSE
          /\ \/ target' = [target EXCEPT ![TargetOf(r)] = NoFile]
             \/ target' = target
    <3>1. CASE part[r] = NoFile /\ target[TargetOf(r)] # NoFile
      <4>1. PICK found \in Seq(Bytes) \cup {NoFile} : found = target[TargetOf(r)]
        BY <2>1 DEF DeviceTypes
      <4>2. PICK kept \in Seq(Bytes) \cup {NoFile} :
              kept = IF Len(Content(found)) > Size[r] THEN NoFile ELSE found
        OBVIOUS
      <4>3. /\ part' = [part EXCEPT ![r] = kept]
            /\ hash' = Content(kept) /\ total' = Size[r] /\ attempt' = 0 /\ diskError' = FALSE
            /\ target' = [target EXCEPT ![TargetOf(r)] = NoFile]
        BY <1>2, <2>1, <3>1, <4>1, <4>2 DEF LoadPart
      <4> QED BY <4>2, <4>3
    <3>2. CASE ~(part[r] = NoFile /\ target[TargetOf(r)] # NoFile)
      <4>1. PICK found \in Seq(Bytes) \cup {NoFile} : found = part[r]
        BY <2>1 DEF DeviceTypes
      <4>2. PICK kept \in Seq(Bytes) \cup {NoFile} :
              kept = IF Len(Content(found)) > Size[r] THEN NoFile ELSE found
        OBVIOUS
      <4>3. /\ part' = [part EXCEPT ![r] = kept]
            /\ hash' = Content(kept) /\ total' = Size[r] /\ attempt' = 0 /\ diskError' = FALSE
            /\ target' = target
        BY <1>2, <2>1, <3>2, <4>1, <4>2 DEF LoadPart
      <4> QED BY <4>2, <4>3
    <3> QED BY <3>1, <3>2
  <2>3. part'[r] = kept BY <2>2 DEF DeviceTypes
  <2>4. hash' = Content(part'[r]) /\ hash' \in Seq(Bytes) /\ Len(hash') \in Nat
    BY <2>2, <2>3, ContentIsBytes
  <2>5. Follows' BY <2>0, <2>1, <2>4 DEF Follows
  <2>6. Ready' /\ GoodBinary' BY <2>0 DEF Ready, GoodBinary
  <2>7. part' \in [Releases -> Seq(Bytes) \cup {NoFile}] BY <2>2 DEF DeviceTypes
  <2>8. target' \in [Targets -> Seq(Bytes) \cup {NoFile}] BY <2>1, <2>2 DEF DeviceTypes
  <2>9. total' \in Nat /\ attempt' \in 0 .. MaxAttempts - 1 BY <2>2
  <2>10. DeviceTypes' BY <2>0, <2>2, <2>4, <2>7, <2>8, <2>9 DEF DeviceTypes, Stages
  <2> QED BY <2>0, <2>5, <2>6, <2>10, Moves
<1>3. CASE Promote
  <2>0. /\ stage = "verify" /\ stage' = "install" /\ Say("running") /\ UNCHANGED ServerButReports
        /\ UNCHANGED <<up, job, current, backup, app, appUp, installed, budget>>
        /\ UNCHANGED <<hash, total, attempt, diskError>>
    BY <1>3 DEF Promote, Step, Program, DownloadUnchanged
  <2>1. PICK r \in Releases : r = Release /\ r = Release' /\ TargetOf(r) \in Targets
    BY <2>0, SameTask
  <2>2. /\ Len(part[r]) = Size[r] /\ hash = Whole(r)
        /\ target' = [target EXCEPT ![TargetOf(r)] = part[r]]
        /\ part' = [part EXCEPT ![r] = NoFile]
    BY <1>3, <2>1 DEF Promote, Verified
  <2>3. part[r] # NoFile /\ Content(part[r]) = part[r]
    BY <2>0, <2>1 DEF Follows, Content
  <2>4. Len(hash) = Len(Content(part[r])) BY <2>2, <2>3, WholeFile
  <2>5. part[r] = Whole(r) BY <2>0, <2>1, <2>2, <2>3, <2>4 DEF Follows
  <2>6. target'[TargetOf(r)] = Whole(r) BY <2>1, <2>2, <2>5 DEF DeviceTypes
  <2>7. Follows' BY <2>0 DEF Follows
  <2>8. Ready' BY <2>0, <2>1, <2>6 DEF Ready
  <2>9. /\ part' \in [Releases -> Seq(Bytes) \cup {NoFile}]
        /\ target' \in [Targets -> Seq(Bytes) \cup {NoFile}]
    BY <2>1, <2>2 DEF DeviceTypes
  <2>10. DeviceTypes' /\ GoodBinary' BY <2>0, <2>9 DEF DeviceTypes, GoodBinary, Stages
  <2> QED BY <2>0, <2>7, <2>8, <2>10, Moves
<1>4. CASE Reject
  <2>1. /\ stage # "idle" /\ stage' = "failing"
        /\ UNCHANGED <<ServerButReports, reports, up, job, target, current, backup, app,
                       appUp, installed, budget, hash, total, attempt, diskError>>
        /\ part' = part \/ part' = [part EXCEPT ![Release] = NoFile]
    BY <1>4 DEF Reject, Step, Program, DownloadUnchanged
  <2>2. part' \in [Releases -> Seq(Bytes) \cup {NoFile}] BY <2>1 DEF DeviceTypes
  <2>3. DeviceTypes' /\ GoodBinary' BY <2>1, <2>2 DEF DeviceTypes, GoodBinary, Stages
  <2> QED BY <2>1, <2>3, NothingHeld, Moves
<1>5. CASE Fail
  <2>1. /\ stage # "idle" /\ stage' = "ending" /\ Say("failed")
        /\ UNCHANGED <<ServerButReports, up, job, hash, total, attempt, diskError, disk,
                       installed, budget>>
    BY <1>5 DEF Fail, Step, DownloadUnchanged
  <2>2. DeviceTypes' /\ GoodBinary' BY <2>1 DEF DeviceTypes, GoodBinary, disk, Stages
  <2>3. "failed" \in {"running"} \cup Final BY DEF Final
  <2> QED BY <2>1, <2>2, <2>3, NothingHeld, Moves
<1>6. CASE End
  <2>1. /\ stage' = "idle" /\ job' = 0
        /\ UNCHANGED <<tasks, admin, served, poll, reports, up, hash, total, attempt,
                       diskError, disk, installed, budget>>
    BY <1>6 DEF End, Step, DownloadUnchanged, server
  <2>2. DeviceTypes' /\ GoodBinary' BY <2>1 DEF DeviceTypes, GoodBinary, disk, Stages
  <2>3. JobKnown' /\ Follows' /\ Ready'
    <3>1. Len(tasks) \in Nat BY LenProperties DEF ServerInv, TasksTyped
    <3> QED BY <2>1, <3>1 DEF JobKnown, Follows, Ready
  <2>4. \A q \in reports' : Sound(q)'
    <3>1. Len(tasks) \in Nat BY LenProperties DEF ServerInv, TasksTyped
    <3> QED BY <2>1, <3>1, SoundKept DEF ServerInv
  <2>5. ServerInv' BY <2>1, <2>4, ServerKept DEF ServerInv
  <2> QED BY <2>2, <2>3, <2>5
<1>7. CASE DownloadFails
  <2>0. /\ stage # "idle" /\ stage' = "failing"
        /\ UNCHANGED <<reports, hash, total, attempt, diskError, part>>
        /\ UNCHANGED <<ServerButReports, job, installed>>
        /\ UNCHANGED <<up, target, current, backup, app, appUp>>
    BY <1>7 DEF DownloadFails, Step, FetchUnchanged, Program
  <2>1. budget' \in BudgetRec BY <1>7, FaultCounted DEF DownloadFails, DeviceTypes
  <2>2. DeviceTypes' BY <2>0, <2>1 DEF DeviceTypes, Stages
  <2>3. GoodBinary' BY <2>0 DEF GoodBinary
  <2> QED BY <2>0, <2>2, <2>3, NothingHeld, Moves
<1> QED BY <1>1, <1>2, <1>3, <1>4, <1>5, <1>6, <1>7, FetchSteps DEF DownloadNext

\* The client replaces its own binary.
LEMMA ClientSteps ==
  ASSUME Inductive, BackUp \/ BackUpFails \/ Swap \/ SwapFails \/ ReportSwap
  PROVE  Inductive'
<1> USE DEF Inductive, DeviceInv
<1>0. stage \in {"install", "swap", "report"} /\ stage' # "idle"
  BY DEF BackUp, BackUpFails, Swap, SwapFails, ReportSwap, Step
<1>1. /\ UNCHANGED <<ServerButReports, job, up, part, hash, total, attempt, diskError>>
      /\ UNCHANGED <<app, appUp>>
  BY DEF BackUp, BackUpFails, Swap, SwapFails, ReportSwap, InstallUnchanged,
         DownloadUnchanged, Program
<1>2. PICK r \in Releases :
        /\ r = Release /\ r = Release'
        /\ (IsClient <=> r \in ClientReleases) /\ (IsClient' <=> r \in ClientReleases)
        /\ TargetOf(r) = (IF r \in ClientReleases THEN NewBinary ELSE r)
        /\ TargetOf(r) \in Targets
  BY <1>0, <1>1, SameTask
<1>3. r \in ClientReleases /\ NewBinary \in Targets
  BY <1>0, <1>2 DEF Ready, BackUp, BackUpFails, Swap, SwapFails, ReportSwap, Step
<1>f. Follows' BY <1>0 DEF Follows, BackUp, BackUpFails, Swap, SwapFails, ReportSwap, Step
<1>g. Good \subseteq Seq(Bytes) BY GoodFiles
<1>4. CASE BackUp
  <2>1. /\ stage = "install" /\ stage' = "swap" /\ Say("running")
        /\ current # NoFile /\ backup' = current /\ current' = NoFile
        /\ UNCHANGED <<target, installed, budget>>
    BY <1>4 DEF BackUp, Step
  <2>2. target[NewBinary] = Whole(r) BY <1>2, <1>3, <2>1 DEF Ready
  <2>3. Ready' BY <1>2, <1>3, <2>1, <2>2 DEF Ready, GoodBinary
  <2>4. DeviceTypes' BY <1>1, <2>1 DEF DeviceTypes, Stages
  <2>5. GoodBinary' BY <2>1 DEF GoodBinary
  <2> QED BY <1>0, <1>1, <1>f, <2>1, <2>3, <2>4, <2>5, Moves
<1>5. CASE BackUpFails
  <2>1. /\ stage' = "failing" /\ UNCHANGED <<reports, current, installed>>
        /\ budget' = budget \/ Fault("fault")
        /\ \/ UNCHANGED <<backup, target>>
           \/ backup' = NoFile /\ target' = [target EXCEPT ![NewBinary] = NoFile]
    BY <1>5 DEF BackUpFails, Step
  <2>2. budget' \in BudgetRec BY <2>1, FaultCounted DEF DeviceTypes
  <2>3. target' \in [Targets -> Seq(Bytes) \cup {NoFile}] BY <1>3, <2>1 DEF DeviceTypes
  <2>4. DeviceTypes' /\ GoodBinary'
    BY <1>1, <2>1, <2>2, <2>3 DEF DeviceTypes, GoodBinary, Stages
  <2> QED BY <1>0, <1>1, <2>1, <2>4, NothingHeld, Moves
<1>6. CASE Swap
  <2>1. /\ stage = "swap" /\ stage' = "report"
        /\ current' = target[NewBinary] /\ target' = [target EXCEPT ![NewBinary] = NoFile]
        /\ installed' = InstalledBy(job, target[NewBinary])
        /\ UNCHANGED <<reports, backup, budget>>
    BY <1>6 DEF Swap, Step
  <2>2. target[NewBinary] = Whole(r) BY <1>2, <2>1 DEF Ready
  <2>3. installed' = installed \cup {job} BY <1>2, <2>1, <2>2 DEF InstalledBy, Release
  <2>4. current' = Whole(r) /\ Whole(r) \in Good BY <1>3, <2>1, <2>2 DEF Good
  <2>5. Ready' BY <1>1, <1>2, <1>3, <2>1, <2>3, <2>4 DEF Ready
  <2>6. target' \in [Targets -> Seq(Bytes) \cup {NoFile}] BY <1>3, <2>1 DEF DeviceTypes
  <2>7. current' \in Seq(Bytes) BY <1>g, <2>4
  <2>8. DeviceTypes' BY <1>1, <2>1, <2>6, <2>7 DEF DeviceTypes, Stages
  <2>9. GoodBinary' BY <2>4 DEF GoodBinary
  <2> QED BY <1>0, <1>1, <1>f, <2>1, <2>3, <2>5, <2>8, <2>9, Moves
<1>7. CASE SwapFails
  <2>1. /\ stage = "swap" /\ stage' = "failing" /\ Fault("fault")
        /\ \/ current' = backup /\ backup' = NoFile
           \/ UNCHANGED <<current, backup>>
        /\ UNCHANGED <<reports, target, installed>>
    BY <1>7 DEF SwapFails, Step, RestoreBackup
  <2>2. budget' \in BudgetRec BY <2>1, FaultCounted DEF DeviceTypes
  <2>3. DeviceTypes' BY <1>1, <2>1, <2>2 DEF DeviceTypes, Stages
  <2>4. GoodBinary' BY <2>1 DEF GoodBinary, Ready
  <2> QED BY <1>0, <1>1, <2>1, <2>3, <2>4, NothingHeld, Moves
<1>8. CASE ReportSwap
  <2>1. /\ stage = "report" /\ stage' = "restart" /\ Say("success")
        /\ UNCHANGED <<target, current, backup, installed, budget>>
    BY <1>8 DEF ReportSwap, Step, Program
  <2>2. job \in installed /\ current = Whole(r) BY <1>2, <2>1 DEF Ready
  <2>3. Ready' BY <1>2, <1>3, <2>1, <2>2 DEF Ready
  <2>4. DeviceTypes' /\ GoodBinary' BY <1>1, <2>1 DEF DeviceTypes, GoodBinary, Stages
  <2>5. "success" \in {"running"} \cup Final BY DEF Final
  <2> QED BY <1>0, <1>1, <1>f, <2>1, <2>2, <2>3, <2>4, <2>5, Moves
<1> QED BY <1>4, <1>5, <1>6, <1>7, <1>8

\* The client replaces an application.
LEMMA ApplicationSteps ==
  ASSUME Inductive, Extract \/ StopService \/ Copy \/ StartService \/ Clean \/ InstallFails
  PROVE  Inductive'
<1> USE DEF Inductive, DeviceInv
<1>0. stage \in {"install", "stop", "copy", "start", "clean"} /\ stage' # "idle"
  BY DEF Extract, StopService, Copy, StartService, Clean, InstallFails, Step
<1>1. /\ UNCHANGED <<ServerButReports, job, up, part, hash, total, attempt, diskError>>
      /\ UNCHANGED <<current, backup>>
  BY DEF Extract, StopService, Copy, StartService, Clean, InstallFails, InstallUnchanged,
         DownloadUnchanged, Program
<1>2. PICK r \in Releases :
        /\ r = Release /\ r = Release'
        /\ (IsClient <=> r \in ClientReleases) /\ (IsClient' <=> r \in ClientReleases)
        /\ TargetOf(r) = (IF r \in ClientReleases THEN NewBinary ELSE r)
        /\ TargetOf(r) \in Targets
  BY <1>0, <1>1, SameTask
<1>f. Follows'
  BY <1>0 DEF Follows, Extract, StopService, Copy, StartService, Clean, InstallFails, Step
<1>g. GoodBinary' BY <1>1 DEF GoodBinary
<1>w. Whole(r) \in Seq(Bytes) BY WholeFile
<1>3. CASE Extract
  <2>1. /\ stage = "install" /\ stage' = "stop" /\ ~IsClient /\ Say("running")
        /\ UNCHANGED <<target, app, appUp, installed, budget>>
    BY <1>3 DEF Extract, Step, Program
  <2>2. Ready' BY <1>2, <2>1 DEF Ready
  <2>3. DeviceTypes' BY <1>1, <2>1 DEF DeviceTypes, Stages
  <2> QED BY <1>0, <1>1, <1>f, <1>g, <2>1, <2>2, <2>3, Moves
<1>4. CASE StopService
  <2>1. /\ stage = "stop" /\ stage' = "copy" /\ Say("running") /\ appUp' = FALSE
        /\ UNCHANGED <<target, app, installed, budget>>
    BY <1>4 DEF StopService, Step
  <2>2. Ready' BY <1>2, <2>1 DEF Ready
  <2>3. DeviceTypes' BY <1>1, <2>1 DEF DeviceTypes, Stages
  <2> QED BY <1>0, <1>1, <1>f, <1>g, <2>1, <2>2, <2>3, Moves
<1>5. CASE Copy
  <2>1. /\ stage = "copy" /\ stage' = "start" /\ Say("running") /\ app' = target[r]
        /\ UNCHANGED <<target, appUp, installed, budget>>
    BY <1>2, <1>5 DEF Copy, Step
  <2>2. app' = Whole(r) BY <1>2, <2>1 DEF Ready
  <2>3. Ready' BY <1>2, <2>1, <2>2 DEF Ready
  <2>4. DeviceTypes' BY <1>1, <1>w, <2>1, <2>2 DEF DeviceTypes, Stages
  <2> QED BY <1>0, <1>1, <1>f, <1>g, <2>1, <2>3, <2>4, Moves
<1>6. CASE StartService
  <2>1. /\ stage = "start" /\ stage' = "clean" /\ appUp' = TRUE
        /\ installed' = InstalledBy(job, app)
        /\ UNCHANGED <<reports, target, app, budget>>
    BY <1>6 DEF StartService, Step
  <2>2. app = Whole(r) BY <1>2, <2>1 DEF Ready
  <2>3. installed' = installed \cup {job} BY <1>2, <2>1, <2>2 DEF InstalledBy, Release
  <2>4. Ready' BY <1>1, <1>2, <2>1, <2>2, <2>3 DEF Ready
  <2>5. DeviceTypes' BY <1>1, <2>1 DEF DeviceTypes, Stages
  <2> QED BY <1>0, <1>1, <1>f, <1>g, <2>1, <2>3, <2>4, <2>5, Moves
<1>7. CASE Clean
  <2>1. /\ stage = "clean" /\ stage' = "ending" /\ Say("success")
        /\ target' = [target EXCEPT ![r] = NoFile]
        /\ UNCHANGED <<app, appUp, installed, budget>>
    BY <1>2, <1>7 DEF Clean, Step, Program
  <2>2. job \in installed BY <2>1 DEF Ready
  <2>3. r \in Targets BY <1>2, <2>1 DEF Ready
  <2>4. target' \in [Targets -> Seq(Bytes) \cup {NoFile}] BY <2>1, <2>3 DEF DeviceTypes
  <2>5. DeviceTypes' BY <1>1, <2>1, <2>4 DEF DeviceTypes, Stages
  <2>6. "success" \in {"running"} \cup Final BY DEF Final
  <2> QED BY <1>0, <1>1, <1>g, <2>1, <2>2, <2>5, <2>6, NothingHeld, Moves
<1>8. CASE InstallFails
  <2>1. /\ stage' = "failing" /\ Fault("fault") /\ app' \in {app, Torn}
        /\ UNCHANGED <<reports, target, appUp, installed>>
    BY <1>8 DEF InstallFails, Step
  <2>2. budget' \in BudgetRec BY <2>1, FaultCounted DEF DeviceTypes
  <2>3. app' \in Seq(Bytes) BY <2>1, EmptySeq DEF DeviceTypes, Torn
  <2>4. DeviceTypes' BY <1>1, <2>1, <2>2, <2>3 DEF DeviceTypes, Stages
  <2> QED BY <1>0, <1>1, <1>g, <2>1, <2>4, NothingHeld, Moves
<1> QED BY <1>3, <1>4, <1>5, <1>6, <1>7, <1>8

\* The process exits, is killed or crashes, or is started again.
LEMMA ProcessSteps ==
  ASSUME Inductive, Restart \/ Crash \/ Killed \/ Start
  PROVE  Inductive'
<1> USE DEF Inductive, DeviceInv
<1>0. Len(tasks) \in Nat BY LenProperties DEF ServerInv, TasksTyped
<1>e. <<>> \in Seq(Bytes) /\ 0 \in Nat /\ 0 \in 0 .. MaxAttempts - 1 BY EmptySeq
<1>s. (\A q \in reports : Sound(q)) /\ installed \subseteq 1 .. Len(tasks) BY DEF ServerInv
<1>1. CASE Restart
  <2>1. /\ stage' = "idle" /\ job' = 0 /\ up' \in {"up", "stopping", "down"}
        /\ hash' = <<>> /\ total' = 0 /\ attempt' = 0 /\ diskError' = FALSE
        /\ poll' = poll \/ poll' = [poll EXCEPT !.heard = FALSE]
        /\ UNCHANGED <<tasks, admin, served, reports, installed, budget>>
        /\ UNCHANGED <<part, target, current, backup, app, appUp>>
    BY <1>1 DEF Restart, Step, disk
  <2>2. DeviceTypes' BY <1>e, <2>1 DEF DeviceTypes, Stages
  <2>3. JobKnown' /\ Follows' /\ Ready' /\ GoodBinary'
    BY <1>0, <2>1 DEF JobKnown, Follows, Ready, GoodBinary
  <2>4. \A q \in reports' : Sound(q)' BY <1>0, <1>s, <2>1, SoundKept
  <2>5. ServerInv' BY <1>s, <2>1, <2>4, ServerKept
  <2> QED BY <2>2, <2>3, <2>5
<1>2. CASE Crash \/ Killed
  <2>1. /\ stage' = "idle" /\ job' = 0 /\ up' = "down"
        /\ hash' = <<>> /\ total' = 0 /\ attempt' = 0 /\ diskError' = FALSE
        /\ poll' = [poll EXCEPT !.heard = FALSE]
        /\ reports' = {[r EXCEPT !.awaited = FALSE] : r \in reports}
        /\ app' \in {app, Torn}
        /\ UNCHANGED <<tasks, admin, served, installed>>
        /\ UNCHANGED <<part, target, current, backup, appUp>>
    BY <1>2 DEF Crash, Killed, Die
  <2>2. budget' \in BudgetRec BY <1>2, FaultCounted DEF Crash, Killed, DeviceTypes
  <2>3. app' \in Seq(Bytes) BY <2>1, EmptySeq DEF DeviceTypes, Torn
  <2>4. DeviceTypes' BY <1>e, <2>1, <2>2, <2>3 DEF DeviceTypes, Stages
  <2>5. JobKnown' /\ Follows' /\ Ready' /\ GoodBinary'
    BY <1>0, <2>1 DEF JobKnown, Follows, Ready, GoodBinary
  <2>6. ASSUME NEW q \in reports' PROVE Sound(q)'
    <3>1. PICK r \in reports : q = [r EXCEPT !.awaited = FALSE] BY <2>1
    <3>2. Sound(q) BY <1>s, <3>1 DEF Sound, ReportRec
    <3> QED BY <1>0, <2>1, <3>2, SoundKept
  <2>7. ServerInv' BY <1>s, <2>1, <2>6, ServerKept
  <2> QED BY <2>4, <2>5, <2>7
<1>3. CASE Start
  <2>1. /\ up' = "up" /\ UNCHANGED <<tasks, admin, served, poll, reports>>
        /\ UNCHANGED <<job, stage, hash, total, attempt, diskError, installed, budget>>
        /\ UNCHANGED <<part, target, current, backup, app, appUp>>
    BY <1>3 DEF Start, server, disk
  <2>2. DeviceTypes' BY <2>1 DEF DeviceTypes
  <2>3. Release' = Release BY <2>1 DEF Release
  <2>4. JobKnown' /\ Follows' BY <2>1, <2>3 DEF JobKnown, Follows
  <2>5. Ready' /\ GoodBinary' BY <2>1, <2>3 DEF Ready, GoodBinary, IsClient
  <2>6. \A q \in reports' : Sound(q)' BY <1>0, <1>s, <2>1, SoundKept
  <2>7. ServerInv' BY <1>s, <2>1, <2>6, ServerKept
  <2> QED BY <2>2, <2>4, <2>5, <2>7
<1> QED BY <1>1, <1>2, <1>3

-----------------------------------------------------------------------------
(* The theorems.                                                           *)

LEMMA InductiveInit == Init => Inductive
<1> SUFFICES ASSUME Init PROVE Inductive
  OBVIOUS
<1> USE DEF Init
<1>e. <<>> \in Seq(Bytes) /\ Len(<<>>) = 0 /\ <<>> \in Seq(TaskRec) BY EmptySeq
<1>1. TasksTyped BY <1>e DEF TasksTyped
<1>2. admin \in [Admins -> Releases \cup {Nothing}] OBVIOUS
<1>3. served \in [Releases -> Seq(Bytes)] BY WholeFile
<1>4. PollSound BY <1>e DEF PollSound, PollRec, NoPoll
<1>5. DOMAIN tasks = {} BY <1>e, LenProperties
<1>6. SuccessMeansInstalled BY <1>5 DEF SuccessMeansInstalled
<1>7. ServerInv BY <1>1, <1>2, <1>3, <1>4, <1>6 DEF ServerInv
<1>8. budget \in BudgetRec BY DEF BudgetRec
<1>9. part \in [Releases -> Seq(Bytes) \cup {NoFile}]
      /\ target \in [Targets -> Seq(Bytes) \cup {NoFile}]
  OBVIOUS
<1>10. {current, backup} \subseteq Seq(Bytes) \cup {NoFile} /\ app \in Seq(Bytes)
  BY OrigFile
<1>11. up \in {"up", "stopping", "down"} /\ stage \in Stages BY DEF Stages
<1>12. total \in Nat /\ attempt \in 0 .. MaxAttempts - 1 /\ hash \in Seq(Bytes)
  BY <1>e
<1>13. DeviceTypes BY <1>8, <1>9, <1>10, <1>11, <1>12 DEF DeviceTypes
<1>14. JobKnown BY <1>e DEF JobKnown
<1>15. Follows /\ Ready BY DEF Follows, Ready
<1>16. GoodBinary BY DEF GoodBinary, Good
<1> QED BY <1>7, <1>13, <1>14, <1>15, <1>16 DEF Inductive, DeviceInv

LEMMA InductiveStep == Inductive /\ [Next]_vars => Inductive'
<1> SUFFICES ASSUME Inductive, [Next]_vars PROVE Inductive'
  OBVIOUS
<1>1. CASE InstallNext
  BY <1>1, ClientSteps, ApplicationSteps, ProcessSteps DEF InstallNext
<1>2. CASE UNCHANGED vars
  <2>1. UNCHANGED <<tasks, admin, served, poll, reports, process, disk, installed, budget>>
    BY <1>2 DEF vars, server
  <2>2. Len(tasks) \in Nat BY LenProperties DEF Inductive, ServerInv, TasksTyped
  <2>3. DeviceInv' BY <2>1, <2>2, DeviceKept DEF Inductive, DeviceInv, DeviceTypes
  <2>4. \A q \in reports' : Sound(q)'
    BY <2>1, <2>2, SoundKept DEF Inductive, ServerInv
  <2>5. ServerInv' BY <2>1, <2>4, ServerKept DEF Inductive, ServerInv
  <2> QED BY <2>3, <2>5 DEF Inductive
<1> QED BY <1>1, <1>2, ServerSteps, DownloadSteps, ProcessSteps DEF Next

\* Reports and the heartbeat are sound, the running hash follows the partial
\* file, and each stage of an installation finds the whole release where it
\* needs it: what the theorems below rest on.
THEOREM Invariance == Spec => []Inductive
<1>1. Init => Inductive BY InductiveInit
<1>2. Inductive /\ [Next]_vars => Inductive' BY InductiveStep
<1> QED BY <1>1, <1>2, PTL DEF Spec

\* The rows, the reports, the files and the counters stay within their types
\* and their bounds.
THEOREM WithinBounds == Spec => []TypeOK
<1>1. Inductive => TypeOK
  <2> SUFFICES ASSUME Inductive PROVE TypeOK
    OBVIOUS
  <2> USE DEF Inductive, ServerInv, DeviceInv
  <2>1. /\ tasks \in Seq([release : Releases, stale : BOOLEAN,
                         status : Final \cup {"pending", "running"}])
        /\ Len(tasks) <= MaxTasks
    BY DEF TasksTyped, TaskRec
  <2>2. poll \in [task : 0 .. Len(tasks), overtaken : BOOLEAN, heard : BOOLEAN]
    BY DEF PollSound, PollRec
  <2>3. reports \subseteq [task : 1 .. Len(tasks), status : Final \cup {"running"},
                           checked : BOOLEAN, overtaken : BOOLEAN, awaited : BOOLEAN]
    BY DEF Sound, ReportRec
  <2>4. job \in 0 .. Len(tasks) BY DEF JobKnown
  <2>5. budget \in [fault : 0 .. MaxFaults, crash : 0 .. MaxCrashes, swap : 0 .. MaxSwaps]
    BY DEF DeviceTypes, BudgetRec
  <2> QED BY <2>1, <2>2, <2>3, <2>4, <2>5 DEF TypeOK, DeviceTypes
<1> QED BY <1>1, Invariance, PTL

\* The running SHA-256 is that of the bytes in the partial file unless a write
\* failed half-way, however often the download was resumed, restarted or
\* refused (main.go 1547-1717).
THEOREM HashIsTheFiles == Spec => []HashFollowsFile
<1>1. Inductive => HashFollowsFile
  BY DEF Inductive, DeviceInv, Follows, HashFollowsFile
<1> QED BY <1>1, Invariance, PTL

\* A device never starts a piece of a binary or a mixture of two, and what it
\* reports as installed is the whole release of its task, for any packages,
\* faults and crashes (main.go 1399-1534).
THEOREM OnlyWholeFilesRun == Spec => []InstalledIsWhole
<1>1. Inductive => InstalledIsWhole
  BY DEF Inductive, DeviceInv, Ready, GoodBinary, Good, InstalledIsWhole
<1> QED BY <1>1, Invariance, PTL

\* No loss, repetition or delay of reports makes a task successful whose
\* release was not installed (device_upgrade_service.go 454-513).
THEOREM NoFalseSuccess == Spec => []SuccessMeansInstalled
<1>1. Inductive => SuccessMeansInstalled BY DEF Inductive, ServerInv
<1> QED BY <1>1, Invariance, PTL

\* What a finished task's row can still be changed by: writers that had read
\* it before it was finished.
LEMMA StepOvertaken ==
  ASSUME Inductive, Next, NEW t \in DOMAIN tasks, tasks[t].status \in Final,
         tasks'[t].status # tasks[t].status
  PROVE  Overtaken(t)
<1> USE DEF Inductive
<1>0. DOMAIN tasks = 1 .. Len(tasks) /\ t \in 1 .. Len(tasks)
  BY LenProperties DEF ServerInv, TasksTyped
<1>t. tasks \in [1 .. Len(tasks) -> TaskRec] BY LenProperties DEF ServerInv, TasksTyped
<1>1. ASSUME NEW x \in TaskRec, tasks' = Append(tasks, x), Len(tasks) < MaxTasks PROVE FALSE
  BY <1>0, <1>1, TaskAppended DEF ServerInv
<1>2. ASSUME NEW r \in Releases, CreateBatch(r) PROVE FALSE
  <2>1. Task(r) \in TaskRec BY DEF Task, TaskRec
  <2> QED BY <1>1, <1>2, <2>1 DEF CreateBatch
<1>3. ASSUME NEW a \in Admins, InsertTask(a) PROVE FALSE
  <2>1. Task(admin[a]) \in TaskRec BY <1>3 DEF InsertTask, ServerInv, Task, TaskRec
  <2> QED BY <1>1, <1>3, <2>1 DEF InsertTask
<1>4. ASSUME NEW u \in DOMAIN tasks, LeaseExpires(u) PROVE FALSE
  <2>1. tasks[u] \in TaskRec BY <1>0, <1>t
  <2>2. tasks' = [tasks EXCEPT ![u] = [tasks[u] EXCEPT !.stale = TRUE]]
    BY <1>4 DEF LeaseExpires
  <2>3. [tasks[u] EXCEPT !.stale = TRUE].status = tasks[u].status BY <2>1 DEF TaskRec
  <2> QED BY <1>0, <1>t, <2>2, <2>3
<1>5. ASSUME NEW u \in 1 .. Len(tasks), NEW s \in {"running"} \cup Final,
             tasks' = [tasks EXCEPT ![u].status = s, ![u].stale = FALSE]
      PROVE  u = t
  BY <1>0, <1>5, TwoColumns, TaskSet DEF ServerInv
<1>6. CASE PollUnsupported
  <2>1. poll # NoPoll /\ poll.task \in 1 .. Len(tasks)
    <3>1. Len(tasks) \in Nat BY LenProperties DEF ServerInv, TasksTyped
    <3> QED BY <1>6, <3>1 DEF PollUnsupported, ServerInv, PollSound, PollRec
  <2>2. "failed" \in {"running"} \cup Final BY DEF Final
  <2>3. tasks' = [tasks EXCEPT ![poll.task].status = "failed", ![poll.task].stale = FALSE]
    BY <1>6 DEF PollUnsupported
  <2>4. poll.task = t BY <1>5, <2>1, <2>2, <2>3
  <2> QED BY <2>1, <2>4 DEF ServerInv, PollSound, Overtaken
<1>7. ASSUME NEW r \in reports, ReportWrite(r) PROVE Overtaken(t)
  <2>1. Sound(r) /\ r \in ReportRec BY DEF ServerInv, Sound
  <2>2. r.task \in 1 .. Len(tasks) /\ r.status \in {"running"} \cup Final
    BY <2>1 DEF ReportRec
  <2>3. r.checked
        /\ tasks' = [tasks EXCEPT ![r.task].status = r.status, ![r.task].stale = FALSE]
    BY <1>7 DEF ReportWrite
  <2>4. r.task = t BY <1>5, <2>2, <2>3
  <2>5. r.overtaken BY <2>1, <2>3, <2>4 DEF Sound
  <2>6. Overtake(t, reports \ {r}) \subseteq reports \ {r}
    <3> SUFFICES ASSUME NEW q \in reports \ {r}, q.task = t, q.checked
                 PROVE  [q EXCEPT !.overtaken = TRUE] = q
      BY DEF Overtake
    <3>1. q \in ReportRec /\ q.overtaken BY DEF ServerInv, Sound
    <3> QED BY <3>1 DEF ReportRec
  <2>7. reports' = Overtake(t, reports \ {r}) \/ reports' = reports \ {r}
    BY <1>7, <2>4 DEF ReportWrite
  <2> QED BY <2>4, <2>5, <2>6, <2>7 DEF Overtaken
<1>8. CASE UNCHANGED tasks BY <1>8
<1>9. ServerNext => \/ UNCHANGED tasks \/ PollUnsupported
                    \/ \E r \in Releases : CreateBatch(r)
                    \/ \E a \in Admins : InsertTask(a)
                    \/ \E u \in DOMAIN tasks : LeaseExpires(u)
                    \/ \E r \in reports : ReportWrite(r)
  BY DEF ServerNext, SwapPackage, CheckActive, PollTask, PollAnswer, PollLost,
         ReportTimeout, ReportLost, ReportRead
<1>10. DownloadNext => UNCHANGED tasks
  BY DEF DownloadNext, Begin, LoadPart, Promote, Reject, Fail, End, FetchFails, DownloadFails,
         FetchRest, FetchAll, FetchUnsatisfiable, FetchUnchanged, ServerButReports, server
<1>11. InstallNext => UNCHANGED tasks
  BY DEF InstallNext, BackUp, BackUpFails, Swap, SwapFails, ReportSwap, Restart, Extract,
         StopService, Copy, StartService, Clean, InstallFails, InstallUnchanged,
         ServerButReports
<1>12. Crash \/ Killed \/ Start => UNCHANGED tasks
  BY DEF Crash, Killed, Die, Start, server
<1> QED BY <1>2, <1>3, <1>4, <1>6, <1>7, <1>8, <1>9, <1>10, <1>11, <1>12 DEF Next

\* A finished task changes its status only by a report or a heartbeat that had
\* read its row before it was finished: the window between the check of
\* isUpgradeTerminal and the update (device_upgrade_service.go 474-497).
THEOREM FinishedTasksStick == Spec => FinalSticks
<1>1. ASSUME Inductive, [Next]_vars
      PROVE  [\A t \in DOMAIN tasks :
                tasks[t].status \in Final /\ tasks'[t].status # tasks[t].status
                  => Overtaken(t)]_vars
  BY <1>1, StepOvertaken
<1> QED BY <1>1, Invariance, PTL DEF Spec, FinalSticks
=============================================================================
