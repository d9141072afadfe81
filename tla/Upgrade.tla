------------------------------ MODULE Upgrade ------------------------------
(***************************************************************************)
(* Online upgrades of one device: the tasks an administrator creates       *)
(* (device_upgrade_service.go), the heartbeat that hands one out, and the  *)
(* client that downloads the package piece by piece, verifies it, installs *)
(* it and reports (cmd/navmesh-client/main.go 1302-2004).                  *)
(*                                                                         *)
(* Concurrency and failure: two administrators; the handlers of a report   *)
(* and of a heartbeat, which read a task and write it in separate          *)
(* statements; requests that are lost or answered too late; downloads that *)
(* break; files that cannot be written; a client that crashes between any  *)
(* two steps and is started again by its supervisor, if its binary is      *)
(* still there; a package replaced on the server under a running task.     *)
(*                                                                         *)
(* A file is a sequence of bytes, and a byte is the release it comes from. *)
(* Left out: the wording and the percentages of the reports, authorisation *)
(* and platform checks, and the batches' summaries.                        *)
(***************************************************************************)
EXTENDS Integers, Sequences, FiniteSets

CONSTANTS
  Admins,          \* administrators' requests that may create tasks at once
  Releases,        \* the releases that match the device
  ClientReleases,  \* those that replace the client itself; the others replace
                   \* an application (rain, hipnames)
  Size,            \* release -> its length in bytes
  Orig,            \* a byte of what is installed at the start
  Swapped,         \* a byte of a package uploaded over a release
  NoFile,          \* no such file
  Nothing,         \* no release, no task
  NewBinary,       \* the path of the client's binary with .new appended
  MaxTasks,        \* bound: tasks created
  MaxAttempts,     \* upgradeDownloadMaxAttempts
  MaxFaults,       \* bound: lost or late requests, broken downloads, disk errors
  MaxCrashes,      \* bound: crashes of the client
  MaxSwaps,        \* bound: packages replaced on the server
  MaxTroubles      \* bound: faults, crashes and swaps together

ASSUME ReleaseAssumption ==
  /\ ClientReleases \subseteq Releases
  /\ Size \in [Releases -> Nat \ {0}]
  /\ {Orig, Swapped, NoFile, Nothing, NewBinary} \cap Releases = {}
  /\ Orig # Swapped
ASSUME BoundAssumption ==
  /\ MaxTasks \in Nat /\ MaxAttempts \in Nat \ {0}
  /\ MaxFaults \in Nat /\ MaxCrashes \in Nat /\ MaxSwaps \in Nat /\ MaxTroubles \in Nat

VARIABLES
  \* the server
  tasks,     \* navmesh_device_upgrade_tasks, in the order of creation
  admin,     \* the release of a task an administrator is about to insert
  served,    \* what the download URL of a release answers
  poll,      \* the heartbeat being handled: the task it has read
  reports,   \* reports on their way or being handled
  \* the client's process
  up,        \* "up", "stopping" (systemd was asked to restart it) or "down"
  job,       \* upgradeState.taskGuid, an index of tasks; 0: none
  stage,     \* where the upgrade's goroutine is
  hash,      \* what the running SHA-256 has been fed
  total,     \* totalSize of the download
  attempt,   \* attempt of the download
  \* the device's disk
  part,      \* release -> its partial download
  target,    \* path -> the completed download
  current,   \* the client's binary
  backup,    \* the client's binary with .bak appended
  app,       \* the application
  appUp,     \* the application's service runs
  \* for the properties and the bounds
  installed, \* tasks whose release was completely installed
  diskError, \* a write to the partial file has failed in this process
  budget     \* faults, crashes and swaps so far

server  == <<tasks, admin, served, poll, reports>>
process == <<up, job, stage, hash, total, attempt, diskError>>
disk    == <<part, target, current, backup, app, appUp>>
vars == <<server, process, disk, installed, budget>>

-----------------------------------------------------------------------------
(* Files *)

Bytes == Releases \cup {Orig, Swapped}
ASSUME NoFileAssumption == NoFile \notin Seq(Bytes)
Whole(r) == [i \in 1 .. Size[r] |-> r]
Content(file) == IF file = NoFile THEN <<>> ELSE file

\* The path a download is promoted to.  The client's own binary always goes to
\* the same path; an application's package is named after its release.
TargetOf(r) == IF r \in ClientReleases THEN NewBinary ELSE r
Targets == {TargetOf(r) : r \in Releases}

Final == {"success", "failed"}
Stages == {"idle", "begin", "load", "fetch", "verify", "install", "swap",
           "report", "restart", "stop", "copy", "start", "clean", "failing", "ending"}

Release == tasks[job].release
Fault(kind) == /\ budget[kind] < [fault |-> MaxFaults, crash |-> MaxCrashes,
                                  swap |-> MaxSwaps][kind]
               /\ budget.fault + budget.crash + budget.swap < MaxTroubles
               /\ budget' = [budget EXCEPT ![kind] = @ + 1]

TypeOK ==
  /\ tasks \in Seq([release : Releases, stale : BOOLEAN,
                    status : Final \cup {"pending", "running"}])
  /\ Len(tasks) <= MaxTasks
  /\ admin \in [Admins -> Releases \cup {Nothing}]
  /\ served \in [Releases -> Seq(Bytes)]
  /\ poll \in [task : 0 .. Len(tasks), overtaken : BOOLEAN, heard : BOOLEAN]
  /\ reports \subseteq [task : 1 .. Len(tasks), status : Final \cup {"running"},
                        checked : BOOLEAN, overtaken : BOOLEAN, awaited : BOOLEAN]
  /\ up \in {"up", "stopping", "down"}
  /\ job \in 0 .. Len(tasks) /\ stage \in Stages
  /\ hash \in Seq(Bytes) /\ total \in Nat /\ attempt \in 0 .. MaxAttempts - 1
  /\ part \in [Releases -> Seq(Bytes) \cup {NoFile}]
  /\ target \in [Targets -> Seq(Bytes) \cup {NoFile}]
  /\ {current, backup} \subseteq Seq(Bytes) \cup {NoFile}
  /\ app \in Seq(Bytes) /\ appUp \in BOOLEAN
  /\ installed \subseteq 1 .. Len(tasks) /\ diskError \in BOOLEAN
  /\ budget \in [fault : 0 .. MaxFaults, crash : 0 .. MaxCrashes, swap : 0 .. MaxSwaps]

NoPoll == [task |-> 0, overtaken |-> FALSE, heard |-> FALSE]

Init ==
  /\ tasks = <<>> /\ admin = [a \in Admins |-> Nothing]
  /\ served = [r \in Releases |-> Whole(r)]
  /\ poll = NoPoll /\ reports = {}
  /\ up = "up" /\ job = 0 /\ stage = "idle"
  /\ hash = <<>> /\ total = 0 /\ attempt = 0 /\ diskError = FALSE
  /\ part = [r \in Releases |-> NoFile] /\ target = [p \in Targets |-> NoFile]
  /\ current = <<Orig>> /\ backup = NoFile
  /\ app = <<Orig>> /\ appUp = TRUE
  /\ installed = {}
  /\ budget = [fault |-> 0, crash |-> 0, swap |-> 0]

-----------------------------------------------------------------------------
(* Creating tasks *)

Active == {t \in DOMAIN tasks : tasks[t].status \notin Final}
Task(r) == [release |-> r, status |-> "pending", stale |-> FALSE]

\* CreateTask: the release is still enabled, and no task is active.
CheckActive(a, r) ==
  /\ admin[a] = Nothing /\ Active = {}
  /\ served[r] = Whole(r)
  /\ admin' = [admin EXCEPT ![a] = r]
  /\ UNCHANGED <<tasks, served, poll, reports, process, disk, installed, budget>>

\* CreateTask: the row is inserted, whatever was inserted since.
InsertTask(a) ==
  /\ admin[a] # Nothing /\ Len(tasks) < MaxTasks
  /\ tasks' = Append(tasks, Task(admin[a]))
  /\ admin' = [admin EXCEPT ![a] = Nothing]
  /\ UNCHANGED <<served, poll, reports, process, disk, installed, budget>>

\* CreateBatch for this device: check and insertion in one transaction.
CreateBatch(r) ==
  /\ Active = {} /\ Len(tasks) < MaxTasks
  /\ served[r] = Whole(r)
  /\ tasks' = Append(tasks, Task(r))
  /\ UNCHANGED <<admin, served, poll, reports, process, disk, installed, budget>>

\* An administrator uploads another package, as long as the old one or longer,
\* over the release of some task: the tasks created before keep the old checksum
\* and the same download URL.
SwapPackage(r) ==
  /\ \E t \in DOMAIN tasks : tasks[t].release = r
  /\ served[r] = Whole(r) /\ Fault("swap")
  /\ \E n \in {Size[r], Size[r] + 1} : served' = [served EXCEPT ![r] = [i \in 1 .. n |-> Swapped]]
  /\ UNCHANGED <<tasks, admin, poll, reports, process, disk, installed>>

\* A running task has not been written for deviceUpgradeRunningLease.
LeaseExpires(t) ==
  /\ tasks[t].status = "running" /\ ~tasks[t].stale
  /\ tasks' = [tasks EXCEPT ![t].stale = TRUE]
  /\ UNCHANGED <<admin, served, poll, reports, process, disk, installed, budget>>

-----------------------------------------------------------------------------
(* The heartbeat hands out a task *)

\* Seeded fault: running tasks are never handed out again.
HandedOutOnce(t) == tasks[t].status = "pending"

HandedOut(t) ==
  \/ tasks[t].status = "pending"
  \/ tasks[t].status = "running" /\ tasks[t].stale

\* PendingCommand: the oldest task that is pending or whose lease expired.
PollTask ==
  /\ up # "down" /\ poll = NoPoll
  /\ \E t \in DOMAIN tasks :
       /\ HandedOut(t) /\ \A u \in 1 .. t - 1 : ~HandedOut(u)
       /\ poll' = [task |-> t, overtaken |-> FALSE, heard |-> TRUE]
  /\ UNCHANGED <<tasks, admin, served, reports, process, disk, installed, budget>>

\* A final write of task t overtakes the reports that have read the row before.
Overtake(t, reps) ==
  {IF r.task = t /\ r.checked THEN [r EXCEPT !.overtaken = TRUE] ELSE r : r \in reps}

\* PendingCommand: the client is too old for the release, the task fails.
PollUnsupported ==
  /\ poll # NoPoll /\ tasks[poll.task].release \notin ClientReleases
  /\ tasks' = [tasks EXCEPT ![poll.task].status = "failed", ![poll.task].stale = FALSE]
  /\ reports' = Overtake(poll.task, reports)
  /\ poll' = NoPoll
  /\ UNCHANGED <<admin, served, process, disk, installed, budget>>

\* startClientUpgrade: nothing to do while another upgrade runs.
PollAnswer ==
  /\ poll # NoPoll
  /\ poll' = NoPoll
  /\ IF poll.heard /\ job = 0
     THEN job' = poll.task /\ stage' = "begin"
     ELSE UNCHANGED <<job, stage>>
  /\ UNCHANGED <<tasks, admin, served, reports, up, hash, total, attempt, diskError,
                 disk, installed, budget>>

PollLost ==
  /\ poll # NoPoll /\ poll.heard /\ Fault("fault")
  /\ poll' = [poll EXCEPT !.heard = FALSE]
  /\ UNCHANGED <<tasks, admin, served, reports, process, disk, installed>>

-----------------------------------------------------------------------------
(* Reports *)

Awaiting == \E r \in reports : r.awaited

\* reportClientUpgrade: the client waits for the answer.
Say(status) ==
  reports' = reports \cup {[task |-> job, status |-> status, checked |-> FALSE,
                            overtaken |-> FALSE, awaited |-> TRUE]}

\* The client no longer waits: RequestTimeout, or the connection broke.
ReportTimeout(r) ==
  /\ r.awaited /\ Fault("fault")
  /\ reports' = (reports \ {r}) \cup {[r EXCEPT !.awaited = FALSE]}
  /\ UNCHANGED <<tasks, admin, served, poll, process, disk, installed>>

\* The request never reaches the server.
ReportLost(r) ==
  /\ ~r.checked /\ Fault("fault")
  /\ reports' = reports \ {r}
  /\ UNCHANGED <<tasks, admin, served, poll, process, disk, installed>>

\* Seeded fault: a report about a finished task is accepted.
ReportReadAny(r) ==
  /\ ~r.checked
  /\ reports' = (reports \ {r}) \cup {[r EXCEPT !.checked = TRUE]}
  /\ UNCHANGED <<tasks, admin, served, poll, process, disk, installed, budget>>

\* Report: a finished task is left alone.
ReportRead(r) ==
  /\ ~r.checked
  /\ reports' = (reports \ {r}) \cup
                (IF tasks[r.task].status \in Final THEN {} ELSE {[r EXCEPT !.checked = TRUE]})
  /\ UNCHANGED <<tasks, admin, served, poll, process, disk, installed, budget>>

\* Report: status, progress and update_time are written.
ReportWrite(r) ==
  /\ r.checked
  /\ tasks' = [tasks EXCEPT ![r.task].status = r.status, ![r.task].stale = FALSE]
  /\ LET rest == reports \ {r} IN
     IF r.status \in Final
     THEN /\ reports' = Overtake(r.task, rest)
          /\ poll' = [poll EXCEPT !.overtaken = @ \/ poll.task = r.task]
     ELSE reports' = rest /\ UNCHANGED poll
  /\ UNCHANGED <<admin, served, process, disk, installed, budget>>

-----------------------------------------------------------------------------
(* The client: the goroutine of an upgrade *)

\* The goroutine is at stage s, has the answer to its last report or has given
\* up waiting for it, and goes on to stage t.
Step(s, t) == up # "down" /\ stage = s /\ ~Awaiting /\ stage' = t

ServerButReports == <<tasks, admin, served, poll>>
Download == <<hash, total, attempt, diskError>>
Program == <<current, backup, app, appUp>>

\* performClientUpgrade
Begin ==
  /\ Step("begin", "load") /\ Say("running")
  /\ UNCHANGED <<ServerButReports, up, job, Download, disk, installed, budget>>

\* downloadUpgradeBinary up to its loop: a completed download that was not
\* installed becomes the partial one again; what is there is hashed, unless it
\* is longer than the release.
LoadPart ==
  LET r == Release
      moved == part[r] = NoFile /\ target[TargetOf(r)] # NoFile
      found == IF moved THEN target[TargetOf(r)] ELSE part[r]
      kept  == IF Len(Content(found)) > Size[r] THEN NoFile ELSE found
  IN
  /\ Step("load", "fetch") /\ Say("running")
  /\ target' = IF moved THEN [target EXCEPT ![TargetOf(r)] = NoFile] ELSE target
  /\ part' = [part EXCEPT ![r] = kept]
  /\ hash' = Content(kept) /\ total' = Size[r] /\ attempt' = 0 /\ diskError' = FALSE
  /\ UNCHANGED <<ServerButReports, up, job, Program, installed, budget>>

\* Another attempt, or, after the last one, another upgrade from the start.
Again ==
  IF attempt < MaxAttempts - 1
  THEN attempt' = attempt + 1 /\ stage' = "fetch" /\ UNCHANGED reports
  ELSE attempt' = 0 /\ stage' = "begin" /\ Say("running")

Fetching == up # "down" /\ stage = "fetch" /\ ~Awaiting
FetchUnchanged == UNCHANGED <<ServerButReports, up, job, target, Program, installed>>

\* The request fails, or is answered with a status worth another attempt.
FetchFails ==
  /\ Fetching /\ Fault("fault") /\ Again
  /\ UNCHANGED <<hash, total, diskError, part>> /\ FetchUnchanged

\* Any other status, or a file that cannot be read, opened or renamed.
DownloadFails ==
  /\ \E s \in {"load", "fetch", "verify"} : Step(s, "failing")
  /\ Fault("fault")
  /\ UNCHANGED <<reports, hash, total, attempt, diskError, part>> /\ FetchUnchanged

\* How much of a body arrives.  The idle watch has no deadline for the whole:
\* it cancels the request after any byte that is not followed in time.
Received(body) == 0 .. Len(body)

\* The body arrives and is added to the file and to the hash, which were made
\* to hold base and fed.  It may break off, and the file may have received a
\* byte that the failing write did not report, so that the hash lacks it.
\* The server or a proxy may have ignored the range.
Arrive(base, fed, body, ignored) ==
  \E n \in Received(body), lost \in {0, 1} :
    /\ lost = 0 \/ (0 < n /\ n < Len(body))
    /\ part' = [part EXCEPT ![Release] = base \o SubSeq(body, 1, n)]
    /\ hash' = fed \o SubSeq(body, 1, n - lost)
    /\ diskError' = (diskError \/ lost = 1)
    /\ IF n = Len(body) /\ Len(base) + n = total'
       THEN stage' = "verify" /\ UNCHANGED <<attempt, reports>>
       ELSE Again
    /\ IF ignored \/ n < Len(body) THEN Fault("fault") ELSE UNCHANGED budget

\* 206: the rest of the package, whose length is read from Content-Range.
FetchRest ==
  LET have == Content(part[Release])
      all  == served[Release]
  IN
  /\ Fetching /\ 0 < Len(have) /\ Len(have) < Len(all)
  /\ total' = Len(all)
  /\ Arrive(have, hash, SubSeq(all, Len(have) + 1, Len(all)), FALSE)
  /\ FetchUnchanged

\* 200: the whole package.  Seeded fault: the hash goes on when the range was
\* ignored.
FetchAllHashKept ==
  /\ Fetching /\ UNCHANGED total
  /\ Arrive(<<>>, hash, served[Release], Content(part[Release]) # <<>>)
  /\ FetchUnchanged

FetchAll ==
  LET ignored == Content(part[Release]) # <<>> IN
  /\ Fetching /\ UNCHANGED total
  /\ Arrive(<<>>, IF ignored THEN <<>> ELSE hash, served[Release], ignored)
  /\ FetchUnchanged

\* 416: nothing left to fetch, or a partial file the server does not accept.
FetchUnsatisfiable ==
  LET have == Content(part[Release]) IN
  /\ Fetching /\ 0 < Len(have) /\ Len(have) >= Len(served[Release])
  /\ total' = Len(served[Release])
  /\ IF Len(have) = total'
     THEN stage' = "verify" /\ UNCHANGED <<reports, attempt, part, hash>>
     ELSE Again /\ part' = [part EXCEPT ![Release] = NoFile] /\ hash' = <<>>
  /\ UNCHANGED <<diskError, budget>> /\ FetchUnchanged

DownloadUnchanged == UNCHANGED <<hash, total, attempt, diskError>>

\* Seeded fault: the size alone is verified.
VerifiedBySize(r) == Len(part[r]) = Size[r]

\* The file is as long as the release and the running hash is the release's.
Verified(r) == Len(part[r]) = Size[r] /\ hash = Whole(r)

\* The end of downloadUpgradeBinary: the file is promoted to its target.
Promote ==
  /\ Step("verify", "install") /\ Verified(Release) /\ Say("running")
  /\ target' = [target EXCEPT ![TargetOf(Release)] = part[Release]]
  /\ part' = [part EXCEPT ![Release] = NoFile]
  /\ DownloadUnchanged
  /\ UNCHANGED <<ServerButReports, up, job, Program, installed, budget>>

\* A wrong checksum removes the file, a wrong size does not.
Reject ==
  /\ Step("verify", "failing") /\ ~Verified(Release)
  /\ part' = IF Len(part[Release]) = Size[Release]
             THEN [part EXCEPT ![Release] = NoFile] ELSE part
  /\ DownloadUnchanged
  /\ UNCHANGED <<ServerButReports, reports, up, job, target, Program, installed, budget>>

\* startClientUpgrade: the failure is reported.
Fail ==
  /\ Step("failing", "ending") /\ Say("failed")
  /\ DownloadUnchanged
  /\ UNCHANGED <<ServerButReports, up, job, disk, installed, budget>>

\* startClientUpgrade: the goroutine ends.
End ==
  /\ Step("ending", "idle") /\ job' = 0
  /\ DownloadUnchanged
  /\ UNCHANGED <<server, up, disk, installed, budget>>

InstallUnchanged ==
  /\ DownloadUnchanged /\ UNCHANGED <<ServerButReports, up, part>>

InstalledBy(t, file) == IF file = Whole(tasks[t].release) THEN installed \cup {t} ELSE installed

-----------------------------------------------------------------------------
(* performNavmeshClientUpgrade: the client replaces its own binary *)

IsClient == Release \in ClientReleases

\* The old backup is removed and the running binary becomes the backup.
BackUp ==
  /\ Step("install", "swap") /\ IsClient /\ Say("running")
  /\ current # NoFile /\ backup' = current /\ current' = NoFile
  /\ UNCHANGED <<job, target, app, appUp, installed, budget>> /\ InstallUnchanged

\* The mode cannot be set, or the binary cannot be renamed or is not there.
BackUpFails ==
  /\ Step("install", "failing") /\ IsClient
  /\ \/ UNCHANGED <<backup, target>> /\ Fault("fault")
     \/ /\ backup' = NoFile /\ target' = [target EXCEPT ![NewBinary] = NoFile]
        /\ IF current = NoFile THEN UNCHANGED budget ELSE Fault("fault")
  /\ UNCHANGED <<reports, job, current, app, appUp, installed>> /\ InstallUnchanged

\* The download becomes the binary.
Swap ==
  /\ Step("swap", "report")
  /\ current' = target[NewBinary] /\ target' = [target EXCEPT ![NewBinary] = NoFile]
  /\ installed' = InstalledBy(job, target[NewBinary])
  /\ UNCHANGED <<reports, job, backup, app, appUp, budget>> /\ InstallUnchanged

\* The backup is renamed back; an error of that is ignored.
RestoreBackup ==
  \/ current' = backup /\ backup' = NoFile
  \/ UNCHANGED <<current, backup>>

SwapFails ==
  /\ Step("swap", "failing") /\ Fault("fault") /\ RestoreBackup
  /\ UNCHANGED <<reports, job, target, app, appUp, installed>> /\ InstallUnchanged

ReportSwap ==
  /\ Step("report", "restart") /\ Say("success")
  /\ UNCHANGED <<job, target, Program, installed, budget>> /\ InstallUnchanged

\* restartClientService: the process exits, or systemd is asked to restart it
\* and the process goes on until it is killed.
Restart ==
  /\ Step("restart", "idle") /\ job' = 0
  /\ up' \in {"down", "stopping"}
  /\ hash' = <<>> /\ total' = 0 /\ attempt' = 0 /\ diskError' = FALSE
  /\ IF up' = "down" THEN poll' = [poll EXCEPT !.heard = FALSE] ELSE UNCHANGED poll
  /\ UNCHANGED <<tasks, admin, served, reports, disk, installed, budget>>

-----------------------------------------------------------------------------
(* performRainUpgrade, performHipnamesUpgrade: an application is replaced *)

\* The package is unpacked elsewhere.
Extract ==
  /\ Step("install", "stop") /\ ~IsClient /\ Say("running")
  /\ UNCHANGED <<job, target, Program, installed, budget>> /\ InstallUnchanged

StopService ==
  /\ Step("stop", "copy") /\ Say("running") /\ appUp' = FALSE
  /\ UNCHANGED <<job, target, current, backup, app, installed, budget>> /\ InstallUnchanged

\* The files are copied over the installed ones.
Copy ==
  /\ Step("copy", "start") /\ Say("running")
  /\ app' = target[Release]
  /\ UNCHANGED <<job, target, current, backup, appUp, installed, budget>> /\ InstallUnchanged

\* Some of the files: neither the old nor the new application.
Torn == <<>>

\* An unpacking, a copy or a restart of the service fails.
InstallFails ==
  /\ \/ Step("install", "failing") /\ ~IsClient /\ UNCHANGED app
     \/ Step("copy", "failing") /\ app' \in {app, Torn}
     \/ Step("start", "failing") /\ UNCHANGED app
  /\ Fault("fault")
  /\ UNCHANGED <<reports, job, target, current, backup, appUp, installed>>
  /\ InstallUnchanged

StartService ==
  /\ Step("start", "clean") /\ appUp' = TRUE
  /\ installed' = InstalledBy(job, app)
  /\ UNCHANGED <<reports, job, target, current, backup, app, budget>> /\ InstallUnchanged

\* The package is removed and the success is reported.
Clean ==
  /\ Step("clean", "ending") /\ Say("success")
  /\ target' = [target EXCEPT ![Release] = NoFile]
  /\ UNCHANGED <<job, Program, installed, budget>> /\ InstallUnchanged

-----------------------------------------------------------------------------
(* Crashes and restarts of the client's process *)

Die ==
  /\ up' = "down" /\ job' = 0 /\ stage' = "idle"
  /\ hash' = <<>> /\ total' = 0 /\ attempt' = 0 /\ diskError' = FALSE
  /\ poll' = [poll EXCEPT !.heard = FALSE]
  /\ reports' = {[r EXCEPT !.awaited = FALSE] : r \in reports}
  /\ app' \in IF stage = "copy" /\ ~Awaiting THEN {app, Torn} ELSE {app}
  /\ UNCHANGED <<tasks, admin, served, part, target, current, backup, appUp, installed>>

Crash == up # "down" /\ Fault("crash") /\ Die
Killed == up = "stopping" /\ UNCHANGED budget /\ Die

\* The supervisor starts the client, if there is something to start.
Start ==
  /\ up = "down" /\ current # NoFile /\ up' = "up"
  /\ UNCHANGED <<server, job, stage, hash, total, attempt, diskError, disk,
                 installed, budget>>

-----------------------------------------------------------------------------
ServerNext ==
  \/ \E r \in Releases : CreateBatch(r) \/ SwapPackage(r)
  \/ \E a \in Admins : InsertTask(a) \/ \E r \in Releases : CheckActive(a, r)
  \/ \E t \in DOMAIN tasks : LeaseExpires(t)
  \/ PollTask \/ PollUnsupported \/ PollAnswer \/ PollLost
  \/ \E r \in reports : ReportTimeout(r) \/ ReportLost(r) \/ ReportRead(r) \/ ReportWrite(r)

DownloadNext ==
  \/ Begin \/ LoadPart \/ Promote \/ Reject \/ Fail \/ End
  \/ FetchFails \/ DownloadFails \/ FetchRest \/ FetchAll \/ FetchUnsatisfiable

InstallNext ==
  \/ BackUp \/ BackUpFails \/ Swap \/ SwapFails \/ ReportSwap \/ Restart
  \/ Extract \/ StopService \/ Copy \/ StartService \/ Clean \/ InstallFails

Next == ServerNext \/ DownloadNext \/ InstallNext \/ Crash \/ Killed \/ Start

Spec == Init /\ [][Next]_vars

\* A running process goes on, the supervisor restarts what it can, heartbeats
\* come again, requests are handled to their end, and time passes.  Nothing is
\* assumed of faults, crashes and administrators.
FairSpec ==
  /\ Spec
  /\ WF_vars(DownloadNext \/ InstallNext) /\ WF_vars(Killed \/ Start)
  /\ WF_vars(PollTask \/ PollUnsupported \/ PollAnswer)
  /\ WF_vars(\E r \in reports : ReportRead(r) \/ ReportWrite(r))
  /\ WF_vars(\E t \in DOMAIN tasks : LeaseExpires(t))

-----------------------------------------------------------------------------
(* Properties *)

\* The running SHA-256 is that of the bytes in the partial file, whatever was
\* resumed, restarted or refused before, unless a write to the file failed
\* half-way (main.go 1547-1717): a good download is never rejected.
HashFollowsFile ==
  stage \in {"fetch", "verify"} /\ ~diskError => hash = Content(part[Release])

\* A device runs whole files only.  When the client is about to report its
\* success or to restart, its binary is the whole release of the task; what
\* is started is never a piece of one or a mixture of two; and an application
\* that was restarted is the whole release too (main.go 1399-1534).
InstalledIsWhole ==
  /\ up = "down" /\ current # NoFile => current \in {<<Orig>>} \cup {Whole(r) : r \in ClientReleases}
  /\ stage \in {"report", "restart"} => current = Whole(Release)
  /\ stage = "clean" => app = Whole(Release)

\* A task is reported as successful only if its release was installed, whatever
\* reports were lost, repeated or late (device_upgrade_service.go 454-513).
SuccessMeansInstalled ==
  \A t \in DOMAIN tasks : tasks[t].status = "success" => t \in installed

\* A finished task changes its status only by a report or a heartbeat that had
\* read the row before it was finished: the window between the check of
\* isUpgradeTerminal and the update (device_upgrade_service.go 474-497).
Overtaken(t) ==
  \/ \E r \in reports \ reports' : r.task = t /\ r.overtaken
  \/ poll.task = t /\ poll.overtaken
FinalSticks ==
  [][\A t \in DOMAIN tasks :
       tasks[t].status \in Final /\ tasks'[t].status # tasks[t].status => Overtaken(t)]_vars

\* A task ends although its client crashes, reports are lost and downloads
\* break, because an expired lease hands it out again
\* (device_upgrade_service.go 403-415), unless a crash has left the device
\* without a binary to start.
NoBinary == up = "down" /\ current = NoFile
EveryTaskEnds ==
  \A t \in 1 .. MaxTasks :
    t \in DOMAIN tasks ~> (t \in DOMAIN tasks /\ tasks[t].status \in Final) \/ NoBinary
=============================================================================
