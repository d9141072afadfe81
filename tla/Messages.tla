------------------------------ MODULE Messages ------------------------------
(***************************************************************************)
(* Sending a notice by e-mail and keeping a record of it for each          *)
(* recipient: services/email_service.go and the send records, recipients   *)
(* and configurations of services/message_service.go. A sender is a worker *)
(* of the notification runner or a request of the console; several work at *)
(* once, each reading a record, sending, and writing the outcome later.    *)
(***************************************************************************)
EXTENDS Naturals, FiniteSets

CONSTANTS
  Notices,     \* what is sent
  Recipients,  \* rows of the recipient table
  Admits,      \* the pairs of notice and recipient whose lists of message
               \* types and devices admit the notice
  Senders,     \* threads that send
  MaxRetries,  \* MaxMessageSendRetries
  MaxEvents,   \* bound: changes of the console, failed writes, panics and crashes
  None

ASSUME RetriesAssumption == MaxRetries \in Nat /\ MaxEvents \in Nat

Keys == Notices \X Recipients  \* one send record each

VARIABLES
  template,    \* the notices' template is enabled
  configured,  \* an enabled e-mail configuration exists
  enabled,     \* the enabled recipients
  events,      \* changes and faults so far
  record,      \* [Keys -> [status, retries]]
  sender,      \* [Senders -> where the thread is]
  attempts,    \* history: [Keys -> calls of sendHTML]
  delivered,   \* history: [Keys -> mails the mail server accepted]
  overlapped,  \* history: keys two threads worked on at once
  unclear      \* history: keys whose outcome was lost on the way to the record

recordVars == <<record, attempts, delivered, overlapped, unclear>>
settingVars == <<template, configured, enabled>>
messageVars == <<template, configured, enabled, events, record, sender, attempts, delivered, overlapped, unclear>>

Statuses == {"none", "pending", "success", "failed", "deleted"}
Places == {"idle", "next", "bump", "send", "hung", "markSuccess", "markFailed"}

(* key: the record worked on; todo: recipients left; ready: the send found *)
(* a configuration; seen: the retry count that was read.                   *)
Idle == [at |-> "idle", key |-> None, notice |-> None, todo |-> {}, ready |-> FALSE, seen |-> 0]

MessagesInit ==
  /\ template = TRUE
  /\ configured = TRUE
  /\ enabled = Recipients
  /\ events = 0
  /\ record = [k \in Keys |-> [status |-> "none", retries |-> 0]]
  /\ sender = [s \in Senders |-> Idle]
  /\ attempts = [k \in Keys |-> 0]
  /\ delivered = [k \in Keys |-> 0]
  /\ overlapped = {}
  /\ unclear = {}

MessagesTypeOK ==
  /\ template \in BOOLEAN
  /\ configured \in BOOLEAN
  /\ enabled \subseteq Recipients
  /\ events \in 0..MaxEvents
  /\ record \in [Keys -> [status : Statuses, retries : 0..MaxRetries]]
  /\ sender \in [Senders -> [at : Places, key : Keys \cup {None}, notice : Notices \cup {None},
                             todo : SUBSET Recipients, ready : BOOLEAN, seen : 0..MaxRetries]]
  /\ attempts \in [Keys -> 0..(MaxRetries + 2)]
  /\ delivered \in [Keys -> 0..2]
  /\ overlapped \subseteq Keys
  /\ unclear \subseteq Keys

-----------------------------------------------------------------------------
(* Everything that happens only so often.                                  *)
Event == events < MaxEvents /\ events' = events + 1

(* A notice: template, recipients and configuration are read once.         *)

Accepts(n, r) == r \in enabled /\ <<n, r>> \in Admits

Addressed(n) == {r \in Recipients : template /\ Accepts(n, r)}

Prepared(n) == [Idle EXCEPT !.at = "next", !.notice = n, !.todo = Addressed(n), !.ready = configured]

BeginNotice(s, n) ==
  /\ sender[s].at = "idle"
  /\ sender' = IF Addressed(n) = {} THEN sender
               ELSE [sender EXCEPT ![s] = Prepared(n)]
  /\ UNCHANGED <<events, settingVars, recordVars>>

NewRecord == [status |-> "pending", retries |-> 0]

(* The next recipient gets its record before anything is sent.             *)
CreateRecord(s, r) ==
  /\ sender[s].at = "next"
  /\ r \in sender[s].todo
  /\ LET k == <<sender[s].notice, r>>
     IN /\ record' = [record EXCEPT ![k] = NewRecord]
        /\ sender' = [sender EXCEPT ![s].at = IF sender[s].ready THEN "send" ELSE "markFailed",
                                    ![s].key = k, ![s].todo = @ \ {r}]
  /\ UNCHANGED <<events, settingVars, attempts, delivered, overlapped, unclear>>

(* The insert fails: this recipient is skipped.                            *)
CreateFails(s, r) ==
  /\ sender[s].at = "next"
  /\ r \in sender[s].todo
  /\ sender' = [sender EXCEPT ![s].todo = @ \ {r}]
  /\ Event
  /\ UNCHANGED <<settingVars, recordVars>>

EndNotice(s) ==
  /\ sender[s].at = "next"
  /\ sender[s].todo = {}
  /\ sender' = [sender EXCEPT ![s] = Idle]
  /\ UNCHANGED <<events, settingVars, recordVars>>

-----------------------------------------------------------------------------
(* A retry by the console, from the record as it was read.                 *)

Busy(k) == \E s \in Senders : sender[s].at # "idle" /\ sender[s].key = k

(* Seeded fault: a successful record is sent again.                        *)
AnyRetriable(k) == record[k].status \in {"pending", "failed", "success"} /\ record[k].retries < MaxRetries

(* A pending record may be retried, also while its first send still runs.  *)
Retriable(k) == record[k].status \in {"pending", "failed"} /\ record[k].retries < MaxRetries

BeginRetry(s, k) ==
  /\ sender[s].at = "idle"
  /\ Retriable(k)
  /\ sender' = [sender EXCEPT ![s] = [Idle EXCEPT !.at = "bump", !.key = k, !.seen = record[k].retries]]
  /\ overlapped' = IF Busy(k) THEN overlapped \cup {k} ELSE overlapped
  /\ UNCHANGED <<events, settingVars, record, attempts, delivered, unclear>>

Live(k) == record[k].status \notin {"none", "deleted"}

Counted(k, n) == n + 1

(* The count that was read, plus one, is written whatever is there now.    *)
Bump(s) ==
  LET k == sender[s].key IN
  /\ sender[s].at = "bump"
  /\ record' = IF Live(k) THEN [record EXCEPT ![k] = [status |-> "pending", retries |-> Counted(k, sender[s].seen)]]
                          ELSE record
  /\ sender' = [sender EXCEPT ![s].at = IF configured THEN "send" ELSE "markFailed"]
  /\ UNCHANGED <<events, settingVars, attempts, delivered, overlapped, unclear>>

(* The update fails: nothing is sent.                                      *)
BumpFails(s) ==
  /\ sender[s].at = "bump"
  /\ sender' = [sender EXCEPT ![s] = Idle]
  /\ Event
  /\ UNCHANGED <<settingVars, recordVars>>

-----------------------------------------------------------------------------
(* The mail server. The histories count as far as the properties ask.      *)

Seen(count, most) == IF count < most THEN count + 1 ELSE count

Deliver(s) ==
  LET k == sender[s].key IN
  /\ sender[s].at = "send"
  /\ sender' = [sender EXCEPT ![s].at = "markSuccess"]
  /\ attempts' = [attempts EXCEPT ![k] = Seen(@, MaxRetries + 2)]
  /\ delivered' = [delivered EXCEPT ![k] = Seen(@, 2)]
  /\ UNCHANGED <<events, settingVars, record, overlapped, unclear>>

(* An error before the server accepted the mail.                           *)
Rejected(s) ==
  LET k == sender[s].key IN
  /\ sender[s].at = "send"
  /\ sender' = [sender EXCEPT ![s].at = "markFailed"]
  /\ attempts' = [attempts EXCEPT ![k] = Seen(@, MaxRetries + 2)]
  /\ UNCHANGED <<events, settingVars, record, delivered, overlapped, unclear>>

(* The mail is accepted, but its acknowledgement or QUIT fails.            *)
AcceptedThenError(s) ==
  LET k == sender[s].key IN
  /\ sender[s].at = "send"
  /\ sender' = [sender EXCEPT ![s].at = "markFailed"]
  /\ attempts' = [attempts EXCEPT ![k] = Seen(@, MaxRetries + 2)]
  /\ delivered' = [delivered EXCEPT ![k] = Seen(@, 2)]
  /\ unclear' = unclear \cup {k}
  /\ UNCHANGED <<events, settingVars, record, overlapped>>

(* Only dialling has a timeout: a server that then says nothing holds the  *)
(* sender for ever.                                                        *)
Hang(s) ==
  /\ sender[s].at = "send"
  /\ sender' = [sender EXCEPT ![s].at = "hung"]
  /\ attempts' = [attempts EXCEPT ![sender[s].key] = Seen(@, MaxRetries + 2)]
  /\ UNCHANGED <<events, settingVars, record, delivered, overlapped, unclear>>

-----------------------------------------------------------------------------
(* The outcome is written to the record, whatever it says by then.         *)

After(s) == IF sender[s].notice = None THEN Idle
            ELSE [sender[s] EXCEPT !.at = "next", !.key = None]

(* Seeded fault: the outcome of a failed send is recorded as a success.    *)
AlwaysSuccess(s) == "success"

Outcome(s) == IF sender[s].at = "markSuccess" THEN "success" ELSE "failed"

Mark(s) ==
  LET k == sender[s].key IN
  /\ sender[s].at \in {"markSuccess", "markFailed"}
  /\ record' = IF Live(k) THEN [record EXCEPT ![k].status = Outcome(s)] ELSE record
  /\ sender' = [sender EXCEPT ![s] = After(s)]
  /\ UNCHANGED <<events, settingVars, attempts, delivered, overlapped, unclear>>

(* The update fails and the error is dropped: the record stays pending.    *)
MarkFails(s) ==
  LET k == sender[s].key IN
  /\ sender[s].at \in {"markSuccess", "markFailed"}
  /\ sender' = [sender EXCEPT ![s] = After(s)]
  /\ unclear' = unclear \cup {k}
  /\ Event
  /\ UNCHANGED <<settingVars, record, attempts, delivered, overlapped>>

-----------------------------------------------------------------------------
(* The console changes configurations, recipients and records.             *)

Change ==
  /\ Event
  /\ UNCHANGED <<sender, attempts, delivered, overlapped, unclear>>

SaveTemplate == Change /\ ~template /\ template' = TRUE /\ UNCHANGED <<configured, enabled, record>>
DropTemplate == Change /\ template /\ template' = FALSE /\ UNCHANGED <<configured, enabled, record>>

SaveConfig == Change /\ ~configured /\ configured' = TRUE /\ UNCHANGED <<template, enabled, record>>
DropConfig == Change /\ configured /\ configured' = FALSE /\ UNCHANGED <<template, enabled, record>>

SaveRecipient(r) ==
  /\ Change
  /\ r \notin enabled
  /\ enabled' = enabled \cup {r}
  /\ UNCHANGED <<template, configured, record>>

DropRecipient(r) ==
  /\ Change
  /\ r \in enabled
  /\ enabled' = enabled \ {r}
  /\ UNCHANGED <<template, configured, record>>

DeleteRecord(k) ==
  /\ Change
  /\ Live(k)
  /\ record' = [record EXCEPT ![k].status = "deleted"]
  /\ UNCHANGED settingVars

(* The process ends: threads vanish, and with them what they knew.         *)
LoseSenders ==
  /\ sender' = [s \in Senders |-> Idle]
  /\ unclear' = unclear \cup {sender[s].key : s \in {t \in Senders : sender[t].key # None}}
  /\ Event
  /\ UNCHANGED <<settingVars, record, attempts, delivered, overlapped>>

SenderStep(s) ==
  \/ \E r \in Recipients : CreateRecord(s, r) \/ CreateFails(s, r)
  \/ EndNotice(s)
  \/ Bump(s) \/ BumpFails(s)
  \/ Deliver(s) \/ Rejected(s) \/ AcceptedThenError(s) \/ Hang(s)
  \/ Mark(s) \/ MarkFails(s)

Console ==
  \/ SaveTemplate \/ DropTemplate \/ SaveConfig \/ DropConfig
  \/ \E r \in Recipients : SaveRecipient(r) \/ DropRecipient(r)
  \/ \E k \in Keys : DeleteRecord(k)
=============================================================================
