-------------------------------- MODULE Mail ----------------------------------
(* The log of mail to one address: a row per logical message, written before   *)
(* its delivery is queued; the deliveries that send it to the provider, and    *)
(* may overlap once a lease has lapsed; the provider's reports on what it sent.*)
EXTENDS Naturals, FiniteSets

CONSTANTS
  Messages,    \* rows the log can hold
  MailKeys,    \* dedupe keys
  Unkeyed,     \* null dedupeKey
  Senders,     \* callers of sendEmail()
  Deliveries,  \* slots of the email queue
  MaxSends,    \* attempts of an email job
  NoMessage    \* no such row

ASSUME MailAssumption == MaxSends \in Nat \ {0} /\ Unkeyed \notin MailKeys

VARIABLES
  message,    \* emailmessages
  suppressed, \* the address is in the suppression list
  sender,     \* what each caller holds
  mailJob,    \* email jobs: the attempts left, 0 when there is none
  delivery,   \* what each slot holds
  provider    \* what the provider accepted by idempotency key: body it got

mailVars == <<message, suppressed, sender, mailJob, delivery, provider>>

(* whole: the body still carries its single-use link; known: providerId is set.*)
Message == [status : {"queued", "sent", "delivered", "failed", "suppressed", "bounced", "complained"},
            key : MailKeys \cup {Unkeyed}, whole : BOOLEAN, known : BOOLEAN]

ASSUME NoMessageAssumption == NoMessage \notin Message

Reports == {"delivered", "bounced", "complained"}

NoSender == [op |-> "none"]

NoDelivery == [op |-> "none"]

Sender == {NoSender} \cup [op : {"create"}, key : MailKeys \cup {Unkeyed}, blocked : BOOLEAN]
                     \cup [op : {"add"}, msg : Messages]

Delivery == {NoDelivery} \cup [op : {"check", "send", "block"}, msg : Messages, whole : BOOLEAN]
                         \cup [op : {"sent", "failed", "retry"}, msg : Messages]
                         \cup [op : {"suppress"}]

MailTypeOK ==
  /\ message \in [Messages -> Message \cup {NoMessage}]
  /\ suppressed \in BOOLEAN
  /\ sender \in [Senders -> Sender]
  /\ mailJob \in [Messages -> 0..MaxSends]
  /\ delivery \in [Deliveries -> Delivery]
  /\ provider \in [Messages -> {"nothing", "whole", "redacted"}]

MailInit ==
  /\ message = [m \in Messages |-> NoMessage]
  /\ suppressed = FALSE
  /\ sender = [s \in Senders |-> NoSender]
  /\ mailJob = [m \in Messages |-> 0]
  /\ delivery = [d \in Deliveries |-> NoDelivery]
  /\ provider = [m \in Messages |-> "nothing"]

Logged == {m \in Messages : message[m] # NoMessage}

Send(s, v) == sender' = [sender EXCEPT ![s] = v]

SetDelivery(d, v) == delivery' = [delivery EXCEPT ![d] = v]

-------------------------------------------------------------------------------
(* sendEmail().                                                                *)

CheckSuppression(s, key) ==
  /\ sender[s] = NoSender
  /\ Send(s, [op |-> "create", key |-> key, blocked |-> suppressed])
  /\ UNCHANGED <<message, suppressed, mailJob, delivery, provider>>

(* The unique dedupe key makes a repeated call a no-op.                        *)
LogMessage(s, m) ==
  /\ sender[s].op = "create"
  /\ message[m] = NoMessage
  /\ LET key == sender[s].key
         duplicate == key # Unkeyed /\ \E n \in Logged : message[n].key = key
     IN IF duplicate
          THEN Send(s, NoSender) /\ UNCHANGED message
          ELSE /\ message' = [message EXCEPT ![m] =
                    [status |-> IF sender[s].blocked THEN "suppressed" ELSE "queued",
                     key |-> key, whole |-> TRUE, known |-> FALSE]]
               /\ Send(s, IF sender[s].blocked THEN NoSender ELSE [op |-> "add", msg |-> m])
  /\ UNCHANGED <<suppressed, mailJob, delivery, provider>>

QueueDelivery(s) ==
  /\ sender[s].op = "add"
  /\ mailJob' = [mailJob EXCEPT ![sender[s].msg] = MaxSends]
  /\ Send(s, NoSender)
  /\ UNCHANGED <<message, suppressed, delivery, provider>>

(* The queue refuses the job, which is only logged, or the caller dies.        *)
SenderEnds(s) ==
  /\ sender[s] # NoSender
  /\ Send(s, NoSender)
  /\ UNCHANGED <<message, suppressed, mailJob, delivery, provider>>

-------------------------------------------------------------------------------
(* deliverEmail(); the queue owns the attempts.                                *)

(* A message that is no longer queued ends its job.                            *)
FindMessage(d, m) ==
  /\ delivery[d] = NoDelivery
  /\ mailJob[m] > 0
  /\ IF message[m].status = "queued"
       THEN SetDelivery(d, [op |-> "check", msg |-> m, whole |-> message[m].whole])
            /\ UNCHANGED mailJob
       ELSE mailJob' = [mailJob EXCEPT ![m] = 0] /\ UNCHANGED delivery
  /\ UNCHANGED <<message, suppressed, sender, provider>>

CheckAgain(d) ==
  /\ delivery[d].op = "check"
  /\ delivery' = [delivery EXCEPT ![d].op = IF suppressed THEN "block" ELSE "send"]
  /\ UNCHANGED <<message, suppressed, sender, mailJob, provider>>

(* save() of the copy: the status, and the body erased with it.                *)
Close(d, status, known) ==
  LET m == delivery[d].msg
  IN  /\ message' = [message EXCEPT ![m].status = status, ![m].whole = FALSE,
                                    ![m].known = @ \/ known]
      /\ mailJob' = [mailJob EXCEPT ![m] = 0]
      /\ SetDelivery(d, NoDelivery)
      /\ UNCHANGED <<suppressed, sender, provider>>

SaveBlocked(d) == delivery[d].op = "block" /\ Close(d, "suppressed", FALSE)

(* The provider drops what it has seen under the same key.  Its answer may be  *)
(* lost, which looks like a failure worth trying again.                        *)
CallProvider(d, answer) ==
  /\ delivery[d].op = "send"
  /\ LET m == delivery[d].msg
         accepts == answer \in {"ok", "lost"}
     IN /\ provider' = IF accepts /\ provider[m] = "nothing"
                         THEN [provider EXCEPT ![m] = IF delivery[d].whole THEN "whole" ELSE "redacted"]
                         ELSE provider
        /\ SetDelivery(d, [msg |-> m, op |-> CASE answer = "ok" -> "sent"
                                           [] answer = "refused" -> "failed"
                                           [] answer \in {"lost", "busy"} -> "retry"])
  /\ UNCHANGED <<message, suppressed, sender, mailJob>>

SaveSent(d) == delivery[d].op = "sent" /\ Close(d, "sent", TRUE)

SaveFailed(d) == delivery[d].op = "failed" /\ Close(d, "failed", FALSE)

(* Mutant: the body is erased after every attempt.                             *)
SaveRetryErased(d) ==
  /\ delivery[d].op = "retry"
  /\ message' = [message EXCEPT ![delivery[d].msg].whole = FALSE]
  /\ mailJob' = [mailJob EXCEPT ![delivery[d].msg] = IF @ = 0 THEN 0 ELSE @ - 1]
  /\ SetDelivery(d, NoDelivery)
  /\ UNCHANGED <<suppressed, sender, provider>>

(* attempts and lastError are saved and the job fails: an attempt is spent.    *)
SaveRetry(d) ==
  /\ delivery[d].op = "retry"
  /\ mailJob' = [mailJob EXCEPT ![delivery[d].msg] = IF @ = 0 THEN 0 ELSE @ - 1]
  /\ SetDelivery(d, NoDelivery)
  /\ UNCHANGED <<message, suppressed, sender, provider>>

(* The runner dies; the job is claimed again when its lease lapses.            *)
DeliveryDies(d) ==
  /\ delivery[d].op \notin {"none", "suppress"}
  /\ SetDelivery(d, NoDelivery)
  /\ UNCHANGED <<message, suppressed, sender, mailJob, provider>>

-------------------------------------------------------------------------------
(* recordDeliveryEvent(), in any order and any number of times.  The update    *)
(* goes by providerId, which the row may not have yet.                         *)
RecordDeliveryEvent(d, m, report) ==
  /\ delivery[d] = NoDelivery
  /\ provider[m] # "nothing"
  /\ message' = IF message[m].known THEN [message EXCEPT ![m].status = report] ELSE message
  /\ SetDelivery(d, IF report = "delivered" THEN NoDelivery ELSE [op |-> "suppress"])
  /\ UNCHANGED <<suppressed, sender, mailJob, provider>>

Suppress(d) ==
  /\ delivery[d].op = "suppress"
  /\ suppressed' = TRUE
  /\ SetDelivery(d, NoDelivery)
  /\ UNCHANGED <<message, sender, mailJob, provider>>

MailNext ==
  \/ \E s \in Senders : \/ QueueDelivery(s) \/ SenderEnds(s)
                        \/ \E key \in MailKeys \cup {Unkeyed} : CheckSuppression(s, key)
                        \/ \E m \in Messages : LogMessage(s, m)
  \/ \E d \in Deliveries :
       \/ CheckAgain(d) \/ SaveBlocked(d) \/ SaveSent(d) \/ SaveFailed(d) \/ SaveRetry(d)
       \/ DeliveryDies(d) \/ Suppress(d)
       \/ \E answer \in {"ok", "lost", "busy", "refused"} : CallProvider(d, answer)
       \/ \E m \in Messages : \/ FindMessage(d, m)
                              \/ \E report \in Reports : RecordDeliveryEvent(d, m, report)

MailSpec == MailInit /\ [][MailNext]_mailVars

-------------------------------------------------------------------------------
(* A body is erased "once nothing will send it again" (email.service.ts:187):  *)
(* however attempts are retried, overlap or lose their answer, no mail goes    *)
(* out with its link removed, and what was erased is never queued again.       *)
MailGoesOutWhole ==
  \A m \in Messages : /\ provider[m] # "redacted"
                      /\ m \in Logged /\ message[m].status = "queued" => message[m].whole

=============================================================================
