------------------------------- MODULE Receipts -------------------------------
(* "Please confirm you received this": one assignment to a person, the single  *)
(* use link in its first mail, the reminders that replace the link, and the    *)
(* confirmation.  The row holds the hash of one token; a mail holds its own.   *)
EXTENDS Naturals, FiniteSets

CONSTANTS
  Tokens,      \* receipt tokens, the first and those of reminders
  Desks,       \* requests under way
  LastDay,     \* bound: days that pass
  Unasked      \* no token yet

ASSUME ReceiptsAssumption == LastDay \in Nat /\ Unasked \notin Tokens

VARIABLES
  receipt,     \* the assignment: its status and its acknowledgement
  today,       \* the date, in the dedupe key of reminders
  reminders,   \* dates of the receipt-reminder keys in the email log
  mailed,      \* tokens whose mail was logged as queued
  blocked,     \* the address is suppressed
  errand       \* what each request holds between two calls

receiptVars == <<receipt, today, reminders, mailed, blocked, errand>>

Receipt == [status : {"none", "active", "returned"}, token : Tokens \cup {Unasked},
            confirmed : BOOLEAN]

NoErrand == [op |-> "none"]

Errand == {NoErrand} \cup [op : {"send", "remind", "save"}, token : Tokens] \cup [op : {"confirm"}]

ReceiptsTypeOK ==
  /\ receipt \in Receipt
  /\ today \in 0..LastDay
  /\ reminders \subseteq 0..LastDay
  /\ mailed \subseteq Tokens
  /\ blocked \in BOOLEAN
  /\ errand \in [Desks -> Errand]

ReceiptsInit ==
  /\ receipt = [status |-> "none", token |-> Unasked, confirmed |-> FALSE]
  /\ today = 0
  /\ reminders = {}
  /\ mailed = {}
  /\ blocked = FALSE
  /\ errand = [d \in Desks |-> NoErrand]

(* Tokens are random: none is made twice.                                      *)
FreshTokens ==
  Tokens \ ({receipt.token} \cup mailed \cup
            {errand[d].token : d \in {e \in Desks : errand[e].op \in {"send", "remind", "save"}}})

Take(d, e) == errand' = [errand EXCEPT ![d] = e]

OnErrand(d, op) == errand[d].op = op

(* assignAsset(), transferAsset(): the token is in the row before the mail.    *)
AssignWithReceipt(d, t) ==
  /\ errand[d] = NoErrand /\ receipt.status = "none"
  /\ t \in FreshTokens
  /\ receipt' = [status |-> "active", token |-> t, confirmed |-> FALSE]
  /\ Take(d, [op |-> "send", token |-> t])
  /\ UNCHANGED <<today, reminders, mailed, blocked>>

SendReceiptRequest(d) ==
  /\ OnErrand(d, "send")
  /\ mailed' = IF blocked THEN mailed ELSE mailed \cup {errand[d].token}
  /\ Take(d, NoErrand)
  /\ UNCHANGED <<receipt, today, reminders, blocked>>

(* Mutant: the new hash is saved with the read, before the mail is queued.     *)
RemindBeforeMail(d, t) ==
  /\ errand[d] = NoErrand
  /\ receipt.status = "active" /\ ~receipt.confirmed
  /\ t \in FreshTokens
  /\ receipt' = [receipt EXCEPT !.token = t]
  /\ Take(d, [op |-> "remind", token |-> t])
  /\ UNCHANGED <<today, reminders, mailed, blocked>>

FindForReminder(d, t) ==
  /\ errand[d] = NoErrand
  /\ receipt.status = "active" /\ ~receipt.confirmed
  /\ t \in FreshTokens
  /\ Take(d, [op |-> "remind", token |-> t])
  /\ UNCHANGED <<receipt, today, reminders, mailed, blocked>>

(* assertSent(): a duplicate or a suppressed reminder refuses the request; the *)
(* log row of a suppressed one keeps the day's key all the same.               *)
SendReminder(d) ==
  /\ OnErrand(d, "remind")
  /\ reminders' = reminders \cup {today}
  /\ IF today \in reminders \/ blocked
       THEN mailed' = mailed /\ Take(d, NoErrand)
       ELSE /\ mailed' = mailed \cup {errand[d].token}
            /\ Take(d, [op |-> "save", token |-> errand[d].token])
  /\ UNCHANGED <<receipt, today, blocked>>

SaveReminder(d) ==
  /\ OnErrand(d, "save")
  /\ receipt' = [receipt EXCEPT !.token = errand[d].token]
  /\ Take(d, NoErrand)
  /\ UNCHANGED <<today, reminders, mailed, blocked>>

FindForConfirmation(d, t) ==
  /\ errand[d] = NoErrand
  /\ t \in mailed /\ t = receipt.token
  /\ receipt.status = "active" /\ ~receipt.confirmed
  /\ Take(d, [op |-> "confirm"])
  /\ UNCHANGED <<receipt, today, reminders, mailed, blocked>>

(* The transaction finds the row by its id and looks at nothing else in it.    *)
ConfirmReceipt(d) ==
  /\ OnErrand(d, "confirm")
  /\ receipt' = [receipt EXCEPT !.confirmed = TRUE]
  /\ Take(d, NoErrand)
  /\ UNCHANGED <<today, reminders, mailed, blocked>>

ReturnItem ==
  /\ receipt.status = "active"
  /\ receipt' = [receipt EXCEPT !.status = "returned"]
  /\ UNCHANGED <<today, reminders, mailed, blocked, errand>>

DayPasses ==
  /\ today < LastDay
  /\ today' = today + 1
  /\ UNCHANGED <<receipt, reminders, mailed, blocked, errand>>

AddressBlocked ==
  /\ ~blocked
  /\ blocked' = TRUE
  /\ UNCHANGED <<receipt, today, reminders, mailed, errand>>

ErrandEnds(d) ==
  /\ errand[d] # NoErrand
  /\ Take(d, NoErrand)
  /\ UNCHANGED <<receipt, today, reminders, mailed, blocked>>

ReceiptsNext ==
  \/ \E d \in Desks :
       \/ SendReceiptRequest(d) \/ SendReminder(d) \/ SaveReminder(d) \/ ConfirmReceipt(d)
       \/ ErrandEnds(d)
       \/ \E t \in Tokens :
            AssignWithReceipt(d, t) \/ FindForReminder(d, t) \/ FindForConfirmation(d, t)
  \/ ReturnItem \/ DayPasses \/ AddressBlocked

ReceiptsSpec == ReceiptsInit /\ [][ReceiptsNext]_receiptVars

-------------------------------------------------------------------------------
(* "A refused reminder must not invalidate the link they already have"         *)
(* (receipts.service.ts:104): whichever requests send, are refused, overlap or *)
(* die half way, once the row holds a link that was mailed, it always does.    *)
ALinkStaysGood == [][receipt.token \in mailed => receipt'.token \in mailed']_receiptVars

=============================================================================
