---------------------------- MODULE WesternUnion ----------------------------
(***************************************************************************)
(* Payment records and the Western Union integration: the client           *)
(* (send-money validation and store, pay status, cancel), the notification *)
(* webhook, the job that cancels records and the writers that only edit a  *)
(* record.  Every process works on its own copy of the database row, read  *)
(* without a row lock, and Django's save() writes every column of the copy *)
(* back: each read, each call to Western Union and each save is a step of  *)
(* its own.  Message texts, amounts and payloads are left out; auth_code   *)
(* and fsp_code, always written together, are one field, `mtcn`.           *)
(***************************************************************************)
EXTENDS PaymentFlow, Naturals, FiniteSets

CONSTANTS
  Records,       \* payment records sent through Western Union
  Mtcns,         \* control numbers Western Union can issue (bounds the attempts)
  NoRecord, NoMtcn,
  Senders,       \* processes that run create_transaction: jobs, admin buttons
  Hooks,         \* web workers that serve the notification endpoint
  Operators,     \* processes that poll, refund, cancel or edit a record
  Roles,         \* what operators do in this deployment
  MaxNotices,    \* bound on the notifications Western Union sends of its own accord
  MayCrash,      \* a sender may be killed, or stop at an uncaught exception
  TouchPending   \* operators may also work on records still PENDING

ASSUME ConstantsAssumption ==
  /\ NoRecord \notin Records /\ NoMtcn \notin Mtcns
  /\ Senders \cap Hooks = {} /\ Senders \cap Operators = {} /\ Hooks \cap Operators = {}
  /\ Roles \subseteq {"poll", "refund", "cancel", "edit"}
  /\ MaxNotices \in Nat
  /\ MayCrash \in BOOLEAN /\ TouchPending \in BOOLEAN

VARIABLES
  row,       \* the database: one row per record
  task,      \* what each process is doing, with its copy of the row
  owner,     \* Western Union: the record each control number was issued for
  transfer,  \* Western Union: the state of the money behind each number
  nis        \* every notification Western Union has sent; it may be delivered
             \* late, repeatedly, out of order or never

vars == <<row, task, owner, transfer, nis>>
Procs == Senders \cup Hooks \cup Operators

Row == [status : RecordStates, mtcn : Mtcns \cup {NoMtcn}]
NewRow == [status |-> "PENDING", mtcn |-> NoMtcn]

TransferStates == {"unknown", "quoted", "stored", "paid", "cancelled", "refunded", "purged"}
NotificationTypes ==
  {"SUCCESS", "CANCEL", "REFUND", "PURGE", "UNPAY", "TRANSFER_TO_FSP", "OTHER"}
Notification == [type : NotificationTypes, mtcn : Mtcns]

\* A copy in hand, the control number of this attempt and the last answer.
Idle == [pc |-> "idle", rec |-> NoRecord, copy |-> NewRow, mtcn |-> NoMtcn, arg |-> "none"]
PCs == {"idle", "validate", "failRejected", "codes", "quote", "store", "refresh",
        "commit", "again", "apply", "ask", "update", "search", "cancel"}
Args == NotificationTypes \cup TransferStates \cup {"none", "ok", "error"}
Task == [pc : PCs, rec : Records \cup {NoRecord}, copy : Row,
         mtcn : Mtcns \cup {NoMtcn}, arg : Args]

Init ==
  /\ row = [r \in Records |-> NewRow]
  /\ task = [p \in Procs |-> Idle]
  /\ owner = [c \in Mtcns |-> NoRecord]
  /\ transfer = [c \in Mtcns |-> "unknown"]
  /\ nis = {}

Goto(p, t) == task' = [task EXCEPT ![p] = t]
Save(r, x) == row' = [row EXCEPT ![r] = x]
External == <<owner, transfer, nis>>
Accepted(c) == transfer[c] \notin {"unknown", "quoted"}

-----------------------------------------------------------------------------
(* WesternUnionClient.create_transaction.                                  *)

\* Mutant: the status is not looked at before a transfer is started.
SendBeginUnchecked(p, r) ==
  /\ task[p] = Idle
  /\ Goto(p, [Idle EXCEPT !.pc = "validate", !.rec = r, !.copy = row[r]])
  /\ UNCHANGED <<row, External>>

\* A record in any other status is answered "already transferred" or refused
\* with TransitionNotAllowed: neither changes anything.
SendBegin(p, r) ==
  /\ task[p] = Idle
  /\ row[r].status = "PENDING"
  /\ Goto(p, [Idle EXCEPT !.pc = "validate", !.rec = r, !.copy = row[r]])
  /\ UNCHANGED <<row, External>>

\* Mutant: a status the record does not have is saved.
SendPayloadErrorMisspelt(p) ==
  /\ task[p].pc = "validate"
  /\ Save(task[p].rec, [task[p].copy EXCEPT !.status = "FAILED"])
  /\ Goto(p, Idle)
  /\ UNCHANGED External

\* create_validation_payload raises: ERROR is saved from the copy of the first read.
SendPayloadError(p) ==
  /\ task[p].pc = "validate"
  /\ Save(task[p].rec, [task[p].copy EXCEPT !.status = "ERROR"])
  /\ Goto(p, Idle)
  /\ UNCHANGED External

\* Validation succeeds with a fresh control number; the record is read again.
SendValidated(p, c) ==
  /\ task[p].pc = "validate"
  /\ owner[c] = NoRecord
  /\ owner' = [owner EXCEPT ![c] = task[p].rec]
  /\ transfer' = [transfer EXCEPT ![c] = "quoted"]
  /\ Goto(p, [task[p] EXCEPT !.pc = "codes", !.copy = row[task[p].rec], !.mtcn = c])
  /\ UNCHANGED <<row, nis>>

\* Validation fails: the record is read again and failed, or, for an error on
\* Western Union's side (WESTERN_UNION_ERRORS), saved as it is to be retried.
SendInvalid(p) ==
  /\ task[p].pc = "validate"
  /\ \E next \in {"failRejected", "again"} :
       Goto(p, [task[p] EXCEPT !.pc = next, !.copy = row[task[p].rec]])
  /\ UNCHANGED <<row, External>>

\* PaymentRecordFlow(pr).fail(), which saves; the save of line 308 follows.
SendFailRejected(p) ==
  /\ task[p].pc = "failRejected"
  /\ LET failed == [task[p].copy EXCEPT !.status = RecordFlow.fail.to]
     IN  /\ Save(task[p].rec, failed)
         /\ Goto(p, [task[p] EXCEPT !.pc = "again", !.copy = failed])
  /\ UNCHANGED External

\* Mutant: only the payload is saved.
SendSaveCodesDropped(p) ==
  /\ task[p].pc = "codes"
  /\ Goto(p, [task[p] EXCEPT !.pc = "quote"])
  /\ UNCHANGED <<row, External>>

\* Mutant: the answer is kept on a client that other attempts share.
SendSaveCodesShared(p) ==
  /\ task[p].pc = "codes"
  /\ \E c \in Mtcns :
       /\ owner[c] # NoRecord
       /\ LET coded == [task[p].copy EXCEPT !.mtcn = c]
          IN  /\ Save(task[p].rec, coded)
              /\ Goto(p, [task[p] EXCEPT !.pc = "quote", !.copy = coded])
  /\ UNCHANGED External

\* The control numbers of the validation are saved ...
SendSaveCodes(p) ==
  /\ task[p].pc = "codes"
  /\ LET coded == [task[p].copy EXCEPT !.mtcn = task[p].mtcn]
     IN  /\ Save(task[p].rec, coded)
         /\ Goto(p, [task[p] EXCEPT !.pc = "quote", !.copy = coded])
  /\ UNCHANGED External

\* ... and then the answer of the validation, in a second save of the same copy.
SendSaveQuote(p) ==
  /\ task[p].pc = "quote"
  /\ Save(task[p].rec, task[p].copy)
  /\ Goto(p, [task[p] EXCEPT !.pc = "store"])
  /\ UNCHANGED External

\* SendMoneyStore: accepted and confirmed, accepted with the answer lost (every
\* exception of the call becomes code 400), or refused.
SendStore(p) ==
  /\ task[p].pc = "store"
  /\ \/ /\ transfer' = [transfer EXCEPT ![task[p].mtcn] = "stored"]
        /\ \E answer \in {"ok", "error"} :
             Goto(p, [task[p] EXCEPT !.pc = "refresh", !.arg = answer])
     \/ /\ Goto(p, [task[p] EXCEPT !.pc = "refresh", !.arg = "error"])
        /\ UNCHANGED transfer
  /\ UNCHANGED <<row, owner, nis>>

SendRefresh(p) ==
  /\ task[p].pc = "refresh"
  /\ Goto(p, [task[p] EXCEPT !.pc = "commit", !.copy = row[task[p].rec]])
  /\ UNCHANGED <<row, External>>

\* Mutant: the answer of the store call is not looked at.
SendCommitUnchecked(p) ==
  /\ task[p].pc = "commit"
  /\ task[p].copy.status \in RecordFlow.store.from
  /\ LET stored == [task[p].copy EXCEPT !.status = RecordFlow.store.to]
     IN  /\ Save(task[p].rec, stored)
         /\ Goto(p, [task[p] EXCEPT !.pc = "again", !.copy = stored])
  /\ UNCHANGED External

\* flow.store() after an accepted store: it saves; NoTransition is ignored on a
\* record that is already TRANSFERRED_TO_FSP and re-raised on any other.
SendCommit(p) ==
  /\ task[p].pc = "commit" /\ task[p].arg = "ok"
  /\ LET stored == [task[p].copy EXCEPT !.status = RecordFlow.store.to]
     IN  \/ /\ task[p].copy.status \in RecordFlow.store.from
            /\ Save(task[p].rec, stored)
            /\ Goto(p, [task[p] EXCEPT !.pc = "again", !.copy = stored])
         \/ /\ task[p].copy.status = "TRANSFERRED_TO_FSP"
            /\ Goto(p, [task[p] EXCEPT !.pc = "again"])
            /\ UNCHANGED row
         \/ /\ task[p].copy.status \notin RecordFlow.store.from \cup {"TRANSFERRED_TO_FSP"}
            /\ Goto(p, Idle)
            /\ UNCHANGED row
  /\ UNCHANGED External

\* Mutant: the record is left as it is, to be sent again.
SendCommitFailureRetried(p) ==
  /\ task[p].pc = "commit" /\ task[p].arg = "error"
  /\ Goto(p, [task[p] EXCEPT !.pc = "again"])
  /\ UNCHANGED <<row, External>>

\* flow.fail() after a store that was refused or whose answer was lost.
SendCommitFailure(p) ==
  /\ task[p].pc = "commit" /\ task[p].arg = "error"
  /\ LET failed == [task[p].copy EXCEPT !.status = RecordFlow.fail.to]
     IN  /\ Save(task[p].rec, failed)
         /\ Goto(p, [task[p] EXCEPT !.pc = "again", !.copy = failed])
  /\ UNCHANGED External

\* The closing pr.save() of create_transaction, of the webhook and of refund,
\* and the save of a writer that edits other columns.
SaveAgain(p) ==
  /\ task[p].pc = "again"
  /\ Save(task[p].rec, task[p].copy)
  /\ Goto(p, Idle)
  /\ UNCHANGED External

\* The worker is killed, or an exception nobody catches ends the task.
Crash(p) ==
  /\ MayCrash
  /\ task[p] # Idle
  /\ Goto(p, Idle)
  /\ UNCHANGED <<row, External>>

-----------------------------------------------------------------------------
(* NisNotificationView.post.                                               *)

\* The flow transition a notification asks for.
Requested(type) ==
  CASE type = "SUCCESS"         -> RecordFlow.confirm
    [] type = "CANCEL"          -> RecordFlow.cancel
    [] type = "REFUND"          -> RecordFlow.refund
    [] type = "PURGE"           -> RecordFlow.purge
    [] type = "UNPAY"           -> RecordFlow.unpay
    [] type = "TRANSFER_TO_FSP" -> RecordFlow.store
    [] OTHER                    -> RecordFlow.fail

\* The record is looked up by its control number; an unknown one is refused.
HookRead(p, n, r) ==
  /\ task[p] = Idle
  /\ n \in nis
  /\ row[r].mtcn = n.mtcn
  /\ Goto(p, [Idle EXCEPT !.pc = "apply", !.rec = r, !.copy = row[r], !.arg = n.type])
  /\ UNCHANGED <<row, External>>

\* The transition, decided on the copy and saved; refused outside its sources
\* (400, nothing saved), except that a late TRANSFER_TO_FSP is just saved.
HookApply(p) ==
  /\ task[p].pc = "apply"
  /\ LET move  == Requested(task[p].arg)
         moved == [task[p].copy EXCEPT !.status = move.to]
     IN  \/ /\ task[p].copy.status \in move.from
            /\ Save(task[p].rec, moved)
            /\ Goto(p, [task[p] EXCEPT !.pc = "again", !.copy = moved])
         \/ /\ task[p].copy.status \notin move.from
            /\ Goto(p, IF task[p].arg = "TRANSFER_TO_FSP"
                         THEN [task[p] EXCEPT !.pc = "again"] ELSE Idle)
            /\ UNCHANGED row
  /\ UNCHANGED External

-----------------------------------------------------------------------------
(* Operators: status polls, refunds, cancellations and edits.              *)

OnDuty(p, role, r) ==
  /\ task[p] = Idle /\ role \in Roles
  /\ TouchPending \/ row[r].status # "PENDING"

\* WesternUnionClient.status: read by control number, ask, save; one
\* transaction, but without a row lock.  A row without a number gets an error.
PollRead(p, r) ==
  /\ OnDuty(p, "poll", r)
  /\ row[r].mtcn # NoMtcn
  /\ Goto(p, [Idle EXCEPT !.pc = "ask", !.rec = r, !.copy = row[r]])
  /\ UNCHANGED <<row, External>>

\* An error or a number Western Union holds no transfer for ends the poll.
PollAsk(p) ==
  /\ task[p].pc = "ask"
  /\ LET c == task[p].copy.mtcn
     IN  \/ /\ Accepted(c)
            /\ Goto(p, [task[p] EXCEPT !.pc = "update", !.arg = transfer[c]])
         \/ Goto(p, Idle)
  /\ UNCHANGED <<row, External>>

\* Mutant: a transfer that can be collected is taken for a collected one.
PolledStatusEager ==
  [s \in {"paid", "stored", "cancelled"} |->
     IF s = "cancelled" THEN "CANCELLED" ELSE "TRANSFERRED_TO_BENEFICIARY"]

\* The statuses PayStatus descriptions are mapped to; others map to none.
PolledStatus ==
  [s \in {"paid", "stored", "cancelled"} |->
     CASE s = "paid"      -> "TRANSFERRED_TO_BENEFICIARY"
       [] s = "stored"    -> "TRANSFERRED_TO_FSP"
       [] s = "cancelled" -> "CANCELLED"]

\* A status other than the copy's is assigned, past the flow.  A description
\* without a status differs from them all: the copy is saved as it was read.
PollUpdate(p) ==
  /\ task[p].pc = "update"
  /\ \/ /\ task[p].arg \in DOMAIN PolledStatus
        /\ IF task[p].copy.status = PolledStatus[task[p].arg]
             THEN UNCHANGED row
             ELSE Save(task[p].rec, [task[p].copy EXCEPT !.status = PolledStatus[task[p].arg]])
     \/ /\ task[p].arg \notin DOMAIN PolledStatus
        /\ Save(task[p].rec, task[p].copy)
  /\ Goto(p, Idle)
  /\ UNCHANGED External

\* WesternUnionClient.refund: the record is read by its control number; without
\* one the lookup only succeeds when a single row has none.
RefundRead(p, r) ==
  /\ OnDuty(p, "refund", r)
  /\ row[r].mtcn = NoMtcn => \A s \in Records \ {r} : row[s].mtcn # NoMtcn
  /\ Goto(p, [Idle EXCEPT !.pc = "search", !.rec = r, !.copy = row[r]])
  /\ UNCHANGED <<row, External>>

\* The search returns no money transfer key, or fails: the record is failed.
RefundNotFound(p) ==
  /\ task[p].pc = "search"
  /\ LET failed == [task[p].copy EXCEPT !.status = RecordFlow.fail.to]
     IN  Save(task[p].rec, failed)
  /\ Goto(p, Idle)
  /\ UNCHANGED External

\* The search finds the transfer and its cancellation is requested.  Whether or
\* not Western Union cancels, and whatever it answers, the record is saved
\* with the status it was read with.
RefundRequest(p) ==
  /\ task[p].pc = "search"
  /\ LET c == task[p].copy.mtcn
     IN  /\ c # NoMtcn /\ Accepted(c)
         /\ \/ UNCHANGED <<transfer, nis>>
            \/ /\ transfer[c] = "stored"
               /\ transfer' = [transfer EXCEPT ![c] = "cancelled"]
               /\ nis' = nis \cup {[type |-> "CANCEL", mtcn |-> c]}
  /\ Goto(p, [task[p] EXCEPT !.pc = "again"])
  /\ UNCHANGED <<row, owner>>

\* cancel_records selects the records TRANSFERRED_TO_FSP in one query ...
CancelRead(p, r) ==
  /\ OnDuty(p, "cancel", r)
  /\ row[r].status = "TRANSFERRED_TO_FSP"
  /\ Goto(p, [Idle EXCEPT !.pc = "cancel", !.rec = r, !.copy = row[r]])
  /\ UNCHANGED <<row, External>>

\* ... and cancels each copy; flow.cancel is allowed from any status.
CancelSave(p) ==
  /\ task[p].pc = "cancel"
  /\ Save(task[p].rec, [task[p].copy EXCEPT !.status = RecordFlow.cancel.to])
  /\ Goto(p, Idle)
  /\ UNCHANGED External

\* A PUT or PATCH of a record, for which status is read-only, or a save of its page
\* in the admin, whose form posts status and codes back as the page showed them:
\* the row as it was read is written back.  That a user retypes them is left out.
EditRead(p, r) ==
  /\ OnDuty(p, "edit", r)
  /\ Goto(p, [Idle EXCEPT !.pc = "again", !.rec = r, !.copy = row[r]])
  /\ UNCHANGED <<row, External>>

-----------------------------------------------------------------------------
(* Western Union, as docs/src/wu/statuses.md describes it.                 *)

\* From, to and the notification sent.
WuMoves ==
  {<<"stored", "stored", "TRANSFER_TO_FSP">>, <<"stored", "stored", "OTHER">>,
   <<"stored", "paid", "SUCCESS">>,           <<"paid", "stored", "UNPAY">>,
   <<"stored", "cancelled", "CANCEL">>,       <<"paid", "cancelled", "CANCEL">>,
   <<"stored", "refunded", "REFUND">>,        <<"stored", "purged", "PURGE">>}

WuStep(c) ==
  /\ Cardinality(nis) < MaxNotices
  /\ \E m \in WuMoves :
       /\ transfer[c] = m[1]
       /\ transfer' = [transfer EXCEPT ![c] = m[2]]
       /\ nis' = nis \cup {[type |-> m[3], mtcn |-> c]}
  /\ UNCHANGED <<row, task, owner>>

-----------------------------------------------------------------------------
\* The steps of a sender that has begun.
SendStep(p) ==
  \/ SendPayloadError(p) \/ (\E c \in Mtcns : SendValidated(p, c)) \/ SendInvalid(p)
  \/ SendFailRejected(p) \/ SendSaveCodes(p) \/ SendSaveQuote(p) \/ SendStore(p)
  \/ SendRefresh(p) \/ SendCommit(p) \/ SendCommitFailure(p) \/ SaveAgain(p)

HookStep(p) == HookApply(p) \/ SaveAgain(p)

OperatorStep(p) ==
  \/ PollAsk(p) \/ PollUpdate(p) \/ RefundNotFound(p) \/ RefundRequest(p)
  \/ CancelSave(p) \/ SaveAgain(p)

OperatorBegin(p, r) == PollRead(p, r) \/ RefundRead(p, r) \/ CancelRead(p, r) \/ EditRead(p, r)

Next ==
  \/ \E p \in Senders : (\E r \in Records : SendBegin(p, r)) \/ SendStep(p) \/ Crash(p)
  \/ \E p \in Hooks : (\E n \in nis, r \in Records : HookRead(p, n, r)) \/ HookStep(p)
  \/ \E p \in Operators : (\E r \in Records : OperatorBegin(p, r)) \/ OperatorStep(p)
  \/ \E c \in Mtcns : WuStep(c)

Spec == Init /\ [][Next]_vars

\* A worker that took up a record goes on with it.
FairSpec == Spec /\ \A p \in Senders : WF_vars(SendStep(p))

-----------------------------------------------------------------------------
TypeOK ==
  /\ row \in [Records -> Row]
  /\ task \in [Procs -> Task]
  /\ owner \in [Mtcns -> Records \cup {NoRecord}]
  /\ transfer \in [Mtcns -> TransferStates]
  /\ nis \subseteq Notification

(* In every deployment: whatever the interleaving, the crashes and the      *)
(* stale rows that are written back.                                        *)

\* Western Union has told, at some time, that the transfer was paid.
PaidOnce(c) == [type |-> "SUCCESS", mtcn |-> c] \in nis

\* A record that claims its money went to Western Union is right: a transfer
\* issued for it was accepted, although rows are overwritten with old copies,
\* and polls assign the status past the flow.
HonestTransfer ==
  \A r \in Records :
    row[r].status \in {"TRANSFERRED_TO_FSP", "TRANSFERRED_TO_BENEFICIARY", "REFUND", "PURGED"}
      => \E c \in Mtcns : owner[c] = r /\ Accepted(c)

\* A record that claims the beneficiary was paid is right: a transfer issued
\* for it was paid, and not one issued for another record or another attempt
\* that was only quoted.
HonestPayout ==
  \A r \in Records :
    row[r].status = "TRANSFERRED_TO_BENEFICIARY"
      => \E c \in Mtcns : owner[c] = r /\ PaidOnce(c)

\* The control number a record carries, by which notifications, polls and
\* refunds find it, was issued for this very record.
OwnMtcn == \A r \in Records : row[r].mtcn # NoMtcn => owner[row[r].mtcn] = r

-----------------------------------------------------------------------------
(* In a serialised deployment: one sender at a time that is not killed, and *)
(* no operator at work on a record that is still PENDING.                   *)

Serialised ==
  /\ \A p, q \in Senders : p = q
  /\ ~MayCrash /\ ~TouchPending

\* Western Union accepts at most one transfer for a record: nobody is paid twice.
AtMostOneStore ==
  \A c, d \in Mtcns : Accepted(c) /\ Accepted(d) /\ owner[c] = owner[d] => c = d

\* The record always carries the number of the transfer Western Union accepted
\* for it, so that a notification about the money finds its record.
StoredMtcnOnRow ==
  \A c \in Mtcns : Accepted(c) => \E r \in Records : owner[c] = r /\ row[r].mtcn = c

\* The promise of the payout ledger, read off the table and Western Union.
claimBar ==
  [r \in Records |->
     CASE row[r].status = "PENDING"                       -> "unsent"
       [] row[r].status \in {"CANCELLED", "ERROR"}        -> "closed"
       [] row[r].status = "TRANSFERRED_TO_BENEFICIARY"    -> "paid"
       [] OTHER                                           -> "sent"]
AcceptedFor(r) == {c \in Mtcns : owner[c] = r /\ Accepted(c)}
factBar ==
  [r \in Records |->
     CASE \E c, d \in AcceptedFor(r) : c # d -> "twice"  \* no fact of the ledger
       [] \A c, d \in AcceptedFor(r) : c = d ->
            IF \E c \in AcceptedFor(r) : PaidOnce(c) THEN "paid"
            ELSE IF AcceptedFor(r) # {} THEN "accepted" ELSE "nothing"]
Ledger == INSTANCE PayoutLedger WITH claim <- claimBar, fact <- factBar
LedgerSpec == Ledger!Spec

\* An accepted transfer does not stay PENDING in the table, where the next
\* dispatch would send it again.
StoredIsRecorded ==
  \A c \in Mtcns, r \in Records :
    Accepted(c) /\ owner[c] = r ~> row[r].status # "PENDING"

-----------------------------------------------------------------------------
(* What the repository's change log says of it.                             *)

\* CHANGES.md:8: sending is idempotent for a record that is already
\* TRANSFERRED_TO_FSP.  No transfer is accepted for such a record.
NoStoreOnceTransferred ==
  [][\A c \in Mtcns :
       ~Accepted(c) /\ Accepted(c)' => row[owner[c]].status # "TRANSFERRED_TO_FSP"]_vars
=============================================================================
