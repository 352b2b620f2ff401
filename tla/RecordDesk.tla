------------------------------ MODULE RecordDesk ------------------------------
(***************************************************************************)
(* The operations offered on any payment record, whatever its provider:    *)
(* the cancel of the REST API, the buttons and the mass actions of the     *)
(* admin, and the jobs the actions queue.  Each names some records and     *)
(* changes others, according to how it looks them up.  What goes on inside *)
(* a call to Western Union or MoneyGram is in their own modules: here each *)
(* call is one step.  PalPay's records are those of module PalPay.         *)
(***************************************************************************)
EXTENDS PalPay, FiniteSets, Sequences

CONSTANTS
  WuRecords, MgRecords,  \* payment records of the two other providers
  Codes,                 \* fsp_codes the providers give out, all different
  NoCode,                \* an fsp_code that is NULL
  RestNamed,             \* records that HOPE cancels through the REST API
  MaxJobs                \* bound on the jobs the admin queues

ASSUME DeskConstantsAssumption ==
  /\ WuRecords \cap MgRecords = {} /\ PalRecords \cap (WuRecords \cup MgRecords) = {}
  /\ NoCode \notin Codes
  /\ RestNamed \subseteq PalRecords \cup WuRecords \cup MgRecords
  /\ MaxJobs \in Nat

VARIABLES
  row,    \* the database: status and fsp_code of the other providers' records
  queue,  \* jobs queued, in order, each with the ids computed when it was
  job,    \* the job that runs: what it selected, has tried and has changed
  count,  \* how many jobs have been queued
  call    \* the REST cancel that is served, with the code of the record it names

deskVars == <<row, queue, job, count, call>>
vars == <<palVars, deskVars>>

Others == WuRecords \cup MgRecords
AllRecords == PalRecords \cup Others
Code(r) == IF r \in PalRecords THEN NoCode ELSE row[r].code
DeskRow == [status : RecordStates, code : Codes \cup {NoCode}]

NoCall == [rec |-> NoRecord, code |-> NoCode]
Call == [rec : AllRecords \cup {NoRecord}, code : Codes \cup {NoCode}]

JobKinds == {"none", "wuPoll", "mgPoll", "cancel"}
\* A job selects copies of rows in one query and goes through them.
NoJob == [kind |-> "none", ids |-> {}, selected |-> {}, tried |-> {}]
Copy == [rec : Others, code : Codes \cup {NoCode}]
Job == [kind : JobKinds, ids : SUBSET Others, selected : SUBSET Copy, tried : SUBSET Copy]

Init ==
  /\ PalInit
  /\ row = [r \in Others |-> [status |-> "PENDING", code |-> NoCode]]
  /\ queue = <<>>
  /\ job = NoJob
  /\ count = 0
  /\ call = NoCall

SetRow(r, status) == row' = [row EXCEPT ![r].status = status]

-----------------------------------------------------------------------------
\* The other providers' clients: a record that is sent gets a code, is sent or
\* failed, or stays PENDING with or without one.
Send(r) ==
  /\ row[r].status = "PENDING"
  /\ \E c \in Codes \cup {NoCode}, s \in {"PENDING", "TRANSFERRED_TO_FSP", "ERROR"} :
       /\ \A q \in Others : c # NoCode => row[q].code # c
       /\ s = "TRANSFERRED_TO_FSP" => c # NoCode
       /\ row' = [row EXCEPT ![r] = [status |-> s, code |-> c]]
  /\ UNCHANGED <<palVars, queue, job, count, call>>

\* What a provider reports moves a record on; TRANSFERRED_TO_BENEFICIARY stands
\* for REFUND and PURGED, too: neither waiting at the provider nor cancelled.
Reported == {"TRANSFERRED_TO_BENEFICIARY", "ERROR"}

Notified(r) ==
  /\ row[r].status = "TRANSFERRED_TO_FSP"
  /\ \E s \in Reported : SetRow(r, s)
  /\ UNCHANGED <<palVars, queue, job, count, call>>

\* The Western Union records an fsp_code finds; objects.get wants exactly one.
WuFound(c) == {r \in WuRecords : row[r].code = c}
WuGet(c) == Cardinality(WuFound(c)) = 1

\* WesternUnionClient.refund: the search for the transfer fails, and the record
\* found is failed, or its cancellation is requested and the record kept.
WuRefund(c) ==
  \E r \in WuFound(c) : SetRow(r, RecordFlow.fail.to) \/ (c # NoCode /\ UNCHANGED row)

\* PaymentRecordViewSet.cancel reads the record the URL names ...
RestCancelBegin(r) ==
  /\ call = NoCall
  /\ call' = [rec |-> r, code |-> Code(r)]
  /\ UNCHANGED <<palVars, row, queue, job, count>>

\* ... and asks Western Union about its code, whichever provider it belongs to;
\* a code that finds no record, or several, raises.
RestCancelEnd ==
  /\ call # NoCall
  /\ IF WuGet(call.code) THEN WuRefund(call.code) ELSE UNCHANGED row
  /\ call' = NoCall
  /\ UNCHANGED <<palVars, queue, job, count>>

\* The Cancel button is offered for a Western Union record that has a number.
WuCancel(r) ==
  /\ r \in WuRecords /\ row[r].code # NoCode
  /\ WuGet(row[r].code) /\ WuRefund(row[r].code)
  /\ UNCHANGED <<palVars, queue, job, count, call>>

-----------------------------------------------------------------------------
(* The mass actions of the record list, and the jobs they queue.           *)

Queue(kind, ids) ==
  /\ count < MaxJobs
  /\ queue' = Append(queue, [NoJob EXCEPT !.kind = kind, !.ids = ids])
  /\ count' = count + 1
  /\ UNCHANGED <<palVars, row, job, call>>

\* western_union_update_status_action keeps the records with a number.
UpdateStatusAction(chosen) ==
  Queue("wuPoll", {r \in chosen \cap WuRecords : row[r].code # NoCode})

\* moneygram_update_status and moneygram_refund hand on MoneyGram's records;
\* they run at once, here as a job.  The refunds that would follow raise: refund
\* is called with two arguments, so that only the payload of one record is saved.
MoneygramAction(chosen) == Queue("mgPoll", chosen \cap MgRecords)

\* cancel_payment_records keeps the records TRANSFERRED_TO_FSP.
CancelAction(chosen) ==
  Queue("cancel", {r \in chosen \cap Others : row[r].status = "TRANSFERRED_TO_FSP"})

\* Mutant: the selection of the polls, for which an empty list means all.
SelectedEmptyIsAll(j) ==
  CASE j.kind = "wuPoll" -> IF j.ids = {} THEN WuRecords ELSE j.ids \cap WuRecords
    [] j.kind = "mgPoll" ->
         {r \in MgRecords : row[r].status = "TRANSFERRED_TO_FSP" /\ (j.ids = {} \/ r \in j.ids)}
    [] OTHER -> {r \in Others : row[r].status = "TRANSFERRED_TO_FSP" /\ (j.ids = {} \/ r \in j.ids)}

\* What a job selects when it starts.  An empty list of ids means every record to
\* the two polls (`if ids:`), and none to cancel_records (`ids or []`).
Selected(j) ==
  CASE j.kind = "wuPoll" -> IF j.ids = {} THEN WuRecords ELSE j.ids \cap WuRecords
    [] j.kind = "mgPoll" ->
         {r \in MgRecords : row[r].status = "TRANSFERRED_TO_FSP" /\ (j.ids = {} \/ r \in j.ids)}
    [] OTHER -> {r \in j.ids : row[r].status = "TRANSFERRED_TO_FSP"}

JobStart ==
  /\ job = NoJob /\ queue # <<>>
  /\ job' = [Head(queue) EXCEPT
               !.selected = {[rec |-> r, code |-> row[r].code] : r \in Selected(Head(queue))}]
  /\ queue' = Tail(queue)
  /\ UNCHANGED <<palVars, row, count, call>>

ToTry == job.selected \ job.tried
Try(kind, x) ==
  /\ job.kind = kind /\ x \in ToTry
  /\ job' = [job EXCEPT !.tried = @ \cup {x}]
  /\ UNCHANGED <<palVars, queue, count, call>>
Abort(kind, x) ==
  /\ job.kind = kind /\ x \in ToTry
  /\ job' = NoJob
  /\ UNCHANGED <<palVars, row, queue, count, call>>

\* western_union_update_status asks about the code of each copy; the status
\* Western Union reports is assigned to the one record with that code.
WuPollStep(x) ==
  /\ Try("wuPoll", x)
  /\ WuGet(x.code)
  /\ \E r \in WuFound(x.code) :
       \E s \in {"TRANSFERRED_TO_BENEFICIARY", "TRANSFERRED_TO_FSP", "CANCELLED", row[r].status} :
         (x.code = NoCode => s = row[r].status) /\ SetRow(r, s)

\* A code that is gone, or none shared by several records, makes objects.get
\* raise, which nothing catches.
WuPollRaises(x) == ~WuGet(x.code) /\ Abort("wuPoll", x)

\* Mutant: a failure ends the loop.
MgPollStepUncaught(x) ==
  \/ Try("mgPoll", x) /\ \E s \in Reported \cup {row[x.rec].status} : SetRow(x.rec, s)
  \/ Abort("mgPoll", x)

\* moneygram_update: the status is noted; every exception is logged and the loop
\* goes on.
MgPollStep(x) ==
  Try("mgPoll", x) /\ \E s \in Reported \cup {row[x.rec].status} : SetRow(x.rec, s)

\* Mutant: a status the record does not have is saved.
CancelStepMisspelt(x) ==
  /\ Try("cancel", x)
  /\ row' = [row EXCEPT ![x.rec] = [status |-> "CANCELED", code |-> x.code]]

\* cancel_records saves each copy, cancelled.
CancelStep(x) ==
  /\ Try("cancel", x)
  /\ row' = [row EXCEPT ![x.rec] = [status |-> RecordFlow.cancel.to, code |-> x.code]]

JobEnd ==
  /\ job # NoJob /\ ToTry = {}
  /\ job' = NoJob
  /\ UNCHANGED <<palVars, row, queue, count, call>>

-----------------------------------------------------------------------------
DeskNext ==
  \/ \E r \in Others : Send(r) \/ Notified(r)
  \/ (\E r \in RestNamed : RestCancelBegin(r)) \/ RestCancelEnd
  \/ \E r \in Others : WuCancel(r)
  \/ \E chosen \in SUBSET AllRecords :
       UpdateStatusAction(chosen) \/ MoneygramAction(chosen) \/ CancelAction(chosen)
  \/ JobStart \/ JobEnd
  \/ \E x \in ToTry :
       WuPollStep(x) \/ WuPollRaises(x) \/ MgPollStep(x) \/ CancelStep(x)

Next == DeskNext \/ (PalNext /\ UNCHANGED deskVars)

Spec == Init /\ [][Next]_vars

-----------------------------------------------------------------------------
TypeOK ==
  /\ PalTypeOK
  /\ row \in [Others -> DeskRow]
  /\ \A i \in DOMAIN queue : queue[i] \in Job
  /\ job \in Job
  /\ count \in 0..MaxJobs
  /\ call \in Call

\* A poll that ends has asked about every record it selected: one bad record does
\* not keep the others from being updated, except that Western Union's poll is
\* ended by a record that has no code, or another than when it was selected.
PollAsksAll ==
  [][job.kind \in {"wuPoll", "mgPoll"} /\ job' = NoJob
       => \/ job.selected = job.tried
          \/ /\ job.kind = "wuPoll"
             /\ \E x \in job.selected : x.code = NoCode \/ x.code # row[x.rec].code]_vars

\* A cancel job cancels records the user had chosen and that were
\* TRANSFERRED_TO_FSP when they were chosen; a job whose list came out empty
\* cancels none, whereas an empty list makes the polls ask about every record.
CancelOnlySelected ==
  [][\A r \in Others :
       job.kind = "cancel" /\ row[r].status # "CANCELLED" /\ row'[r].status = "CANCELLED"
         => r \in job.ids]_vars

\* The REST API answers "cancel triggered" (api/fsp/views.py:286) for the record
\* in its URL: no other record is changed by the call.
CancelsNamedRecord ==
  [][call # NoCall /\ call' = NoCall => \A q \in Others : row'[q] # row[q] => q = call.rec]_vars
=============================================================================
