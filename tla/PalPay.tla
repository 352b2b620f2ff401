-------------------------------- MODULE PalPay --------------------------------
(***************************************************************************)
(* Payment records sent through PalPay: PalPayClient.create_transaction,   *)
(* called by the job and by the Create Transaction button.  The client     *)
(* looks for the outcome in the attribute `data` of the answer, which the  *)
(* Response of the requests library does not have: whatever PalPay says,   *)
(* the record is failed, post_transaction is never reached and no code is  *)
(* stored, so that the webhook, which looks records up by fsp_code, finds  *)
(* none and changes nothing.                                               *)
(***************************************************************************)
EXTENDS PaymentFlow, Naturals

CONSTANTS
  PalRecords,   \* payment records of plans paid through PalPay
  NoRecord,
  PalSenders,   \* processes that run create_transaction: jobs, buttons
  MaxTransfers  \* bound on the transfers PalPay accepts

ASSUME PalConstantsAssumption ==
  /\ NoRecord \notin PalRecords
  /\ MaxTransfers \in Nat

VARIABLES
  pal,     \* the database: the status of every PalPay record
  task,    \* what each sender is doing, and whether PalPay accepted its transfer
  paid,    \* PalPay: how many transfers it has accepted for each record
  lost     \* how many of them ended in an exception or a kill of the sender

palVars == <<pal, task, paid, lost>>

PalIdle == [pc |-> "idle", rec |-> NoRecord, accepted |-> FALSE]
PalPCs == {"idle", "transfer", "answer", "close"}
PalTask == [pc : PalPCs, rec : PalRecords \cup {NoRecord}, accepted : BOOLEAN]

PalInit ==
  /\ pal = [r \in PalRecords |-> "PENDING"]
  /\ task = [p \in PalSenders |-> PalIdle]
  /\ paid = [r \in PalRecords |-> 0]
  /\ lost = [r \in PalRecords |-> 0]

PalGoto(p, t) == task' = [task EXCEPT ![p] = t]

-----------------------------------------------------------------------------
\* Mutant: the status of the record is not looked at.
PalReadUnchecked(p, r) ==
  /\ task[p] = PalIdle
  /\ PalGoto(p, [PalIdle EXCEPT !.pc = "transfer", !.rec = r])
  /\ UNCHANGED <<pal, paid, lost>>

\* A record in any other status is refused with TransitionNotAllowed.
PalRead(p, r) ==
  /\ task[p] = PalIdle
  /\ pal[r] = "PENDING"
  /\ PalGoto(p, [PalIdle EXCEPT !.pc = "transfer", !.rec = r])
  /\ UNCHANGED <<pal, paid, lost>>

\* prepare_transaction finds a key, a number or a value of the payload missing;
\* no or several configurations of the plan's office raise (PalRaise).
PalPayloadError(p) ==
  /\ task[p].pc = "transfer"
  /\ PalGoto(p, [task[p] EXCEPT !.pc = "close"])
  /\ UNCHANGED <<pal, paid, lost>>

\* perform_request: PalPay accepts the transfer or not, and answers.
PalTransfer(p) ==
  /\ task[p].pc = "transfer"
  /\ \/ /\ paid[task[p].rec] < MaxTransfers
        /\ paid' = [paid EXCEPT ![task[p].rec] = @ + 1]
        /\ PalGoto(p, [task[p] EXCEPT !.pc = "answer", !.accepted = TRUE])
     \/ /\ PalGoto(p, [task[p] EXCEPT !.pc = "answer"])
        /\ UNCHANGED paid
  /\ UNCHANGED <<pal, lost>>

\* hasattr(response, "data") is false: flow.fail() saves ERROR.
PalAnswer(p) ==
  /\ task[p].pc = "answer"
  /\ pal' = [pal EXCEPT ![task[p].rec] = RecordFlow.fail.to]
  /\ PalGoto(p, [task[p] EXCEPT !.pc = "close"])
  /\ UNCHANGED <<paid, lost>>

\* Mutant: the record is left as it is, to be sent again.
PalCloseRetried(p) ==
  /\ task[p].pc = "close"
  /\ pal' = [pal EXCEPT ![task[p].rec] = "PENDING"]
  /\ PalGoto(p, PalIdle)
  /\ UNCHANGED <<paid, lost>>

\* With a code of 400 the record is failed, whatever its status, and the same
\* copy is saved twice.
PalClose(p) ==
  /\ task[p].pc = "close"
  /\ pal' = [pal EXCEPT ![task[p].rec] = RecordFlow.fail.to]
  /\ PalGoto(p, PalIdle)
  /\ UNCHANGED <<paid, lost>>

\* Anything the client does not catch: a RequestException of the call, before or
\* after PalPay accepted, a configuration that is missing, a kill.
PalRaise(p) ==
  /\ task[p] # PalIdle
  /\ lost' = IF task[p].accepted THEN [lost EXCEPT ![task[p].rec] = @ + 1] ELSE lost
  /\ PalGoto(p, PalIdle)
  /\ UNCHANGED <<pal, paid>>

PalStep(p) == PalPayloadError(p) \/ PalTransfer(p) \/ PalAnswer(p) \/ PalClose(p)

PalNext ==
  \E p \in PalSenders : (\E r \in PalRecords : PalRead(p, r)) \/ PalStep(p) \/ PalRaise(p)

-----------------------------------------------------------------------------
PalTypeOK ==
  /\ pal \in [PalRecords -> RecordStates]
  /\ task \in [PalSenders -> PalTask]
  /\ paid \in [PalRecords -> 0..MaxTransfers]
  /\ lost \in [PalRecords -> 0..MaxTransfers]

\* PalPay pays a record more than once only if an earlier attempt ended in an
\* exception or a kill after PalPay had accepted it: with one sender at a time,
\* a refused or misread answer never sends a record twice.
PaidOncePerLoss == \A r \in PalRecords : paid[r] <= 1 + lost[r]

\* A transfer PalPay accepted, unless its attempt was lost, does not leave the
\* record PENDING, where the next dispatch would send it again.
AcceptedIsClosed ==
  \A r \in PalRecords :
    paid[r] > lost[r] /\ (\A p \in PalSenders : task[p].rec # r) => pal[r] # "PENDING"

\* docs/src/process.md:54: "If transaction is successful the payment record
\* status is set to Sent to FSP".  An attempt that runs to its end with a
\* transfer PalPay accepted leaves the record TRANSFERRED_TO_FSP.
AcceptedIsSent ==
  [][\A p \in PalSenders :
       task[p].pc = "close" /\ task[p].accepted /\ task'[p] = PalIdle
         => pal'[task[p].rec] = "TRANSFERRED_TO_FSP"]_palVars
=============================================================================
