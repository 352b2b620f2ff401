---------------------------- MODULE RecordDeskInv ----------------------------
(***************************************************************************)
(* The inductive invariants behind the safety properties of PalPay and     *)
(* RecordDesk.                                                             *)
(***************************************************************************)
EXTENDS RecordDesk

PalTaskOK(p) ==
  /\ task[p].pc = "idle" <=> task[p] = PalIdle
  /\ task[p].pc # "idle" => task[p].rec \in PalRecords
  /\ task[p].pc = "transfer" => ~task[p].accepted

\* The senders whose transfer for a record PalPay has accepted.
Held(p, r) == task[p].rec = r /\ task[p].accepted
Holding(r) == {p \in PalSenders : Held(p, r)}

\* Every transfer was lost, is in the hands of a sender, or has closed its record.
PalCounts(r) ==
  /\ IsFiniteSet(Holding(r))
  /\ lost[r] + Cardinality(Holding(r)) <= paid[r]
  /\ pal[r] = "PENDING" => paid[r] = lost[r] + Cardinality(Holding(r))

PalTypes ==
  /\ pal \in [PalRecords -> RecordStates]
  /\ task \in [PalSenders -> PalTask]
  /\ paid \in [PalRecords -> 0..MaxTransfers]
  /\ lost \in [PalRecords -> Nat]

PalInv ==
  /\ PalTypes
  /\ \A p \in PalSenders : PalTaskOK(p)
  /\ \A r \in PalRecords : PalCounts(r)

\* With one sender, what it is about to send has not been paid but for what was lost.
PalOnce ==
  \A r \in PalRecords :
    /\ paid[r] <= 1 + lost[r]
    /\ \A p \in PalSenders : task[p].pc = "transfer" /\ task[p].rec = r => paid[r] <= lost[r]

-----------------------------------------------------------------------------
\* A job that waits has not tried anything.
Queued == {j \in Job : j.tried = {}}

DeskTypes ==
  /\ row \in [Others -> DeskRow]
  /\ queue \in Seq(Queued)
  /\ job \in Job
  /\ count \in 0..MaxJobs
  /\ call \in Call

\* No two records have the same code.
CodesOwn == \A q, r \in Others : row[q].code = row[r].code /\ row[q].code # NoCode => q = r

\* The copies of a cancel job are of records that were named, have left PENDING for
\* good and therefore keep their code; those of Western Union's poll are of its records.
JobOK ==
  /\ job.tried \subseteq job.selected
  /\ job.kind = "wuPoll" => \A x \in job.selected : x.rec \in WuRecords
  /\ job.kind = "cancel" =>
       \A x \in job.selected :
         x.rec \in job.ids /\ row[x.rec].status # "PENDING" /\ row[x.rec].code = x.code

DeskInv == DeskTypes /\ CodesOwn /\ JobOK
=============================================================================
