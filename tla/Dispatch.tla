------------------------------ MODULE Dispatch ------------------------------
(***************************************************************************)
(* Payment plans and the pipeline that sends their records to a financial  *)
(* service provider, here Western Union: the REST endpoints of a plan, the *)
(* periodic task that queues a job for every READY plan, the Redis lock of *)
(* the provider's jobs and the workers that run them.  A job is only the   *)
(* plan it was queued for.  A call of create_transaction is two steps, its *)
(* first look at the record and its outcome; WesternUnion has the rest.    *)
(***************************************************************************)
EXTENDS PaymentFlow, Naturals, FiniteSets

CONSTANTS
  Plans, Records, NoPlan, NoRecord,
  Clients,      \* web workers that serve the REST API and the admin
  Verbs,        \* what clients do: transitions of a plan, "add", "import", "edit", "send"
  Beats,        \* runs of the periodic send task
  Workers,      \* Celery workers that run jobs
  MaxQueued,    \* bound on the jobs in the queue for one plan; more behave as this many
  MaxCrashes,   \* bound on the workers that are killed
  MaxErrors,    \* bound on the exceptions that end a task
  MaxRetries,   \* bound on the validations that fail on Western Union's side
  MayRedeliver  \* a job that runs longer than the visibility timeout is delivered again

Procs == Beats \cup Workers
Transitions == {"open", "close", "ready", "process", "finalize", "abort"}

ASSUME DispatchAssumption ==
  /\ NoPlan \notin Plans /\ NoRecord \notin Records
  /\ IsFiniteSet(Workers)
  /\ Beats \cap Workers = {} /\ Procs \cap {"free", "leaked"} = {}
  /\ Verbs \subseteq Transitions \cup {"add", "import", "edit", "send"}
  /\ MaxQueued \in Nat \ {0} /\ MaxCrashes \in Nat /\ MaxErrors \in Nat
  /\ MaxRetries \in Nat /\ MayRedeliver \in BOOLEAN

VARIABLES
  plan,     \* the status of each plan
  rec,      \* the records in the table: their plan and status
  client, beat, worker,  \* what each process is doing
  queue,    \* how many jobs are queued for each plan, those being run included
  lock,     \* the process that holds the lock, "free", or "leaked" by a process gone
  sent,     \* Western Union: the transfers it has accepted for each record
  crashes, errors, retries

vars == <<plan, rec, client, beat, worker, queue, lock, sent, crashes, errors, retries>>
faults == <<crashes, errors, retries>>

Absent == [plan |-> NoPlan, status |-> "PENDING"]
RestingClient == [pc |-> "idle", plan |-> NoPlan, copy |-> "DRAFT", rec |-> NoRecord]
RestingBeat == [pc |-> "idle", cur |-> NoPlan, todo |-> {}]
RestingWorker ==
  [pc |-> "idle", plan |-> NoPlan, todo |-> {}, cur |-> NoRecord, some |-> FALSE, bad |-> FALSE]

Init ==
  /\ plan = [pl \in Plans |-> "DRAFT"]
  /\ rec = [r \in Records |-> Absent]
  /\ client = [c \in Clients |-> RestingClient]
  /\ beat = [b \in Beats |-> RestingBeat]
  /\ worker = [w \in Workers |-> RestingWorker]
  /\ queue = [pl \in Plans |-> 0]
  /\ lock = "free"
  /\ sent = [r \in Records |-> 0]
  /\ crashes = 0 /\ errors = 0 /\ retries = 0

SetStatus(pl, s) == plan' = [plan EXCEPT ![pl] = s]

\* create_transaction on record r, from its look at the record to its outcome:
\* Western Union accepts the transfer or not, the record is read again and moved,
\* and the call returns or raises an exception of its own (TransitionNotAllowed,
\* PayloadError, InvalidCorridorError).
Accept(r) == sent' = [sent EXCEPT ![r] = @ + 1]
CallEnds(r, returned) ==
  \/ /\ Accept(r)
     /\ UNCHANGED retries
     /\ \/ /\ rec[r].status \in {"PENDING", "TRANSFERRED_TO_FSP"} /\ returned
           /\ rec' = [rec EXCEPT ![r].status = "TRANSFERRED_TO_FSP"]
        \/ /\ rec[r].status \notin {"PENDING", "TRANSFERRED_TO_FSP"} /\ ~returned
           /\ UNCHANGED rec
        \/ /\ returned  \* the answer was lost
           /\ rec' = [rec EXCEPT ![r].status = RecordFlow.fail.to]
  \/ /\ rec' = [rec EXCEPT ![r].status = "ERROR"]
     /\ UNCHANGED <<sent, retries>>
  \/ /\ returned  \* validation failed on Western Union's side: the record stays PENDING
     /\ retries < MaxRetries /\ retries' = retries + 1
     /\ UNCHANGED <<rec, sent>>

-----------------------------------------------------------------------------
(* The REST API and the admin.                                             *)

\* _change_status: the flow decides on the plan as it was read ...
ChangeRead(c, pl, t) ==
  /\ t \in Verbs \cap Transitions
  /\ client[c] = RestingClient
  /\ plan[pl] \in InstructionFlow[t].from
  /\ client' = [client EXCEPT ![c] = [@ EXCEPT !.pc = "save", !.plan = pl,
                                              !.copy = InstructionFlow[t].to]]
  /\ UNCHANGED <<plan, rec, beat, worker, queue, lock, sent, faults>>

\* ... the flow saves the plan, and _change_status saves it once more.
ChangeSave(c) ==
  /\ client[c].pc \in {"save", "again"}
  /\ SetStatus(client[c].plan, client[c].copy)
  /\ client' = [client EXCEPT ![c] = IF @.pc = "save" THEN [@ EXCEPT !.pc = "again"]
                                     ELSE RestingClient]
  /\ UNCHANGED <<rec, beat, worker, queue, lock, sent, faults>>

\* A PUT or PATCH of the plan, or a POST of one that exists already: status is
\* read-only, and the whole row read is written back.
EditRead(c, pl) ==
  /\ "edit" \in Verbs
  /\ client[c] = RestingClient
  /\ client' = [client EXCEPT ![c] = [@ EXCEPT !.pc = "again", !.plan = pl, !.copy = plan[pl]]]
  /\ UNCHANGED <<plan, rec, beat, worker, queue, lock, sent, faults>>

\* add_records looks at the status once, the CSV import of the admin and a POST of
\* a record never ("import") ...
AddRead(c, pl) ==
  /\ \/ "add" \in Verbs /\ plan[pl] = "OPEN"
     \/ "import" \in Verbs
  /\ client[c] = RestingClient
  /\ client' = [client EXCEPT ![c] = [@ EXCEPT !.pc = "add", !.plan = pl]]
  /\ UNCHANGED <<plan, rec, beat, worker, queue, lock, sent, faults>>

\* ... and each record of the request is inserted on its own, until the last.
AddSave(c, r) ==
  /\ client[c].pc = "add"
  /\ rec[r] = Absent
  /\ rec' = [rec EXCEPT ![r].plan = client[c].plan]
  /\ UNCHANGED <<plan, client, beat, worker, queue, lock, sent, faults>>

AddEnd(c) ==
  /\ client[c].pc = "add"
  /\ client' = [client EXCEPT ![c] = RestingClient]
  /\ UNCHANGED <<plan, rec, beat, worker, queue, lock, sent, faults>>

\* The Send Money button of the admin: create_transaction, without the lock.
SendRead(c, r) ==
  /\ "send" \in Verbs
  /\ client[c] = RestingClient
  /\ rec[r] # Absent /\ rec[r].status = "PENDING"
  /\ client' = [client EXCEPT ![c] = [@ EXCEPT !.pc = "call", !.rec = r]]
  /\ UNCHANGED <<plan, rec, beat, worker, queue, lock, sent, faults>>

SendEnd(c) ==
  /\ client[c].pc = "call"
  /\ \E returned \in BOOLEAN : CallEnds(client[c].rec, returned)
  /\ client' = [client EXCEPT ![c] = RestingClient]
  /\ UNCHANGED <<plan, beat, worker, queue, lock, crashes, errors>>

-----------------------------------------------------------------------------
(* send_to_fsp: one run of the periodic task.                              *)

\* Mutant: plans are taken whatever their status.
BeatStartAny(b) ==
  /\ beat[b] = RestingBeat
  /\ beat' = [beat EXCEPT ![b] = [@ EXCEPT !.pc = "lock", !.todo = Plans]]
  /\ UNCHANGED <<plan, rec, client, worker, queue, lock, sent, faults>>

\* The READY plans, in one query.
BeatStart(b) ==
  /\ beat[b] = RestingBeat
  /\ \E pl \in Plans : plan[pl] = "READY"
  /\ beat' = [beat EXCEPT ![b] = [@ EXCEPT !.pc = "lock",
                                          !.todo = {pl \in Plans : plan[pl] = "READY"}]]
  /\ UNCHANGED <<plan, rec, client, worker, queue, lock, sent, faults>>

\* A job is created for a plan, and the lock is taken to queue it ...
BeatLock(b, pl) ==
  /\ beat[b].pc = "lock" /\ pl \in beat[b].todo
  /\ lock = "free"
  /\ lock' = b
  /\ beat' = [beat EXCEPT ![b] = [@ EXCEPT !.pc = "queue", !.cur = pl]]
  /\ UNCHANGED <<plan, rec, client, worker, queue, sent, faults>>

\* ... which releases it.
BeatQueue(b) ==
  /\ beat[b].pc = "queue"
  /\ LET pl   == beat[b].cur
         rest == beat[b].todo \ {pl}
     IN  /\ queue' = [queue EXCEPT ![pl] = IF @ < MaxQueued THEN @ + 1 ELSE @]
         /\ beat' = [beat EXCEPT ![b] = IF rest = {} THEN RestingBeat
                                        ELSE [pc |-> "lock", cur |-> NoPlan, todo |-> rest]]
  /\ lock' = "free"
  /\ UNCHANGED <<plan, rec, client, worker, sent, faults>>

\* Queueing raises: lock_job has no finally, and the lock is left behind.
BeatRaise(b) ==
  /\ beat[b].pc = "queue"
  /\ errors < MaxErrors /\ errors' = errors + 1
  /\ lock' = "leaked"
  /\ beat' = [beat EXCEPT ![b] = RestingBeat]
  /\ UNCHANGED <<plan, rec, client, worker, queue, sent, crashes, retries>>

\* Mutant: the lock is taken without a lifetime.
LockExpireNever ==
  /\ lock = "leaked"
  /\ UNCHANGED vars

\* The lock has a lifetime of 60 seconds and is renewed while its holder lives.
LockExpire ==
  /\ lock = "leaked"
  /\ lock' = "free"
  /\ UNCHANGED <<plan, rec, client, beat, worker, queue, sent, faults>>

-----------------------------------------------------------------------------
(* sync_job_task and notify_records_to_fsp: a job.                         *)

Running(pl) == {w \in Workers : worker[w].pc # "idle" /\ worker[w].plan = pl}
Acked(pl) == queue' = [queue EXCEPT ![pl] = IF @ > 0 THEN @ - 1 ELSE 0]

\* Tasks are acknowledged late: a job stays in the queue while it runs, and is
\* delivered again when its worker is gone or the visibility timeout has passed.
Deliver(w, pl) ==
  /\ worker[w] = RestingWorker
  /\ queue[pl] > Cardinality(Running(pl)) \/ (MayRedeliver /\ queue[pl] > 0)
  /\ worker' = [worker EXCEPT ![w] = [@ EXCEPT !.pc = "lock", !.plan = pl]]
  /\ UNCHANGED <<plan, rec, client, beat, queue, lock, sent, faults>>

\* Mutant: jobs of one provider run side by side.
WorkerUnlocked(w) ==
  /\ worker[w].pc = "lock"
  /\ lock' = w
  /\ worker' = [worker EXCEPT ![w].pc = "select"]
  /\ UNCHANGED <<plan, rec, client, beat, queue, sent, faults>>

WorkerLock(w) ==
  /\ worker[w].pc = "lock"
  /\ lock = "free"
  /\ lock' = w
  /\ worker' = [worker EXCEPT ![w].pc = "select"]
  /\ UNCHANGED <<plan, rec, client, beat, queue, sent, faults>>

\* The PENDING records of the plan, in one query; the plan's status is not read.
Select(w) ==
  /\ worker[w].pc = "select"
  /\ LET pending == {r \in Records : rec[r].plan = worker[w].plan /\ rec[r].status = "PENDING"}
     IN  worker' = [worker EXCEPT ![w] = [@ EXCEPT !.pc = "loop", !.todo = pending,
                                                   !.some = pending # {}]]
  /\ UNCHANGED <<plan, rec, client, beat, queue, lock, sent, faults>>

\* The look at the next record: it is still PENDING, already TRANSFERRED_TO_FSP,
\* which counts as a success, or TransitionNotAllowed is raised and caught.
CallBegin(w, r) ==
  /\ worker[w].pc = "loop" /\ r \in worker[w].todo
  /\ LET next == [worker[w] EXCEPT !.todo = @ \ {r}]
     IN  \/ /\ rec[r].status = "PENDING"
            /\ worker' = [worker EXCEPT ![w] = [next EXCEPT !.pc = "call", !.cur = r]]
         \/ /\ rec[r].status = "TRANSFERRED_TO_FSP"
            /\ worker' = [worker EXCEPT ![w] = next]
         \/ /\ rec[r].status \notin {"PENDING", "TRANSFERRED_TO_FSP"}
            /\ worker' = [worker EXCEPT ![w] = [next EXCEPT !.bad = TRUE]]
  /\ UNCHANGED <<plan, rec, client, beat, queue, lock, sent, faults>>

\* The outcome of the call: an exception of its own is caught and the loop goes on.
CallEnd(w) ==
  /\ worker[w].pc = "call"
  /\ \E returned \in BOOLEAN :
       /\ CallEnds(worker[w].cur, returned)
       /\ worker' = [worker EXCEPT ![w] = [@ EXCEPT !.pc = "loop", !.cur = NoRecord,
                                                   !.bad = worker[w].bad \/ ~returned]]
  /\ UNCHANGED <<plan, client, beat, queue, lock, crashes, errors>>

\* Mutant: the plan is marked in a finally clause.
CallRaiseMarked(w) ==
  /\ worker[w].pc = "call"
  /\ errors < MaxErrors /\ errors' = errors + 1
  /\ SetStatus(worker[w].plan, "PROCESSED")
  /\ lock' = "leaked"
  /\ Acked(worker[w].plan)
  /\ worker' = [worker EXCEPT ![w] = RestingWorker]
  /\ UNCHANGED <<rec, client, beat, sent, crashes, retries>>

\* Any other exception, before the store, ends the job: the lock is left behind.
CallRaise(w) ==
  /\ worker[w].pc = "call"
  /\ errors < MaxErrors /\ errors' = errors + 1
  /\ lock' = "leaked"
  /\ Acked(worker[w].plan)
  /\ worker' = [worker EXCEPT ![w] = RestingWorker]
  /\ UNCHANGED <<plan, rec, client, beat, sent, crashes, retries>>

\* Mutant: a status a plan does not have is written.
NotifyEndMisspelt(w) ==
  /\ worker[w].pc = "loop" /\ worker[w].todo = {}
  /\ worker[w].some /\ ~worker[w].bad
  /\ SetStatus(worker[w].plan, "DONE")
  /\ worker' = [worker EXCEPT ![w].pc = "release"]
  /\ UNCHANGED <<rec, client, beat, queue, lock, sent, faults>>

\* After the last record: PROCESSED is written, past the flow, over whatever
\* status the plan has by now, if there was a record and every call succeeded.
NotifyEnd(w) ==
  /\ worker[w].pc = "loop" /\ worker[w].todo = {}
  /\ \/ worker[w].some /\ ~worker[w].bad /\ SetStatus(worker[w].plan, "PROCESSED")
     \/ (worker[w].bad \/ ~worker[w].some) /\ UNCHANGED plan
  /\ worker' = [worker EXCEPT ![w].pc = "release"]
  /\ UNCHANGED <<rec, client, beat, queue, lock, sent, faults>>

Release(w) ==
  /\ worker[w].pc = "release"
  /\ lock' = "free"
  /\ Acked(worker[w].plan)
  /\ worker' = [worker EXCEPT ![w] = RestingWorker]
  /\ UNCHANGED <<plan, rec, client, beat, sent, faults>>

\* The worker is killed; in a call, Western Union may have accepted the transfer.
\* Nobody renews the lock it held any more.
Crash(w) ==
  /\ worker[w].pc # "idle"
  /\ crashes < MaxCrashes /\ crashes' = crashes + 1
  /\ \/ UNCHANGED sent
     \/ worker[w].pc = "call" /\ Accept(worker[w].cur)
  /\ lock' = IF lock = w THEN "leaked" ELSE lock
  /\ worker' = [worker EXCEPT ![w] = RestingWorker]
  /\ UNCHANGED <<plan, rec, client, beat, queue, errors, retries>>

-----------------------------------------------------------------------------
ClientStep(c) ==
  \/ \E pl \in Plans : AddRead(c, pl) \/ EditRead(c, pl)
  \/ \E pl \in Plans, t \in Transitions : ChangeRead(c, pl, t)
  \/ \E r \in Records : AddSave(c, r) \/ SendRead(c, r)
  \/ ChangeSave(c) \/ AddEnd(c) \/ SendEnd(c)

BeatStep(b) == BeatStart(b) \/ (\E pl \in Plans : BeatLock(b, pl)) \/ BeatQueue(b)

\* A job goes on once it holds the lock.
JobStep(w) ==
  \/ Select(w) \/ (\E r \in Records : CallBegin(w, r)) \/ CallEnd(w)
  \/ NotifyEnd(w) \/ Release(w)

Next ==
  \/ \E c \in Clients : ClientStep(c)
  \/ \E b \in Beats : BeatStep(b) \/ BeatRaise(b)
  \/ \E w \in Workers : \/ (\E pl \in Plans : Deliver(w, pl)) \/ WorkerLock(w)
                        \/ JobStep(w) \/ CallRaise(w) \/ Crash(w)
  \/ LockExpire

Spec == Init /\ [][Next]_vars

\* The periodic task keeps running, a job keeps running once it is delivered and
\* holds the lock, and a lock left behind expires.  Redis wakes the processes
\* that wait for a lock, and a queue hands out its jobs, in turn: a process that
\* could take one again and again does so in the end.
FairSpec ==
  /\ Spec
  /\ \A b \in Beats : /\ WF_vars(BeatStart(b)) /\ WF_vars(BeatQueue(b))
                      /\ \A pl \in Plans : SF_vars(BeatLock(b, pl))
  /\ \A pl \in Plans : SF_vars(\E w \in Workers : Deliver(w, pl))
  /\ \A w \in Workers : SF_vars(WorkerLock(w)) /\ WF_vars(JobStep(w))
  /\ WF_vars(LockExpire)

-----------------------------------------------------------------------------
Record == [plan : Plans \cup {NoPlan}, status : RecordStates]
Client == [pc : {"idle", "save", "again", "add", "call"}, plan : Plans \cup {NoPlan},
           copy : InstructionStates, rec : Records \cup {NoRecord}]
Beat == [pc : {"idle", "lock", "queue"}, cur : Plans \cup {NoPlan}, todo : SUBSET Plans]
Worker == [pc : {"idle", "lock", "select", "loop", "call", "release"},
           plan : Plans \cup {NoPlan}, todo : SUBSET Records,
           cur : Records \cup {NoRecord}, some : BOOLEAN, bad : BOOLEAN]

TypeOK ==
  /\ plan \in [Plans -> InstructionStates]
  /\ rec \in [Records -> Record]
  /\ client \in [Clients -> Client]
  /\ beat \in [Beats -> Beat]
  /\ worker \in [Workers -> Worker]
  /\ queue \in [Plans -> 0 .. MaxQueued]
  /\ lock \in Procs \cup {"free", "leaked"}
  /\ sent \in [Records -> Nat]
  /\ crashes \in 0 .. MaxCrashes /\ errors \in 0 .. MaxErrors /\ retries \in 0 .. MaxRetries

\* However many jobs are queued for a plan, delivered twice or cut short by an
\* exception, the lock sees to it that a record is sent once, and once more at
\* most for every worker that is killed (without the Send Money button).
SentOncePerCrash == \A r \in Records : sent[r] <= 1 + crashes

\* No money is sent for a plan that has not been released: a plan with a record
\* that was sent has been READY (one client, without the Send Money button).
SentOnlyReleased ==
  \A r \in Records :
    sent[r] > 0 => plan[rec[r].plan] \in {"READY", "PROCESSED", "FINALIZED", "ABORTED"}

\* No payment is forgotten in a plan that counts as done: when a plan is PROCESSED
\* its records have been tried, and the few that are still PENDING are those whose
\* validation failed on Western Union's side (one client; the dispatcher alone marks
\* plans, and records are added to OPEN plans).
Forgotten == {r \in Records : /\ rec[r].plan # NoPlan /\ plan[rec[r].plan] = "PROCESSED"
                              /\ rec[r].status = "PENDING"}
AllTried == Cardinality(Forgotten) <= retries

\* Every PENDING record of a READY plan is tried in the end, unless the plan
\* leaves READY: leaked locks, killed workers and jobs cut short only delay it.
ReadyIsTried ==
  \A r \in Records, pl \in Plans :
    rec[r].plan = pl /\ rec[r].status = "PENDING" /\ plan[pl] = "READY"
      ~> rec[r].status # "PENDING" \/ plan[pl] # "READY"
=============================================================================
