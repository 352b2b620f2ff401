--------------------------- MODULE DispatchProofs ---------------------------
(* Theorems about Dispatch, for any plans, records, processes and bounds. *)
EXTENDS DispatchInv, FiniteSetTheorems, TLAPS

-----------------------------------------------------------------------------
(* Type correctness.                                                       *)

\* A process at rest is well typed, and so is a record that is not in the table.
LEMMA RestingType ==
  /\ Absent \in Record /\ RestingClient \in Client
  /\ RestingBeat \in Beat /\ RestingWorker \in Worker
  BY DEF Absent, Record, RestingClient, Client, RestingBeat, Beat, RestingWorker, Worker,
         RecordStates, InstructionStates

\* The initial state is well typed.
LEMMA InitTypeOK == Init => TypeOK
<1> SUFFICES ASSUME Init PROVE TypeOK
  OBVIOUS
<1>1. plan \in [Plans -> InstructionStates]
  BY DEF Init, InstructionStates
<1>2. /\ crashes \in 0 .. MaxCrashes /\ errors \in 0 .. MaxErrors /\ retries \in 0 .. MaxRetries
      /\ queue \in [Plans -> 0 .. MaxQueued]
  BY DispatchAssumption DEF Init
<1> QED
  BY <1>1, <1>2, RestingType DEF Init, TypeOK

\* A call of create_transaction keeps the records and the count of transfers well typed.
LEMMA CallEndsType ==
  ASSUME NEW r, NEW returned, TypeOK, CallEnds(r, returned)
  PROVE  /\ rec' \in [Records -> Record] /\ sent' \in [Records -> Nat]
         /\ retries' \in 0 .. MaxRetries
<1>1. RecordFlow.fail.to \in RecordStates /\ {"TRANSFERRED_TO_FSP", "ERROR"} \subseteq RecordStates
  BY DEF RecordFlow, RecordStates
<1>2. ASSUME NEW s \in RecordStates, rec' = [rec EXCEPT ![r].status = s]
      PROVE  rec' \in [Records -> Record]
  BY <1>2 DEF TypeOK, Record
<1>3. rec' \in [Records -> Record]
  BY <1>1, <1>2 DEF CallEnds, TypeOK
<1>4. sent' \in [Records -> Nat]
  BY DEF CallEnds, Accept, TypeOK
<1>5. retries' \in 0 .. MaxRetries
  BY DispatchAssumption DEF CallEnds, TypeOK
<1> QED
  BY <1>3, <1>4, <1>5

\* The steps of a client keep the state well typed.
LEMMA ClientTypeOK ==
  ASSUME TypeOK, NEW c \in Clients, ClientStep(c)
  PROVE  TypeOK'
<1> USE DEF faults
<1>0. ASSUME NEW x \in Client, client' = [client EXCEPT ![c] = x],
             UNCHANGED <<beat, worker, queue, lock, crashes, errors>>,
             (retries \in 0 .. MaxRetries)', (plan \in [Plans -> InstructionStates])',
             (rec \in [Records -> Record])', (sent \in [Records -> Nat])'
      PROVE  TypeOK'
  BY <1>0 DEF TypeOK
<1>1. ASSUME NEW pl \in Plans, AddRead(c, pl) PROVE TypeOK'
  <2>1. [client[c] EXCEPT !.pc = "add", !.plan = pl] \in Client
    BY DEF TypeOK, Client
  <2> QED BY <1>0, <1>1, <2>1 DEF TypeOK, AddRead
<1>2. ASSUME NEW pl \in Plans, EditRead(c, pl) PROVE TypeOK'
  <2>1. [client[c] EXCEPT !.pc = "again", !.plan = pl, !.copy = plan[pl]] \in Client
    BY DEF TypeOK, Client
  <2> QED BY <1>0, <1>2, <2>1 DEF TypeOK, EditRead
<1>3. ASSUME NEW pl \in Plans, NEW t \in Transitions, ChangeRead(c, pl, t) PROVE TypeOK'
  <2>1. InstructionFlow[t].to \in InstructionStates
    BY DEF Transitions, InstructionFlow, InstructionStates
  <2>2. [client[c] EXCEPT !.pc = "save", !.plan = pl, !.copy = InstructionFlow[t].to] \in Client
    BY <2>1 DEF TypeOK, Client
  <2> QED BY <1>0, <1>3, <2>2 DEF TypeOK, ChangeRead
<1>4. ASSUME NEW r \in Records, AddSave(c, r) PROVE TypeOK'
  <2>1. [rec[r] EXCEPT !.plan = client[c].plan] \in Record
    BY DEF TypeOK, Record, Client
  <2>2. rec' = [rec EXCEPT ![r] = [rec[r] EXCEPT !.plan = client[c].plan]]
    BY <1>4 DEF AddSave
  <2> QED BY <1>4, <2>1, <2>2 DEF TypeOK, AddSave
<1>5. ASSUME NEW r \in Records, SendRead(c, r) PROVE TypeOK'
  <2>1. [client[c] EXCEPT !.pc = "call", !.rec = r] \in Client
    BY DEF TypeOK, Client
  <2> QED BY <1>0, <1>5, <2>1 DEF TypeOK, SendRead
<1>6. CASE ChangeSave(c)
  <2>1. [client[c] EXCEPT !.pc = "again"] \in Client /\ client[c].copy \in InstructionStates
    BY DEF TypeOK, Client
  <2>2. (plan \in [Plans -> InstructionStates])'
    BY <1>6, <2>1 DEF TypeOK, ChangeSave, SetStatus
  <2>3. \E x \in Client : client' = [client EXCEPT ![c] = x]
    BY <1>6, <2>1, RestingType DEF ChangeSave
  <2> QED BY <1>0, <1>6, <2>2, <2>3 DEF TypeOK, ChangeSave
<1>7. CASE AddEnd(c)
  BY <1>0, <1>7, RestingType DEF TypeOK, AddEnd
<1>8. CASE SendEnd(c)
  <2>1. (rec \in [Records -> Record] /\ sent \in [Records -> Nat] /\ retries \in 0 .. MaxRetries)'
    BY <1>8, CallEndsType DEF SendEnd
  <2> QED BY <1>0, <1>8, <2>1, RestingType DEF TypeOK, SendEnd
<1> QED BY <1>1, <1>2, <1>3, <1>4, <1>5, <1>6, <1>7, <1>8 DEF ClientStep

\* The steps of the periodic task keep the state well typed.
LEMMA BeatTypeOK ==
  ASSUME TypeOK, NEW b \in Beats, BeatStep(b) \/ BeatRaise(b)
  PROVE  TypeOK'
<1> USE DEF faults
<1>0. ASSUME NEW x \in Beat, beat' = [beat EXCEPT ![b] = x],
             UNCHANGED <<plan, rec, client, worker, sent, crashes, retries>>,
             (queue \in [Plans -> 0 .. MaxQueued])',
             (lock \in Procs \cup {"free", "leaked"})', (errors \in 0 .. MaxErrors)'
      PROVE  TypeOK'
  BY <1>0 DEF TypeOK
<1>1. CASE BeatStart(b)
  <2>1. [beat[b] EXCEPT !.pc = "lock", !.todo = {pl \in Plans : plan[pl] = "READY"}] \in Beat
    BY DEF TypeOK, Beat
  <2> QED BY <1>0, <1>1, <2>1 DEF TypeOK, BeatStart
<1>2. ASSUME NEW pl \in Plans, BeatLock(b, pl) PROVE TypeOK'
  <2>1. [beat[b] EXCEPT !.pc = "queue", !.cur = pl] \in Beat
    BY DEF TypeOK, Beat
  <2> QED BY <1>0, <1>2, <2>1 DEF TypeOK, BeatLock, Procs
<1>3. CASE BeatQueue(b)
  <2>1. (queue \in [Plans -> 0 .. MaxQueued])'
    <3>1. ASSUME NEW q \in Plans PROVE queue'[q] \in 0 .. MaxQueued
      <4>1. queue[q] \in 0 .. MaxQueued /\ MaxQueued \in Nat
        BY DispatchAssumption DEF TypeOK
      <4>2. \/ queue'[q] = queue[q]
            \/ queue[q] < MaxQueued /\ queue'[q] = queue[q] + 1
        BY <1>3 DEF TypeOK, BeatQueue
      <4> QED BY <4>1, <4>2
    <3>2. queue' = [q \in Plans |-> queue'[q]]
      BY <1>3 DEF TypeOK, BeatQueue
    <3> QED BY <3>1, <3>2
  <2>2. [pc |-> "lock", cur |-> NoPlan, todo |-> beat[b].todo \ {beat[b].cur}] \in Beat
    BY DEF TypeOK, Beat
  <2>3. \E x \in Beat : beat' = [beat EXCEPT ![b] = x]
    BY <1>3, <2>2, RestingType DEF BeatQueue
  <2> QED BY <1>0, <1>3, <2>1, <2>3 DEF TypeOK, BeatQueue
<1>4. CASE BeatRaise(b)
  <2>1. (errors \in 0 .. MaxErrors)'
    BY <1>4, DispatchAssumption DEF TypeOK, BeatRaise
  <2> QED BY <1>0, <1>4, <2>1, RestingType DEF TypeOK, BeatRaise
<1> QED BY <1>1, <1>2, <1>3, <1>4 DEF BeatStep

\* Acknowledging a job keeps the queue well typed.
LEMMA AckedType ==
  ASSUME NEW pl, TypeOK, Acked(pl)
  PROVE  queue' \in [Plans -> 0 .. MaxQueued]
<1>1. ASSUME NEW q \in Plans PROVE queue'[q] \in 0 .. MaxQueued
  <2>1. queue[q] \in 0 .. MaxQueued /\ MaxQueued \in Nat
    BY DispatchAssumption DEF TypeOK
  <2>2. \/ queue'[q] = queue[q]
        \/ queue[q] > 0 /\ queue'[q] = queue[q] - 1
        \/ queue'[q] = 0
    BY DEF TypeOK, Acked
  <2> QED BY <2>1, <2>2
<1>2. queue' = [q \in Plans |-> queue'[q]]
  BY DEF TypeOK, Acked
<1> QED BY <1>1, <1>2

\* The steps of a worker keep the state well typed.
LEMMA WorkerTypeOK ==
  ASSUME TypeOK, NEW w \in Workers,
         \/ \E pl \in Plans : Deliver(w, pl)
         \/ WorkerLock(w) \/ JobStep(w) \/ CallRaise(w) \/ Crash(w)
  PROVE  TypeOK'
<1> USE DEF faults
<1>0. ASSUME NEW x \in Worker, worker' = [worker EXCEPT ![w] = x],
             UNCHANGED <<client, beat>>,
             (plan \in [Plans -> InstructionStates])',
             (rec \in [Records -> Record])', (sent \in [Records -> Nat])',
             (queue \in [Plans -> 0 .. MaxQueued])',
             (lock \in Procs \cup {"free", "leaked"})',
             (crashes \in 0 .. MaxCrashes)', (errors \in 0 .. MaxErrors)',
             (retries \in 0 .. MaxRetries)'
      PROVE  TypeOK'
  BY <1>0 DEF TypeOK
<1>1. ASSUME NEW pl \in Plans, Deliver(w, pl) PROVE TypeOK'
  <2>1. [worker[w] EXCEPT !.pc = "lock", !.plan = pl] \in Worker
    BY DEF TypeOK, Worker
  <2> QED BY <1>0, <1>1, <2>1 DEF TypeOK, Deliver
<1>2. CASE WorkerLock(w)
  <2>1. [worker[w] EXCEPT !.pc = "select"] \in Worker
    BY DEF TypeOK, Worker
  <2>2. worker' = [worker EXCEPT ![w] = [worker[w] EXCEPT !.pc = "select"]]
    BY <1>2 DEF WorkerLock
  <2> QED BY <1>0, <1>2, <2>1, <2>2 DEF TypeOK, WorkerLock, Procs
<1>3. CASE Select(w)
  <2> DEFINE pending == {r \in Records : rec[r].plan = worker[w].plan /\ rec[r].status = "PENDING"}
  <2>1. [worker[w] EXCEPT !.pc = "loop", !.todo = pending, !.some = pending # {}] \in Worker
    BY DEF TypeOK, Worker
  <2> QED BY <1>0, <1>3, <2>1 DEF TypeOK, Select
<1>4. ASSUME NEW r \in Records, CallBegin(w, r) PROVE TypeOK'
  <2> DEFINE next == [worker[w] EXCEPT !.todo = @ \ {r}]
  <2>1. /\ next \in Worker
        /\ [next EXCEPT !.pc = "call", !.cur = r] \in Worker
        /\ [next EXCEPT !.bad = TRUE] \in Worker
    BY DEF TypeOK, Worker
  <2>2. \E x \in Worker : worker' = [worker EXCEPT ![w] = x]
    BY <1>4, <2>1 DEF CallBegin
  <2> QED BY <1>0, <1>4, <2>2 DEF TypeOK, CallBegin
<1>5. CASE CallEnd(w)
  <2>1. PICK returned \in BOOLEAN :
          /\ CallEnds(worker[w].cur, returned)
          /\ worker' = [worker EXCEPT ![w] = [@ EXCEPT !.pc = "loop", !.cur = NoRecord,
                                                       !.bad = worker[w].bad \/ ~returned]]
    BY <1>5 DEF CallEnd
  <2>2. (rec \in [Records -> Record] /\ sent \in [Records -> Nat] /\ retries \in 0 .. MaxRetries)'
    BY <2>1, CallEndsType
  <2>3. ASSUME NEW flag \in BOOLEAN
        PROVE  [worker[w] EXCEPT !.pc = "loop", !.cur = NoRecord, !.bad = flag] \in Worker
    BY DEF TypeOK, Worker
  <2>4. (worker[w].bad \/ ~returned) \in BOOLEAN
    OBVIOUS
  <2>5. [worker[w] EXCEPT !.pc = "loop", !.cur = NoRecord, !.bad = worker[w].bad \/ ~returned] \in Worker
    BY <2>3, <2>4, Zenon
  <2> QED BY <1>0, <1>5, <2>1, <2>2, <2>5 DEF TypeOK, CallEnd
<1>6. CASE NotifyEnd(w)
  <2>1. [worker[w] EXCEPT !.pc = "release"] \in Worker
    BY DEF TypeOK, Worker
  <2>2. worker' = [worker EXCEPT ![w] = [worker[w] EXCEPT !.pc = "release"]]
    BY <1>6 DEF NotifyEnd
  <2>3. (plan \in [Plans -> InstructionStates])'
    BY <1>6 DEF NotifyEnd, SetStatus, TypeOK, InstructionStates
  <2> QED BY <1>0, <1>6, <2>1, <2>2, <2>3 DEF TypeOK, NotifyEnd
<1>7. CASE Release(w)
  BY <1>0, <1>7, AckedType, RestingType DEF TypeOK, Release
<1>8. CASE CallRaise(w)
  <2>1. (errors \in 0 .. MaxErrors)'
    BY <1>8, DispatchAssumption DEF TypeOK, CallRaise
  <2> QED BY <1>0, <1>8, <2>1, AckedType, RestingType DEF TypeOK, CallRaise
<1>9. CASE Crash(w)
  <2>1. (sent \in [Records -> Nat])'
    BY <1>9 DEF TypeOK, Crash, Accept
  <2>2. (crashes \in 0 .. MaxCrashes)'
    BY <1>9, DispatchAssumption DEF TypeOK, Crash
  <2>3. (lock \in Procs \cup {"free", "leaked"})'
    BY <1>9 DEF TypeOK, Crash
  <2>4. /\ worker' = [worker EXCEPT ![w] = RestingWorker]
        /\ UNCHANGED <<plan, rec, client, beat, queue, errors, retries>>
    BY <1>9 DEF Crash
  <2> QED BY <1>0, <2>1, <2>2, <2>3, <2>4, RestingType DEF TypeOK
<1> QED BY <1>1, <1>2, <1>3, <1>4, <1>5, <1>6, <1>7, <1>8, <1>9 DEF JobStep

\* Every step keeps the state well typed.
LEMMA NextTypeOK == TypeOK /\ [Next]_vars => TypeOK'
<1> SUFFICES ASSUME TypeOK, [Next]_vars PROVE TypeOK'
  OBVIOUS
<1>1. CASE LockExpire
  BY <1>1 DEF TypeOK, LockExpire, faults
<1>2. CASE UNCHANGED vars
  BY <1>2 DEF TypeOK, vars
<1> QED BY <1>1, <1>2, ClientTypeOK, BeatTypeOK, WorkerTypeOK DEF Next

\* In every reachable state the plans, the records, the processes, the queue and
\* the lock have the types of the code.
THEOREM DispatchTypeCorrect == Spec => []TypeOK
  BY InitTypeOK, NextTypeOK, PTL DEF Spec

-----------------------------------------------------------------------------
(* A record is sent once, and once more at most for every killed worker.  The *)
(* invariant has to say who may move a record: a worker in a call holds the   *)
(* lock, hence is alone, hence the record it looked at is still PENDING when  *)
(* Western Union accepts the transfer, and is not PENDING once it is saved.   *)

\* The initial state satisfies the invariant.
LEMMA OnceInit == Init => OnceInv
<1> SUFFICES ASSUME Init PROVE OnceInv
  OBVIOUS
<1>1. MaxCrashes \in Nat
  BY DispatchAssumption
<1>2. NoButton /\ HoldsLock /\ InCall
  BY DEF Init, NoButton, HoldsLock, InCall, RestingClient, RestingBeat, RestingWorker
<1> QED
  BY <1>1, <1>2 DEF Init, OnceInv, Unsent, SentOncePerCrash

\* Without the button no client starts a call.
LEMMA ClientNoButton ==
  ASSUME "send" \notin Verbs, TypeOK, NoButton, NEW c \in Clients, ClientStep(c)
  PROVE  NoButton'
<1> SUFFICES ASSUME NEW d \in Clients PROVE client'[d].pc # "call"
  BY DEF NoButton
<1>1. client[d].pc # "call" /\ client[c].pc # "call"
  BY DEF NoButton
<1>2. client \in [Clients -> Client]
  BY DEF TypeOK
<1>3. ASSUME NEW pl \in Plans, AddRead(c, pl) PROVE client'[d].pc # "call"
  BY <1>1, <1>2, <1>3 DEF AddRead, Client
<1>4. ASSUME NEW pl \in Plans, EditRead(c, pl) PROVE client'[d].pc # "call"
  BY <1>1, <1>2, <1>4 DEF EditRead, Client
<1>5. ASSUME NEW pl \in Plans, NEW t \in Transitions, ChangeRead(c, pl, t)
      PROVE  client'[d].pc # "call"
  BY <1>1, <1>2, <1>5 DEF ChangeRead, Client
<1>6. CASE ChangeSave(c)
  BY <1>1, <1>2, <1>6 DEF ChangeSave, RestingClient, Client
<1>7. CASE AddEnd(c)
  BY <1>1, <1>2, <1>7 DEF AddEnd, RestingClient
<1>8. ASSUME NEW r \in Records, AddSave(c, r) PROVE client'[d].pc # "call"
  BY <1>1, <1>8 DEF AddSave
<1>9. ASSUME NEW r \in Records, SendRead(c, r) PROVE FALSE
  BY <1>9 DEF SendRead
<1>10. CASE SendEnd(c)
  BY <1>1, <1>10 DEF SendEnd
<1> QED BY <1>3, <1>4, <1>5, <1>6, <1>7, <1>8, <1>9, <1>10 DEF ClientStep

\* A client only adds records and changes plans: no transfer, and a record that
\* it inserts was absent, hence never sent.
LEMMA ClientOnce ==
  ASSUME "send" \notin Verbs, TypeOK, OnceInv, NEW c \in Clients, ClientStep(c)
  PROVE  OnceInv'
<1>1. NoButton'
  BY ClientNoButton DEF OnceInv
<1>2. UNCHANGED <<beat, worker, lock, sent, crashes>>
  BY DEF ClientStep, AddRead, EditRead, ChangeRead, AddSave, SendRead, ChangeSave, AddEnd,
         SendEnd, OnceInv, NoButton, faults
<1>3. \A r \in Records : rec'[r].status = rec[r].status
  <2>1. ASSUME NEW s \in Records, AddSave(c, s), NEW r \in Records
        PROVE  rec'[r].status = rec[r].status
    BY <2>1 DEF AddSave, TypeOK, Record
  <2>2. UNCHANGED rec \/ \E s \in Records : AddSave(c, s)
    BY DEF ClientStep, AddRead, EditRead, ChangeRead, SendRead, ChangeSave, AddEnd,
           SendEnd, OnceInv, NoButton
  <2> QED BY <2>1, <2>2
<1> QED
  BY <1>1, <1>2, <1>3 DEF OnceInv, HoldsLock, InCall, Unsent, SentOncePerCrash

\* The periodic task takes the lock when it is free, and gives back its own.
LEMMA BeatOnce ==
  ASSUME TypeOK, OnceInv, NEW b \in Beats, BeatStep(b) \/ BeatRaise(b)
  PROVE  OnceInv'
<1>1. UNCHANGED <<rec, client, worker, sent, crashes>>
  BY DEF BeatStep, BeatRaise, BeatStart, BeatLock, BeatQueue, faults
<1>2. beat \in [Beats -> Beat]
  BY DEF TypeOK
<1>3. /\ \A p \in Procs : p # "free" /\ p # "leaked"
      /\ \A w \in Workers : w # b /\ w \in Procs
      /\ b \in Procs
  BY DispatchAssumption DEF Procs
<1>4. HoldsLock'
  <2>1. CASE BeatStart(b)
    BY <1>2, <2>1 DEF BeatStart, OnceInv, HoldsLock, Beat, faults
  <2>2. ASSUME NEW pl \in Plans, BeatLock(b, pl) PROVE HoldsLock'
    BY <1>2, <1>3, <2>2 DEF BeatLock, OnceInv, HoldsLock, Beat, Procs
  <2>3. CASE BeatQueue(b)
    <3>1. lock = b
      BY <2>3 DEF BeatQueue, OnceInv, HoldsLock
    <3>2. beat'[b].pc # "queue" /\ \A a \in Beats \ {b} : beat'[a] = beat[a]
      BY <1>2, <2>3 DEF BeatQueue, RestingBeat
    <3> QED BY <1>1, <1>3, <3>1, <3>2 DEF OnceInv, HoldsLock
  <2>4. CASE BeatRaise(b)
    <3>1. lock = b
      BY <2>4 DEF BeatRaise, OnceInv, HoldsLock
    <3>2. beat'[b].pc # "queue" /\ \A a \in Beats \ {b} : beat'[a] = beat[a]
      BY <1>2, <2>4 DEF BeatRaise, RestingBeat
    <3> QED BY <1>1, <1>3, <3>1, <3>2 DEF OnceInv, HoldsLock
  <2> QED BY <2>1, <2>2, <2>3, <2>4 DEF BeatStep
<1> QED
  BY <1>1, <1>4 DEF OnceInv, NoButton, InCall, Unsent, SentOncePerCrash

\* A worker past the lock is alone: no other worker is past it and no plan is
\* being queued.
LEMMA Alone ==
  ASSUME TypeOK, OnceInv, NEW w \in Workers, lock = w
  PROVE  /\ \A v \in Workers \ {w} : worker[v].pc \notin {"select", "loop", "call", "release"}
         /\ \A b \in Beats : beat[b].pc # "queue"
  BY DispatchAssumption DEF OnceInv, HoldsLock, Procs

\* What has to hold of a step of worker w, other workers and the clients being as
\* they were.
LEMMA WorkerFrame ==
  ASSUME TypeOK, OnceInv, NEW w \in Workers, UNCHANGED <<client, beat>>,
         \A v \in Workers \ {w} : worker'[v] = worker[v],
         HoldsLock',
         worker'[w].pc = "call" =>
           worker'[w].cur \in Records /\ rec'[worker'[w].cur].status = "PENDING",
         (\A r \in Records : rec'[r].status = rec[r].status) \/ lock = w,
         Unsent', SentOncePerCrash'
  PROVE  OnceInv'
<1>1. ASSUME NEW v \in Workers, worker'[v].pc = "call"
      PROVE  worker'[v].cur \in Records /\ rec'[worker'[v].cur].status = "PENDING"
  <2>1. CASE v = w
    BY <1>1, <2>1
  <2>2. CASE v # w
    BY <1>1, <2>2, Alone DEF OnceInv, InCall
  <2> QED BY <2>1, <2>2
<1> QED
  BY <1>1 DEF OnceInv, NoButton, InCall

\* The steps of a worker that move no record and ask Western Union nothing.
LEMMA QuietOnce ==
  ASSUME TypeOK, OnceInv, NEW w \in Workers,
         \/ \E pl \in Plans : Deliver(w, pl)
         \/ WorkerLock(w) \/ Select(w) \/ (\E r \in Records : CallBegin(w, r))
         \/ NotifyEnd(w) \/ Release(w) \/ CallRaise(w)
  PROVE  OnceInv'
<1>1. worker \in [Workers -> Worker]
  BY DEF TypeOK
<1>2. /\ \A p \in Procs : p # "free" /\ p # "leaked"
      /\ \A b \in Beats : w # b /\ b \in Procs
      /\ \A v \in Workers : v \in Procs
  BY DispatchAssumption DEF Procs
<1>3. UNCHANGED <<rec, sent, crashes, client, beat>>
  BY DEF Deliver, WorkerLock, Select, CallBegin, NotifyEnd, Release, CallRaise, faults
<1>4. \A v \in Workers \ {w} : worker'[v] = worker[v]
  BY <1>1 DEF Deliver, WorkerLock, Select, CallBegin, NotifyEnd, Release, CallRaise
<1>5. Unsent' /\ SentOncePerCrash'
  BY <1>3 DEF OnceInv, Unsent, SentOncePerCrash
<1>6. ASSUME worker'[w].pc = "call"
      PROVE  worker'[w].cur \in Records /\ rec'[worker'[w].cur].status = "PENDING"
  <2>1. worker[w] \in Worker
    BY <1>1
  <2>2. ASSUME NEW pl \in Plans, Deliver(w, pl) PROVE FALSE
    BY <1>1, <1>6, <2>1, <2>2 DEF Deliver, Worker
  <2>3. ~Select(w)
    BY <1>1, <1>6, <2>1 DEF Select, Worker
  <2>4. ~WorkerLock(w) /\ ~NotifyEnd(w)
    BY <1>1, <1>6, <2>1 DEF WorkerLock, NotifyEnd, Worker
  <2>5. ~Release(w) /\ ~CallRaise(w)
    BY <1>1, <1>6 DEF Release, CallRaise, RestingWorker
  <2>6. PICK r \in Records : CallBegin(w, r)
    BY <2>2, <2>3, <2>4, <2>5
  <2> DEFINE next == [worker[w] EXCEPT !.todo = @ \ {r}]
  <2>7. /\ next.pc = "loop" /\ [next EXCEPT !.bad = TRUE].pc = "loop"
        /\ [next EXCEPT !.pc = "call", !.cur = r].cur = r
    BY <2>1, <2>6 DEF CallBegin, Worker
  <2>8. /\ rec[r].status = "PENDING"
        /\ worker' = [worker EXCEPT ![w] = [next EXCEPT !.pc = "call", !.cur = r]]
    <3>1. ASSUME NEW x, worker' = [worker EXCEPT ![w] = x] PROVE worker'[w] = x
      BY <1>1, <3>1
    <3> HIDE DEF next
    <3>2. \/ /\ rec[r].status = "PENDING"
             /\ worker' = [worker EXCEPT ![w] = [next EXCEPT !.pc = "call", !.cur = r]]
          \/ worker' = [worker EXCEPT ![w] = next]
          \/ worker' = [worker EXCEPT ![w] = [next EXCEPT !.bad = TRUE]]
      BY <2>6 DEF CallBegin, next
    <3> QED BY <1>6, <2>7, <3>1, <3>2
  <2> QED BY <1>1, <1>3, <2>7, <2>8
<1>7. ASSUME UNCHANGED lock, worker'[w].pc \in {"select", "loop", "call", "release"} => lock = w
      PROVE  HoldsLock'
  BY <1>3, <1>4, <1>7 DEF OnceInv, HoldsLock
<1>8. ASSUME lock = w, lock' \in {"free", "leaked"}, worker'[w].pc = "idle"
      PROVE  HoldsLock'
  BY <1>2, <1>3, <1>4, <1>8, Alone DEF HoldsLock
<1>9. HoldsLock'
  <2>1. ASSUME NEW pl \in Plans, Deliver(w, pl) PROVE HoldsLock'
    BY <1>1, <1>7, <2>1 DEF Deliver, Worker
  <2>2. CASE WorkerLock(w)
    <3>1. /\ \A v \in Workers : worker[v].pc \notin {"select", "loop", "call", "release"}
          /\ \A b \in Beats : beat[b].pc # "queue"
      BY <1>2, <2>2 DEF WorkerLock, OnceInv, HoldsLock
    <3> QED BY <1>1, <1>3, <1>4, <2>2, <3>1 DEF WorkerLock, HoldsLock
  <2>3. CASE Select(w) \/ (\E r \in Records : CallBegin(w, r)) \/ NotifyEnd(w)
    <3>1. lock = w /\ UNCHANGED lock
      BY <2>3 DEF Select, CallBegin, NotifyEnd, OnceInv, HoldsLock
    <3> QED BY <1>7, <3>1
  <2>4. CASE Release(w) \/ CallRaise(w)
    <3>1. lock = w
      BY <2>4 DEF Release, CallRaise, OnceInv, HoldsLock
    <3>2. lock' \in {"free", "leaked"} /\ worker'[w].pc = "idle"
      BY <1>1, <2>4 DEF Release, CallRaise, RestingWorker
    <3> QED BY <1>8, <3>1, <3>2
  <2> QED BY <2>1, <2>2, <2>3, <2>4
<1> QED
  BY <1>3, <1>4, <1>5, <1>6, <1>9, WorkerFrame

\* The outcome of a call: a transfer that was accepted leaves PENDING.
LEMMA CallEndOnce ==
  ASSUME TypeOK, OnceInv, NEW w \in Workers, CallEnd(w)
  PROVE  OnceInv'
<1>1. /\ worker[w].cur \in Records /\ rec[worker[w].cur].status = "PENDING"
      /\ lock = w /\ UNCHANGED <<lock, client, beat, crashes>>
  BY DEF CallEnd, OnceInv, InCall, HoldsLock, faults
<1>2. PICK returned \in BOOLEAN : CallEnds(worker[w].cur, returned)
  BY DEF CallEnd
<1>3. /\ worker'[w].pc = "loop"
      /\ \A v \in Workers \ {w} : worker'[v] = worker[v]
  BY DEF CallEnd, TypeOK, Worker
<1>4. HoldsLock'
  BY <1>1, <1>3 DEF OnceInv, HoldsLock
<1>5. crashes \in Nat /\ sent \in [Records -> Nat] /\ rec \in [Records -> Record]
  BY DispatchAssumption DEF TypeOK
<1>6. ASSUME NEW r \in Records
      PROVE  /\ rec'[r].status = "PENDING" => sent'[r] <= crashes
             /\ sent'[r] <= 1 + crashes
  <2>1. sent[r] <= 1 + crashes /\ (rec[r].status = "PENDING" => sent[r] <= crashes)
    BY DEF OnceInv, Unsent, SentOncePerCrash
  <2>2. CASE r # worker[w].cur
    <3>1. rec'[r] = rec[r] /\ sent'[r] = sent[r]
      BY <1>2, <1>5, <2>2 DEF CallEnds, Accept
    <3> QED BY <2>1, <3>1
  <2>3. CASE r = worker[w].cur
    <3>1. rec[r].status = "PENDING" /\ sent[r] \in Nat
      BY <1>1, <1>5, <2>3
    <3>2. \/ rec'[r].status = "PENDING" /\ sent'[r] = sent[r]
          \/ rec'[r].status # "PENDING" /\ sent'[r] \in {sent[r], sent[r] + 1}
      BY <1>2, <1>5, <2>3, <3>1 DEF CallEnds, Accept, RecordFlow, Record
    <3> QED BY <1>5, <2>1, <3>1, <3>2
  <2> QED BY <2>2, <2>3
<1>7. Unsent' /\ SentOncePerCrash'
  BY <1>1, <1>6 DEF Unsent, SentOncePerCrash
<1> QED
  BY <1>1, <1>3, <1>4, <1>7, WorkerFrame

\* A worker that is killed may have sent the record it leaves PENDING.
LEMMA CrashOnce ==
  ASSUME TypeOK, OnceInv, NEW w \in Workers, Crash(w)
  PROVE  OnceInv'
<1>1. crashes' = crashes + 1 /\ UNCHANGED <<rec, client, beat>>
  BY DEF Crash
<1>2. /\ worker'[w].pc = "idle"
      /\ \A v \in Workers \ {w} : worker'[v] = worker[v]
  BY DEF Crash, TypeOK, RestingWorker
<1>3. HoldsLock'
  <2>1. CASE lock = w
    BY <1>1, <1>2, <2>1, Alone DEF HoldsLock
  <2>2. CASE lock # w
    BY <1>1, <1>2, <2>2 DEF Crash, OnceInv, HoldsLock
  <2> QED BY <2>1, <2>2
<1>4. crashes \in Nat /\ sent \in [Records -> Nat]
  BY DispatchAssumption DEF TypeOK
<1>5. ASSUME NEW r \in Records
      PROVE  /\ rec'[r].status = "PENDING" => sent'[r] <= crashes'
             /\ sent'[r] <= 1 + crashes'
  <2>1. sent[r] <= 1 + crashes /\ (rec[r].status = "PENDING" => sent[r] <= crashes)
    BY DEF OnceInv, Unsent, SentOncePerCrash
  <2>2. \/ sent'[r] = sent[r]
        \/ sent'[r] = sent[r] + 1 /\ rec[r].status = "PENDING"
    BY <1>4 DEF Crash, Accept, OnceInv, InCall
  <2>3. sent[r] \in Nat
    BY <1>4
  <2> QED BY <1>1, <1>4, <2>1, <2>2, <2>3
<1>6. Unsent' /\ SentOncePerCrash'
  BY <1>5 DEF Unsent, SentOncePerCrash
<1> QED
  BY <1>1, <1>2, <1>3, <1>6, WorkerFrame

\* Every step keeps the invariant.
LEMMA OnceStep ==
  ASSUME "send" \notin Verbs
  PROVE  TypeOK /\ OnceInv /\ [Next]_vars => OnceInv'
<1> SUFFICES ASSUME TypeOK, OnceInv, [Next]_vars PROVE OnceInv'
  OBVIOUS
<1>1. CASE LockExpire
  <2>1. /\ \A w \in Workers : w # "leaked"
        /\ \A b \in Beats : b # "leaked"
    BY DispatchAssumption DEF Procs
  <2> QED
    BY <1>1, <2>1 DEF LockExpire, OnceInv, NoButton, HoldsLock, InCall, Unsent,
                      SentOncePerCrash, faults
<1>2. CASE UNCHANGED vars
  BY <1>2 DEF vars, OnceInv, NoButton, HoldsLock, InCall, Unsent, SentOncePerCrash
<1>3. ASSUME NEW w \in Workers,
             \/ \E pl \in Plans : Deliver(w, pl)
             \/ WorkerLock(w) \/ JobStep(w) \/ CallRaise(w) \/ Crash(w)
      PROVE  OnceInv'
  BY <1>3, QuietOnce, CallEndOnce, CrashOnce DEF JobStep
<1> QED BY <1>1, <1>2, <1>3, ClientOnce, BeatOnce DEF Next

\* However jobs are queued, delivered again, ended by exceptions or killed, and
\* whatever clients do to the plans: sync_job_task's lock lets a record be sent
\* once, and once more at most for every worker that is killed.
THEOREM OncePerCrash ==
  ASSUME "send" \notin Verbs
  PROVE  Spec => []SentOncePerCrash
<1>1. OnceInv => SentOncePerCrash
  BY DEF OnceInv
<1> QED
  BY <1>1, OnceInit, OnceStep, DispatchTypeCorrect, PTL DEF Spec

-----------------------------------------------------------------------------
(* No record is sent before its plan was READY.  With one client, the status  *)
(* it read is stale only if a job has marked the plan PROCESSED meanwhile.    *)

LEMMA ReleasedInit == Init => ReleasedInv
  BY DEF Init, ReleasedInv, NoButton, JobsReleased, WritesReleased, SentReleased,
         RestingClient, RestingBeat, RestingWorker

\* Statuses change, no released plan is taken back, and nothing else moves.
LEMMA PlanStep ==
  ASSUME TypeOK, ReleasedInv, UNCHANGED <<rec, beat, worker, queue, sent>>, NoButton', WritesReleased',
         \A pl \in Plans : plan[pl] \in Released => plan'[pl] \in Released
  PROVE  ReleasedInv'
<1>1. SentReleased'
  BY DEF ReleasedInv, SentReleased
<1>2. JobsReleased'
  BY DEF ReleasedInv, JobsReleased
<1> QED BY <1>1, <1>2 DEF ReleasedInv

LEMMA ClientReleased ==
  ASSUME "send" \notin Verbs, \A a, b \in Clients : a = b,
         TypeOK, ReleasedInv, NEW c \in Clients, ClientStep(c)
  PROVE  ReleasedInv'
<1>0. NoButton'
  BY ClientNoButton DEF ReleasedInv
<1>1. client[c] \in Client /\ client \in [Clients -> Client] /\ plan \in [Plans -> InstructionStates]
  BY DEF TypeOK
<1>2. ASSUME NEW x, client' = [client EXCEPT ![c] = x], plan' = plan,
             x.pc \in {"save", "again"} =>
               x.plan \in Plans /\ (plan[x.plan] \in Released => x.copy \in Released)
      PROVE  WritesReleased'
  BY <1>1, <1>2 DEF WritesReleased
<1>3. ASSUME NEW pl \in Plans, AddRead(c, pl) PROVE ReleasedInv'
  <2>1. [client[c] EXCEPT !.pc = "add", !.plan = pl].pc = "add"
    BY <1>1 DEF Client
  <2>2. WritesReleased'
    BY <1>2, <1>3, <2>1 DEF AddRead
  <2> QED BY <1>0, <1>3, <2>2, PlanStep DEF AddRead
<1>4. ASSUME NEW pl \in Plans, EditRead(c, pl) PROVE ReleasedInv'
  <2> DEFINE x == [client[c] EXCEPT !.pc = "again", !.plan = pl, !.copy = plan[pl]]
  <2>1. x.pc = "again" /\ x.plan = pl /\ x.copy = plan[pl]
    BY <1>1 DEF Client
  <2>2. client' = [client EXCEPT ![c] = x] /\ plan' = plan
    BY <1>4 DEF EditRead
  <2> HIDE DEF x
  <2>3. WritesReleased'
    BY <1>2, <2>1, <2>2
  <2> QED BY <1>0, <1>4, <2>3, PlanStep DEF EditRead
<1>5. ASSUME NEW pl \in Plans, NEW t \in Transitions, ChangeRead(c, pl, t) PROVE ReleasedInv'
  <2> DEFINE x == [client[c] EXCEPT !.pc = "save", !.plan = pl, !.copy = InstructionFlow[t].to]
  <2>1. x.pc = "save" /\ x.plan = pl /\ x.copy = InstructionFlow[t].to
    BY <1>1 DEF Client
  <2>2. client' = [client EXCEPT ![c] = x] /\ plan' = plan /\ plan[pl] \in InstructionFlow[t].from
    BY <1>5 DEF ChangeRead
  <2> HIDE DEF x
  <2>3. plan[pl] \in Released => InstructionFlow[t].to \in Released
    BY <2>2 DEF Transitions, InstructionFlow, Released
  <2>4. WritesReleased'
    BY <1>2, <2>1, <2>2, <2>3
  <2> QED BY <1>0, <1>5, <2>4, PlanStep DEF ChangeRead
<1>6. CASE ChangeSave(c)
  <2>1. PICK pl \in Plans, s \in InstructionStates :
          /\ pl = client[c].plan /\ s = client[c].copy
          /\ plan[pl] \in Released => s \in Released
    BY <1>1, <1>6 DEF ChangeSave, ReleasedInv, WritesReleased, Client
  <2>2. plan' = [plan EXCEPT ![pl] = s]
    BY <1>6, <2>1 DEF ChangeSave, SetStatus
  <2>3. \A q \in Plans : plan[q] \in Released => plan'[q] \in Released
    BY <1>1, <2>1, <2>2
  <2>4. client'[c].pc = "idle" \/ (client'[c].plan = pl /\ client'[c].copy = s)
    BY <1>1, <1>6, <2>1 DEF ChangeSave, RestingClient, Client
  <2>5. WritesReleased'
    BY <1>1, <2>2, <2>4 DEF WritesReleased
  <2> QED BY <1>0, <1>6, <2>3, <2>5, PlanStep DEF ChangeSave
<1>7. CASE AddEnd(c)
  <2>1. WritesReleased'
    BY <1>2, <1>7 DEF AddEnd, RestingClient
  <2> QED BY <1>0, <1>7, <2>1, PlanStep DEF AddEnd
<1>8. ASSUME NEW r \in Records, AddSave(c, r) PROVE ReleasedInv'
  <2>1. /\ rec[r].plan = NoPlan /\ NoPlan \notin Plans
        /\ \A s \in Records \ {r} : rec'[s] = rec[s]
        /\ UNCHANGED <<plan, client, beat, worker, queue, sent>>
    BY <1>8, DispatchAssumption DEF AddSave, Absent, TypeOK
  <2>2. sent[r] = 0 /\ \A s \in Records : sent'[s] > 0 => s # r
    BY <2>1 DEF ReleasedInv, SentReleased, TypeOK
  <2>3. SentReleased'
    BY <2>1, <2>2 DEF ReleasedInv, SentReleased
  <2>4. \A w \in Workers : worker[w].pc # "idle" =>
          /\ r \notin worker[w].todo
          /\ worker[w].pc = "call" => worker[w].cur # r
    BY <2>1 DEF ReleasedInv, JobsReleased
  <2>5. \A w \in Workers : worker[w].todo \subseteq Records
    BY DEF TypeOK, Worker
  <2>6. JobsReleased'
    BY <2>1, <2>4, <2>5 DEF ReleasedInv, JobsReleased
  <2>7. WritesReleased'
    BY <2>1 DEF ReleasedInv, WritesReleased
  <2> QED BY <1>0, <2>3, <2>6, <2>7 DEF ReleasedInv
<1>9. ASSUME NEW r \in Records, SendRead(c, r) PROVE FALSE
  BY <1>9 DEF SendRead
<1>10. ~SendEnd(c)
  BY DEF SendEnd, ReleasedInv, NoButton
<1> QED BY <1>3, <1>4, <1>5, <1>6, <1>7, <1>8, <1>9, <1>10 DEF ClientStep

LEMMA BeatReleased ==
  ASSUME TypeOK, ReleasedInv, NEW b \in Beats, BeatStep(b) \/ BeatRaise(b)
  PROVE  ReleasedInv'
<1>1. UNCHANGED <<plan, rec, client, worker, sent>>
  BY DEF BeatStep, BeatRaise, BeatStart, BeatLock, BeatQueue, faults
<1>2. NoButton' /\ WritesReleased' /\ SentReleased'
  BY <1>1 DEF ReleasedInv, NoButton, WritesReleased, SentReleased
<1>3. /\ beat \in [Beats -> Beat] /\ beat[b].todo \subseteq {pl \in Plans : plan[pl] \in Released}
      /\ beat[b].pc = "queue" => beat[b].cur \in beat[b].todo
  BY DEF TypeOK, ReleasedInv, JobsReleased
<1>4. ASSUME NEW x, beat' = [beat EXCEPT ![b] = x],
             x.todo \subseteq {pl \in Plans : plan[pl] \in Released},
             x.pc = "queue" => x.cur \in x.todo,
             \A pl \in Plans : queue'[pl] > 0 => queue[pl] > 0 \/ plan[pl] \in Released
      PROVE  ReleasedInv'
  <2>1. beat'[b] = x /\ \A a \in Beats \ {b} : beat'[a] = beat[a]
    BY <1>3, <1>4
  <2>2. JobsReleased'
    BY <1>1, <1>4, <2>1 DEF ReleasedInv, JobsReleased
  <2> QED BY <1>2, <2>2 DEF ReleasedInv
<1>5. CASE BeatStart(b)
  <2> DEFINE x == [beat[b] EXCEPT !.pc = "lock", !.todo = {pl \in Plans : plan[pl] = "READY"}]
  <2>1. x.pc = "lock" /\ x.todo \subseteq {pl \in Plans : plan[pl] \in Released}
    BY <1>3 DEF Beat, Released
  <2>2. beat' = [beat EXCEPT ![b] = x] /\ queue' = queue
    BY <1>5 DEF BeatStart
  <2> HIDE DEF x
  <2> QED BY <1>4, <2>1, <2>2
<1>6. ASSUME NEW pl \in Plans, BeatLock(b, pl) PROVE ReleasedInv'
  <2> DEFINE x == [beat[b] EXCEPT !.pc = "queue", !.cur = pl]
  <2>1. x.cur = pl /\ x.todo = beat[b].todo
    BY <1>3 DEF Beat
  <2>2. beat' = [beat EXCEPT ![b] = x] /\ queue' = queue /\ pl \in beat[b].todo
    BY <1>6 DEF BeatLock, faults
  <2> HIDE DEF x
  <2> QED BY <1>3, <1>4, <2>1, <2>2
<1>7. CASE BeatQueue(b)
  <2>1. beat[b].cur \in beat[b].todo
    BY <1>3, <1>7 DEF BeatQueue
  <2>2. \A pl \in Plans : queue'[pl] > 0 => queue[pl] > 0 \/ plan[pl] \in Released
    BY <1>3, <1>7, <2>1 DEF BeatQueue, TypeOK
  <2>3. PICK x : /\ beat' = [beat EXCEPT ![b] = x]
                 /\ x.todo \subseteq beat[b].todo /\ x.pc # "queue"
    <3>1. PICK y : y = [pc |-> "lock", cur |-> NoPlan, todo |-> beat[b].todo \ {beat[b].cur}]
      OBVIOUS
    <3>2. y.pc = "lock" /\ y.todo \subseteq beat[b].todo
      BY <3>1
    <3>3. RestingBeat.pc = "idle" /\ RestingBeat.todo = {}
      BY DEF RestingBeat
    <3>4. beat' = [beat EXCEPT ![b] = RestingBeat] \/ beat' = [beat EXCEPT ![b] = y]
      BY <1>7, <3>1 DEF BeatQueue
    <3> QED BY <3>2, <3>3, <3>4
  <2> QED BY <1>3, <1>4, <2>2, <2>3
<1>8. CASE BeatRaise(b)
  BY <1>4, <1>8 DEF BeatRaise, RestingBeat
<1> QED BY <1>5, <1>6, <1>7, <1>8 DEF BeatStep

\* What a worker in a job may be doing.
JobOf(x) ==
  x.pc # "idle" =>
    /\ x.plan \in Plans /\ plan[x.plan] \in Released
    /\ \A r \in x.todo : rec[r].plan = x.plan
    /\ x.pc = "call" => x.cur \in Records /\ rec[x.cur].plan = x.plan

\* A step of worker w: no released plan is taken back, no record changes its plan and
\* no job is queued.
LEMMA JobFrame ==
  ASSUME TypeOK, ReleasedInv, NEW w \in Workers, UNCHANGED <<client, beat>>,
         NEW x, worker' = [worker EXCEPT ![w] = x], JobOf(x),
         \A r \in Records : rec'[r].plan = rec[r].plan, x.todo \subseteq Records,
         \A pl \in Plans : plan[pl] \in Released => plan'[pl] \in Released,
         \A pl \in Plans : plan'[pl] = plan[pl] \/ plan[pl] \in Released,
         \A pl \in Plans : queue'[pl] > 0 => queue[pl] > 0,
         \A r \in Records : sent'[r] > 0 =>
           sent[r] > 0 \/ (rec[r].plan \in Plans /\ plan[rec[r].plan] \in Released)
  PROVE  ReleasedInv'
<1>1. worker'[w] = x /\ \A v \in Workers \ {w} : worker'[v] = worker[v]
  BY DEF TypeOK
<1>2. \A v \in Workers : worker[v].todo \subseteq Records
  BY DEF TypeOK, Worker
<1>3. ASSUME NEW v \in Workers, worker'[v].pc # "idle"
      PROVE  /\ worker'[v].plan \in Plans /\ plan'[worker'[v].plan] \in Released
             /\ \A r \in worker'[v].todo : rec'[r].plan = worker'[v].plan
             /\ worker'[v].pc = "call" =>
                  worker'[v].cur \in Records /\ rec'[worker'[v].cur].plan = worker'[v].plan
  <2>1. CASE v = w
    BY <1>1, <1>3, <2>1 DEF JobOf
  <2>2. CASE v # w
    BY <1>1, <1>2, <1>3, <2>2 DEF ReleasedInv, JobsReleased
  <2> QED BY <2>1, <2>2
<1>4. JobsReleased'
  BY <1>3 DEF ReleasedInv, JobsReleased
<1>5. SentReleased'
  BY DEF ReleasedInv, SentReleased
<1>6. WritesReleased' /\ NoButton'
  BY DEF ReleasedInv, WritesReleased, NoButton
<1> QED BY <1>4, <1>5, <1>6 DEF ReleasedInv

\* A delivered job was queued, hence its plan has been READY.
LEMMA QueuedJob ==
  ASSUME TypeOK, NEW pl \in Plans,
         queue[pl] > Cardinality(Running(pl)) \/ (MayRedeliver /\ queue[pl] > 0)
  PROVE  queue[pl] > 0
<1>1. IsFiniteSet(Running(pl))
  BY DispatchAssumption, FS_Subset DEF Running
<1>2. Cardinality(Running(pl)) \in Nat
  BY <1>1, FS_CardinalityType
<1>3. queue[pl] \in Nat
  BY DispatchAssumption DEF TypeOK
<1> QED BY <1>2, <1>3

LEMMA WorkerReleased ==
  ASSUME TypeOK, ReleasedInv, NEW w \in Workers,
         \/ \E pl \in Plans : Deliver(w, pl)
         \/ WorkerLock(w) \/ JobStep(w) \/ CallRaise(w) \/ Crash(w)
  PROVE  ReleasedInv'
<1>1. PICK u \in Worker : u = worker[w] /\ JobOf(u)
  BY DEF TypeOK, ReleasedInv, JobsReleased, JobOf
<1>2. u.todo \subseteq Records
  BY DEF Worker
<1>3. JobOf(RestingWorker) /\ RestingWorker.todo = {}
  BY DEF JobOf, RestingWorker
<1>4. \A pl \in Plans : Acked(u.plan) => (queue'[pl] > 0 => queue[pl] > 0)
  BY DispatchAssumption DEF Acked, TypeOK
<1>5. ASSUME NEW pl \in Plans, Deliver(w, pl) PROVE ReleasedInv'
  <2>1. PICK x : x = [u EXCEPT !.pc = "lock", !.plan = pl]
    OBVIOUS
  <2>2. x.pc = "lock" /\ x.plan = pl /\ x.todo = u.todo
    BY <2>1 DEF Worker
  <2>3. worker' = [worker EXCEPT ![w] = x] /\ UNCHANGED <<plan, rec, client, beat, queue, sent>>
        /\ u.todo = {}
    <3>1. u = RestingWorker
      BY <1>1, <1>5 DEF Deliver
    <3>2. u.todo = {}
      BY <3>1 DEF RestingWorker
    <3>3. worker' = [worker EXCEPT ![w] = x]
      BY <1>1, <1>5, <2>1 DEF Deliver
    <3> QED BY <1>5, <3>2, <3>3 DEF Deliver, faults
  <2>4. plan[pl] \in Released
    BY <1>5, QueuedJob DEF Deliver, ReleasedInv, JobsReleased
  <2>5. JobOf(x)
    BY <2>2, <2>3, <2>4 DEF JobOf
  <2> QED BY <1>2, <2>2, <2>3, <2>5, JobFrame
<1>6. CASE WorkerLock(w)
  <2>1. PICK x : x = [u EXCEPT !.pc = "select"]
    OBVIOUS
  <2>2. x.pc = "select" /\ x.plan = u.plan /\ x.todo = u.todo
    BY <2>1 DEF Worker
  <2>3. worker' = [worker EXCEPT ![w] = x] /\ UNCHANGED <<plan, rec, client, beat, queue, sent>>
        /\ u.pc # "idle"
    BY <1>1, <1>6, <2>1 DEF WorkerLock, faults
  <2>4. JobOf(x)
    BY <1>1, <2>2, <2>3 DEF JobOf
  <2> QED BY <1>2, <2>2, <2>3, <2>4, JobFrame
<1>7. CASE Select(w)
  <2> DEFINE pending == {r \in Records : rec[r].plan = u.plan /\ rec[r].status = "PENDING"}
  <2>1. PICK x : x = [u EXCEPT !.pc = "loop", !.todo = pending, !.some = pending # {}]
    OBVIOUS
  <2>2. x.pc = "loop" /\ x.plan = u.plan /\ x.todo = pending
    BY <2>1 DEF Worker
  <2>3. worker' = [worker EXCEPT ![w] = x] /\ UNCHANGED <<plan, rec, client, beat, queue, sent>>
        /\ u.pc # "idle"
    BY <1>1, <1>7, <2>1 DEF Select, faults
  <2>4. JobOf(x) /\ x.todo \subseteq Records
    BY <1>1, <2>2, <2>3 DEF JobOf
  <2> QED BY <2>3, <2>4, JobFrame
<1>8. ASSUME NEW r \in Records, CallBegin(w, r) PROVE ReleasedInv'
  <2>1. PICK next : next = [u EXCEPT !.todo = u.todo \ {r}]
    OBVIOUS
  <2>2. next.pc = u.pc /\ next.plan = u.plan /\ next.todo = u.todo \ {r} /\ next \in Worker
    BY <2>1 DEF Worker
  <2>3. PICK x : /\ worker' = [worker EXCEPT ![w] = x]
                 /\ \/ x = [next EXCEPT !.pc = "call", !.cur = r]
                    \/ x = next
                    \/ x = [next EXCEPT !.bad = TRUE]
    BY <1>1, <1>8, <2>1 DEF CallBegin
  <2>4. /\ x.plan = u.plan /\ x.todo = u.todo \ {r} /\ x.pc \in {u.pc, "call"}
        /\ x.pc = "call" => x.cur = r \/ u.pc = "call"
    BY <2>2, <2>3 DEF Worker
  <2>5. u.pc = "loop" /\ r \in u.todo /\ UNCHANGED <<plan, rec, client, beat, queue, sent>>
    BY <1>1, <1>8 DEF CallBegin, faults
  <2>6. JobOf(x)
    BY <1>1, <2>4, <2>5 DEF JobOf
  <2> QED BY <1>2, <2>3, <2>4, <2>5, <2>6, JobFrame
<1>9. CASE CallEnd(w)
  <2>1. PICK returned \in BOOLEAN :
          /\ CallEnds(u.cur, returned)
          /\ worker' = [worker EXCEPT ![w] = [worker[w] EXCEPT !.pc = "loop", !.cur = NoRecord,
                                                       !.bad = worker[w].bad \/ ~returned]]
    BY <1>1, <1>9 DEF CallEnd
  <2>2. PICK x : x = [u EXCEPT !.pc = "loop", !.cur = NoRecord, !.bad = u.bad \/ ~returned]
    OBVIOUS
  <2>3. x.pc = "loop" /\ x.plan = u.plan /\ x.todo = u.todo
    BY <2>2 DEF Worker
  <2>4. worker' = [worker EXCEPT ![w] = x] /\ UNCHANGED <<plan, client, beat, queue>> /\ u.pc = "call"
    BY <1>1, <1>9, <2>1, <2>2 DEF CallEnd
  <2>5. u.cur \in Records /\ rec[u.cur].plan = u.plan /\ u.plan \in Plans /\ plan[u.plan] \in Released
    BY <1>1, <2>4 DEF JobOf
  <2>6. \A r \in Records : rec'[r].plan = rec[r].plan
    BY <2>1, <2>5 DEF CallEnds, TypeOK, Record
  <2>7. \A r \in Records : sent'[r] > 0 =>
           sent[r] > 0 \/ (rec[r].plan \in Plans /\ plan[rec[r].plan] \in Released)
    BY <2>1, <2>5 DEF CallEnds, Accept, TypeOK
  <2>8. JobOf(x)
    BY <1>1, <2>3, <2>4 DEF JobOf
  <2> QED BY <1>2, <2>3, <2>4, <2>6, <2>7, <2>8, JobFrame
<1>10. CASE NotifyEnd(w)
  <2>1. PICK x : x = [u EXCEPT !.pc = "release"]
    OBVIOUS
  <2>2. x.pc = "release" /\ x.plan = u.plan /\ x.todo = u.todo
    BY <2>1 DEF Worker
  <2>3. worker' = [worker EXCEPT ![w] = x] /\ UNCHANGED <<rec, client, beat, queue, sent>>
        /\ u.pc = "loop"
    BY <1>1, <1>10, <2>1 DEF NotifyEnd, faults
  <2>4. JobOf(x) /\ u.plan \in Plans /\ plan[u.plan] \in Released
    BY <1>1, <2>2, <2>3 DEF JobOf
  <2>5. plan' = plan \/ plan' = [plan EXCEPT ![u.plan] = "PROCESSED"]
    BY <1>1, <1>10 DEF NotifyEnd, SetStatus
  <2>6. \A pl \in Plans : /\ plan[pl] \in Released => plan'[pl] \in Released
                          /\ plan'[pl] = plan[pl] \/ plan[pl] \in Released
    BY <2>4, <2>5 DEF TypeOK, Released
  <2> QED BY <1>2, <2>2, <2>3, <2>4, <2>6, JobFrame
<1>11. CASE Release(w) \/ CallRaise(w)
  <2>1. /\ worker' = [worker EXCEPT ![w] = RestingWorker] /\ Acked(u.plan)
        /\ UNCHANGED <<plan, rec, client, beat, sent>>
    BY <1>1, <1>11 DEF Release, CallRaise, faults
  <2> QED BY <1>3, <1>4, <2>1, JobFrame
<1>12. CASE Crash(w)
  <2>1. /\ worker' = [worker EXCEPT ![w] = RestingWorker]
        /\ UNCHANGED <<plan, rec, client, beat, queue>>
    BY <1>12 DEF Crash
  <2>2. \A r \in Records : sent'[r] > 0 =>
           sent[r] > 0 \/ (rec[r].plan \in Plans /\ plan[rec[r].plan] \in Released)
    <3>1. CASE UNCHANGED sent
      BY <3>1
    <3>2. CASE u.pc = "call" /\ Accept(u.cur)
      <4>1. u.cur \in Records /\ rec[u.cur].plan \in Plans /\ plan[rec[u.cur].plan] \in Released
        BY <1>1, <3>2 DEF JobOf
      <4> QED BY <3>2, <4>1 DEF Accept, TypeOK
    <3> QED BY <1>1, <1>12, <3>1, <3>2 DEF Crash
  <2> QED BY <1>3, <2>1, <2>2, JobFrame
<1> QED BY <1>5, <1>6, <1>7, <1>8, <1>9, <1>10, <1>11, <1>12 DEF JobStep

\* The invariant holds in every reachable state.
LEMMA ReleasedAlways ==
  ASSUME "send" \notin Verbs, \A a, b \in Clients : a = b
  PROVE  Spec => []ReleasedInv
<1>1. ASSUME TypeOK, ReleasedInv, [Next]_vars
      PROVE  ReleasedInv'
  <2>1. CASE LockExpire
    BY <1>1, <2>1 DEF LockExpire, faults, ReleasedInv, NoButton, JobsReleased, WritesReleased, SentReleased
  <2>2. CASE UNCHANGED vars
    BY <1>1, <2>2 DEF vars, ReleasedInv, NoButton, JobsReleased, WritesReleased, SentReleased
  <2> QED BY <1>1, <2>1, <2>2, ClientReleased, BeatReleased, WorkerReleased DEF Next
<1>2. TypeOK /\ ReleasedInv /\ [Next]_vars => ReleasedInv'
  BY <1>1
<1> QED
  BY <1>2, ReleasedInit, DispatchTypeCorrect, PTL DEF Spec

\* A record is sent only for a plan that has been READY: with one client and without
\* the Send Money button, for any plans, records, workers, kills and errors.
THEOREM OnlyReleased ==
  ASSUME "send" \notin Verbs, \A a, b \in Clients : a = b
  PROVE  Spec => []SentOnlyReleased
<1>1. ReleasedInv => SentOnlyReleased
  BY DEF ReleasedInv, SentReleased, SentOnlyReleased, Released
<1> QED
  BY <1>1, ReleasedAlways, PTL

-----------------------------------------------------------------------------
(* No payment is forgotten in a PROCESSED plan.  A job leaves a record behind *)
(* that is still PENDING only when its validation failed, and what is added   *)
(* to a plan is added before the plan is released.                            *)

LEMMA TriedInit == Init => TriedInv
<1> SUFFICES ASSUME Init PROVE TriedInv
  OBVIOUS
<1>1. Forgotten = {}
  BY DEF Init, Forgotten, Absent
<1>2. \A w \in Workers : Behind(w) = {}
  BY DEF Init, Behind, RestingWorker
<1>3. Missed = {}
  BY <1>1, <1>2 DEF Missed
<1>4. MissedFew
  BY <1>3, FS_EmptySet DEF MissedFew, Init
<1>5. ClientMarks
  BY DEF Init, ClientMarks, RestingClient
<1> QED BY <1>4, <1>5 DEF TriedInv

\* A step that misses no other record, or one more when a validation fails.
LEMMA MissesFew ==
  ASSUME TypeOK, MissedFew,
         \/ Missed' \subseteq Missed /\ retries' = retries
         \/ \E r : Missed' \subseteq Missed \cup {r} /\ retries' = retries + 1
  PROVE  MissedFew'
<1>1. IsFiniteSet(Missed) /\ Cardinality(Missed) \in Nat /\ Cardinality(Missed) <= retries
  BY FS_CardinalityType DEF MissedFew
<1>2. retries \in Nat
  BY DispatchAssumption DEF TypeOK
<1>3. CASE Missed' \subseteq Missed /\ retries' = retries
  <2>1. /\ IsFiniteSet(Missed') /\ Cardinality(Missed') <= Cardinality(Missed)
        /\ Cardinality(Missed') \in Nat
    BY <1>1, <1>3, FS_Subset, FS_CardinalityType
  <2> QED BY <1>1, <1>2, <1>3, <2>1 DEF MissedFew
<1>4. ASSUME NEW r, Missed' \subseteq Missed \cup {r}, retries' = retries + 1
      PROVE  MissedFew'
  <2>1. /\ IsFiniteSet(Missed \cup {r}) /\ Cardinality(Missed \cup {r}) \in Nat
        /\ Cardinality(Missed \cup {r}) <= Cardinality(Missed) + 1
    BY <1>1, FS_AddElement, FS_CardinalityType
  <2>2. /\ IsFiniteSet(Missed') /\ Cardinality(Missed') <= Cardinality(Missed \cup {r})
        /\ Cardinality(Missed') \in Nat
    BY <1>4, <2>1, FS_Subset, FS_CardinalityType
  <2> QED BY <1>1, <1>2, <1>4, <2>1, <2>2 DEF MissedFew
<1> QED BY <1>3, <1>4

\* What a client marks and where it adds, by what it has in hand after its step.
LEMMA ClientTried ==
  ASSUME Verbs \cap {"send", "import", "process"} = {}, \A a, b \in Clients : a = b,
         TypeOK, ReleasedInv, TriedInv, NEW c \in Clients, ClientStep(c)
  PROVE  TriedInv'
<1>t. /\ client[c] \in Client /\ client \in [Clients -> Client]
      /\ plan \in [Plans -> InstructionStates] /\ rec \in [Records -> Record]
  BY DEF TypeOK
<1>m. /\ MissedFew
      /\ client[c].pc \in {"save", "again"} /\ client[c].copy = "PROCESSED"
           => plan[client[c].plan] = "PROCESSED"
      /\ client[c].pc = "add" => client[c].plan \in Plans /\ plan[client[c].plan] = "OPEN"
  BY DEF TriedInv, ClientMarks
<1>r. UNCHANGED <<worker, retries>>
  BY DEF ClientStep, AddRead, EditRead, ChangeRead, AddSave, SendRead, ChangeSave, AddEnd,
         SendEnd, ReleasedInv, NoButton, faults
<1>1. ASSUME NEW x, client' = [client EXCEPT ![c] = x], UNCHANGED plan,
             x.pc \in {"save", "again"} /\ x.copy = "PROCESSED" => plan[x.plan] = "PROCESSED",
             x.pc = "add" => x.plan \in Plans /\ plan[x.plan] = "OPEN"
      PROVE  ClientMarks'
  BY <1>1, <1>t DEF ClientMarks
<1>2. ASSUME UNCHANGED <<plan, rec>> PROVE MissedFew'
  <2>1. Missed' = Missed
    BY <1>2, <1>r DEF Missed, Forgotten, Behind
  <2> QED BY <1>m, <1>r, <2>1, MissesFew
<1>3. ASSUME NEW pl \in Plans, AddRead(c, pl) PROVE TriedInv'
  <2>1. PICK x : x = [client[c] EXCEPT !.pc = "add", !.plan = pl]
    OBVIOUS
  <2>2. x.pc = "add" /\ x.plan = pl
    BY <1>t, <2>1 DEF Client
  <2>3. client' = [client EXCEPT ![c] = x] /\ UNCHANGED <<plan, rec>> /\ plan[pl] = "OPEN"
    BY <1>3, <2>1 DEF AddRead
  <2> QED BY <1>1, <1>2, <2>2, <2>3 DEF TriedInv
<1>4. ASSUME NEW pl \in Plans, EditRead(c, pl) PROVE TriedInv'
  <2>1. PICK x : x = [client[c] EXCEPT !.pc = "again", !.plan = pl, !.copy = plan[pl]]
    OBVIOUS
  <2>2. x.pc = "again" /\ x.plan = pl /\ x.copy = plan[pl]
    BY <1>t, <2>1 DEF Client
  <2>3. client' = [client EXCEPT ![c] = x] /\ UNCHANGED <<plan, rec>>
    BY <1>4, <2>1 DEF EditRead
  <2> QED BY <1>1, <1>2, <2>2, <2>3 DEF TriedInv
<1>5. ASSUME NEW pl \in Plans, NEW t \in Transitions, ChangeRead(c, pl, t) PROVE TriedInv'
  <2>1. PICK x : x = [client[c] EXCEPT !.pc = "save", !.plan = pl, !.copy = InstructionFlow[t].to]
    OBVIOUS
  <2>2. x.pc = "save" /\ x.plan = pl /\ x.copy = InstructionFlow[t].to
    BY <1>t, <2>1 DEF Client
  <2>3. client' = [client EXCEPT ![c] = x] /\ UNCHANGED <<plan, rec>> /\ t \in Verbs
    BY <1>5, <2>1 DEF ChangeRead
  <2>4. t # "process"
    BY <2>3
  <2>5. InstructionFlow[t].to # "PROCESSED"
    BY <2>4 DEF InstructionFlow, Transitions
  <2> QED BY <1>1, <1>2, <2>2, <2>3, <2>5 DEF TriedInv
<1>6. CASE ChangeSave(c)
  <2>1. /\ client[c].pc \in {"save", "again"} /\ client[c].plan \in Plans
        /\ plan' = [plan EXCEPT ![client[c].plan] = client[c].copy]
        /\ UNCHANGED rec
    BY <1>6 DEF ChangeSave, SetStatus, ReleasedInv, WritesReleased
  <2>2. \A pl \in Plans : plan'[pl] = "PROCESSED" => plan[pl] = "PROCESSED"
    BY <1>m, <1>t, <2>1
  <2>3. Missed' \subseteq Missed
    <3> SUFFICES ASSUME NEW r \in Forgotten' PROVE r \in Forgotten
      BY <1>r, <2>1 DEF Missed, Behind
    <3>1. rec[r].plan \in Plans
      BY <1>t, <2>1 DEF Forgotten, Record
    <3> QED BY <2>1, <2>2, <3>1 DEF Forgotten
  <2>4. ClientMarks'
    <3>1. plan'[client[c].plan] = client[c].copy
      BY <1>t, <2>1
    <3>2. client' = [client EXCEPT ![c] = IF client[c].pc = "save" THEN [client[c] EXCEPT !.pc = "again"]
                                                                    ELSE RestingClient]
      BY <1>6 DEF ChangeSave
    <3>3. \/ client'[c] = RestingClient
          \/ client'[c] = [client[c] EXCEPT !.pc = "again"]
      BY <1>t, <3>2
    <3>4. RestingClient.pc = "idle"
      BY DEF RestingClient
    <3>5. \/ client'[c].pc = "idle"
          \/ /\ client'[c].pc = "again" /\ client'[c].plan = client[c].plan
             /\ client'[c].copy = client[c].copy
      BY <1>t, <3>3, <3>4 DEF Client
    <3>6. \A d \in Clients : d = c
      OBVIOUS
    <3> QED BY <3>1, <3>5, <3>6 DEF ClientMarks
  <2> QED BY <1>m, <1>r, <2>3, <2>4, MissesFew DEF TriedInv
<1>7. CASE AddEnd(c)
  <2>1. client' = [client EXCEPT ![c] = RestingClient] /\ UNCHANGED <<plan, rec>>
    BY <1>7 DEF AddEnd
  <2>2. RestingClient.pc = "idle"
    BY DEF RestingClient
  <2> QED BY <1>1, <1>2, <2>1, <2>2 DEF TriedInv
<1>8. ASSUME NEW s \in Records, AddSave(c, s) PROVE TriedInv'
  <2>1. /\ rec' = [rec EXCEPT ![s].plan = client[c].plan] /\ UNCHANGED <<plan, client>>
        /\ client[c].plan \in Plans /\ plan[client[c].plan] = "OPEN"
    BY <1>8, <1>m DEF AddSave
  <2>2. /\ rec'[s].plan = client[c].plan
        /\ \A r \in Records : r # s => rec'[r] = rec[r]
    BY <1>t, <2>1 DEF Record
  <2>3. s \notin Forgotten'
    BY <2>1, <2>2 DEF Forgotten
  <2>4. ASSUME NEW w \in Workers PROVE s \notin Behind(w)'
    BY <1>r, <2>1, <2>2 DEF Behind, ReleasedInv, JobsReleased, Released
  <2>5. Missed' \subseteq Missed
    <3> SUFFICES ASSUME NEW r \in Missed' PROVE r \in Missed
      OBVIOUS
    <3>1. r # s /\ r \in Records
      BY <2>3, <2>4 DEF Missed, Forgotten, Behind
    <3>2. rec'[r] = rec[r]
      BY <2>2, <3>1
    <3> QED BY <1>r, <2>1, <3>1, <3>2 DEF Missed, Forgotten, Behind
  <2>6. ClientMarks'
    BY <2>1 DEF TriedInv, ClientMarks
  <2> QED BY <1>m, <1>r, <2>5, <2>6, MissesFew DEF TriedInv
<1>9. ASSUME NEW r \in Records, SendRead(c, r) PROVE FALSE
  BY <1>9 DEF SendRead
<1>10. ~SendEnd(c)
  BY DEF SendEnd, ReleasedInv, NoButton
<1> QED BY <1>3, <1>4, <1>5, <1>6, <1>7, <1>8, <1>9, <1>10 DEF ClientStep

\* What has to hold of a step of worker w: what is missed afterwards, other workers and
\* the clients being as they were.
LEMMA WorkerFewer ==
  ASSUME TypeOK, TriedInv, NEW w \in Workers, NEW x, worker' = [worker EXCEPT ![w] = x],
         UNCHANGED <<plan, rec, client, retries>>,
         x.pc \in {"loop", "call"} =>
           /\ x.plan = worker[w].plan
           /\ \A r \in Records :
                rec[r].plan = x.plan /\ rec[r].status = "PENDING" /\ r \notin x.todo
                /\ (x.pc = "call" => r # x.cur) => r \in Behind(w)
  PROVE  TriedInv'
<1>1. worker'[w] = x /\ \A v \in Workers \ {w} : worker'[v] = worker[v]
  BY DEF TypeOK
<1>2. Behind(w)' \subseteq Behind(w)
  BY <1>1 DEF Behind
<1>3. \A v \in Workers \ {w} : Behind(v)' = Behind(v)
  BY <1>1 DEF Behind
<1>4. Forgotten' = Forgotten
  BY DEF Forgotten
<1>5. Missed' \subseteq Missed
  BY <1>2, <1>3, <1>4 DEF Missed
<1>6. MissedFew'
  BY <1>5, MissesFew DEF TriedInv
<1>7. ClientMarks'
  BY DEF TriedInv, ClientMarks
<1> QED BY <1>6, <1>7 DEF TriedInv

LEMMA WorkerTried ==
  ASSUME TypeOK, ReleasedInv, TriedInv, NEW w \in Workers,
         \/ \E pl \in Plans : Deliver(w, pl)
         \/ WorkerLock(w) \/ JobStep(w) \/ CallRaise(w) \/ Crash(w)
  PROVE  TriedInv'
<1>1. PICK u \in Worker : u = worker[w]
  BY DEF TypeOK
<1>2. /\ worker \in [Workers -> Worker] /\ rec \in [Records -> Record]
      /\ plan \in [Plans -> InstructionStates]
  BY DEF TypeOK
<1>3. MissedFew /\ ClientMarks
  BY DEF TriedInv
<1>4. RestingWorker.pc = "idle"
  BY DEF RestingWorker
<1>5. CASE \E pl \in Plans : Deliver(w, pl)
  <2>1. PICK pl \in Plans : Deliver(w, pl)
    BY <1>5
  <2>2. PICK x : x = [u EXCEPT !.pc = "lock", !.plan = pl]
    OBVIOUS
  <2>3. x.pc = "lock"
    BY <2>2 DEF Worker
  <2>4. worker' = [worker EXCEPT ![w] = x] /\ UNCHANGED <<plan, rec, client, retries>>
    BY <1>1, <2>1, <2>2 DEF Deliver, faults
  <2> QED BY <2>3, <2>4, WorkerFewer
<1>6. CASE WorkerLock(w)
  <2>1. PICK x : x = [u EXCEPT !.pc = "select"]
    OBVIOUS
  <2>2. x.pc = "select"
    BY <2>1 DEF Worker
  <2>3. worker' = [worker EXCEPT ![w] = x] /\ UNCHANGED <<plan, rec, client, retries>>
    BY <1>1, <1>6, <2>1 DEF WorkerLock, faults
  <2> QED BY <2>2, <2>3, WorkerFewer
<1>7. CASE Select(w)
  <2> DEFINE pending == {r \in Records : rec[r].plan = u.plan /\ rec[r].status = "PENDING"}
  <2>1. PICK x : x = [u EXCEPT !.pc = "loop", !.todo = pending, !.some = pending # {}]
    OBVIOUS
  <2>2. x.pc = "loop" /\ x.plan = u.plan /\ x.todo = pending
    BY <2>1 DEF Worker
  <2>3. worker' = [worker EXCEPT ![w] = x] /\ UNCHANGED <<plan, rec, client, retries>>
    BY <1>1, <1>7, <2>1 DEF Select, faults
  <2> QED BY <1>1, <2>2, <2>3, WorkerFewer
<1>8. CASE \E r \in Records : CallBegin(w, r)
  <2>1. PICK r \in Records : CallBegin(w, r)
    BY <1>8
  <2>2. PICK next : next = [u EXCEPT !.todo = u.todo \ {r}]
    OBVIOUS
  <2>3. next.pc = u.pc /\ next.plan = u.plan /\ next.todo = u.todo \ {r} /\ next \in Worker
    BY <2>2 DEF Worker
  <2>4. PICK x : /\ worker' = [worker EXCEPT ![w] = x]
                 /\ \/ x = [next EXCEPT !.pc = "call", !.cur = r]
                    \/ x = next /\ rec[r].status # "PENDING"
                    \/ x = [next EXCEPT !.bad = TRUE] /\ rec[r].status # "PENDING"
    BY <1>1, <2>1, <2>2 DEF CallBegin
  <2>5. /\ x.plan = u.plan /\ x.todo = u.todo \ {r}
        /\ \/ x.pc = "call" /\ x.cur = r
           \/ x.pc = u.pc /\ rec[r].status # "PENDING"
    BY <2>3, <2>4 DEF Worker
  <2>6. u.pc = "loop" /\ UNCHANGED <<plan, rec, client, retries>>
    BY <1>1, <2>1 DEF CallBegin, faults
  <2>7. ASSUME NEW q \in Records, rec[q].plan = x.plan, rec[q].status = "PENDING",
               q \notin x.todo, x.pc = "call" => q # x.cur
        PROVE  q \in Behind(w)
    BY <1>1, <2>5, <2>6, <2>7 DEF Behind
  <2> QED BY <1>1, <2>4, <2>5, <2>6, <2>7, WorkerFewer
<1>9. CASE CallEnd(w)
  <2>1. PICK returned \in BOOLEAN :
          /\ CallEnds(u.cur, returned)
          /\ worker' = [worker EXCEPT ![w] = [worker[w] EXCEPT !.pc = "loop", !.cur = NoRecord,
                                                       !.bad = worker[w].bad \/ ~returned]]
    BY <1>1, <1>9 DEF CallEnd
  <2>2. /\ worker'[w].pc = "loop" /\ worker'[w].plan = u.plan /\ worker'[w].todo = u.todo
        /\ \A v \in Workers \ {w} : worker'[v] = worker[v]
    BY <1>1, <1>2, <2>1 DEF Worker
  <2>3. u.pc = "call" /\ UNCHANGED <<plan, client>>
    BY <1>1, <1>9 DEF CallEnd
  <2>4. u.cur \in Records
    BY <1>1, <2>3 DEF ReleasedInv, JobsReleased
  <2>5. \A q \in Records :
          /\ rec'[q].plan = rec[q].plan
          /\ rec'[q].status = "PENDING" => rec[q].status = "PENDING"
    BY <1>2, <2>1, <2>4 DEF CallEnds, Record, RecordFlow
  <2>6. Forgotten' \subseteq Forgotten
    BY <2>3, <2>5 DEF Forgotten
  <2>7. \A v \in Workers \ {w} : Behind(v)' \subseteq Behind(v)
    BY <2>2, <2>5 DEF Behind
  <2>8. Behind(w)' \subseteq Behind(w) \cup {u.cur}
    BY <1>1, <2>2, <2>3, <2>5 DEF Behind
  <2>9. Missed' \subseteq Missed \cup {u.cur}
    BY <2>6, <2>7, <2>8 DEF Missed
  <2>10. ASSUME retries' = retries + 1 PROVE MissedFew'
    <3>1. \E r : Missed' \subseteq Missed \cup {r} /\ retries' = retries + 1
      BY <2>9, <2>10
    <3> QED BY <1>3, <3>1, MissesFew
  <2>11. ASSUME retries' # retries + 1 PROVE MissedFew'
    <3>1. retries' = retries /\ rec'[u.cur].status # "PENDING"
      BY <1>2, <2>1, <2>4, <2>11 DEF CallEnds, Record, RecordFlow
    <3>2. u.cur \notin Missed'
      BY <3>1 DEF Missed, Forgotten, Behind
    <3>3. Missed' \subseteq Missed
      BY <2>9, <3>2
    <3> QED BY <1>3, <3>1, <3>3, MissesFew
  <2>12. ClientMarks'
    BY <1>3, <2>3 DEF ClientMarks
  <2> QED BY <2>10, <2>11, <2>12 DEF TriedInv
<1>10. CASE NotifyEnd(w)
  <2>1. /\ u.pc = "loop" /\ u.todo = {} /\ UNCHANGED <<rec, client, retries>>
        /\ plan' = plan \/ plan' = [plan EXCEPT ![u.plan] = "PROCESSED"]
        /\ worker' = [worker EXCEPT ![w].pc = "release"]
    BY <1>1, <1>10 DEF NotifyEnd, SetStatus, faults
  <2>2. u.plan \in Plans /\ plan[u.plan] \in Released
    BY <1>1, <2>1 DEF ReleasedInv, JobsReleased
  <2>3. /\ worker'[w].pc = "release"
        /\ \A v \in Workers \ {w} : worker'[v] = worker[v]
    BY <1>2, <2>1 DEF Worker
  <2>4. \A v \in Workers : Behind(v)' \subseteq Behind(v)
    BY <2>1, <2>3 DEF Behind
  <2>5. Forgotten' \subseteq Forgotten \cup Behind(w)
    <3> SUFFICES ASSUME NEW r \in Forgotten', r \notin Forgotten PROVE r \in Behind(w)
      OBVIOUS
    <3>1. rec[r].plan \in Plans
      BY <1>2, <2>1 DEF Forgotten, Record
    <3>2. rec[r].plan = u.plan
      BY <1>2, <2>1, <3>1 DEF Forgotten
    <3> QED BY <1>1, <2>1, <3>2 DEF Forgotten, Behind
  <2>6. Missed' \subseteq Missed
    BY <2>4, <2>5 DEF Missed
  <2>7. \A pl \in Plans : plan'[pl] = plan[pl] \/ (plan'[pl] = "PROCESSED" /\ plan[pl] \in Released)
    BY <1>2, <2>1, <2>2
  <2>8. \A c \in Clients : client[c].pc \in {"save", "again"} => client[c].plan \in Plans
    BY DEF ReleasedInv, WritesReleased
  <2>9. ClientMarks'
    BY <1>3, <2>1, <2>7, <2>8 DEF ClientMarks, Released
  <2> QED BY <1>3, <2>1, <2>6, <2>9, MissesFew DEF TriedInv
<1>11. CASE Release(w) \/ CallRaise(w) \/ Crash(w)
  <2>1. PICK x : x = RestingWorker
    OBVIOUS
  <2>2. worker' = [worker EXCEPT ![w] = x] /\ UNCHANGED <<plan, rec, client, retries>>
    BY <1>11, <2>1 DEF Release, CallRaise, Crash, faults
  <2> QED BY <1>4, <2>1, <2>2, WorkerFewer
<1> QED BY <1>5, <1>6, <1>7, <1>8, <1>9, <1>10, <1>11 DEF JobStep

\* However many jobs run a plan, are killed or cut short, a PROCESSED plan has no more
\* PENDING records than validations have failed: with one client, while the dispatcher
\* alone marks plans and records are added to OPEN plans.
THEOREM NothingForgotten ==
  ASSUME Verbs \cap {"send", "import", "process"} = {}, \A a, b \in Clients : a = b
  PROVE  Spec => []AllTried
<1>0. "send" \notin Verbs
  OBVIOUS
<1>1. ASSUME TypeOK, TriedInv PROVE AllTried
  <2>1. Forgotten \subseteq Missed /\ IsFiniteSet(Missed) /\ Cardinality(Missed) <= retries
    BY <1>1 DEF Missed, TriedInv, MissedFew
  <2>2. /\ Cardinality(Forgotten) \in Nat /\ Cardinality(Missed) \in Nat
        /\ Cardinality(Forgotten) <= Cardinality(Missed)
    BY <2>1, FS_Subset, FS_CardinalityType
  <2>3. retries \in Nat
    BY <1>1, DispatchAssumption DEF TypeOK
  <2> QED BY <2>1, <2>2, <2>3 DEF AllTried
<1>2. ASSUME TypeOK, ReleasedInv, TriedInv, [Next]_vars
      PROVE  TriedInv'
  <2>1. ASSUME UNCHANGED <<plan, rec, client, worker, retries>> PROVE TriedInv'
    BY <1>2, <2>1 DEF TriedInv, MissedFew, Missed, Forgotten, Behind, ClientMarks
  <2>2. CASE LockExpire \/ UNCHANGED vars
    BY <2>1, <2>2 DEF LockExpire, faults, vars
  <2>3. ASSUME NEW b \in Beats, BeatStep(b) \/ BeatRaise(b) PROVE TriedInv'
    BY <2>1, <2>3 DEF BeatStep, BeatRaise, BeatStart, BeatLock, BeatQueue, faults
  <2> QED BY <1>2, <2>2, <2>3, ClientTried, WorkerTried DEF Next
<1>3. TypeOK /\ ReleasedInv /\ TriedInv /\ [Next]_vars => TriedInv'
  BY <1>2
<1>4. TypeOK /\ TriedInv => AllTried
  BY <1>1
<1>5. Spec => []ReleasedInv
  BY <1>0, ReleasedAlways
<1> QED
  BY <1>3, <1>4, <1>5, TriedInit, DispatchTypeCorrect, PTL DEF Spec
===========================================================================
