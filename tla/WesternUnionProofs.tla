------------------------- MODULE WesternUnionProofs -------------------------
(***************************************************************************)
(* Proofs about WesternUnion, for every set of records, control numbers    *)
(* and processes.                                                          *)
(***************************************************************************)
EXTENDS WesternUnionInv, TLAPS

\* A new row and an idle process are well typed.
LEMMA IdleType == NewRow \in Row /\ Idle \in Task /\ Idle.pc = "idle"
BY DEF NewRow, Row, Idle, Task, RecordStates, PCs, Args

\* Nothing the gateway relies on is ever taken back: a number keeps its owner,
\* an accepted transfer was accepted, a notification sent was sent.
Growth ==
  /\ \A c \in Mtcns : /\ owner[c] # NoRecord => owner'[c] = owner[c]
                      /\ Accepted(c) => Accepted(c)'
  /\ nis \subseteq nis'

\* A row that was justified once, in the table or in a copy, stays justified:
\* this is why writing an old copy back does not make the table lie.
LEMMA BackedStable ==
  ASSUME Growth, NEW r \in Records, NEW x \in Row, Backed(r, x)
  PROVE  Backed(r, x)'
<1>1. \A c \in Mtcns : owner[c] = r => owner'[c] = r
  BY ConstantsAssumption DEF Growth
<1>2. x.mtcn # NoMtcn => owner'[x.mtcn] = r
  BY <1>1 DEF Backed, Row
<1>3. (\E c \in Mtcns : owner[c] = r /\ Accepted(c))
        => (\E c \in Mtcns : owner[c] = r /\ Accepted(c))'
  BY <1>1 DEF Growth
<1>4. (\E c \in Mtcns : owner[c] = r /\ PaidOnce(c))
        => (\E c \in Mtcns : owner[c] = r /\ PaidOnce(c))'
  BY <1>1 DEF Growth, PaidOnce
<1> QED
  BY <1>2, <1>3, <1>4 DEF Backed

\* What a process at work knows, create_transaction and the webhook included, stays
\* true while others move.
LEMMA KnowsStable ==
  ASSUME Growth, NEW t \in Task, Knows(t)
  PROVE  Knows(t)'
<1>1. t.rec \in Records /\ t.copy \in Row /\ t.rec # NoRecord
  BY ConstantsAssumption DEF Task, Knows
<1>2. Backed(t.rec, t.copy)'
  BY <1>1, BackedStable DEF Knows
<1> QED
  BY <1>1, <1>2 DEF Knows, PaidOnce, Growth

\* The invariant after a step of process p, from the facts about p alone.
LEMMA Frame ==
  ASSUME Inv, Growth, BooksOK', TypeOK', NEW p \in Procs,
         \A q \in Procs \ {p} : task'[q] = task[q],
         task'[p] # Idle => Knows(task[p])',
         \A r \in Records : row'[r] = row[r] \/ Backed(r, row[r])'
  PROVE  HonestInv'
<1>1. ASSUME NEW q \in Procs, task'[q] # Idle
      PROVE  Knows(task[q])'
  <2>1. CASE q = p
    BY <1>1, <2>1
  <2>2. CASE q # p
    <3>1. PICK u \in Task : u = task[q] /\ u = task'[q]
      BY <2>2 DEF Inv, TypeOK
    <3>2. Knows(u)
      BY <1>1, <3>1 DEF Inv, HonestInv
    <3>3. Knows(u)'
      BY <3>2, KnowsStable
    <3> QED
      BY <3>1, <3>3 DEF Knows
  <2> QED
    BY <2>1, <2>2
<1>2. ASSUME NEW r \in Records
      PROVE  Backed(r, row[r])'
  <2>1. CASE row'[r] = row[r]
    <3>1. PICK x \in Row : x = row[r] /\ x = row'[r]
      BY <2>1 DEF Inv, TypeOK
    <3>2. Backed(r, x)'
      BY <3>1, BackedStable DEF Inv, HonestInv
    <3> QED
      BY <3>1, <3>2 DEF Backed
  <2> QED
    BY <2>1
<1> QED
  BY <1>1, <1>2 DEF HonestInv

\* A step of process p that leaves Western Union alone, ends at the task t and
\* saves at most one row.
LEMMA LocalStep ==
  ASSUME Inv, NEW p \in Procs, NEW t \in Task, Goto(p, t), t # Idle => Knows(t),
         \/ UNCHANGED row
         \/ \E r \in Records, x \in Row : Backed(r, x) /\ Save(r, x),
         UNCHANGED External
  PROVE  Inv'
<1>1. Growth /\ BooksOK'
  BY DEF Inv, HonestInv, BooksOK, Growth, External, PaidOnce, Accepted
<1>2. TypeOK'
  BY DEF Inv, TypeOK, Goto, Save, External
<1>3. task'[p] = t /\ \A q \in Procs \ {p} : task'[q] = task[q]
  BY DEF Inv, TypeOK, Goto
<1>4. task'[p] # Idle => Knows(task[p])'
  BY <1>1, <1>3, KnowsStable DEF Knows
<1>5. ASSUME NEW r \in Records
      PROVE  row'[r] = row[r] \/ Backed(r, row[r])'
  <2>1. CASE UNCHANGED row
    BY <2>1
  <2>2. CASE \E s \in Records, x \in Row : Backed(s, x) /\ Save(s, x)
    <3>1. PICK s \in Records, x \in Row : Backed(s, x) /\ Save(s, x)
      BY <2>2
    <3>2. CASE r = s
      <4>1. Backed(s, x)'
        BY <1>1, <3>1, BackedStable
      <4> QED
        BY <3>1, <3>2, <4>1 DEF Backed, Save, Inv, TypeOK
    <3> QED
      BY <3>1, <3>2 DEF Save, Inv, TypeOK
  <2> QED
    BY <2>1, <2>2
<1> QED
  BY <1>1, <1>2, <1>3, <1>4, <1>5, Frame DEF Inv

\* What is known of a process at work.
LEMMA AtWork ==
  ASSUME Inv, NEW p \in Procs, task[p].pc # "idle"
  PROVE  /\ task[p] \in Task /\ Knows(task[p])
         /\ task[p].rec \in Records /\ task[p].copy \in Row
         /\ Backed(task[p].rec, task[p].copy)
         /\ row[task[p].rec] \in Row /\ Backed(task[p].rec, row[task[p].rec])
BY IdleType DEF Inv, TypeOK, HonestInv, Task, Knows

\* A new status keeps a row justified if the status is.
LEMMA StatusBacked ==
  ASSUME NEW r \in Records, NEW x \in Row, Backed(r, x), NEW s \in RecordStates,
         s \in Transferred => \E c \in Mtcns : owner[c] = r /\ Accepted(c),
         s = "TRANSFERRED_TO_BENEFICIARY" => \E c \in Mtcns : owner[c] = r /\ PaidOnce(c)
  PROVE  [x EXCEPT !.status = s] \in Row /\ Backed(r, [x EXCEPT !.status = s])
BY DEF Backed, Row

\* PaymentRecordFlow.fail and cancel claim nothing, so the row stays justified.
LEMMA FailedBacked ==
  ASSUME NEW r \in Records, NEW x \in Row, Backed(r, x), NEW s \in {"ERROR", "CANCELLED"}
  PROVE  [x EXCEPT !.status = s] \in Row /\ Backed(r, [x EXCEPT !.status = s])
BY StatusBacked DEF RecordStates, Transferred

\* The transitions of PaymentRecordFlow the proofs look at one by one.
LEMMA FlowTargets ==
  /\ RecordFlow.store.to = "TRANSFERRED_TO_FSP" /\ RecordFlow.store.from = {"PENDING"}
  /\ RecordFlow.fail.to = "ERROR" /\ RecordFlow.cancel.to = "CANCELLED"
BY DEF RecordFlow

\* The closing save of whoever has one.
LEMMA SaveAgainHonest ==
  ASSUME Inv, NEW p \in Procs, SaveAgain(p)
  PROVE  Inv'
BY AtWork, IdleType, LocalStep DEF SaveAgain

\* The steps of create_transaction.
LEMMA SendHonest ==
  ASSUME Inv, NEW p \in Senders,
         (\E r \in Records : SendBegin(p, r)) \/ SendStep(p) \/ Crash(p)
  PROVE  Inv'
<1>0. p \in Procs /\ task[p] \in Task
  BY DEF Procs, Inv, TypeOK
<1> DEFINE failed == [task[p].copy EXCEPT !.status = "ERROR"]
<1>1. CASE \E r \in Records : SendBegin(p, r)
  <2>1. PICK r \in Records : SendBegin(p, r)
    BY <1>1
  <2> DEFINE t == [Idle EXCEPT !.pc = "validate", !.rec = r, !.copy = row[r]]
  <2>2. row[r] \in Row /\ Backed(r, row[r])
    BY DEF Inv, TypeOK, HonestInv
  <2>3. t \in Task /\ Knows(t)
    BY <2>2, IdleType DEF Task, PCs, Idle, Args, Knows
  <2> QED
    BY <1>0, <2>1, <2>3, LocalStep DEF SendBegin, External
<1>2. CASE SendPayloadError(p)
  <2>1. failed \in Row /\ Backed(task[p].rec, failed) /\ task[p].rec \in Records
    BY <1>0, <1>2, AtWork, FailedBacked DEF SendPayloadError
  <2> QED
    BY <1>0, <1>2, <2>1, IdleType, LocalStep DEF SendPayloadError
<1>3. CASE \E c \in Mtcns : SendValidated(p, c)
  <2>1. PICK c \in Mtcns : SendValidated(p, c)
    BY <1>3
  <2>2. PICK t \in Task : /\ t = [task[p] EXCEPT !.pc = "codes",
                                    !.copy = row[task[p].rec], !.mtcn = c]
                          /\ Goto(p, t)
    BY <1>0, <2>1, AtWork DEF SendValidated, Task, PCs
  <2>3. Growth /\ BooksOK' /\ TypeOK'
    <3>1. owner[c] = NoRecord /\ ~Accepted(c)
      BY <2>1 DEF SendValidated, Inv, HonestInv, BooksOK, Accepted
    <3>2. \A d \in Mtcns : transfer'[d] = (IF d = c THEN "quoted" ELSE transfer[d])
      BY <2>1 DEF SendValidated, Inv, TypeOK
    <3>3. task[p].rec \in Records /\ task[p].rec # NoRecord
      BY <1>0, <2>1, AtWork, ConstantsAssumption DEF SendValidated
    <3>4. \A d \in Mtcns : owner'[d] = (IF d = c THEN task[p].rec ELSE owner[d])
      BY <2>1 DEF SendValidated, Inv, TypeOK
    <3>5. UNCHANGED nis /\ nis \subseteq Notification
      BY <2>1 DEF SendValidated, Inv, TypeOK
    <3>6. \A d \in Mtcns : Accepted(d)' <=> Accepted(d)
      BY <3>1, <3>2 DEF Accepted
    <3>7. Growth
      BY <3>1, <3>4, <3>5, <3>6 DEF Growth
    <3>8. BooksOK'
      BY <3>2, <3>3, <3>4, <3>5, <3>6 DEF Inv, HonestInv, BooksOK, PaidOnce, Notification
    <3>9. TypeOK'
      BY <1>0, <2>1, <2>2, <3>3
      DEF SendValidated, Inv, TypeOK, Goto, TransferStates
    <3> QED
      BY <3>7, <3>8, <3>9
  <2>4. t.rec \in Records /\ t.rec = task[p].rec /\ Backed(t.rec, t.copy)
        /\ t.pc = "codes" /\ t.mtcn = c /\ t.copy \in Row
    BY <1>0, <2>1, <2>2, AtWork DEF SendValidated, Task
  <2>5. Backed(t.rec, t.copy)' /\ owner'[c] = t.rec
    BY <2>1, <2>3, <2>4, BackedStable DEF SendValidated, Inv, TypeOK
  <2>6. Knows(t)'
    BY <2>4, <2>5 DEF Knows
  <2>7. task'[p] = t /\ \A q \in Procs \ {p} : task'[q] = task[q]
    BY <1>0, <2>2 DEF Goto, Inv, TypeOK
  <2>8. task'[p] # Idle => Knows(task[p])'
    BY <2>6, <2>7 DEF Knows
  <2>9. \A r \in Records : row'[r] = row[r]
    BY <2>1 DEF SendValidated
  <2> QED
    BY <1>0, <2>3, <2>7, <2>8, <2>9, Frame DEF Inv
<1>4. CASE SendInvalid(p)
  <2>1. PICK next \in {"failRejected", "again"} :
          Goto(p, [task[p] EXCEPT !.pc = next, !.copy = row[task[p].rec]])
    BY <1>4 DEF SendInvalid
  <2> DEFINE t == [task[p] EXCEPT !.pc = next, !.copy = row[task[p].rec]]
  <2>2. t \in Task /\ Knows(t)
    BY <1>0, <1>4, AtWork DEF SendInvalid, Task, PCs, Knows
  <2> QED
    BY <1>0, <1>4, <2>1, <2>2, LocalStep DEF SendInvalid, External
<1>5. CASE SendFailRejected(p)
  <2> DEFINE t == [task[p] EXCEPT !.pc = "again", !.copy = failed]
  <2>1. failed \in Row /\ Backed(task[p].rec, failed) /\ task[p].rec \in Records
    BY <1>0, <1>5, AtWork, FailedBacked DEF SendFailRejected
  <2>2. t \in Task /\ Knows(t)
    BY <1>0, <2>1 DEF Task, PCs, Knows
  <2> QED
    BY <1>0, <1>5, <2>1, <2>2, LocalStep, FlowTargets DEF SendFailRejected
<1>6. CASE SendSaveCodes(p)
  <2> DEFINE coded == [task[p].copy EXCEPT !.mtcn = task[p].mtcn]
             t == [task[p] EXCEPT !.pc = "quote", !.copy = coded]
  <2>1. /\ task[p].rec \in Records /\ task[p].copy \in Row /\ Backed(task[p].rec, task[p].copy)
        /\ task[p].mtcn \in Mtcns /\ owner[task[p].mtcn] = task[p].rec
    BY <1>0, <1>6, AtWork DEF SendSaveCodes, Knows
  <2>2. coded \in Row /\ Backed(task[p].rec, coded)
    BY <2>1 DEF Row, Backed
  <2>3. t \in Task /\ Knows(t)
    BY <1>0, <2>1, <2>2 DEF Task, PCs, Knows
  <2> QED
    BY <1>0, <1>6, <2>1, <2>2, <2>3, LocalStep DEF SendSaveCodes
<1>7. CASE SendSaveQuote(p)
  <2> DEFINE t == [task[p] EXCEPT !.pc = "store"]
  <2>1. /\ task[p].rec \in Records /\ task[p].copy \in Row /\ Backed(task[p].rec, task[p].copy)
        /\ task[p].mtcn \in Mtcns /\ owner[task[p].mtcn] = task[p].rec
    BY <1>0, <1>7, AtWork DEF SendSaveQuote, Knows
  <2>2. t \in Task /\ Knows(t)
    BY <1>0, <2>1 DEF Task, PCs, Knows
  <2> QED
    BY <1>0, <1>7, <2>1, <2>2, LocalStep DEF SendSaveQuote
<1>8. CASE SendStore(p)
  <2>1. PICK answer \in {"ok", "error"} :
          /\ Goto(p, [task[p] EXCEPT !.pc = "refresh", !.arg = answer])
          /\ \/ transfer' = [transfer EXCEPT ![task[p].mtcn] = "stored"]
             \/ answer = "error" /\ UNCHANGED transfer
    BY <1>8 DEF SendStore
  <2>2. PICK t \in Task : /\ t = [task[p] EXCEPT !.pc = "refresh", !.arg = answer]
                          /\ Goto(p, t)
    BY <1>0, <2>1 DEF Task, PCs, Args
  <2>3. /\ task[p].mtcn \in Mtcns /\ owner[task[p].mtcn] = task[p].rec
        /\ task[p].rec \in Records /\ task[p].copy \in Row
        /\ Backed(task[p].rec, task[p].copy)
    BY <1>0, <1>8, AtWork DEF SendStore, Knows
  <2>4. owner[task[p].mtcn] # NoRecord
    BY <2>3, ConstantsAssumption
  <2>5. Growth /\ BooksOK' /\ TypeOK'
    BY <1>0, <1>8, <2>1, <2>2, <2>3, <2>4
    DEF SendStore, Inv, HonestInv, TypeOK, BooksOK, Growth, Goto, Accepted,
        PaidOnce, TransferStates, Notification
  <2>6. /\ t.rec = task[p].rec /\ t.copy = task[p].copy /\ t.mtcn = task[p].mtcn
        /\ t.pc = "refresh" /\ t.arg = answer
    BY <1>0, <2>2 DEF Task
  <2>7. Backed(t.rec, t.copy)'
    BY <2>3, <2>5, <2>6, BackedStable
  <2>8. t.mtcn \in Mtcns /\ owner'[t.mtcn] = t.rec /\ (answer = "ok" => Accepted(t.mtcn)')
    BY <1>8, <2>1, <2>3, <2>6 DEF SendStore, Accepted, Inv, TypeOK
  <2>9. Knows(t)'
    BY <2>3, <2>6, <2>7, <2>8 DEF Knows
  <2>10. task'[p] = t /\ \A q \in Procs \ {p} : task'[q] = task[q]
    BY <1>0, <2>2 DEF Goto, Inv, TypeOK
  <2>11. task'[p] # Idle => Knows(task[p])'
    BY <2>9, <2>10 DEF Knows
  <2>12. \A r \in Records : row'[r] = row[r]
    BY <1>8 DEF SendStore
  <2> QED
    BY <1>0, <2>5, <2>10, <2>11, <2>12, Frame DEF Inv
<1>9. CASE SendRefresh(p)
  <2> DEFINE t == [task[p] EXCEPT !.pc = "commit", !.copy = row[task[p].rec]]
  <2>1. t \in Task /\ Knows(t)
    BY <1>0, <1>9, AtWork DEF SendRefresh, Task, PCs, Knows
  <2> QED
    BY <1>0, <1>9, <2>1, LocalStep DEF SendRefresh, External
<1>10. CASE SendCommit(p)
  <2> DEFINE stored == [task[p].copy EXCEPT !.status = "TRANSFERRED_TO_FSP"]
             t == [task[p] EXCEPT !.pc = "again", !.copy = stored]
             u == [task[p] EXCEPT !.pc = "again"]
  <2>1. /\ task[p].mtcn \in Mtcns /\ owner[task[p].mtcn] = task[p].rec
        /\ Accepted(task[p].mtcn)
        /\ task[p].rec \in Records /\ task[p].copy \in Row
        /\ Backed(task[p].rec, task[p].copy)
    BY <1>0, <1>10, AtWork DEF SendCommit, Knows
  <2>2. stored \in Row /\ Backed(task[p].rec, stored)
    BY <2>1, StatusBacked DEF RecordStates
  <2>3. t \in Task /\ Knows(t)
    BY <1>0, <2>1, <2>2 DEF Task, PCs, Knows
  <2>4. u \in Task /\ Knows(u)
    BY <1>0, <2>1 DEF Task, PCs, Knows
  <2>5. \/ Save(task[p].rec, stored) /\ Goto(p, t)
        \/ UNCHANGED row /\ (Goto(p, u) \/ Goto(p, Idle))
    BY <1>10, FlowTargets DEF SendCommit
  <2>6. UNCHANGED External
    BY <1>10 DEF SendCommit
  <2>7. CASE Save(task[p].rec, stored) /\ Goto(p, t)
    BY <1>0, <2>1, <2>2, <2>3, <2>6, <2>7, LocalStep
  <2>8. CASE UNCHANGED row /\ Goto(p, u)
    BY <1>0, <2>4, <2>6, <2>8, LocalStep
  <2>9. CASE UNCHANGED row /\ Goto(p, Idle)
    BY <1>0, <2>6, <2>9, IdleType, LocalStep
  <2> QED
    BY <2>5, <2>7, <2>8, <2>9
<1>11. CASE SendCommitFailure(p)
  <2> DEFINE t == [task[p] EXCEPT !.pc = "again", !.copy = failed]
  <2>1. failed \in Row /\ Backed(task[p].rec, failed) /\ task[p].rec \in Records
    BY <1>0, <1>11, AtWork, FailedBacked DEF SendCommitFailure
  <2>2. t \in Task /\ Knows(t)
    BY <1>0, <2>1 DEF Task, PCs, Knows
  <2> QED
    BY <1>0, <1>11, <2>1, <2>2, LocalStep, FlowTargets DEF SendCommitFailure
<1>12. CASE SaveAgain(p)
  BY <1>0, <1>12, SaveAgainHonest
<1>13. CASE Crash(p)
  BY <1>0, <1>13, IdleType, LocalStep DEF Crash, External
<1> QED
  BY <1>1, <1>2, <1>3, <1>4, <1>5, <1>6, <1>7, <1>8, <1>9, <1>10, <1>11, <1>12, <1>13
  DEF SendStep

\* What the transition a notification asks for leads to, and what it rests on.
LEMMA RequestedTarget ==
  ASSUME NEW type \in Args
  PROVE  /\ Requested(type).to \in RecordStates
         /\ Requested(type).to = "TRANSFERRED_TO_BENEFICIARY" => type = "SUCCESS"
         /\ Requested(type).to # "PENDING"
BY DEF Requested, RecordFlow, RecordStates, Args, NotificationTypes, TransferStates

\* The steps of the notification endpoint.
LEMMA HookHonest ==
  ASSUME Inv, NEW p \in Hooks,
         (\E n \in nis, r \in Records : HookRead(p, n, r)) \/ HookStep(p)
  PROVE  Inv'
<1>0. p \in Procs /\ task[p] \in Task
  BY DEF Procs, Inv, TypeOK
<1>1. CASE \E n \in nis, r \in Records : HookRead(p, n, r)
  <2>1. PICK n \in nis, r \in Records : HookRead(p, n, r)
    BY <1>1
  <2> DEFINE t == [Idle EXCEPT !.pc = "apply", !.rec = r, !.copy = row[r], !.arg = n.type]
  <2>2. row[r] \in Row /\ Backed(r, row[r]) /\ n \in Notification
    BY DEF Inv, TypeOK, HonestInv
  <2>3. t \in Task
    BY <2>2, IdleType DEF Task, PCs, Args, Notification, Idle
  <2>4. n = [type |-> n.type, mtcn |-> n.mtcn] /\ n.mtcn \in Mtcns /\ row[r].mtcn = n.mtcn
    BY <2>1, <2>2 DEF Notification, HookRead
  <2>5. t.rec = r /\ t.copy = row[r] /\ t.pc = "apply" /\ t.arg = n.type
    BY DEF Idle
  <2>6. Knows(t)
    BY <2>2, <2>4, <2>5 DEF Knows
  <2> QED
    BY <1>0, <2>1, <2>3, <2>6, LocalStep DEF HookRead, External
<1>2. CASE HookApply(p)
  <2> DEFINE move == Requested(task[p].arg)
             moved == [task[p].copy EXCEPT !.status = move.to]
             t == [task[p] EXCEPT !.pc = "again", !.copy = moved]
             u == [task[p] EXCEPT !.pc = "again"]
  <2>1. /\ task[p].rec \in Records /\ task[p].copy \in Row /\ task[p].arg \in Args
        /\ Backed(task[p].rec, task[p].copy) /\ task[p].copy.mtcn \in Mtcns
        /\ [type |-> task[p].arg, mtcn |-> task[p].copy.mtcn] \in nis
    BY <1>0, <1>2, AtWork DEF HookApply, Knows, Task
  <2>2. /\ owner[task[p].copy.mtcn] = task[p].rec
        /\ Accepted(task[p].copy.mtcn)
        /\ move.to = "TRANSFERRED_TO_BENEFICIARY" => PaidOnce(task[p].copy.mtcn)
    <3>1. owner[task[p].copy.mtcn] = task[p].rec
      BY <2>1, ConstantsAssumption DEF Backed
    <3>2. Accepted([type |-> task[p].arg, mtcn |-> task[p].copy.mtcn].mtcn)
      BY <2>1 DEF Inv, HonestInv, BooksOK
    <3> QED
      BY <2>1, <3>1, <3>2, RequestedTarget DEF PaidOnce
  <2>3. moved \in Row /\ Backed(task[p].rec, moved)
    BY <2>1, <2>2, RequestedTarget, StatusBacked
  <2>4. t \in Task /\ Knows(t)
    BY <1>0, <2>1, <2>3 DEF Task, PCs, Knows
  <2>5. u \in Task /\ Knows(u)
    BY <1>0, <2>1 DEF Task, PCs, Knows
  <2>6. \/ Save(task[p].rec, moved) /\ Goto(p, t)
        \/ UNCHANGED row /\ (Goto(p, u) \/ Goto(p, Idle))
    BY <1>2 DEF HookApply
  <2>7. UNCHANGED External
    BY <1>2 DEF HookApply
  <2>8. CASE Save(task[p].rec, moved) /\ Goto(p, t)
    BY <1>0, <2>1, <2>3, <2>4, <2>7, <2>8, LocalStep
  <2>9. CASE UNCHANGED row /\ Goto(p, u)
    BY <1>0, <2>5, <2>7, <2>9, LocalStep
  <2>10. CASE UNCHANGED row /\ Goto(p, Idle)
    BY <1>0, <2>7, <2>10, IdleType, LocalStep
  <2> QED
    BY <2>6, <2>8, <2>9, <2>10
<1>3. CASE SaveAgain(p)
  BY <1>0, <1>3, SaveAgainHonest
<1> QED
  BY <1>1, <1>2, <1>3 DEF HookStep

\* Reading a row into a copy: what every operator begins with.
LEMMA ReadHonest ==
  ASSUME Inv, NEW p \in Operators, NEW r \in Records,
         NEW q \in {"ask", "search", "cancel", "again"}, q = "ask" => row[r].mtcn # NoMtcn,
         Goto(p, [Idle EXCEPT !.pc = q, !.rec = r, !.copy = row[r]]), UNCHANGED <<row, External>>
  PROVE  Inv'
<1> DEFINE t == [Idle EXCEPT !.pc = q, !.rec = r, !.copy = row[r]]
<1>1. p \in Procs /\ row[r] \in Row /\ Backed(r, row[r])
  BY DEF Procs, Inv, TypeOK, HonestInv
<1>2. t \in Task
  BY <1>1, IdleType DEF Task, PCs, Idle, Args
<1>3. t.rec = r /\ t.copy = row[r] /\ t.pc = q
  BY DEF Idle
<1>4. Knows(t)
  BY <1>1, <1>3 DEF Knows, Row
<1> QED
  BY <1>1, <1>2, <1>4, LocalStep DEF External

\* The steps of operators.
LEMMA OperatorHonest ==
  ASSUME Inv, NEW p \in Operators,
         (\E r \in Records : OperatorBegin(p, r)) \/ OperatorStep(p)
  PROVE  Inv'
<1>0. p \in Procs /\ task[p] \in Task
  BY DEF Procs, Inv, TypeOK
<1>1. CASE \E r \in Records : OperatorBegin(p, r)
  BY <1>1, ReadHonest DEF OperatorBegin, PollRead, RefundRead, CancelRead, EditRead
<1>2. CASE PollAsk(p)
  <2> DEFINE t == [task[p] EXCEPT !.pc = "update", !.arg = transfer[task[p].copy.mtcn]]
  <2>1. /\ task[p].rec \in Records /\ task[p].copy \in Row /\ Backed(task[p].rec, task[p].copy)
        /\ task[p].copy.mtcn \in Mtcns
    BY <1>0, <1>2, AtWork DEF PollAsk, Knows
  <2>2. CASE Accepted(task[p].copy.mtcn) /\ Goto(p, t)
    <3>1. transfer[task[p].copy.mtcn] \in TransferStates
      BY <2>1 DEF Inv, TypeOK
    <3>2. t \in Task
      BY <1>0, <3>1 DEF Task, PCs, Args
    <3>3. /\ t.rec = task[p].rec /\ t.copy = task[p].copy /\ t.pc = "update"
          /\ t.arg = transfer[task[p].copy.mtcn]
      BY <1>0 DEF Task
    <3>4. t.arg = "paid" => PaidOnce(t.copy.mtcn)
      BY <2>1, <3>3 DEF Inv, HonestInv, BooksOK
    <3>5. Knows(t)
      BY <2>1, <2>2, <3>3, <3>4 DEF Knows
    <3> QED
      BY <1>0, <1>2, <2>2, <3>2, <3>5, LocalStep DEF PollAsk, External
  <2>3. CASE Goto(p, Idle)
    BY <1>0, <1>2, <2>3, IdleType, LocalStep DEF PollAsk, External
  <2> QED
    BY <1>2, <2>2, <2>3 DEF PollAsk
<1>3. CASE PollUpdate(p)
  <2> DEFINE polled == [task[p].copy EXCEPT !.status = PolledStatus[task[p].arg]]
  <2>1. /\ task[p].rec \in Records /\ task[p].copy \in Row /\ Backed(task[p].rec, task[p].copy)
        /\ task[p].copy.mtcn \in Mtcns /\ Accepted(task[p].copy.mtcn)
        /\ task[p].arg = "paid" => PaidOnce(task[p].copy.mtcn)
    BY <1>0, <1>3, AtWork DEF PollUpdate, Knows
  <2>2. owner[task[p].copy.mtcn] = task[p].rec
    BY <2>1, ConstantsAssumption DEF Backed
  <2>3. ASSUME task[p].arg \in DOMAIN PolledStatus
        PROVE  polled \in Row /\ Backed(task[p].rec, polled)
    <3>1. /\ PolledStatus[task[p].arg] \in RecordStates
          /\ PolledStatus[task[p].arg] = "TRANSFERRED_TO_BENEFICIARY" => task[p].arg = "paid"
      BY <2>3 DEF PolledStatus, RecordStates
    <3> QED
      BY <2>1, <2>2, <3>1, StatusBacked
  <2>4. \/ UNCHANGED row
        \/ Save(task[p].rec, task[p].copy)
        \/ task[p].arg \in DOMAIN PolledStatus /\ Save(task[p].rec, polled)
    BY <1>3 DEF PollUpdate
  <2>5. Goto(p, Idle) /\ UNCHANGED External
    BY <1>3 DEF PollUpdate
  <2> QED
    BY <1>0, <2>1, <2>3, <2>4, <2>5, IdleType, LocalStep
<1>4. CASE RefundNotFound(p)
  <2>1. task[p].rec \in Records /\ task[p].copy \in Row /\ Backed(task[p].rec, task[p].copy)
    BY <1>0, <1>4, AtWork DEF RefundNotFound
  <2> QED
    BY <1>0, <1>4, <2>1, FailedBacked, FlowTargets, IdleType, LocalStep DEF RefundNotFound
<1>5. CASE RefundRequest(p)
  <2>0. PICK c \in Mtcns : c = task[p].copy.mtcn
    BY <1>0, <1>5, AtWork DEF RefundRequest, Row
  <2> DEFINE u == [task[p] EXCEPT !.pc = "again"]
  <2>1. /\ task[p].rec \in Records /\ task[p].copy \in Row /\ Backed(task[p].rec, task[p].copy)
        /\ Accepted(c) /\ owner[c] = task[p].rec
    BY <1>0, <1>5, <2>0, AtWork DEF RefundRequest, Row, Backed
  <2>2. u \in Task /\ Knows(u)
    BY <1>0, <2>1 DEF Task, PCs, Knows
  <2>3. CASE UNCHANGED <<transfer, nis>>
    BY <1>0, <1>5, <2>2, <2>3, LocalStep DEF RefundRequest, External
  <2>4. CASE /\ transfer' = [transfer EXCEPT ![c] = "cancelled"]
             /\ nis' = nis \cup {[type |-> "CANCEL", mtcn |-> c]}
    <3>1. Growth /\ BooksOK'
      <4>1. \A d \in Mtcns : transfer'[d] = (IF d = c THEN "cancelled" ELSE transfer[d])
        BY <2>1, <2>4 DEF Inv, TypeOK
      <4>2. \A d \in Mtcns : Accepted(d) => Accepted(d)'
        BY <4>1 DEF Accepted
      <4>3. UNCHANGED owner /\ owner[c] # NoRecord /\ nis \subseteq Notification
        BY <1>5, <2>1, ConstantsAssumption DEF RefundRequest, Inv, TypeOK
      <4>4. Growth
        BY <2>4, <4>2, <4>3 DEF Growth
      <4>5. Accepted(c)'
        BY <2>1, <4>1 DEF Accepted
      <4>6. BooksOK'
        BY <2>4, <4>1, <4>2, <4>3, <4>5 DEF Inv, HonestInv, BooksOK, PaidOnce, Notification
      <4> QED
        BY <4>4, <4>6
    <3>2. TypeOK'
      BY <1>0, <1>5, <2>1, <2>2, <2>4
      DEF RefundRequest, Inv, TypeOK, Goto, TransferStates, Notification, NotificationTypes
    <3>3. PICK t \in Task : t = u /\ Goto(p, t) /\ Knows(t)
      BY <1>5, <2>2 DEF RefundRequest
    <3>4. task'[p] = t /\ \A q \in Procs \ {p} : task'[q] = task[q]
      BY <1>0, <3>3 DEF Goto, Inv, TypeOK
    <3>5. task'[p] # Idle => Knows(task[p])'
      BY <3>1, <3>3, <3>4, KnowsStable DEF Knows
    <3>6. \A r \in Records : row'[r] = row[r]
      BY <1>5 DEF RefundRequest
    <3> QED
      BY <1>0, <3>1, <3>2, <3>4, <3>5, <3>6, Frame DEF Inv
  <2> QED
    BY <1>5, <2>0, <2>3, <2>4 DEF RefundRequest
<1>6. CASE CancelSave(p)
  <2>1. task[p].rec \in Records /\ task[p].copy \in Row /\ Backed(task[p].rec, task[p].copy)
    BY <1>0, <1>6, AtWork DEF CancelSave
  <2> QED
    BY <1>0, <1>6, <2>1, FailedBacked, FlowTargets, IdleType, LocalStep DEF CancelSave
<1>7. CASE SaveAgain(p)
  BY <1>0, <1>7, SaveAgainHonest
<1> QED
  BY <1>1, <1>2, <1>3, <1>4, <1>5, <1>6, <1>7 DEF OperatorStep

\* The moves of Western Union itself: the books stay in order.
LEMMA WuHonest ==
  ASSUME Inv, NEW c \in Mtcns, WuStep(c)
  PROVE  Inv'
<1>1. PICK m \in WuMoves : /\ transfer[c] = m[1]
                           /\ transfer' = [transfer EXCEPT ![c] = m[2]]
                           /\ nis' = nis \cup {[type |-> m[3], mtcn |-> c]}
  BY DEF WuStep
<1>2. /\ m[1] \in {"stored", "paid"}
      /\ m[2] \in {"stored", "paid", "cancelled", "refunded", "purged"}
      /\ m[3] \in NotificationTypes
      /\ m[2] = "paid" => m[3] = "SUCCESS"
  BY <1>1 DEF WuMoves, NotificationTypes
<1>3. UNCHANGED <<row, task, owner>>
  BY DEF WuStep
<1>4. \A d \in Mtcns : transfer'[d] = (IF d = c THEN m[2] ELSE transfer[d])
  BY <1>1 DEF Inv, TypeOK
<1>5. Accepted(c) /\ Accepted(c)' /\ \A d \in Mtcns : Accepted(d) => Accepted(d)'
  BY <1>1, <1>2, <1>4 DEF Accepted
<1>6. Growth
  BY <1>1, <1>3, <1>5 DEF Growth
<1>7. TypeOK'
  BY <1>1, <1>2, <1>3 DEF Inv, TypeOK, TransferStates, Notification
<1>8. BooksOK'
  <2>1. \A n \in nis' : Accepted(n.mtcn)'
    BY <1>1, <1>5 DEF Inv, HonestInv, BooksOK, TypeOK, Notification
  <2>2. \A d \in Mtcns : owner'[d] = NoRecord => transfer'[d] = "unknown"
    BY <1>3, <1>4, <1>5 DEF Inv, HonestInv, BooksOK, Accepted
  <2>3. \A d \in Mtcns : transfer'[d] = "paid" => PaidOnce(d)'
    BY <1>1, <1>2, <1>4 DEF Inv, HonestInv, BooksOK, PaidOnce
  <2> QED
    BY <2>1, <2>2, <2>3 DEF BooksOK
<1>9. ASSUME NEW p \in Procs, task[p] # Idle
      PROVE  Knows(task[p])'
  <2>1. PICK t \in Task : t = task[p] /\ t = task'[p]
    BY <1>3 DEF Inv, TypeOK
  <2>2. Knows(t)'
    BY <1>6, <1>9, <2>1, KnowsStable DEF Inv, HonestInv
  <2> QED
    BY <2>1, <2>2 DEF Knows
<1>10. ASSUME NEW r \in Records
       PROVE  Backed(r, row[r])'
  <2>1. PICK x \in Row : x = row[r] /\ x = row'[r]
    BY <1>3 DEF Inv, TypeOK
  <2>2. Backed(r, x)'
    BY <1>6, <2>1, BackedStable DEF Inv, HonestInv
  <2> QED
    BY <2>1, <2>2 DEF Backed
<1> QED
  BY <1>3, <1>7, <1>8, <1>9, <1>10 DEF Inv, HonestInv

\* New records, an idle gateway and nothing sent to Western Union: the start.
LEMMA InitHonest == Init => Inv
BY IdleType, ConstantsAssumption
DEF Init, Inv, TypeOK, HonestInv, Backed, BooksOK, NewRow, Transferred, TransferStates

\* Every step of the gateway and of Western Union keeps the inductive invariant.
LEMMA NextHonest == Inv /\ [Next]_vars => Inv'
<1> SUFFICES ASSUME Inv, [Next]_vars
             PROVE  Inv'
  OBVIOUS
<1>1. CASE UNCHANGED vars
  BY <1>1 DEF vars, Inv, TypeOK, HonestInv, Knows, Backed, BooksOK, Accepted, PaidOnce
<1>2. CASE Next
  BY <1>2, SendHonest, HookHonest, OperatorHonest, WuHonest DEF Next
<1> QED
  BY <1>1, <1>2

\* Every variable keeps its type, in every deployment.
THEOREM TypeCorrect == Spec => []TypeOK
<1>1. Inv => TypeOK
  BY DEF Inv
<1> QED
  BY <1>1, InitHonest, NextHonest, PTL DEF Spec

\* The table never claims more than Western Union has done, whatever the
\* deployment: any number of senders, crashes, stale writes, late or repeated
\* notifications.  A record carries only control numbers issued for itself.
THEOREM Honest == Spec => [](HonestTransfer /\ HonestPayout /\ OwnMtcn)
<1>1. Inv => HonestTransfer /\ HonestPayout /\ OwnMtcn
  BY DEF Inv, HonestInv, Backed, HonestTransfer, HonestPayout, OwnMtcn, Transferred
<1> QED
  BY <1>1, InitHonest, NextHonest, PTL DEF Spec

\* The table claims a transfer only if Western Union has accepted one (flow.store).
COROLLARY TransferHonest == Spec => []HonestTransfer
  BY Honest, PTL

\* The control number on a row was given for a transfer of that record.
COROLLARY MtcnOwn == Spec => []OwnMtcn
  BY Honest, PTL

=============================================================================
