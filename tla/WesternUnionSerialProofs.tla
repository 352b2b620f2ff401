----------------------- MODULE WesternUnionSerialProofs -----------------------
(***************************************************************************)
(* Proofs about WesternUnion in a serialised deployment: one sender at a   *)
(* time that is not killed, and no operator on a record still PENDING.     *)
(***************************************************************************)
EXTENDS WesternUnionProofs

SI == Inv /\ SerialInv

\* A row that has left PENDING does not go back.
Settled ==
  \A r \in Records : row[r].status # "PENDING" => row'[r].status # "PENDING"

\* What every step of a serialised deployment is shown to keep.
SerialStep == SerialInv' /\ Settled

\* A step that accepts no transfer.
SameBooks ==
  \A c \in Mtcns : /\ Accepted(c)' <=> Accepted(c)
                   /\ Accepted(c) => owner'[c] = owner[c]

\* Whether a record was ever accepted is not changed by such a step.
LEMMA SameUntouched ==
  ASSUME SameBooks, NEW r \in Records
  PROVE  Untouched(r)' <=> Untouched(r)
BY DEF SameBooks, Untouched

\* The invariant after a step of process p that ends at the task t, saves the
\* row x of record r (or nothing: x is the row as it was) and accepts no transfer.
LEMMA SerialFrame ==
  ASSUME Serialised, SI, Inv', SameBooks,
         NEW p \in Procs, NEW t \in Task, NEW r \in Records, NEW x \in Row,
         Goto(p, t), row' = [row EXCEPT ![r] = x],
         x.mtcn = row[r].mtcn,
         x.status = "PENDING" => x = row[r],
         x # row[r] => p \in Senders \/ ~Untouched(r) \/ row[r].status # "PENDING",
         t # Idle => t.rec = r /\ Orderly(p, t, x),
         p \in Senders /\ task[p].pc \in Settling =>
            /\ r = task[p].rec
            /\ x.status = "PENDING" => t.pc \in Settling
  PROVE  SerialStep
<1>0. /\ \A q \in Procs : task'[q] = (IF q = p THEN t ELSE task[q])
      /\ \A s \in Records : row'[s] = (IF s = r THEN x ELSE row[s])
      /\ \A q \in Procs : task[q] \in Task
      /\ \A s \in Records : row[s] \in Row
  BY DEF SI, Inv, TypeOK, Goto
<1>1. ASSUME NEW c \in Mtcns, Accepted(c)'
      PROVE  row'[owner'[c]].mtcn = c
  <2>1. Accepted(c) /\ owner'[c] = owner[c] /\ row[owner[c]].mtcn = c
    BY <1>1 DEF SameBooks, SI, SerialInv
  <2>2. owner[c] \in Records
    BY <2>1 DEF SI, Inv, HonestInv, BooksOK, TypeOK, Accepted
  <2> QED
    BY <1>0, <2>1, <2>2
<1>2. ASSUME NEW q \in Procs, task'[q] # Idle
      PROVE  Orderly(q, task[q], row[task[q].rec])'
  <2>1. CASE q = p
    <3>1. task'[q] = t /\ t.rec = r /\ Orderly(p, t, x) /\ row'[r] = x
      BY <1>0, <1>2, <2>1
    <3> QED
      BY <2>1, <3>1, SameUntouched DEF Orderly, SenderAlone, HookLate
  <2>2. CASE q # p
    <3>1. /\ task'[q] = task[q] /\ task[q] # Idle /\ task[q].rec \in Records
          /\ Orderly(q, task[q], row[task[q].rec])
      BY <1>0, <1>2, <2>2 DEF SI, SerialInv, Inv, HonestInv, Knows
    <3>2. CASE row'[task[q].rec] = row[task[q].rec]
      BY <3>1, <3>2, SameUntouched DEF Orderly, SenderAlone, HookLate
    <3>3. CASE row'[task[q].rec] # row[task[q].rec]
      <4>1. task[q].rec = r /\ row'[r] = x /\ x # row[r] /\ x.status # "PENDING"
        BY <1>0, <3>1, <3>3
      <4>2. q \in Senders => p \notin Senders
        BY <2>2 DEF Serialised
      <4>3. Orderly(q, task[q], x)
        BY <3>1, <4>1, <4>2 DEF Orderly, SenderAlone, HookLate
      <4> QED
        BY <3>1, <4>1, <4>3, SameUntouched DEF Orderly, SenderAlone, HookLate
    <3> QED
      BY <3>2, <3>3
  <2> QED
    BY <2>1, <2>2
<1>3. ASSUME NEW s \in Records, row'[s].status = "PENDING", ~Untouched(s)'
      PROVE  \E q \in Senders : task'[q].rec = s /\ task'[q].pc \in Settling
  <2>1. row[s].status = "PENDING" /\ ~Untouched(s)
    BY <1>0, <1>3, SameUntouched
  <2>2. PICK q \in Senders : task[q].rec = s /\ task[q].pc \in Settling
    BY <2>1 DEF SI, SerialInv
  <2>3. CASE q = p
    <3>1. r = s /\ x.status = "PENDING" /\ t.pc \in Settling
      BY <1>0, <1>3, <2>2, <2>3
    <3>2. t # Idle
      BY <3>1, IdleType DEF Settling
    <3> QED
      BY <1>0, <2>3, <3>1, <3>2 DEF Procs
  <2>4. CASE q # p
    BY <1>0, <2>2, <2>4 DEF Procs
  <2> QED
    BY <2>3, <2>4
<1>4. Settled
  BY <1>0 DEF Settled
<1> QED
  BY <1>1, <1>2, <1>3, <1>4 DEF SerialInv, SerialStep

\* What a process at work knows in a serialised deployment.
LEMMA AtWorkSerial ==
  ASSUME SI, NEW p \in Procs, task[p].pc # "idle"
  PROVE  /\ task[p] \in Task /\ task[p].rec \in Records /\ task[p].copy \in Row
         /\ row[task[p].rec] \in Row
         /\ Orderly(p, task[p], row[task[p].rec])
         /\ Knows(task[p])
BY AtWork, IdleType DEF SI, SerialInv

\* A step that does not involve Western Union is one.
LEMMA LocalBooks == UNCHANGED External => SameBooks
BY DEF External, SameBooks, Accepted

\* A record still PENDING with an idle sender was never accepted.
LEMMA PendingUntouched ==
  ASSUME Serialised, SI, NEW p \in Senders, task[p].pc \notin Settling,
         NEW r \in Records, row[r].status = "PENDING"
  PROVE  Untouched(r)
BY DEF Serialised, SI, SerialInv

\* The closing save writes a row that is as good as the one it replaces.
LEMMA SaveAgainSerial ==
  ASSUME Serialised, SI, Inv', NEW p \in Procs, SaveAgain(p)
  PROVE  SerialStep
<1> DEFINE r == task[p].rec
           x == task[p].copy
<1>1. /\ task[p].pc = "again" /\ r \in Records /\ x \in Row /\ Orderly(p, task[p], row[r])
  BY AtWorkSerial DEF SaveAgain
<1>2. Goto(p, Idle) /\ row' = [row EXCEPT ![r] = x] /\ SameBooks
  BY LocalBooks DEF SaveAgain, Save
<1>3. x.mtcn = row[r].mtcn /\ (x.status = "PENDING" => x = row[r])
  BY <1>1 DEF Orderly, SenderAlone, HookLate, Procs
<1>4. x # row[r] => p \in Senders \/ ~Untouched(r) \/ row[r].status # "PENDING"
  BY <1>1 DEF Orderly, SenderAlone, HookLate, Procs
<1>5. task[p].pc \notin Settling
  BY <1>1 DEF Settling
<1> QED
  BY <1>1, <1>2, <1>3, <1>4, <1>5, IdleType, SerialFrame

\* Saving the control numbers: nobody else is at work on the record.
LEMMA SaveCodesSerial ==
  ASSUME Serialised, SI, Inv', NEW p \in Senders, SendSaveCodes(p)
  PROVE  SerialStep
<1>0. p \in Procs
  BY DEF Procs
<1>1. PICK r \in Records, x \in Row, t \in Task :
        /\ r = task[p].rec /\ x = [task[p].copy EXCEPT !.mtcn = task[p].mtcn]
        /\ t = [task[p] EXCEPT !.pc = "quote", !.copy = x]
        /\ Goto(p, t) /\ Save(r, x)
  <2>1. /\ task[p] \in Task /\ task[p].rec \in Records /\ task[p].copy \in Row
        /\ task[p].mtcn \in Mtcns
    BY <1>0, AtWorkSerial DEF SendSaveCodes, Knows
  <2>2. [task[p].copy EXCEPT !.mtcn = task[p].mtcn] \in Row
    BY <2>1 DEF Row
  <2>3. [task[p] EXCEPT !.pc = "quote",
           !.copy = [task[p].copy EXCEPT !.mtcn = task[p].mtcn]] \in Task
    BY <2>1, <2>2 DEF Task, PCs
  <2> QED
    BY <2>1, <2>2, <2>3 DEF SendSaveCodes
<1>2. /\ task[p].pc = "codes" /\ task[p].copy = row[r] /\ row[r].status = "PENDING"
      /\ Untouched(r) /\ UNCHANGED External
  BY <1>0, <1>1, AtWorkSerial DEF SendSaveCodes, Orderly, SenderAlone, Preparing
<1>3. /\ t.rec = r /\ t.pc = "quote" /\ t.copy = x /\ x.status = "PENDING"
      /\ x.mtcn = t.mtcn
  BY <1>0, <1>1, <1>2 DEF SI, Inv, TypeOK, Task, Row
<1>4. /\ \A q \in Procs : task'[q] = (IF q = p THEN t ELSE task[q])
      /\ \A s \in Records : row'[s] = (IF s = r THEN x ELSE row[s])
  BY <1>1 DEF SI, Inv, TypeOK, Goto, Save
<1>5. SameBooks
  BY <1>2, LocalBooks
<1>6. ASSUME NEW c \in Mtcns, Accepted(c)'
      PROVE  row'[owner'[c]].mtcn = c
  <2>1. Accepted(c) /\ owner'[c] = owner[c] /\ row[owner[c]].mtcn = c /\ owner[c] # r
    BY <1>2, <1>5, <1>6 DEF SameBooks, SI, SerialInv, Untouched
  <2>2. owner[c] \in Records
    BY <2>1 DEF SI, Inv, HonestInv, BooksOK, TypeOK, Accepted
  <2> QED
    BY <1>4, <2>1, <2>2
<1>7. ASSUME NEW q \in Procs, task'[q] # Idle
      PROVE  Orderly(q, task[q], row[task[q].rec])'
  <2>1. CASE q = p
    <3>1. Orderly(p, t, x)
      BY <1>2, <1>3, ConstantsAssumption
      DEF Orderly, SenderAlone, Preparing
    <3> QED
      BY <1>3, <1>4, <1>5, <2>1, <3>1, SameUntouched
      DEF Orderly, SenderAlone, HookLate
  <2>2. CASE q # p
    <3>1. /\ task'[q] = task[q] /\ task[q] # Idle /\ task[q].rec \in Records
          /\ Orderly(q, task[q], row[task[q].rec])
      BY <1>4, <1>7, <2>2 DEF SI, SerialInv, Inv, HonestInv, Knows
    <3>2. task[q].rec # r
      BY <1>2, <2>2, <3>1 DEF Serialised, Orderly, HookLate, Procs
    <3> QED
      BY <1>4, <1>5, <3>1, <3>2, SameUntouched
      DEF Orderly, SenderAlone, HookLate
  <2> QED
    BY <2>1, <2>2
<1>8. ASSUME NEW s \in Records, row'[s].status = "PENDING", ~Untouched(s)'
      PROVE  \E q \in Senders : task'[q].rec = s /\ task'[q].pc \in Settling
  <2>1. ~Untouched(s) /\ s # r /\ row[s].status = "PENDING"
    BY <1>2, <1>4, <1>5, <1>8, SameUntouched
  <2>2. PICK q \in Senders : task[q].rec = s /\ task[q].pc \in Settling
    BY <2>1 DEF SI, SerialInv
  <2> QED
    BY <1>1, <1>4, <2>1, <2>2 DEF Procs
<1>9. Settled
  BY <1>2, <1>4 DEF Settled
<1> QED
  BY <1>6, <1>7, <1>8, <1>9 DEF SerialInv, SerialStep

\* The store: the only step by which a transfer is accepted.  Nobody else is at
\* work on the record, and the number accepted is the one saved on its row.
LEMMA StoreSerial ==
  ASSUME Serialised, SI, Inv', NEW p \in Senders, SendStore(p)
  PROVE  SerialStep
<1>0. p \in Procs /\ task[p].pc = "store"
  BY DEF Procs, SendStore
<1>1. /\ task[p] \in Task /\ task[p].rec \in Records /\ row[task[p].rec] \in Row
      /\ task[p].copy = row[task[p].rec] /\ task[p].copy.mtcn = task[p].mtcn
      /\ Untouched(task[p].rec)
      /\ task[p].mtcn \in Mtcns /\ owner[task[p].mtcn] = task[p].rec
  BY <1>0, AtWorkSerial DEF Orderly, SenderAlone, Preparing, Knows
<1>2. PICK r \in Records, c0 \in Mtcns, t \in Task :
        /\ r = task[p].rec /\ c0 = task[p].mtcn
        /\ t.rec = r /\ t.pc = "refresh" /\ t.copy = row[r]
        /\ Goto(p, t)
  <2>1. \A a \in {"ok", "error"} :
          LET t == [task[p] EXCEPT !.pc = "refresh", !.arg = a]
          IN  t \in Task /\ t.rec = task[p].rec /\ t.pc = "refresh" /\ t.copy = task[p].copy
    BY <1>1 DEF Task, PCs, Args
  <2>2. \E a \in {"ok", "error"} : Goto(p, [task[p] EXCEPT !.pc = "refresh", !.arg = a])
    BY DEF SendStore
  <2> QED
    BY <1>1, <2>1, <2>2
<1>3. UNCHANGED <<row, owner>>
  BY DEF SendStore
<1>4. \A q \in Procs : task'[q] = (IF q = p THEN t ELSE task[q])
  BY <1>2 DEF SI, Inv, TypeOK, Goto
<1>5. \A c \in Mtcns : (Accepted(c) => Accepted(c)') /\ (Accepted(c)' => Accepted(c) \/ c = c0)
  BY <1>2 DEF SendStore, Accepted, SI, Inv, TypeOK
<1>6. ASSUME NEW c \in Mtcns, Accepted(c)'
      PROVE  row'[owner'[c]].mtcn = c
  BY <1>1, <1>2, <1>3, <1>5, <1>6 DEF SI, SerialInv
<1>7. ASSUME NEW q \in Procs, task'[q] # Idle
      PROVE  Orderly(q, task[q], row[task[q].rec])'
  <2>1. CASE q = p
    <3>1. task'[p] = t
      BY <1>0, <1>4
    <3> QED
      BY <1>2, <1>3, <2>1, <3>1, ConstantsAssumption
      DEF Orderly, SenderAlone, Preparing, Settling
  <2>2. CASE q # p
    <3>1. /\ task'[q] = task[q] /\ task[q] # Idle /\ q \notin Senders
          /\ Orderly(q, task[q], row[task[q].rec])
      BY <1>4, <1>7, <2>2 DEF SI, SerialInv, Serialised
    <3>2. ~Untouched(task[q].rec) => ~Untouched(task[q].rec)'
      BY <1>3, <1>5, <3>1 DEF Untouched
    <3> QED
      BY <1>3, <3>1, <3>2 DEF Orderly, HookLate
  <2> QED
    BY <2>1, <2>2
<1>8. ASSUME NEW s \in Records, row'[s].status = "PENDING", ~Untouched(s)'
      PROVE  \E q \in Senders : task'[q].rec = s /\ task'[q].pc \in Settling
  <2>1. CASE s = r
    BY <1>0, <1>2, <1>4, <2>1 DEF Settling
  <2>2. CASE s # r
    <3>1. ~Untouched(s) /\ row[s].status = "PENDING"
      BY <1>1, <1>2, <1>3, <1>5, <1>8, <2>2 DEF Untouched
    <3>2. PICK q \in Senders : task[q].rec = s /\ task[q].pc \in Settling
      BY <3>1 DEF SI, SerialInv
    <3> QED
      BY <1>0, <3>2 DEF Serialised, Settling
  <2> QED
    BY <2>1, <2>2
<1> QED
  BY <1>3, <1>6, <1>7, <1>8 DEF SerialInv, SerialStep, Settled

\* SerialFrame for a step that saves nothing.
LEMMA SerialLocal ==
  ASSUME Serialised, SI, Inv', SameBooks,
         NEW p \in Procs, NEW t \in Task, NEW r \in Records,
         Goto(p, t), UNCHANGED row,
         t # Idle => t.rec = r /\ Orderly(p, t, row[r]),
         p \in Senders /\ task[p].pc \in Settling =>
            /\ r = task[p].rec
            /\ row[r].status = "PENDING" => t.pc \in Settling
  PROVE  SerialStep
<1>1. row[r] \in Row /\ row' = [row EXCEPT ![r] = row[r]]
  BY DEF SI, Inv, TypeOK
<1> QED
  BY <1>1, SerialFrame

\* The steps of create_transaction.
LEMMA SendSerial ==
  ASSUME Serialised, SI, Inv', NEW p \in Senders,
         (\E r \in Records : SendBegin(p, r)) \/ SendStep(p)
  PROVE  SerialStep
<1>0. p \in Procs
  BY DEF Procs
<1>1. ASSUME NEW r \in Records, SendBegin(p, r) PROVE SerialStep
  <2>1. PICK t \in Task : t.pc = "validate" /\ t.rec = r /\ t.copy = row[r] /\ Goto(p, t)
    <3>1. [Idle EXCEPT !.pc = "validate", !.rec = r, !.copy = row[r]] \in Task
      BY DEF SI, Inv, TypeOK, Idle, Task, PCs, Args
    <3> QED
      BY <1>1, <3>1 DEF SendBegin, Idle
  <2>2. task[p].pc \notin Settling
    BY <1>1, IdleType DEF SendBegin, Settling
  <2>3. row[r].status = "PENDING" /\ Untouched(r)
    BY <1>1, <2>2, PendingUntouched DEF SendBegin
  <2>4. Orderly(p, t, row[r])
    BY <2>1, <2>3, ConstantsAssumption DEF Orderly, SenderAlone, Preparing
  <2> QED
    BY <1>0, <1>1, <2>1, <2>2, <2>4, LocalBooks, SerialLocal DEF SendBegin
<1>2. CASE SendPayloadError(p)
  <2>1. /\ task[p].pc = "validate" /\ task[p].rec \in Records /\ task[p].copy \in Row
        /\ task[p].copy.mtcn = row[task[p].rec].mtcn
    BY <1>0, <1>2, AtWorkSerial DEF SendPayloadError, Orderly
  <2>2a. /\ [task[p].copy EXCEPT !.status = "ERROR"] \in Row
         /\ [task[p].copy EXCEPT !.status = "ERROR"].status = "ERROR"
         /\ [task[p].copy EXCEPT !.status = "ERROR"].mtcn = task[p].copy.mtcn
    BY <2>1 DEF Row, RecordStates
  <2>2. PICK x \in Row : /\ x = [task[p].copy EXCEPT !.status = "ERROR"]
                         /\ x.status = "ERROR"
                         /\ x.mtcn = task[p].copy.mtcn
    BY <2>2a
  <2> QED
    BY <1>0, <1>2, <2>1, <2>2, LocalBooks, IdleType, SerialFrame
    DEF SendPayloadError, Save, Settling
<1>3. ASSUME NEW c \in Mtcns, SendValidated(p, c) PROVE SerialStep
  <2>1. /\ task[p].pc = "validate" /\ task[p] \in Task /\ task[p].rec \in Records
        /\ row[task[p].rec] \in Row /\ row[task[p].rec].status = "PENDING"
        /\ Untouched(task[p].rec)
    BY <1>0, <1>3, AtWorkSerial DEF SendValidated, Orderly, SenderAlone, Preparing
  <2>2. PICK r \in Records, t \in Task :
          r = task[p].rec /\ t.pc = "codes" /\ t.rec = r /\ t.copy = row[r] /\ Goto(p, t)
    <3>1. [task[p] EXCEPT !.pc = "codes", !.copy = row[task[p].rec], !.mtcn = c] \in Task
      BY <2>1 DEF Task, PCs
    <3> QED
      BY <1>3, <2>1, <3>1 DEF SendValidated, Task
  <2>3. ~Accepted(c) /\ ~Accepted(c)'
    BY <1>3 DEF SendValidated, SI, Inv, HonestInv, BooksOK, TypeOK, Accepted
  <2>4. \A d \in Mtcns \ {c} : transfer'[d] = transfer[d] /\ owner'[d] = owner[d]
    BY <1>3 DEF SendValidated, SI, Inv, TypeOK
  <2>5. SameBooks
    BY <2>3, <2>4 DEF SameBooks, Accepted
  <2>6. Orderly(p, t, row[r])
    BY <2>1, <2>2, ConstantsAssumption DEF Orderly, SenderAlone, Preparing
  <2> QED
    BY <1>0, <1>3, <2>1, <2>2, <2>5, <2>6, SerialLocal DEF SendValidated, Settling
<1>4. CASE SendInvalid(p)
  <2>1. /\ task[p].pc = "validate" /\ task[p] \in Task /\ task[p].rec \in Records
        /\ row[task[p].rec] \in Row /\ row[task[p].rec].status = "PENDING"
        /\ Untouched(task[p].rec)
    BY <1>0, <1>4, AtWorkSerial DEF SendInvalid, Orderly, SenderAlone, Preparing
  <2>2. PICK r \in Records, t \in Task :
          /\ r = task[p].rec /\ t.pc \in {"failRejected", "again"}
          /\ t.rec = r /\ t.copy = row[r] /\ Goto(p, t)
    <3>1. \A next \in {"failRejected", "again"} :
            LET t == [task[p] EXCEPT !.pc = next, !.copy = row[task[p].rec]]
            IN  t \in Task /\ t.pc = next /\ t.rec = task[p].rec /\ t.copy = row[task[p].rec]
      BY <2>1 DEF Task, PCs
    <3> QED
      BY <1>4, <2>1, <3>1 DEF SendInvalid
  <2>3. Orderly(p, t, row[r])
    BY <2>1, <2>2, ConstantsAssumption DEF Orderly, SenderAlone, Preparing
  <2> QED
    BY <1>0, <1>4, <2>1, <2>2, <2>3, LocalBooks, SerialLocal DEF SendInvalid, Settling
<1>5. ASSUME SendFailRejected(p) \/ SendCommitFailure(p) PROVE SerialStep
  <2>1. /\ task[p].pc \in {"failRejected", "commit"} /\ task[p] \in Task
        /\ task[p].rec \in Records /\ task[p].copy \in Row
        /\ task[p].copy.mtcn = row[task[p].rec].mtcn
    BY <1>0, <1>5, AtWorkSerial DEF SendFailRejected, SendCommitFailure, Orderly
  <2>2. PICK r \in Records, x \in Row, t \in Task :
          /\ r = task[p].rec /\ x.status = "ERROR" /\ x.mtcn = row[r].mtcn
          /\ t.pc = "again" /\ t.rec = r /\ t.copy = x
          /\ Goto(p, t) /\ Save(r, x)
    <3>1a. /\ [task[p].copy EXCEPT !.status = RecordFlow.fail.to] \in Row
           /\ [task[p].copy EXCEPT !.status = RecordFlow.fail.to].status = "ERROR"
           /\ [task[p].copy EXCEPT !.status = RecordFlow.fail.to].mtcn = task[p].copy.mtcn
      BY <2>1, FlowTargets DEF Row, RecordStates
    <3>1. PICK x \in Row : /\ x = [task[p].copy EXCEPT !.status = RecordFlow.fail.to]
                           /\ x.status = "ERROR"
                           /\ x.mtcn = task[p].copy.mtcn
      BY <3>1a
    <3>2a. /\ [task[p] EXCEPT !.pc = "again", !.copy = x] \in Task
           /\ [task[p] EXCEPT !.pc = "again", !.copy = x].pc = "again"
           /\ [task[p] EXCEPT !.pc = "again", !.copy = x].rec = task[p].rec
           /\ [task[p] EXCEPT !.pc = "again", !.copy = x].copy = x
      BY <2>1 DEF Task, PCs
    <3>2. PICK t \in Task : /\ t = [task[p] EXCEPT !.pc = "again", !.copy = x]
                            /\ t.pc = "again"
                            /\ t.rec = task[p].rec
                            /\ t.copy = x
      BY <3>2a
    <3>3. Goto(p, t) /\ Save(task[p].rec, x)
      BY <1>5, <3>1, <3>2 DEF SendFailRejected, SendCommitFailure
    <3> QED
      BY <2>1, <3>1, <3>2, <3>3
  <2>3. Orderly(p, t, x)
    BY <2>2, ConstantsAssumption DEF Orderly, SenderAlone, Preparing
  <2> QED
    BY <1>0, <1>5, <2>2, <2>3, LocalBooks, SerialFrame
    DEF SendFailRejected, SendCommitFailure, Save
<1>6. CASE SendSaveCodes(p)
  BY <1>6, SaveCodesSerial
<1>7. CASE SendSaveQuote(p)
  <2>1. /\ task[p].pc = "quote" /\ task[p] \in Task /\ task[p].rec \in Records
        /\ row[task[p].rec] \in Row /\ task[p].copy = row[task[p].rec]
        /\ row[task[p].rec].status = "PENDING" /\ Untouched(task[p].rec)
        /\ task[p].copy.mtcn = task[p].mtcn
    BY <1>0, <1>7, AtWorkSerial DEF SendSaveQuote, Orderly, SenderAlone, Preparing
  <2>2. PICK r \in Records, t \in Task :
          /\ r = task[p].rec /\ t.pc = "store" /\ t.rec = r /\ t.copy = row[r]
          /\ t.copy.mtcn = t.mtcn /\ Goto(p, t)
    <3>1a. /\ [task[p] EXCEPT !.pc = "store"] \in Task
           /\ [task[p] EXCEPT !.pc = "store"].pc = "store"
           /\ [task[p] EXCEPT !.pc = "store"].rec = task[p].rec
           /\ [task[p] EXCEPT !.pc = "store"].copy = task[p].copy
           /\ [task[p] EXCEPT !.pc = "store"].mtcn = task[p].mtcn
      BY <2>1 DEF Task, PCs
    <3>1. PICK t \in Task : /\ t = [task[p] EXCEPT !.pc = "store"]
                            /\ t.pc = "store"
                            /\ t.rec = task[p].rec
                            /\ t.copy = task[p].copy
                            /\ t.mtcn = task[p].mtcn
      BY <3>1a
    <3>2. Goto(p, t)
      BY <1>7, <3>1 DEF SendSaveQuote
    <3> QED
      BY <2>1, <3>1, <3>2
  <2>3. Orderly(p, t, row[r])
    BY <2>1, <2>2, ConstantsAssumption DEF Orderly, SenderAlone, Preparing
  <2>4. UNCHANGED row
    BY <1>7, <2>1 DEF SendSaveQuote, Save, SI, Inv, TypeOK
  <2> QED
    BY <1>0, <1>7, <2>1, <2>2, <2>3, <2>4, LocalBooks, SerialLocal
    DEF SendSaveQuote, Settling
<1>8. CASE SendStore(p)
  BY <1>8, StoreSerial
<1>9. CASE SendRefresh(p)
  <2>1. /\ task[p].pc = "refresh" /\ task[p] \in Task /\ task[p].rec \in Records
        /\ row[task[p].rec] \in Row
    BY <1>0, <1>9, AtWorkSerial DEF SendRefresh
  <2>2. PICK r \in Records, t \in Task :
          r = task[p].rec /\ t.pc = "commit" /\ t.rec = r /\ t.copy = row[r] /\ Goto(p, t)
    <3>1. [task[p] EXCEPT !.pc = "commit", !.copy = row[task[p].rec]] \in Task
      BY <2>1 DEF Task, PCs
    <3> QED
      BY <1>9, <2>1, <3>1 DEF SendRefresh, Task
  <2>3. Orderly(p, t, row[r])
    BY <2>2, ConstantsAssumption DEF Orderly, SenderAlone, Preparing, Settling
  <2> QED
    BY <1>0, <1>9, <2>2, <2>3, LocalBooks, SerialLocal DEF SendRefresh, Settling
<1>10. CASE SendCommit(p)
  <2>1. /\ task[p].pc = "commit" /\ task[p] \in Task /\ task[p].rec \in Records
        /\ task[p].copy \in Row /\ row[task[p].rec] \in Row
        /\ task[p].copy.mtcn = row[task[p].rec].mtcn
        /\ task[p].copy.status # "PENDING" => row[task[p].rec].status # "PENDING"
    BY <1>0, <1>10, AtWorkSerial DEF SendCommit, Orderly, SenderAlone
  <2>2. UNCHANGED External
    BY <1>10 DEF SendCommit
  <2>3. CASE task[p].copy.status \in RecordFlow.store.from
    <3>1. PICK r \in Records, x \in Row, t \in Task :
            /\ r = task[p].rec /\ x.status # "PENDING" /\ x.mtcn = row[r].mtcn
            /\ t.pc = "again" /\ t.rec = r /\ t.copy = x
            /\ Goto(p, t) /\ Save(r, x)
      <4>1a. /\ [task[p].copy EXCEPT !.status = RecordFlow.store.to] \in Row
             /\ [task[p].copy EXCEPT !.status = RecordFlow.store.to].status # "PENDING"
             /\ [task[p].copy EXCEPT !.status = RecordFlow.store.to].mtcn = task[p].copy.mtcn
        BY <2>1, FlowTargets DEF Row, RecordStates
      <4>1. PICK x \in Row : /\ x = [task[p].copy EXCEPT !.status = RecordFlow.store.to]
                             /\ x.status # "PENDING"
                             /\ x.mtcn = task[p].copy.mtcn
        BY <4>1a
      <4>2a. /\ [task[p] EXCEPT !.pc = "again", !.copy = x] \in Task
             /\ [task[p] EXCEPT !.pc = "again", !.copy = x].pc = "again"
             /\ [task[p] EXCEPT !.pc = "again", !.copy = x].rec = task[p].rec
             /\ [task[p] EXCEPT !.pc = "again", !.copy = x].copy = x
        BY <2>1 DEF Task, PCs
      <4>2. PICK t \in Task : /\ t = [task[p] EXCEPT !.pc = "again", !.copy = x]
                              /\ t.pc = "again"
                              /\ t.rec = task[p].rec
                              /\ t.copy = x
        BY <4>2a
      <4>3. Goto(p, t) /\ Save(task[p].rec, x)
        BY <1>10, <2>3, <4>1, <4>2 DEF SendCommit, RecordFlow
      <4> QED
        BY <2>1, <4>1, <4>2, <4>3
    <3>2. Orderly(p, t, x)
      BY <3>1, ConstantsAssumption DEF Orderly, SenderAlone, Preparing
    <3> QED
      BY <1>0, <2>2, <3>1, <3>2, LocalBooks, SerialFrame DEF Save
  <2>4. CASE task[p].copy.status \notin RecordFlow.store.from
    <3>0. task[p].copy.status # "PENDING" /\ UNCHANGED row
      BY <1>10, <2>4 DEF SendCommit, RecordFlow
    <3>1. PICK r \in Records, t \in Task :
            /\ r = task[p].rec /\ Goto(p, t)
            /\ t # Idle => t.pc = "again" /\ t.rec = r /\ t.copy = task[p].copy
      <4>1. [task[p] EXCEPT !.pc = "again"] \in Task
        BY <2>1 DEF Task, PCs
      <4>2. Goto(p, [task[p] EXCEPT !.pc = "again"]) \/ Goto(p, Idle)
        BY <1>10, <2>4 DEF SendCommit
      <4> QED
        BY <2>1, <4>1, <4>2, IdleType DEF Task
    <3>2. t # Idle => Orderly(p, t, row[r])
      BY <2>1, <3>0, <3>1, ConstantsAssumption DEF Orderly, SenderAlone, Preparing
    <3> QED
      BY <1>0, <2>1, <2>2, <3>0, <3>1, <3>2, LocalBooks, SerialLocal
  <2> QED
    BY <2>3, <2>4
<1>11. CASE SaveAgain(p)
  BY <1>0, <1>11, SaveAgainSerial
<1> QED
  BY <1>1, <1>2, <1>3, <1>4, <1>5, <1>6, <1>7, <1>8, <1>9, <1>10, <1>11, SMTT(30)
  DEF SendStep

\* The endpoint: a record is found by the number on its row, and only for a
\* transfer that was accepted, so no sender can still be preparing it.
LEMMA HookSerial ==
  ASSUME Serialised, SI, Inv', NEW p \in Hooks,
         (\E n \in nis, r \in Records : HookRead(p, n, r)) \/ HookStep(p)
  PROVE  SerialStep
<1>0. p \in Procs /\ p \notin Senders /\ p \notin Operators
  BY ConstantsAssumption DEF Procs
<1>1. ASSUME NEW n \in nis, NEW r \in Records, HookRead(p, n, r)
      PROVE  SerialStep
  <2>1. row[r] \in Row /\ n \in Notification
    BY DEF SI, Inv, TypeOK
  <2>2. PICK t \in Task : t.pc = "apply" /\ t.rec = r /\ t.copy = row[r] /\ Goto(p, t)
    <3>1. [Idle EXCEPT !.pc = "apply", !.rec = r, !.copy = row[r], !.arg = n.type] \in Task
      BY <2>1, IdleType DEF Task, PCs, Args, Notification, Idle
    <3> QED
      BY <1>1, <3>1 DEF HookRead, Idle
  <2>3. ~Untouched(r)
    <3>1. PICK c \in Mtcns : c = n.mtcn /\ Accepted(c) /\ row[r].mtcn = c
      BY <1>1, <2>1 DEF HookRead, SI, Inv, HonestInv, BooksOK, Notification
    <3>2. owner[c] = r
      BY <3>1, ConstantsAssumption DEF SI, Inv, HonestInv, Backed
    <3> QED
      BY <3>1, <3>2 DEF Untouched
  <2>4. Orderly(p, t, row[r])
    BY <1>0, <2>2, <2>3 DEF Orderly, HookLate
  <2> QED
    BY <1>0, <1>1, <2>2, <2>4, LocalBooks, SerialLocal DEF HookRead
<1>2. CASE HookApply(p)
  <2>1. /\ task[p] \in Task /\ task[p].rec \in Records /\ task[p].copy \in Row
        /\ row[task[p].rec] \in Row /\ task[p].copy.mtcn = row[task[p].rec].mtcn
        /\ task[p].copy.status # "PENDING" => row[task[p].rec].status # "PENDING"
        /\ ~Untouched(task[p].rec) /\ UNCHANGED External /\ task[p].arg \in Args
    BY <1>0, <1>2, AtWorkSerial DEF HookApply, Orderly, HookLate, Task
  <2>2. CASE task[p].copy.status \in Requested(task[p].arg).from
    <3>1. PICK r \in Records, x \in Row, t \in Task :
            /\ r = task[p].rec /\ x.status # "PENDING" /\ x.mtcn = row[r].mtcn
            /\ t.pc = "again" /\ t.rec = r /\ t.copy = x
            /\ Goto(p, t) /\ Save(r, x)
      <4>1. PICK s \in RecordStates : s = Requested(task[p].arg).to /\ s # "PENDING"
        BY <2>1, RequestedTarget
      <4>2. /\ [task[p].copy EXCEPT !.status = s] \in Row
            /\ [task[p].copy EXCEPT !.status = s].status = s
            /\ [task[p].copy EXCEPT !.status = s].mtcn = task[p].copy.mtcn
        BY <2>1 DEF Row
      <4>3. PICK x \in Row : /\ x = [task[p].copy EXCEPT !.status = s]
                             /\ x.status = s
                             /\ x.mtcn = task[p].copy.mtcn
        BY <4>2
      <4>4. /\ [task[p] EXCEPT !.pc = "again", !.copy = x] \in Task
            /\ [task[p] EXCEPT !.pc = "again", !.copy = x].pc = "again"
            /\ [task[p] EXCEPT !.pc = "again", !.copy = x].rec = task[p].rec
            /\ [task[p] EXCEPT !.pc = "again", !.copy = x].copy = x
        BY <2>1 DEF Task, PCs
      <4>5. PICK t \in Task : /\ t = [task[p] EXCEPT !.pc = "again", !.copy = x]
                              /\ t.pc = "again"
                              /\ t.rec = task[p].rec
                              /\ t.copy = x
        BY <4>4
      <4>6. Goto(p, t) /\ Save(task[p].rec, x)
        BY <1>2, <2>2, <4>1, <4>3, <4>5 DEF HookApply
      <4> QED
        BY <2>1, <4>1, <4>3, <4>5, <4>6
    <3>2. Orderly(p, t, x)
      BY <1>0, <2>1, <3>1 DEF Orderly, HookLate
    <3> QED
      BY <1>0, <2>1, <3>1, <3>2, LocalBooks, SerialFrame DEF Save
  <2>3. CASE task[p].copy.status \notin Requested(task[p].arg).from
    <3>1. PICK r \in Records, t \in Task :
            /\ r = task[p].rec /\ Goto(p, t)
            /\ t # Idle => /\ t.pc = "again" /\ t.rec = r /\ t.copy = task[p].copy
                           /\ t.copy.status # "PENDING"
      <4>1. [task[p] EXCEPT !.pc = "again"] \in Task
        BY <2>1 DEF Task, PCs
      <4>2. \/ Goto(p, [task[p] EXCEPT !.pc = "again"]) /\ task[p].arg = "TRANSFER_TO_FSP"
            \/ Goto(p, Idle)
        BY <1>2, <2>3 DEF HookApply
      <4>3. task[p].arg = "TRANSFER_TO_FSP" => task[p].copy.status # "PENDING"
        BY <2>3, FlowTargets DEF Requested
      <4> QED
        BY <2>1, <4>1, <4>2, <4>3, IdleType DEF Task
    <3>2. t # Idle => Orderly(p, t, row[r])
      BY <1>0, <2>1, <3>1 DEF Orderly, HookLate
    <3>3. UNCHANGED row
      BY <1>2, <2>3 DEF HookApply
    <3> QED
      BY <1>0, <2>1, <3>1, <3>2, <3>3, LocalBooks, SerialLocal
  <2> QED
    BY <2>2, <2>3
<1>3. CASE SaveAgain(p)
  BY <1>0, <1>3, SaveAgainSerial
<1> QED
  BY <1>1, <1>2, <1>3 DEF HookStep

\* Operators begin only with records that are no longer PENDING ...
LEMMA ReadSerial ==
  ASSUME Serialised, SI, Inv', NEW p \in Operators, NEW r \in Records,
         NEW q \in {"ask", "search", "cancel", "again"}, row[r].status # "PENDING",
         Goto(p, [Idle EXCEPT !.pc = q, !.rec = r, !.copy = row[r]]), UNCHANGED <<row, External>>
  PROVE  SerialStep
<1>1. p \in Procs /\ p \notin Senders /\ p \notin Hooks /\ row[r] \in Row
  BY ConstantsAssumption DEF Procs, SI, Inv, TypeOK
<1>2. PICK t \in Task : t.rec = r /\ t.copy = row[r] /\ t.pc = q /\ Goto(p, t)
  <2>1. [Idle EXCEPT !.pc = q, !.rec = r, !.copy = row[r]] \in Task
    BY <1>1, IdleType DEF Task, PCs, Idle, Args
  <2> QED
    BY <2>1 DEF Idle
<1>3. Orderly(p, t, row[r])
  BY <1>1, <1>2 DEF Orderly
<1> QED
  BY <1>1, <1>2, <1>3, LocalBooks, SerialLocal DEF External

\* ... and cannot put one back to PENDING.
LEMMA OperatorSerial ==
  ASSUME Serialised, SI, Inv', NEW p \in Operators,
         (\E r \in Records : OperatorBegin(p, r)) \/ OperatorStep(p)
  PROVE  SerialStep
<1>0. p \in Procs /\ p \notin Senders /\ p \notin Hooks
  BY ConstantsAssumption DEF Procs
<1>1. CASE \E r \in Records : OperatorBegin(p, r)
  BY <1>1, ReadSerial
  DEF Serialised, OnDuty, OperatorBegin, PollRead, RefundRead, CancelRead, EditRead
<1>2. ASSUME task[p].pc # "idle", SameBooks,
             NEW x \in Row, x.mtcn = task[p].copy.mtcn, x.status # "PENDING",
             Goto(p, Idle), Save(task[p].rec, x)
      PROVE  SerialStep
  <2>1. /\ task[p].rec \in Records /\ task[p].copy.mtcn = row[task[p].rec].mtcn
        /\ task[p].copy.status # "PENDING" /\ row[task[p].rec].status # "PENDING"
    BY <1>0, <1>2, AtWorkSerial DEF Orderly
  <2> QED
    BY <1>0, <1>2, <2>1, IdleType, SerialFrame DEF Save
<1>3. ASSUME task[p].pc # "idle", SameBooks, UNCHANGED row,
             NEW q \in PCs, NEW a \in Args, Goto(p, [task[p] EXCEPT !.pc = q, !.arg = a])
      PROVE  SerialStep
  <2>1. /\ task[p] \in Task /\ task[p].rec \in Records
        /\ Orderly(p, task[p], row[task[p].rec])
    BY <1>0, <1>3, AtWorkSerial
  <2>2. PICK t \in Task : /\ t.rec = task[p].rec /\ t.copy = task[p].copy /\ Goto(p, t)
    <3>1. [task[p] EXCEPT !.pc = q, !.arg = a] \in Task
      BY <1>3, <2>1 DEF Task
    <3> QED
      BY <1>3, <2>1, <3>1 DEF Task
  <2>3. Orderly(p, t, row[task[p].rec])
    BY <1>0, <2>1, <2>2 DEF Orderly
  <2> QED
    BY <1>0, <1>3, <2>1, <2>2, <2>3, SerialLocal
<1>4. ASSUME task[p].pc # "idle", SameBooks, UNCHANGED row, Goto(p, Idle)
      PROVE  SerialStep
  <2>1. task[p].rec \in Records
    BY <1>0, <1>4, AtWorkSerial
  <2> QED
    BY <1>0, <1>4, <2>1, IdleType, SerialLocal
<1>5. ASSUME task[p].pc # "idle"
      PROVE  /\ task[p] \in Task /\ task[p].copy \in Row /\ task[p].copy.status # "PENDING"
             /\ Knows(task[p])
  BY <1>0, <1>5, AtWorkSerial DEF Orderly
<1>6. CASE PollAsk(p)
  <2>1. task[p].pc = "ask" /\ UNCHANGED row /\ SameBooks
    BY <1>6, LocalBooks DEF PollAsk
  <2>2. CASE Goto(p, Idle)
    BY <1>4, <2>1, <2>2
  <2>3. CASE ~Goto(p, Idle)
    <3>1. PICK a \in Args : Goto(p, [task[p] EXCEPT !.pc = "update", !.arg = a])
      <4>1. transfer[task[p].copy.mtcn] \in Args
        BY <1>5, <2>1 DEF Knows, SI, Inv, TypeOK, Args
      <4> QED
        BY <1>6, <2>3, <4>1 DEF PollAsk
    <3> QED
      BY <1>3, <2>1, <3>1 DEF PCs
  <2> QED
    BY <2>2, <2>3
<1>7. CASE PollUpdate(p)
  <2>1. task[p].pc = "update" /\ SameBooks /\ Goto(p, Idle)
    BY <1>7, LocalBooks DEF PollUpdate
  <2>2. CASE UNCHANGED row
    BY <1>4, <2>1, <2>2
  <2>3. CASE Save(task[p].rec, task[p].copy)
    BY <1>2, <1>5, <2>1, <2>3
  <2>4. CASE /\ task[p].arg \in DOMAIN PolledStatus
             /\ Save(task[p].rec, [task[p].copy EXCEPT !.status = PolledStatus[task[p].arg]])
    <3>1. PICK s \in RecordStates : s = PolledStatus[task[p].arg] /\ s # "PENDING"
      BY <2>4 DEF PolledStatus, RecordStates
    <3>2. /\ [task[p].copy EXCEPT !.status = s] \in Row
          /\ [task[p].copy EXCEPT !.status = s].status = s
          /\ [task[p].copy EXCEPT !.status = s].mtcn = task[p].copy.mtcn
      BY <1>5, <2>1 DEF Row
    <3> QED
      BY <1>2, <2>1, <2>4, <3>1, <3>2
  <2> QED
    BY <1>7, <2>2, <2>3, <2>4 DEF PollUpdate
<1>8. ASSUME RefundNotFound(p) \/ CancelSave(p) PROVE SerialStep
  <2>1. task[p].pc \in {"search", "cancel"} /\ SameBooks /\ Goto(p, Idle)
    BY <1>8, LocalBooks DEF RefundNotFound, CancelSave
  <2>2. PICK s \in RecordStates : /\ s # "PENDING"
                                  /\ Save(task[p].rec, [task[p].copy EXCEPT !.status = s])
    BY <1>8, FlowTargets DEF RefundNotFound, CancelSave, RecordStates
  <2>3. /\ [task[p].copy EXCEPT !.status = s] \in Row
        /\ [task[p].copy EXCEPT !.status = s].status = s
        /\ [task[p].copy EXCEPT !.status = s].mtcn = task[p].copy.mtcn
    BY <1>5, <2>1 DEF Row
  <2> QED
    BY <1>2, <2>1, <2>2, <2>3
<1>9. CASE RefundRequest(p)
  <2>1. task[p].pc = "search" /\ UNCHANGED <<row, owner>>
    BY <1>9 DEF RefundRequest
  <2>2. SameBooks
    BY <1>9, <2>1 DEF RefundRequest, SameBooks, Accepted, SI, Inv, TypeOK
  <2>3. [task[p] EXCEPT !.pc = "again"] = [task[p] EXCEPT !.pc = "again", !.arg = task[p].arg]
    BY <1>5, <2>1 DEF Task
  <2>4. task[p].arg \in Args
    BY <1>5, <2>1 DEF Task
  <2>5. Goto(p, [task[p] EXCEPT !.pc = "again", !.arg = task[p].arg])
    BY <1>9, <2>3 DEF RefundRequest
  <2> QED
    BY <1>3, <2>1, <2>2, <2>4, <2>5 DEF PCs
<1>10. CASE SaveAgain(p)
  BY <1>0, <1>10, SaveAgainSerial
<1> QED
  BY <1>1, <1>6, <1>7, <1>8, <1>9, <1>10 DEF OperatorStep

\* Western Union's own moves change no record and accept no transfer.
LEMMA WuSerial ==
  ASSUME Serialised, SI, Inv', NEW c \in Mtcns, WuStep(c)
  PROVE  SerialStep
<1>1. UNCHANGED <<row, task, owner>>
  BY DEF WuStep
<1>2. PICK m \in WuMoves : transfer[c] = m[1] /\ transfer' = [transfer EXCEPT ![c] = m[2]]
  BY DEF WuStep
<1>3. /\ m[1] \in {"stored", "paid"}
      /\ m[2] \in {"stored", "paid", "cancelled", "refunded", "purged"}
  BY DEF WuMoves
<1>4. \A d \in Mtcns : Accepted(d)' <=> Accepted(d)
  BY <1>2, <1>3 DEF Accepted, SI, Inv, TypeOK
<1>5. SameBooks /\ \A r \in Records : Untouched(r)' <=> Untouched(r)
  BY <1>1, <1>4 DEF SameBooks, Untouched
<1>6. ASSUME NEW q \in Procs, task[q] # Idle
      PROVE  Orderly(q, task[q], row[task[q].rec])'
  <2>1. task[q].rec \in Records /\ Orderly(q, task[q], row[task[q].rec])
    BY <1>6 DEF SI, SerialInv, Inv, HonestInv, Knows
  <2>2. Untouched(task[q].rec)' <=> Untouched(task[q].rec)
    BY <1>1, <1>5, <2>1 DEF Untouched
  <2> QED
    BY <1>1, <2>1, <2>2 DEF Orderly, SenderAlone, HookLate
<1> QED
  BY <1>1, <1>4, <1>5, <1>6 DEF SI, SerialInv, SerialStep, Settled

\* The start of a serialised deployment.
LEMMA InitSerial == Init => SerialInv
BY IdleType DEF Init, SerialInv, Untouched, Accepted

\* Every step keeps the serial invariant, and no row goes back to PENDING.
LEMMA NextSerial ==
  ASSUME Serialised, SI, [Next]_vars
  PROVE  SI' /\ Settled
<1>1. Inv'
  BY NextHonest DEF SI
<1>2. CASE UNCHANGED vars
  <2>1. UNCHANGED <<row, task>> /\ \A c \in Mtcns : Accepted(c)' <=> Accepted(c)
    BY <1>2 DEF vars, Accepted
  <2>2. \A r : Untouched(r)' <=> Untouched(r)
    BY <1>2, <2>1 DEF vars, Untouched
  <2> QED
    BY <1>1, <1>2, <2>1, <2>2 DEF vars, SI, SerialInv, Settled, Orderly, SenderAlone, HookLate
<1>3. ASSUME NEW p \in Senders,
             (\E r \in Records : SendBegin(p, r)) \/ SendStep(p) \/ Crash(p)
      PROVE  SI' /\ Settled
  BY <1>1, <1>3, SendSerial DEF SI, SerialStep, Serialised, Crash
<1>4. CASE Next
  BY <1>1, <1>3, <1>4, HookSerial, OperatorSerial, WuSerial DEF Next, SI, SerialStep
<1> QED
  BY <1>2, <1>4

\* With one sender at a time that is not killed, and operators kept away from
\* PENDING records, Western Union accepts at most one transfer per record, and
\* the record carries its number: nobody is paid twice, and every notification
\* about the money finds its record.
THEOREM PaidOnceOnly ==
  ASSUME Serialised
  PROVE  Spec => [](AtMostOneStore /\ StoredMtcnOnRow)
<1>1. Init => SI
  BY InitHonest, InitSerial DEF SI
<1>2. SI /\ [Next]_vars => SI'
  BY NextSerial
<1>3. SI => AtMostOneStore /\ StoredMtcnOnRow
  <2> SUFFICES ASSUME SI PROVE AtMostOneStore /\ StoredMtcnOnRow
    OBVIOUS
  <2>1. \A c \in Mtcns : Accepted(c) => row[owner[c]].mtcn = c /\ owner[c] \in Records
    BY DEF SI, SerialInv, Inv, HonestInv, BooksOK, TypeOK, Accepted
  <2> QED
    BY <2>1 DEF AtMostOneStore, StoredMtcnOnRow
<1> QED
  BY <1>1, <1>2, <1>3, PTL DEF Spec

\* A control number, once stored, stays on the row of its record.
COROLLARY MtcnKept ==
  ASSUME Serialised
  PROVE  Spec => []StoredMtcnOnRow
  BY PaidOnceOnly, PTL

-----------------------------------------------------------------------------
(* The refinement: every step is a step of the payout ledger, or stutters.   *)

\* The facts, as they are when no record has had two transfers accepted.
single ==
  [r \in Records |->
     IF \E c \in Mtcns : owner[c] = r /\ PaidOnce(c) THEN "paid"
     ELSE IF \E c \in Mtcns : owner[c] = r /\ Accepted(c) THEN "accepted"
     ELSE "nothing"]

\* Money is paid only for a transfer that was accepted.
LEMMA PaidAccepted == Inv => \A c \in Mtcns : PaidOnce(c) => Accepted(c)
<1> SUFFICES ASSUME Inv, NEW c \in Mtcns, PaidOnce(c)
             PROVE  Accepted(c)
  OBVIOUS
<1>1. Accepted([type |-> "SUCCESS", mtcn |-> c].mtcn)
  BY DEF Inv, HonestInv, BooksOK, PaidOnce
<1> QED
  BY <1>1

\* Serialised, no record ever has two.
LEMMA Single == SI => factBar = single
<1> SUFFICES ASSUME SI, NEW r \in Records
             PROVE  factBar[r] = single[r]
  BY DEF factBar, single
<1>1. \A c, d \in AcceptedFor(r) : c = d
  BY DEF AcceptedFor, SI, SerialInv
<1>2. (\E c \in AcceptedFor(r) : PaidOnce(c)) <=> \E c \in Mtcns : owner[c] = r /\ PaidOnce(c)
  BY PaidAccepted DEF AcceptedFor, SI
<1>3. AcceptedFor(r) # {} <=> \E c \in Mtcns : owner[c] = r /\ Accepted(c)
  BY DEF AcceptedFor
<1> QED
  BY <1>1, <1>2, <1>3 DEF factBar, single

\* The claims of the table never exceed their evidence.
LEMMA Evidenced == Inv => \A r \in Records : single[r] \in Ledger!Evidence[claimBar[r]]
<1> SUFFICES ASSUME Inv, NEW r \in Records
             PROVE  single[r] \in Ledger!Evidence[claimBar[r]]
  OBVIOUS
<1>1. row[r] \in Row /\ Backed(r, row[r])
  BY DEF Inv, HonestInv, TypeOK
<1>2. single[r] \in {"nothing", "accepted", "paid"}
  BY DEF single
<1>3. row[r].status \in RecordStates
  BY <1>1 DEF Row
<1>4. CASE row[r].status \in {"PENDING", "CANCELLED", "ERROR"}
  BY <1>2, <1>4 DEF claimBar, Ledger!Evidence, Ledger!Facts
<1>5. CASE row[r].status = "TRANSFERRED_TO_BENEFICIARY"
  BY <1>1, <1>5 DEF Backed, claimBar, single, Ledger!Evidence
<1>6. CASE row[r].status \in {"TRANSFERRED_TO_FSP", "REFUND", "PURGED"}
  <2>1. claimBar[r] = "sent"
    BY <1>6 DEF claimBar
  <2>2. single[r] # "nothing"
    BY <1>1, <1>6 DEF Backed, Transferred, single
  <2> QED
    BY <1>2, <2>1, <2>2 DEF Ledger!Evidence
<1> QED
  BY <1>3, <1>4, <1>5, <1>6 DEF RecordStates

\* A step that accepts and pays nothing leaves the facts of the ledger as they are.
LEMMA SameFacts ==
  ASSUME Inv, SameBooks, \A c \in Mtcns : PaidOnce(c)' <=> PaidOnce(c)
  PROVE  single' = single
<1>1. ASSUME NEW r \in Records
      PROVE  /\ (\E c \in Mtcns : owner[c] = r /\ PaidOnce(c))'
                  <=> \E c \in Mtcns : owner[c] = r /\ PaidOnce(c)
             /\ (\E c \in Mtcns : owner[c] = r /\ Accepted(c))'
                  <=> \E c \in Mtcns : owner[c] = r /\ Accepted(c)
  BY PaidAccepted DEF SameBooks
<1> QED
  BY <1>1 DEF single

\* A step of a process that leaves Western Union alone, or has it issue a number.
LEMMA LocalFacts ==
  ASSUME Inv, UNCHANGED External
  PROVE  single' = single
BY LocalBooks, SameFacts DEF External, PaidOnce

\* What a step does to the facts, and that no step changes both these and a row.
AcceptStep(r) ==
  /\ claimBar[r] = "unsent" /\ single[r] = "nothing"
  /\ single' = [single EXCEPT ![r] = "accepted"]
PayOutStep(r) == single[r] = "accepted" /\ single' = [single EXCEPT ![r] = "paid"]
FactStep ==
  \/ single' = single
  \/ /\ UNCHANGED row
     /\ \E r \in Records : AcceptStep(r) \/ PayOutStep(r)

\* SendMoneyStore is an acceptance of an unsent record, or nothing (an answer lost
\* before Western Union took the transfer on).
LEMMA StoreFacts ==
  ASSUME SI, NEW p \in Senders, SendStore(p)
  PROVE  FactStep
<1>0. p \in Procs /\ task[p].pc = "store" /\ UNCHANGED <<row, owner, nis>>
  BY DEF Procs, SendStore
<1>1. PICK r \in Records, c \in Mtcns :
        /\ r = task[p].rec /\ c = task[p].mtcn /\ owner[c] = r
        /\ row[r].status = "PENDING" /\ Untouched(r)
  BY <1>0, AtWorkSerial DEF Orderly, SenderAlone, Preparing, Knows
<1>2. CASE UNCHANGED transfer
  BY <1>0, <1>2, LocalFacts DEF SI, External, FactStep
<1>3. CASE transfer' = [transfer EXCEPT ![c] = "stored"]
  <2>1. /\ \A d \in Mtcns : Accepted(d)' <=> Accepted(d) \/ d = c
        /\ \A d \in Mtcns : PaidOnce(d)' <=> PaidOnce(d)
    BY <1>0, <1>3 DEF SI, Inv, TypeOK, Accepted, PaidOnce
  <2>2. \A d \in Mtcns : owner[d] = r => ~Accepted(d) /\ ~PaidOnce(d)
    BY <1>1, PaidAccepted DEF SI, Untouched
  <2>3. claimBar[r] = "unsent" /\ single[r] = "nothing"
    BY <1>1, <2>2 DEF claimBar, single
  <2>4. \A s \in Records : single'[s] = (IF s = r THEN "accepted" ELSE single[s])
    <3>1. ASSUME NEW s \in Records
          PROVE  /\ (\E d \in Mtcns : owner[d] = s /\ PaidOnce(d))'
                      <=> \E d \in Mtcns : owner[d] = s /\ PaidOnce(d)
                 /\ (\E d \in Mtcns : owner[d] = s /\ Accepted(d))'
                      <=> s = r \/ \E d \in Mtcns : owner[d] = s /\ Accepted(d)
      BY <1>0, <1>1, <2>1
    <3>2. ~(\E d \in Mtcns : owner[d] = r /\ PaidOnce(d))
      BY <2>2
    <3> QED
      BY <3>1, <3>2 DEF single
  <2>5. single' = [single EXCEPT ![r] = "accepted"]
    BY <2>4 DEF single
  <2> QED
    BY <1>0, <2>3, <2>5 DEF FactStep, AcceptStep
<1> QED
  BY <1>1, <1>2, <1>3 DEF SendStore

\* Of the moves of Western Union only the first payout of a record changes its fact.
LEMMA WuFacts ==
  ASSUME SI, NEW c \in Mtcns, WuStep(c)
  PROVE  FactStep
<1>0. UNCHANGED <<row, owner>>
  BY DEF WuStep
<1>1. PICK m \in WuMoves : /\ transfer[c] = m[1] /\ transfer' = [transfer EXCEPT ![c] = m[2]]
                           /\ nis' = nis \cup {[type |-> m[3], mtcn |-> c]}
  BY DEF WuStep
<1>2. /\ m[1] \in {"stored", "paid"}
      /\ m[2] \in {"stored", "paid", "cancelled", "refunded", "purged"}
  BY <1>1 DEF WuMoves
<1>3. /\ \A d \in Mtcns : Accepted(d)' <=> Accepted(d)
      /\ Accepted(c)
      /\ \A d \in Mtcns : PaidOnce(d)' <=> PaidOnce(d) \/ (d = c /\ m[3] = "SUCCESS")
  BY <1>1, <1>2 DEF Accepted, PaidOnce, SI, Inv, TypeOK
<1>4. PICK r \in Records : owner[c] = r
  BY <1>1, <1>2 DEF SI, Inv, TypeOK, HonestInv, BooksOK
<1>5. CASE m[3] # "SUCCESS" \/ \E d \in Mtcns : owner[d] = r /\ PaidOnce(d)
  <2>1. ASSUME NEW s \in Records
        PROVE  /\ (\E d \in Mtcns : owner[d] = s /\ PaidOnce(d))'
                    <=> \E d \in Mtcns : owner[d] = s /\ PaidOnce(d)
               /\ (\E d \in Mtcns : owner[d] = s /\ Accepted(d))'
                    <=> \E d \in Mtcns : owner[d] = s /\ Accepted(d)
    BY <1>0, <1>3, <1>4, <1>5
  <2> QED
    BY <2>1 DEF single, FactStep
<1>6. CASE m[3] = "SUCCESS" /\ ~\E d \in Mtcns : owner[d] = r /\ PaidOnce(d)
  <2>1. single[r] = "accepted"
    BY <1>3, <1>4, <1>6 DEF single
  <2>2. \A s \in Records : single'[s] = (IF s = r THEN "paid" ELSE single[s])
    <3>1. ASSUME NEW s \in Records
          PROVE  /\ (\E d \in Mtcns : owner[d] = s /\ PaidOnce(d))'
                      <=> s = r \/ \E d \in Mtcns : owner[d] = s /\ PaidOnce(d)
                 /\ (\E d \in Mtcns : owner[d] = s /\ Accepted(d))'
                      <=> \E d \in Mtcns : owner[d] = s /\ Accepted(d)
      BY <1>0, <1>3, <1>4, <1>6
    <3> QED
      BY <3>1 DEF single
  <2>3. single' = [single EXCEPT ![r] = "paid"]
    BY <2>2 DEF single
  <2> QED
    BY <1>0, <2>1, <2>3 DEF FactStep, PayOutStep
<1> QED
  BY <1>5, <1>6

\* Every step changes the facts as the ledger allows.
LEMMA NextFacts ==
  ASSUME SI, Next
  PROVE  FactStep
<1>1. ASSUME NEW p \in Senders, NEW c \in Mtcns, SendValidated(p, c) PROVE FactStep
  <2>1. ~Accepted(c) /\ ~Accepted(c)'
    BY <1>1 DEF SendValidated, SI, Inv, HonestInv, BooksOK, TypeOK, Accepted
  <2>2. \A d \in Mtcns \ {c} : transfer'[d] = transfer[d] /\ owner'[d] = owner[d]
    BY <1>1 DEF SendValidated, SI, Inv, TypeOK
  <2>3. SameBooks /\ UNCHANGED nis
    BY <1>1, <2>1, <2>2 DEF SameBooks, Accepted, SendValidated
  <2> QED
    BY <2>3, SameFacts DEF SI, PaidOnce, FactStep
<1>2. ASSUME NEW p \in Operators, RefundRequest(p) PROVE FactStep
  <2>1. SameBooks
    BY <1>2 DEF RefundRequest, SameBooks, Accepted, SI, Inv, TypeOK
  <2>2. \A c \in Mtcns : PaidOnce(c)' <=> PaidOnce(c)
    BY <1>2 DEF RefundRequest, PaidOnce
  <2> QED
    BY <2>1, <2>2, SameFacts DEF SI, FactStep
<1>3. ASSUME UNCHANGED External PROVE FactStep
  BY <1>3, LocalFacts DEF SI, FactStep
<1>4. ASSUME NEW p \in Senders,
             (\E r \in Records : SendBegin(p, r)) \/ SendStep(p) \/ Crash(p)
      PROVE  FactStep
  BY <1>1, <1>3, <1>4, StoreFacts
  DEF SendStep, SendBegin, SendPayloadError, SendInvalid, SendFailRejected, SendSaveCodes,
      SendSaveQuote, SendRefresh, SendCommit, SendCommitFailure, SaveAgain, Crash, External
<1>5. ASSUME NEW p \in Hooks,
             (\E n \in nis, r \in Records : HookRead(p, n, r)) \/ HookStep(p)
      PROVE  FactStep
  BY <1>3, <1>5 DEF HookStep, HookRead, HookApply, SaveAgain, External
<1>6. ASSUME NEW p \in Operators,
             (\E r \in Records : OperatorBegin(p, r)) \/ OperatorStep(p)
      PROVE  FactStep
  BY <1>2, <1>3, <1>6
  DEF OperatorBegin, OperatorStep, PollRead, RefundRead, CancelRead, EditRead,
      PollAsk, PollUpdate, RefundNotFound, CancelSave, SaveAgain, External
<1> QED
  BY <1>4, <1>5, <1>6, WuFacts DEF Next

\* A step saves at most one row.
LEMMA NextSaves ==
  ASSUME Next
  PROVE  UNCHANGED row \/ \E r, x : row' = [row EXCEPT ![r] = x]
<1>1. ASSUME NEW p, SaveAgain(p)
      PROVE  \E r, x : row' = [row EXCEPT ![r] = x]
  BY <1>1 DEF SaveAgain, Save
<1>2. ASSUME NEW p, (\E r \in Records : SendBegin(p, r)) \/ SendStep(p) \/ Crash(p)
      PROVE  UNCHANGED row \/ \E r, x : row' = [row EXCEPT ![r] = x]
  BY <1>1, <1>2
  DEF SendStep, SendBegin, SendPayloadError, SendValidated, SendInvalid, SendFailRejected,
      SendSaveCodes, SendSaveQuote, SendStore, SendRefresh, SendCommit, SendCommitFailure,
      Crash, Save
<1>3. ASSUME NEW p, (\E n \in nis, r \in Records : HookRead(p, n, r)) \/ HookStep(p)
      PROVE  UNCHANGED row \/ \E r, x : row' = [row EXCEPT ![r] = x]
  BY <1>1, <1>3 DEF HookStep, HookRead, HookApply, Save
<1>4. ASSUME NEW p, (\E r \in Records : OperatorBegin(p, r)) \/ OperatorStep(p)
      PROVE  UNCHANGED row \/ \E r, x : row' = [row EXCEPT ![r] = x]
  BY <1>1, <1>4
  DEF OperatorBegin, OperatorStep, PollRead, RefundRead, CancelRead, EditRead,
      PollAsk, PollUpdate, RefundNotFound, RefundRequest, CancelSave, Save
<1> QED
  BY <1>2, <1>3, <1>4 DEF Next, WuStep

\* Saving a row is recording an outcome there is evidence for, or nothing.
LEMMA SaveRecords ==
  ASSUME Inv, Inv', Settled, UNCHANGED single, factBar = single, factBar' = single',
         NEW r, NEW x, row' = [row EXCEPT ![r] = x],
         \A s \in Records : single'[s] \in Ledger!Evidence[claimBar'[s]]
  PROVE  [Ledger!Next]_<<claimBar, factBar>>
<1>1. \A s \in Records : s # r => row'[s] = row[s]
  BY DEF Inv, TypeOK
<1>2. \A s \in Records : s # r => claimBar'[s] = claimBar[s]
  BY <1>1 DEF claimBar
<1>3. CASE r \in Records /\ claimBar'[r] # claimBar[r]
  <2>1. claimBar'[r] \in Ledger!Claims \ {"unsent"}
    <3>1. row'[r].status # "PENDING"
      BY <1>3 DEF Settled, claimBar
    <3> QED
      BY <1>3, <3>1 DEF claimBar, Ledger!Claims
  <2>2. claimBar' = [claimBar EXCEPT ![r] = claimBar'[r]]
    BY <1>2, <1>3 DEF claimBar
  <2>3. single[r] \in Ledger!Evidence[claimBar'[r]]
    BY <1>3
  <2> QED
    BY <1>3, <2>1, <2>2, <2>3 DEF Ledger!Next, Ledger!Record
<1>4. CASE ~(r \in Records /\ claimBar'[r] # claimBar[r])
  <2>1. \A s \in Records : claimBar'[s] = claimBar[s]
    BY <1>2, <1>4
  <2> QED
    BY <2>1 DEF claimBar
<1> QED
  BY <1>3, <1>4

\* In a serialised deployment the table and Western Union implement the payout
\* ledger: one acceptance per record, only while the record is unsent, and no
\* claim the facts do not support.
THEOREM ImplementsLedger ==
  ASSUME Serialised
  PROVE  Spec => LedgerSpec
<1>1. Init => SI
  BY InitHonest, InitSerial DEF SI
<1>2. SI /\ [Next]_vars => SI' /\ Settled
  BY NextSerial
<1>3. Init => Ledger!Init
  BY DEF Init, Ledger!Init, claimBar, factBar, AcceptedFor, NewRow, Accepted, PaidOnce
<1>4. SI => /\ factBar = single
            /\ \A r \in Records : single[r] \in Ledger!Evidence[claimBar[r]]
  BY Single, Evidenced DEF SI
<1>5. /\ SI /\ SI' /\ Settled /\ [Next]_vars
      /\ factBar = single /\ (factBar = single)'
      /\ (\A r \in Records : single[r] \in Ledger!Evidence[claimBar[r]])'
      => [Ledger!Next]_<<claimBar, factBar>>
  <2> SUFFICES ASSUME SI, SI', Settled, [Next]_vars, factBar = single, factBar' = single',
                      \A r \in Records : single'[r] \in Ledger!Evidence[claimBar'[r]]
               PROVE  [Ledger!Next]_<<claimBar, factBar>>
    BY DEF Ledger!Evidence, Ledger!Facts
  <2>1. CASE UNCHANGED vars
    BY <2>1 DEF vars, claimBar, factBar, AcceptedFor, Accepted, PaidOnce
  <2>2. CASE Next /\ ~UNCHANGED single
    <3>1. PICK r \in Records : AcceptStep(r) \/ PayOutStep(r)
      BY <2>2, NextFacts DEF FactStep
    <3>2. UNCHANGED claimBar
      BY <2>2, NextFacts DEF FactStep, claimBar
    <3> QED
      BY <3>1, <3>2
      DEF AcceptStep, PayOutStep, Ledger!Next, Ledger!Accept, Ledger!PayOut
  <2>3. CASE Next /\ UNCHANGED single
    <3>1. CASE UNCHANGED row
      BY <2>3, <3>1 DEF claimBar
    <3>2. CASE \E r, x : row' = [row EXCEPT ![r] = x]
      BY <2>3, <3>2, SaveRecords DEF SI
    <3> QED
      BY <2>3, <3>1, <3>2, NextSaves
  <2> QED
    BY <2>1, <2>2, <2>3
<1> QED
  BY <1>1, <1>2, <1>3, <1>4, <1>5, PTL DEF Spec, LedgerSpec, Ledger!Spec

=============================================================================
