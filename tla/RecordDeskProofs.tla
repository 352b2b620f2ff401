--------------------------- MODULE RecordDeskProofs ---------------------------
(***************************************************************************)
(* PalPay and RecordDesk for any number of records, senders, codes, jobs   *)
(* and transfers.                                                          *)
(***************************************************************************)
EXTENDS RecordDeskInv, FiniteSetTheorems, SequenceTheorems, TLAPS

(***************************************************************************)
(* PalPay.  The transfers accepted for a record are counted: those lost,   *)
(* those a sender still holds, and those that have closed the record.      *)
(***************************************************************************)
LEMMA PalStarts == Init => PalInv
<1> SUFFICES ASSUME Init PROVE PalInv
  OBVIOUS
<1> USE PalConstantsAssumption
<1>1. PalTypes
  BY DEF Init, PalInit, PalTypes, PalTask, PalIdle, PalPCs, RecordStates
<1>2. ASSUME NEW p \in PalSenders PROVE PalTaskOK(p)
  BY DEF Init, PalInit, PalTaskOK, PalIdle
<1>3. ASSUME NEW r \in PalRecords PROVE PalCounts(r)
  <2>1. Holding(r) = {}
    BY DEF Init, PalInit, Holding, Held, PalIdle
  <2> QED BY <2>1, FS_EmptySet DEF Init, PalInit, PalCounts
<1> QED BY <1>1, <1>2, <1>3 DEF PalInv

\* A sender's step changes what it holds of one record, by one at most.
LEMMA HoldingCount ==
  ASSUME NEW r, NEW p \in PalSenders, IsFiniteSet(Holding(r)),
         \A q \in PalSenders : q # p => task'[q] = task[q]
  PROVE  /\ IsFiniteSet(Holding(r)')
         /\ Cardinality(Holding(r)) \in Nat /\ Cardinality(Holding(r)') \in Nat
         /\ Held(p, r) /\ ~Held(p, r)' =>
              Cardinality(Holding(r)') = Cardinality(Holding(r)) - 1
         /\ ~Held(p, r) /\ Held(p, r)' =>
              Cardinality(Holding(r)') = Cardinality(Holding(r)) + 1
         /\ (Held(p, r) <=> Held(p, r)') =>
              Cardinality(Holding(r)') = Cardinality(Holding(r))
<1>0. Cardinality(Holding(r)) \in Nat
  BY FS_CardinalityType
<1>1. CASE Held(p, r) /\ ~Held(p, r)'
  <2>1. Holding(r)' = Holding(r) \ {p} /\ p \in Holding(r)
    BY <1>1 DEF Holding, Held
  <2> QED BY <1>0, <1>1, <2>1, FS_RemoveElement, FS_CardinalityType
<1>2. CASE ~Held(p, r) /\ Held(p, r)'
  <2>1. Holding(r)' = Holding(r) \cup {p} /\ p \notin Holding(r)
    BY <1>2 DEF Holding, Held
  <2> QED BY <1>0, <1>2, <2>1, FS_AddElement, FS_CardinalityType
<1>3. CASE Held(p, r) <=> Held(p, r)'
  <2>1. Holding(r)' = Holding(r)
    BY <1>3 DEF Holding, Held
  <2> QED BY <1>0, <1>3, <2>1
<1> QED BY <1>1, <1>2, <1>3

\* What each action does to the fields of its sender's task.
LEMMA PalMoves ==
  ASSUME PalInv, NEW p \in PalSenders,
         (\E r \in PalRecords : PalRead(p, r)) \/ PalStep(p) \/ PalRaise(p)
  PROVE  /\ PalTypes' /\ PalTaskOK(p)'
         /\ \A q \in PalSenders : q # p => task'[q] = task[q]
<1> USE PalConstantsAssumption DEF RecordStates, RecordFlow
<1>0. PalIdle.pc = "idle" /\ PalIdle.rec = NoRecord /\ PalIdle.accepted = FALSE
  BY DEF PalIdle
<1>t. /\ PalTypes /\ task[p] \in PalTask /\ PalTaskOK(p)
  BY DEF PalInv, PalTypes
<1>1. ASSUME NEW t \in PalTask, PalGoto(p, t)
      PROVE  /\ task' \in [PalSenders -> PalTask]
             /\ task'[p] = t
             /\ \A q \in PalSenders : q # p => task'[q] = task[q]
  BY <1>t, <1>1 DEF PalTypes, PalGoto
<1>2. ASSUME NEW r \in PalRecords, PalRead(p, r)
      PROVE  /\ PalTypes' /\ PalTaskOK(p)'
             /\ \A q \in PalSenders : q # p => task'[q] = task[q]
  <2>1. /\ [PalIdle EXCEPT !.pc = "transfer", !.rec = r] \in PalTask
        /\ [PalIdle EXCEPT !.pc = "transfer", !.rec = r].pc = "transfer"
        /\ [PalIdle EXCEPT !.pc = "transfer", !.rec = r].rec = r
        /\ [PalIdle EXCEPT !.pc = "transfer", !.rec = r].accepted = FALSE
    BY DEF PalIdle, PalTask, PalPCs
  <2>2. PalGoto(p, [PalIdle EXCEPT !.pc = "transfer", !.rec = r])
        /\ UNCHANGED <<pal, paid, lost>>
    BY <1>2 DEF PalRead
  <2>3. task' \in [PalSenders -> PalTask] /\ \A q \in PalSenders : q # p => task'[q] = task[q]
    BY <1>1, <2>1, <2>2
  <2>4. task'[p] = [PalIdle EXCEPT !.pc = "transfer", !.rec = r]
    BY <1>1, <2>1, <2>2
  <2>5. task'[p] # PalIdle
    BY <1>0, <2>1, <2>4
  <2> QED BY <1>t, <2>1, <2>2, <2>3, <2>4, <2>5 DEF PalTypes, PalTaskOK
<1>3. ASSUME NEW c \in PalPCs \ {"idle", "transfer"}, NEW a \in BOOLEAN,
             task[p] # PalIdle,
             PalGoto(p, [task[p] EXCEPT !.pc = c, !.accepted = a])
      PROVE  /\ task' \in [PalSenders -> PalTask] /\ PalTaskOK(p)'
             /\ \A q \in PalSenders : q # p => task'[q] = task[q]
  <2>1. /\ [task[p] EXCEPT !.pc = c, !.accepted = a] \in PalTask
        /\ [task[p] EXCEPT !.pc = c, !.accepted = a].pc = c
        /\ [task[p] EXCEPT !.pc = c, !.accepted = a].rec = task[p].rec
    BY <1>t DEF PalTask
  <2>2. task'[p] = [task[p] EXCEPT !.pc = c, !.accepted = a]
        /\ task' \in [PalSenders -> PalTask]
        /\ \A q \in PalSenders : q # p => task'[q] = task[q]
    BY <1>1, <1>3, <2>1
  <2>3. task'[p] # PalIdle
    BY <1>0, <1>3, <2>1, <2>2
  <2>4. task[p].rec \in PalRecords
    BY <1>3, <1>t DEF PalTaskOK
  <2> QED BY <2>1, <2>2, <2>3, <2>4 DEF PalTaskOK
<1>4. ASSUME PalGoto(p, PalIdle)
      PROVE  /\ task' \in [PalSenders -> PalTask] /\ PalTaskOK(p)'
             /\ \A q \in PalSenders : q # p => task'[q] = task[q]
  <2>1. PalIdle \in PalTask
    BY DEF PalIdle, PalTask, PalPCs
  <2>2. task'[p] = PalIdle /\ task' \in [PalSenders -> PalTask]
        /\ \A q \in PalSenders : q # p => task'[q] = task[q]
    BY <1>1, <1>4, <2>1
  <2> QED BY <2>2 DEF PalTaskOK, PalIdle
<1>5. task[p].pc # "idle" => task[p] # PalIdle /\ task[p].rec \in PalRecords
  BY <1>t DEF PalTaskOK
<1>6. task[p] = [task[p] EXCEPT !.accepted = task[p].accepted]
      /\ \A c \in PalPCs : [task[p] EXCEPT !.pc = c]
                             = [task[p] EXCEPT !.pc = c, !.accepted = task[p].accepted]
  BY <1>t DEF PalTask
<1>7. task[p].accepted \in BOOLEAN /\ {"answer", "close"} \subseteq PalPCs \ {"idle", "transfer"}
  BY <1>t DEF PalTask, PalPCs
<1>8. CASE PalPayloadError(p)
  <2>1. task[p].pc = "transfer" /\ UNCHANGED <<pal, paid, lost>>
        /\ PalGoto(p, [task[p] EXCEPT !.pc = "close", !.accepted = task[p].accepted])
    BY <1>6, <1>7, <1>8 DEF PalPayloadError
  <2>2. /\ task' \in [PalSenders -> PalTask] /\ PalTaskOK(p)'
        /\ \A q \in PalSenders : q # p => task'[q] = task[q]
    BY <1>3, <1>5, <1>7, <2>1
  <2> QED BY <1>t, <2>1, <2>2 DEF PalTypes
<1>9. CASE PalTransfer(p)
  <2>0. task[p].pc = "transfer" /\ UNCHANGED <<pal, lost>> /\ task[p].rec \in PalRecords
    BY <1>5, <1>9 DEF PalTransfer
  <2>1. paid' \in [PalRecords -> 0..MaxTransfers]
    BY <1>9, <1>t, <2>0 DEF PalTransfer, PalTypes
  <2>2. \E a \in BOOLEAN : PalGoto(p, [task[p] EXCEPT !.pc = "answer", !.accepted = a])
    BY <1>6, <1>7, <1>9 DEF PalTransfer
  <2>3. /\ task' \in [PalSenders -> PalTask] /\ PalTaskOK(p)'
        /\ \A q \in PalSenders : q # p => task'[q] = task[q]
    BY <1>3, <1>5, <1>7, <2>0, <2>2
  <2> QED BY <1>t, <2>0, <2>1, <2>3 DEF PalTypes
<1>10. CASE PalAnswer(p)
  <2>1. task[p].pc = "answer" /\ UNCHANGED <<paid, lost>>
        /\ pal' = [pal EXCEPT ![task[p].rec] = "ERROR"]
        /\ PalGoto(p, [task[p] EXCEPT !.pc = "close", !.accepted = task[p].accepted])
    BY <1>6, <1>7, <1>10 DEF PalAnswer
  <2>2. /\ task' \in [PalSenders -> PalTask] /\ PalTaskOK(p)'
        /\ \A q \in PalSenders : q # p => task'[q] = task[q]
    BY <1>3, <1>5, <1>7, <2>1
  <2> QED BY <1>t, <2>1, <2>2 DEF PalTypes
<1>11. CASE PalClose(p)
  <2>1. UNCHANGED <<paid, lost>> /\ PalGoto(p, PalIdle)
        /\ pal' = [pal EXCEPT ![task[p].rec] = "ERROR"]
    BY <1>11 DEF PalClose
  <2> QED BY <1>4, <1>t, <2>1 DEF PalTypes
<1>12. CASE PalRaise(p)
  <2>0. task[p].rec \in PalRecords
    BY <1>12, <1>t DEF PalRaise, PalTaskOK
  <2>1. UNCHANGED <<pal, paid>> /\ PalGoto(p, PalIdle) /\ lost' \in [PalRecords -> Nat]
    BY <1>12, <1>t, <2>0 DEF PalRaise, PalTypes
  <2> QED BY <1>4, <1>t, <2>1 DEF PalTypes
<1> QED BY <1>2, <1>8, <1>9, <1>10, <1>11, <1>12 DEF PalStep

\* The count of one record, one action at a time.
LEMMA PalCountsStep ==
  ASSUME PalInv, NEW p \in PalSenders, NEW r \in PalRecords,
         (\E q \in PalRecords : PalRead(p, q)) \/ PalStep(p) \/ PalRaise(p)
  PROVE  PalCounts(r)'
<1> USE PalConstantsAssumption
<1>t. /\ task \in [PalSenders -> PalTask] /\ task[p] \in PalTask /\ PalTaskOK(p)
      /\ pal \in [PalRecords -> RecordStates]
      /\ paid \in [PalRecords -> 0..MaxTransfers] /\ lost \in [PalRecords -> Nat]
      /\ paid[r] \in Nat /\ lost[r] \in Nat
  BY DEF PalInv, PalTypes
<1>i. /\ IsFiniteSet(Holding(r)) /\ lost[r] + Cardinality(Holding(r)) <= paid[r]
      /\ pal[r] = "PENDING" => paid[r] = lost[r] + Cardinality(Holding(r))
  BY DEF PalInv, PalCounts
<1>o. \A q \in PalSenders : q # p => task'[q] = task[q]
  BY PalMoves
<1>c. /\ IsFiniteSet(Holding(r)')
      /\ Cardinality(Holding(r)) \in Nat /\ Cardinality(Holding(r)') \in Nat
      /\ Held(p, r) /\ ~Held(p, r)' =>
           Cardinality(Holding(r)') = Cardinality(Holding(r)) - 1
      /\ ~Held(p, r) /\ Held(p, r)' =>
           Cardinality(Holding(r)') = Cardinality(Holding(r)) + 1
      /\ (Held(p, r) <=> Held(p, r)') =>
           Cardinality(Holding(r)') = Cardinality(Holding(r))
  BY <1>i, <1>o, HoldingCount
<1>1. ASSUME NEW q \in PalRecords, PalRead(p, q) PROVE PalCounts(r)'
  <2>0. task[p] = PalIdle /\ PalIdle.accepted = FALSE /\ UNCHANGED <<pal, paid, lost>>
    BY <1>1, Zenon DEF PalRead, PalIdle
  <2>1. ~Held(p, r) /\ UNCHANGED <<pal, paid, lost>>
    BY <2>0 DEF Held
  <2>2. task'[p].accepted = FALSE
    BY <1>1, <1>t DEF PalRead, PalGoto, PalIdle
  <2>3. ~Held(p, r)'
    BY <2>2 DEF Held
  <2> QED BY <1>i, <1>c, <2>1, <2>3 DEF PalCounts
<1>2. CASE PalPayloadError(p)
  <2>1. task'[p] = [task[p] EXCEPT !.pc = "close"] /\ UNCHANGED <<pal, paid, lost>>
    BY <1>2, <1>t DEF PalPayloadError, PalGoto
  <2>2. task'[p].rec = task[p].rec /\ task'[p].accepted = task[p].accepted
    BY <1>t, <2>1 DEF PalTask
  <2>3. Held(p, r) <=> Held(p, r)'
    BY <2>2 DEF Held
  <2> QED BY <1>i, <1>c, <2>1, <2>3 DEF PalCounts
<1>3. CASE PalTransfer(p)
  <2>0. task[p].pc = "transfer" /\ UNCHANGED <<pal, lost>>
        /\ task[p].accepted = FALSE /\ task[p].rec \in PalRecords
    BY <1>3, <1>t DEF PalTransfer, PalTaskOK, PalTask
  <2>1. CASE /\ paid' = [paid EXCEPT ![task[p].rec] = @ + 1]
             /\ PalGoto(p, [task[p] EXCEPT !.pc = "answer", !.accepted = TRUE])
    <3>1. task'[p] = [task[p] EXCEPT !.pc = "answer", !.accepted = TRUE]
      BY <1>t, <2>1 DEF PalGoto
    <3>2. task'[p].rec = task[p].rec /\ task'[p].accepted = TRUE
      BY <1>t, <3>1 DEF PalTask
    <3>3. CASE task[p].rec = r
      <4>1. ~Held(p, r) /\ Held(p, r)' /\ paid'[r] = paid[r] + 1
        BY <1>t, <2>0, <2>1, <3>2, <3>3 DEF Held
      <4> QED BY <1>i, <1>c, <1>t, <2>0, <4>1 DEF PalCounts
    <3>4. CASE task[p].rec # r
      <4>1. ~Held(p, r) /\ ~Held(p, r)' /\ paid'[r] = paid[r]
        BY <1>t, <2>0, <2>1, <3>2, <3>4 DEF Held
      <4> QED BY <1>i, <1>c, <1>t, <2>0, <4>1 DEF PalCounts
    <3> QED BY <3>3, <3>4
  <2>2. CASE PalGoto(p, [task[p] EXCEPT !.pc = "answer"]) /\ UNCHANGED paid
    <3>1. task'[p] = [task[p] EXCEPT !.pc = "answer"]
      BY <1>t, <2>2 DEF PalGoto
    <3>2. task'[p].rec = task[p].rec /\ task'[p].accepted = task[p].accepted
      BY <1>t, <3>1 DEF PalTask
    <3>3. Held(p, r) <=> Held(p, r)'
      BY <3>2 DEF Held
    <3> QED BY <1>i, <1>c, <2>0, <2>2, <3>3 DEF PalCounts
  <2> QED BY <1>3, <2>1, <2>2 DEF PalTransfer
<1>4. CASE PalAnswer(p)
  <2>1. task'[p] = [task[p] EXCEPT !.pc = "close"] /\ UNCHANGED <<paid, lost>>
    BY <1>4, <1>t DEF PalAnswer, PalGoto
  <2>2. task'[p].rec = task[p].rec /\ task'[p].accepted = task[p].accepted
    BY <1>t, <2>1 DEF PalTask
  <2>3. Held(p, r) <=> Held(p, r)'
    BY <2>2 DEF Held
  <2>4. pal'[r] = "ERROR" \/ pal'[r] = pal[r]
    BY <1>4, <1>t DEF PalAnswer, RecordFlow
  <2> QED BY <1>i, <1>c, <2>1, <2>3, <2>4 DEF PalCounts
<1>5. CASE PalClose(p)
  <2>1. task'[p] = PalIdle /\ UNCHANGED <<paid, lost>>
    BY <1>5, <1>t DEF PalClose, PalGoto
  <2>2. ~Held(p, r)'
    BY <2>1 DEF Held, PalIdle
  <2>3. CASE task[p].rec = r
    <3>1. pal'[r] = "ERROR"
      BY <1>5, <1>t, <2>3 DEF PalClose, RecordFlow
    <3> QED BY <1>i, <1>c, <1>t, <2>1, <2>2, <3>1 DEF PalCounts
  <2>4. CASE task[p].rec # r
    <3>1. pal'[r] = pal[r] /\ ~Held(p, r)
      BY <1>5, <1>t, <2>4 DEF PalClose, Held
    <3> QED BY <1>i, <1>c, <2>1, <2>2, <3>1 DEF PalCounts
  <2> QED BY <2>3, <2>4
<1>6. CASE PalRaise(p)
  <2>1. task'[p] = PalIdle /\ UNCHANGED <<pal, paid>>
    BY <1>6, <1>t DEF PalRaise, PalGoto
  <2>2. ~Held(p, r)'
    BY <2>1 DEF Held, PalIdle
  <2>3. CASE Held(p, r)
    <3>1. lost'[r] = lost[r] + 1
      BY <1>6, <1>t, <2>3 DEF PalRaise, Held
    <3> QED BY <1>i, <1>c, <1>t, <2>1, <2>2, <2>3, <3>1 DEF PalCounts
  <2>4. CASE ~Held(p, r)
    <3>1. lost'[r] = lost[r]
      BY <1>6, <1>t, <2>4 DEF PalRaise, Held
    <3> QED BY <1>i, <1>c, <2>1, <2>2, <2>4, <3>1 DEF PalCounts
  <2> QED BY <2>3, <2>4
<1> QED BY <1>1, <1>2, <1>3, <1>4, <1>5, <1>6 DEF PalStep

LEMMA PalKeeps == PalInv /\ UNCHANGED palVars => PalInv'
  BY DEF PalInv, PalTypes, PalTaskOK, PalCounts, Holding, Held, palVars

LEMMA PalStepOK ==
  ASSUME PalInv, NEW p \in PalSenders,
         (\E q \in PalRecords : PalRead(p, q)) \/ PalStep(p) \/ PalRaise(p)
  PROVE  PalInv'
<1>1. PalTypes'
  BY PalMoves
<1>2. ASSUME NEW q \in PalSenders PROVE PalTaskOK(q)'
  <2>1. CASE q = p
    BY PalMoves, <2>1
  <2>2. CASE q # p
    <3>1. task'[q] = task[q] /\ PalTaskOK(q)
      BY <2>2, PalMoves DEF PalInv
    <3> QED BY <3>1 DEF PalTaskOK
  <2> QED BY <2>1, <2>2
<1>3. ASSUME NEW r \in PalRecords PROVE PalCounts(r)'
  BY PalCountsStep
<1> QED BY <1>1, <1>2, <1>3 DEF PalInv

\* The rest of the desk leaves PalPay alone.
LEMMA DeskLeavesPal == DeskNext => UNCHANGED palVars
  BY DEF DeskNext, Send, Notified, RestCancelBegin, RestCancelEnd, WuCancel, Queue,
    UpdateStatusAction, MoneygramAction, CancelAction, JobStart, JobEnd, Try, Abort,
    WuPollStep, WuPollRaises, MgPollStep, CancelStep

LEMMA PalNextOK == PalInv /\ [Next]_vars => PalInv'
<1> SUFFICES ASSUME PalInv, [Next]_vars PROVE PalInv'
  OBVIOUS
<1>1. CASE UNCHANGED palVars
  BY <1>1, PalKeeps
<1>2. CASE PalNext
  BY <1>2, PalStepOK DEF PalNext
<1> QED BY <1>1, <1>2, DeskLeavesPal DEF Next, vars

LEMMA PalAlways == Spec => []PalInv
  BY PalStarts, PalNextOK, PTL DEF Spec

\* However many processes send records through PalPay, and whatever exceptions and kills
\* they meet: a transfer PalPay accepted takes the record out of PENDING for good, but for
\* the attempts that were lost.
THEOREM AcceptedIsClosedAlways == Spec => []AcceptedIsClosed
<1>1. PalInv => AcceptedIsClosed
  <2> SUFFICES ASSUME PalInv, NEW r \in PalRecords, pal[r] = "PENDING", paid[r] > lost[r],
                      \A p \in PalSenders : task[p].rec # r
               PROVE  FALSE
    BY DEF AcceptedIsClosed
  <2>1. Holding(r) = {}
    BY DEF Holding, Held
  <2>2. paid[r] = lost[r] + 0 /\ paid[r] \in Nat /\ lost[r] \in Nat
    BY <2>1, FS_EmptySet, PalConstantsAssumption DEF PalInv, PalCounts, PalTypes
  <2> QED BY <2>2
<1> QED BY <1>1, PalAlways, PTL

LEMMA PalOnceStarts == Init => PalOnce
  BY PalConstantsAssumption DEF Init, PalInit, PalOnce, PalIdle

\* The only sender reads a PENDING record only when nothing is held of it.
LEMMA PalOnceStep ==
  ASSUME \A a, b \in PalSenders : a = b,
         PalInv, PalOnce, NEW p \in PalSenders,
         (\E q \in PalRecords : PalRead(p, q)) \/ PalStep(p) \/ PalRaise(p)
  PROVE  PalOnce'
<1> USE PalConstantsAssumption
<1>t. /\ task \in [PalSenders -> PalTask] /\ task[p] \in PalTask /\ PalTaskOK(p)
      /\ paid \in [PalRecords -> 0..MaxTransfers] /\ lost \in [PalRecords -> Nat]
  BY DEF PalInv, PalTypes
<1>o. \A q \in PalSenders : q = p
  OBVIOUS
<1> SUFFICES ASSUME NEW r \in PalRecords
             PROVE  /\ paid'[r] <= 1 + lost'[r]
                    /\ task'[p].pc = "transfer" /\ task'[p].rec = r => paid'[r] <= lost'[r]
  BY <1>o DEF PalOnce
<1>i. /\ paid[r] \in Nat /\ lost[r] \in Nat /\ paid[r] <= 1 + lost[r]
      /\ task[p].pc = "transfer" /\ task[p].rec = r => paid[r] <= lost[r]
  BY <1>t DEF PalOnce
<1>1. ASSUME NEW q \in PalRecords, PalRead(p, q)
      PROVE  /\ paid'[r] <= 1 + lost'[r]
             /\ task'[p].pc = "transfer" /\ task'[p].rec = r => paid'[r] <= lost'[r]
  <2>1. task[p] = PalIdle /\ pal[q] = "PENDING" /\ UNCHANGED <<paid, lost>>
    BY <1>1 DEF PalRead
  <2>2. task'[p].rec = q
    BY <1>1, <1>t DEF PalRead, PalGoto, PalIdle
  <2>3. Holding(q) = {}
    BY <1>o, <2>1 DEF Holding, Held, PalIdle
  <2>4. paid[q] = lost[q] + 0
    BY <2>1, <2>3, FS_EmptySet DEF PalInv, PalCounts
  <2> QED BY <1>i, <2>1, <2>2, <2>4
<1>2. CASE PalTransfer(p)
  <2>0. \/ task'[p] = [task[p] EXCEPT !.pc = "answer", !.accepted = TRUE]
        \/ task'[p] = [task[p] EXCEPT !.pc = "answer"]
    BY <1>2, <1>t DEF PalTransfer, PalGoto
  <2>1. task'[p].pc = "answer"
    BY <1>t, <2>0 DEF PalTask
  <2>2. task[p].pc = "transfer" /\ UNCHANGED lost
    BY <1>2 DEF PalTransfer
  <2>3. paid'[r] = paid[r] \/ (task[p].rec = r /\ paid'[r] = paid[r] + 1)
    BY <1>2, <1>t DEF PalTransfer
  <2> QED BY <1>i, <2>1, <2>2, <2>3
<1>3. CASE PalPayloadError(p) \/ PalAnswer(p)
  <2>1. task'[p].pc = "close" /\ UNCHANGED <<paid, lost>>
    BY <1>3, <1>t DEF PalPayloadError, PalAnswer, PalGoto, PalTask
  <2> QED BY <1>i, <2>1
<1>4. CASE PalClose(p)
  <2>1. task'[p].pc = "idle" /\ UNCHANGED <<paid, lost>>
    BY <1>4, <1>t DEF PalClose, PalGoto, PalIdle
  <2> QED BY <1>i, <2>1
<1>5. CASE PalRaise(p)
  <2>1. task'[p].pc = "idle" /\ UNCHANGED paid
    BY <1>5, <1>t DEF PalRaise, PalGoto, PalIdle
  <2>2. lost'[r] = lost[r] \/ lost'[r] = lost[r] + 1
    BY <1>5, <1>t DEF PalRaise
  <2> QED BY <1>i, <2>1, <2>2
<1> QED BY <1>1, <1>2, <1>3, <1>4, <1>5 DEF PalStep

LEMMA PalOnceNext ==
  ASSUME \A a, b \in PalSenders : a = b
  PROVE  PalInv /\ PalOnce /\ [Next]_vars => PalOnce'
<1> SUFFICES ASSUME PalInv, PalOnce, [Next]_vars PROVE PalOnce'
  OBVIOUS
<1>1. CASE UNCHANGED palVars
  BY <1>1 DEF PalOnce, palVars
<1>2. CASE PalNext
  BY <1>2, PalOnceStep DEF PalNext
<1> QED BY <1>1, <1>2, DeskLeavesPal DEF Next, vars

\* One process at a time never sends a record twice, unless PalPay's answer was lost: a
\* refused or misread answer closes the record, and a closed record is not read again.
THEOREM PalPaysOnce ==
  ASSUME \A a, b \in PalSenders : a = b
  PROVE  Spec => []PaidOncePerLoss
<1>1. PalInv /\ PalOnce /\ [Next]_vars => PalOnce'
  BY PalOnceNext
<1>2. PalOnce => PaidOncePerLoss
  BY DEF PalOnce, PaidOncePerLoss
<1> QED BY <1>1, <1>2, PalOnceStarts, PalAlways, PTL DEF Spec

-----------------------------------------------------------------------------
(***************************************************************************)
(* The desk.  Whatever the operation, a row either is sent, with a code of *)
(* its own, or keeps its code and does not go back to PENDING.             *)
(***************************************************************************)
LEMMA DeskStarts == Init => DeskInv
<1> SUFFICES ASSUME Init PROVE DeskInv
  OBVIOUS
<1> USE DeskConstantsAssumption
<1>1. row \in [Others -> DeskRow]
  BY DEF Init, DeskRow, RecordStates
<1>2. queue \in Seq(Queued)
  BY DEF Init
<1>3. job = NoJob /\ NoJob \in Job
  BY DEF Init, NoJob, Job, JobKinds
<1>4. call \in Call
  BY DEF Init, NoCall, Call
<1>5. CodesOwn
  BY DEF Init, CodesOwn
<1>6. JobOK
  BY <1>3 DEF NoJob, JobOK
<1> QED BY <1>1, <1>2, <1>3, <1>4, <1>5, <1>6 DEF Init, DeskInv, DeskTypes

\* The new status of a row that keeps its code.
Moved(r, s) ==
  /\ s \in RecordStates /\ (s = "PENDING" => row[r].status = "PENDING")
  /\ SetRow(r, s)

LEMMA RefundMoves ==
  ASSUME NEW c, WuRefund(c)
  PROVE  UNCHANGED row \/ \E r \in Others : Moved(r, "ERROR")
  BY DEF WuRefund, WuFound, Moved, RecordFlow, RecordStates, Others

LEMMA RowMoves ==
  ASSUME DeskInv, DeskNext
  PROVE  \/ \E r \in Others : Send(r)
         \/ UNCHANGED row
         \/ \E r \in Others : \E s \in RecordStates : Moved(r, s)
<1>t. /\ row \in [Others -> DeskRow] /\ job \in Job /\ JobOK
      /\ \A r \in Others : row[r].status \in RecordStates /\ row[r] \in DeskRow
      /\ \A x \in ToTry : x \in job.selected /\ x.rec \in Others
  BY DEF DeskInv, DeskTypes, Job, Copy, ToTry, DeskRow
<1>e. "ERROR" \in RecordStates
  BY DEF RecordStates
<1>1. ASSUME NEW r \in Others, Notified(r)
      PROVE  \E s \in RecordStates : Moved(r, s)
  BY <1>1 DEF Notified, Reported, Moved, RecordStates
<1>2. ASSUME RestCancelEnd
      PROVE  UNCHANGED row \/ \E r \in Others : Moved(r, "ERROR")
  BY <1>2, RefundMoves DEF RestCancelEnd
<1>3. ASSUME NEW r \in Others, WuCancel(r)
      PROVE  UNCHANGED row \/ \E q \in Others : Moved(q, "ERROR")
  BY <1>3, RefundMoves DEF WuCancel
<1>4. ASSUME NEW x \in ToTry, WuPollStep(x)
      PROVE  \E r \in Others : \E s \in RecordStates : Moved(r, s)
  <2>1. PICK r \in WuFound(x.code) :
          \E s \in {"TRANSFERRED_TO_BENEFICIARY", "TRANSFERRED_TO_FSP", "CANCELLED",
                    row[r].status} : SetRow(r, s)
    BY <1>4 DEF WuPollStep
  <2>2. r \in Others
    BY DEF WuFound, Others
  <2> QED BY <1>t, <2>1, <2>2 DEF Moved, RecordStates
<1>5. ASSUME NEW x \in ToTry, MgPollStep(x)
      PROVE  \E r \in Others : \E s \in RecordStates : Moved(r, s)
  <2>1. \E s \in Reported \cup {row[x.rec].status} : SetRow(x.rec, s)
    BY <1>5 DEF MgPollStep
  <2> QED BY <1>t, <2>1 DEF Moved, Reported, RecordStates
<1>6. ASSUME NEW x \in ToTry, CancelStep(x)
      PROVE  \E r \in Others : \E s \in RecordStates : Moved(r, s)
  <2>1. row' = [row EXCEPT ![x.rec] = [status |-> "CANCELLED", code |-> x.code]]
        /\ job.kind = "cancel"
    BY <1>6 DEF CancelStep, Try, RecordFlow
  <2>2. row[x.rec].code = x.code /\ row[x.rec] \in DeskRow
    BY <1>t, <2>1 DEF JobOK
  <2>3. [row[x.rec] EXCEPT !.status = "CANCELLED"] = [status |-> "CANCELLED", code |-> x.code]
    BY <2>2 DEF DeskRow
  <2>4. SetRow(x.rec, "CANCELLED")
    BY <1>t, <2>1, <2>3 DEF SetRow
  <2> QED BY <1>t, <2>4 DEF Moved, RecordStates
<1> QED
  <2>1. CASE \E r \in Others : Send(r)
    BY <2>1
  <2>2. CASE \E r \in Others : Notified(r) \/ WuCancel(r)
    BY <1>1, <1>3, <1>e, <2>2
  <2>3. CASE RestCancelEnd
    BY <1>2, <1>e, <2>3
  <2>4. CASE \E x \in ToTry :
               WuPollStep(x) \/ WuPollRaises(x) \/ MgPollStep(x) \/ CancelStep(x)
    BY <1>4, <1>5, <1>6, <2>4 DEF WuPollRaises, Abort
  <2>5. CASE \/ \E r \in RestNamed : RestCancelBegin(r)
             \/ \E chosen \in SUBSET AllRecords :
                  UpdateStatusAction(chosen) \/ MoneygramAction(chosen) \/ CancelAction(chosen)
             \/ JobStart \/ JobEnd
    BY <2>5 DEF RestCancelBegin, UpdateStatusAction, MoneygramAction, CancelAction, Queue,
      JobStart, JobEnd
  <2> QED BY <2>1, <2>2, <2>3, <2>4, <2>5 DEF DeskNext

\* What that means for each row: its type, its code, and the end of PENDING.
LEMMA RowFacts ==
  ASSUME DeskInv, DeskNext
  PROVE  /\ row' \in [Others -> DeskRow]
         /\ CodesOwn'
         /\ \A r \in Others : row[r].status # "PENDING" =>
              row'[r].status # "PENDING" /\ row'[r].code = row[r].code
<1>t. /\ row \in [Others -> DeskRow] /\ CodesOwn
      /\ \A r \in Others : row[r] \in DeskRow
  BY DEF DeskInv, DeskTypes
<1>1. ASSUME NEW r \in Others, Send(r)
      PROVE  /\ row' \in [Others -> DeskRow]
             /\ CodesOwn'
             /\ \A q \in Others : row[q].status # "PENDING" => row'[q] = row[q]
  <2>1. PICK c \in Codes \cup {NoCode}, s \in {"PENDING", "TRANSFERRED_TO_FSP", "ERROR"} :
          /\ \A q \in Others : c # NoCode => row[q].code # c
          /\ row' = [row EXCEPT ![r] = [status |-> s, code |-> c]]
    BY <1>1 DEF Send
  <2>2. [status |-> s, code |-> c] \in DeskRow
    BY DEF DeskRow, RecordStates
  <2>3. /\ row' \in [Others -> DeskRow]
        /\ row'[r].code = c
        /\ \A q \in Others : q # r => row'[q] = row[q]
    BY <1>t, <2>1, <2>2
  <2>4. CodesOwn'
    BY <1>t, <2>1, <2>3 DEF CodesOwn
  <2>5. row[r].status = "PENDING"
    BY <1>1 DEF Send
  <2> QED BY <2>3, <2>4, <2>5
<1>2. ASSUME NEW r \in Others, NEW s \in RecordStates, Moved(r, s)
      PROVE  /\ row' \in [Others -> DeskRow]
             /\ CodesOwn'
             /\ \A q \in Others : row[q].status # "PENDING" =>
                  row'[q].status # "PENDING" /\ row'[q].code = row[q].code
  <2>1. row' = [row EXCEPT ![r].status = s] /\ (s = "PENDING" => row[r].status = "PENDING")
    BY <1>2 DEF Moved, SetRow
  <2>2. /\ row'[r] = [row[r] EXCEPT !.status = s]
        /\ \A q \in Others : q # r => row'[q] = row[q]
        /\ DOMAIN row' = Others
    BY <1>t, <2>1
  <2>3. row'[r] \in DeskRow /\ row'[r].status = s /\ row'[r].code = row[r].code
    BY <1>t, <2>2 DEF DeskRow
  <2>4. row' \in [Others -> DeskRow]
    BY <1>t, <2>1, <2>2, <2>3
  <2>5. \A q \in Others : row'[q].code = row[q].code
    BY <2>2, <2>3
  <2>6. CodesOwn'
    BY <1>t, <2>5 DEF CodesOwn
  <2> QED BY <2>1, <2>2, <2>3, <2>4, <2>5, <2>6
<1>3. CASE UNCHANGED row
  BY <1>t, <1>3 DEF CodesOwn
<1> QED BY <1>1, <1>2, <1>3, RowMoves

\* The job that runs: it starts from the head of the queue, tries what it selected,
\* and ends or is ended.
LEMMA JobMoves ==
  ASSUME DeskInv, DeskNext
  PROVE  \/ UNCHANGED job
         \/ job' = NoJob
         \/ JobStart
         \/ \E x \in ToTry : job' = [job EXCEPT !.tried = @ \cup {x}]
  BY DEF DeskNext, Send, Notified, RestCancelBegin, RestCancelEnd, WuCancel, Queue,
    UpdateStatusAction, MoneygramAction, CancelAction, JobStart, JobEnd, Try, Abort,
    WuPollStep, WuPollRaises, MgPollStep, CancelStep

LEMMA SelectedFacts ==
  ASSUME NEW j \in Job
  PROVE  /\ Selected(j) \subseteq Others
         /\ j.kind = "wuPoll" => Selected(j) \subseteq WuRecords
         /\ j.kind = "cancel" =>
              \A r \in Selected(j) : r \in j.ids /\ row[r].status = "TRANSFERRED_TO_FSP"
  BY DEF Selected, Job, Others

LEMMA StartOK ==
  ASSUME DeskInv, JobStart
  PROVE  /\ job' \in Job /\ JobOK' /\ queue' \in Seq(Queued)
         /\ job'.kind = Head(queue).kind
<1>t. /\ row \in [Others -> DeskRow] /\ queue \in Seq(Queued) /\ queue # <<>>
      /\ \A r \in Others : row[r] \in DeskRow
  BY DEF DeskInv, DeskTypes, JobStart
<1> DEFINE h == Head(queue)
           copies == {[rec |-> r, code |-> row[r].code] : r \in Selected(h)}
<1>1. h \in Queued /\ Tail(queue) \in Seq(Queued)
  BY <1>t, HeadTailProperties
<1>2. h \in Job /\ h.tried = {}
  BY <1>1 DEF Queued
<1>3. job' = [h EXCEPT !.selected = copies] /\ UNCHANGED row /\ queue' = Tail(queue)
  BY DEF JobStart
<1> HIDE DEF h
<1>4. Selected(h) \subseteq Others
  BY <1>2, SelectedFacts
<1>5. copies \subseteq Copy
  BY <1>t, <1>4 DEF Copy, DeskRow
<1>6. \A x \in copies : x.rec \in Selected(h) /\ x.code = row[x.rec].code
  OBVIOUS
<1> HIDE DEF copies
<1>7. /\ job' \in Job /\ job'.selected = copies /\ job'.tried = {}
      /\ job'.kind = h.kind /\ job'.ids = h.ids
  BY <1>2, <1>3, <1>5 DEF Job
<1>8. JobOK'
  <2>1. h.kind = "wuPoll" => \A x \in copies : x.rec \in WuRecords
    BY <1>2, <1>6, SelectedFacts
  <2>2. h.kind = "cancel" => \A x \in copies :
          x.rec \in h.ids /\ row[x.rec].status = "TRANSFERRED_TO_FSP"
    BY <1>2, <1>6, SelectedFacts
  <2> QED BY <1>3, <1>6, <1>7, <2>1, <2>2 DEF JobOK
<1> QED BY <1>1, <1>3, <1>7, <1>8 DEF h

LEMMA JobFacts ==
  ASSUME DeskInv, DeskNext
  PROVE  job' \in Job /\ JobOK'
<1>t. job \in Job /\ JobOK
  BY DEF DeskInv, DeskTypes
<1>r. \A r \in Others : row[r].status # "PENDING" =>
        row'[r].status # "PENDING" /\ row'[r].code = row[r].code
  BY RowFacts
<1>s. \A x \in job.selected : x.rec \in Others
  BY <1>t DEF Job, Copy
<1>1. CASE UNCHANGED job
  BY <1>1, <1>r, <1>s, <1>t DEF JobOK
<1>2. CASE job' = NoJob
  BY <1>2 DEF NoJob, Job, JobKinds, JobOK
<1>3. CASE JobStart
  BY <1>3, StartOK
<1>4. ASSUME NEW x \in ToTry, job' = [job EXCEPT !.tried = @ \cup {x}]
      PROVE  job' \in Job /\ JobOK'
  <2>1. x \in job.selected
    BY DEF ToTry
  <2>2. /\ job' \in Job /\ job'.selected = job.selected /\ job'.tried = job.tried \cup {x}
        /\ job'.kind = job.kind /\ job'.ids = job.ids
    BY <1>4, <1>t, <2>1 DEF Job
  <2> QED BY <1>r, <1>s, <1>t, <2>1, <2>2 DEF JobOK
<1> QED BY <1>1, <1>2, <1>3, <1>4, JobMoves

LEMMA QueueFacts ==
  ASSUME DeskInv, NEW kind \in JobKinds, NEW ids \in SUBSET Others, Queue(kind, ids)
  PROVE  queue' \in Seq(Queued) /\ count' \in 0..MaxJobs
<1>1. [NoJob EXCEPT !.kind = kind, !.ids = ids] \in Queued
  BY DEF NoJob, Queued, Job
<1> QED BY <1>1, AppendProperties, DeskConstantsAssumption DEF Queue, DeskInv, DeskTypes

LEMMA DeskTypesStep ==
  ASSUME DeskInv, DeskNext
  PROVE  queue' \in Seq(Queued) /\ count' \in 0..MaxJobs /\ call' \in Call
<1>t. /\ queue \in Seq(Queued) /\ count \in 0..MaxJobs /\ call \in Call
      /\ \A r \in Others : row[r].code \in Codes \cup {NoCode}
  BY DEF DeskInv, DeskTypes, DeskRow
<1>1. CASE \E chosen \in SUBSET AllRecords :
             UpdateStatusAction(chosen) \/ MoneygramAction(chosen) \/ CancelAction(chosen)
  <2>1. PICK kind \in JobKinds, ids \in SUBSET Others : Queue(kind, ids)
    BY <1>1 DEF UpdateStatusAction, MoneygramAction, CancelAction, JobKinds, Others
  <2>2. queue' \in Seq(Queued) /\ count' \in 0..MaxJobs
    BY <2>1, QueueFacts
  <2> QED BY <1>t, <2>1, <2>2 DEF Queue
<1>2. CASE JobStart
  BY <1>2, <1>t, StartOK DEF JobStart
<1>3. ASSUME NEW r \in RestNamed, RestCancelBegin(r)
      PROVE  queue' = queue /\ count' = count /\ call' \in Call
  <2>1. r \in AllRecords /\ Code(r) \in Codes \cup {NoCode}
    BY <1>t, DeskConstantsAssumption DEF Code, AllRecords, Others
  <2> QED BY <1>3, <2>1 DEF RestCancelBegin, Call
<1>4. CASE RestCancelEnd
  BY <1>4, <1>t DEF RestCancelEnd, NoCall, Call
<1>5. CASE \/ \E r \in Others : Send(r) \/ Notified(r) \/ WuCancel(r)
           \/ JobEnd
           \/ \E x \in ToTry :
                WuPollStep(x) \/ WuPollRaises(x) \/ MgPollStep(x) \/ CancelStep(x)
  BY <1>5, <1>t DEF Send, Notified, WuCancel, JobEnd, Try, Abort,
    WuPollStep, WuPollRaises, MgPollStep, CancelStep
<1> QED BY <1>1, <1>2, <1>3, <1>4, <1>5, <1>t DEF DeskNext

LEMMA DeskNextOK == DeskInv /\ [Next]_vars => DeskInv'
<1> SUFFICES ASSUME DeskInv, [Next]_vars PROVE DeskInv'
  OBVIOUS
<1>1. CASE UNCHANGED deskVars
  BY <1>1 DEF DeskInv, DeskTypes, CodesOwn, JobOK, deskVars
<1>2. CASE DeskNext
  BY <1>2, RowFacts, JobFacts, DeskTypesStep DEF DeskInv, DeskTypes
<1> QED BY <1>1, <1>2 DEF Next, vars

LEMMA DeskAlways == Spec => []DeskInv
  BY DeskStarts, DeskNextOK, PTL DEF Spec

\* Every variable of PalPay and of the desk has its type; no more transfers are lost than
\* PalPay accepted.
THEOREM DeskTypeCorrect == Spec => []TypeOK
<1>1. PalInv => PalTypeOK
  <2> SUFFICES ASSUME PalInv PROVE PalTypeOK
    OBVIOUS
  <2>1. ASSUME NEW r \in PalRecords PROVE lost[r] \in 0..MaxTransfers
    <3>1. Cardinality(Holding(r)) \in Nat
      BY FS_CardinalityType DEF PalInv, PalCounts
    <3> QED BY <3>1, PalConstantsAssumption DEF PalInv, PalTypes, PalCounts
  <2> QED BY <2>1 DEF PalInv, PalTypes, PalTypeOK
<1>2. DeskInv => \A i \in DOMAIN queue : queue[i] \in Job
  BY ElementOfSeq DEF DeskInv, DeskTypes, Queued
<1>3. PalInv /\ DeskInv => TypeOK
  BY <1>1, <1>2 DEF DeskInv, DeskTypes, TypeOK
<1> QED BY <1>3, PalAlways, DeskAlways, PTL

\* A record whose code is still the one that was selected is found by it alone.
LEMMA CodeFindsOne ==
  ASSUME DeskInv, NEW r \in WuRecords, row[r].code # NoCode
  PROVE  WuGet(row[r].code)
<1>1. WuFound(row[r].code) = {r}
  BY DEF DeskInv, CodesOwn, WuFound, Others
<1> QED BY <1>1, FS_Singleton DEF WuGet

\* A poll ends before its time only over a record with no code, or with another than it
\* had: whatever is sent, reported, cancelled or queued meanwhile.
THEOREM PollAsksEverybody == Spec => PollAsksAll
<1>1. DeskInv /\ [Next]_vars
      => [job.kind \in {"wuPoll", "mgPoll"} /\ job' = NoJob
            => \/ job.selected = job.tried
               \/ /\ job.kind = "wuPoll"
                  /\ \E x \in job.selected : x.code = NoCode \/ x.code # row[x.rec].code]_vars
  <2> SUFFICES ASSUME DeskInv, Next, job.kind \in {"wuPoll", "mgPoll"}, job' = NoJob,
                      job.selected # job.tried
               PROVE  /\ job.kind = "wuPoll"
                      /\ \E x \in job.selected : x.code = NoCode \/ x.code # row[x.rec].code
    OBVIOUS
  <2>0. NoJob.kind = "none"
    BY DEF NoJob
  <2>1. job \in Job /\ JobOK /\ job' # job /\ job # NoJob
    BY <2>0 DEF DeskInv, DeskTypes
  <2>2. ToTry # {}
    BY <2>1 DEF ToTry, JobOK
  <2>3. ASSUME NEW x, NEW kind, Try(kind, x) PROVE FALSE
    <3>1. job'.kind = job.kind
      BY <2>1, <2>3 DEF Try, Job
    <3> QED BY <2>0, <3>1
  <2>4. PICK x \in ToTry : WuPollRaises(x)
    <3>1. DeskNext
      BY <2>1 DEF Next, deskVars
    <3>2. UNCHANGED job \/ JobStart \/ JobEnd
          \/ \E x \in ToTry : WuPollRaises(x) \/ (\E kind \in JobKinds : Try(kind, x))
      <4>1. \A r \in Others : Send(r) \/ Notified(r) \/ WuCancel(r) => UNCHANGED job
        BY DEF Send, Notified, WuCancel
      <4>2. (\E r \in RestNamed : RestCancelBegin(r)) \/ RestCancelEnd => UNCHANGED job
        BY DEF RestCancelBegin, RestCancelEnd
      <4>3. \A chosen \in SUBSET AllRecords :
              UpdateStatusAction(chosen) \/ MoneygramAction(chosen) \/ CancelAction(chosen)
                => UNCHANGED job
        BY DEF UpdateStatusAction, MoneygramAction, CancelAction, Queue
      <4>4. \A x \in ToTry : WuPollStep(x) \/ MgPollStep(x) \/ CancelStep(x)
              => \E kind \in JobKinds : Try(kind, x)
        BY DEF WuPollStep, MgPollStep, CancelStep, JobKinds
      <4> QED BY <3>1, <4>1, <4>2, <4>3, <4>4 DEF DeskNext
    <3>3. ~JobStart /\ ~JobEnd
      BY <2>1, <2>2 DEF JobStart, JobEnd
    <3> QED BY <2>1, <2>3, <3>2, <3>3
  <2>5. job.kind = "wuPoll" /\ ~WuGet(x.code) /\ x \in job.selected
    BY <2>4 DEF WuPollRaises, Abort, ToTry
  <2>6. x.rec \in WuRecords
    BY <2>1, <2>5 DEF JobOK
  <2>7. x.code = NoCode \/ x.code # row[x.rec].code
    BY <2>5, <2>6, CodeFindsOne
  <2> QED BY <2>5, <2>7
<1> QED BY <1>1, DeskAlways, PTL DEF Spec, PollAsksAll

\* While a cancel job runs, a record becomes CANCELLED only if it was chosen for it.
THEOREM CancelsOnlyChosen == Spec => CancelOnlySelected
<1>1. DeskInv /\ [Next]_vars
      => [\A r \in Others :
            job.kind = "cancel" /\ row[r].status # "CANCELLED" /\ row'[r].status = "CANCELLED"
              => r \in job.ids]_vars
  <2> SUFFICES ASSUME DeskInv, Next, NEW r \in Others, job.kind = "cancel",
                      row[r].status # "CANCELLED", row'[r].status = "CANCELLED"
               PROVE  r \in job.ids
    OBVIOUS
  <2>t. row \in [Others -> DeskRow] /\ JobOK
    BY DEF DeskInv, DeskTypes
  <2>1. DeskNext
    BY DEF Next, deskVars
  <2>2. ASSUME NEW q \in Others, NEW s, SetRow(q, s), s # "CANCELLED" PROVE FALSE
    <3>1. CASE q = r
      <4>1. row'[r] = [row[r] EXCEPT !.status = s] /\ row[r] \in DeskRow
        BY <2>2, <2>t, <3>1 DEF SetRow
      <4>2. row'[r].status = s
        BY <4>1 DEF DeskRow
      <4> QED BY <2>2, <4>2
    <3>2. CASE q # r
      BY <2>2, <2>t, <3>2 DEF SetRow
    <3> QED BY <3>1, <3>2
  <2>3. ASSUME NEW c, WuRefund(c) PROVE FALSE
    BY <2>2, <2>3 DEF WuRefund, WuFound, RecordFlow, Others
  <2>4. ASSUME NEW q \in Others, Send(q) PROVE FALSE
    <3>1. PICK c, s \in {"PENDING", "TRANSFERRED_TO_FSP", "ERROR"} :
            row' = [row EXCEPT ![q] = [status |-> s, code |-> c]]
      BY <2>4 DEF Send
    <3> QED BY <2>t, <3>1
  <2>5. \E x \in ToTry : CancelStep(x)
    <3>1. row' # row
      OBVIOUS
    <3>2. \A q \in Others : ~Send(q) /\ ~Notified(q) /\ ~WuCancel(q)
      BY <2>2, <2>3, <2>4 DEF Notified, Reported, WuCancel
    <3>3. ~RestCancelEnd
      BY <2>3, <3>1 DEF RestCancelEnd
    <3>4. /\ \A q \in RestNamed : ~RestCancelBegin(q)
          /\ ~JobStart /\ ~JobEnd
          /\ \A x \in ToTry : ~WuPollRaises(x)
      BY <3>1 DEF RestCancelBegin, JobStart, JobEnd, WuPollRaises, Abort
    <3>5. \A chosen \in SUBSET AllRecords :
            ~UpdateStatusAction(chosen) /\ ~MoneygramAction(chosen) /\ ~CancelAction(chosen)
      BY <3>1 DEF UpdateStatusAction, MoneygramAction, CancelAction, Queue
    <3>6. \A x \in ToTry : ~WuPollStep(x) /\ ~MgPollStep(x)
      BY DEF WuPollStep, MgPollStep, Try
    <3> QED BY <2>1, <3>2, <3>3, <3>4, <3>5, <3>6 DEF DeskNext
  <2>6. PICK x \in ToTry : CancelStep(x)
    BY <2>5
  <2>7. x.rec \in job.ids
    BY <2>6, <2>t DEF ToTry, JobOK
  <2>8. x.rec = r
    BY <2>6, <2>t DEF CancelStep
  <2> QED BY <2>7, <2>8
<1> QED BY <1>1, DeskAlways, PTL DEF Spec, CancelOnlySelected
=============================================================================
