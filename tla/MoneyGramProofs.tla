--------------------------- MODULE MoneyGramProofs ---------------------------
(***************************************************************************)
(* Type correctness of MoneyGram in every deployment, and, while rows that *)
(* are still PENDING are not edited (~TouchPending), the invariants that   *)
(* keep a draft whose money moves on the row of its record.                *)
(***************************************************************************)
EXTENDS MoneyGramInv, TLAPS

-----------------------------------------------------------------------------
(* Type correctness.                                                       *)

\* What a task needs besides its type for the next step to be typed.
WellFormed(t) ==
  /\ t.pc = "idle" => t = Idle
  /\ t.pc # "idle" => t.rec \in Records
  /\ t.pc = "ask" => t.copy.fsp \in Drafts
  /\ t.pc \in {"get", "note", "refund", "refunded"} => t.draft \in Drafts

TypeInv == TypeOK /\ \A p \in Procs : WellFormed(task[p])

USE ConstantsAssumption DEF RecordStates

LEMMA FlowTypes ==
  /\ RecordFlow.store.to \in RecordStates /\ RecordFlow.fail.to \in RecordStates
  /\ RecordFlow.cancel.to \in RecordStates
  /\ \A type \in EventTypes \ {"OTHER"} : MgTransition[type].to \in RecordStates
BY DEF RecordFlow, MgTransition, EventTypes

LEMMA RowTypes ==
  /\ NewRow \in Row
  /\ Idle \in Task /\ WellFormed(Idle) /\ Idle.pc = "idle"
BY DEF NewRow, Row, Idle, Task, PCs, EventTypes, WellFormed

\* A task that takes a row up.
LEMMA TaskWithRow ==
  ASSUME NEW t \in Task, NEW pc \in PCs, NEW x \in Row, NEW n \in 0 .. 2
  PROVE  [t EXCEPT !.pc = pc, !.copy = x, !.left = n] \in Task
BY DEF Task

\* A row that is saved is typed.
LEMMA RowStep ==
  ASSUME TypeInv, NEW k, NEW x \in Row, row' = [row EXCEPT ![k] = x]
  PROVE  row' \in [Records -> Row]
BY DEF TypeInv, TypeOK

LEMMA LockStep ==
  ASSUME TypeInv, NEW k, NEW q \in Procs \cup {NoProc}, lock' = [lock EXCEPT ![k] = q]
  PROVE  lock' \in [Records -> Procs \cup {NoProc}]
BY DEF TypeInv, TypeOK

\* A step of a process to a typed task, with the tables and MoneyGram typed after it.
LEMMA TypedStep ==
  ASSUME TypeInv, NEW p \in Procs, NEW t \in Task, WellFormed(t), Goto(p, t),
         row' \in [Records -> Row], lock' \in [Records -> Procs \cup {NoProc}],
         owner' \in [Drafts -> Records \cup {NoRecord}],
         money' \in [Drafts -> MoneyStates], events' \subseteq Event
  PROVE  TypeInv'
<1>1. task' \in [Procs -> Task]
  BY DEF TypeInv, TypeOK, Goto
<1>2. task'[p] = t /\ \A q \in Procs \ {p} : task'[q] = task[q]
  BY DEF TypeInv, TypeOK, Goto
<1>3. \A q \in Procs : WellFormed(task'[q])
  BY <1>2 DEF TypeInv
<1>4. \A q \in Procs : WellFormed(task[q])'
  BY <1>3 DEF WellFormed
<1> QED BY <1>1, <1>4 DEF TypeInv, TypeOK

\* ... when MoneyGram is left alone.
LEMMA TypedLocal ==
  ASSUME TypeInv, NEW p \in Procs, NEW t \in Task, WellFormed(t), Goto(p, t),
         row' \in [Records -> Row], lock' \in [Records -> Procs \cup {NoProc}],
         UNCHANGED External
  PROVE  TypeInv'
BY TypedStep DEF TypeInv, TypeOK, External

LEMMA TypedSenders ==
  ASSUME TypeInv, NEW p \in Senders, (\E r \in Records : Begin(p, r)) \/ SendStep(p) \/ Crash(p)
  PROVE  TypeInv'
<1> DEFINE t0 == task[p]
<1>0. /\ p \in Procs /\ t0 \in Task /\ WellFormed(t0)
      /\ row \in [Records -> Row] /\ lock \in [Records -> Procs \cup {NoProc}]
      /\ owner \in [Drafts -> Records \cup {NoRecord}] /\ money \in [Drafts -> MoneyStates]
      /\ events \subseteq Event
  BY DEF Procs, TypeInv, TypeOK
<1>1. ASSUME NEW r \in Records, Begin(p, r)
      PROVE  TypeInv'
  <2>1. \A g \in BOOLEAN : /\ [Idle EXCEPT !.pc = "draft", !.goOn = g, !.rec = r] \in Task
                            /\ WellFormed([Idle EXCEPT !.pc = "draft", !.goOn = g, !.rec = r])
    BY RowTypes DEF Idle, Task, PCs, WellFormed
  <2>2. /\ [Idle EXCEPT !.pc = "commit", !.rec = r] \in Task
        /\ WellFormed([Idle EXCEPT !.pc = "commit", !.rec = r])
    BY RowTypes DEF Idle, Task, PCs, WellFormed
  <2>3. row' = row /\ lock' = lock /\ UNCHANGED External
    BY <1>1 DEF Begin
  <2>4. PICK t \in Task : WellFormed(t) /\ Goto(p, t)
    BY <1>1, <2>1, <2>2 DEF Begin
  <2> QED BY <1>0, <2>3, <2>4, TypedLocal
<1>2. CASE DraftLock(p)
  <2> DEFINE x == row[t0.rec]
             t == [t0 EXCEPT !.pc = "post", !.copy = x, !.left = 2]
  <2>1. t0.pc = "draft" /\ t0.rec \in Records /\ x \in Row
    BY <1>0, <1>2 DEF DraftLock, WellFormed
  <2> HIDE DEF x
  <2>2. t \in Task /\ WellFormed(t)
    <3>1. {"post", "put"} \subseteq PCs /\ 2 \in 0 .. 2
      BY DEF PCs
    <3>2. t \in Task
      BY <1>0, <2>1, <3>1, TaskWithRow
    <3>3. t.pc \in {"post", "put"} /\ t.rec = t0.rec
      BY <1>0 DEF Task
    <3> QED BY <2>1, <3>2, <3>3 DEF WellFormed
  <2> USE DEF x
  <2>3. lock' \in [Records -> Procs \cup {NoProc}]
    BY <1>0, <1>2, LockStep DEF DraftLock, Lock
  <2>4. row' = row /\ UNCHANGED External /\ (Goto(p, t) \/ Goto(p, Idle))
    BY <1>2 DEF DraftLock
  <2> QED BY <1>0, <2>2, <2>3, <2>4, RowTypes, TypedLocal
<1>3. CASE Post(p)
  <2>1. t0.pc = "post" /\ t0.left > 0 /\ t0.rec \in Records
    BY <1>0, <1>3 DEF Post, WellFormed
  <2>2. OneTryLess(p) \in Task /\ WellFormed(OneTryLess(p))
    BY <1>0, <2>1 DEF OneTryLess, Task, WellFormed
  <2>3. \A d \in Drafts : /\ [t0 EXCEPT !.pc = "draftSave", !.draft = d] \in Task
                           /\ WellFormed([t0 EXCEPT !.pc = "draftSave", !.draft = d])
    BY <1>0, <2>1 DEF Task, PCs, WellFormed
  <2>4. row' = row /\ lock' = lock /\ events' = events
    BY <1>3 DEF Post
  <2>5. /\ owner' \in [Drafts -> Records \cup {NoRecord}]
        /\ money' \in [Drafts -> MoneyStates]
    BY <1>0, <1>3, <2>1 DEF Post, MoneyStates
  <2>6. PICK t \in Task : WellFormed(t) /\ Goto(p, t)
    BY <1>3, <2>2, <2>3 DEF Post
  <2> QED BY <1>0, <2>4, <2>5, <2>6, TypedStep
<1>4. ASSUME Failed(p)
      PROVE  TypeInv'
  <2>1. [t0.copy EXCEPT !.status = RecordFlow.fail.to] \in Row
    BY <1>0, FlowTypes DEF Task, Row
  <2> QED BY <1>0, <1>4, <2>1, RowStep, LockStep, RowTypes, TypedLocal DEF Failed, Unlock
<1>5. CASE DraftSave(p)
  <2> DEFINE t == [Idle EXCEPT !.pc = "commit", !.rec = t0.rec]
  <2>1. t0.pc = "draftSave" /\ t0.rec \in Records
    BY <1>0, <1>5 DEF DraftSave, WellFormed
  <2>2. t \in Task /\ WellFormed(t)
    BY <2>1, RowTypes DEF Idle, Task, PCs, WellFormed
  <2>3. [t0.copy EXCEPT !.fsp = t0.draft] \in Row
    BY <1>0 DEF Task, Row
  <2>4. (Goto(p, t) \/ Goto(p, Idle)) /\ UNCHANGED External
    BY <1>5 DEF DraftSave
  <2>5. row' \in [Records -> Row] /\ lock' \in [Records -> Procs \cup {NoProc}]
    BY <1>5, <2>3, RowStep, LockStep DEF DraftSave
  <2> QED BY <1>0, <2>2, <2>4, <2>5, RowTypes, TypedLocal
<1>6. CASE CommitLock(p)
  <2> DEFINE x == row[t0.rec]
             t == [t0 EXCEPT !.pc = "put", !.copy = x, !.left = 2]
  <2>1. t0.pc = "commit" /\ t0.rec \in Records /\ x \in Row
    BY <1>0, <1>6 DEF CommitLock, WellFormed
  <2> HIDE DEF x
  <2>2. t \in Task /\ WellFormed(t)
    <3>1. {"post", "put"} \subseteq PCs /\ 2 \in 0 .. 2
      BY DEF PCs
    <3>2. t \in Task
      BY <1>0, <2>1, <3>1, TaskWithRow
    <3>3. t.pc \in {"post", "put"} /\ t.rec = t0.rec
      BY <1>0 DEF Task
    <3> QED BY <2>1, <3>2, <3>3 DEF WellFormed
  <2> USE DEF x
  <2>3. lock' \in [Records -> Procs \cup {NoProc}]
    BY <1>0, <1>6, LockStep DEF CommitLock, Lock
  <2>4. row' = row /\ UNCHANGED External /\ (Goto(p, t) \/ Goto(p, Idle))
    BY <1>6 DEF CommitLock
  <2> QED BY <1>0, <2>2, <2>3, <2>4, RowTypes, TypedLocal
<1>7. CASE Put(p)
  <2> DEFINE d == t0.copy.fsp
             t == [t0 EXCEPT !.pc = "commitSave", !.draft = d]
  <2>1. t0.pc = "put" /\ t0.left > 0 /\ t0.rec \in Records /\ d \in Drafts \cup {NoDraft}
    BY <1>0, <1>7 DEF Put, WellFormed, Task, Row
  <2>2. OneTryLess(p) \in Task /\ WellFormed(OneTryLess(p))
    BY <1>0, <2>1 DEF OneTryLess, Task, WellFormed
  <2>3. t \in Task /\ WellFormed(t)
    BY <1>0, <2>1 DEF Task, PCs, WellFormed
  <2>4. row' = row /\ lock' = lock /\ owner' = owner /\ events' = events
        /\ (Goto(p, t) \/ Goto(p, OneTryLess(p)))
    BY <1>7 DEF Put
  <2>5. money' \in [Drafts -> MoneyStates]
    BY <1>0, <1>7 DEF Put, MoneyStates
  <2> QED BY <1>0, <2>2, <2>3, <2>4, <2>5, TypedStep
<1>8. CASE CommitSave(p)
  <2>1. [t0.copy EXCEPT !.auth = t0.draft, !.status = RecordFlow.store.to] \in Row
    BY <1>0, FlowTypes DEF Task, Row
  <2>2. row' \in [Records -> Row]
    BY <1>0, <1>8, <2>1, RowStep DEF CommitSave
  <2> QED BY <1>0, <1>8, <2>2, LockStep, RowTypes, TypedLocal DEF CommitSave, Unlock
<1>9. CASE LetGo(p)
  BY <1>0, <1>9, LockStep, RowTypes, TypedLocal DEF LetGo, Unlock
<1>10. CASE Crash(p)
  BY <1>0, <1>10, RowTypes, TypedLocal DEF Crash
<1> QED BY <1>1, <1>2, <1>3, <1>4, <1>5, <1>6, <1>7, <1>8, <1>9, <1>10
        DEF SendStep, PayloadFail, DraftFail

\* A save is typed.
LEMMA SaveStep ==
  ASSUME TypeInv, NEW k, NEW x \in Row, Save(k, x)
  PROVE  row' \in [Records -> Row]
BY RowStep DEF Save

LEMMA UpdatedType ==
  ASSUME NEW x \in Row, NEW type \in EventTypes, Noted(x, type)
  PROVE  Updated(x, type) \in Row
<1>1. type # "OTHER"
  BY DEF Noted, MgEnabled, Row
<1> QED BY <1>1, FlowTypes DEF Updated, Row

LEMMA TypedHooks ==
  ASSUME TypeInv, NEW p \in Hooks,
         \/ \E e \in events, r \in Records : HookRead(p, e, r)
         \/ HookApply(p)
  PROVE  TypeInv'
<1> DEFINE t0 == task[p]
<1>0. /\ p \in Procs /\ t0 \in Task /\ WellFormed(t0)
      /\ row \in [Records -> Row] /\ lock \in [Records -> Procs \cup {NoProc}]
      /\ events \subseteq Event
  BY DEF Procs, TypeInv, TypeOK
<1>1. ASSUME NEW e \in events, NEW r \in Records, HookRead(p, e, r)
      PROVE  TypeInv'
  <2> DEFINE t == [Idle EXCEPT !.pc = "apply", !.rec = r, !.copy = row[r], !.arg = e.type]
  <2>1. e.type \in EventTypes /\ row[r] \in Row
    BY <1>0 DEF Event
  <2>2. t \in Task /\ WellFormed(t)
    BY <2>1, RowTypes DEF Idle, Task, PCs, WellFormed
  <2> QED BY <1>0, <1>1, <2>2, TypedLocal DEF HookRead
<1>2. CASE HookApply(p)
  <2> DEFINE x == t0.copy
             y == Updated(x, t0.arg)
  <2>1. t0.pc = "apply" /\ t0.rec \in Records /\ x \in Row /\ t0.arg \in EventTypes
    BY <1>0, <1>2 DEF HookApply, WellFormed, Task
  <2>2. CASE Noted(x, t0.arg)
    <3>1. y \in Row
      BY <2>1, <2>2, UpdatedType
    <3>2. Save(t0.rec, y) /\ UNCHANGED lock /\ UNCHANGED External
          /\ Goto(p, [t0 EXCEPT !.pc = "again", !.copy = y])
      BY <1>2, <2>2 DEF HookApply
    <3> HIDE DEF y
    <3>3. /\ [t0 EXCEPT !.pc = "again", !.copy = y] \in Task
          /\ WellFormed([t0 EXCEPT !.pc = "again", !.copy = y])
      BY <1>0, <2>1, <3>1 DEF Task, PCs, WellFormed
    <3> QED BY <1>0, <3>1, <3>2, <3>3, SaveStep, TypedLocal
  <2>3. CASE ~Noted(x, t0.arg)
    <3>1. /\ [t0 EXCEPT !.pc = "again"] \in Task
          /\ WellFormed([t0 EXCEPT !.pc = "again"])
      BY <1>0, <2>1 DEF Task, PCs, WellFormed
    <3> QED BY <1>0, <1>2, <2>3, <3>1, TypedLocal DEF HookApply
  <2> QED BY <2>2, <2>3
<1> QED BY <1>1, <1>2

LEMMA TypedOperators ==
  ASSUME TypeInv, NEW p \in Hooks \cup Operators,
         \/ \E r \in Records :
              StatusRead(p, r) \/ RefundRead(p, r) \/ EditRead(p, r) \/ CancelRead(p, r)
         \/ OperatorStep(p)
         \/ Crash(p)
  PROVE  TypeInv'
<1> DEFINE t0 == task[p]
<1>0. /\ p \in Procs /\ t0 \in Task /\ WellFormed(t0)
      /\ row \in [Records -> Row] /\ lock \in [Records -> Procs \cup {NoProc}]
      /\ owner \in [Drafts -> Records \cup {NoRecord}] /\ money \in [Drafts -> MoneyStates]
      /\ events \subseteq Event
  BY DEF Procs, TypeInv, TypeOK
<1>1. ASSUME NEW r \in Records, StatusRead(p, r)
      PROVE  TypeInv'
  <2>1. row[r] \in Row /\ row[r].fsp \in Drafts
    BY <1>0, <1>1 DEF StatusRead, Row
  <2>2. /\ [Idle EXCEPT !.pc = "ask", !.rec = r, !.copy = row[r]] \in Task
        /\ WellFormed([Idle EXCEPT !.pc = "ask", !.rec = r, !.copy = row[r]])
    BY <2>1, RowTypes DEF Idle, Task, PCs, WellFormed
  <2> QED BY <1>0, <1>1, <2>2, TypedLocal DEF StatusRead
<1>2. ASSUME NEW r \in Records, RefundRead(p, r)
      PROVE  TypeInv'
  <2>1. row[r].fsp \in Drafts
    BY <1>0, <1>2 DEF RefundRead, Row
  <2>2. /\ [Idle EXCEPT !.pc = "get", !.rec = r, !.draft = row[r].fsp] \in Task
        /\ WellFormed([Idle EXCEPT !.pc = "get", !.rec = r, !.draft = row[r].fsp])
    BY <2>1, RowTypes DEF Idle, Task, PCs, WellFormed
  <2> QED BY <1>0, <1>2, <2>2, TypedLocal DEF RefundRead
<1>3. ASSUME NEW r \in Records, EditRead(p, r) \/ CancelRead(p, r)
      PROVE  TypeInv'
  <2>1. \A x \in Row : /\ [Idle EXCEPT !.pc = "again", !.rec = r, !.copy = x] \in Task
                        /\ WellFormed([Idle EXCEPT !.pc = "again", !.rec = r, !.copy = x])
    BY RowTypes DEF Idle, Task, PCs, WellFormed
  <2>2. row[r] \in Row /\ [row[r] EXCEPT !.status = RecordFlow.cancel.to] \in Row
    BY <1>0, FlowTypes DEF Row
  <2> QED BY <1>0, <1>3, <2>1, <2>2, TypedLocal DEF EditRead, CancelRead
<1>4. CASE StatusAsk(p)
  <2> DEFINE a == StatusOf[money[t0.copy.fsp]]
  <2>1. t0.pc = "ask" /\ t0.rec \in Records /\ money[t0.copy.fsp] \in MoneyStates
    BY <1>0, <1>4 DEF StatusAsk, WellFormed
  <2>2. a \in EventTypes
    BY <2>1 DEF StatusOf, EventTypes
  <2>3. Goto(p, [t0 EXCEPT !.pc = "update", !.arg = a]) /\ UNCHANGED <<row, lock, External>>
    BY <1>4 DEF StatusAsk
  <2> HIDE DEF a
  <2>4. /\ [t0 EXCEPT !.pc = "update", !.arg = a] \in Task
        /\ WellFormed([t0 EXCEPT !.pc = "update", !.arg = a])
    BY <1>0, <2>1, <2>2 DEF Task, PCs, WellFormed
  <2> QED BY <1>0, <2>3, <2>4, TypedLocal
<1>5. CASE StatusUpdate(p)
  <2>1. t0.copy \in Row /\ t0.arg \in EventTypes
    BY <1>0 DEF Task
  <2>2. row' \in [Records -> Row]
    BY <1>0, <1>5, <2>1, UpdatedType, SaveStep DEF StatusUpdate
  <2> QED BY <1>0, <1>5, <2>2, RowTypes, TypedLocal DEF StatusUpdate
<1>6. CASE RefundGet(p)
  <2>1. t0.pc = "get" /\ t0.rec \in Records /\ t0.draft \in Drafts /\ row[t0.rec] \in Row
    BY <1>0, <1>6 DEF RefundGet, WellFormed
  <2>2. \A x \in Row : /\ [t0 EXCEPT !.pc = "note", !.copy = x] \in Task
                        /\ WellFormed([t0 EXCEPT !.pc = "note", !.copy = x])
    BY <1>0, <2>1 DEF Task, PCs, WellFormed
  <2> QED BY <1>0, <1>6, <2>1, <2>2, TypedLocal DEF RefundGet
<1>7. CASE RefundNote(p)
  <2>1. t0.pc = "note" /\ t0.rec \in Records /\ t0.draft \in Drafts /\ t0.copy \in Row
    BY <1>0, <1>7 DEF RefundNote, WellFormed, Task
  <2>2. [t0 EXCEPT !.pc = "refund"] \in Task /\ WellFormed([t0 EXCEPT !.pc = "refund"])
    BY <1>0, <2>1 DEF Task, PCs, WellFormed
  <2> QED BY <1>0, <1>7, <2>1, <2>2, SaveStep, TypedLocal DEF RefundNote
<1>8. CASE RefundPut(p)
  <2>1. t0.pc = "refund" /\ t0.rec \in Records /\ t0.draft \in Drafts
    BY <1>0, <1>8 DEF RefundPut, WellFormed
  <2>2. [t0 EXCEPT !.pc = "refunded"] \in Task /\ WellFormed([t0 EXCEPT !.pc = "refunded"])
    BY <1>0, <2>1 DEF Task, PCs, WellFormed
  <2>3. money' \in [Drafts -> MoneyStates] /\ events' \subseteq Event
    BY <1>0, <1>8, <2>1 DEF RefundPut, MoneyStates, Event, EventTypes
  <2> QED BY <1>0, <1>8, <2>2, <2>3, RowTypes, TypedStep DEF RefundPut
<1>9. CASE RefundSave(p)
  <2> DEFINE x == t0.copy
             y == Updated(x, "REFUNDED")
  <2>1. t0.pc = "refunded" /\ t0.rec \in Records /\ t0.draft \in Drafts /\ x \in Row
        /\ "REFUNDED" \in EventTypes
    BY <1>0, <1>9 DEF RefundSave, WellFormed, Task, EventTypes
  <2>2. CASE Noted(x, "REFUNDED")
    <3>1. y \in Row
      BY <2>1, <2>2, UpdatedType
    <3>2. Save(t0.rec, y) /\ UNCHANGED lock /\ UNCHANGED External
          /\ Goto(p, [t0 EXCEPT !.pc = "again", !.copy = y])
      BY <1>9, <2>2 DEF RefundSave
    <3> HIDE DEF y
    <3>3. /\ [t0 EXCEPT !.pc = "again", !.copy = y] \in Task
          /\ WellFormed([t0 EXCEPT !.pc = "again", !.copy = y])
      BY <1>0, <2>1, <3>1 DEF Task, PCs, WellFormed
    <3> QED BY <1>0, <3>1, <3>2, <3>3, SaveStep, TypedLocal
  <2>3. CASE ~Noted(x, "REFUNDED")
    <3>1. /\ [t0 EXCEPT !.pc = "again"] \in Task
          /\ WellFormed([t0 EXCEPT !.pc = "again"])
      BY <1>0, <2>1 DEF Task, PCs, WellFormed
    <3> QED BY <1>0, <1>9, <2>3, <3>1, TypedLocal DEF RefundSave
  <2> QED BY <2>2, <2>3
<1>10. CASE SaveAgain(p)
  <2>1. t0.copy \in Row
    BY <1>0 DEF Task
  <2> QED BY <1>0, <1>10, <2>1, SaveStep, RowTypes, TypedLocal DEF SaveAgain
<1>11. CASE Crash(p)
  BY <1>0, <1>11, RowTypes, TypedLocal DEF Crash
<1> QED BY <1>1, <1>2, <1>3, <1>4, <1>5, <1>6, <1>7, <1>8, <1>9, <1>10, <1>11 DEF OperatorStep

LEMMA TypedNext == TypeInv /\ [Next]_vars => TypeInv'
<1> SUFFICES ASSUME TypeInv, [Next]_vars
             PROVE  TypeInv'
  OBVIOUS
<1>1. ASSUME NEW d \in Drafts, MgStep(d)
      PROVE  TypeInv'
  <2>1. PICK m \in MgMoves :
          /\ money' = [money EXCEPT ![d] = m[2]]
          /\ events' = events \cup {[type |-> m[3], draft |-> d]}
    BY <1>1 DEF MgStep
  <2>2. m[2] \in MoneyStates /\ m[3] \in EventTypes
    BY DEF MgMoves, MoneyStates, EventTypes
  <2>3. money' \in [Drafts -> MoneyStates] /\ events' \subseteq Event
    BY <2>1, <2>2 DEF TypeInv, TypeOK, Event
  <2> QED BY <1>1, <2>3 DEF MgStep, TypeInv, TypeOK, WellFormed
<1>2. CASE UNCHANGED vars
  BY <1>2 DEF vars, TypeInv, TypeOK, WellFormed
<1>3. ASSUME NEW p \in Hooks, SaveAgain(p) \/ Crash(p)
      PROVE  TypeInv'
  BY <1>3, TypedOperators DEF OperatorStep
<1> QED BY <1>1, <1>2, <1>3, TypedSenders, TypedHooks, TypedOperators DEF Next

LEMMA TypedInit == Init => TypeInv
BY RowTypes DEF Init, TypeInv, TypeOK, MoneyStates

\* The rows, the copies in hand and MoneyGram's books are well typed, whatever is
\* edited, lost, repeated or killed.
THEOREM MoneyTypeCorrect == Spec => []TypeOK
<1>1. TypeInv => TypeOK
  BY DEF TypeInv
<1> QED BY <1>1, TypedInit, TypedNext, PTL DEF Spec

-----------------------------------------------------------------------------
(* The draft whose money moves stays on its row.                           *)

\* What MoneyGram has done is done.
Growth ==
  \A d \in Drafts :
    /\ owner[d] \in Records => owner'[d] = owner[d]
    /\ Committed(d) => Committed(d)'
    /\ PaidOnce(d) => PaidOnce(d)'

LEMMA BackedStable ==
  ASSUME Growth, NEW r \in Records, NEW x \in Row, Backed(r, x)
  PROVE  Backed(r, x)'
<1>1. x.fsp # NoDraft => x.fsp \in Drafts /\ owner[x.fsp] = r
  BY DEF Backed, Row
<1>2. x.fsp # NoDraft => owner'[x.fsp] = r
  BY <1>1 DEF Growth
<1>3. x.status = "TRANSFERRED_TO_BENEFICIARY" => x.status \in Transferred
  BY DEF Transferred
<1>4. x.auth # NoDraft => x.auth = x.fsp /\ x.fsp # NoDraft /\ Committed(x.fsp)'
  BY <1>1 DEF Backed, Growth, Row
<1>5. x.status \in Transferred => x.fsp # NoDraft /\ Committed(x.fsp)'
  BY <1>1 DEF Backed, Growth
<1>6. x.status = "TRANSFERRED_TO_BENEFICIARY" => PaidOnce(x.fsp)'
  BY <1>1, <1>3 DEF Backed, Growth
<1> QED BY <1>2, <1>4, <1>5, <1>6 DEF Backed

\* Rows change in a way that nobody with a copy in hand has to notice.
RowsAgree == \A r \in Records, y \in Row : Agree(y, row[r]) => Agree(y, row'[r])

\* What a process knows stays true while others move, who leave its row alone if it
\* has the lock.
LEMMA TaskStable ==
  ASSUME Growth, RowsAgree, NEW q \in Procs, NEW t \in Task, TaskOK(q, t), t.pc = "idle" => t = Idle,
         \A r \in Records : lock[r] = q => lock'[r] = q /\ row'[r] = row[r]
  PROVE  TaskOK(q, t)'
<1>1. CASE t.pc = "idle"
  BY <1>1, RowTypes DEF TaskOK, Locked, InHand, Idle
<1>2. CASE t.pc # "idle"
  <2>1. t.rec \in Records /\ t.copy \in Row /\ t.rec # NoRecord
    BY <1>2 DEF TaskOK, Task, Idle
  <2>2. ASSUME t.pc \in Locked
        PROVE  LockedOK(q, t)'
    <3>1. LockedOK(q, t)
      BY <2>2 DEF TaskOK
    <3>2. lock'[t.rec] = q /\ t.copy = row'[t.rec]
      BY <2>1, <3>1 DEF LockedOK
    <3>3. t.pc = "draftSave" => owner'[t.draft] = t.rec
      BY <2>1, <3>1 DEF LockedOK, Growth
    <3>4. t.pc = "commitSave" => Committed(t.draft)'
      BY <3>1 DEF LockedOK, Growth
    <3> QED BY <3>1, <3>2, <3>3, <3>4 DEF LockedOK
  <2>3. ASSUME t.pc \in InHand
        PROVE  InHandOK(t)'
    <3>1. InHandOK(t)
      BY <2>3 DEF TaskOK
    <3>2. Backed(t.rec, t.copy)'
      BY <2>1, <3>1, BackedStable DEF InHandOK
    <3>3. Agree(t.copy, row'[t.rec])
      BY <2>1, <3>1 DEF InHandOK, RowsAgree
    <3>4. t.pc \in {"apply", "update"} => Known(t.copy.fsp, t.arg)'
      BY <3>1 DEF InHandOK, Known, Growth
    <3>5. t.pc = "ask" => t.copy.fsp \in Drafts
      BY <3>1 DEF InHandOK
    <3>6. Agree(t.copy, row[t.rec])'
      BY <3>3 DEF Agree
    <3> QED BY <3>2, <3>4, <3>5, <3>6 DEF InHandOK
  <2> QED BY <2>1, <2>2, <2>3 DEF TaskOK
<1> QED BY <1>1, <1>2

\* The invariant after a step of process p, from the facts about p, the rows and the books.
LEMMA Frame ==
  ASSUME TypeInv, MoneyInv, TypeInv', Growth, RowsAgree, NEW p \in Procs, NEW t \in Task, Goto(p, t),
         TaskOK(p, t)',
         \A r \in Records : row'[r] = row[r] \/ Backed(r, row[r])',
         \A r \in Records, q \in Procs \ {p} : lock[r] = q => lock'[r] = q /\ row'[r] = row[r],
         CommittedOnRow', BooksOK'
  PROVE  MoneyInv'
<1>1. task'[p] = t /\ \A q \in Procs \ {p} : task'[q] = task[q]
  BY DEF TypeInv, TypeOK, Goto
<1>2. ASSUME NEW q \in Procs
      PROVE  TaskOK(q, task[q])'
  <2>1. CASE q = p
    BY <1>1, <2>1 DEF TaskOK, LockedOK, InHandOK
  <2>2. CASE q # p
    <3>1. PICK u \in Task : u = task[q] /\ u = task'[q]
      BY <1>1, <2>2 DEF TypeInv, TypeOK
    <3>2. TaskOK(q, u) /\ (u.pc = "idle" => u = Idle)
      BY <3>1 DEF MoneyInv, TypeInv, WellFormed
    <3>3. TaskOK(q, u)'
      BY <2>2, <3>2, TaskStable
    <3> QED BY <3>1, <3>3 DEF TaskOK, LockedOK, InHandOK
  <2> QED BY <2>1, <2>2
<1>3. ASSUME NEW r \in Records
      PROVE  Backed(r, row[r])'
  <2>1. CASE row'[r] = row[r]
    <3>1. PICK x \in Row : x = row[r] /\ x = row'[r]
      BY <2>1 DEF TypeInv, TypeOK
    <3>2. Backed(r, x)'
      BY <3>1, BackedStable DEF MoneyInv
    <3> QED BY <3>1, <3>2 DEF Backed
  <2> QED BY <2>1
<1> QED BY <1>2, <1>3 DEF MoneyInv, TypeInv

\* A step that leaves MoneyGram and the rows alone.
LEMMA ReadStep ==
  ASSUME TypeInv, MoneyInv, TypeInv', NEW p \in Procs, NEW t \in Task, Goto(p, t), TaskOK(p, t)',
         UNCHANGED <<row, External>>,
         \A r \in Records : lock'[r] = lock[r] \/ lock[r] \in {NoProc, p}
  PROVE  MoneyInv'
<1>1. Growth /\ BooksOK' /\ CommittedOnRow' /\ RowsAgree
  BY DEF MoneyInv, External, Growth, BooksOK, CommittedOnRow, Committed, PaidOnce, RowsAgree
<1>2. \A r \in Records, q \in Procs \ {p} : lock[r] = q => lock'[r] = q /\ row'[r] = row[r]
  BY DEF Procs
<1> QED BY <1>1, <1>2, Frame

\* A step that saves a row, alone or as the one that has the lock.
LEMMA WriteStep ==
  ASSUME TypeInv, MoneyInv, TypeInv', NEW p \in Procs, NEW t \in Task, Goto(p, t), TaskOK(p, t)',
         NEW r \in Records, NEW x \in Row, row' = [row EXCEPT ![r] = x], UNCHANGED External,
         lock[r] \in {NoProc, p}, \A s \in Records \ {r} : lock'[s] = lock[s],
         Backed(r, x), row[r].fsp # NoDraft => x.fsp = row[r].fsp,
         \A y \in Row : Agree(y, row[r]) => Agree(y, x)
  PROVE  MoneyInv'
<1>1. row'[r] = x /\ \A s \in Records \ {r} : row'[s] = row[s]
  BY DEF TypeInv, TypeOK
<1>2. Growth /\ BooksOK'
  BY DEF MoneyInv, External, Growth, BooksOK, Committed, PaidOnce
<1>3. RowsAgree
  BY <1>1 DEF RowsAgree
<1>4. CommittedOnRow'
  BY <1>1 DEF MoneyInv, CommittedOnRow, Committed, External
<1>5. Backed(r, x)'
  BY <1>2, BackedStable
<1>6. \A s \in Records : row'[s] = row[s] \/ Backed(s, row[s])'
  BY <1>1, <1>5 DEF Backed
<1>7. \A s \in Records, q \in Procs \ {p} : lock[s] = q => lock'[s] = q /\ row'[s] = row[s]
  BY <1>1 DEF Procs
<1> QED BY <1>2, <1>3, <1>4, <1>6, <1>7, Frame

\* A task with no copy in hand is in order.
LEMMA PlainOK ==
  ASSUME NEW p \in Procs, NEW t \in Task, t.rec \in Records \/ t = Idle,
         t.pc \notin Locked \cup InHand \cup {"get"}
  PROVE  TaskOK(p, t)'
BY DEF TaskOK, Locked, InHand

\* What a process whose transaction has the lock knows.
LEMMA LockedFacts ==
  ASSUME TypeInv, MoneyInv, NEW p \in Procs, task[p].pc \in Locked
  PROVE  /\ task[p].rec \in Records /\ task[p].copy \in Row /\ LockedOK(p, task[p])
         /\ Backed(task[p].rec, task[p].copy)
<1>1. task[p].rec \in Records
  BY DEF TypeInv, WellFormed, Locked
<1>2. task[p].copy \in Row
  BY DEF TypeInv, TypeOK, Task
<1> QED BY <1>1, <1>2 DEF MoneyInv, TaskOK, LockedOK

LEMMA MoneyFailed ==
  ASSUME TypeInv, MoneyInv, TypeInv', NEW p \in Procs, task[p].pc = "post", Failed(p)
  PROVE  MoneyInv'
<1>1. task[p].pc \in Locked
  BY DEF Locked
<1>2. PICK r \in Records : r = task[p].rec
  BY <1>1, LockedFacts
<1>3. PICK x \in Row : x = row[r] /\ x = task[p].copy
  BY <1>1, <1>2, LockedFacts DEF LockedOK
<1>4. x.fsp = NoDraft /\ x.auth = NoDraft /\ x.status = "PENDING" /\ lock[r] = p
  BY <1>1, <1>2, <1>3, LockedFacts DEF LockedOK
<1>5. PICK y \in Row : y = [x EXCEPT !.status = "ERROR"]
  BY DEF Row
<1>6. y.fsp = NoDraft /\ y.auth = NoDraft /\ y.status = "ERROR"
  BY <1>4, <1>5 DEF Row
<1>7. row' = [row EXCEPT ![r] = y] /\ lock' = [lock EXCEPT ![r] = NoProc]
      /\ Goto(p, Idle) /\ UNCHANGED External
  BY <1>2, <1>3, <1>5 DEF Failed, Unlock, RecordFlow
<1>8. Backed(r, y)
  BY <1>6 DEF Backed, Transferred
<1>9. \A z \in Row : ~Agree(z, row[r])
  BY <1>3, <1>4 DEF Agree
<1>10. \A s \in Records \ {r} : lock'[s] = lock[s]
  BY <1>7 DEF TypeInv, TypeOK
<1>11. TaskOK(p, Idle)'
  BY RowTypes, PlainOK DEF Locked, InHand
<1> QED BY <1>3, <1>4, <1>7, <1>8, <1>9, <1>10, <1>11, RowTypes, WriteStep

LEMMA MoneyDraftSave ==
  ASSUME TypeInv, MoneyInv, TypeInv', NEW p \in Procs, DraftSave(p)
  PROVE  MoneyInv'
<1>1. task[p].pc \in Locked /\ task[p].pc = "draftSave"
  BY DEF Locked, DraftSave
<1>2. PICK r \in Records : r = task[p].rec
  BY <1>1, LockedFacts
<1>3. PICK x \in Row : x = row[r] /\ x = task[p].copy
  BY <1>1, <1>2, LockedFacts DEF LockedOK
<1>4. x.fsp = NoDraft /\ x.auth = NoDraft /\ x.status = "PENDING" /\ lock[r] = p
  BY <1>1, <1>2, <1>3, LockedFacts DEF LockedOK
<1>5. PICK d \in Drafts : d = task[p].draft /\ owner[d] = r
  BY <1>1, <1>2, LockedFacts DEF LockedOK
<1>6. PICK y \in Row : y = [x EXCEPT !.fsp = d]
  BY DEF Row
<1>7. y.fsp = d /\ y.auth = NoDraft /\ y.status = "PENDING"
  BY <1>4, <1>6 DEF Row
<1>8. row' = [row EXCEPT ![r] = y] /\ lock' = [lock EXCEPT ![r] = NoProc] /\ UNCHANGED External
  BY <1>2, <1>3, <1>5, <1>6 DEF DraftSave
<1>9. PICK t \in Task : /\ Goto(p, t)
                        /\ t.rec \in Records \/ t = Idle
                        /\ t.pc \in {"commit", "idle"}
  <2>1. /\ [Idle EXCEPT !.pc = "commit", !.rec = r] \in Task
        /\ [Idle EXCEPT !.pc = "commit", !.rec = r].rec = r
        /\ [Idle EXCEPT !.pc = "commit", !.rec = r].pc = "commit"
    BY RowTypes DEF Idle, Task, PCs
  <2>2. Goto(p, [Idle EXCEPT !.pc = "commit", !.rec = r]) \/ Goto(p, Idle)
    BY <1>2 DEF DraftSave
  <2> QED BY <2>1, <2>2, RowTypes
<1>10. Backed(r, y)
  BY <1>5, <1>7 DEF Backed, Transferred
<1>11. \A z \in Row : ~Agree(z, row[r])
  BY <1>3, <1>4 DEF Agree
<1>12. \A s \in Records \ {r} : lock'[s] = lock[s]
  BY <1>8 DEF TypeInv, TypeOK
<1>13. TaskOK(p, t)'
  BY <1>9, PlainOK DEF Locked, InHand
<1>14. Goto(p, t) /\ lock[r] \in {NoProc, p} /\ (row[r].fsp # NoDraft => y.fsp = row[r].fsp)
  BY <1>3, <1>4, <1>9
<1>15. \A z \in Row : Agree(z, row[r]) => Agree(z, y)
  BY <1>11
<1> QED BY <1>8, <1>10, <1>12, <1>13, <1>14, <1>15, WriteStep

LEMMA MoneyCommitSave ==
  ASSUME TypeInv, MoneyInv, TypeInv', NEW p \in Procs, CommitSave(p)
  PROVE  MoneyInv'
<1>1. task[p].pc \in Locked /\ task[p].pc = "commitSave"
  BY DEF Locked, CommitSave
<1>2. PICK r \in Records : r = task[p].rec
  BY <1>1, LockedFacts
<1>3. PICK x \in Row : x = row[r] /\ x = task[p].copy
  BY <1>1, <1>2, LockedFacts DEF LockedOK
<1>4. x.fsp \in Drafts /\ task[p].draft = x.fsp /\ Committed(x.fsp) /\ lock[r] = p /\ Backed(r, x)
  BY <1>1, <1>2, <1>3, LockedFacts DEF LockedOK
<1>5. lock' = [lock EXCEPT ![r] = NoProc] /\ Goto(p, Idle) /\ UNCHANGED External
  BY <1>2 DEF CommitSave, Unlock
<1>6. \A s \in Records \ {r} : lock'[s] = lock[s]
  BY <1>5 DEF TypeInv, TypeOK
<1>7. TaskOK(p, Idle)'
  BY RowTypes, PlainOK DEF Locked, InHand
<1>8. CASE x.status \in RecordFlow.store.from
  <2>1. PICK y \in Row : y = [x EXCEPT !.auth = x.fsp, !.status = "TRANSFERRED_TO_FSP"]
    BY <1>4 DEF Row
  <2>2. y.fsp = x.fsp /\ y.auth = x.fsp /\ y.status = "TRANSFERRED_TO_FSP"
    BY <2>1 DEF Row
  <2>3. row' = [row EXCEPT ![r] = y]
    BY <1>2, <1>3, <1>4, <1>8, <2>1 DEF CommitSave, RecordFlow
  <2>4. Backed(r, y)
    BY <1>4, <2>2 DEF Backed, Transferred
  <2>5. row[r].fsp = y.fsp /\ y.fsp # NoDraft
    BY <1>3, <1>4, <2>2
  <2>6. \A z \in Row : Agree(z, row[r]) => Agree(z, y)
    BY <2>5 DEF Agree
  <2> QED BY <1>4, <1>5, <1>6, <1>7, <2>3, <2>4, <2>5, <2>6, RowTypes, WriteStep
<1>9. CASE x.status \notin RecordFlow.store.from
  <2>1. row' = row
    BY <1>3, <1>9 DEF CommitSave
  <2> QED BY <1>4, <1>5, <1>6, <1>7, <2>1, RowTypes, ReadStep
<1> QED BY <1>8, <1>9

\* A process takes the row up under its lock.
LEMMA MoneyLocked ==
  ASSUME TypeInv, MoneyInv, TypeInv', NEW p \in Procs, NEW pc \in {"post", "put"},
         task[p].rec \in Records, Lock(p, task[p].rec), UNCHANGED <<row, External>>,
         Goto(p, [task[p] EXCEPT !.pc = pc, !.copy = row[task[p].rec], !.left = 2]),
         row[task[p].rec].auth = NoDraft,
         pc = "post" => row[task[p].rec].fsp = NoDraft /\ row[task[p].rec].status = "PENDING",
         pc = "put" => row[task[p].rec].fsp # NoDraft
  PROVE  MoneyInv'
<1>1. PICK r \in Records : r = task[p].rec
  OBVIOUS
<1>2. PICK x \in Row : x = row[r]
  BY DEF TypeInv, TypeOK
<1>3. PICK u \in Task : u = task[p]
  BY DEF TypeInv, TypeOK
<1>4. PICK t \in Task : t = [u EXCEPT !.pc = pc, !.copy = x, !.left = 2]
  <2>1. pc \in PCs /\ 2 \in 0 .. 2
    BY DEF PCs
  <2> QED BY <2>1, TaskWithRow
<1>5. t.pc = pc /\ t.rec = r /\ t.copy = x
  BY <1>1, <1>3, <1>4 DEF Task
<1>6. Goto(p, t)
  BY <1>1, <1>2, <1>3, <1>4
<1>7. lock[r] = NoProc /\ lock' = [lock EXCEPT ![r] = p]
  BY <1>1 DEF Lock
<1>8. lock'[r] = p /\ \A s \in Records : lock'[s] = lock[s] \/ lock[s] \in {NoProc, p}
  BY <1>7 DEF TypeInv, TypeOK
<1>9. x.fsp # NoDraft => x.fsp \in Drafts
  BY DEF Row
<1>10. x.auth = NoDraft /\ (pc = "post" => x.fsp = NoDraft /\ x.status = "PENDING")
       /\ (pc = "put" => x.fsp \in Drafts)
  BY <1>1, <1>2, <1>9
<1>11. row'[r] = x
  BY <1>2
<1>12. LockedOK(p, t)'
  BY <1>5, <1>8, <1>10, <1>11 DEF LockedOK
<1>13. TaskOK(p, t)'
  BY <1>5, <1>12 DEF TaskOK, InHand
<1> QED BY <1>6, <1>8, <1>13, ReadStep

\* A step to a task with nothing in hand that leaves rows and MoneyGram alone.
LEMMA MoneyPlain ==
  ASSUME TypeInv, MoneyInv, TypeInv', NEW p \in Procs, NEW t \in Task, Goto(p, t),
         t.rec \in Records \/ t = Idle, t.pc \notin Locked \cup InHand \cup {"get"},
         UNCHANGED <<row, External>>,
         \A r \in Records : lock'[r] = lock[r] \/ lock[r] \in {NoProc, p}
  PROVE  MoneyInv'
<1>1. TaskOK(p, t)'
  BY PlainOK
<1> QED BY <1>1, ReadStep

LEMMA MoneyIdle ==
  ASSUME TypeInv, MoneyInv, TypeInv', NEW p \in Procs, Goto(p, Idle), UNCHANGED <<row, External>>,
         \A r \in Records : lock'[r] = lock[r] \/ lock[r] \in {NoProc, p}
  PROVE  MoneyInv'
BY MoneyPlain, RowTypes DEF Locked, InHand

\* MoneyGram hears of a try, or does not: the tries left are one less.
LEMMA OneTryLessTask ==
  ASSUME TypeInv, MoneyInv, NEW p \in Procs, task[p].pc \in {"post", "put"}, task[p].left > 0
  PROVE  \E t \in Task : /\ t = OneTryLess(p)
                         /\ t.pc = task[p].pc /\ t.rec = task[p].rec /\ t.copy = task[p].copy
<1>1. PICK u \in Task : u = task[p]
  BY DEF TypeInv, TypeOK
<1>2. PICK n \in 0 .. 2 : n = u.left - 1
  BY <1>1 DEF Task
<1>3. [u EXCEPT !.left = n] \in Task
  BY DEF Task
<1>4. /\ [u EXCEPT !.left = n].pc = u.pc /\ [u EXCEPT !.left = n].rec = u.rec
      /\ [u EXCEPT !.left = n].copy = u.copy
  BY DEF Task
<1>5. OneTryLess(p) = [u EXCEPT !.left = n]
  BY <1>1, <1>2 DEF OneTryLess
<1> QED BY <1>1, <1>3, <1>4, <1>5

LEMMA MoneyPost ==
  ASSUME TypeInv, MoneyInv, TypeInv', NEW p \in Procs, Post(p)
  PROVE  MoneyInv'
<1>1. task[p].pc = "post" /\ task[p].left > 0 /\ task[p].pc \in Locked
  BY DEF Post, Locked
<1>2. PICK r \in Records : r = task[p].rec
  BY <1>1, LockedFacts
<1>3. PICK x \in Row : x = row[r] /\ x = task[p].copy
  BY <1>1, <1>2, LockedFacts DEF LockedOK
<1>4. x.fsp = NoDraft /\ x.auth = NoDraft /\ x.status = "PENDING" /\ lock[r] = p
  BY <1>1, <1>2, <1>3, LockedFacts DEF LockedOK
<1>5. row' = row /\ lock' = lock /\ events' = events
  BY DEF Post
<1>6. PICK t1 \in Task : /\ t1 = OneTryLess(p)
                         /\ t1.pc = "post" /\ t1.rec = r /\ t1.copy = x
  BY <1>1, <1>2, <1>3, OneTryLessTask
<1>7. TaskOK(p, t1)'
  BY <1>3, <1>4, <1>5, <1>6 DEF TaskOK, Locked, InHand, LockedOK
<1>8. CASE Goto(p, OneTryLess(p)) /\ UNCHANGED <<owner, money>>
  BY <1>5, <1>6, <1>7, <1>8, ReadStep DEF External
<1>9. ASSUME NEW d \in Drafts, owner[d] = NoRecord,
             owner' = [owner EXCEPT ![d] = r], money' = [money EXCEPT ![d] = "draft"],
             \/ Goto(p, [task[p] EXCEPT !.pc = "draftSave", !.draft = d])
             \/ Goto(p, OneTryLess(p))
      PROVE  MoneyInv'
  <2>1. /\ owner'[d] = r /\ money'[d] = "draft" /\ ~Committed(d)
        /\ \A e \in Drafts \ {d} : owner'[e] = owner[e] /\ money'[e] = money[e]
    BY <1>9 DEF TypeInv, TypeOK, MoneyInv, CommittedOnRow
  <2>2. money[d] # "received"
    BY <2>1 DEF Committed
  <2>3. ~PaidOnce(d)
    BY <2>1, <2>2 DEF PaidOnce, MoneyInv, BooksOK
  <2>4. Growth
    BY <1>5, <1>9, <2>1, <2>3 DEF Growth, Committed, PaidOnce
  <2>5. BooksOK'
    <3>1. \A e \in events : e.type \in {"SENT", "RECEIVED"} => e.draft \in Drafts \ {d}
      BY <2>1 DEF MoneyInv, BooksOK, TypeInv, TypeOK, Event
    <3>2. \A e \in events : e.type \in {"SENT", "RECEIVED"} => Committed(e.draft)'
      BY <2>1, <3>1 DEF MoneyInv, BooksOK, Committed
    <3>3. \A e \in Drafts : money'[e] = "received" => [type |-> "RECEIVED", draft |-> e] \in events
      BY <2>1 DEF MoneyInv, BooksOK
    <3>4. \A e \in Drafts : owner'[e] # NoRecord => money'[e] # "none"
      BY <2>1 DEF MoneyInv, BooksOK
    <3> QED BY <1>5, <3>2, <3>3, <3>4 DEF BooksOK
  <2>6. CommittedOnRow'
    BY <1>5, <2>1 DEF MoneyInv, CommittedOnRow, Committed
  <2>7. RowsAgree
    BY <1>5 DEF RowsAgree
  <2>8. \E t \in Task : Goto(p, t) /\ TaskOK(p, t)'
    <3>1. CASE Goto(p, [task[p] EXCEPT !.pc = "draftSave", !.draft = d])
      <4>0. PICK u \in Task : u = task[p]
        BY DEF TypeInv, TypeOK
      <4>1. PICK t : t = [u EXCEPT !.pc = "draftSave", !.draft = d]
        OBVIOUS
      <4>4. "draftSave" \in PCs
        BY DEF PCs
      <4>5. t \in Task /\ t.pc = "draftSave" /\ t.rec = r /\ t.copy = x /\ t.draft = d
        <5>1. t \in Task /\ t.draft = d
          BY <4>1, <4>4 DEF Task
        <5>2. t.rec = u.rec /\ t.copy = u.copy
          BY <4>1 DEF Task
        <5>3. t.pc = "draftSave"
          BY <4>1 DEF Task
        <5> QED BY <1>2, <1>3, <4>0, <5>1, <5>2, <5>3
      <4>2. LockedOK(p, t)'
        BY <1>3, <1>4, <1>5, <2>1, <4>5 DEF LockedOK
      <4>3. TaskOK(p, t)'
        BY <4>5, <4>2 DEF TaskOK, InHand
      <4> QED BY <3>1, <4>0, <4>1, <4>3, <4>5
    <3>2. CASE Goto(p, OneTryLess(p))
      BY <3>2, <1>6, <1>7
    <3> QED BY <1>9, <3>1, <3>2
  <2>9. \A s \in Records, q \in Procs \ {p} : lock[s] = q => lock'[s] = q /\ row'[s] = row[s]
    BY <1>5
  <2> QED BY <1>5, <2>4, <2>5, <2>6, <2>7, <2>8, <2>9, Frame
<1> QED BY <1>2, <1>8, <1>9 DEF Post

LEMMA MoneyPut ==
  ASSUME TypeInv, MoneyInv, TypeInv', NEW p \in Procs, Put(p)
  PROVE  MoneyInv'
<1>1. task[p].pc = "put" /\ task[p].left > 0 /\ task[p].pc \in Locked
  BY DEF Put, Locked
<1>2. PICK r \in Records : r = task[p].rec
  BY <1>1, LockedFacts
<1>3. PICK x \in Row : x = row[r] /\ x = task[p].copy
  BY <1>1, <1>2, LockedFacts DEF LockedOK
<1>4. PICK d \in Drafts : d = x.fsp
  BY <1>1, <1>2, <1>3, LockedFacts DEF LockedOK
<1>5. x.auth = NoDraft /\ lock[r] = p /\ owner[d] = r /\ money[d] # "none"
  <2>1. x.auth = NoDraft /\ lock[r] = p /\ owner[d] = r
    BY <1>1, <1>2, <1>3, <1>4, LockedFacts DEF LockedOK, Backed
  <2> QED BY <2>1 DEF MoneyInv, BooksOK
<1>6. row' = row /\ lock' = lock /\ events' = events /\ owner' = owner
  BY DEF Put
<1>7. PICK t1 \in Task : /\ t1 = OneTryLess(p)
                         /\ t1.pc = "put" /\ t1.rec = r /\ t1.copy = x
  BY <1>1, <1>2, <1>3, OneTryLessTask
<1>8. TaskOK(p, t1)'
  BY <1>3, <1>4, <1>5, <1>6, <1>7 DEF TaskOK, Locked, InHand, LockedOK
<1>9. CASE Goto(p, OneTryLess(p)) /\ UNCHANGED money
  BY <1>6, <1>7, <1>8, <1>9, ReadStep DEF External
<1>10. ASSUME money' = [money EXCEPT ![d] = IF @ = "draft" THEN "committed" ELSE @],
              \/ Goto(p, [task[p] EXCEPT !.pc = "commitSave", !.draft = d])
              \/ Goto(p, OneTryLess(p))
       PROVE  MoneyInv'
  <2>1. /\ Committed(d)' /\ (money'[d] = "received" <=> money[d] = "received")
        /\ money'[d] # "none"
        /\ \A e \in Drafts \ {d} : money'[e] = money[e]
    BY <1>5, <1>10 DEF TypeInv, TypeOK, Committed
  <2>2. Growth
    BY <1>6, <2>1 DEF Growth, Committed, PaidOnce
  <2>3. BooksOK'
    <3>1. \A e \in events : e.type \in {"SENT", "RECEIVED"} => Committed(e.draft) /\ e.draft \in Drafts
      BY DEF MoneyInv, BooksOK, TypeInv, TypeOK, Event
    <3>2. \A e \in events : e.type \in {"SENT", "RECEIVED"} => Committed(e.draft)'
      BY <2>2, <3>1 DEF Growth
    <3>3. \A e \in Drafts : money'[e] = "received" => [type |-> "RECEIVED", draft |-> e] \in events
      BY <2>1 DEF MoneyInv, BooksOK
    <3>4. \A e \in Drafts : owner[e] # NoRecord => money'[e] # "none"
      BY <2>1 DEF MoneyInv, BooksOK
    <3> QED BY <1>6, <3>2, <3>3, <3>4 DEF BooksOK
  <2>4. CommittedOnRow'
    <3>1. owner[d] \in Records /\ row[owner[d]].fsp = d
      BY <1>3, <1>4, <1>5
    <3>2. \A e \in Drafts \ {d} : Committed(e)' => owner[e] \in Records /\ row[owner[e]].fsp = e
      BY <2>1 DEF MoneyInv, CommittedOnRow, Committed
    <3> QED BY <1>6, <3>1, <3>2 DEF CommittedOnRow
  <2>5. RowsAgree
    BY <1>6 DEF RowsAgree
  <2>6. \E t \in Task : Goto(p, t) /\ TaskOK(p, t)'
    <3>1. CASE Goto(p, [task[p] EXCEPT !.pc = "commitSave", !.draft = d])
      <4>0. PICK u \in Task : u = task[p]
        BY DEF TypeInv, TypeOK
      <4>1. PICK t : t = [u EXCEPT !.pc = "commitSave", !.draft = d]
        OBVIOUS
      <4>4. "commitSave" \in PCs
        BY DEF PCs
      <4>5. t \in Task /\ t.pc = "commitSave" /\ t.rec = r /\ t.copy = x /\ t.draft = d
        <5>1. t \in Task /\ t.draft = d
          BY <4>1, <4>4 DEF Task
        <5>2. t.rec = u.rec /\ t.copy = u.copy
          BY <4>1 DEF Task
        <5>3. t.pc = "commitSave"
          BY <4>1 DEF Task
        <5> QED BY <1>2, <1>3, <4>0, <5>1, <5>2, <5>3
      <4>2. LockedOK(p, t)'
        BY <1>3, <1>4, <1>5, <1>6, <2>1, <4>5 DEF LockedOK
      <4>3. TaskOK(p, t)'
        BY <4>5, <4>2 DEF TaskOK, InHand
      <4> QED BY <3>1, <4>0, <4>1, <4>3, <4>5
    <3>2. CASE Goto(p, OneTryLess(p))
      BY <3>2, <1>7, <1>8
    <3> QED BY <1>10, <3>1, <3>2
  <2>7. \A s \in Records, q \in Procs \ {p} : lock[s] = q => lock'[s] = q /\ row'[s] = row[s]
    BY <1>6
  <2> QED BY <1>6, <2>2, <2>3, <2>4, <2>5, <2>6, <2>7, Frame
<1> QED BY <1>3, <1>4, <1>9, <1>10 DEF Put

LEMMA MoneySenders ==
  ASSUME TypeInv, MoneyInv, TypeInv', NEW p \in Senders,
         (\E r \in Records : Begin(p, r)) \/ SendStep(p) \/ Crash(p)
  PROVE  MoneyInv'
<1>0. /\ p \in Procs /\ lock \in [Records -> Procs \cup {NoProc}]
      /\ (task[p].pc # "idle" => task[p].rec \in Records)
  BY DEF Procs, TypeInv, TypeOK, WellFormed
<1>1. ASSUME NEW r \in Records, Begin(p, r)
      PROVE  MoneyInv'
  <2>1. \A g \in BOOLEAN : /\ [Idle EXCEPT !.pc = "draft", !.goOn = g, !.rec = r] \in Task
                            /\ [Idle EXCEPT !.pc = "draft", !.goOn = g, !.rec = r].rec = r
                            /\ [Idle EXCEPT !.pc = "draft", !.goOn = g, !.rec = r].pc = "draft"
    BY RowTypes DEF Idle, Task, PCs
  <2>2. /\ [Idle EXCEPT !.pc = "commit", !.rec = r] \in Task
        /\ [Idle EXCEPT !.pc = "commit", !.rec = r].rec = r
        /\ [Idle EXCEPT !.pc = "commit", !.rec = r].pc = "commit"
    BY RowTypes DEF Idle, Task, PCs
  <2>3. PICK t \in Task : Goto(p, t) /\ t.rec = r /\ t.pc \in {"draft", "commit"}
    BY <1>1, <2>1, <2>2 DEF Begin
  <2> QED BY <1>0, <1>1, <2>3, MoneyPlain DEF Begin, Locked, InHand
<1>2. CASE DraftLock(p) \/ CommitLock(p)
  <2>1. task[p].pc \in {"draft", "commit"} /\ task[p].rec \in Records /\ row' = row /\ UNCHANGED External
    BY <1>0, <1>2 DEF DraftLock, CommitLock
  <2>2. CASE Goto(p, Idle) /\ UNCHANGED lock
    BY <1>0, <2>1, <2>2, MoneyIdle
  <2>3. CASE DraftLock(p) /\ ~(Goto(p, Idle) /\ UNCHANGED lock)
    BY <1>0, <2>1, <2>3, MoneyLocked DEF DraftLock
  <2>4. CASE CommitLock(p) /\ ~(Goto(p, Idle) /\ UNCHANGED lock)
    BY <1>0, <2>1, <2>4, MoneyLocked DEF CommitLock
  <2> QED BY <1>2, <2>2, <2>3, <2>4
<1>3. CASE LetGo(p)
  <2>1. \A r \in Records : lock'[r] = lock[r] \/ lock[r] \in {NoProc, p}
    BY <1>0, <1>3 DEF LetGo, Unlock, Holds
  <2> QED BY <1>0, <1>3, <2>1, MoneyIdle DEF LetGo
<1>4. CASE Crash(p)
  BY <1>0, <1>4, MoneyIdle DEF Crash
<1> QED BY <1>0, <1>1, <1>2, <1>3, <1>4, MoneyFailed, MoneyDraftSave, MoneyCommitSave, MoneyPost, MoneyPut
        DEF SendStep, PayloadFail, DraftFail

\* update_status leaves on the copy what is backed, and settles it.
LEMMA UpdatedOK ==
  ASSUME NEW r \in Records, NEW x \in Row, NEW type \in EventTypes,
         Backed(r, x), Known(x.fsp, type), Noted(x, type)
  PROVE  /\ Updated(x, type) \in Row /\ Backed(r, Updated(x, type))
         /\ Updated(x, type).fsp = x.fsp /\ Updated(x, type).status # "PENDING"
<1>1. type \in {"SENT", "RECEIVED", "REJECTED", "REFUNDED", "CLOSED"}
  BY DEF Noted, MgEnabled, Row, EventTypes
<1>2. PICK y \in Row : y = Updated(x, type)
  BY UpdatedType
<1>3. y.fsp = x.fsp /\ y.auth = x.auth /\ y.status = MgTransition[type].to
  BY <1>2 DEF Updated, Row
<1>4. type \in {"RECEIVED", "REJECTED", "REFUNDED"} => x.status = "TRANSFERRED_TO_FSP"
  BY DEF Noted, MgEnabled, Row
<1>5. y.status = CASE type = "SENT" -> "TRANSFERRED_TO_FSP"
                   [] type = "RECEIVED" -> "TRANSFERRED_TO_BENEFICIARY"
                   [] type = "REJECTED" -> "PURGED"
                   [] type = "REFUNDED" -> "REFUND"
                   [] type = "CLOSED"   -> "ERROR"
  BY <1>1, <1>3 DEF MgTransition, RecordFlow, EventTypes
<1>6. type # "CLOSED" => x.fsp # NoDraft /\ Committed(x.fsp)
  BY <1>1, <1>4 DEF Backed, Known, Transferred
<1>7. type = "CLOSED" => y.status = "ERROR"
  BY <1>5
<1>8. y.status \in Transferred => x.fsp # NoDraft /\ Committed(x.fsp)
  BY <1>6, <1>7 DEF Transferred
<1>9. y.status = "TRANSFERRED_TO_BENEFICIARY" => type = "RECEIVED"
  BY <1>1, <1>5
<1>10. y.status = "TRANSFERRED_TO_BENEFICIARY" => PaidOnce(x.fsp)
  BY <1>9 DEF Known
<1>11. Backed(r, y)
  BY <1>3, <1>8, <1>10 DEF Backed
<1> QED BY <1>1, <1>2, <1>3, <1>5, <1>11

\* A save, without a lock, of a copy in hand or of what update_status made of it.
LEMMA SaveKeeps ==
  ASSUME TypeInv, MoneyInv, TypeInv', NEW p \in Procs, NEW t \in Task, Goto(p, t), TaskOK(p, t)',
         NEW r \in Records, NEW x \in Row, NEW y \in Row, Save(r, y), UNCHANGED <<lock, External>>,
         Agree(x, row[r]), Backed(r, y), y.fsp = x.fsp, y = x \/ y.status # "PENDING"
  PROVE  MoneyInv'
<1>1. \A z \in Row : Agree(z, row[r]) => Agree(z, y)
  BY DEF Agree
<1>2. lock[r] \in {NoProc, p} /\ row' = [row EXCEPT ![r] = y] /\ UNCHANGED External
      /\ (\A s \in Records \ {r} : lock'[s] = lock[s])
  BY DEF Save
<1>3. row[r].fsp # NoDraft => y.fsp = row[r].fsp
  BY DEF Agree
<1> QED BY <1>1, <1>2, <1>3, WriteStep

\* The copy after the save is the row.
LEMMA SavedInHand ==
  ASSUME TypeInv, NEW t \in Task, t.rec \in Records, Save(t.rec, t.copy), UNCHANGED External,
         Backed(t.rec, t.copy), t.copy.fsp = NoDraft => t.copy.status # "PENDING",
         t.pc \in {"again", "refund"}
  PROVE  InHandOK(t)'
<1>1. row'[t.rec] = t.copy
  BY DEF Save, TypeInv, TypeOK
<1>2. Backed(t.rec, t.copy)'
  BY DEF Backed, External, Committed, PaidOnce
<1>3. Agree(t.copy, row[t.rec])'
  BY <1>1 DEF Agree
<1> QED BY <1>2, <1>3 DEF InHandOK

\* What a process with a copy in hand knows.
LEMMA InHandFacts ==
  ASSUME TypeInv, MoneyInv, NEW p \in Procs, task[p].pc \in InHand
  PROVE  /\ task[p].rec \in Records /\ task[p].copy \in Row /\ InHandOK(task[p])
         /\ task[p].arg \in EventTypes
         /\ task[p].copy.fsp = NoDraft => task[p].copy.status # "PENDING"
<1>1. task[p].rec \in Records
  BY DEF TypeInv, WellFormed, InHand
<1>2. task[p].copy \in Row /\ task[p].arg \in EventTypes
  BY DEF TypeInv, TypeOK, Task
<1> QED BY <1>1, <1>2 DEF MoneyInv, TaskOK, InHandOK, Agree

\* A process with a copy in hand saves it as it is, or after an update.
LEMMA MoneySave ==
  ASSUME TypeInv, MoneyInv, TypeInv', NEW p \in Procs, task[p].pc \in InHand,
         NEW y \in Row, NEW pc \in {"again", "refund", "idle"},
         Save(task[p].rec, y), UNCHANGED <<lock, External>>,
         IF pc = "idle" THEN Goto(p, Idle) ELSE Goto(p, [task[p] EXCEPT !.pc = pc, !.copy = y]),
         pc = "refund" => task[p].draft \in Drafts,
         y = task[p].copy \/ y.status # "PENDING",
         y.fsp = task[p].copy.fsp, Backed(task[p].rec, y)
  PROVE  MoneyInv'
<1>1. PICK r \in Records : r = task[p].rec
  BY InHandFacts
<1>2. PICK x \in Row : x = task[p].copy /\ Agree(x, row[r]) /\ (x.fsp = NoDraft => x.status # "PENDING")
  BY <1>1, InHandFacts DEF InHandOK
<1>3. CASE pc = "idle"
  <2>1. TaskOK(p, Idle)'
    BY RowTypes, PlainOK DEF Locked, InHand
  <2> QED BY <1>1, <1>2, <1>3, <2>1, RowTypes, SaveKeeps
<1>4. CASE pc # "idle"
  <2>1. PICK u \in Task : u = task[p]
    BY DEF TypeInv, TypeOK
  <2>2. PICK t : t = [u EXCEPT !.pc = pc, !.copy = y]
    OBVIOUS
  <2>3. t \in Task
    BY <1>4, <2>2 DEF Task, PCs
  <2>4. t.pc = pc /\ t.rec = u.rec /\ t.copy = y /\ t.draft = u.draft
    BY <2>2 DEF Task
  <2>5. InHandOK(t)'
    BY <1>1, <1>2, <1>4, <2>1, <2>3, <2>4, SavedInHand
  <2>6. TaskOK(p, t)'
    BY <1>1, <1>4, <2>1, <2>4, <2>5 DEF TaskOK, Locked
  <2>7. Goto(p, t)
    BY <1>4, <2>1, <2>2
  <2> QED BY <1>1, <1>2, <2>3, <2>6, <2>7, SaveKeeps
<1> QED BY <1>3, <1>4

\* A process takes a copy in hand, or goes on with it.
LEMMA MoneyTaken ==
  ASSUME TypeInv, MoneyInv, TypeInv', NEW p \in Procs, UNCHANGED <<row, lock, External>>,
         NEW t \in Task, Goto(p, t), t.rec \in Records, t.pc \in InHand,
         Backed(t.rec, t.copy), Agree(t.copy, row[t.rec]),
         t.pc \in {"apply", "update"} => Known(t.copy.fsp, t.arg),
         t.pc = "ask" => t.copy.fsp \in Drafts,
         t.pc \in {"note", "refund", "refunded"} => t.draft \in Drafts
  PROVE  MoneyInv'
<1>1. InHandOK(t)'
  BY DEF InHandOK, Backed, Agree, Known, External, Committed, PaidOnce
<1>2. TaskOK(p, t)'
  BY <1>1 DEF TaskOK, Locked, InHand
<1> QED BY <1>2, ReadStep

LEMMA MoneyUnnoted ==
  ASSUME TypeInv, MoneyInv, TypeInv', NEW p \in Procs, task[p].pc \in InHand,
         UNCHANGED <<row, lock, External>>, Goto(p, [task[p] EXCEPT !.pc = "again"])
  PROVE  MoneyInv'
<1>1. PICK u \in Task : u = task[p]
  BY DEF TypeInv, TypeOK
<1>2. PICK t : t = [u EXCEPT !.pc = "again"]
  OBVIOUS
<1>3. t \in Task
  BY <1>2 DEF Task, PCs
<1>4. t.pc = "again" /\ t.rec = u.rec /\ t.copy = u.copy
  BY <1>2 DEF Task
<1>5. t.rec \in Records /\ Backed(t.rec, t.copy) /\ Agree(t.copy, row[t.rec])
  BY <1>1, <1>4, InHandFacts DEF InHandOK
<1>6. t.pc \in InHand /\ Goto(p, t)
  BY <1>1, <1>2, <1>4 DEF InHand
<1> QED BY <1>3, <1>4, <1>5, <1>6, MoneyTaken

LEMMA MoneyHooks ==
  ASSUME TypeInv, MoneyInv, TypeInv', NEW p \in Hooks,
         \/ \E e \in events, r \in Records : HookRead(p, e, r)
         \/ HookApply(p)
  PROVE  MoneyInv'
<1>0. p \in Procs /\ row \in [Records -> Row] /\ events \subseteq Event
  BY DEF Procs, TypeInv, TypeOK
<1>1. ASSUME NEW e \in events, NEW r \in Records, HookRead(p, e, r)
      PROVE  MoneyInv'
  <2>1. PICK x \in Row : x = row[r]
    BY <1>0
  <2>2. PICK a \in EventTypes, d \in Drafts : a = e.type /\ d = e.draft /\ e = [type |-> a, draft |-> d]
    BY <1>0 DEF Event
  <2>3. x.fsp = d /\ d # NoDraft /\ Backed(r, x)
    BY <1>1, <2>1, <2>2 DEF HookRead, MoneyInv
  <2>4. PICK t : t = [Idle EXCEPT !.pc = "apply", !.rec = r, !.copy = x, !.arg = a]
    OBVIOUS
  <2>5. t \in Task /\ t.pc = "apply" /\ t.rec = r /\ t.copy = x /\ t.arg = a
    BY <2>4, RowTypes DEF Idle, Task, PCs
  <2>6. Known(d, a)
    BY <2>2 DEF Known, MoneyInv, BooksOK, PaidOnce
  <2>7. Agree(x, row[r])
    BY <2>1, <2>3 DEF Agree
  <2>8. Goto(p, t) /\ UNCHANGED <<row, lock, External>>
    BY <1>1, <2>1, <2>2, <2>4 DEF HookRead
  <2>9. t.pc \in InHand
    BY <2>5 DEF InHand
  <2> QED BY <1>0, <2>3, <2>5, <2>6, <2>7, <2>8, <2>9, MoneyTaken
<1>2. CASE HookApply(p)
  <2>1. task[p].pc = "apply" /\ task[p].pc \in InHand
    BY <1>2 DEF HookApply, InHand
  <2>2. PICK r \in Records, x \in Row, a \in EventTypes :
          r = task[p].rec /\ x = task[p].copy /\ a = task[p].arg
    BY <1>0, <2>1, InHandFacts
  <2>3. Backed(r, x) /\ Known(x.fsp, a)
    BY <1>0, <2>1, <2>2, InHandFacts DEF InHandOK
  <2>4. CASE Noted(x, a)
    <3>1. PICK y \in Row : y = Updated(x, a)
      BY <2>4, UpdatedType
    <3>2. Backed(r, y) /\ y.fsp = x.fsp /\ y.status # "PENDING"
      BY <2>3, <2>4, <3>1, UpdatedOK
    <3>3. Save(r, y) /\ Goto(p, [task[p] EXCEPT !.pc = "again", !.copy = y])
          /\ UNCHANGED <<lock, External>>
      BY <1>2, <2>2, <2>4, <3>1 DEF HookApply
    <3> QED BY <1>0, <2>1, <2>2, <3>2, <3>3, MoneySave
  <2>5. CASE ~Noted(x, a)
    <3>1. UNCHANGED <<row, lock, External>> /\ Goto(p, [task[p] EXCEPT !.pc = "again"])
      BY <1>2, <2>2, <2>5 DEF HookApply
    <3> QED BY <1>0, <2>1, <3>1, MoneyUnnoted
  <2> QED BY <2>4, <2>5
<1> QED BY <1>1, <1>2

\* The closing save.
LEMMA MoneySaveAgain ==
  ASSUME TypeInv, MoneyInv, TypeInv', NEW p \in Procs, SaveAgain(p)
  PROVE  MoneyInv'
<1>1. task[p].pc \in InHand
  BY DEF SaveAgain, InHand
<1>2. PICK x \in Row : x = task[p].copy /\ Backed(task[p].rec, x)
  BY <1>1, InHandFacts DEF InHandOK
<1>3. Save(task[p].rec, x) /\ UNCHANGED <<lock, External>> /\ Goto(p, Idle)
  BY <1>2 DEF SaveAgain
<1> QED BY <1>1, <1>2, <1>3, MoneySave

\* The operators take a row up.
LEMMA MoneyReads ==
  ASSUME ~TouchPending, TypeInv, MoneyInv, TypeInv', NEW p \in Operators, NEW r \in Records,
         StatusRead(p, r) \/ RefundRead(p, r) \/ EditRead(p, r) \/ CancelRead(p, r)
  PROVE  MoneyInv'
<1>0. p \in Procs /\ UNCHANGED <<row, lock, External>>
  BY DEF Procs, StatusRead, RefundRead, EditRead, CancelRead
<1>1. PICK x \in Row : x = row[r] /\ Backed(r, x)
  BY DEF TypeInv, TypeOK, MoneyInv
<1>2. x.fsp # NoDraft => x.fsp \in Drafts
  BY DEF Row
<1>3. CASE StatusRead(p, r)
  <2>1. PICK t : t = [Idle EXCEPT !.pc = "ask", !.rec = r, !.copy = x]
    OBVIOUS
  <2>2. t \in Task /\ t.pc = "ask" /\ t.rec = r /\ t.copy = x /\ t.pc \in InHand
    BY <2>1, RowTypes DEF Idle, Task, PCs, InHand
  <2>3. Goto(p, t) /\ x.fsp \in Drafts /\ Agree(x, row[r])
    BY <1>1, <1>2, <1>3, <2>1 DEF StatusRead, Agree
  <2> QED BY <1>0, <1>1, <2>2, <2>3, MoneyTaken
<1>4. CASE RefundRead(p, r)
  <2>1. PICK t : t = [Idle EXCEPT !.pc = "get", !.rec = r, !.draft = x.fsp]
    OBVIOUS
  <2>2. Goto(p, t) /\ x.fsp \in Drafts
    BY <1>1, <1>2, <1>4, <2>1 DEF RefundRead
  <2>3. t \in Task /\ t.pc = "get" /\ t.rec = r /\ t.draft \in Drafts
    BY <2>1, <2>2, RowTypes DEF Idle, Task, PCs
  <2>4. TaskOK(p, t)'
    BY <2>3 DEF TaskOK, Locked, InHand
  <2> QED BY <1>0, <2>2, <2>3, <2>4, ReadStep
<1>5. CASE EditRead(p, r) \/ CancelRead(p, r)
  <2>1. PICK y \in Row : /\ Goto(p, [Idle EXCEPT !.pc = "again", !.rec = r, !.copy = y])
                         /\ Backed(r, y) /\ Agree(y, row[r])
    <3>1. CASE EditRead(p, r)
      <4>1. Agree(x, row[r])
        BY <1>1, <3>1 DEF EditRead, Agree
      <4> QED BY <1>1, <3>1, <4>1 DEF EditRead
    <3>2. CASE CancelRead(p, r)
      <4>1. x.status = "TRANSFERRED_TO_FSP" /\ x.fsp # NoDraft
        BY <1>1, <3>2 DEF CancelRead, Backed, Transferred
      <4>2. PICK y \in Row : y = [x EXCEPT !.status = "CANCELLED"]
        BY DEF Row
      <4>3. y.fsp = x.fsp /\ y.auth = x.auth /\ y.status = "CANCELLED"
        BY <4>2 DEF Row
      <4>4. Backed(r, y)
        BY <1>1, <4>3 DEF Backed, Transferred
      <4>5. Agree(y, row[r])
        BY <1>1, <4>1, <4>3 DEF Agree
      <4>6. Goto(p, [Idle EXCEPT !.pc = "again", !.rec = r, !.copy = y])
        BY <1>1, <3>2, <4>2 DEF CancelRead, RecordFlow
      <4> QED BY <4>4, <4>5, <4>6
    <3> QED BY <1>5, <3>1, <3>2
  <2>2. PICK t : t = [Idle EXCEPT !.pc = "again", !.rec = r, !.copy = y]
    OBVIOUS
  <2>3. t \in Task /\ t.pc = "again" /\ t.rec = r /\ t.copy = y /\ t.pc \in InHand
    BY <2>2, RowTypes DEF Idle, Task, PCs, InHand
  <2> QED BY <1>0, <2>1, <2>2, <2>3, MoneyTaken
<1> QED BY <1>3, <1>4, <1>5

\* ... ask for its status, and apply the answer.
LEMMA MoneyStatus ==
  ASSUME TypeInv, MoneyInv, TypeInv', NEW p \in Operators, StatusAsk(p) \/ StatusUpdate(p)
  PROVE  MoneyInv'
<1>0. p \in Procs /\ task[p].pc \in {"ask", "update"} /\ task[p].pc \in InHand
  BY DEF Procs, StatusAsk, StatusUpdate, InHand
<1>1. PICK u \in Task : u = task[p] /\ InHandOK(u) /\ u.rec \in Records /\ u.copy \in Row
  BY <1>0, InHandFacts DEF TypeInv, TypeOK
<1>2. CASE StatusAsk(p)
  <2>1. PICK d \in Drafts : d = u.copy.fsp
    BY <1>1, <1>2 DEF StatusAsk, InHandOK
  <2>2. money[d] \in MoneyStates
    BY DEF TypeInv, TypeOK
  <2>3. PICK a \in EventTypes : a = StatusOf[money[d]]
    BY <2>2 DEF StatusOf, EventTypes
  <2>4. a = "SENT" => money[d] = "committed"
    BY <2>2, <2>3 DEF StatusOf, MoneyStates
  <2>5. a = "RECEIVED" => money[d] = "received"
    BY <2>2, <2>3 DEF StatusOf, MoneyStates
  <2>6. Known(d, a)
    BY <2>4, <2>5 DEF Known, Committed, PaidOnce
  <2>7. PICK t : t = [u EXCEPT !.pc = "update", !.arg = a]
    OBVIOUS
  <2>8. t \in Task
    BY <2>7 DEF Task, PCs
  <2>9. t.pc = "update" /\ t.rec = u.rec /\ t.copy = u.copy /\ t.arg = a
    BY <2>7 DEF Task
  <2>10. t.pc \in InHand /\ Goto(p, t) /\ UNCHANGED <<row, lock, External>>
    BY <1>1, <1>2, <2>1, <2>3, <2>7, <2>9 DEF InHand, StatusAsk
  <2>11. Backed(t.rec, t.copy) /\ Agree(t.copy, row[t.rec]) /\ Known(t.copy.fsp, t.arg)
    BY <1>1, <2>1, <2>6, <2>9 DEF InHandOK
  <2> QED BY <1>0, <1>1, <2>8, <2>9, <2>10, <2>11, MoneyTaken
<1>3. CASE StatusUpdate(p)
  <2>1. u.pc = "update" /\ Goto(p, Idle) /\ UNCHANGED <<lock, External>>
    BY <1>1, <1>3 DEF StatusUpdate
  <2>2. PICK x \in Row, a \in EventTypes : x = u.copy /\ a = u.arg
    BY <1>0, <1>1, InHandFacts
  <2>3. Backed(u.rec, x) /\ Known(x.fsp, a)
    BY <1>1, <2>1, <2>2 DEF InHandOK
  <2>4. CASE Noted(x, a)
    <3>1. PICK y \in Row : y = Updated(x, a)
      BY <2>4, UpdatedType
    <3>2. Backed(u.rec, y) /\ y.fsp = x.fsp /\ y.status # "PENDING"
      BY <1>1, <2>3, <2>4, <3>1, UpdatedOK
    <3>3. Save(u.rec, y)
      BY <1>1, <1>3, <2>2, <2>4, <3>1 DEF StatusUpdate
    <3> QED BY <1>0, <1>1, <2>1, <2>2, <3>2, <3>3, MoneySave
  <2>5. CASE ~Noted(x, a)
    <3>1. row' = row
      BY <1>1, <1>3, <2>2, <2>5 DEF StatusUpdate
    <3> QED BY <1>0, <2>1, <3>1, MoneyIdle
  <2> QED BY <2>4, <2>5
<1> QED BY <1>2, <1>3

\* ... and refund it: the record is read again, a note is saved, the answer is applied.
LEMMA MoneyRefund ==
  ASSUME TypeInv, MoneyInv, TypeInv', NEW p \in Operators,
         RefundGet(p) \/ RefundNote(p) \/ RefundSave(p)
  PROVE  MoneyInv'
<1>0. p \in Procs
  BY DEF Procs
<1>1. PICK u \in Task : u = task[p] /\ u.rec \in Records /\ u.draft \in Drafts
  BY <1>0 DEF TypeInv, TypeOK, WellFormed, RefundGet, RefundNote, RefundSave
<1>2. CASE RefundGet(p)
  <2>1. PICK x \in Row : x = row[u.rec] /\ Backed(u.rec, x)
    BY <1>1 DEF TypeInv, TypeOK, MoneyInv
  <2>2. PICK t : t = [u EXCEPT !.pc = "note", !.copy = x]
    OBVIOUS
  <2>3. t \in Task
    BY <2>2 DEF Task, PCs
  <2>4. t.pc = "note" /\ t.rec = u.rec /\ t.copy = x /\ t.draft = u.draft /\ t.pc \in InHand
    BY <2>2 DEF Task, InHand
  <2>5. x.fsp = u.draft /\ Goto(p, t) /\ UNCHANGED <<row, lock, External>>
    BY <1>1, <1>2, <2>1, <2>2 DEF RefundGet
  <2>6. Agree(x, row[u.rec])
    BY <1>1, <2>1, <2>5 DEF Agree
  <2> QED BY <1>0, <1>1, <2>1, <2>3, <2>4, <2>5, <2>6, MoneyTaken
<1>3. CASE RefundNote(p)
  <2>1. task[p].pc \in InHand
    BY <1>3 DEF RefundNote, InHand
  <2>2. PICK x \in Row : x = u.copy /\ Backed(u.rec, x)
    BY <1>0, <1>1, <2>1, InHandFacts DEF InHandOK
  <2>3. Save(u.rec, x) /\ UNCHANGED <<lock, External>>
    BY <1>1, <1>3, <2>2 DEF RefundNote
  <2>4. [u EXCEPT !.pc = "refund"] = [u EXCEPT !.pc = "refund", !.copy = x]
    BY <2>2 DEF Task
  <2>5. Goto(p, [task[p] EXCEPT !.pc = "refund", !.copy = x])
    BY <1>1, <1>3, <2>4 DEF RefundNote
  <2> QED BY <1>0, <1>1, <2>1, <2>2, <2>3, <2>5, MoneySave
<1>4. CASE RefundSave(p)
  <2>1. task[p].pc \in InHand
    BY <1>4 DEF RefundSave, InHand
  <2>2. PICK x \in Row : x = u.copy /\ Backed(u.rec, x)
    BY <1>0, <1>1, <2>1, InHandFacts DEF InHandOK
  <2>3. "REFUNDED" \in EventTypes /\ Known(x.fsp, "REFUNDED")
    BY DEF EventTypes, Known
  <2>4. CASE Noted(x, "REFUNDED")
    <3>1. PICK y \in Row : y = Updated(x, "REFUNDED")
      BY <2>3, <2>4, UpdatedType
    <3>2. Backed(u.rec, y) /\ y.fsp = x.fsp /\ y.status # "PENDING"
      BY <1>1, <2>2, <2>3, <2>4, <3>1, UpdatedOK
    <3>3. Save(u.rec, y) /\ Goto(p, [task[p] EXCEPT !.pc = "again", !.copy = y])
          /\ UNCHANGED <<lock, External>>
      BY <1>1, <1>4, <2>2, <2>4, <3>1 DEF RefundSave
    <3> QED BY <1>0, <1>1, <2>1, <2>2, <3>2, <3>3, MoneySave
  <2>5. CASE ~Noted(x, "REFUNDED")
    <3>1. UNCHANGED <<row, lock, External>> /\ Goto(p, [task[p] EXCEPT !.pc = "again"])
      BY <1>1, <1>4, <2>2, <2>5 DEF RefundSave
    <3> QED BY <1>0, <2>1, <3>1, MoneyUnnoted
  <2> QED BY <2>4, <2>5
<1> QED BY <1>2, <1>3, <1>4

\* The money behind a draft moves, and MoneyGram says so.
LEMMA MoneyMoves ==
  ASSUME TypeInv, MoneyInv, NEW d \in Drafts, NEW m \in MoneyStates \ {"none"}, NEW a \in EventTypes,
         money' = [money EXCEPT ![d] = m], events' = events \cup {[type |-> a, draft |-> d]},
         UNCHANGED <<row, owner>>,
         m = "draft" <=> ~Committed(d), m = "draft" => a \notin {"SENT", "RECEIVED"},
         m = "received" => a = "RECEIVED"
  PROVE  Growth /\ BooksOK' /\ CommittedOnRow' /\ RowsAgree
<1>1. money'[d] = m /\ \A e \in Drafts \ {d} : money'[e] = money[e]
  BY DEF TypeInv, TypeOK
<1>2. \A e \in Drafts : Committed(e) <=> Committed(e)'
  BY <1>1 DEF Committed
<1>3. \A e \in Drafts : money[e] = "received" => [type |-> "RECEIVED", draft |-> e] \in events
  BY DEF MoneyInv, BooksOK
<1>4. Growth
  BY <1>2, <1>3 DEF Growth, PaidOnce
<1>5. BooksOK'
  <2>1. ASSUME NEW e \in events', e.type \in {"SENT", "RECEIVED"}
        PROVE  Committed(e.draft)'
    <3>1. CASE e \in events
      BY <1>2, <2>1, <3>1 DEF MoneyInv, BooksOK, TypeInv, TypeOK, Event
    <3>2. CASE e = [type |-> a, draft |-> d]
      BY <1>2, <2>1, <3>2
    <3> QED BY <3>1, <3>2
  <2>2. \A e \in Drafts : money'[e] = "received" => [type |-> "RECEIVED", draft |-> e] \in events'
    BY <1>1, <1>3
  <2>3. \A e \in Drafts : owner'[e] # NoRecord => money'[e] # "none"
    BY <1>1 DEF MoneyInv, BooksOK
  <2> QED BY <2>1, <2>2, <2>3 DEF BooksOK
<1>6. CommittedOnRow'
  BY <1>2 DEF MoneyInv, CommittedOnRow
<1> QED BY <1>4, <1>5, <1>6 DEF RowsAgree

LEMMA MoneyRefundPut ==
  ASSUME TypeInv, MoneyInv, TypeInv', NEW p \in Operators, RefundPut(p)
  PROVE  MoneyInv'
<1>0. p \in Procs
  BY DEF Procs
<1>1. PICK u \in Task : u = task[p] /\ u.pc = "refund" /\ u.rec \in Records /\ u.draft \in Drafts
  BY <1>0 DEF TypeInv, TypeOK, WellFormed, RefundPut
<1>2. InHandOK(u)
  BY <1>0, <1>1, InHandFacts DEF InHand
<1>3. /\ money[u.draft] = "committed" /\ money' = [money EXCEPT ![u.draft] = "refunded"]
      /\ events' = events \cup {[type |-> "REFUNDED", draft |-> u.draft]}
      /\ row' = row /\ lock' = lock /\ owner' = owner
  BY <1>1 DEF RefundPut
<1>4. Growth /\ BooksOK' /\ CommittedOnRow' /\ RowsAgree
  BY <1>1, <1>3, MoneyMoves DEF Committed, MoneyStates, EventTypes
<1>5. PICK t \in Task : Goto(p, t) /\ TaskOK(p, t)'
  <2>1. TaskOK(p, Idle)'
    BY <1>0, RowTypes, PlainOK DEF Locked, InHand
  <2>2. PICK t : t = [u EXCEPT !.pc = "refunded"]
    OBVIOUS
  <2>3. t \in Task
    BY <2>2 DEF Task, PCs
  <2>4. t.pc = "refunded" /\ t.rec = u.rec /\ t.copy = u.copy /\ t.draft = u.draft
    BY <2>2 DEF Task
  <2>5. Backed(u.rec, u.copy)' /\ Agree(u.copy, row'[u.rec])
    <3>1. PICK x \in Row, r \in Records : x = u.copy /\ r = u.rec
      BY <1>1 DEF Task
    <3>2. Backed(r, x)'
      BY <1>2, <1>4, <3>1, BackedStable DEF InHandOK
    <3> QED BY <1>2, <1>3, <3>1, <3>2 DEF InHandOK
  <2>6. InHandOK(t)'
    BY <2>4, <2>5 DEF InHandOK, Agree
  <2>7. TaskOK(p, t)'
    BY <1>1, <2>4, <2>6 DEF TaskOK, Locked
  <2>8. Goto(p, t) \/ Goto(p, Idle)
    BY <1>1, <2>2 DEF RefundPut
  <2> QED BY <2>1, <2>3, <2>7, <2>8, RowTypes
<1> QED BY <1>0, <1>3, <1>4, <1>5, Frame

\* MoneyGram's own steps: no process moves.
LEMMA MoneyMgStep ==
  ASSUME TypeInv, MoneyInv, TypeInv', NEW d \in Drafts, MgStep(d)
  PROVE  MoneyInv'
<1>1. row' = row /\ lock' = lock /\ task' = task /\ owner' = owner
  BY DEF MgStep
<1>2. PICK mv \in MgMoves : /\ money[d] = mv[1] /\ money' = [money EXCEPT ![d] = mv[2]]
                            /\ events' = events \cup {[type |-> mv[3], draft |-> d]}
  BY DEF MgStep
<1>3. /\ mv[2] \in MoneyStates \ {"none"} /\ mv[3] \in EventTypes
      /\ (mv[2] = "draft" <=> mv[1] = "draft") /\ mv[1] # "none"
      /\ (mv[2] = "draft" => mv[3] \notin {"SENT", "RECEIVED"})
      /\ (mv[2] = "received" => mv[3] = "RECEIVED")
  BY DEF MgMoves, MoneyStates, EventTypes
<1>4. Growth /\ BooksOK' /\ CommittedOnRow' /\ RowsAgree
  <2>1. PICK m \in MoneyStates \ {"none"}, a \in EventTypes : m = mv[2] /\ a = mv[3]
    BY <1>3
  <2>2. m = "draft" <=> ~Committed(d)
    BY <1>2, <1>3, <2>1 DEF Committed
  <2> QED BY <1>1, <1>2, <1>3, <2>1, <2>2, MoneyMoves
<1>5. ASSUME NEW q \in Procs
      PROVE  TaskOK(q, task[q])'
  <2>1. PICK u \in Task : u = task[q] /\ u = task'[q]
    BY <1>1 DEF TypeInv, TypeOK
  <2>2. TaskOK(q, u) /\ (u.pc = "idle" => u = Idle)
    BY <2>1 DEF MoneyInv, TypeInv, WellFormed
  <2>3. TaskOK(q, u)'
    BY <1>1, <1>4, <2>2, TaskStable
  <2> QED BY <2>1, <2>3 DEF TaskOK, LockedOK, InHandOK
<1>6. ASSUME NEW r \in Records
      PROVE  Backed(r, row[r])'
  <2>1. PICK x \in Row : x = row[r] /\ x = row'[r]
    BY <1>1 DEF TypeInv, TypeOK
  <2>2. Backed(r, x)'
    BY <1>4, <2>1, BackedStable DEF MoneyInv
  <2> QED BY <2>1, <2>2 DEF Backed
<1> QED BY <1>4, <1>5, <1>6 DEF MoneyInv, TypeInv

LEMMA MoneyNext ==
  ASSUME ~TouchPending, TypeInv, MoneyInv, TypeInv', [Next]_vars
  PROVE  MoneyInv'
<1>1. CASE UNCHANGED vars
  BY <1>1 DEF vars, MoneyInv, TypeOK, CommittedOnRow, Committed, BooksOK, PaidOnce, Backed,
              TaskOK, LockedOK, InHandOK, Agree, Known
<1>2. ASSUME NEW p \in Hooks \cup Operators, SaveAgain(p) \/ Crash(p)
      PROVE  MoneyInv'
  <2>1. p \in Procs
    BY DEF Procs
  <2> QED BY <1>2, <2>1, MoneySaveAgain, MoneyIdle DEF Crash
<1>3. ASSUME NEW p \in Operators, OperatorStep(p)
      PROVE  MoneyInv'
  BY <1>2, <1>3, MoneyStatus, MoneyRefund, MoneyRefundPut DEF OperatorStep
<1> QED BY <1>1, <1>2, <1>3, MoneySenders, MoneyHooks, MoneyReads, MoneyMgStep DEF Next

LEMMA MoneyInit == Init => MoneyInv
<1> SUFFICES ASSUME Init
             PROVE  MoneyInv
  OBVIOUS
<1>1. TypeOK
  BY TypedInit DEF TypeInv
<1>2. CommittedOnRow /\ BooksOK
  BY DEF Init, CommittedOnRow, Committed, BooksOK
<1>3. \A r \in Records : Backed(r, row[r])
  BY DEF Init, NewRow, Backed, Transferred
<1>4. \A p \in Procs : TaskOK(p, task[p])
  BY DEF Init, Idle, TaskOK, Locked, InHand
<1> QED BY <1>1, <1>2, <1>3, <1>4 DEF MoneyInv

\* A draft whose money moves stays on the row of its record, and the reference number
\* of a record is that of its own draft, for any number of records, drafts, senders,
\* web workers and operators, as long as rows still PENDING are not edited.
THEOREM MoneyOnRow ==
  ASSUME ~TouchPending
  PROVE  Spec => [](CommittedOnRow /\ OwnReference)
<1>1. TypeInv /\ MoneyInv => CommittedOnRow /\ OwnReference
  <2> SUFFICES ASSUME TypeInv, MoneyInv
               PROVE  OwnReference
    BY DEF MoneyInv
  <2>1. ASSUME NEW r \in Records, row[r].auth # NoDraft
        PROVE  row[r].auth = row[r].fsp /\ owner[row[r].auth] = r /\ Committed(row[r].auth)
    <3>1. Backed(r, row[r]) /\ row[r].auth \in Drafts
      BY <2>1 DEF MoneyInv, TypeInv, TypeOK, Row
    <3> QED BY <2>1, <3>1 DEF Backed
  <2> QED BY <2>1 DEF OwnReference
<1>2. Init => TypeInv /\ MoneyInv
  BY TypedInit, MoneyInit
<1>3. TypeInv /\ MoneyInv /\ [Next]_vars => (TypeInv /\ MoneyInv)'
  BY TypedNext, MoneyNext
<1> QED BY <1>1, <1>2, <1>3, PTL DEF Spec

\* The reference number on a row was given for the draft the row carries.
COROLLARY ReferenceOwn ==
  ASSUME ~TouchPending
  PROVE  Spec => []OwnReference
  BY MoneyOnRow, PTL

-----------------------------------------------------------------------------
(* The payout book.                                                        *)

\* The fact the book has of a record, read off the draft on its row.
FactOfRow(r) ==
  IF row[r].fsp \in Drafts /\ Committed(row[r].fsp)
    THEN IF PaidOnce(row[r].fsp) THEN "paid" ELSE "accepted"
    ELSE "nothing"

FactInv == \A r \in Records : factBar[r] = FactOfRow(r)

LEMMA FactIs == TypeInv /\ MoneyInv => FactInv
<1> SUFFICES ASSUME TypeInv, MoneyInv, NEW r \in Records
             PROVE  factBar[r] = FactOfRow(r)
  BY DEF FactInv
<1>1. \A d \in Drafts : owner[d] = r /\ Committed(d) => d = row[r].fsp
  BY DEF MoneyInv, CommittedOnRow
<1>2. row[r].fsp \in Drafts => owner[row[r].fsp] = r
  BY DEF MoneyInv, Backed
<1>3. CASE row[r].fsp \in Drafts /\ Committed(row[r].fsp)
  <2>1. CommittedFor(r) = {row[r].fsp}
    BY <1>1, <1>2, <1>3 DEF CommittedFor
  <2> QED BY <1>3, <2>1 DEF factBar, FactOfRow
<1>4. CASE ~(row[r].fsp \in Drafts /\ Committed(row[r].fsp))
  <2>1. CommittedFor(r) = {}
    BY <1>1, <1>4 DEF CommittedFor
  <2> QED BY <1>4, <2>1 DEF factBar, FactOfRow
<1> QED BY <1>3, <1>4

\* The table claims nothing that the provider has not done.
EvidenceInv == \A r \in Records : factBar[r] \in Book!Evidence[claimBar[r]]

LEMMA EvidenceOK == TypeInv /\ MoneyInv => EvidenceInv
<1> SUFFICES ASSUME TypeInv, MoneyInv, NEW r \in Records
             PROVE  factBar[r] \in Book!Evidence[claimBar[r]]
  BY DEF EvidenceInv
<1>1. PICK x \in Row : x = row[r] /\ Backed(r, x)
  BY DEF TypeInv, TypeOK, MoneyInv
<1>2. x.fsp # NoDraft => x.fsp \in Drafts
  BY DEF Row
<1>3. factBar[r] = FactOfRow(r) /\ factBar[r] \in {"nothing", "accepted", "paid"}
  BY FactIs DEF FactInv, FactOfRow
<1>4. x.status \in Transferred => factBar[r] \in {"accepted", "paid"}
  BY <1>1, <1>2, <1>3 DEF Backed, FactOfRow
<1>5. x.status = "TRANSFERRED_TO_BENEFICIARY" => factBar[r] = "paid"
  BY <1>1, <1>2, <1>3 DEF Backed, FactOfRow, Transferred
<1>6. claimBar[r] = CASE x.status = "PENDING" -> "unsent"
                      [] x.status \in {"CANCELLED", "ERROR"} -> "closed"
                      [] x.status = "TRANSFERRED_TO_BENEFICIARY" -> "paid"
                      [] OTHER -> "sent"
  BY <1>1 DEF claimBar
<1>7. CASE x.status \in {"PENDING", "CANCELLED", "ERROR"}
  BY <1>3, <1>6, <1>7 DEF Book!Evidence, Book!Facts
<1>8. CASE x.status = "TRANSFERRED_TO_BENEFICIARY"
  BY <1>5, <1>6, <1>8 DEF Book!Evidence
<1>9. CASE x.status \in {"TRANSFERRED_TO_FSP", "REFUND", "PURGED"}
  BY <1>4, <1>6, <1>9 DEF Book!Evidence, Transferred
<1> QED BY <1>7, <1>8, <1>9 DEF Row

\* A step that saves a row records an outcome.
LEMMA BookRecord ==
  ASSUME UNCHANGED External, EvidenceInv', NEW r \in Records,
         \A s \in Records \ {r} : row'[s] = row[s]
  PROVE  Book!Record(r)
<1>1. factBar' = factBar
  BY DEF External, factBar, CommittedFor, Committed, PaidOnce
<1>2. claimBar'[r] \in Book!Claims
  BY DEF claimBar, Book!Claims
<1>3. claimBar' = [claimBar EXCEPT ![r] = claimBar'[r]]
  BY DEF claimBar
<1>4. factBar[r] \in Book!Evidence[claimBar'[r]]
  BY <1>1 DEF EvidenceInv
<1> QED BY <1>1, <1>2, <1>3, <1>4 DEF Book!Record

\* A step of the money behind one draft is accepted, paid out or nothing new.
LEMMA BookMoney ==
  ASSUME TypeInv, MoneyInv, TypeInv', MoneyInv', row' = row, Growth, NEW d \in Drafts,
         \A e \in Drafts \ {d} : Committed(e)' = Committed(e) /\ PaidOnce(e)' = PaidOnce(e),
         ~Committed(d) => ~PaidOnce(d)'
  PROVE  Book!Next \/ UNCHANGED <<claimBar, factBar>>
<1>1. claimBar' = claimBar
  BY DEF claimBar
<1>2. \A r \in Records : factBar[r] = FactOfRow(r)
  BY FactIs DEF FactInv
<1>3. \A r \in Records : factBar'[r] = FactOfRow(r)'
  <2>1. FactInv'
    BY FactIs, PTL
  <2> QED BY <2>1 DEF FactInv
<1>4. factBar = [r \in Records |-> factBar[r]] /\ factBar' = [r \in Records |-> factBar'[r]]
  BY DEF factBar
<1>5. \A r \in Records : row[r].fsp # d => factBar'[r] = factBar[r]
  BY <1>2, <1>3 DEF FactOfRow
<1>6. CASE \E r \in Records : row[r].fsp = d
  <2>1. PICK r \in Records : row[r].fsp = d
    BY <1>6
  <2>2. \A s \in Records \ {r} : row[s].fsp # d
    BY <2>1 DEF MoneyInv, Backed
  <2>3. factBar' = [factBar EXCEPT ![r] = factBar'[r]]
    BY <1>4, <1>5, <2>2
  <2>4. \/ factBar'[r] = factBar[r]
        \/ factBar[r] = "nothing" /\ factBar'[r] = "accepted"
        \/ factBar[r] = "accepted" /\ factBar'[r] = "paid"
    BY <1>2, <1>3, <2>1 DEF FactOfRow, Growth
  <2>5. CASE factBar'[r] = factBar[r]
    BY <1>1, <1>4, <2>3, <2>5
  <2>6. CASE factBar[r] = "nothing" /\ factBar'[r] = "accepted"
    BY <1>1, <2>3, <2>6 DEF Book!Next, Book!Accept
  <2>7. CASE factBar[r] = "accepted" /\ factBar'[r] = "paid"
    BY <1>1, <2>3, <2>7 DEF Book!Next, Book!PayOut
  <2> QED BY <2>4, <2>5, <2>6, <2>7
<1>7. CASE ~\E r \in Records : row[r].fsp = d
  BY <1>1, <1>4, <1>5, <1>7
<1> QED BY <1>6, <1>7

\* A step either leaves MoneyGram alone and saves at most one row, or it leaves the
\* rows alone and moves the money behind at most one draft.
OneRow == \E r \in Records : \A s \in Records \ {r} : row'[s] = row[s]
OneDraft(d) ==
  /\ row' = row /\ Growth
  /\ \A e \in Drafts \ {d} : Committed(e)' = Committed(e) /\ PaidOnce(e)' = PaidOnce(e)
  /\ ~Committed(d) => ~PaidOnce(d)'

LEMMA OneRowStep ==
  ASSUME TypeInv, NEW k, NEW x, row' = [row EXCEPT ![k] = x] \/ row' = row,
         Records # {}
  PROVE  OneRow
<1>1. CASE k \in Records
  BY <1>1 DEF OneRow, TypeInv, TypeOK
<1>2. CASE k \notin Records
  BY <1>2 DEF OneRow, TypeInv, TypeOK
<1> QED BY <1>1, <1>2

\* One draft's money moves as MoneyGram, a try or a refund moves it.
LEMMA OneDraftStep ==
  ASSUME TypeInv, MoneyInv, NEW d \in Drafts, NEW m \in MoneyStates, NEW a \in EventTypes,
         row' = row, money' = [money EXCEPT ![d] = m],
         \A e \in Drafts : owner[e] \in Records => owner'[e] = owner[e],
         events' = events \/ events' = events \cup {[type |-> a, draft |-> d]},
         Committed(d) => m \notin {"none", "draft"}, m = "received" => Committed(d),
         ~Committed(d) => a # "RECEIVED"
  PROVE  OneDraft(d)
<1>1. money'[d] = m /\ \A e \in Drafts \ {d} : money'[e] = money[e]
  BY DEF TypeInv, TypeOK
<1>2. \A e \in Drafts \ {d} : Committed(e)' = Committed(e)
  BY <1>1 DEF Committed
<1>3. \A e \in Drafts \ {d} : [type |-> "RECEIVED", draft |-> e] # [type |-> a, draft |-> d]
  OBVIOUS
<1>4. \A e \in Drafts \ {d} : PaidOnce(e)' = PaidOnce(e)
  BY <1>1, <1>3 DEF PaidOnce
<1>5. Committed(d) => Committed(d)'
  BY <1>1 DEF Committed
<1>6. PaidOnce(d) => [type |-> "RECEIVED", draft |-> d] \in events
  BY DEF PaidOnce, MoneyInv, BooksOK
<1>7. PaidOnce(d) => PaidOnce(d)'
  BY <1>6 DEF PaidOnce
<1>8. [type |-> "RECEIVED", draft |-> d] \in events => Committed(d)
  BY DEF MoneyInv, BooksOK
<1>9. ~Committed(d) => ~PaidOnce(d)'
  BY <1>1, <1>8 DEF PaidOnce
<1>10. Growth
  BY <1>2, <1>4, <1>5, <1>7 DEF Growth
<1> QED BY <1>2, <1>4, <1>9, <1>10 DEF OneDraft

LEMMA StepKinds ==
  ASSUME TypeInv, MoneyInv, Next, Records # {}
  PROVE  (UNCHANGED External /\ OneRow) \/ \E d \in Drafts : OneDraft(d)
<1> DEFINE Quiet == UNCHANGED External /\ OneRow
           Moved == \E d \in Drafts : OneDraft(d)
<1>1. ASSUME NEW p \in Procs, NEW r \in Records,
             Begin(p, r) \/ StatusRead(p, r) \/ RefundRead(p, r) \/ EditRead(p, r) \/ CancelRead(p, r)
      PROVE  Quiet
  BY <1>1, OneRowStep DEF Begin, StatusRead, RefundRead, EditRead, CancelRead
<1>2. ASSUME NEW p \in Procs, NEW r \in Records, NEW e \in events, HookRead(p, e, r)
      PROVE  Quiet
  BY <1>2, OneRowStep DEF HookRead
<1>3. ASSUME NEW p \in Procs, DraftLock(p) \/ CommitLock(p) \/ LetGo(p) \/ Crash(p) \/ StatusAsk(p) \/ RefundGet(p)
      PROVE  Quiet
  BY <1>3, OneRowStep DEF DraftLock, CommitLock, LetGo, Crash, StatusAsk, RefundGet
<1>4. ASSUME NEW p \in Procs, Failed(p) \/ DraftSave(p) \/ CommitSave(p)
      PROVE  Quiet
  <2>1. UNCHANGED External /\ \E x : row' = [row EXCEPT ![task[p].rec] = x] \/ row' = row
    BY <1>4 DEF Failed, DraftSave, CommitSave
  <2> QED BY <2>1, OneRowStep
<1>5. ASSUME NEW p \in Procs, HookApply(p) \/ SaveAgain(p) \/ StatusUpdate(p) \/ RefundNote(p) \/ RefundSave(p)
      PROVE  Quiet
  <2>1. UNCHANGED External /\ \E x : row' = [row EXCEPT ![task[p].rec] = x] \/ row' = row
    BY <1>5 DEF HookApply, SaveAgain, StatusUpdate, RefundNote, RefundSave, Save
  <2> QED BY <2>1, OneRowStep
<1>6. ASSUME NEW p \in Procs, Post(p)
      PROVE  Quiet \/ Moved
  <2>1. row' = row /\ events' = events
    BY <1>6 DEF Post
  <2>2. CASE UNCHANGED <<owner, money>>
    BY <2>1, <2>2, OneRowStep DEF External
  <2>3. ASSUME NEW d \in Drafts, owner[d] = NoRecord, owner' = [owner EXCEPT ![d] = task[p].rec],
               money' = [money EXCEPT ![d] = "draft"]
        PROVE  Moved
    <3>1. ~Committed(d)
      BY <2>3 DEF MoneyInv, CommittedOnRow
    <3>2. \A e \in Drafts : owner[e] \in Records => owner'[e] = owner[e]
      BY <2>3 DEF TypeInv, TypeOK
    <3>3. "draft" \in MoneyStates /\ "OTHER" \in EventTypes
      BY DEF MoneyStates, EventTypes
    <3> QED BY <2>1, <2>3, <3>1, <3>2, <3>3, OneDraftStep
  <2> QED BY <1>6, <2>2, <2>3 DEF Post
<1>7. ASSUME NEW p \in Procs, Put(p)
      PROVE  Quiet \/ Moved
  <2>1. row' = row /\ events' = events /\ owner' = owner /\ task[p].pc = "put" /\ task[p].pc \in Locked
    BY <1>7 DEF Put, Locked
  <2>2. PICK d \in Drafts : d = task[p].copy.fsp
    BY <2>1, LockedFacts DEF LockedOK
  <2>3. CASE UNCHANGED money
    BY <2>1, <2>3, OneRowStep DEF External
  <2>4. CASE money' = [money EXCEPT ![d] = IF money[d] = "draft" THEN "committed" ELSE money[d]]
    <3>1. PICK m \in MoneyStates : m = IF money[d] = "draft" THEN "committed" ELSE money[d]
      BY DEF MoneyStates, TypeInv, TypeOK
    <3>2. /\ Committed(d) => m \notin {"none", "draft"}
          /\ m = "received" => Committed(d)
      BY <3>1 DEF Committed
    <3>3. "OTHER" \in EventTypes /\ money' = [money EXCEPT ![d] = m]
      BY <2>4, <3>1 DEF EventTypes
    <3> QED BY <2>1, <3>2, <3>3, OneDraftStep
  <2> QED BY <1>7, <2>2, <2>3, <2>4 DEF Put
<1>8. ASSUME NEW p \in Procs, RefundPut(p)
      PROVE  Moved
  <2>1. task[p].draft \in Drafts
    BY <1>8 DEF RefundPut, TypeInv, WellFormed
  <2>2. Committed(task[p].draft) /\ "refunded" \in MoneyStates /\ "REFUNDED" \in EventTypes
    BY <1>8 DEF RefundPut, Committed, MoneyStates, EventTypes
  <2> QED BY <1>8, <2>1, <2>2, OneDraftStep DEF RefundPut
<1>9. ASSUME NEW d \in Drafts, MgStep(d)
      PROVE  Moved
  <2>1. PICK mv \in MgMoves : /\ money[d] = mv[1] /\ money' = [money EXCEPT ![d] = mv[2]]
                              /\ events' = events \cup {[type |-> mv[3], draft |-> d]}
    BY <1>9 DEF MgStep
  <2>2. /\ mv[2] \in MoneyStates /\ mv[3] \in EventTypes
        /\ Committed(d) => mv[2] \notin {"none", "draft"}
        /\ mv[2] = "received" => Committed(d)
        /\ ~Committed(d) => mv[3] # "RECEIVED"
    BY <2>1 DEF MgMoves, MoneyStates, EventTypes, Committed
  <2> QED BY <1>9, <2>1, <2>2, OneDraftStep DEF MgStep
<1>10. Senders \subseteq Procs /\ Hooks \subseteq Procs /\ Operators \subseteq Procs
  BY DEF Procs
<1> HIDE DEF Quiet, Moved
<1>11. Quiet \/ Moved
  BY <1>1, <1>2, <1>3, <1>4, <1>5, <1>6, <1>7, <1>8, <1>9, <1>10
     DEF Next, SendStep, OperatorStep, PayloadFail, DraftFail
<1> QED BY <1>11 DEF Quiet, Moved

LEMMA BookStep ==
  ASSUME TypeInv, MoneyInv, TypeInv', MoneyInv', [Next]_vars
  PROVE  Book!Next \/ UNCHANGED <<claimBar, factBar>>
<1>1. EvidenceInv'
  BY EvidenceOK, PTL
<1>2. CASE UNCHANGED vars
  BY <1>2 DEF vars, claimBar, factBar, CommittedFor, Committed, PaidOnce
<1>3. CASE Records = {}
  BY <1>3 DEF claimBar, factBar
<1>4. CASE Next /\ Records # {}
  <2>1. CASE UNCHANGED External /\ OneRow
    BY <1>1, <2>1, BookRecord DEF OneRow, Book!Next
  <2>2. CASE \E d \in Drafts : OneDraft(d)
    BY <2>2, BookMoney DEF OneDraft
  <2> QED BY <1>4, <2>1, <2>2, StepKinds
<1> QED BY <1>2, <1>3, <1>4

\* Rows and MoneyGram together keep the payout book: at most one transfer is ever
\* accepted for a record, and the table claims nothing MoneyGram has not done.
THEOREM MoneyKeepsBook ==
  ASSUME ~TouchPending
  PROVE  Spec => BookSpec
<1>1. Init => Book!Init
  BY DEF Init, NewRow, Book!Init, claimBar, factBar, CommittedFor
<1>2. Init => TypeInv /\ MoneyInv
  BY TypedInit, MoneyInit
<1>3. TypeInv /\ MoneyInv /\ [Next]_vars => (TypeInv /\ MoneyInv)'
  BY TypedNext, MoneyNext
<1>4. TypeInv /\ MoneyInv /\ (TypeInv /\ MoneyInv)' /\ [Next]_vars => [Book!Next]_<<claimBar, factBar>>
  BY BookStep
<1> QED BY <1>1, <1>2, <1>3, <1>4, PTL DEF Spec, BookSpec, Book!Spec
=============================================================================
