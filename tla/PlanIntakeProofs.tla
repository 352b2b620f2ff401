-------------------------- MODULE PlanIntakeProofs --------------------------
(* Theorems about PlanIntake, for any plans, offices, clients and workers. *)
EXTENDS PlanIntakeInv, TLAPS

-----------------------------------------------------------------------------
(* Type correctness, and what each process is at.                          *)

\* A process at rest is well typed, and so is a plan that is not in the table.
LEMMA RestingTyped ==
  /\ NewRow \in Row /\ Idle \in Task /\ Idle.pc = "idle"
  /\ Absent.status = "ABSENT" /\ \A r \in Row : r.status # "ABSENT"
  BY DEF NewRow, Row, Idle, Task, PCs, Absent, InstructionStates

\* A row with another status is a row, a plan that is not in the table included.
LEMMA RowWithStatus ==
  ASSUME NEW r \in Row \cup {Absent}, NEW s \in InstructionStates
  PROVE  /\ [r EXCEPT !.status = s] \in Row /\ [r EXCEPT !.status = s].status = s
         /\ [r EXCEPT !.status = s].key = r.key /\ [r EXCEPT !.status = s].active = r.active
<1>1. CASE r \in Row
  BY <1>1 DEF Row
<1>2. CASE r = Absent
  BY <1>2 DEF Row, Absent, NewRow
<1> QED BY <1>1, <1>2

\* A transition leads from statuses of a plan to a status of a plan.
LEMMA FlowTyped ==
  ASSUME NEW verb \in Verbs
  PROVE  /\ InstructionFlow[verb].from \subseteq InstructionStates
         /\ InstructionFlow[verb].to \in InstructionStates
<1>1. verb \in {"open", "close", "ready", "process", "finalize", "abort"}
  BY IntakeAssumption DEF InstructionFlow
<1> QED BY <1>1 DEF InstructionFlow, InstructionStates

\* A request or a job begins with its copy of the plan.
LEMMA BeginIs ==
  ASSUME NEW x, NEW pc \in PCs, NEW p \in Plans, NEW r \in Row, Begin(x, pc, p, r)
  PROVE  task[x] = Idle /\ task' = [task EXCEPT ![x] = [pc |-> pc, plan |-> p, row |-> r]]
<1> DEFINE t == [Idle EXCEPT !.pc = pc, !.plan = p, !.row = r]
<1>1. t = [pc |-> pc, plan |-> p, row |-> r]
  <2>1. Idle \in Task
    BY RestingTyped
  <2>2. t \in Task /\ t.pc = pc /\ t.plan = p /\ t.row = r
    BY <2>1 DEF Task
  <2> HIDE DEF t
  <2> QED BY <2>2 DEF Task
<1>2. task[x] = Idle /\ task' = [task EXCEPT ![x] = t]
  BY DEF Begin
<1> QED BY <1>1, <1>2

\* The initial state satisfies the invariant.
LEMMA InitIntake == Init => IntakeInv
  BY RestingTyped, IntakeAssumption DEF Init, IntakeInv, TypeOK, TaskOK

\* A save writes a row to a table of rows and announces a status.
LEMMA SaveTyped ==
  ASSUME IntakeInv, NEW x \in Procs, task[x] # Idle, Save(task[x].plan, task[x].row)
  PROVE  /\ plan' \in [Plans -> Row \cup {Absent}]
         /\ announced' \in [Plans -> SUBSET InstructionStates]
<1>1. task[x].row \in Row /\ task[x].row.status \in InstructionStates /\ task[x].plan \in Plans
  BY DEF IntakeInv, TypeOK, TaskOK, Task, Row
<1>2. plan' \in [Plans -> Row \cup {Absent}]
  BY <1>1 DEF Save, IntakeInv, TypeOK
<1>3. announced' \in [Plans -> SUBSET InstructionStates]
  BY <1>1 DEF Save, Announce, IntakeInv, TypeOK
<1> QED BY <1>2, <1>3

\* A step of one process keeps the invariant when what it leaves behind is typed.
LEMMA IntakeStep ==
  ASSUME IntakeInv, NEW x \in Procs, NEW t \in Task, task' = [task EXCEPT ![x] = t],
         t # Idle => /\ t.pc # "idle" /\ t.plan \in Plans
                     /\ x \in Workers <=> t.pc = "job"
                     /\ t.pc = "job" => t.row.status = "PROCESSED",
         plan' \in [Plans -> Row \cup {Absent}],
         office' \in [Offices -> {"none", "plain", "supervised"}],
         queued' \in SUBSET Plans,
         announced' \in [Plans -> SUBSET InstructionStates],
         unfinished' \in SUBSET Plans, approved' \in SUBSET Plans, cuts' \in 0 .. MaxCuts
  PROVE  IntakeInv'
<1>1. task' \in [Procs -> Task]
  BY DEF IntakeInv, TypeOK
<1>2. TypeOK'
  BY <1>1 DEF TypeOK
<1>3. ASSUME NEW y \in Procs PROVE TaskOK(y)'
  <2>1. CASE y = x
    BY <2>1 DEF IntakeInv, TypeOK, TaskOK
  <2>2. CASE y # x
    <3>1. task'[y] = task[y] /\ TaskOK(y)
      BY <2>2 DEF IntakeInv, TypeOK
    <3> QED BY <3>1 DEF TaskOK
  <2> QED BY <2>1, <2>2
<1> QED BY <1>2, <1>3 DEF IntakeInv

\* The same for a process that goes on with its plan.
LEMMA IntakeGoesOn ==
  ASSUME IntakeInv, NEW x \in Procs, task[x] # Idle, task[x].pc # "job",
         NEW pc \in PCs \ {"idle", "job"}, NEW r \in Row,
         task' = [task EXCEPT ![x] = [pc |-> pc, plan |-> task[x].plan, row |-> r]],
         plan' \in [Plans -> Row \cup {Absent}],
         office' \in [Offices -> {"none", "plain", "supervised"}],
         queued' = queued, announced' \in [Plans -> SUBSET InstructionStates],
         unfinished' \in SUBSET Plans, UNCHANGED <<approved, cuts>>
  PROVE  IntakeInv'
<1>1. task[x].plan \in Plans /\ x \notin Workers
  BY DEF IntakeInv, TypeOK, TaskOK
<1>2. [pc |-> pc, plan |-> task[x].plan, row |-> r] \in Task
  BY <1>1 DEF Task
<1>3. queued' \in SUBSET Plans /\ approved' \in SUBSET Plans /\ cuts' \in 0 .. MaxCuts
  BY DEF IntakeInv, TypeOK
<1> QED BY <1>1, <1>2, <1>3, IntakeStep

\* The same for a process that takes up a plan,
LEMMA IntakeBegins ==
  ASSUME IntakeInv, NEW x \in Procs, NEW pc \in PCs \ {"idle"}, NEW p \in Plans, NEW r \in Row,
         x \in Workers <=> pc = "job",
         pc = "job" => r.status = "PROCESSED",
         task' = [task EXCEPT ![x] = [pc |-> pc, plan |-> p, row |-> r]],
         queued' \in SUBSET Plans,
         UNCHANGED <<plan, office, announced, unfinished, approved, cuts>>
  PROVE  IntakeInv'
<1>1. [pc |-> pc, plan |-> p, row |-> r] \in Task
  BY DEF Task
<1>2. TypeOK
  BY DEF IntakeInv
<1> QED BY <1>1, <1>2, IntakeStep DEF TypeOK

\* or comes to its end.
LEMMA IntakeEnds ==
  ASSUME IntakeInv, NEW x \in Procs, End(x),
         plan' \in [Plans -> Row \cup {Absent}],
         announced' \in [Plans -> SUBSET InstructionStates],
         unfinished' \in SUBSET Plans, approved' \in SUBSET Plans, cuts' \in 0 .. MaxCuts,
         UNCHANGED <<office, queued>>
  PROVE  IntakeInv'
<1>1. TypeOK
  BY DEF IntakeInv
<1> QED BY <1>1, RestingTyped, IntakeStep DEF TypeOK, End

\* The process of a task is its row; a change of its pc keeps plan and row.
LEMMA TaskIs ==
  ASSUME IntakeInv, NEW x \in Procs
  PROVE  /\ task[x] = [pc |-> task[x].pc, plan |-> task[x].plan, row |-> task[x].row]
         /\ task[x].pc \in PCs /\ task[x].row \in Row
         /\ \A pc : [task EXCEPT ![x].pc = pc] =
                      [task EXCEPT ![x] = [pc |-> pc, plan |-> task[x].plan, row |-> task[x].row]]
<1>1. task \in [Procs -> Task] /\ task[x] \in Task
  BY DEF IntakeInv, TypeOK
<1> QED BY <1>1 DEF Task

\* The steps of a POST keep the invariant.
LEMMA PostIntake ==
  ASSUME IntakeInv, NEW x \in Procs, Post(x)
  PROVE  IntakeInv'
<1>0. TypeOK /\ TaskOK(x) /\ Idle.pc = "idle"
  BY RestingTyped DEF IntakeInv
<1>1. ASSUME NEW p \in Plans, NEW key \in Offices \cup {NoOffice}, PostRead(x, p, key)
      PROVE  IntakeInv'
  <2> DEFINE r == [(IF plan[p] = Absent THEN NewRow ELSE plan[p]) EXCEPT !.key = key]
  <2>1. (IF plan[p] = Absent THEN NewRow ELSE plan[p]) \in Row
    BY <1>0, RestingTyped DEF TypeOK
  <2>2. r \in Row
    BY <2>1 DEF Row
  <2>3. task' = [task EXCEPT ![x] = [pc |-> "store", plan |-> p, row |-> r]]
    BY <1>1 DEF PostRead
  <2>4. x \notin Workers /\ "store" \in PCs \ {"idle"}
    BY <1>1, IntakeAssumption DEF PostRead, PCs, Posting
  <2>5. UNCHANGED <<plan, office, queued, announced, unfinished, approved, cuts>>
    BY <1>1 DEF PostRead
  <2>6. queued' \in SUBSET Plans
    BY <1>0, <2>5 DEF TypeOK
  <2> HIDE DEF r
  <2> QED BY <2>2, <2>3, <2>4, <2>5, <2>6, IntakeBegins
<1>2. CASE PostSave(x)
  <2>1. task[x] # Idle /\ task[x].pc # "job" /\ task[x].plan \in Plans
    BY <1>0, <1>2 DEF PostSave, TaskOK
  <2>2. task' = [task EXCEPT ![x] = [pc |-> "again", plan |-> task[x].plan, row |-> task[x].row]]
    BY <1>2, TaskIs DEF PostSave, Goto
  <2>3. /\ Save(task[x].plan, task[x].row) /\ UNCHANGED <<office, queued, approved, cuts>>
        /\ unfinished' \in SUBSET Plans
    BY <1>0, <1>2, <2>1 DEF PostSave, TypeOK
  <2>4. /\ "again" \in PCs \ {"idle", "job"}
        /\ office' \in [Offices -> {"none", "plain", "supervised"}]
    BY <1>0, <2>3 DEF TypeOK, PCs, Posting
  <2> QED BY <2>1, <2>2, <2>3, <2>4, TaskIs, SaveTyped, IntakeGoesOn
<1>3. CASE PostSaveAgain(x)
  <2>1. task[x] # Idle /\ task[x].pc # "job" /\ task[x].plan \in Plans
    BY <1>0, <1>3 DEF PostSaveAgain, TaskOK
  <2>2. Save(task[x].plan, task[x].row) /\ UNCHANGED <<office, queued, approved, cuts>>
    BY <1>3 DEF PostSaveAgain
  <2>3. CASE End(x) /\ Finish(task[x].plan)
    <3>1. unfinished' \in SUBSET Plans /\ approved' \in SUBSET Plans /\ cuts' \in 0 .. MaxCuts
      BY <1>0, <2>2, <2>3 DEF Finish, TypeOK
    <3> QED BY <2>1, <2>2, <2>3, <3>1, SaveTyped, IntakeEnds
  <2>4. CASE Goto(x, "office") /\ UNCHANGED unfinished
    <3>1. task' = [task EXCEPT ![x] = [pc |-> "office", plan |-> task[x].plan, row |-> task[x].row]]
      BY <2>4, TaskIs DEF Goto
    <3>2. /\ "office" \in PCs \ {"idle", "job"} /\ unfinished' \in SUBSET Plans
          /\ office' \in [Offices -> {"none", "plain", "supervised"}]
      BY <1>0, <2>2, <2>4 DEF TypeOK, PCs, Posting
    <3> QED BY <2>1, <2>2, <3>1, <3>2, TaskIs, SaveTyped, IntakeGoesOn
  <2> QED BY <1>3, <2>3, <2>4 DEF PostSaveAgain
<1>4. CASE PostOffice(x)
  <2> DEFINE r == [task[x].row EXCEPT !.office = task[x].row.key,
                                      !.active = @ /\ office[task[x].row.key] # "supervised"]
  <2>1. task[x] # Idle /\ task[x].pc # "job"
    BY <1>0, <1>4 DEF PostOffice
  <2>2. r \in Row
    BY TaskIs DEF Row
  <2>3. task' = [task EXCEPT ![x] = [pc |-> "country", plan |-> task[x].plan, row |-> r]]
    <3>1. task \in [Procs -> Task] /\ task[x] \in Task
      BY <1>0 DEF TypeOK
    <3> QED BY <1>4, <3>1 DEF PostOffice, Task, Row
  <2>4. office' \in [Offices -> {"none", "plain", "supervised"}]
    BY <1>0, <1>4 DEF PostOffice, TypeOK
  <2>5. UNCHANGED <<plan, queued, announced, unfinished, approved, cuts>>
    BY <1>4 DEF PostOffice
  <2>6. /\ "country" \in PCs \ {"idle", "job"} /\ unfinished' \in SUBSET Plans
        /\ plan' \in [Plans -> Row \cup {Absent}]
        /\ announced' \in [Plans -> SUBSET InstructionStates]
    BY <1>0, <2>5 DEF TypeOK, PCs, Posting
  <2> HIDE DEF r
  <2> QED BY <2>1, <2>2, <2>3, <2>4, <2>5, <2>6, IntakeGoesOn
<1>5. CASE PostCountry(x)
  <2>1. task[x] # Idle /\ task[x].pc # "job"
    BY <1>0, <1>5 DEF PostCountry
  <2>2. UNCHANGED <<plan, office, queued, announced, unfinished, approved, cuts>>
    BY <1>5 DEF PostCountry
  <2>3. /\ "put" \in PCs \ {"idle", "job"} /\ unfinished' \in SUBSET Plans
        /\ plan' \in [Plans -> Row \cup {Absent}]
        /\ announced' \in [Plans -> SUBSET InstructionStates]
        /\ office' \in [Offices -> {"none", "plain", "supervised"}]
        /\ approved' \in SUBSET Plans /\ cuts' \in 0 .. MaxCuts
    BY <1>0, <2>2 DEF TypeOK, PCs, Posting
  <2>4. CASE Goto(x, "put")
    <3>1. task' = [task EXCEPT ![x] = [pc |-> "put", plan |-> task[x].plan, row |-> task[x].row]]
      BY <2>4, TaskIs DEF Goto
    <3> QED BY <2>1, <2>2, <2>3, <3>1, TaskIs, IntakeGoesOn
  <2>5. CASE End(x)
    BY <2>2, <2>3, <2>5, IntakeEnds
  <2> QED BY <1>5, <2>4, <2>5 DEF PostCountry
<1>6. CASE PostPut(x)
  <2>1. task[x] # Idle
    BY <1>0, <1>6 DEF PostPut
  <2>2. Save(task[x].plan, task[x].row) /\ End(x) /\ UNCHANGED <<office, queued, cuts>>
    BY <1>6 DEF PostPut
  <2>3. unfinished' \in SUBSET Plans /\ approved' \in SUBSET Plans /\ cuts' \in 0 .. MaxCuts
    BY <1>0, <1>6 DEF PostPut, Finish, TypeOK
  <2> QED BY <2>1, <2>2, <2>3, SaveTyped, IntakeEnds
<1> QED BY <1>1, <1>2, <1>3, <1>4, <1>5, <1>6 DEF Post

\* The steps of the other requests keep the invariant.
LEMMA ChangeIntake ==
  ASSUME IntakeInv, NEW x \in Procs, Change(x)
  PROVE  IntakeInv'
<1>0. TypeOK /\ TaskOK(x) /\ Idle.pc = "idle"
  BY RestingTyped DEF IntakeInv
<1>1. ASSUME NEW p \in Plans, NEW verb \in Verbs, ChangeRead(x, p, verb) PROVE IntakeInv'
  <2> DEFINE r == [plan[p] EXCEPT !.status = InstructionFlow[verb].to]
  <2>1. InstructionFlow[verb].to \in InstructionStates
    BY FlowTyped
  <2>2. r \in Row
    BY <1>0, <2>1, RowWithStatus DEF TypeOK
  <2>3. Begin(x, "change", p, r)
    BY <1>1 DEF ChangeRead
  <2>4. x \notin Workers /\ "change" \in PCs \ {"idle"}
    BY <1>1, IntakeAssumption DEF ChangeRead, PCs
  <2>5. UNCHANGED <<plan, office, queued, announced, unfinished, approved, cuts>>
    BY <1>1 DEF ChangeRead
  <2>6. queued' \in SUBSET Plans
    BY <1>0, <2>5 DEF TypeOK
  <2> HIDE DEF r
  <2>7. task' = [task EXCEPT ![x] = [pc |-> "change", plan |-> p, row |-> r]]
    BY <2>2, <2>3, <2>4, BeginIs
  <2>8. x \notin Workers /\ "change" # "job"
    BY <2>4
  <2> QED BY <2>2, <2>4, <2>5, <2>6, <2>7, <2>8, IntakeBegins
<1>2. ASSUME NEW p \in Plans, NEW active \in BOOLEAN, EditRead(x, p, active) PROVE IntakeInv'
  <2> DEFINE r == [plan[p] EXCEPT !.active = active]
  <2>1. plan[p] \in Row
    BY <1>0, <1>2 DEF EditRead, TypeOK
  <2>2. r \in Row
    BY <2>1 DEF Row
  <2>3. Begin(x, "edit", p, r)
    BY <1>2 DEF EditRead
  <2>4. x \notin Workers /\ "edit" \in PCs \ {"idle"}
    BY <1>2, IntakeAssumption DEF EditRead, PCs
  <2>5. UNCHANGED <<plan, office, queued, announced, unfinished, approved, cuts>>
    BY <1>2 DEF EditRead
  <2>6. queued' \in SUBSET Plans
    BY <1>0, <2>5 DEF TypeOK
  <2> HIDE DEF r
  <2>7. task' = [task EXCEPT ![x] = [pc |-> "edit", plan |-> p, row |-> r]]
    BY <2>2, <2>3, <2>4, BeginIs
  <2>8. x \notin Workers /\ "edit" # "job"
    BY <2>4
  <2> QED BY <2>2, <2>4, <2>5, <2>6, <2>7, <2>8, IntakeBegins
<1>3. CASE ChangeSave(x)
  <2>1. task[x] # Idle /\ task[x].pc # "job" /\ task[x].plan \in Plans
    BY <1>0, <1>3 DEF ChangeSave, TaskOK
  <2>2. /\ Save(task[x].plan, task[x].row)
        /\ UNCHANGED <<office, queued, unfinished, approved, cuts>>
    BY <1>3 DEF ChangeSave
  <2>3. /\ unfinished' \in SUBSET Plans /\ approved' \in SUBSET Plans /\ cuts' \in 0 .. MaxCuts
        /\ office' \in [Offices -> {"none", "plain", "supervised"}]
        /\ "change again" \in PCs \ {"idle", "job"}
    BY <1>0, <2>2 DEF TypeOK, PCs
  <2>4. CASE End(x)
    BY <2>1, <2>2, <2>3, <2>4, SaveTyped, IntakeEnds
  <2>5. CASE Goto(x, "change again")
    <3>1. task' = [task EXCEPT ![x] = [pc |-> "change again", plan |-> task[x].plan,
                                       row |-> task[x].row]]
      BY <2>5, TaskIs DEF Goto
    <3> QED BY <2>1, <2>2, <2>3, <3>1, TaskIs, SaveTyped, IntakeGoesOn
  <2> QED BY <1>3, <2>4, <2>5 DEF ChangeSave
<1>4. CASE EditSave(x)
  <2>1. task[x] # Idle /\ task[x].plan \in Plans
    BY <1>0, <1>4 DEF EditSave, TaskOK
  <2>2. Save(task[x].plan, task[x].row) /\ End(x) /\ UNCHANGED <<office, queued, unfinished, cuts>>
    BY <1>4 DEF EditSave
  <2>3. unfinished' \in SUBSET Plans /\ approved' \in SUBSET Plans /\ cuts' \in 0 .. MaxCuts
    BY <1>0, <1>4, <2>1 DEF EditSave, TypeOK
  <2> QED BY <2>1, <2>2, <2>3, SaveTyped, IntakeEnds
<1> QED BY <1>1, <1>2, <1>3, <1>4 DEF Change

\* The steps of a job and of the periodic task keep the invariant.
LEMMA JobIntake ==
  ASSUME IntakeInv, NEW x \in Procs, Job(x)
  PROVE  IntakeInv'
<1>0. TypeOK /\ TaskOK(x) /\ Idle.pc = "idle"
  BY RestingTyped DEF IntakeInv
<1>1. ASSUME NEW p \in Plans, JobRead(x, p) PROVE IntakeInv'
  <2> DEFINE r == [plan[p] EXCEPT !.status = "PROCESSED"]
  <2>1. r \in Row /\ r.status = "PROCESSED"
    BY <1>0, RowWithStatus DEF TypeOK, InstructionStates
  <2>2. Begin(x, "job", p, r)
    BY <1>1 DEF JobRead
  <2>3. x \in Workers /\ "job" \in PCs \ {"idle"}
    BY <1>1 DEF JobRead, PCs
  <2>4. UNCHANGED <<plan, office, announced, unfinished, approved, cuts>>
    BY <1>1 DEF JobRead
  <2>5. queued' \in SUBSET Plans
    BY <1>0, <1>1 DEF TypeOK, JobRead
  <2> HIDE DEF r
  <2> QED BY <2>1, <2>2, <2>3, <2>4, <2>5, BeginIs, IntakeBegins
<1>2. CASE JobEnd(x)
  <2>1. task[x] # Idle
    BY <1>0, <1>2 DEF JobEnd
  <2>2. End(x) /\ UNCHANGED <<office, queued, unfinished, approved, cuts>>
    BY <1>2 DEF JobEnd
  <2>3. unfinished' \in SUBSET Plans /\ approved' \in SUBSET Plans /\ cuts' \in 0 .. MaxCuts
    BY <1>0, <2>2 DEF TypeOK
  <2>4. /\ plan' \in [Plans -> Row \cup {Absent}]
        /\ announced' \in [Plans -> SUBSET InstructionStates]
    BY <1>0, <1>2, <2>1, SaveTyped DEF JobEnd, TypeOK
  <2> QED BY <2>2, <2>3, <2>4, IntakeEnds
<1> QED BY <1>1, <1>2 DEF Job

\* A request cut short keeps the invariant.
LEMMA CutIntake ==
  ASSUME IntakeInv, NEW x \in Procs, CutShort(x)
  PROVE  IntakeInv'
<1>0. TypeOK /\ TaskOK(x)
  BY DEF IntakeInv
<1>1. task[x].row.status \in InstructionStates
  BY TaskIs DEF Row
<1>2. announced' \in [Plans -> SUBSET InstructionStates]
  BY <1>0, <1>1 DEF CutShort, Announce, TypeOK
<1>3. End(x) /\ UNCHANGED <<plan, office, queued, unfinished, approved>>
  BY DEF CutShort
<1>4. cuts' \in 0 .. MaxCuts
  BY <1>0, IntakeAssumption DEF CutShort, TypeOK
<1>5. /\ plan' \in [Plans -> Row \cup {Absent}]
      /\ unfinished' \in SUBSET Plans /\ approved' \in SUBSET Plans
  BY <1>0, <1>3 DEF TypeOK
<1> QED BY <1>2, <1>3, <1>4, <1>5, IntakeEnds

\* Every step keeps the invariant.
LEMMA NextIntake == IntakeInv /\ [Next]_vars => IntakeInv'
<1> SUFFICES ASSUME IntakeInv, [Next]_vars PROVE IntakeInv'
  OBVIOUS
<1>1. ASSUME NEW o \in Offices, OfficeForm(o) PROVE IntakeInv'
  <2>1. TypeOK'
    BY <1>1 DEF IntakeInv, TypeOK, OfficeForm
  <2>2. ASSUME NEW x \in Procs PROVE TaskOK(x)'
    BY <1>1 DEF IntakeInv, TaskOK, OfficeForm
  <2> QED BY <2>1, <2>2 DEF IntakeInv
<1>2. ASSUME NEW p \in Plans, Queue(p) PROVE IntakeInv'
  <2>1. TypeOK'
    BY <1>2 DEF IntakeInv, TypeOK, Queue
  <2>2. ASSUME NEW x \in Procs PROVE TaskOK(x)'
    BY <1>2 DEF IntakeInv, TaskOK, Queue
  <2> QED BY <2>1, <2>2 DEF IntakeInv
<1>3. CASE UNCHANGED vars
  <2>1. TypeOK'
    BY <1>3 DEF IntakeInv, TypeOK, vars
  <2>2. ASSUME NEW x \in Procs PROVE TaskOK(x)'
    BY <1>3 DEF IntakeInv, TaskOK, vars
  <2> QED BY <2>1, <2>2 DEF IntakeInv
<1> QED BY <1>1, <1>2, <1>3, PostIntake, ChangeIntake, JobIntake, CutIntake DEF Next

\* The invariant holds in every reachable state.
LEMMA IntakeAlways == Spec => []IntakeInv
  BY InitIntake, NextIntake, PTL DEF Spec

\* Plans, offices, requests and jobs are well typed in every reachable state.
THEOREM IntakeTypeCorrect == Spec => []TypeOK
<1>1. IntakeInv => TypeOK
  BY DEF IntakeInv
<1> QED BY <1>1, IntakeAlways, PTL

-----------------------------------------------------------------------------
(* Statuses are announced, in order.                                       *)

\* The initial state satisfies the invariant.
LEMMA InitOrder == Init => OrderInv
<1> SUFFICES ASSUME Init PROVE OrderInv
  OBVIOUS
<1>1. ASSUME NEW p \in Plans PROVE AnnouncedOK(p)
  BY RestingTyped DEF Init, AnnouncedOK
<1>2. ASSUME NEW x \in Procs PROVE CopyOK(x)
  BY DEF Init, CopyOK
<1> QED BY <1>1, <1>2 DEF Init, OrderInv

\* The copy of a plan as it is in the table has passed what it had to, and so has
\* the copy a transition makes of it.
LEMMA RowPassed ==
  ASSUME OrderInv, NEW p \in Plans
  PROVE  Passed(p, plan[p].status)
<1>1. AnnouncedOK(p)
  BY DEF OrderInv
<1>2. CASE plan[p].status \in announced[p]
  BY <1>1, <1>2 DEF AnnouncedOK
<1>3. CASE plan[p].status \in {"ABSENT", "DRAFT"}
  BY <1>3 DEF Passed
<1> QED BY <1>1, <1>2, <1>3 DEF AnnouncedOK

LEMMA TransitionPassed ==
  ASSUME OrderInv, NEW p \in Plans, NEW verb \in Verbs,
         plan[p].status \in InstructionFlow[verb].from
  PROVE  /\ Passed(p, InstructionFlow[verb].to)
         /\ plan[p].status # "ABSENT" /\ InstructionFlow[verb].to \in InstructionStates
<1>1. verb \in {"open", "close", "ready", "process", "finalize", "abort"}
  BY IntakeAssumption DEF InstructionFlow
<1>2. AnnouncedOK(p) /\ Passed(p, plan[p].status)
  BY RowPassed DEF OrderInv
<1>3. CASE verb = "close"
  BY <1>2, <1>3 DEF InstructionFlow, AnnouncedOK, Passed, InstructionStates
<1>4. CASE verb = "ready"
  BY <1>2, <1>4 DEF InstructionFlow, AnnouncedOK, Passed, InstructionStates
<1>5. CASE verb \in {"open", "process", "finalize", "abort"}
  BY <1>5 DEF InstructionFlow, Passed, InstructionStates
<1> QED BY <1>1, <1>3, <1>4, <1>5

\* A step that changes neither plans nor events keeps the order if the process it
\* is taken by ends up with a copy in order.
LEMMA OrderCopies ==
  ASSUME IntakeInv, OrderInv, NEW x \in Procs,
         \A y \in Procs : y # x => task'[y] = task[y],
         UNCHANGED <<plan, announced>>, queued' \subseteq queued,
         CopyOK(x)'
  PROVE  OrderInv'
<1>1. ASSUME NEW p \in Plans PROVE AnnouncedOK(p)'
  BY DEF OrderInv, AnnouncedOK, Passed
<1>2. \A p \in queued' : "READY" \in announced'[p]
  BY DEF OrderInv
<1>3. ASSUME NEW y \in Procs PROVE CopyOK(y)'
  <2>1. CASE y # x
    BY <2>1 DEF OrderInv, CopyOK, Passed
  <2> QED BY <2>1
<1> QED BY <1>1, <1>2, <1>3 DEF OrderInv

\* What is announced is never taken back.
LEMMA AnnouncedGrows ==
  ASSUME IntakeInv, OrderInv, NEW x \in Procs, task[x] # Idle,
         Announce(task[x].plan, task[x].row.status)
  PROVE  /\ \A p \in Plans : announced[p] \subseteq announced'[p]
         /\ \A p \in Plans : p # task[x].plan => announced'[p] = announced[p]
         /\ announced'[task[x].plan] =
              IF plan[task[x].plan].status \in {task[x].row.status, "ABSENT"}
              THEN announced[task[x].plan]
              ELSE announced[task[x].plan] \cup {task[x].row.status}
         /\ \A p \in Plans : \A s : Passed(p, s) => Passed(p, s)'
         /\ \A p \in Plans : \A s \in announced'[p] : Passed(p, s)'
<1>1. task[x].plan \in Plans /\ announced \in [Plans -> SUBSET InstructionStates]
  BY DEF IntakeInv, TypeOK, TaskOK
<1>2. announced'[task[x].plan] =
        IF plan[task[x].plan].status \in {task[x].row.status, "ABSENT"}
        THEN announced[task[x].plan]
        ELSE announced[task[x].plan] \cup {task[x].row.status}
  BY <1>1 DEF Announce
<1>3. \A p \in Plans : p # task[x].plan => announced'[p] = announced[p]
  BY <1>1 DEF Announce
<1>4. \A p \in Plans : announced[p] \subseteq announced'[p]
  BY <1>2, <1>3
<1>5. ASSUME NEW p \in Plans, NEW s, Passed(p, s) PROVE Passed(p, s)'
  BY <1>4, <1>5 DEF Passed
<1>6. ASSUME NEW p \in Plans, NEW s \in announced'[p] PROVE Passed(p, s)'
  <2>1. s \in announced[p] \/ (p = task[x].plan /\ s = task[x].row.status)
    BY <1>2, <1>3
  <2>2. Passed(p, s)
    BY <2>1 DEF OrderInv, AnnouncedOK, CopyOK
  <2> QED BY <1>5, <2>2
<1> QED BY <1>2, <1>3, <1>4, <1>5, <1>6

\* A save keeps the order: the status saved was announced, now or before.
LEMMA OrderSave ==
  ASSUME IntakeInv, OrderInv, NEW x \in Procs, task[x] # Idle,
         Save(task[x].plan, task[x].row), UNCHANGED queued,
         \A y \in Procs : y # x => task'[y] = task[y],
         \/ task'[x] = Idle
         \/ task'[x].plan = task[x].plan /\ task'[x].row = task[x].row
  PROVE  OrderInv'
<1> DEFINE q == task[x].plan
<1> DEFINE st == task[x].row.status
<1>1. /\ q \in Plans /\ st \in InstructionStates /\ st # "ABSENT"
      /\ plan \in [Plans -> Row \cup {Absent}] /\ queued \subseteq Plans
  BY TaskIs DEF IntakeInv, TypeOK, TaskOK, Row, InstructionStates
<1>2. Announce(q, st) /\ plan' = [plan EXCEPT ![q] = task[x].row]
  BY DEF Save
<1>3. /\ \A p \in Plans : announced[p] \subseteq announced'[p]
      /\ \A p \in Plans : p # q => announced'[p] = announced[p]
      /\ announced'[q] = IF plan[q].status \in {st, "ABSENT"} THEN announced[q]
                         ELSE announced[q] \cup {st}
      /\ \A p \in Plans : \A s : Passed(p, s) => Passed(p, s)'
      /\ \A p \in Plans : \A s \in announced'[p] : Passed(p, s)'
  BY <1>2, AnnouncedGrows
<1>4. CopyOK(x) /\ AnnouncedOK(q)
  BY <1>1 DEF OrderInv
<1>5. plan'[q].status = st /\ \A p \in Plans : p # q => plan'[p] = plan[p]
  BY <1>1, <1>2
<1>6. st \in {"DRAFT"} \cup announced'[q]
  BY <1>1, <1>3, <1>4 DEF CopyOK, AnnouncedOK
<1> HIDE DEF q, st
<1>7. ASSUME NEW p \in Plans PROVE AnnouncedOK(p)'
  <2>1. CASE p = q
    BY <1>1, <1>3, <1>5, <1>6, <2>1 DEF AnnouncedOK
  <2>2. CASE p # q
    <3>1. AnnouncedOK(p) /\ plan'[p] = plan[p] /\ announced'[p] = announced[p]
      BY <1>3, <1>5, <2>2 DEF OrderInv
    <3>2. \A s \in announced'[p] : Passed(p, s)'
      BY <1>3
    <3> QED BY <3>1, <3>2 DEF AnnouncedOK
  <2> QED BY <2>1, <2>2
<1>8. \A p \in queued' : "READY" \in announced'[p]
  BY <1>1, <1>3 DEF OrderInv
<1>9. ASSUME NEW y \in Procs, task'[y] # Idle PROVE CopyOK(y)'
  <2>1. /\ task[y] # Idle /\ task'[y].plan = task[y].plan /\ task'[y].row = task[y].row
        /\ task[y].plan \in Plans /\ CopyOK(y)
    BY <1>9 DEF OrderInv, IntakeInv, TaskOK
  <2>2. Passed(task[y].plan, task[y].row.status)'
    BY <1>3, <2>1 DEF CopyOK, Passed
  <2>3. plan'[task[y].plan].status = "ABSENT" => task[y].row.status = "DRAFT"
    BY <1>1, <1>5, <2>1 DEF CopyOK
  <2> QED BY <2>1, <2>2, <2>3 DEF CopyOK, Passed
<1>10. \A y \in Procs : CopyOK(y)'
  BY <1>9 DEF CopyOK
<1> QED BY <1>7, <1>8, <1>10 DEF OrderInv

\* A process that goes on or ends with nothing saved keeps the order.
LEMMA OrderGoesOn ==
  ASSUME IntakeInv, OrderInv, NEW x \in Procs, task[x] # Idle,
         \A y \in Procs : y # x => task'[y] = task[y],
         \/ task'[x] = Idle
         \/ /\ task'[x].plan = task[x].plan
            /\ task'[x].row.status = task[x].row.status,
         UNCHANGED <<plan, announced, queued>>
  PROVE  OrderInv'
<1>1. CopyOK(x)'
  BY DEF OrderInv, CopyOK, Passed
<1> QED BY <1>1, OrderCopies

\* A process that takes up a plan with a copy in order keeps the order.
LEMMA OrderBegins ==
  ASSUME IntakeInv, OrderInv, NEW x \in Procs, NEW pc, NEW p \in Plans, NEW r \in Row,
         task' = [task EXCEPT ![x] = [pc |-> pc, plan |-> p, row |-> r]],
         UNCHANGED <<plan, announced>>, queued' \subseteq queued,
         Passed(p, r.status), plan[p].status = "ABSENT" => r.status = "DRAFT"
  PROVE  OrderInv'
<1>1. task \in [Procs -> Task]
  BY DEF IntakeInv, TypeOK
<1>2. task'[x].plan = p /\ task'[x].row = r /\ \A y \in Procs : y # x => task'[y] = task[y]
  BY <1>1
<1>3. CopyOK(x)'
  BY <1>2 DEF CopyOK, Passed
<1> QED BY <1>2, <1>3, OrderCopies

\* The steps of a POST keep the order.
LEMMA PostOrder ==
  ASSUME IntakeInv, OrderInv, NEW x \in Procs, Post(x)
  PROVE  OrderInv'
<1>0. task \in [Procs -> Task] /\ task[x] \in Task /\ Idle.pc = "idle"
  BY RestingTyped DEF IntakeInv, TypeOK
<1>1. ASSUME NEW p \in Plans, NEW key \in Offices \cup {NoOffice}, PostRead(x, p, key)
      PROVE  OrderInv'
  <2> DEFINE old == IF plan[p] = Absent THEN NewRow ELSE plan[p]
  <2> DEFINE r == [old EXCEPT !.key = key]
  <2>1. old \in Row /\ (plan[p] = Absent => old.status = "DRAFT")
    BY RestingTyped DEF IntakeInv, TypeOK, NewRow
  <2>2. Passed(p, old.status)
    BY <2>1, RowPassed DEF Passed
  <2>3. plan[p].status = "ABSENT" => plan[p] = Absent
    BY RestingTyped DEF IntakeInv, TypeOK
  <2>4. r \in Row /\ r.status = old.status
    <3> HIDE DEF old
    <3> QED BY <2>1 DEF Row
  <2>5. task' = [task EXCEPT ![x] = [pc |-> "store", plan |-> p, row |-> r]]
    BY <1>1 DEF PostRead
  <2>6. UNCHANGED <<plan, announced, queued>>
    BY <1>1 DEF PostRead
  <2> HIDE DEF old, r
  <2> QED BY <2>1, <2>2, <2>3, <2>4, <2>5, <2>6, OrderBegins
<1>2. CASE PostSave(x) \/ PostSaveAgain(x) \/ PostPut(x)
  <2>1. task[x] # Idle /\ Save(task[x].plan, task[x].row) /\ UNCHANGED queued
    BY <1>0, <1>2 DEF PostSave, PostSaveAgain, PostPut
  <2>2. (\E pc : Goto(x, pc)) \/ End(x)
    BY <1>2 DEF PostSave, PostSaveAgain, PostPut
  <2>3. /\ \A y \in Procs : y # x => task'[y] = task[y]
        /\ \/ task'[x] = Idle
           \/ task'[x].plan = task[x].plan /\ task'[x].row = task[x].row
    BY <1>0, <2>2 DEF Goto, End, Task
  <2> QED BY <2>1, <2>3, OrderSave
<1>3. CASE PostOffice(x) \/ PostCountry(x)
  <2>1. task[x] # Idle /\ UNCHANGED <<plan, announced, queued>>
    BY <1>0, <1>3 DEF PostOffice, PostCountry
  <2>2. /\ \A y \in Procs : y # x => task'[y] = task[y]
        /\ \/ task'[x] = Idle
           \/ /\ task'[x].plan = task[x].plan
              /\ task'[x].row.status = task[x].row.status
    BY <1>0, <1>3 DEF PostOffice, PostCountry, Goto, End, Task, Row
  <2> QED BY <2>1, <2>2, OrderGoesOn
<1> QED BY <1>1, <1>2, <1>3 DEF Post

\* The steps of the other requests keep the order.
LEMMA ChangeOrder ==
  ASSUME IntakeInv, OrderInv, NEW x \in Procs, Change(x)
  PROVE  OrderInv'
<1>0. task \in [Procs -> Task] /\ task[x] \in Task /\ Idle.pc = "idle"
  BY RestingTyped DEF IntakeInv, TypeOK
<1>1. ASSUME NEW p \in Plans, NEW verb \in Verbs, ChangeRead(x, p, verb) PROVE OrderInv'
  <2> DEFINE r == [plan[p] EXCEPT !.status = InstructionFlow[verb].to]
  <2>1. /\ Passed(p, InstructionFlow[verb].to) /\ plan[p].status # "ABSENT"
        /\ InstructionFlow[verb].to \in InstructionStates
    BY <1>1, TransitionPassed DEF ChangeRead
  <2>2. r \in Row /\ r.status = InstructionFlow[verb].to
    BY <2>1, RowWithStatus DEF IntakeInv, TypeOK
  <2>3. Begin(x, "change", p, r) /\ UNCHANGED <<plan, announced, queued>>
    BY <1>1 DEF ChangeRead
  <2> HIDE DEF r
  <2>4. task' = [task EXCEPT ![x] = [pc |-> "change", plan |-> p, row |-> r]]
    BY <2>2, <2>3, BeginIs DEF PCs
  <2> QED BY <2>1, <2>2, <2>3, <2>4, OrderBegins
<1>2. ASSUME NEW p \in Plans, NEW active \in BOOLEAN, EditRead(x, p, active) PROVE OrderInv'
  <2> DEFINE r == [plan[p] EXCEPT !.active = active]
  <2>1. plan[p] \in Row /\ plan[p].status # "ABSENT"
    BY <1>2, RestingTyped DEF EditRead, IntakeInv, TypeOK
  <2>2. r \in Row /\ r.status = plan[p].status
    BY <2>1 DEF Row
  <2>3. Begin(x, "edit", p, r) /\ UNCHANGED <<plan, announced, queued>>
    BY <1>2 DEF EditRead
  <2>4. Passed(p, r.status)
    BY <2>2, RowPassed
  <2> HIDE DEF r
  <2>5. task' = [task EXCEPT ![x] = [pc |-> "edit", plan |-> p, row |-> r]]
    BY <2>2, <2>3, BeginIs DEF PCs
  <2> QED BY <2>1, <2>2, <2>3, <2>4, <2>5, OrderBegins
<1>3. CASE ChangeSave(x) \/ EditSave(x)
  <2>1. task[x] # Idle /\ Save(task[x].plan, task[x].row) /\ UNCHANGED queued
    BY <1>0, <1>3 DEF ChangeSave, EditSave
  <2>2. (\E pc : Goto(x, pc)) \/ End(x)
    BY <1>3 DEF ChangeSave, EditSave
  <2>3. /\ \A y \in Procs : y # x => task'[y] = task[y]
        /\ \/ task'[x] = Idle
           \/ task'[x].plan = task[x].plan /\ task'[x].row = task[x].row
    BY <1>0, <2>2 DEF Goto, End, Task
  <2> QED BY <2>1, <2>3, OrderSave
<1> QED BY <1>1, <1>2, <1>3 DEF Change

\* The steps of a job keep the order.
LEMMA JobOrder ==
  ASSUME IntakeInv, OrderInv, NEW x \in Procs, Job(x)
  PROVE  OrderInv'
<1>0. task \in [Procs -> Task] /\ task[x] \in Task /\ Idle.pc = "idle"
  BY RestingTyped DEF IntakeInv, TypeOK
<1>1. ASSUME NEW p \in Plans, JobRead(x, p) PROVE OrderInv'
  <2> DEFINE r == [plan[p] EXCEPT !.status = "PROCESSED"]
  <2>1. r \in Row /\ r.status = "PROCESSED"
    BY RowWithStatus DEF IntakeInv, TypeOK, InstructionStates
  <2>2. Begin(x, "job", p, r) /\ UNCHANGED <<plan, announced>> /\ queued' \subseteq queued
    BY <1>1 DEF JobRead
  <2>3. Passed(p, "PROCESSED")
    BY DEF Passed
  <2>4. plan[p].status # "ABSENT"
    BY <1>1 DEF JobRead, OrderInv, AnnouncedOK
  <2> HIDE DEF r
  <2>5. task' = [task EXCEPT ![x] = [pc |-> "job", plan |-> p, row |-> r]]
    <3>1. "job" \in PCs /\ r \in Row /\ Begin(x, "job", p, r)
      BY <2>1, <2>2 DEF PCs
    <3> QED BY <3>1, BeginIs
  <2>6. r \in Row /\ Passed(p, r.status)
    BY <2>1, <2>3
  <2> QED BY <2>2, <2>4, <2>5, <2>6, OrderBegins
<1>2. CASE JobEnd(x)
  <2>1. /\ task[x] # Idle /\ UNCHANGED queued /\ task'[x] = Idle
        /\ \A y \in Procs : y # x => task'[y] = task[y]
    BY <1>0, <1>2 DEF JobEnd, End
  <2>2. CASE Save(task[x].plan, task[x].row)
    BY <2>1, <2>2, OrderSave
  <2>3. CASE UNCHANGED <<plan, announced>>
    BY <2>1, <2>3, OrderGoesOn
  <2> QED BY <1>2, <2>2, <2>3 DEF JobEnd
<1> QED BY <1>1, <1>2 DEF Job

\* A request cut short keeps the order: what it announced was in order.
LEMMA CutOrder ==
  ASSUME IntakeInv, OrderInv, NEW x \in Procs, CutShort(x)
  PROVE  OrderInv'
<1>0. /\ task \in [Procs -> Task] /\ task[x] # Idle /\ task'[x] = Idle
      /\ \A y \in Procs : y # x => task'[y] = task[y]
      /\ UNCHANGED <<plan, queued>> /\ queued \subseteq Plans
  BY DEF CutShort, End, IntakeInv, TypeOK
<1>1. CASE UNCHANGED announced
  BY <1>0, <1>1, OrderGoesOn
<1>2. CASE Announce(task[x].plan, task[x].row.status)
  <2>1. /\ \A p \in Plans : announced[p] \subseteq announced'[p]
        /\ \A p \in Plans : p # task[x].plan => announced'[p] = announced[p]
        /\ announced'[task[x].plan] =
             IF plan[task[x].plan].status \in {task[x].row.status, "ABSENT"}
             THEN announced[task[x].plan]
             ELSE announced[task[x].plan] \cup {task[x].row.status}
        /\ \A p \in Plans : \A s : Passed(p, s) => Passed(p, s)'
        /\ \A p \in Plans : \A s \in announced'[p] : Passed(p, s)'
    BY <1>0, <1>2, AnnouncedGrows
  <2>2. ASSUME NEW p \in Plans PROVE AnnouncedOK(p)'
    <3>1. AnnouncedOK(p) /\ plan'[p] = plan[p] /\ \A s \in announced'[p] : Passed(p, s)'
      BY <1>0, <2>1 DEF OrderInv
    <3>2. plan[p].status = "ABSENT" => announced'[p] = announced[p]
      BY <2>1
    <3> QED BY <2>1, <3>1, <3>2 DEF AnnouncedOK
  <2>3. \A p \in queued' : "READY" \in announced'[p]
    BY <1>0, <2>1 DEF OrderInv
  <2>4. ASSUME NEW y \in Procs PROVE CopyOK(y)'
    <3>1. CASE task'[y] = Idle
      BY <3>1 DEF CopyOK
    <3>2. CASE task'[y] # Idle
      <4>1. task'[y] = task[y] /\ task[y].plan \in Plans /\ CopyOK(y) /\ task[y] # Idle
        BY <1>0, <3>2 DEF IntakeInv, TaskOK, OrderInv
      <4>2. Passed(task[y].plan, task[y].row.status)'
        BY <2>1, <4>1 DEF CopyOK, Passed
      <4> QED BY <1>0, <4>1, <4>2 DEF CopyOK, Passed
    <3> QED BY <3>1, <3>2
  <2> QED BY <2>2, <2>3, <2>4 DEF OrderInv
<1> QED BY <1>1, <1>2 DEF CutShort

\* Every step keeps the order.
LEMMA NextOrder == IntakeInv /\ OrderInv /\ [Next]_vars => OrderInv'
<1> SUFFICES ASSUME IntakeInv, OrderInv, [Next]_vars PROVE OrderInv'
  OBVIOUS
<1>1. ASSUME UNCHANGED <<plan, task, announced>>,
             \A p \in queued' : "READY" \in announced[p]
      PROVE  OrderInv'
  <2>1. ASSUME NEW p \in Plans PROVE AnnouncedOK(p)'
    BY <1>1 DEF OrderInv, AnnouncedOK, Passed
  <2>2. ASSUME NEW x \in Procs PROVE CopyOK(x)'
    BY <1>1 DEF OrderInv, CopyOK, Passed
  <2> QED BY <1>1, <2>1, <2>2 DEF OrderInv
<1>2. ASSUME NEW o \in Offices, OfficeForm(o) PROVE OrderInv'
  BY <1>1, <1>2 DEF OfficeForm, OrderInv
<1>3. ASSUME NEW p \in Plans, Queue(p) PROVE OrderInv'
  <2>1. "READY" \in announced[p]
    BY <1>3 DEF Queue, OrderInv, AnnouncedOK
  <2> QED BY <1>1, <1>3, <2>1 DEF Queue, OrderInv
<1>4. CASE UNCHANGED vars
  BY <1>1, <1>4 DEF vars, OrderInv
<1> QED BY <1>2, <1>3, <1>4, PostOrder, ChangeOrder, JobOrder, CutOrder DEF Next

\* The invariant holds in every reachable state.
LEMMA OrderAlways == Spec => []OrderInv
  BY InitOrder, NextOrder, IntakeAlways, PTL DEF Spec

\* Whatever requests, pages and jobs save over one another, cut short or not, a
\* plan is in no status but its first that was not announced before.
THEOREM EveryStatusAnnounced == Spec => []AnnouncedFirst
<1>1. OrderInv => AnnouncedFirst
  BY DEF OrderInv, AnnouncedOK, AnnouncedFirst
<1> QED BY <1>1, OrderAlways, PTL

\* No plan is released, and none is queued, that was not opened and closed before.
THEOREM NoStatusSkipped == Spec => []ReleasedInOrder
<1>1. IntakeInv /\ OrderInv => ReleasedInOrder
  <2> SUFFICES ASSUME IntakeInv, OrderInv, NEW p \in Plans
               PROVE  /\ "READY" \in announced[p] => {"OPEN", "CLOSED"} \subseteq announced[p]
                      /\ p \in queued => "READY" \in announced[p]
    BY DEF ReleasedInOrder
  <2>1. AnnouncedOK(p)
    BY DEF OrderInv
  <2>2. "READY" \in announced[p] => {"OPEN", "CLOSED"} \subseteq announced[p]
    BY <2>1 DEF AnnouncedOK, Passed
  <2> QED BY <2>2 DEF OrderInv
<1> QED BY <1>1, IntakeAlways, OrderAlways, PTL

-----------------------------------------------------------------------------
(* Plans of supervised offices wait for a person.                          *)

\* The initial state satisfies the invariant.
LEMMA InitHold == Init => HoldInv
<1> SUFFICES ASSUME Init PROVE HoldInv
  OBVIOUS
<1>1. \A x \in Clients : task[x] = Idle
  BY DEF Init, Procs
<1>2. ASSUME NEW p \in Plans PROVE Held(p, plan[p])
  BY RestingTyped DEF Init, Held, Early
<1>3. ASSUME NEW x \in Clients PROVE RequestOK(x)
  BY <1>1, RestingTyped DEF RequestOK, Changing, Stored
<1>4. ASSUME NEW x \in Clients, NEW y \in Clients PROVE PostAlone(x, y)
  BY <1>1, RestingTyped DEF PostAlone, Posting
<1> QED BY <1>2, <1>3, <1>4 DEF HoldInv

\* Only a POST voids what has been said of its plan: a step of a process leaves
\* every other plan and every other request as they are.
LEMMA HoldStep ==
  ASSUME IntakeInv, HoldInv, NEW x \in Procs, NEW q,
         task[x] # Idle => q = task[x].plan,
         \A y \in Procs : y # x => task'[y] = task[y],
         \A o \in Offices : office'[o] = "supervised" <=> office[o] = "supervised",
         \A p \in Plans : p # q \/ task[x].pc \notin Posting
           => (p \in unfinished => p \in unfinished') /\ (p \in approved => p \in approved'),
         \A p \in Plans : p # q => plan'[p] = plan[p],
         q \in Plans => Held(q, plan[q])',
         x \in Clients => RequestOK(x)',
         x \in Clients => \A y \in Clients : PostAlone(x, y)' /\ PostAlone(y, x)'
  PROVE  HoldInv'
<1>1. x \in Workers <=> x \notin Clients
  BY IntakeAssumption DEF Procs
<1>2. task[x].pc \in Posting => x \in Clients /\ task[x] # Idle
  BY <1>1, RestingTyped DEF IntakeInv, TaskOK, Posting
<1>3. ASSUME NEW p \in Plans, NEW r, Held(p, r), ~(task[x].pc \in Posting /\ p = q)
      PROVE  Held(p, r)'
  BY <1>3 DEF Held, Supervised
<1>4. ASSUME NEW p \in Plans PROVE Held(p, plan[p])'
  <2>1. CASE p = q
    BY <2>1
  <2>2. CASE p # q
    <3>1. Held(p, plan[p]) /\ plan'[p] = plan[p]
      BY <2>2 DEF HoldInv
    <3>2. Held(p, plan[p])
      BY <3>1
    <3> QED BY <2>2, <3>1 DEF Held, Supervised
  <2> QED BY <2>1, <2>2
<1>5. ASSUME NEW y \in Clients PROVE RequestOK(y)'
  <2>1. CASE y = x
    BY <2>1
  <2>2. CASE y # x
    <3>1. /\ task'[y] = task[y] /\ RequestOK(y)
          /\ task[x].pc \in Posting => PostAlone(x, y)
      BY <1>2, <2>2 DEF HoldInv, Procs
    <3>2. task[y] # Idle => task[y].plan \in Plans
      BY DEF IntakeInv, TaskOK, Procs
    <3>3. task[y].pc \in Changing \cup Stored => task[y] # Idle
      BY RestingTyped DEF Changing, Stored
    <3>4. /\ task[y].pc \in Changing \cup Stored
          => ~(task[x].pc \in Posting /\ task[y].plan = q)
      BY <1>2, <2>2, <3>1 DEF PostAlone, Posting, Stored
    <3>5. task[y].pc \in Changing => Held(task[y].plan, task[y].row)'
      <4> SUFFICES ASSUME task[y].pc \in Changing PROVE Held(task[y].plan, task[y].row)'
        OBVIOUS
      <4>1. Held(task[y].plan, task[y].row) /\ task[y].plan \in Plans
        BY <3>1, <3>2, <3>3 DEF RequestOK
      <4> QED BY <3>1, <3>4, <4>1 DEF Held, Supervised
    <3>6. task[y].pc \in Stored => task[y].plan \in unfinished'
      BY <3>1, <3>2, <3>3, <3>4 DEF RequestOK
    <3>7. task[y].pc \in {"country", "put"} => ~(task[y].row.active /\ Supervised(task[y].row)')
      BY <3>1 DEF RequestOK, Supervised
    <3> QED BY <3>1, <3>5, <3>6, <3>7 DEF RequestOK, Held, Supervised
  <2> QED BY <2>1, <2>2
<1>6. ASSUME NEW y \in Clients, NEW z \in Clients PROVE PostAlone(y, z)'
  <2>1. CASE y = x \/ z = x
    BY <2>1
  <2>2. CASE y # x /\ z # x
    BY <2>2 DEF HoldInv, PostAlone, Procs
  <2> QED BY <2>1, <2>2
<1> QED BY <1>4, <1>5, <1>6 DEF HoldInv

\* A process that ends is no request, and one that goes on is the request it was.
LEMMA AloneEnds ==
  ASSUME NEW x \in Procs, task'[x] = Idle, NEW y \in Clients
  PROVE  PostAlone(x, y)' /\ PostAlone(y, x)' /\ RequestOK(x)'
  BY RestingTyped DEF PostAlone, RequestOK, Posting, Changing, Stored

LEMMA AloneGoesOn ==
  ASSUME IntakeInv, HoldInv, NEW x \in Clients, NEW y \in Clients,
         \A z \in Procs : z # x => task'[z] = task[z],
         task'[x].plan = task[x].plan,
         task'[x].pc \in Posting => task[x].pc \in Posting,
         task'[x].pc \in Posting \cup Changing => task[x].pc \in Posting \cup Changing
  PROVE  PostAlone(x, y)' /\ PostAlone(y, x)'
<1>1. PostAlone(x, y) /\ PostAlone(y, x)
  BY DEF HoldInv
<1>2. y # x => task'[y] = task[y]
  BY DEF Procs
<1> QED BY <1>1, <1>2 DEF PostAlone

\* The steps of a POST hold back what is to be held.
LEMMA PostHold ==
  ASSUME IntakeInv, HoldInv, NEW x \in Procs, Post(x)
  PROVE  HoldInv'
<1>0. /\ task \in [Procs -> Task] /\ task[x] \in Task /\ Idle.pc = "idle" /\ TaskOK(x)
      /\ plan \in [Plans -> Row \cup {Absent}]
  BY RestingTyped DEF IntakeInv, TypeOK
<1>q. ASSUME task[x] # Idle PROVE \E q \in Plans : q = task[x].plan
  BY <1>0, <1>q DEF TaskOK
<1>1. ASSUME NEW p \in Plans, NEW key \in Offices \cup {NoOffice}, PostRead(x, p, key)
      PROVE  HoldInv'
  <2>1. /\ task[x] = Idle /\ x \in Clients /\ \A y \in Clients : task[y].plan # p
        /\ UNCHANGED <<plan, office, unfinished, approved>>
    BY <1>1 DEF PostRead, Requests
  <2>2. /\ \A y \in Procs : y # x => task'[y] = task[y]
        /\ task'[x].pc = "store" /\ task'[x].plan = p
    BY <1>0, <1>1 DEF PostRead
  <2>3. RequestOK(x)'
    BY <2>2 DEF RequestOK, Changing, Stored
  <2>4. ASSUME NEW y \in Clients PROVE PostAlone(x, y)' /\ PostAlone(y, x)'
    BY <2>1, <2>2 DEF PostAlone, Procs
  <2>5. Held(p, plan[p])'
    BY <2>1 DEF HoldInv, Held, Supervised
  <2> QED BY <2>1, <2>2, <2>3, <2>4, <2>5, HoldStep
<1>2. CASE PostSave(x)
  <2>0. task[x] # Idle
    BY <1>0, <1>2 DEF PostSave
  <2>q. PICK q \in Plans : q = task[x].plan
    BY <1>q, <2>0
  <2>1. /\ task[x] # Idle /\ task[x].pc = "store" /\ q = task[x].plan /\ x \in Clients
        /\ UNCHANGED <<office, approved>> /\ unfinished' = unfinished \cup {q}
    BY <2>q, <1>0, <1>2 DEF PostSave, TaskOK, Procs
  <2>2. \A p \in Plans : p # q => plan'[p] = plan[p]
    BY <1>0, <1>2, <2>1 DEF PostSave, Save
  <2>3. /\ \A y \in Procs : y # x => task'[y] = task[y]
        /\ task'[x].pc = "again" /\ task'[x].plan = q
    BY <1>0, <1>2, <2>1 DEF PostSave, Goto, Task
  <2>4. RequestOK(x)'
    BY <2>1, <2>3 DEF RequestOK, Changing
  <2>5. ASSUME NEW y \in Clients PROVE PostAlone(x, y)' /\ PostAlone(y, x)'
    BY <2>1, <2>3, AloneGoesOn DEF Posting
  <2>6. Held(q, plan[q])'
    BY <2>1 DEF Held
  <2> QED BY <2>1, <2>2, <2>3, <2>4, <2>5, <2>6, HoldStep
<1>3. CASE PostSaveAgain(x)
  <2>0. task[x] # Idle
    BY <1>0, <1>3 DEF PostSaveAgain
  <2>q. PICK q \in Plans : q = task[x].plan
    BY <1>q, <2>0
  <2>1. /\ task[x] # Idle /\ task[x].pc = "again" /\ q = task[x].plan /\ x \in Clients
        /\ UNCHANGED <<office, approved>> /\ q \in unfinished
    BY <2>q, <1>0, <1>3 DEF PostSaveAgain, TaskOK, Procs, HoldInv, RequestOK, Stored
  <2>2. plan'[q] = task[x].row /\ \A p \in Plans : p # q => plan'[p] = plan[p]
    BY <1>0, <1>3, <2>1 DEF PostSaveAgain, Save
  <2>3. CASE task[x].row.key = NoOffice /\ End(x) /\ Finish(q)
    <3>1. task'[x] = Idle /\ \A y \in Procs : y # x => task'[y] = task[y]
      BY <1>0, <2>3 DEF End
    <3>2. Held(q, plan[q])'
      BY <2>2, <2>3, IntakeAssumption DEF Held, Supervised
    <3>3. \A p \in Plans : p # q => (p \in unfinished => p \in unfinished')
      BY <2>3 DEF Finish
    <3>4. task[x].pc \in Posting
      BY <2>1 DEF Posting
    <3> QED BY <2>1, <2>2, <3>1, <3>2, <3>3, <3>4, AloneEnds, HoldStep
  <2>4. CASE Goto(x, "office") /\ UNCHANGED unfinished
    <3>1. /\ \A y \in Procs : y # x => task'[y] = task[y]
          /\ task'[x].pc = "office" /\ task'[x].plan = q
      BY <1>0, <2>1, <2>4 DEF Goto, Task
    <3>2. RequestOK(x)'
      BY <2>1, <2>4, <3>1 DEF RequestOK, Changing
    <3>3. ASSUME NEW y \in Clients PROVE PostAlone(x, y)' /\ PostAlone(y, x)'
      BY <2>1, <3>1, AloneGoesOn DEF Posting
    <3>4. Held(q, plan[q])'
      BY <2>1, <2>4 DEF Held
    <3> QED BY <2>1, <2>2, <2>4, <3>1, <3>2, <3>3, <3>4, HoldStep
  <2> QED BY <1>3, <2>1, <2>3, <2>4 DEF PostSaveAgain
<1>4. CASE PostOffice(x)
  <2>0. task[x] # Idle
    BY <1>0, <1>4 DEF PostOffice
  <2>q. PICK q \in Plans : q = task[x].plan
    BY <1>q, <2>0
  <2> DEFINE o == task[x].row.key
  <2>1. /\ task[x] # Idle /\ task[x].pc = "office" /\ q = task[x].plan /\ x \in Clients
        /\ UNCHANGED <<plan, unfinished, approved>> /\ q \in unfinished
    BY <2>q, <1>0, <1>4 DEF PostOffice, TaskOK, Procs, HoldInv, RequestOK, Stored
  <2>2. /\ \A y \in Procs : y # x => task'[y] = task[y]
        /\ task'[x].pc = "country" /\ task'[x].plan = q /\ task'[x].row.key = o
        /\ task'[x].row.active => office[o] # "supervised"
    BY <1>0, <1>4 DEF PostOffice, Task, Row
  <2>3. office' = [office EXCEPT ![o] = IF @ = "none" THEN "plain" ELSE @]
    BY <1>4 DEF PostOffice
  <2>4. \A f \in Offices : office'[f] = "supervised" <=> office[f] = "supervised"
    BY <2>3 DEF IntakeInv, TypeOK
  <2>5. RequestOK(x)'
    BY <2>1, <2>2, <2>4 DEF RequestOK, Changing, Supervised
  <2>6. ASSUME NEW y \in Clients PROVE PostAlone(x, y)' /\ PostAlone(y, x)'
    BY <2>1, <2>2, AloneGoesOn DEF Posting
  <2>7. Held(q, plan[q])'
    BY <2>1 DEF Held
  <2> QED BY <2>1, <2>2, <2>4, <2>5, <2>6, <2>7, HoldStep
<1>5. CASE PostCountry(x)
  <2>0. task[x] # Idle
    BY <1>0, <1>5 DEF PostCountry
  <2>q. PICK q \in Plans : q = task[x].plan
    BY <1>q, <2>0
  <2>1. /\ task[x] # Idle /\ task[x].pc = "country" /\ q = task[x].plan /\ x \in Clients
        /\ UNCHANGED <<plan, office, unfinished, approved>> /\ q \in unfinished
        /\ ~(task[x].row.active /\ Supervised(task[x].row))
    BY <2>q, <1>0, <1>5 DEF PostCountry, TaskOK, Procs, HoldInv, RequestOK, Stored
  <2>2. Held(q, plan[q])'
    BY <2>1 DEF Held
  <2>3. CASE Goto(x, "put")
    <3>1. /\ \A y \in Procs : y # x => task'[y] = task[y]
          /\ task'[x].pc = "put" /\ task'[x].plan = q /\ task'[x].row = task[x].row
      BY <1>0, <2>1, <2>3 DEF Goto, Task
    <3>2. RequestOK(x)'
      BY <2>1, <3>1 DEF RequestOK, Changing, Supervised
    <3>3. ASSUME NEW y \in Clients PROVE PostAlone(x, y)' /\ PostAlone(y, x)'
      BY <2>1, <3>1, AloneGoesOn DEF Posting
    <3> QED BY <2>1, <2>2, <3>1, <3>2, <3>3, HoldStep
  <2>4. CASE End(x)
    <3>1. task'[x] = Idle /\ \A y \in Procs : y # x => task'[y] = task[y]
      BY <1>0, <2>4 DEF End
    <3> QED BY <2>1, <2>2, <3>1, AloneEnds, HoldStep
  <2> QED BY <1>5, <2>3, <2>4 DEF PostCountry
<1>6. CASE PostPut(x)
  <2>0. task[x] # Idle
    BY <1>0, <1>6 DEF PostPut
  <2>q. PICK q \in Plans : q = task[x].plan
    BY <1>q, <2>0
  <2>1. /\ task[x] # Idle /\ task[x].pc = "put" /\ q = task[x].plan /\ x \in Clients
        /\ UNCHANGED office
        /\ ~(task[x].row.active /\ Supervised(task[x].row))
    BY <2>q, <1>0, <1>6 DEF PostPut, TaskOK, Procs, HoldInv, RequestOK
  <2>2. plan'[q] = task[x].row /\ \A p \in Plans : p # q => plan'[p] = plan[p]
    BY <1>0, <1>6, <2>1 DEF PostPut, Save
  <2>3. task'[x] = Idle /\ \A y \in Procs : y # x => task'[y] = task[y]
    BY <1>0, <1>6 DEF PostPut, End
  <2>4. Held(q, plan[q])'
    BY <2>1, <2>2 DEF Held, Supervised
  <2>5. task[x].pc \in Posting /\ unfinished' = unfinished \ {q} /\ approved' = approved \ {q}
    BY <1>6, <2>1 DEF PostPut, Finish, Posting
  <2>6. \A p \in Plans :
          p # q => (p \in unfinished => p \in unfinished') /\ (p \in approved => p \in approved')
    BY <2>5
  <2> QED BY <2>1, <2>2, <2>3, <2>4, <2>5, <2>6, AloneEnds, HoldStep
<1> QED BY <1>1, <1>2, <1>3, <1>4, <1>5, <1>6 DEF Post

\* A transition of a plan does not bring it back to a status it can be released from.
LEMMA EarlyStays ==
  ASSUME NEW verb \in Verbs, NEW s \in InstructionFlow[verb].from,
         InstructionFlow[verb].to \in Early
  PROVE  s \in Early
<1>1. verb \in {"open", "close", "ready", "process", "finalize", "abort"}
  BY IntakeAssumption DEF InstructionFlow
<1> QED BY <1>1 DEF InstructionFlow, Early

\* The steps of the other requests hold back what is to be held.
LEMMA ChangeHold ==
  ASSUME IntakeInv, HoldInv, NEW x \in Procs, Change(x)
  PROVE  HoldInv'
<1>0. /\ task \in [Procs -> Task] /\ task[x] \in Task /\ Idle.pc = "idle" /\ TaskOK(x)
      /\ plan \in [Plans -> Row \cup {Absent}]
  BY RestingTyped DEF IntakeInv, TypeOK
<1>1. ASSUME NEW p \in Plans, NEW verb \in Verbs, ChangeRead(x, p, verb) PROVE HoldInv'
  <2> DEFINE r == [plan[p] EXCEPT !.status = InstructionFlow[verb].to]
  <2>1. /\ x \in Clients /\ plan[p].status \in InstructionFlow[verb].from
        /\ \A y \in Clients : task[y].plan = p => task[y].pc \notin Posting
        /\ UNCHANGED <<plan, office, unfinished, approved>>
    BY <1>1 DEF ChangeRead, Posts, Requests
  <2>2. Begin(x, "change", p, r)
    BY <1>1 DEF ChangeRead
  <2>3. plan[p] \in Row
    BY <1>0, <2>1, FlowTyped, RestingTyped DEF InstructionStates
  <2>4. /\ r \in Row /\ r.status = InstructionFlow[verb].to /\ r.key = plan[p].key
        /\ r.active = plan[p].active
    BY <2>3, FlowTyped, RowWithStatus
  <2>5. Held(p, plan[p])
    BY DEF HoldInv
  <2>6. Held(p, r)
    BY <2>1, <2>4, <2>5, EarlyStays DEF Held, Supervised
  <2> HIDE DEF r
  <2>7. /\ task[x] = Idle /\ task'[x].pc = "change" /\ task'[x].plan = p /\ task'[x].row = r
        /\ \A y \in Procs : y # x => task'[y] = task[y]
    <3>1. "change" \in PCs /\ r \in Row
      BY <2>4 DEF PCs
    <3>2. task[x] = Idle /\ task' = [task EXCEPT ![x] = [pc |-> "change", plan |-> p, row |-> r]]
      BY <2>2, <3>1, BeginIs
    <3> QED BY <1>0, <3>2
  <2>8. RequestOK(x)'
    BY <2>1, <2>6, <2>7 DEF RequestOK, Stored, Held, Supervised
  <2>9. ASSUME NEW y \in Clients PROVE PostAlone(x, y)' /\ PostAlone(y, x)'
    BY <2>1, <2>7 DEF PostAlone, Posting, Procs
  <2>10. Held(p, plan[p])'
    BY <2>1, <2>5 DEF Held, Supervised
  <2> QED BY <2>1, <2>7, <2>8, <2>9, <2>10, HoldStep
<1>2. ASSUME NEW p \in Plans, NEW active \in BOOLEAN, EditRead(x, p, active) PROVE HoldInv'
  <2> DEFINE r == [plan[p] EXCEPT !.active = active]
  <2>1. plan[p] # Absent /\ UNCHANGED <<plan, office, unfinished, approved>>
    BY <1>2 DEF EditRead
  <2>2. Begin(x, "edit", p, r)
    BY <1>2 DEF EditRead
  <2>3. r \in Row
    BY <1>0, <2>1 DEF Row
  <2> HIDE DEF r
  <2>4. /\ task[x] = Idle /\ task'[x].pc = "edit"
        /\ \A y \in Procs : y # x => task'[y] = task[y]
    <3>1. "edit" \in PCs /\ r \in Row
      BY <2>3 DEF PCs
    <3>2. task[x] = Idle /\ task' = [task EXCEPT ![x] = [pc |-> "edit", plan |-> p, row |-> r]]
      BY <2>2, <3>1, BeginIs
    <3> QED BY <1>0, <3>2
  <2>5. RequestOK(x)'
    BY <2>4 DEF RequestOK, Changing, Stored
  <2>6. ASSUME NEW y \in Clients PROVE PostAlone(x, y)' /\ PostAlone(y, x)'
    BY <2>4 DEF PostAlone, Posting, Changing
  <2>7. Held(p, plan[p])'
    BY <2>1 DEF HoldInv, Held, Supervised
  <2> QED BY <2>1, <2>4, <2>5, <2>6, <2>7, HoldStep
<1>3. CASE ChangeSave(x)
  <2>0. task[x] # Idle /\ task[x].pc \in Changing
    BY <1>0, <1>3 DEF ChangeSave, Changing
  <2>q. PICK q \in Plans : q = task[x].plan
    BY <1>0, <2>0 DEF TaskOK
  <2>1. x \in Clients /\ UNCHANGED <<office, unfinished, approved>> /\ Held(q, task[x].row)
    BY <2>0, <2>q, <1>0, <1>3 DEF ChangeSave, TaskOK, Procs, HoldInv, RequestOK, Changing
  <2>2. plan'[q] = task[x].row /\ \A p \in Plans : p # q => plan'[p] = plan[p]
    BY <1>0, <1>3, <2>q DEF ChangeSave, Save
  <2>3. Held(q, plan[q])'
    BY <2>1, <2>2 DEF Held, Supervised
  <2>4. CASE End(x)
    <3>1. task'[x] = Idle /\ \A y \in Procs : y # x => task'[y] = task[y]
      BY <1>0, <2>4 DEF End
    <3> QED BY <2>q, <2>1, <2>2, <2>3, <3>1, AloneEnds, HoldStep
  <2>5. CASE Goto(x, "change again")
    <3>1. /\ \A y \in Procs : y # x => task'[y] = task[y]
          /\ task'[x].pc = "change again" /\ task'[x].plan = q /\ task'[x].row = task[x].row
      BY <1>0, <2>q, <2>5 DEF Goto, Task
    <3>2. RequestOK(x)'
      BY <2>1, <3>1 DEF RequestOK, Stored, Held, Supervised
    <3>3. ASSUME NEW y \in Clients PROVE PostAlone(x, y)' /\ PostAlone(y, x)'
      BY <2>0, <2>q, <2>1, <3>1, AloneGoesOn DEF Posting
    <3> QED BY <2>q, <2>1, <2>2, <2>3, <3>1, <3>2, <3>3, HoldStep
  <2> QED BY <1>3, <2>4, <2>5 DEF ChangeSave
<1>4. CASE EditSave(x)
  <2>0. task[x] # Idle
    BY <1>0, <1>4 DEF EditSave
  <2>q. PICK q \in Plans : q = task[x].plan
    BY <1>0, <2>0 DEF TaskOK
  <2>1. /\ UNCHANGED <<office, unfinished>>
        /\ approved' = IF task[x].row.active THEN approved \cup {q} ELSE approved
    BY <1>4, <2>q DEF EditSave
  <2>2. plan'[q] = task[x].row /\ \A p \in Plans : p # q => plan'[p] = plan[p]
    BY <1>0, <1>4, <2>q DEF EditSave, Save
  <2>3. Held(q, plan[q])'
    BY <2>1, <2>2 DEF Held
  <2>4. task'[x] = Idle /\ \A y \in Procs : y # x => task'[y] = task[y]
    BY <1>0, <1>4 DEF EditSave, End
  <2>5. \A p \in Plans : p \in approved => p \in approved'
    BY <2>1
  <2> QED BY <2>q, <2>1, <2>2, <2>3, <2>4, <2>5, AloneEnds, HoldStep
<1> QED BY <1>1, <1>2, <1>3, <1>4 DEF Change

\* The steps of a job hold back what is to be held: PROCESSED is past release.
LEMMA JobHold ==
  ASSUME IntakeInv, HoldInv, NEW x \in Procs, Job(x)
  PROVE  HoldInv'
<1>0. /\ task \in [Procs -> Task] /\ task[x] \in Task /\ Idle.pc = "idle" /\ TaskOK(x)
      /\ plan \in [Plans -> Row \cup {Absent}]
  BY RestingTyped DEF IntakeInv, TypeOK
<1>1. ASSUME NEW p \in Plans, JobRead(x, p) PROVE HoldInv'
  <2>1. task[x] = Idle /\ x \notin Clients /\ UNCHANGED <<plan, office, unfinished, approved>>
    BY <1>1, IntakeAssumption DEF JobRead, Begin
  <2>2. \A y \in Procs : y # x => task'[y] = task[y]
    BY <1>0, <1>1 DEF JobRead, Begin
  <2>3. Held(p, plan[p])'
    BY <2>1 DEF HoldInv, Held, Supervised
  <2> QED BY <2>1, <2>2, <2>3, HoldStep
<1>2. CASE JobEnd(x)
  <2>0. task[x] # Idle /\ task[x].row.status = "PROCESSED"
    BY <1>0, <1>2 DEF JobEnd, TaskOK
  <2>q. PICK q \in Plans : q = task[x].plan
    BY <1>0, <2>0 DEF TaskOK
  <2>1. UNCHANGED <<office, unfinished, approved>>
    BY <1>2 DEF JobEnd
  <2>2. /\ plan'[q] = task[x].row \/ plan'[q] = plan[q]
        /\ \A p \in Plans : p # q => plan'[p] = plan[p]
    BY <1>0, <1>2, <2>q DEF JobEnd, Save
  <2>3. Held(q, plan[q])
    BY DEF HoldInv
  <2>4. Held(q, plan[q])'
    BY <2>0, <2>1, <2>2, <2>3 DEF Held, Supervised, Early
  <2>5. task'[x] = Idle /\ \A y \in Procs : y # x => task'[y] = task[y]
    BY <1>0, <1>2 DEF JobEnd, End
  <2> QED BY <2>q, <2>1, <2>2, <2>4, <2>5, AloneEnds, HoldStep
<1> QED BY <1>1, <1>2 DEF Job

\* A request cut short saves nothing any more, and its POST does not come to an end.
LEMMA CutHold ==
  ASSUME IntakeInv, HoldInv, NEW x \in Procs, CutShort(x)
  PROVE  HoldInv'
<1>0. task \in [Procs -> Task] /\ task[x] # Idle /\ TaskOK(x)
  BY DEF IntakeInv, TypeOK, CutShort
<1>q. PICK q \in Plans : q = task[x].plan
  BY <1>0 DEF TaskOK
<1>1. /\ task'[x] = Idle /\ \A y \in Procs : y # x => task'[y] = task[y]
      /\ UNCHANGED <<plan, office, unfinished, approved>>
  BY <1>0 DEF CutShort, End
<1>2. Held(q, plan[q])'
  BY <1>1 DEF HoldInv, Held, Supervised
<1> QED BY <1>q, <1>1, <1>2, AloneEnds, HoldStep

\* The admin takes an office under supervision only when no plan or request has it.
LEMMA OfficeHold ==
  ASSUME IntakeInv, HoldInv, NEW o \in Offices, OfficeForm(o)
  PROVE  HoldInv'
<1>0. office \in [Offices -> {"none", "plain", "supervised"}]
  BY DEF IntakeInv, TypeOK
<1>1. UNCHANGED <<plan, task, unfinished, approved>>
  BY DEF OfficeForm
<1>2. /\ \A f \in Offices : f # o => office'[f] = office[f]
      /\ \/ office'[o] # "supervised"
         \/ (\A p \in Plans : plan[p].key # o) /\ (\A x \in Clients : task[x].row.key # o)
  <2>1. office' = [office EXCEPT ![o] = IF @ = "plain" THEN "supervised" ELSE "plain"]
    BY DEF OfficeForm
  <2>2. CASE office[o] = "supervised"
    BY <1>0, <2>1, <2>2
  <2>3. CASE (\A p \in Plans : plan[p].key # o) /\ (\A x \in Clients : task[x].row.key # o)
    BY <1>0, <2>1, <2>3
  <2> QED BY <2>2, <2>3 DEF OfficeForm
<1>3. ASSUME NEW p \in Plans PROVE Held(p, plan[p])'
  <2>1. Held(p, plan[p])
    BY DEF HoldInv
  <2> QED BY <1>1, <1>2, <2>1 DEF Held, Supervised
<1>4. ASSUME NEW x \in Clients PROVE RequestOK(x)'
  <2>1. RequestOK(x)
    BY DEF HoldInv
  <2> QED BY <1>1, <1>2, <2>1 DEF RequestOK, Held, Supervised
<1>5. ASSUME NEW x \in Clients, NEW y \in Clients PROVE PostAlone(x, y)'
  BY <1>1 DEF HoldInv, PostAlone
<1> QED BY <1>3, <1>4, <1>5 DEF HoldInv

\* Every step holds back what is to be held.
LEMMA NextHold == IntakeInv /\ HoldInv /\ [Next]_vars => HoldInv'
<1> SUFFICES ASSUME IntakeInv, HoldInv, [Next]_vars PROVE HoldInv'
  OBVIOUS
<1>1. ASSUME UNCHANGED <<plan, office, task, unfinished, approved>> PROVE HoldInv'
  <2>1. ASSUME NEW p \in Plans PROVE Held(p, plan[p])'
    BY <1>1 DEF HoldInv, Held, Supervised
  <2>2. ASSUME NEW x \in Clients PROVE RequestOK(x)'
    BY <1>1 DEF HoldInv, RequestOK, Held, Supervised
  <2>3. ASSUME NEW x \in Clients, NEW y \in Clients PROVE PostAlone(x, y)'
    BY <1>1 DEF HoldInv, PostAlone
  <2> QED BY <2>1, <2>2, <2>3 DEF HoldInv
<1>2. ASSUME NEW p \in Plans, Queue(p) PROVE HoldInv'
  BY <1>1, <1>2 DEF Queue
<1>3. CASE UNCHANGED vars
  BY <1>1, <1>3 DEF vars
<1> QED BY <1>2, <1>3, PostHold, ChangeHold, JobHold, CutHold, OfficeHold DEF Next

\* The invariant holds in every reachable state.
LEMMA HoldAlways == Spec => []HoldInv
  BY InitHold, NextHold, IntakeAlways, PTL DEF Spec

\* A plan whose POST for a supervised office came to its end is not sent before a
\* person has made it active, for any number of plans, offices, clients and workers,
\* whatever stale rows they save over one another and wherever they are cut short.
THEOREM SupervisedWait == Spec => HeldUntilApproved
<1>1. IntakeInv /\ HoldInv /\ [Next]_vars
      => [\A p \in Plans :
            /\ p \in queued' \ queued
            /\ plan[p].key \in Offices /\ office[plan[p].key] = "supervised"
            /\ p \notin unfinished
            => p \in approved]_vars
  <2> SUFFICES ASSUME IntakeInv, HoldInv, [Next]_vars, NEW p \in Plans,
                      p \in queued' \ queued,
                      plan[p].key \in Offices, office[plan[p].key] = "supervised",
                      p \notin unfinished
               PROVE  p \in approved
    OBVIOUS
  <2>1. Held(p, plan[p])
    BY DEF HoldInv
  <2>2. plan[p].status = "READY" /\ plan[p].active
    BY DEF Next, Post, PostRead, PostSave, PostSaveAgain, PostOffice, PostCountry, PostPut,
           Change, ChangeRead, ChangeSave, EditRead, EditSave, Job, JobRead, JobEnd, CutShort,
           OfficeForm, Queue, vars
  <2> QED BY <2>1, <2>2 DEF Held, Supervised, Early
<1> QED BY <1>1, IntakeAlways, HoldAlways, PTL DEF Spec, HeldUntilApproved
=============================================================================
