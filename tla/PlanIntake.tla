------------------------------ MODULE PlanIntake ------------------------------
(***************************************************************************)
(* How a payment plan comes in and is released: the REST endpoints of a    *)
(* plan with the grants of their tokens, the offices and countries a POST  *)
(* creates on its way, the manual check of supervised offices, the admin   *)
(* form, the jobs that mark a plan, and the events that announce a change  *)
(* of status.  Nothing runs in a transaction: every save is a step, writes *)
(* the whole row, and what a request has done before it fails stays done.  *)
(***************************************************************************)
EXTENDS PaymentFlow, Naturals, FiniteSets

CONSTANTS
  Plans, Offices, NoPlan, NoOffice,
  Uploaders, Managers,  \* clients by the grant of their token; users of the admin manage
  Workers,              \* Celery workers
  Verbs,                \* the transitions of a plan clients ask for
  MaxCuts               \* bound on the requests that are cut short

Clients == Uploaders \cup Managers
Procs == Clients \cup Workers

ASSUME IntakeAssumption ==
  /\ NoPlan \notin Plans /\ NoOffice \notin Offices
  /\ Uploaders \cap Managers = {} /\ Clients \cap Workers = {}
  /\ Verbs \subseteq DOMAIN InstructionFlow /\ MaxCuts \in Nat

VARIABLES
  plan,      \* the table of plans
  office,    \* the table of offices
  task,      \* what each process is doing, with its copy of the plan
  queued,    \* the plans a job is queued for
  announced, \* the statuses the events of a plan have announced
  unfinished, \* the plans stored by a POST that has not come to its end (yet)
  approved,  \* the plans a person has made active since their last POST
  cuts       \* the requests that were cut short

vars == <<plan, office, task, queued, announced, unfinished, approved, cuts>>

\* The columns of a plan: key is the config_key of its payload.  Its country, which
\* nothing here depends on, is left out.
Row == [status : InstructionStates, active : BOOLEAN, office : Offices \cup {NoOffice},
        key : Offices \cup {NoOffice}]
NewRow == [status |-> "DRAFT", active |-> TRUE, office |-> NoOffice, key |-> NoOffice]
Absent == [NewRow EXCEPT !.status = "ABSENT"]

Posting == {"store", "again", "office", "country", "put"}
PCs == Posting \cup {"idle", "change", "change again", "edit", "job"}
Idle == [pc |-> "idle", plan |-> NoPlan, row |-> NewRow]
Task == [pc : PCs, plan : Plans \cup {NoPlan}, row : Row]

Init ==
  /\ plan = [p \in Plans |-> Absent]
  /\ office \in [Offices -> {"none", "plain", "supervised"}]
  /\ task = [x \in Procs |-> Idle]
  /\ queued = {}
  /\ announced = [p \in Plans |-> {}]
  /\ unfinished = {} /\ approved = {}
  /\ cuts = 0

\* Grants are ordered, and a token may do what its grant or a lower one allows.
Level == [API_READ_ONLY |-> 0, API_PLAN_UPLOAD |-> 1, API_PLAN_MANAGE |-> 2]
Required == [create |-> "API_PLAN_UPLOAD", update |-> "API_PLAN_MANAGE",
             change |-> "API_PLAN_MANAGE"]
Grant(x) == IF x \in Managers THEN "API_PLAN_MANAGE" ELSE "API_PLAN_UPLOAD"
Granted(x, verb) == Level[Grant(x)] >= Level[Required[verb]]

Begin(x, pc, p, row) ==
  /\ task[x] = Idle
  /\ task' = [task EXCEPT ![x] = [Idle EXCEPT !.pc = pc, !.plan = p, !.row = row]]
Goto(x, pc) == task' = [task EXCEPT ![x].pc = pc]
End(x) == task' = [task EXCEPT ![x] = Idle]

\* A save of a row: pre_save compares it with the row it replaces and announces
\* another status; then every column is written.
Announce(p, s) ==
  announced' = [announced EXCEPT ![p] = IF plan[p].status \in {s, "ABSENT"} THEN @ ELSE @ \cup {s}]
Save(p, row) ==
  /\ Announce(p, row.status)
  /\ plan' = [plan EXCEPT ![p] = row]

-----------------------------------------------------------------------------
(* POST of a plan.                                                         *)

Finish(p) == unfinished' = unfinished \ {p}

\* The client that posts a plan has no other request on it under way.
Requests(p) == {x \in Clients : task[x].plan = p}
Posts(p) == {x \in Requests(p) : task[x].pc \in Posting}

\* The plan is looked up by its remote_id: it is created, or updated with what
\* the request says; status is read-only.  (Requests that say whether
\* the plan is active are left out.)
PostRead(x, p, key) ==
  /\ x \in Clients /\ Granted(x, "create")
  /\ Requests(p) = {}
  /\ task[x] = Idle
  /\ LET row == IF plan[p] = Absent THEN NewRow ELSE plan[p]
     IN  task' = [task EXCEPT ![x] =
                    [pc |-> "store", plan |-> p,
                     row |-> [row EXCEPT !.key = key]]]
  /\ UNCHANGED <<plan, office, queued, announced, unfinished, approved, cuts>>

\* perform_create: the serializer saves the plan, and perform_create again ...
PostSave(x) ==
  /\ task[x].pc = "store"
  /\ Save(task[x].plan, task[x].row)
  /\ Goto(x, "again")
  /\ unfinished' = unfinished \cup {task[x].plan}
  /\ UNCHANGED <<office, queued, approved, cuts>>

\* ... which is all for a plan without a config_key;
PostSaveAgain(x) ==
  /\ task[x].pc = "again"
  /\ Save(task[x].plan, task[x].row)
  /\ \/ task[x].row.key = NoOffice /\ End(x) /\ Finish(task[x].plan)
     \/ task[x].row.key # NoOffice /\ Goto(x, "office") /\ UNCHANGED unfinished
  /\ UNCHANGED <<office, queued, approved, cuts>>

\* Mutant: an office that exists already is not asked whether it is supervised.
PostOfficeUnasked(x) ==
  /\ task[x].pc = "office"
  /\ LET o == task[x].row.key
     IN  /\ office' = [office EXCEPT ![o] = IF @ = "none" THEN "plain" ELSE @]
         /\ task' = [task EXCEPT ![x].row.office = o, ![x].pc = "country"]
  /\ UNCHANGED <<plan, queued, announced, unfinished, approved, cuts>>

\* the office is found or created; the plan of a supervised one is not active;
PostOffice(x) ==
  /\ task[x].pc = "office"
  /\ LET o == task[x].row.key
     IN  /\ office' = [office EXCEPT ![o] = IF @ = "none" THEN "plain" ELSE @]
         /\ task' = [task EXCEPT ![x].row.office = o, ![x].pc = "country",
                                 ![x].row.active = @ /\ office[o] # "supervised"]
  /\ UNCHANGED <<plan, queued, announced, unfinished, approved, cuts>>

\* the country, if there is one in the payload, is found or created with nothing
\* but its code, which raises IntegrityError when the table holds such a country
\* already, since its other codes must be unique;
PostCountry(x) ==
  /\ task[x].pc = "country"
  /\ Goto(x, "put") \/ End(x)
  /\ UNCHANGED <<plan, office, queued, announced, unfinished, approved, cuts>>

\* and the plan is saved with both: from here on an earlier approval is void.
PostPut(x) ==
  /\ task[x].pc = "put"
  /\ Save(task[x].plan, task[x].row)
  /\ End(x)
  /\ Finish(task[x].plan)
  /\ approved' = approved \ {task[x].plan}
  /\ UNCHANGED <<office, queued, cuts>>

-----------------------------------------------------------------------------
(* Changes of a plan.                                                      *)

\* Mutant: the status is written past the flow.
ChangeReadUnchecked(x, p, verb) ==
  /\ x \in Clients /\ Granted(x, "change")
  /\ Posts(p) = {} /\ plan[p] # Absent
  /\ Begin(x, "change", p, [plan[p] EXCEPT !.status = InstructionFlow[verb].to])
  /\ UNCHANGED <<plan, office, queued, announced, unfinished, approved, cuts>>

\* _change_status: the flow decides on the plan as it was read ...
ChangeRead(x, p, verb) ==
  /\ x \in Clients /\ Granted(x, "change")
  /\ Posts(p) = {}
  /\ plan[p].status \in InstructionFlow[verb].from
  /\ Begin(x, "change", p, [plan[p] EXCEPT !.status = InstructionFlow[verb].to])
  /\ UNCHANGED <<plan, office, queued, announced, unfinished, approved, cuts>>

\* ... and it is saved by the flow and by _change_status.
ChangeSave(x) ==
  /\ task[x].pc \in {"change", "change again"}
  /\ Save(task[x].plan, task[x].row)
  /\ IF task[x].pc = "change" THEN Goto(x, "change again") ELSE End(x)
  /\ UNCHANGED <<office, queued, unfinished, approved, cuts>>

\* A PUT or PATCH, or a page of the admin: status is sent back as it was shown.
EditRead(x, p, active) ==
  /\ x \in Clients /\ Granted(x, "update")
  /\ plan[p] # Absent
  /\ Begin(x, "edit", p, [plan[p] EXCEPT !.active = active])
  /\ UNCHANGED <<plan, office, queued, announced, unfinished, approved, cuts>>

EditSave(x) ==
  /\ task[x].pc = "edit"
  /\ Save(task[x].plan, task[x].row)
  /\ approved' = IF task[x].row.active THEN approved \cup {task[x].plan} ELSE approved
  /\ End(x)
  /\ UNCHANGED <<office, queued, unfinished, cuts>>

\* Offices are put under supervision before their first plan comes in, and
\* released from it at any time.
OfficeForm(o) ==
  /\ \/ office[o] = "supervised"
     \/ /\ office[o] = "plain"
        /\ \A p \in Plans : plan[p].key # o
        /\ \A x \in Clients : task[x].row.key # o
  /\ office' = [office EXCEPT ![o] = IF @ = "plain" THEN "supervised" ELSE "plain"]
  /\ UNCHANGED <<plan, task, queued, announced, unfinished, approved, cuts>>

-----------------------------------------------------------------------------
(* The periodic task and the jobs.                                         *)

\* Mutant: the task does not look whether a plan is active.
QueueInactive(p) ==
  /\ plan[p].status = "READY"
  /\ queued' = queued \cup {p}
  /\ UNCHANGED <<plan, office, task, announced, unfinished, approved, cuts>>

\* send_to_fsp: active plans that are READY.
Queue(p) ==
  /\ plan[p].status = "READY" /\ plan[p].active
  /\ queued' = queued \cup {p}
  /\ UNCHANGED <<plan, office, task, announced, unfinished, approved, cuts>>

\* Mutant: a status a plan does not have is written.
JobReadMisspelt(x, p) ==
  /\ p \in queued
  /\ x \in Workers /\ Begin(x, "job", p, [plan[p] EXCEPT !.status = "DONE"])
  /\ queued' = queued \ {p}
  /\ UNCHANGED <<plan, office, announced, unfinished, approved, cuts>>

\* notify_records_to_fsp reads the plan, sends its records ...
JobRead(x, p) ==
  /\ p \in queued
  /\ x \in Workers /\ Begin(x, "job", p, [plan[p] EXCEPT !.status = "PROCESSED"])
  /\ queued' = queued \ {p}
  /\ UNCHANGED <<plan, office, announced, unfinished, approved, cuts>>

\* Mutant: PROCESSED is written by an UPDATE of the table, which sends no signal.
JobEndSilent(x) ==
  /\ task[x].pc = "job"
  /\ \/ plan' = [plan EXCEPT ![task[x].plan] = task[x].row]
     \/ UNCHANGED plan
  /\ End(x)
  /\ UNCHANGED <<office, queued, announced, unfinished, approved, cuts>>

\* ... and saves it, past the flow, unless a record did not succeed.
JobEnd(x) ==
  /\ task[x].pc = "job"
  /\ \/ Save(task[x].plan, task[x].row)
     \/ UNCHANGED <<plan, announced>>
  /\ End(x)
  /\ UNCHANGED <<office, queued, unfinished, approved, cuts>>

\* A request or job is killed, or the broker of the events raises: the status of
\* a save that never came may have been announced.
CutShort(x) ==
  /\ task[x] # Idle
  /\ cuts < MaxCuts /\ cuts' = cuts + 1
  /\ \/ UNCHANGED announced
     \/ /\ task[x].pc \notin {"office", "country"}
        /\ Announce(task[x].plan, task[x].row.status)
  /\ End(x)
  /\ UNCHANGED <<plan, office, queued, unfinished, approved>>

-----------------------------------------------------------------------------
Post(x) ==
  \/ \E p \in Plans, key \in Offices \cup {NoOffice} : PostRead(x, p, key)
  \/ PostSave(x) \/ PostSaveAgain(x) \/ PostOffice(x)
  \/ PostCountry(x) \/ PostPut(x)

Change(x) ==
  \/ \E p \in Plans : \/ \E verb \in Verbs : ChangeRead(x, p, verb)
                      \/ \E active \in BOOLEAN : EditRead(x, p, active)
  \/ ChangeSave(x) \/ EditSave(x)

Job(x) == (\E p \in Plans : JobRead(x, p)) \/ JobEnd(x)

Next ==
  \/ \E x \in Procs : Post(x) \/ Change(x) \/ Job(x) \/ CutShort(x)
  \/ \E o \in Offices : OfficeForm(o)
  \/ \E p \in Plans : Queue(p)

Spec == Init /\ [][Next]_vars

-----------------------------------------------------------------------------
TypeOK ==
  /\ plan \in [Plans -> Row \cup {Absent}]
  /\ office \in [Offices -> {"none", "plain", "supervised"}]
  /\ task \in [Procs -> Task]
  /\ queued \in SUBSET Plans
  /\ announced \in [Plans -> SUBSET InstructionStates]
  /\ unfinished \in SUBSET Plans /\ approved \in SUBSET Plans
  /\ cuts \in 0 .. MaxCuts

\* Whoever listens to the events hears of every status: a plan is in no status
\* but its first that was not announced before.
AnnouncedFirst ==
  \A p \in Plans : plan[p].status \in {"ABSENT", "DRAFT"} \cup announced[p]

\* Requests, pages and jobs save stale rows over each other, but no plan is
\* released that was not opened and closed before.
ReleasedInOrder ==
  \A p \in Plans :
    /\ "READY" \in announced[p] => {"OPEN", "CLOSED"} \subseteq announced[p]
    /\ p \in queued => "READY" \in announced[p]

\* models.py: a supervised office's plans "need manual check".  A plan posted for
\* a supervised office, by a request that came to its end, is not sent before a
\* person has made it active.
HeldUntilApproved ==
  [][\A p \in Plans :
       /\ p \in queued' \ queued
       /\ plan[p].key \in Offices /\ office[plan[p].key] = "supervised"
       /\ p \notin unfinished
       => p \in approved]_vars
=============================================================================
