--------------------------- MODULE PlanIntakeInv ---------------------------
(***************************************************************************)
(* The inductive invariants behind the safety properties of PlanIntake.    *)
(***************************************************************************)
EXTENDS PlanIntake

Changing == {"change", "change again"}
Stored == {"again", "office", "country", "put"}

\* Requests are served by web processes and jobs by workers; a job marks the plan.
TaskOK(x) ==
  task[x] # Idle =>
    /\ task[x].pc # "idle" /\ task[x].plan \in Plans
    /\ x \in Workers <=> task[x].pc = "job"
    /\ task[x].pc = "job" => task[x].row.status = "PROCESSED"

IntakeInv == TypeOK /\ \A x \in Procs : TaskOK(x)

-----------------------------------------------------------------------------
\* The statuses that lead to s, in any order of requests, have been announced.
Passed(p, s) ==
  /\ s = "CLOSED" => "OPEN" \in announced[p]
  /\ s = "READY" => {"OPEN", "CLOSED"} \subseteq announced[p]

\* What a process is about to write over a plan.
CopyOK(x) ==
  task[x] # Idle =>
    /\ Passed(task[x].plan, task[x].row.status)
    /\ plan[task[x].plan].status = "ABSENT" => task[x].row.status = "DRAFT"

AnnouncedOK(p) ==
  /\ plan[p].status \in {"ABSENT", "DRAFT"} \cup announced[p]
  /\ plan[p].status = "ABSENT" => announced[p] = {}
  /\ \A s \in announced[p] : Passed(p, s)

OrderInv ==
  /\ \A p \in Plans : AnnouncedOK(p)
  /\ \A p \in queued : "READY" \in announced[p]
  /\ \A x \in Procs : CopyOK(x)

-----------------------------------------------------------------------------
\* The statuses a plan may still be released from.
Early == {"DRAFT", "OPEN", "CLOSED", "READY"}
Supervised(r) == r.key \in Offices /\ office[r.key] = "supervised"

\* A row that could release a plan of a supervised office has been approved, or
\* belongs to a POST that has not come to its end.
Held(p, r) ==
  r.status \in Early /\ r.active /\ Supervised(r) => p \in unfinished \cup approved

RequestOK(x) ==
  /\ task[x].pc \in Changing => Held(task[x].plan, task[x].row)
  /\ task[x].pc \in Stored => task[x].plan \in unfinished
  /\ task[x].pc \in {"country", "put"} => ~(task[x].row.active /\ Supervised(task[x].row))

\* Next to a POST there are edits and jobs, but no other POST and no transition.
PostAlone(x, y) ==
  x # y /\ task[x].plan = task[y].plan /\ task[x].pc \in Posting
    => task[y].pc \notin Posting \cup Changing

HoldInv ==
  /\ \A p \in Plans : Held(p, plan[p])
  /\ \A x \in Clients : RequestOK(x)
  /\ \A x, y \in Clients : PostAlone(x, y)
=============================================================================
