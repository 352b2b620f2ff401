------------------------------- MODULE Exports -------------------------------
(***************************************************************************)
(* The export of a payment plan: the templates, the request served by an   *)
(* upgraded web container, the job that mails the file, and what is known  *)
(* of a job once Celery has forgotten it.  One plan; the exports of others *)
(* compete for the workers as its own do.                                  *)
(***************************************************************************)
EXTENDS Upgrade, FiniteSets

CONSTANTS
  Templates, NoTemplate,   \* rows of the table of export templates
  Jobs, NoJob,             \* rows of the table of jobs, here all of them exports
  Workers,                 \* Celery workers
  MaxRepeats               \* bound on the messages delivered once more

ASSUME ExportsAssumption ==
  NoTemplate \notin Templates /\ NoJob \notin Jobs /\ MaxRepeats \in Nat

VARIABLES
  scope,    \* which plans a template is for: this one, others, or it is gone
  forced,   \* the template the plan names, if any
  job,      \* the row of a job, its local status, and the result Celery keeps of it
  ready,    \* how many messages of a job wait in the broker
  worker,   \* what each worker is doing
  mailed,   \* how often the file of a job was mailed
  repeats

exVars == <<scope, forced, job, ready, worker, mailed, repeats>>
vars == <<upVars, exVars>>

Outcomes == {"SUCCESS", "FAILURE"}
Unknown == "none"
Scopes == {"gone", "plan", "other"}
Idle == [pc |-> "idle", job |-> NoJob, outcome |-> Unknown, again |-> FALSE]

Init ==
  /\ UpInit
  /\ scope = [t \in Templates |-> "gone"]
  /\ forced = NoTemplate
  /\ job = [j \in Jobs |-> [row |-> "none", local |-> Unknown, result |-> Unknown]]
  /\ ready = [j \in Jobs |-> 0]
  /\ worker = [w \in Workers |-> Idle]
  /\ mailed = [j \in Jobs |-> 0]
  /\ repeats = 0

SetJob(j, x) == job' = [job EXCEPT ![j] = x]
SetWorker(w, x) == worker' = [worker EXCEPT ![w] = x]
Pages == \E c \in Containers : Serving(c)

-----------------------------------------------------------------------------
(* The admin: templates, the plan, the jobs.                               *)

\* A template is added or edited: for the plan's provider, delivery mechanism, office
\* and country, or for others.
TemplateForm(t) ==
  /\ Pages
  /\ \E s \in Scopes \ {"gone"} : scope' = [scope EXCEPT ![t] = s]
  /\ UNCHANGED <<upVars, forced, job, ready, worker, mailed, repeats>>

\* A template that the plan names is protected.
TemplateDelete(t) ==
  /\ Pages
  /\ scope[t] # "gone" /\ forced # t
  /\ scope' = [scope EXCEPT ![t] = "gone"]
  /\ UNCHANGED <<upVars, forced, job, ready, worker, mailed, repeats>>

Kept == {t \in Templates : scope[t] # "gone"}

\* The plan is made to use a template, or none in particular.
PlanForm ==
  /\ Pages
  /\ \E t \in Kept \cup {NoTemplate} : forced' = t
  /\ UNCHANGED <<upVars, scope, job, ready, worker, mailed, repeats>>

\* PaymentInstruction.selected_export: of templates that match, the query takes any.
SelectedExport ==
  IF forced # NoTemplate THEN {forced} ELSE {t \in Templates : scope[t] = "plan"}

-----------------------------------------------------------------------------
(* The request.                                                            *)

\* download: a template must exist, and the job is created ...
Download(j) ==
  /\ Pages
  /\ job[j].row = "none" /\ SelectedExport # {}
  /\ SetJob(j, [job[j] EXCEPT !.row = "new"])
  /\ UNCHANGED <<upVars, scope, forced, ready, worker, mailed, repeats>>

\* ... and queued, unless the request ends between.
DownloadQueue(j) ==
  /\ job[j].row = "new"
  /\ SetJob(j, [job[j] EXCEPT !.row = "queued"])
  /\ ready' = [ready EXCEPT ![j] = 1]
  /\ UNCHANGED <<upVars, scope, forced, worker, mailed, repeats>>

-----------------------------------------------------------------------------
(* The job: sync_job_task runs export_payment_instruction_to_email.        *)

Deliver(w, j) ==
  /\ worker[w] = Idle /\ ready[j] > 0
  /\ ready' = [ready EXCEPT ![j] = @ - 1]
  /\ SetWorker(w, [Idle EXCEPT !.pc = "read", !.job = j])
  /\ UNCHANGED <<upVars, scope, forced, job, mailed, repeats>>

Failed(w, pc) == SetWorker(w, [worker[w] EXCEPT !.pc = pc, !.outcome = "FAILURE"])

\* The row of the job is read; one that was removed raises DoesNotExist.
JobRead(w) ==
  /\ worker[w].pc = "read"
  /\ IF job[worker[w].job].row = "removed" THEN Failed(w, "return")
     ELSE SetWorker(w, [worker[w] EXCEPT !.pc = "render"])
  /\ UNCHANGED <<upVars, scope, forced, job, ready, mailed, repeats>>

\* export_as_template_impl: the lines of the template are compiled and rendered for every
\* record of the plan; either may raise.
Render(w) == SetWorker(w, [worker[w] EXCEPT !.pc = "mail"]) \/ Failed(w, "status")

\* Mutant: a job that finds no template has nothing to do.
JobRenderNone(w) ==
  /\ worker[w].pc = "render"
  /\ \/ SelectedExport # {} /\ Render(w)
     \/ /\ SelectedExport = {}
        /\ SetWorker(w, [worker[w] EXCEPT !.pc = "status", !.outcome = "SUCCESS"])
  /\ UNCHANGED <<upVars, scope, forced, job, ready, mailed, repeats>>

\* The template is chosen once more, which raises when there is none any longer.
JobRender(w) ==
  /\ worker[w].pc = "render"
  /\ \/ SelectedExport # {} /\ Render(w)
     \/ SelectedExport = {} /\ Failed(w, "status")
  /\ UNCHANGED <<upVars, scope, forced, job, ready, mailed, repeats>>

\* The mail is sent or not, and the call returns or raises; one not sent raises.
JobMail(w) ==
  /\ worker[w].pc = "mail"
  /\ \/ /\ mailed' = [mailed EXCEPT ![worker[w].job] = @ + 1]
        /\ \E o \in Outcomes : SetWorker(w, [worker[w] EXCEPT !.pc = "status", !.outcome = o])
     \/ Failed(w, "status") /\ UNCHANGED mailed
  /\ UNCHANGED <<upVars, scope, forced, job, ready, repeats>>

\* Mutant: a job that raised is not asked for its local status.
JobStatusSuccess(w) ==
  LET j == worker[w].job
  IN  /\ worker[w].pc = "status"
      /\ IF job[j].row = "removed" \/ worker[w].outcome = "FAILURE"
         THEN Failed(w, "return") /\ UNCHANGED job
         ELSE /\ SetJob(j, [job[j] EXCEPT !.local = worker[w].outcome])
              /\ SetWorker(w, [worker[w] EXCEPT !.pc = "return"])
      /\ UNCHANGED <<upVars, scope, forced, ready, mailed, repeats>>

\* set_local_status, which raises when the row was removed meanwhile.
JobStatus(w) ==
  LET j == worker[w].job
  IN  /\ worker[w].pc = "status"
      /\ IF job[j].row = "removed" THEN Failed(w, "return") /\ UNCHANGED job
         ELSE /\ SetJob(j, [job[j] EXCEPT !.local = worker[w].outcome])
              /\ SetWorker(w, [worker[w] EXCEPT !.pc = "return"])
      /\ UNCHANGED <<upVars, scope, forced, ready, mailed, repeats>>

\* Mutant: a failed job is put back to be tried again.
ReturnRetried(w) ==
  LET j == worker[w].job
  IN  /\ worker[w].pc = "return"
      /\ SetJob(j, [job[j] EXCEPT !.result = worker[w].outcome])
      /\ ready' = [ready EXCEPT ![j] = IF worker[w].outcome = "FAILURE" /\ @ < 1 THEN 1 ELSE @]
      /\ SetWorker(w, Idle)
      /\ UNCHANGED <<upVars, scope, forced, mailed, repeats>>

\* Mutant: the status of a result is not a status of the task.
ReturnMisspelt(w) ==
  /\ worker[w].pc = "return"
  /\ SetJob(worker[w].job, [job[worker[w].job] EXCEPT !.result = "PROCESSED"])
  /\ SetWorker(w, Idle)
  /\ UNCHANGED <<upVars, scope, forced, ready, mailed, repeats>>

\* Celery stores the result and takes the message off the broker.
Return(w) ==
  /\ worker[w].pc = "return"
  /\ SetJob(worker[w].job, [job[worker[w].job] EXCEPT !.result = worker[w].outcome])
  /\ SetWorker(w, Idle)
  /\ UNCHANGED <<upVars, scope, forced, ready, mailed, repeats>>

-----------------------------------------------------------------------------
(* Celery and the housekeeping.                                            *)

Repeat(j) ==
  /\ repeats < MaxRepeats /\ repeats' = repeats + 1
  /\ ready' = [ready EXCEPT ![j] = @ + 1]

\* Messages are acknowledged late: the job of a worker that dies is delivered again ...
Kill(w) ==
  /\ worker[w] # Idle
  /\ IF worker[w].again THEN UNCHANGED <<ready, repeats>> ELSE Repeat(worker[w].job)
  /\ SetWorker(w, Idle)
  /\ UNCHANGED <<upVars, scope, forced, job, mailed>>

\* ... and one that outlasts the visibility timeout is so while it runs.
Redeliver(w) ==
  /\ worker[w] # Idle /\ ~worker[w].again
  /\ Repeat(worker[w].job)
  /\ SetWorker(w, [worker[w] EXCEPT !.again = TRUE])
  /\ UNCHANGED <<upVars, scope, forced, job, mailed>>

\* CELERY_RESULT_EXPIRES
ResultExpire(j) ==
  /\ job[j].result # Unknown
  /\ SetJob(j, [job[j] EXCEPT !.result = Unknown])
  /\ UNCHANGED <<upVars, scope, forced, ready, worker, mailed, repeats>>

\* removed_expired_jobs deletes whatever its arguments select.
RemoveJob(j) ==
  /\ job[j].row \in {"new", "queued"}
  /\ SetJob(j, [job[j] EXCEPT !.row = "removed"])
  /\ UNCHANGED <<upVars, scope, forced, ready, worker, mailed, repeats>>

\* task_status, of the library: the result, else whether a message waits.
TaskStatus(j) ==
  IF job[j].result # Unknown THEN job[j].result ELSE IF ready[j] > 0 THEN "QUEUED" ELSE "MISSING"

\* Mutant: the admin shows the library's status.
VerboseStatusCelery(j) == {TaskStatus(j)}

\* verbose_status, as the set of the statuses that it names.
VerboseStatus(j) ==
  LET local == {job[j].local} \ {Unknown}
  IN  IF TaskStatus(j) = "MISSING" /\ local # {} THEN local ELSE {TaskStatus(j)} \cup local

-----------------------------------------------------------------------------
Admin ==
  \/ \E t \in Templates : TemplateForm(t) \/ TemplateDelete(t)
  \/ PlanForm
  \/ \E j \in Jobs : Download(j) \/ DownloadQueue(j) \/ RemoveJob(j) \/ ResultExpire(j)

WorkerStep(w) == JobRead(w) \/ JobRender(w) \/ JobMail(w) \/ JobStatus(w) \/ Return(w)

Next ==
  \/ UpNext /\ UNCHANGED exVars
  \/ Admin
  \/ \E w \in Workers, j \in Jobs : Deliver(w, j)
  \/ \E w \in Workers : WorkerStep(w) \/ Kill(w) \/ Redeliver(w)

Spec == Init /\ [][Next]_vars

\* Containers start, a worker goes on with the job it has taken, and a message is
\* delivered while a worker is free.
FairSpec ==
  /\ Spec
  /\ UpFairness
  /\ \A w \in Workers : WF_exVars(WorkerStep(w))
  /\ \A j \in Jobs : WF_exVars(\E w \in Workers : Deliver(w, j))
-----------------------------------------------------------------------------
WorkerState ==
  [pc : {"idle", "read", "render", "mail", "status", "return"},
   job : Jobs \cup {NoJob}, outcome : Outcomes \cup {Unknown}, again : BOOLEAN]

TypeOK ==
  /\ UpTypeOK
  /\ scope \in [Templates -> Scopes]
  /\ forced \in Kept \cup {NoTemplate}
  /\ job \in [Jobs -> [row : {"none", "new", "queued", "removed"},
                       local : Outcomes \cup {Unknown}, result : Outcomes \cup {Unknown}]]
  /\ ready \in [Jobs -> Nat] /\ mailed \in [Jobs -> Nat]
  /\ worker \in [Workers -> WorkerState]
  /\ repeats \in 0 .. MaxRepeats

\* A file is mailed again only when a worker was killed over its job or the job
\* outlasted the visibility timeout; that much at-least-once delivery can cost.
MailedOncePerRun == \A j \in Jobs : mailed[j] <= 1 + repeats

\* The docstring of verbose_status: when neither a message nor a worker is left of a
\* job, what is shown names how it ended, even after Celery forgot it.
Underway(j) == ready[j] > 0 \/ \E w \in Workers : worker[w].job = j
FinishedIsShown ==
  \A j \in Jobs : job[j].row = "queued" /\ ~Underway(j) => VerboseStatus(j) \subseteq Outcomes

\* An export that is shown as a success, by Celery or by the row, was mailed.
SuccessMeansMailed ==
  \A j \in Jobs :
    job[j].row = "queued" /\ "SUCCESS" \in VerboseStatus(j) => mailed[j] > 0

\* An export that was accepted comes to its end, or its job is removed.
ExportEnds ==
  \A j \in Jobs : job[j].row = "queued" ~> job[j].row = "removed" \/ job[j].local # Unknown
=============================================================================
