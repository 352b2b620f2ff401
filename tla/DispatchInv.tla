---------------------------- MODULE DispatchInv ----------------------------
(***************************************************************************)
(* The inductive invariants behind SentOncePerCrash, SentOnlyReleased and  *)
(* AllTried.                                                               *)
(***************************************************************************)
EXTENDS Dispatch

\* Nobody uses the Send Money button, which does not take the lock.
NoButton == \A c \in Clients : client[c].pc # "call"

\* A job that is past sync_job_task's lock and a plan being queued hold the lock.
HoldsLock ==
  /\ \A w \in Workers : worker[w].pc \in {"select", "loop", "call", "release"} => lock = w
  /\ \A b \in Beats : beat[b].pc = "queue" => lock = b

\* A record in a call of create_transaction is still PENDING: nobody but the
\* holder of the lock moves it.
InCall ==
  \A w \in Workers :
    worker[w].pc = "call" =>
      worker[w].cur \in Records /\ rec[worker[w].cur].status = "PENDING"

\* A PENDING record was sent only by workers that were killed before they could save.
Unsent == \A r \in Records : rec[r].status = "PENDING" => sent[r] <= crashes

OnceInv == NoButton /\ HoldsLock /\ InCall /\ Unsent /\ SentOncePerCrash

\* The plan has been READY: no transition leads back.
Released == {"READY", "PROCESSED", "FINALIZED", "ABORTED"}

\* Whoever is at work on a plan's jobs is at work on a plan that has been READY, and
\* sends only its records.
JobsReleased ==
  /\ \A pl \in Plans : queue[pl] > 0 => plan[pl] \in Released
  /\ \A b \in Beats : /\ beat[b].todo \subseteq {pl \in Plans : plan[pl] \in Released}
                      /\ beat[b].pc = "queue" => beat[b].cur \in beat[b].todo
  /\ \A w \in Workers :
       worker[w].pc # "idle" =>
         /\ worker[w].plan \in Plans /\ plan[worker[w].plan] \in Released
         /\ \A r \in worker[w].todo : rec[r].plan = worker[w].plan
         /\ worker[w].pc = "call" => worker[w].cur \in Records
                                       /\ rec[worker[w].cur].plan = worker[w].plan

\* The status a client is about to write does not take a plan back.
WritesReleased ==
  \A c \in Clients :
    client[c].pc \in {"save", "again"} =>
      /\ client[c].plan \in Plans
      /\ plan[client[c].plan] \in Released => client[c].copy \in Released

SentReleased ==
  \A r \in Records : sent[r] > 0 => rec[r].plan \in Plans /\ plan[rec[r].plan] \in Released

ReleasedInv == NoButton /\ JobsReleased /\ WritesReleased /\ SentReleased

\* The records a job has gone past that are still PENDING: nothing but a validation
\* that failed leaves one behind.
Behind(w) ==
  {r \in Records : /\ worker[w].pc \in {"loop", "call"}
                   /\ rec[r].plan = worker[w].plan /\ rec[r].status = "PENDING"
                   /\ r \notin worker[w].todo
                   /\ worker[w].pc = "call" => r # worker[w].cur}

\* What is forgotten, and what the job that runs is about to forget.
Missed == Forgotten \cup UNION {Behind(w) : w \in Workers}

MissedFew == IsFiniteSet(Missed) /\ Cardinality(Missed) <= retries

\* A client marks no plan PROCESSED that is not, and adds to plans that are OPEN.
ClientMarks ==
  \A c \in Clients :
    /\ client[c].pc \in {"save", "again"} /\ client[c].copy = "PROCESSED"
         => plan[client[c].plan] = "PROCESSED"
    /\ client[c].pc = "add" => client[c].plan \in Plans /\ plan[client[c].plan] = "OPEN"

TriedInv == MissedFew /\ ClientMarks
=============================================================================
