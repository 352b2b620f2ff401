------------------------------ MODULE MoneyGram ------------------------------
(***************************************************************************)
(* Payment records sent through MoneyGram: the client (draft, commit,      *)
(* status, refund), the buttons and jobs that call it, and the webhook.    *)
(* A payment takes two calls: a draft transaction is created, whose id is  *)
(* kept as fsp_code, and that draft is committed, which moves the money    *)
(* and gives the reference number kept as auth_code.  Both run in a        *)
(* database transaction that locks the row and is rolled back by any       *)
(* exception; every other writer reads the row without a lock and writes   *)
(* every column of its copy back, once the lock is free.                   *)
(***************************************************************************)
EXTENDS PaymentFlow, Naturals, FiniteSets

CONSTANTS
  Records,       \* payment records sent through MoneyGram
  Drafts,        \* draft transactions MoneyGram can create (bounds the attempts)
  NoRecord, NoDraft, NoProc,
  Senders,       \* processes that draft and commit: jobs, admin buttons
  Hooks,         \* web workers that serve the webhook
  Operators,     \* processes that ask for the status, refund, edit or cancel a record
  MaxEvents,     \* bound on the events MoneyGram sends of its own accord
  TouchPending   \* rows of records still PENDING may be edited, too

ASSUME ConstantsAssumption ==
  /\ NoRecord \notin Records /\ NoDraft \notin Drafts
  /\ NoProc \notin Senders \cup Hooks \cup Operators
  /\ Senders \cap Hooks = {} /\ Senders \cap Operators = {} /\ Hooks \cap Operators = {}
  /\ MaxEvents \in Nat
  /\ TouchPending \in BOOLEAN

VARIABLES
  row,     \* the database: one row per record
  lock,    \* the process whose transaction holds the lock of each row
  task,    \* what each process is doing, with its copy of the row
  owner,   \* MoneyGram: the record each draft was created for
  money,   \* MoneyGram: the state of the money behind each draft
  events   \* every event MoneyGram has sent; it may be delivered late,
           \* repeatedly, out of order or never

vars == <<row, lock, task, owner, money, events>>
Procs == Senders \cup Hooks \cup Operators

\* auth_code is the reference number given for the commit of a draft.
Row == [status : RecordStates, fsp : Drafts \cup {NoDraft}, auth : Drafts \cup {NoDraft}]
NewRow == [status |-> "PENDING", fsp |-> NoDraft, auth |-> NoDraft]

MoneyStates == {"none", "draft", "committed", "received", "rejected", "refunded", "closed"}

\* SENT stands for AVAILABLE and IN TRANSIT as well, RECEIVED for DELIVERED;
\* OTHER for UNFUNDED and every type the client does not know.
EventTypes == {"SENT", "RECEIVED", "REJECTED", "REFUNDED", "CLOSED", "OTHER"}
Event == [type : EventTypes, draft : Drafts]

PCs == {"idle", "draft", "post", "draftSave", "commit", "put", "commitSave",
        "apply", "again", "ask", "update", "get", "note", "refund", "refunded"}
\* Whether the draft is to be committed next, the copy in hand, the draft of the
\* answer, the tries left of perform_request and the status to be applied.
Idle == [pc |-> "idle", goOn |-> FALSE, rec |-> NoRecord, copy |-> NewRow,
         draft |-> NoDraft, left |-> 0, arg |-> "OTHER"]
Task == [pc : PCs, goOn : BOOLEAN, rec : Records \cup {NoRecord}, copy : Row,
         draft : Drafts \cup {NoDraft}, left : 0..2, arg : EventTypes]

Init ==
  /\ row = [r \in Records |-> NewRow]
  /\ lock = [r \in Records |-> NoProc]
  /\ task = [p \in Procs |-> Idle]
  /\ owner = [d \in Drafts |-> NoRecord]
  /\ money = [d \in Drafts |-> "none"]
  /\ events = {}

Goto(p, t) == task' = [task EXCEPT ![p] = t]
External == <<owner, money, events>>
Committed(d) == money[d] \notin {"none", "draft"}
OneTryLess(p) == [task[p] EXCEPT !.left = task[p].left - 1]

\* A save outside a transaction waits for the lock of the row.
Save(r, x) ==
  /\ lock[r] = NoProc
  /\ row' = [row EXCEPT ![r] = x]
Lock(p, r) == lock[r] = NoProc /\ lock' = [lock EXCEPT ![r] = p]
Holds(p) == task[p].rec \in Records /\ lock[task[p].rec] = p
Unlock(p) == lock' = [lock EXCEPT ![task[p].rec] = NoProc]

-----------------------------------------------------------------------------
(* MoneyGramClient.create_transaction, draft_transaction, commit_transaction. *)

\* The Draft and Commit buttons, and create_transaction, which drafts only a
\* record it reads without fsp_code and then goes on to commit.
Begin(p, r) ==
  /\ task[p] = Idle
  /\ \/ \E create \in BOOLEAN :
          /\ create => row[r].fsp = NoDraft
          /\ Goto(p, [Idle EXCEPT !.pc = "draft", !.goOn = create, !.rec = r])
     \/ Goto(p, [Idle EXCEPT !.pc = "commit", !.rec = r])
  /\ UNCHANGED <<row, lock, External>>

\* Mutant: the row is read without select_for_update().
DraftLockUnlocked(p) ==
  /\ task[p].pc = "draft"
  /\ LET x == row[task[p].rec]
     IN  /\ x.fsp = NoDraft /\ x.auth = NoDraft /\ x.status = "PENDING"
         /\ Goto(p, [task[p] EXCEPT !.pc = "post", !.copy = x, !.left = 2])
  /\ UNCHANGED <<row, lock, External>>

\* The row is read under its lock; PotentialDuplicateError if it has a code,
\* TransitionNotAllowed if it is not PENDING, and nothing has changed.
DraftLock(p) ==
  /\ task[p].pc = "draft"
  /\ LET x == row[task[p].rec]
     IN  IF x.fsp = NoDraft /\ x.auth = NoDraft /\ x.status = "PENDING"
           THEN /\ Lock(p, task[p].rec)
                /\ Goto(p, [task[p] EXCEPT !.pc = "post", !.copy = x, !.left = 2])
           ELSE /\ lock[task[p].rec] = NoProc
                /\ Goto(p, Idle)
                /\ UNCHANGED lock
  /\ UNCHANGED <<row, External>>

\* One try of perform_request: MoneyGram creates a draft or not, and unless the
\* answer is 200 the call is made once more.
Post(p) ==
  /\ task[p].pc = "post" /\ task[p].left > 0
  /\ \/ \E d \in Drafts :
          /\ owner[d] = NoRecord
          /\ owner' = [owner EXCEPT ![d] = task[p].rec]
          /\ money' = [money EXCEPT ![d] = "draft"]
          /\ \/ Goto(p, [task[p] EXCEPT !.pc = "draftSave", !.draft = d])
             \/ Goto(p, OneTryLess(p))
     \/ /\ Goto(p, OneTryLess(p))
        /\ UNCHANGED <<owner, money>>
  /\ UNCHANGED <<row, lock, events>>

\* The record is failed, and the transaction that says so is committed.
Failed(p) ==
  /\ row' = [row EXCEPT ![task[p].rec] = [task[p].copy EXCEPT !.status = RecordFlow.fail.to]]
  /\ Unlock(p) /\ Goto(p, Idle)
  /\ UNCHANGED External

\* prepare_transaction misses a key or a number of the payload.
PayloadFail(p) ==
  /\ task[p].pc = "post" /\ task[p].left = 2
  /\ Failed(p)

\* Mutant: a status the record does not have is saved.
DraftFailMisspelt(p) ==
  /\ task[p].pc = "post" /\ task[p].left = 0
  /\ row' = [row EXCEPT ![task[p].rec] = [task[p].copy EXCEPT !.status = "FAILED"]]
  /\ Unlock(p) /\ Goto(p, Idle)
  /\ UNCHANGED External

\* The last answer is an error.
DraftFail(p) ==
  /\ task[p].pc = "post" /\ task[p].left = 0
  /\ Failed(p)

\* post_transaction keeps the draft's id; create_transaction goes on to commit.
DraftSave(p) ==
  /\ task[p].pc = "draftSave"
  /\ row' = [row EXCEPT ![task[p].rec] = [task[p].copy EXCEPT !.fsp = task[p].draft]]
  /\ lock' = [lock EXCEPT ![task[p].rec] = NoProc]
  /\ Goto(p, IF task[p].goOn THEN [Idle EXCEPT !.pc = "commit", !.rec = task[p].rec] ELSE Idle)
  /\ UNCHANGED External

\* The row is read again under its lock: DoesNotExist without fsp_code,
\* PotentialDuplicateError with an auth_code.  The status is not looked at.
CommitLock(p) ==
  /\ task[p].pc = "commit"
  /\ LET x == row[task[p].rec]
     IN  IF x.fsp # NoDraft /\ x.auth = NoDraft
           THEN /\ Lock(p, task[p].rec)
                /\ Goto(p, [task[p] EXCEPT !.pc = "put", !.copy = x, !.left = 2])
           ELSE /\ lock[task[p].rec] = NoProc
                /\ Goto(p, Idle)
                /\ UNCHANGED lock
  /\ UNCHANGED <<row, External>>

\* One try of the commit.  Committing a draft once more moves no second money:
\* MoneyGram answers with its reference number again, or with an error.
Put(p) ==
  /\ task[p].pc = "put" /\ task[p].left > 0
  /\ LET d == task[p].copy.fsp
         answered == [task[p] EXCEPT !.pc = "commitSave", !.draft = d]
     IN  \/ /\ money' = [money EXCEPT ![d] = IF @ = "draft" THEN "committed" ELSE @]
            /\ Goto(p, answered) \/ Goto(p, OneTryLess(p))
         \/ /\ Goto(p, OneTryLess(p))
            /\ UNCHANGED money
  /\ UNCHANGED <<row, lock, owner, events>>

\* Mutant: the answer is kept on the client, which every thread shares.
CommitSaveShared(p) ==
  /\ task[p].pc = "commitSave"
  /\ task[p].copy.status \in RecordFlow.store.from
  /\ \E d \in Drafts :
       /\ owner[d] # NoRecord
       /\ row' = [row EXCEPT ![task[p].rec] =
                    [task[p].copy EXCEPT !.auth = d, !.status = RecordFlow.store.to]]
  /\ Unlock(p) /\ Goto(p, Idle)
  /\ UNCHANGED External

\* post_commit: the reference number is saved by flow.store, and by nothing else
\* when the record is not PENDING (TransitionNotAllowed is caught).
CommitSave(p) ==
  /\ task[p].pc = "commitSave"
  /\ IF task[p].copy.status \in RecordFlow.store.from
       THEN row' = [row EXCEPT ![task[p].rec] =
                      [task[p].copy EXCEPT !.auth = task[p].draft,
                                           !.status = RecordFlow.store.to]]
       ELSE UNCHANGED row
  /\ Unlock(p) /\ Goto(p, Idle)
  /\ UNCHANGED External

\* A commit without a good answer, an exception or a kill: the transaction ends
\* with nothing written and the lock is free.
LetGo(p) ==
  /\ Holds(p)
  /\ Unlock(p) /\ Goto(p, Idle)
  /\ UNCHANGED <<row, External>>

-----------------------------------------------------------------------------
(* update_status, and its callers: webhook, status query and refund.       *)

\* The statuses a record takes note of in each of its states.
MgEnabled ==
  [s \in RecordStates |->
     CASE s = "PENDING"                    -> {"SENT", "CLOSED"}
       [] s = "TRANSFERRED_TO_FSP"         -> {"RECEIVED", "REJECTED", "REFUNDED", "CLOSED"}
       [] s = "TRANSFERRED_TO_BENEFICIARY" -> {"CLOSED"}
       [] OTHER                            -> {}]

\* Mutant: money that is on its way is taken for money received.
MgTransitionEager ==
  [type \in EventTypes \ {"OTHER"} |->
     CASE type \in {"SENT", "RECEIVED"} -> RecordFlow.confirm
       [] type = "REJECTED" -> RecordFlow.purge
       [] type = "REFUNDED" -> RecordFlow.refund
       [] type = "CLOSED"   -> RecordFlow.fail]

\* The transition each status asks for.
MgTransition ==
  [type \in EventTypes \ {"OTHER"} |->
     CASE type = "SENT"     -> RecordFlow.store
       [] type = "RECEIVED" -> RecordFlow.confirm
       [] type = "REJECTED" -> RecordFlow.purge
       [] type = "REFUNDED" -> RecordFlow.refund
       [] type = "CLOSED"   -> RecordFlow.fail]

\* The copy after update_status, which saves it only if the status is noted.
Noted(x, type) == type \in MgEnabled[x.status]
Updated(x, type) == [x EXCEPT !.status = MgTransition[type].to]

\* verify_signature: what bears MoneyGram's signature is something MoneyGram has sent.
Signed(e) == e \in events

\* MoneyGramWebhook.post: the record is looked up by the draft's id.
HookRead(p, e, r) ==
  /\ task[p] = Idle
  /\ Signed(e)
  /\ row[r].fsp = e.draft
  /\ Goto(p, [Idle EXCEPT !.pc = "apply", !.rec = r, !.copy = row[r], !.arg = e.type])
  /\ UNCHANGED <<row, lock, External>>

\* update_record saves a noted status, and saves the copy again in any case.
HookApply(p) ==
  /\ task[p].pc = "apply"
  /\ LET x == task[p].copy
     IN  IF Noted(x, task[p].arg)
           THEN /\ Save(task[p].rec, Updated(x, task[p].arg))
                /\ Goto(p, [task[p] EXCEPT !.pc = "again", !.copy = Updated(x, task[p].arg)])
           ELSE /\ Goto(p, [task[p] EXCEPT !.pc = "again"])
                /\ UNCHANGED row
  /\ UNCHANGED <<lock, External>>

\* The closing save of the webhook and of refund, and the only save of a writer
\* of other columns and of cancel_records.
SaveAgain(p) ==
  /\ task[p].pc = "again"
  /\ Save(task[p].rec, task[p].copy)
  /\ Goto(p, Idle)
  /\ UNCHANGED <<lock, External>>

\* A kill or an exception between the steps of a process without a lock.
Crash(p) ==
  /\ task[p] # Idle /\ ~Holds(p)
  /\ Goto(p, Idle)
  /\ UNCHANGED <<row, lock, External>>

\* status_update: the row is read, MoneyGram is asked, and a noted status is
\* saved.  A record without fsp_code, or an error, raises.
StatusRead(p, r) ==
  /\ task[p] = Idle
  /\ row[r].fsp # NoDraft
  /\ Goto(p, [Idle EXCEPT !.pc = "ask", !.rec = r, !.copy = row[r]])
  /\ UNCHANGED <<row, lock, External>>

\* What MoneyGram answers about a transaction.
StatusOf ==
  [m \in MoneyStates |->
     CASE m = "committed" -> "SENT"     [] m = "received" -> "RECEIVED"
       [] m = "rejected"  -> "REJECTED" [] m = "refunded" -> "REFUNDED"
       [] m = "closed"    -> "CLOSED"   [] OTHER -> "OTHER"]

StatusAsk(p) ==
  /\ task[p].pc = "ask"
  /\ Goto(p, [task[p] EXCEPT !.pc = "update", !.arg = StatusOf[money[task[p].copy.fsp]]])
  /\ UNCHANGED <<row, lock, External>>

StatusUpdate(p) ==
  /\ task[p].pc = "update"
  /\ IF Noted(task[p].copy, task[p].arg)
       THEN Save(task[p].rec, Updated(task[p].copy, task[p].arg))
       ELSE UNCHANGED row
  /\ Goto(p, Idle)
  /\ UNCHANGED <<lock, External>>

\* refund: the id is read and MoneyGram is asked for a refund ...
RefundRead(p, r) ==
  /\ task[p] = Idle
  /\ row[r].fsp # NoDraft
  /\ Goto(p, [Idle EXCEPT !.pc = "get", !.rec = r, !.draft = row[r].fsp])
  /\ UNCHANGED <<row, lock, External>>

\* ... the record is read again by that id ...
RefundGet(p) ==
  /\ task[p].pc = "get"
  /\ Committed(task[p].draft)
  /\ row[task[p].rec].fsp = task[p].draft
  /\ Goto(p, [task[p] EXCEPT !.pc = "note", !.copy = row[task[p].rec]])
  /\ UNCHANGED <<row, lock, External>>

\* ... a message is saved ...
RefundNote(p) ==
  /\ task[p].pc = "note"
  /\ Save(task[p].rec, task[p].copy)
  /\ Goto(p, [task[p] EXCEPT !.pc = "refund"])
  /\ UNCHANGED <<lock, External>>

\* ... the refund is committed, whose answer may be lost ...
RefundPut(p) ==
  /\ task[p].pc = "refund"
  /\ money[task[p].draft] = "committed"
  /\ money' = [money EXCEPT ![task[p].draft] = "refunded"]
  /\ events' = events \cup {[type |-> "REFUNDED", draft |-> task[p].draft]}
  /\ Goto(p, [task[p] EXCEPT !.pc = "refunded"]) \/ Goto(p, Idle)
  /\ UNCHANGED <<row, lock, owner>>

\* ... and REFUND is recorded, if the record is TRANSFERRED_TO_FSP.
RefundSave(p) ==
  /\ task[p].pc = "refunded"
  /\ LET x == task[p].copy
     IN  IF Noted(x, "REFUNDED")
           THEN /\ Save(task[p].rec, Updated(x, "REFUNDED"))
                /\ Goto(p, [task[p] EXCEPT !.pc = "again", !.copy = Updated(x, "REFUNDED")])
           ELSE /\ Goto(p, [task[p] EXCEPT !.pc = "again"])
                /\ UNCHANGED row
  /\ UNCHANGED <<lock, External>>

\* A REST update, a save in the admin or the mass-refund action, which saves the
\* payload it has changed: the whole row read before is written back.
EditRead(p, r) ==
  /\ task[p] = Idle
  /\ TouchPending \/ row[r].status # "PENDING"
  /\ Goto(p, [Idle EXCEPT !.pc = "again", !.rec = r, !.copy = row[r]])
  /\ UNCHANGED <<row, lock, External>>

\* cancel_records cancels the copies it selected while TRANSFERRED_TO_FSP; no
\* provider is asked.
CancelRead(p, r) ==
  /\ task[p] = Idle
  /\ row[r].status = "TRANSFERRED_TO_FSP"
  /\ Goto(p, [Idle EXCEPT !.pc = "again", !.rec = r,
                         !.copy = [row[r] EXCEPT !.status = RecordFlow.cancel.to]])
  /\ UNCHANGED <<row, lock, External>>

-----------------------------------------------------------------------------
(* MoneyGram, as docs/src/mg/statuses.md describes it.                     *)

\* From, to and the event sent.
MgMoves ==
  {<<"draft", "draft", "OTHER">>,         <<"committed", "committed", "SENT">>,
   <<"committed", "received", "RECEIVED">>, <<"committed", "rejected", "REJECTED">>,
   <<"committed", "closed", "CLOSED">>,   <<"received", "closed", "CLOSED">>}

MgStep(d) ==
  /\ Cardinality(events) < MaxEvents
  /\ \E m \in MgMoves :
       /\ money[d] = m[1]
       /\ money' = [money EXCEPT ![d] = m[2]]
       /\ events' = events \cup {[type |-> m[3], draft |-> d]}
  /\ UNCHANGED <<row, lock, task, owner>>

-----------------------------------------------------------------------------
SendStep(p) ==
  \/ DraftLock(p) \/ Post(p) \/ PayloadFail(p) \/ DraftFail(p) \/ DraftSave(p)
  \/ CommitLock(p) \/ Put(p) \/ CommitSave(p) \/ LetGo(p)

OperatorStep(p) ==
  \/ StatusAsk(p) \/ StatusUpdate(p) \/ RefundGet(p) \/ RefundNote(p)
  \/ RefundPut(p) \/ RefundSave(p) \/ SaveAgain(p)

Next ==
  \/ \E p \in Senders : (\E r \in Records : Begin(p, r)) \/ SendStep(p) \/ Crash(p)
  \/ \E p \in Hooks :
       (\E e \in events, r \in Records : HookRead(p, e, r)) \/ HookApply(p) \/ SaveAgain(p) \/ Crash(p)
  \/ \E p \in Operators :
       \/ \E r \in Records : 
            StatusRead(p, r) \/ RefundRead(p, r) \/ EditRead(p, r) \/ CancelRead(p, r)
       \/ OperatorStep(p) \/ Crash(p)
  \/ \E d \in Drafts : MgStep(d)

Spec == Init /\ [][Next]_vars

-----------------------------------------------------------------------------
TypeOK ==
  /\ row \in [Records -> Row]
  /\ lock \in [Records -> Procs \cup {NoProc}]
  /\ task \in [Procs -> Task]
  /\ owner \in [Drafts -> Records \cup {NoRecord}]
  /\ money \in [Drafts -> MoneyStates]
  /\ events \subseteq Event

\* A draft whose money moves stays on the row of its record, whatever answer is
\* lost, whoever crashes and whichever stale row is saved: its events find the
\* record, and as a row carries one draft, no record is paid twice.  Holds while
\* rows still PENDING are not edited (~TouchPending).
CommittedOnRow ==
  \A d \in Drafts : Committed(d) => owner[d] \in Records /\ row[owner[d]].fsp = d

\* The reference number of a record was given for the draft the record carries,
\* which was created for this record, whatever other draft was tried in between.
OwnReference ==
  \A r \in Records :
    row[r].auth # NoDraft =>
      /\ row[r].auth = row[r].fsp
      /\ owner[row[r].auth] = r /\ Committed(row[r].auth)

\* The promise of the payout book, read off the table and MoneyGram.
claimBar ==
  [r \in Records |->
     CASE row[r].status = "PENDING"                       -> "unsent"
       [] row[r].status \in {"CANCELLED", "ERROR"}        -> "closed"
       [] row[r].status = "TRANSFERRED_TO_BENEFICIARY"    -> "paid"
       [] OTHER                                           -> "sent"]
CommittedFor(r) == {d \in Drafts : owner[d] = r /\ Committed(d)}
PaidOnce(d) == [type |-> "RECEIVED", draft |-> d] \in events \/ money[d] = "received"
factBar ==
  [r \in Records |->
     CASE \E c, d \in CommittedFor(r) : c # d -> "twice"  \* no fact of the book
       [] \A c, d \in CommittedFor(r) : c = d ->
            IF \E d \in CommittedFor(r) : PaidOnce(d) THEN "paid"
            ELSE IF CommittedFor(r) # {} THEN "accepted" ELSE "nothing"]
Book == INSTANCE PayoutBook WITH claim <- claimBar, fact <- factBar
BookSpec == Book!Spec
=============================================================================
