------------------------------ MODULE Corridors ------------------------------
(***************************************************************************)
(* Western Union's data and access services: which corridors (country and  *)
(* currency) it serves, the template of the fields a wallet transfer must  *)
(* have there, the codes of the mobile money providers, and the check of a *)
(* wallet payload against the template.  Answers of the service are read   *)
(* row by row, a row at a time is stored, and nothing is rolled back when  *)
(* a later row raises.                                                     *)
(***************************************************************************)
EXTENDS PayloadLayers, Naturals, Sequences, FiniteSets

CONSTANTS
  Pairs,       \* destination country and currency
  Fields,      \* paths of a payload that a template may speak of
  Provider,    \* the field wallet_details.service_provider_code
  Codes,       \* values of a field
  NoPair, NoField, NoCode,
  Workers,     \* processes that refresh the corridors or serve the pages of the admin
  MaxRows      \* bound on the rows of a template

ASSUME CorridorsAssumption ==
  /\ NoPair \notin Pairs /\ NoField \notin Fields /\ NoCode \notin Codes
  /\ Provider \in Fields
  /\ MaxRows \in Nat

\* A row of an answer names a field or gives a choice for the field named last.
FieldRow(f) == [field |-> f, code |-> NoCode]
ChoiceRow(c) == [field |-> NoField, code |-> c]
TemplateRow == {FieldRow(f) : f \in Fields} \cup {ChoiceRow(c) : c \in Codes}
Answers == UNION {[1 .. n -> TemplateRow] : n \in 0 .. MaxRows}

\* A template holds None for a field without a choice, the code of an only choice,
\* or the list of the choices: here always the sequence of the choices.
Empty == <<>>
Choices == UNION {[1 .. n -> Codes] : n \in 0 .. MaxRows}
Templates == UNION {[fs -> Choices] : fs \in SUBSET Fields}

VARIABLES
  corridor,   \* the table of corridors: the template of each
  provider,   \* the table of provider codes: code and corridor; a code is unique
  task,       \* what each process is doing
  answered    \* the answer that the template of each corridor was made from

vars == <<corridor, provider, task, answered>>

Idle == [pc |-> "idle", pair |-> NoPair, rows |-> <<>>, rest |-> <<>>, at |-> NoField,
         template |-> Empty, page |-> {}, listed |-> {}]
Served == {k \in Pairs : corridor[k].served}

Init ==
  /\ corridor = [k \in Pairs |-> [served |-> FALSE, template |-> Empty]]
  /\ provider = {}
  /\ task = [x \in Workers |-> Idle]
  /\ answered = [k \in Pairs |-> <<>>]

End(x) == task' = [task EXCEPT ![x] = Idle]
Known(c, k) == [code |-> c, pair |-> k] \in provider
Taken(c, k) == \E r \in provider : r.code = c /\ r.pair # k

-----------------------------------------------------------------------------
(* das_countries_currencies and das_delivery_services.                     *)

RefreshBegin(x) ==
  /\ task[x] = Idle
  /\ task' = [task EXCEPT ![x] = [Idle EXCEPT !.pc = "page", !.listed = Pairs]]
  /\ UNCHANGED <<corridor, provider, answered>>

\* Mutant: the query filters are not moved to the last pair of the page.
PageReadAgain(x) ==
  /\ task[x].pc = "page"
  /\ \E page \in SUBSET task[x].listed \ {{}} :
       task' = [task EXCEPT ![x] = [task[x] EXCEPT !.pc = "services", !.page = page]]
  /\ UNCHANGED <<corridor, provider, answered>>

\* One page of the list, from the last pair of the page before; an error ends it.
PageRead(x) ==
  /\ task[x].pc = "page"
  /\ \/ \E page \in SUBSET task[x].listed \ {{}} :
          task' = [task EXCEPT ![x] = [task[x] EXCEPT !.pc = "services", !.page = page,
                                                      !.listed = task[x].listed \ page]]
     \/ End(x)
  /\ UNCHANGED <<corridor, provider, answered>>

\* A pair of the page: its corridor is created if it is served by wallet transfers;
\* after the last one the next page is read, if there is more data.  An answer of
\* another shape raises, which ends the refresh.
ServicesRead(x, k) ==
  /\ task[x].pc = "services" /\ k \in task[x].page
  /\ \/ /\ \E served \in BOOLEAN : corridor' = [corridor EXCEPT ![k].served = @ \/ served]
        /\ IF task[x].page # {k} THEN task' = [task EXCEPT ![x].page = @ \ {k}]
           ELSE IF task[x].listed = {} THEN End(x)
           ELSE task' = [task EXCEPT ![x].page = {}, ![x].pc = "page"]
     \/ End(x) /\ UNCHANGED corridor
  /\ UNCHANGED <<provider, answered>>

-----------------------------------------------------------------------------
(* das_delivery_option_template.                                           *)

\* The answer is read before the corridor; one that has a template keeps it.
FetchBegin(x, k, rows) ==
  /\ task[x] = Idle
  /\ k \in Served /\ corridor[k].template = Empty
  /\ task' = [task EXCEPT ![x] = [Idle EXCEPT !.pc = "row", !.pair = k, !.rows = rows,
                                              !.rest = rows]]
  /\ UNCHANGED <<corridor, provider, answered>>

\* Mutant: the choices that follow are taken for another field.
FieldReadStale(x) ==
  /\ task[x].pc = "row" /\ task[x].rest # <<>>
  /\ LET f == Head(task[x].rest).field
         t == task[x].template
         a == task[x].at
     IN  /\ f # NoField
         /\ task' = [task EXCEPT ![x] =
              [task[x] EXCEPT !.rest = Tail(task[x].rest), !.at = IF a = NoField THEN f ELSE a,
                        !.template = [g \in DOMAIN t \cup {f} |-> IF g = f THEN <<>> ELSE t[g]]]]
  /\ UNCHANGED <<corridor, provider, answered>>

\* A row that names a field: whatever the template had for it is dropped.
FieldRead(x) ==
  /\ task[x].pc = "row" /\ task[x].rest # <<>>
  /\ LET f == Head(task[x].rest).field
         t == task[x].template
     IN  /\ f # NoField
         /\ task' = [task EXCEPT ![x] =
              [task[x] EXCEPT !.rest = Tail(task[x].rest), !.at = f,
                        !.template = [g \in DOMAIN t \cup {f} |-> IF g = f THEN <<>> ELSE t[g]]]]
  /\ UNCHANGED <<corridor, provider, answered>>

\* Mutant: IntegrityError is caught, and the loop goes on.
ChoiceReadLenient(x) ==
  /\ task[x].pc = "row" /\ task[x].rest # <<>>
  /\ LET c == Head(task[x].rest).code
         k == task[x].pair
         f == task[x].at
         t == task[x].template
         entered == IF f = Provider /\ ~Taken(c, k) THEN {[code |-> c, pair |-> k]} ELSE {}
     IN  /\ c # NoCode
         /\ provider' = provider \cup entered
         /\ \/ f = NoField /\ End(x)
            \/ /\ f # NoField
               /\ task' = [task EXCEPT ![x] =
                    [task[x] EXCEPT !.rest = Tail(task[x].rest),
                                    !.template = [t EXCEPT ![f] = Append(t[f], c)]]]
  /\ UNCHANGED <<corridor, answered>>

\* A row that gives a choice; a provider's is entered into the table of codes,
\* which raises IntegrityError when another corridor has the code or it has
\* another description, as does (IndexError) a choice before the first field:
\* what was stored so far stays.
ChoiceRead(x) ==
  /\ task[x].pc = "row" /\ task[x].rest # <<>>
  /\ LET c == Head(task[x].rest).code
         k == task[x].pair
         f == task[x].at
         t == task[x].template
     IN  /\ c # NoCode
         /\ \/ /\ f # NoField /\ (f = Provider => ~Taken(c, k))
               /\ task' = [task EXCEPT ![x] =
                    [task[x] EXCEPT !.rest = Tail(task[x].rest),
                                    !.template = [t EXCEPT ![f] = Append(t[f], c)]]]
               /\ provider' = IF f = Provider THEN provider \cup {[code |-> c, pair |-> k]}
                                              ELSE provider
            \/ /\ \/ f = NoField
                  \/ f = Provider /\ \E r \in provider : r.code = c
               /\ End(x)
               /\ UNCHANGED provider
  /\ UNCHANGED <<corridor, answered>>

\* Mutant: the rows are stored instead.
TemplateSaveRaw(x) ==
  /\ task[x].pc = "row" /\ task[x].rest = <<>>
  /\ corridor' = [corridor EXCEPT ![task[x].pair].template = task[x].rows]
  /\ answered' = [answered EXCEPT ![task[x].pair] = task[x].rows]
  /\ End(x)
  /\ UNCHANGED provider

\* After the last row the template is stored.
TemplateSave(x) ==
  /\ task[x].pc = "row" /\ task[x].rest = <<>>
  /\ corridor' = [corridor EXCEPT ![task[x].pair].template = task[x].template]
  /\ answered' = [answered EXCEPT ![task[x].pair] = task[x].rows]
  /\ End(x)
  /\ UNCHANGED provider

\* The admin adds a corridor by hand, without a template.
CorridorAdd(k) ==
  /\ k \notin Served
  /\ corridor' = [corridor EXCEPT ![k].served = TRUE]
  /\ UNCHANGED <<provider, task, answered>>

-----------------------------------------------------------------------------
(* prepare_transaction and integrate_payload.                              *)

Payloads == [Fields -> Codes \cup {NoCode}]
Accepted(t, payload) ==
  \A f \in DOMAIN t :
    /\ t[f] = <<>> => payload[f] # NoCode
    /\ Len(t[f]) > 1 => \E i \in DOMAIN t[f] : payload[f] = t[f][i]

\* Mutant: an only choice does not replace what the payload has.
IntegratedNot(t, payload) == payload

Integrated(t, payload) ==
  [f \in Fields |-> IF f \in DOMAIN t /\ Len(t[f]) = 1 THEN t[f][1] ELSE payload[f]]

-----------------------------------------------------------------------------
Refresh(x) == RefreshBegin(x) \/ PageRead(x) \/ \E k \in Pairs : ServicesRead(x, k)
Fetch(x) ==
  \/ \E k \in Pairs, rows \in Answers : FetchBegin(x, k, rows)
  \/ FieldRead(x) \/ ChoiceRead(x) \/ TemplateSave(x)

Next ==
  \/ \E x \in Workers : Refresh(x) \/ Fetch(x)
  \/ \E k \in Pairs : CorridorAdd(k)

Spec == Init /\ [][Next]_vars

\* A refresh that has begun goes on.
FairSpec ==
  Spec /\ \A x \in Workers : WF_vars(PageRead(x) \/ \E k \in Pairs : ServicesRead(x, k))
-----------------------------------------------------------------------------
Task == [pc : {"idle", "page", "services", "row"}, pair : Pairs \cup {NoPair},
         rows : Answers, rest : Answers, at : Fields \cup {NoField},
         template : Templates, page : SUBSET Pairs, listed : SUBSET Pairs]

TypeOK ==
  /\ corridor \in [Pairs -> [served : BOOLEAN, template : Templates]]
  /\ provider \in SUBSET [code : Codes, pair : Pairs]
  /\ task \in [Workers -> Task]
  /\ answered \in [Pairs -> Answers]

\* Runs that raise halfway leave codes behind, but never a template: every provider
\* a stored template offers is in the table, for that very corridor, and for no other.
CodesKnown ==
  \A k \in Served :
    Provider \in DOMAIN corridor[k].template =>
      \A i \in DOMAIN corridor[k].template[Provider] :
        LET c == corridor[k].template[Provider][i]
        IN  Known(c, k) /\ ~Taken(c, k)

\* What the service asks for, read off its answer: the choices of a field are those
\* between the row that names it last and the next field.
Named(rows, i, f) == rows[i].field = f /\ \A j \in i + 1 .. Len(rows) : rows[j].field # f
Offered(rows, i) ==
  {rows[j].code : j \in {j \in i + 1 .. Len(rows) :
                            \A l \in i + 1 .. j : rows[l].field = NoField}}
Conforms(rows, payload) ==
  \A f \in Fields, i \in DOMAIN rows :
    Named(rows, i, f) => IF Offered(rows, i) = {} THEN payload[f] # NoCode
                                                  ELSE payload[f] \in Offered(rows, i)

\* Whatever a record's payload has, a wallet transfer that the check lets through
\* is one that conforms to the service's answer for its corridor.
WalletConforms ==
  \A k \in Served, payload \in Payloads :
    Accepted(corridor[k].template, payload) =>
      Conforms(answered[k], Integrated(corridor[k].template, payload))

\* A refresh of the corridors comes to its end.
RefreshEnds == \A x \in Workers : task[x].pc \in {"page", "services"} ~> task[x] = Idle
=============================================================================
