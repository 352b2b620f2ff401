----------------------------- MODULE CorridorsInv -----------------------------
(***************************************************************************)
(* The inductive invariants behind the safety properties of Corridors: how *)
(* far a template has been made from the rows of an answer.                *)
(***************************************************************************)
EXTENDS Corridors

Values(s) == {s[n] : n \in 1 .. Len(s)}

\* Named and Offered (Corridors), for the first d rows.
FieldsTo(rows, d) == {rows[i].field : i \in 1 .. d} \ {NoField}
NamedTo(rows, i, f, d) == rows[i].field = f /\ \A j \in i + 1 .. d : rows[j].field # f
OfferedTo(rows, i, d) ==
  {rows[j].code : j \in {j \in i + 1 .. d : \A l \in i + 1 .. j : rows[l].field = NoField}}

\* A template has the fields the rows name; the choices it has for a field are those
\* that follow its last row.
TemplateOf(t, rows, d) ==
  /\ t \in [FieldsTo(rows, d) -> Seq(Codes)]
  /\ \A f \in DOMAIN t : Len(t[f]) <= d
  /\ \A f \in Fields, i \in 1 .. d : NamedTo(rows, i, f, d) => Values(t[f]) = OfferedTo(rows, i, d)

\* The field that choices are taken for is the one named last.
LastNamed(f, rows, d) ==
  \/ f = NoField /\ d = 0
  \/ /\ f \in Fields
     /\ \E i \in 1 .. d : rows[i].field = f /\ \A l \in i + 1 .. d : rows[l].field = NoField

\* The providers a template offers have been entered into the table for its corridor.
ProvidersKnown(t, k) == Provider \in DOMAIN t => \A c \in Values(t[Provider]) : Known(c, k)

RowsRead(x) == Len(task[x].rows) - Len(task[x].rest)
FetchOK(x) ==
  IF task[x].pc = "row"
  THEN /\ task[x].pair \in Pairs
       /\ RowsRead(x) \in Nat
       /\ \A i \in 1 .. Len(task[x].rest) : task[x].rest[i] = task[x].rows[RowsRead(x) + i]
       /\ LastNamed(task[x].at, task[x].rows, RowsRead(x))
       /\ TemplateOf(task[x].template, task[x].rows, RowsRead(x))
       /\ ProvidersKnown(task[x].template, task[x].pair)
  ELSE task[x].template = Empty

CodesOnce == \A r, s \in provider : r.code = s.code => r = s

TableOK(k) ==
  /\ TemplateOf(corridor[k].template, answered[k], Len(answered[k]))
  /\ ProvidersKnown(corridor[k].template, k)

TablesInv ==
  /\ TypeOK
  /\ CodesOnce
  /\ \A x \in Workers : FetchOK(x)
  /\ \A k \in Pairs : TableOK(k)
=============================================================================
