---------------------------- MODULE CorridorsProofs ----------------------------
(***************************************************************************)
(* Corridors for any number of corridors, fields, codes, rows and workers, *)
(* and the payloads of PayloadLayers for all keys, mechanisms and          *)
(* configurations.                                                         *)
(***************************************************************************)
EXTENDS CorridorsInv, SequenceTheorems, TLAPS

(***************************************************************************)
(* Answers and choices are sequences of bounded length.                    *)
(***************************************************************************)
LEMMA AnswersAre ==
  \A s : s \in Answers <=> s \in Seq(TemplateRow) /\ Len(s) <= MaxRows
<1>1. ASSUME NEW s \in Answers PROVE s \in Seq(TemplateRow) /\ Len(s) <= MaxRows
  <2>1. PICK n \in 0 .. MaxRows : s \in [1 .. n -> TemplateRow]
    BY DEF Answers
  <2>2. s \in Seq(TemplateRow)
    BY <2>1, CorridorsAssumption, IsASeq
  <2>3. Len(s) = n
    BY <2>1, <2>2, CorridorsAssumption, LenProperties
  <2> QED BY <2>1, <2>2, <2>3, CorridorsAssumption
<1>2. ASSUME NEW s \in Seq(TemplateRow), Len(s) <= MaxRows PROVE s \in Answers
  <2>1. Len(s) \in 0 .. MaxRows /\ s \in [1 .. Len(s) -> TemplateRow]
    BY <1>2, CorridorsAssumption, LenProperties
  <2> QED BY <2>1 DEF Answers
<1> QED BY <1>1, <1>2

LEMMA ChoicesAre ==
  \A s \in Seq(Codes) : Len(s) <= MaxRows => s \in Choices
<1> SUFFICES ASSUME NEW s \in Seq(Codes), Len(s) <= MaxRows PROVE s \in Choices
  OBVIOUS
<1>1. Len(s) \in 0 .. MaxRows /\ s \in [1 .. Len(s) -> Codes]
  BY CorridorsAssumption, LenProperties
<1> QED BY <1>1 DEF Choices

\* A row gives a choice or names a field.
LEMMA RowKinds ==
  ASSUME NEW r \in TemplateRow
  PROVE  \/ r.field \in Fields /\ r.field # NoField /\ r.code = NoCode
         \/ r.field = NoField /\ r.code \in Codes /\ r.code # NoCode
  BY CorridorsAssumption DEF TemplateRow, FieldRow, ChoiceRow

-----------------------------------------------------------------------------
(***************************************************************************)
(* One more row.                                                           *)
(***************************************************************************)
LEMMA EmptyIsTemplate ==
  ASSUME NEW rows
  PROVE  TemplateOf(Empty, rows, 0) /\ \A k : ProvidersKnown(Empty, k)
<1>1. FieldsTo(rows, 0) = {}
  BY DEF FieldsTo
<1>2. Empty \in [{} -> Seq(Codes)] /\ DOMAIN Empty = {}
  BY DEF Empty
<1> QED BY <1>1, <1>2 DEF TemplateOf, ProvidersKnown

\* A template that is bounded so is of the type.
LEMMA TemplateIsTyped ==
  ASSUME NEW t, NEW rows \in Answers, NEW d \in 0 .. Len(rows), TemplateOf(t, rows, d)
  PROVE  t \in Templates
<1>1. rows \in Seq(TemplateRow) /\ Len(rows) <= MaxRows /\ Len(rows) \in Nat
  BY AnswersAre, LenProperties
<1>2. FieldsTo(rows, d) \subseteq Fields
  <2>1. \A i \in 1 .. d : rows[i] \in TemplateRow
    BY <1>1, ElementOfSeq
  <2> QED BY <2>1, RowKinds DEF FieldsTo
<1>3. \A f \in FieldsTo(rows, d) : t[f] \in Choices
  <2>1. \A f \in FieldsTo(rows, d) : t[f] \in Seq(Codes) /\ Len(t[f]) <= d
    BY DEF TemplateOf
  <2>2. \A f \in FieldsTo(rows, d) : Len(t[f]) \in Nat
    BY <2>1, LenProperties
  <2> QED BY <1>1, <2>1, <2>2, ChoicesAre, CorridorsAssumption
<1>4. t \in [FieldsTo(rows, d) -> Choices]
  BY <1>3 DEF TemplateOf
<1> QED BY <1>2, <1>4 DEF Templates

\* A row that names a field: no choices follow it yet, and to those of the other fields
\* none is added.
LEMMA FieldStep ==
  ASSUME NEW rows \in Seq(TemplateRow), NEW d \in Nat, d < Len(rows),
         NEW t, TemplateOf(t, rows, d),
         rows[d + 1].field # NoField,
         NEW u, u = [g \in DOMAIN t \cup {rows[d + 1].field} |-> u[g]],
         u[rows[d + 1].field] = <<>>,
         \A g \in DOMAIN t : g # rows[d + 1].field => u[g] = t[g]
  PROVE  /\ TemplateOf(u, rows, d + 1)
         /\ LastNamed(rows[d + 1].field, rows, d + 1)
         /\ \A k : ProvidersKnown(t, k) => ProvidersKnown(u, k)
<1> DEFINE f == rows[d + 1].field
<1>0. d + 1 \in 1 .. Len(rows) /\ rows[d + 1] \in TemplateRow
  BY LenProperties, ElementOfSeq
<1>f. f \in Fields /\ f # NoField
  BY <1>0, RowKinds
<1>t. t \in [FieldsTo(rows, d) -> Seq(Codes)] /\ DOMAIN t = FieldsTo(rows, d)
  BY DEF TemplateOf
<1>u. /\ DOMAIN u = FieldsTo(rows, d) \cup {f}
      /\ u[f] = <<>>
      /\ \A g \in DOMAIN t : g # f => u[g] = t[g]
  BY <1>t
<1>1. FieldsTo(rows, d + 1) = FieldsTo(rows, d) \cup {f}
  BY <1>f DEF FieldsTo
<1>2. u \in [FieldsTo(rows, d + 1) -> Seq(Codes)]
  <2>1. <<>> \in Seq(Codes)
    OBVIOUS
  <2> QED BY <1>1, <1>t, <2>1
<1>e. Len(<<>>) = 0 /\ Values(<<>>) = {}
  BY DEF Values
<1>3. \A g \in DOMAIN u : Len(u[g]) <= d + 1
  <2>1. \A g \in DOMAIN t : Len(t[g]) <= d /\ Len(t[g]) \in Nat
    BY <1>t, LenProperties DEF TemplateOf
  <2> QED BY <1>e, <1>t, <1>u, <2>1
<1>4. ASSUME NEW g \in Fields, NEW i \in 1 .. d + 1, NamedTo(rows, i, g, d + 1)
      PROVE  Values(u[g]) = OfferedTo(rows, i, d + 1)
  <2>1. CASE g = f
    <3>1. i = d + 1
      BY <1>4, <2>1 DEF NamedTo
    <3>2. OfferedTo(rows, i, d + 1) = {}
      BY <3>1 DEF OfferedTo
    <3> QED BY <1>e, <1>u, <2>1, <3>2
  <2>2. CASE g # f
    <3>1. i \in 1 .. d /\ NamedTo(rows, i, g, d)
      BY <1>4, <2>2 DEF NamedTo
    <3>2. g \in DOMAIN t
      BY <1>t, <3>1, CorridorsAssumption DEF NamedTo, FieldsTo
    <3>3. OfferedTo(rows, i, d + 1) = OfferedTo(rows, i, d)
      <4>1. \A j \in i + 1 .. d + 1 :
              (\A l \in i + 1 .. j : rows[l].field = NoField) => j \in i + 1 .. d
        BY <1>f, <3>1
      <4>2. \A j \in i + 1 .. d : j \in i + 1 .. d + 1
        BY <3>1
      <4> QED BY <4>1, <4>2 DEF OfferedTo
    <3>4. Values(t[g]) = OfferedTo(rows, i, d)
      BY <3>1 DEF TemplateOf
    <3> QED BY <1>u, <2>2, <3>2, <3>3, <3>4
  <2> QED BY <2>1, <2>2
<1>5. LastNamed(f, rows, d + 1)
  BY <1>0, <1>f DEF LastNamed
<1>6. ASSUME NEW k, ProvidersKnown(t, k), Provider \in DOMAIN u, NEW c \in Values(u[Provider])
      PROVE  Known(c, k)
  <2>1. Provider # f
    BY <1>6, <1>e, <1>u
  <2> QED BY <1>6, <1>t, <1>u, <2>1 DEF ProvidersKnown
<1> QED BY <1>2, <1>3, <1>4, <1>5, <1>6 DEF TemplateOf, ProvidersKnown

LEMMA AppendValues ==
  ASSUME NEW s \in Seq(Codes), NEW c \in Codes
  PROVE  /\ Append(s, c) \in Seq(Codes) /\ Len(Append(s, c)) = Len(s) + 1
         /\ Values(Append(s, c)) = Values(s) \cup {c}
<1>1. /\ Append(s, c) \in Seq(Codes) /\ Len(Append(s, c)) = Len(s) + 1
      /\ \A i \in 1 .. Len(s) : Append(s, c)[i] = s[i]
      /\ Append(s, c)[Len(s) + 1] = c
      /\ Len(s) \in Nat
  BY AppendProperties, LenProperties
<1> QED BY <1>1 DEF Values

LEMMA LastIsField ==
  ASSUME NEW rows, NEW d, NEW t, TemplateOf(t, rows, d),
         NEW f, LastNamed(f, rows, d), f # NoField
  PROVE  f \in DOMAIN t
  BY DEF TemplateOf, LastNamed, FieldsTo

\* A row that gives a choice: it follows the last row of the field named last, and of no
\* other.
LEMMA ChoiceStep ==
  ASSUME NEW rows \in Seq(TemplateRow), NEW d \in Nat, d < Len(rows),
         NEW t, TemplateOf(t, rows, d),
         NEW f, LastNamed(f, rows, d), f # NoField,
         rows[d + 1].code # NoCode,
         NEW u, u \in [DOMAIN t -> Seq(Codes)],
         u[f] = Append(t[f], rows[d + 1].code),
         \A g \in DOMAIN t : g # f => u[g] = t[g]
  PROVE  /\ TemplateOf(u, rows, d + 1)
         /\ LastNamed(f, rows, d + 1)
<1> DEFINE c == rows[d + 1].code
<1>0. d + 1 \in 1 .. Len(rows) /\ rows[d + 1] \in TemplateRow
  BY LenProperties, ElementOfSeq
<1>c. c \in Codes /\ rows[d + 1].field = NoField
  BY <1>0, RowKinds
<1>t. t \in [FieldsTo(rows, d) -> Seq(Codes)] /\ DOMAIN t = FieldsTo(rows, d)
  BY DEF TemplateOf
<1>l. PICK m \in 1 .. d : rows[m].field = f /\ \A l \in m + 1 .. d : rows[l].field = NoField
  BY DEF LastNamed
<1>f. f \in DOMAIN t /\ f \in Fields /\ t[f] \in Seq(Codes)
  BY <1>l, <1>t DEF FieldsTo, LastNamed
<1>u. /\ DOMAIN u = DOMAIN t
      /\ u[f] = Append(t[f], c)
      /\ \A g \in DOMAIN t : g # f => u[g] = t[g]
  BY <1>f, <1>t
<1>v. /\ u[f] \in Seq(Codes) /\ Len(u[f]) = Len(t[f]) + 1
      /\ Values(u[f]) = Values(t[f]) \cup {c}
  BY <1>c, <1>f, <1>u, AppendValues
<1>1. FieldsTo(rows, d + 1) = FieldsTo(rows, d)
  BY <1>c DEF FieldsTo
<1>2. u \in [FieldsTo(rows, d + 1) -> Seq(Codes)]
  BY <1>1, <1>f, <1>t, <1>u, <1>v
<1>3. \A g \in DOMAIN u : Len(u[g]) <= d + 1
  <2>1. \A g \in DOMAIN t : Len(t[g]) <= d /\ Len(t[g]) \in Nat
    BY <1>t, LenProperties DEF TemplateOf
  <2>2. \A n \in Nat : n <= d => n <= d + 1 /\ n + 1 <= d + 1
    OBVIOUS
  <2>3. Len(u[f]) <= d + 1
    BY <1>f, <1>v, <2>1, <2>2
  <2>4. \A g \in DOMAIN t : g # f => Len(u[g]) <= d + 1
    BY <1>u, <2>1, <2>2
  <2> QED BY <1>u, <2>3, <2>4
<1>4. ASSUME NEW g \in Fields, NEW i \in 1 .. d + 1, NamedTo(rows, i, g, d + 1)
      PROVE  Values(u[g]) = OfferedTo(rows, i, d + 1)
  <2>1. i \in 1 .. d /\ NamedTo(rows, i, g, d)
    BY <1>4, <1>c, CorridorsAssumption DEF NamedTo
  <2>2. g \in DOMAIN t /\ g # NoField /\ rows[i].field = g
    BY <1>t, <2>1, CorridorsAssumption DEF NamedTo, FieldsTo
  <2>3. Values(t[g]) = OfferedTo(rows, i, d)
    BY <2>1 DEF TemplateOf
  <2>4. CASE g = f
    <3>1. i = m
      <4>1. ~(i > m)
        BY <1>l, <2>1, <2>2
      <4>2. ~(i < m)
        BY <1>l, <2>1, <2>4 DEF NamedTo
      <4> QED BY <1>l, <2>1, <4>1, <4>2
    <3>2. \A l \in i + 1 .. d + 1 : rows[l].field = NoField
      BY <1>c, <1>l, <3>1
    <3>3. OfferedTo(rows, i, d + 1) = {rows[j].code : j \in i + 1 .. d + 1}
      BY <3>2, <2>1 DEF OfferedTo
    <3>4. OfferedTo(rows, i, d) = {rows[j].code : j \in i + 1 .. d}
      BY <3>2, <2>1 DEF OfferedTo
    <3>5. i + 1 .. d + 1 = (i + 1 .. d) \cup {d + 1}
      BY <2>1
    <3>6. OfferedTo(rows, i, d + 1) = OfferedTo(rows, i, d) \cup {c}
      BY <3>3, <3>4, <3>5
    <3> QED BY <1>v, <2>3, <2>4, <3>6
  <2>5. CASE g # f
    <3>1. i < m
      BY <1>l, <2>1, <2>2, <2>5
    <3>2. m \in i + 1 .. d /\ rows[m].field # NoField
      BY <1>l, <2>1, <3>1
    <3>3. OfferedTo(rows, i, d + 1) = OfferedTo(rows, i, d)
      <4>1. \A j \in i + 1 .. d + 1 :
              (\A l \in i + 1 .. j : rows[l].field = NoField) => j \in i + 1 .. d
        BY <2>1, <3>2
      <4>2. \A j \in i + 1 .. d : j \in i + 1 .. d + 1
        BY <2>1
      <4> QED BY <4>1, <4>2 DEF OfferedTo
    <3> QED BY <1>u, <2>2, <2>3, <2>5, <3>3
  <2> QED BY <2>4, <2>5
<1>5. LastNamed(f, rows, d + 1)
  <2>1. \A l \in m + 1 .. d + 1 : rows[l].field = NoField
    BY <1>c, <1>l
  <2> QED BY <1>f, <1>l, <2>1 DEF LastNamed
<1> QED BY <1>2, <1>3, <1>4, <1>5, <1>f, <1>u, <1>v DEF TemplateOf

-----------------------------------------------------------------------------
(***************************************************************************)
(* Codes are only ever added to the table of providers.                    *)
(***************************************************************************)
LEMMA KnownStays ==
  ASSUME provider \subseteq provider', NEW t, NEW k, ProvidersKnown(t, k)
  PROVE  ProvidersKnown(t, k)'
  BY DEF ProvidersKnown, Known

LEMMA TableStays ==
  ASSUME provider \subseteq provider', NEW k, TableOK(k),
         corridor'[k].template = corridor[k].template, answered'[k] = answered[k]
  PROVE  TableOK(k)'
<1>1. ProvidersKnown(corridor[k].template, k)'
  BY KnownStays DEF TableOK
<1>2. TemplateOf(corridor'[k].template, answered'[k], Len(answered'[k]))
  BY DEF TableOK
<1> QED BY <1>1, <1>2 DEF TableOK, ProvidersKnown, Known

LEMMA FetchStays ==
  ASSUME provider \subseteq provider', NEW x, FetchOK(x), task'[x] = task[x]
  PROVE  FetchOK(x)'
<1>1. ProvidersKnown(task[x].template, task[x].pair)
      => ProvidersKnown(task[x].template, task[x].pair)'
  BY DEF ProvidersKnown, Known
<1> QED BY <1>1 DEF FetchOK, RowsRead, ProvidersKnown, Known

\* The fields of the states a process goes through outside a fetch.
LEMMA IdleTyped == Idle \in Task /\ Idle.pc = "idle" /\ Idle.template = Empty
<1>1. <<>> \in Answers
  <2>1. <<>> \in Seq(TemplateRow) /\ Len(<<>>) <= MaxRows
    BY CorridorsAssumption
  <2> QED BY <2>1, AnswersAre
<1>2. Empty \in Templates
  <2>1. Empty \in [{} -> Choices]
    BY DEF Empty
  <2> QED BY <2>1 DEF Templates
<1> QED BY <1>1, <1>2 DEF Idle, Task

LEMMA SetTask ==
  ASSUME NEW x \in Workers, NEW v \in Task, task \in [Workers -> Task],
         task' = [task EXCEPT ![x] = v]
  PROVE  /\ task' \in [Workers -> Task] /\ task'[x] = v
         /\ \A y \in Workers : y # x => task'[y] = task[y]
  OBVIOUS

LEMMA EndOK ==
  ASSUME TablesInv, NEW x \in Workers, End(x)
  PROVE  /\ task' \in [Workers -> Task] /\ FetchOK(x)'
         /\ \A y \in Workers : y # x => task'[y] = task[y]
<1>1. /\ task' \in [Workers -> Task] /\ task'[x] = Idle
      /\ \A y \in Workers : y # x => task'[y] = task[y]
  BY IdleTyped, SetTask DEF End, TablesInv, TypeOK
<1> QED BY <1>1, IdleTyped DEF FetchOK

LEMMA TablesStart == Init => TablesInv
<1> SUFFICES ASSUME Init PROVE TablesInv
  OBVIOUS
<1>1. <<>> \in Answers /\ Empty \in Templates
  <2>1. Idle.rows = <<>> /\ Idle.template = Empty
    BY DEF Idle
  <2> QED BY <2>1, IdleTyped DEF Task
<1>2. TypeOK
  BY <1>1, IdleTyped DEF Init, TypeOK
<1>3. ASSUME NEW x \in Workers PROVE FetchOK(x)
  BY IdleTyped DEF Init, FetchOK
<1>4. ASSUME NEW k \in Pairs PROVE TableOK(k)
  <2>1. corridor[k].template = Empty /\ answered[k] = <<>> /\ Len(<<>>) = 0
    BY DEF Init
  <2> QED BY <2>1, EmptyIsTemplate DEF TableOK
<1>5. CodesOnce
  BY DEF Init, CodesOnce
<1> QED BY <1>2, <1>3, <1>4, <1>5 DEF TablesInv

-----------------------------------------------------------------------------
(***************************************************************************)
(* The refresh: it makes corridors, and touches no template.               *)
(***************************************************************************)
LEMMA RefreshOK ==
  ASSUME TablesInv, NEW x \in Workers, Refresh(x)
  PROVE  /\ task' \in [Workers -> Task] /\ FetchOK(x)'
         /\ \A y \in Workers : y # x => task'[y] = task[y]
         /\ corridor' \in [Pairs -> [served : BOOLEAN, template : Templates]]
         /\ \A k \in Pairs : corridor'[k].template = corridor[k].template
         /\ UNCHANGED <<provider, answered>>
<1>t. /\ task \in [Workers -> Task] /\ task[x] \in Task /\ FetchOK(x)
      /\ corridor \in [Pairs -> [served : BOOLEAN, template : Templates]]
  BY DEF TablesInv, TypeOK
<1>i. /\ \A page \in SUBSET Pairs : page \in SUBSET Pairs
      /\ Idle \in Task /\ Idle.template = Empty
  BY IdleTyped
<1>e. UNCHANGED corridor
      => /\ corridor' \in [Pairs -> [served : BOOLEAN, template : Templates]]
         /\ \A k \in Pairs : corridor'[k].template = corridor[k].template
  BY <1>t
<1>1. CASE RefreshBegin(x)
  <2> DEFINE v == [Idle EXCEPT !.pc = "page", !.listed = Pairs]
  <2>1. v \in Task /\ v.pc = "page" /\ v.template = Empty
    BY <1>i DEF Task
  <2>2. task' = [task EXCEPT ![x] = v] /\ UNCHANGED <<corridor, provider, answered>>
    BY <1>1 DEF RefreshBegin
  <2> HIDE DEF v
  <2>3. /\ task' \in [Workers -> Task] /\ task'[x] = v
        /\ \A y \in Workers : y # x => task'[y] = task[y]
    BY <1>t, <2>1, <2>2, SetTask
  <2> QED BY <1>e, <2>1, <2>2, <2>3 DEF FetchOK
<1>2. CASE PageRead(x)
  <2>0. UNCHANGED <<corridor, provider, answered>> /\ task[x].template = Empty
    BY <1>2, <1>t DEF PageRead, FetchOK
  <2>1. CASE End(x)
    BY <1>e, <2>0, <2>1, EndOK
  <2>2. CASE \E page \in SUBSET task[x].listed \ {{}} :
               task' = [task EXCEPT ![x] = [task[x] EXCEPT !.pc = "services", !.page = page,
                                                           !.listed = task[x].listed \ page]]
    <3>1. PICK page \in SUBSET task[x].listed :
            task' = [task EXCEPT ![x] = [task[x] EXCEPT !.pc = "services", !.page = page,
                                                        !.listed = task[x].listed \ page]]
      BY <2>2
    <3> DEFINE v == [task[x] EXCEPT !.pc = "services", !.page = page,
                                    !.listed = task[x].listed \ page]
    <3>2. v \in Task /\ v.pc = "services" /\ v.template = task[x].template
      BY <1>t DEF Task
    <3>3. task' = [task EXCEPT ![x] = v]
      BY <3>1
    <3> HIDE DEF v
    <3>4. /\ task' \in [Workers -> Task] /\ task'[x] = v
          /\ \A y \in Workers : y # x => task'[y] = task[y]
      BY <1>t, <3>2, <3>3, SetTask
    <3> QED BY <1>e, <2>0, <3>2, <3>4 DEF FetchOK
  <2> QED BY <1>2, <2>1, <2>2 DEF PageRead
<1>3. ASSUME NEW k \in Pairs, ServicesRead(x, k)
      PROVE  /\ task' \in [Workers -> Task] /\ FetchOK(x)'
             /\ \A y \in Workers : y # x => task'[y] = task[y]
             /\ corridor' \in [Pairs -> [served : BOOLEAN, template : Templates]]
             /\ \A j \in Pairs : corridor'[j].template = corridor[j].template
             /\ UNCHANGED <<provider, answered>>
  <2>0. UNCHANGED <<provider, answered>> /\ task[x].template = Empty
    BY <1>3, <1>t DEF ServicesRead, FetchOK
  <2>1. /\ corridor' \in [Pairs -> [served : BOOLEAN, template : Templates]]
        /\ \A j \in Pairs : corridor'[j].template = corridor[j].template
    <3>1. CASE UNCHANGED corridor
      BY <1>e, <3>1
    <3>2. ASSUME NEW served \in BOOLEAN,
                 corridor' = [corridor EXCEPT ![k].served = @ \/ served]
          PROVE  /\ corridor' \in [Pairs -> [served : BOOLEAN, template : Templates]]
                 /\ \A j \in Pairs : corridor'[j].template = corridor[j].template
      BY <1>t, <3>2
    <3> QED BY <1>3, <3>1, <3>2 DEF ServicesRead
  <2>2. CASE End(x)
    BY <2>0, <2>1, <2>2, EndOK
  <2>3. CASE task' = [task EXCEPT ![x].page = @ \ {k}]
    <3> DEFINE v == [task[x] EXCEPT !.page = @ \ {k}]
    <3>1. v \in Task /\ v.pc = task[x].pc /\ v.template = task[x].template
      BY <1>t DEF Task
    <3>2. task' = [task EXCEPT ![x] = v]
      BY <1>t, <2>3
    <3> HIDE DEF v
    <3>3. /\ task' \in [Workers -> Task] /\ task'[x] = v
          /\ \A y \in Workers : y # x => task'[y] = task[y]
      BY <1>t, <3>1, <3>2, SetTask
    <3>4. v.pc # "row"
      BY <1>3, <3>1 DEF ServicesRead
    <3> QED BY <2>0, <2>1, <3>1, <3>3, <3>4 DEF FetchOK
  <2>4. CASE task' = [task EXCEPT ![x].page = {}, ![x].pc = "page"]
    <3> DEFINE v == [task[x] EXCEPT !.page = {}, !.pc = "page"]
    <3>1. v \in Task /\ v.pc = "page" /\ v.template = task[x].template
      BY <1>t DEF Task
    <3>2. task' = [task EXCEPT ![x] = v]
      BY <1>t, <2>4
    <3> HIDE DEF v
    <3>3. /\ task' \in [Workers -> Task] /\ task'[x] = v
          /\ \A y \in Workers : y # x => task'[y] = task[y]
      BY <1>t, <3>1, <3>2, SetTask
    <3> QED BY <2>0, <2>1, <3>1, <3>3 DEF FetchOK
  <2> QED BY <1>3, <2>2, <2>3, <2>4 DEF ServicesRead
<1> QED BY <1>1, <1>2, <1>3 DEF Refresh

-----------------------------------------------------------------------------
(***************************************************************************)
(* A fetch: the answer, its rows, and the template that is stored.         *)
(***************************************************************************)
LEMMA BeginOK ==
  ASSUME TablesInv, NEW x \in Workers, NEW k \in Pairs, NEW rows \in Answers,
         FetchBegin(x, k, rows)
  PROVE  /\ task' \in [Workers -> Task] /\ FetchOK(x)'
         /\ \A y \in Workers : y # x => task'[y] = task[y]
         /\ UNCHANGED <<corridor, provider, answered>>
<1>t. task \in [Workers -> Task]
  BY DEF TablesInv, TypeOK
<1> DEFINE v == [Idle EXCEPT !.pc = "row", !.pair = k, !.rows = rows, !.rest = rows]
<1>1. v \in Task
  BY IdleTyped DEF Task
<1>2. /\ v.pc = "row" /\ v.pair = k /\ v.rows = rows /\ v.rest = rows
      /\ v.at = NoField /\ v.template = Empty
  BY DEF Idle
<1>3. task' = [task EXCEPT ![x] = v] /\ UNCHANGED <<corridor, provider, answered>>
  BY DEF FetchBegin
<1> HIDE DEF v
<1>4. /\ task' \in [Workers -> Task] /\ task'[x] = v
      /\ \A y \in Workers : y # x => task'[y] = task[y]
  BY <1>t, <1>1, <1>3, SetTask
<1>5. Len(rows) \in Nat
  BY AnswersAre, LenProperties
<1>6. RowsRead(x)' = 0
  BY <1>2, <1>4, <1>5 DEF RowsRead
<1>7. FetchOK(x)'
  <2>1. \A i \in 1 .. Len(rows) : rows[i] = rows[0 + i]
    BY <1>5
  <2>2. TemplateOf(Empty, rows, 0) /\ Provider \notin DOMAIN Empty
    BY EmptyIsTemplate DEF Empty
  <2> QED BY <1>2, <1>4, <1>6, <2>1, <2>2 DEF FetchOK, LastNamed, ProvidersKnown
<1> QED BY <1>3, <1>4, <1>7

\* The row that is read is the next of the answer.
LEMMA NextRow ==
  ASSUME TablesInv, NEW x \in Workers, task[x].pc = "row", task[x].rest # <<>>
  PROVE  LET rows == task[x].rows
             rest == task[x].rest
             d == RowsRead(x)
         IN  /\ rows \in Seq(TemplateRow) /\ rows \in Answers
             /\ d \in Nat /\ d < Len(rows) /\ Len(rows) \in Nat
             /\ Head(rest) = rows[d + 1]
             /\ rows[d + 1] \in TemplateRow
             /\ Tail(rest) \in Answers
             /\ Len(rows) - Len(Tail(rest)) = d + 1
             /\ \A i \in 1 .. Len(Tail(rest)) : Tail(rest)[i] = rows[d + 1 + i]
<1> DEFINE rows == task[x].rows
           rest == task[x].rest
           d == RowsRead(x)
<1>1. rows \in Answers /\ rest \in Answers /\ rest # <<>>
  BY DEF TablesInv, TypeOK, Task
<1>2. /\ d \in Nat /\ d = Len(rows) - Len(rest)
      /\ \A i \in 1 .. Len(rest) : rest[i] = rows[d + i]
  BY DEF TablesInv, FetchOK, RowsRead
<1> HIDE DEF rows, rest, d
<1>3. /\ rows \in Seq(TemplateRow) /\ Len(rows) \in Nat /\ Len(rows) <= MaxRows
      /\ rest \in Seq(TemplateRow) /\ Len(rest) \in Nat /\ Len(rest) <= MaxRows
  BY <1>1, AnswersAre, LenProperties
<1>4. /\ Tail(rest) \in Seq(TemplateRow) /\ Len(Tail(rest)) = Len(rest) - 1
      /\ \A i \in 1 .. Len(Tail(rest)) : Tail(rest)[i] = rest[i + 1]
      /\ Len(rest) > 0
  BY <1>1, <1>3, HeadTailProperties
<1>5. Head(rest) = rest[1]
  BY <1>1, <1>3
<1>6. Tail(rest) \in Answers
  <2>1. Len(Tail(rest)) <= MaxRows
    BY <1>3, <1>4, CorridorsAssumption
  <2> QED BY <1>4, <2>1, AnswersAre
<1>7. Head(rest) = rows[d + 1]
  BY <1>2, <1>3, <1>4, <1>5
<1>8. \A i \in 1 .. Len(Tail(rest)) : Tail(rest)[i] = rows[d + 1 + i]
  <2> SUFFICES ASSUME NEW i \in 1 .. Len(Tail(rest)) PROVE Tail(rest)[i] = rows[d + 1 + i]
    OBVIOUS
  <2>1. i + 1 \in 1 .. Len(rest) /\ d + (i + 1) = d + 1 + i
    BY <1>2, <1>3, <1>4
  <2> QED BY <1>2, <1>4, <2>1
<1>9. d < Len(rows) /\ Len(rows) - Len(Tail(rest)) = d + 1
  BY <1>2, <1>3, <1>4
<1>10. rows[d + 1] \in TemplateRow
  BY <1>2, <1>3, <1>9, ElementOfSeq
<1> QED BY <1>1, <1>2, <1>3, <1>6, <1>7, <1>8, <1>9, <1>10 DEF rows, rest, d

\* A row is done with when what is kept of it fits the rows that were read.
LEMMA RowDone ==
  ASSUME TablesInv, NEW x \in Workers, task[x].pc = "row", task[x].rest # <<>>,
         NEW f \in Fields, NEW u,
         LastNamed(f, task[x].rows, RowsRead(x) + 1),
         TemplateOf(u, task[x].rows, RowsRead(x) + 1),
         Provider \in DOMAIN u =>
           \A c \in Values(u[Provider]) : [code |-> c, pair |-> task[x].pair] \in provider',
         task' = [task EXCEPT ![x] = [task[x] EXCEPT !.rest = Tail(task[x].rest), !.at = f,
                                                     !.template = u]]
  PROVE  /\ task' \in [Workers -> Task] /\ FetchOK(x)'
         /\ \A y \in Workers : y # x => task'[y] = task[y]
<1> DEFINE rows == task[x].rows
           d == RowsRead(x)
           v == [task[x] EXCEPT !.rest = Tail(task[x].rest), !.at = f, !.template = u]
<1>t. task \in [Workers -> Task] /\ task[x] \in Task /\ task[x].pair \in Pairs
  BY DEF TablesInv, TypeOK, FetchOK
<1>1. task' = [task EXCEPT ![x] = v]
  OBVIOUS
<1>2. /\ rows \in Answers /\ d \in Nat /\ d < Len(rows) /\ Len(rows) \in Nat
      /\ Tail(task[x].rest) \in Answers
      /\ Len(rows) - Len(Tail(task[x].rest)) = d + 1
      /\ \A i \in 1 .. Len(Tail(task[x].rest)) : Tail(task[x].rest)[i] = rows[d + 1 + i]
  BY NextRow
<1>3. LastNamed(f, rows, d + 1) /\ TemplateOf(u, rows, d + 1)
  OBVIOUS
<1> HIDE DEF rows, d
<1>4. u \in Templates
  <2>1. d + 1 \in 0 .. Len(rows)
    BY <1>2
  <2> QED BY <1>2, <1>3, <2>1, TemplateIsTyped
<1>5. /\ v \in Task /\ v.pc = "row" /\ v.pair = task[x].pair /\ v.rows = rows
      /\ v.rest = Tail(task[x].rest) /\ v.at = f /\ v.template = u
  BY <1>t, <1>2, <1>4 DEF Task, rows
<1> HIDE DEF v
<1>6. /\ task' \in [Workers -> Task] /\ task'[x] = v
      /\ \A y \in Workers : y # x => task'[y] = task[y]
  BY <1>1, <1>t, <1>5, SetTask
<1>7. RowsRead(x)' = d + 1
  BY <1>2, <1>5, <1>6 DEF RowsRead
<1>8. /\ task'[x].pc = "row" /\ task'[x].pair = task[x].pair /\ task'[x].rows = rows
      /\ task'[x].rest = Tail(task[x].rest) /\ task'[x].at = f /\ task'[x].template = u
  BY <1>5, <1>6
<1>9. FetchOK(x)'
  <2>1. ProvidersKnown(task[x].template, task[x].pair)'
    BY <1>8 DEF ProvidersKnown, Known
  <2>2. /\ LastNamed(task[x].at, task[x].rows, RowsRead(x))'
        /\ TemplateOf(task[x].template, task[x].rows, RowsRead(x))'
    BY <1>3, <1>7, <1>8 DEF LastNamed, TemplateOf
  <2>3. \A i \in 1 .. Len(task'[x].rest) :
           task'[x].rest[i] = task'[x].rows[RowsRead(x)' + i]
    BY <1>2, <1>7, <1>8
  <2> QED BY <1>2, <1>7, <1>8, <1>t, <2>1, <2>2, <2>3 DEF FetchOK
<1> QED BY <1>6, <1>9

LEMMA FieldOK ==
  ASSUME TablesInv, NEW x \in Workers, FieldRead(x)
  PROVE  /\ task' \in [Workers -> Task] /\ FetchOK(x)'
         /\ \A y \in Workers : y # x => task'[y] = task[y]
         /\ UNCHANGED <<corridor, provider, answered>>
<1> DEFINE rows == task[x].rows
           d == RowsRead(x)
           f == Head(task[x].rest).field
           t == task[x].template
           u == [g \in DOMAIN t \cup {f} |-> IF g = f THEN <<>> ELSE t[g]]
<1>t. /\ task[x].pc = "row" /\ task[x].rest # <<>>
      /\ f # NoField /\ UNCHANGED <<corridor, provider, answered>>
  BY DEF FieldRead
<1>1. task' = [task EXCEPT ![x] = [task[x] EXCEPT !.rest = Tail(task[x].rest), !.at = f,
                                                  !.template = u]]
  BY Zenon DEF FieldRead
<1>2. /\ rows \in Seq(TemplateRow) /\ d \in Nat /\ d < Len(rows)
      /\ f = rows[d + 1].field /\ rows[d + 1] \in TemplateRow
  BY <1>t, NextRow
<1>3. TemplateOf(t, rows, d) /\ ProvidersKnown(t, task[x].pair)
  BY <1>t DEF TablesInv, FetchOK
<1>4. f \in Fields
  BY <1>t, <1>2, RowKinds
<1>5. /\ u = [g \in DOMAIN t \cup {f} |-> u[g]]
      /\ u[f] = <<>>
      /\ \A g \in DOMAIN t : g # f => u[g] = t[g]
  OBVIOUS
<1> HIDE DEF u, t, rows, d, f
<1>6. /\ TemplateOf(u, rows, d + 1) /\ LastNamed(f, rows, d + 1)
      /\ ProvidersKnown(u, task[x].pair)
  <2>1. /\ u = [g \in DOMAIN t \cup {rows[d + 1].field} |-> u[g]]
        /\ u[rows[d + 1].field] = <<>>
        /\ \A g \in DOMAIN t : g # rows[d + 1].field => u[g] = t[g]
        /\ rows[d + 1].field # NoField
    BY <1>t, <1>2, <1>5
  <2>2. /\ TemplateOf(u, rows, d + 1)
        /\ LastNamed(rows[d + 1].field, rows, d + 1)
        /\ \A k : ProvidersKnown(t, k) => ProvidersKnown(u, k)
    BY <1>2, <1>3, <2>1, FieldStep
  <2> QED BY <1>2, <1>3, <2>2
<1>7. Provider \in DOMAIN u =>
        \A c \in Values(u[Provider]) : [code |-> c, pair |-> task[x].pair] \in provider'
  BY <1>6, <1>t DEF ProvidersKnown, Known
<1>8. task[x].rows = rows /\ RowsRead(x) = d
  BY DEF rows, d
<1>9. /\ task' \in [Workers -> Task] /\ FetchOK(x)'
      /\ \A y \in Workers : y # x => task'[y] = task[y]
  BY <1>1, <1>4, <1>6, <1>7, <1>8, <1>t, RowDone
<1> QED BY <1>9, <1>t

\* A choice for the providers' field is in the table before it is in the template, and
\* stays its corridor's alone.
LEMMA ChoiceOK ==
  ASSUME TablesInv, NEW x \in Workers, ChoiceRead(x)
  PROVE  /\ task' \in [Workers -> Task] /\ FetchOK(x)'
         /\ \A y \in Workers : y # x => task'[y] = task[y]
         /\ UNCHANGED <<corridor, answered>>
         /\ provider \subseteq provider' /\ CodesOnce'
         /\ provider' \in SUBSET [code : Codes, pair : Pairs]
<1> DEFINE rows == task[x].rows
           d == RowsRead(x)
           c == Head(task[x].rest).code
           k == task[x].pair
           f == task[x].at
           t == task[x].template
           u == [t EXCEPT ![f] = Append(t[f], c)]
<1>t. /\ task[x].pc = "row" /\ task[x].rest # <<>> /\ task[x] \in Task
      /\ c # NoCode /\ UNCHANGED <<corridor, answered>>
      /\ provider \in SUBSET [code : Codes, pair : Pairs] /\ CodesOnce
  BY DEF ChoiceRead, TablesInv, TypeOK
<1>1. CASE End(x) /\ UNCHANGED provider
  <2>1. CodesOnce'
    BY <1>1, <1>t DEF CodesOnce
  <2> QED BY <1>1, <1>t, <2>1, EndOK
<1>2. CASE /\ f # NoField /\ (f = Provider => ~Taken(c, k))
           /\ task' = [task EXCEPT ![x] = [task[x] EXCEPT !.rest = Tail(task[x].rest),
                                                          !.template = u]]
           /\ provider' = IF f = Provider THEN provider \cup {[code |-> c, pair |-> k]}
                                          ELSE provider
  <2>1. /\ rows \in Seq(TemplateRow) /\ d \in Nat /\ d < Len(rows)
        /\ c = rows[d + 1].code /\ rows[d + 1] \in TemplateRow
    BY <1>t, NextRow
  <2>2. /\ TemplateOf(t, rows, d) /\ ProvidersKnown(t, k) /\ LastNamed(f, rows, d)
        /\ k \in Pairs
    BY <1>t DEF TablesInv, FetchOK
  <2>3. c \in Codes
    BY <1>t, <2>1, RowKinds
  <2>4. f \in Fields
    BY <1>2, <2>2 DEF LastNamed
  <2>5. task' = [task EXCEPT ![x] = [task[x] EXCEPT !.rest = Tail(task[x].rest), !.at = f,
                                                    !.template = u]]
    <3>1. [task[x] EXCEPT !.rest = Tail(task[x].rest), !.template = u]
            = [task[x] EXCEPT !.rest = Tail(task[x].rest), !.at = f, !.template = u]
      BY <1>t DEF Task
    <3> QED BY <1>2, <3>1
  <2>a. f \in DOMAIN t
    BY <1>2, <2>2, LastIsField
  <2>b. t \in [DOMAIN t -> Seq(Codes)]
    BY <2>2 DEF TemplateOf
  <2>6. /\ u \in [DOMAIN t -> Seq(Codes)]
        /\ u[f] = Append(t[f], c)
        /\ \A g \in DOMAIN t : g # f => u[g] = t[g]
    <3>1. Append(t[f], c) \in Seq(Codes)
      BY <2>3, <2>a, <2>b, AppendProperties
    <3> QED BY <2>a, <2>b, <3>1
  <2> HIDE DEF u, t, rows, d, f, c, k
  <2>7. /\ TemplateOf(u, rows, d + 1)
        /\ LastNamed(f, rows, d + 1)
        /\ DOMAIN u = DOMAIN t
        /\ Values(u[f]) = Values(t[f]) \cup {c}
    <3>1. /\ f # NoField /\ rows[d + 1].code # NoCode
          /\ u[f] = Append(t[f], rows[d + 1].code)
      BY <1>2, <1>t, <2>1, <2>6
    <3>2. TemplateOf(u, rows, d + 1) /\ LastNamed(f, rows, d + 1)
      BY <2>1, <2>2, <2>6, <3>1, ChoiceStep
    <3>3. Values(Append(t[f], c)) = Values(t[f]) \cup {c}
      BY <2>3, <2>a, <2>b, AppendValues
    <3> QED BY <2>6, <3>2, <3>3
  <2>8. provider \subseteq provider' /\ provider' \in SUBSET [code : Codes, pair : Pairs]
    BY <1>2, <1>t, <2>2, <2>3
  <2>9. CodesOnce'
    <3>1. CASE f = Provider
      <4>1. \A r \in provider : r.code = c => r = [code |-> c, pair |-> k]
        <5> SUFFICES ASSUME NEW r \in provider, r.code = c PROVE r = [code |-> c, pair |-> k]
          OBVIOUS
        <5>1. r.pair = k
          BY <1>2, <3>1 DEF Taken
        <5>2. r \in [code : Codes, pair : Pairs]
          BY <1>t
        <5> QED BY <5>1, <5>2
      <4>2. provider' = provider \cup {[code |-> c, pair |-> k]}
        BY <1>2, <3>1
      <4> QED BY <1>t, <4>1, <4>2 DEF CodesOnce
    <3>2. CASE f # Provider
      BY <1>2, <1>t, <3>2 DEF CodesOnce
    <3> QED BY <3>1, <3>2
  <2>10. Provider \in DOMAIN u =>
           \A b \in Values(u[Provider]) : [code |-> b, pair |-> k] \in provider'
    <3> SUFFICES ASSUME Provider \in DOMAIN u, NEW b \in Values(u[Provider])
                 PROVE  [code |-> b, pair |-> k] \in provider'
      OBVIOUS
    <3>1. b \in Values(t[Provider]) \/ (f = Provider /\ b = c)
      BY <2>6, <2>7
    <3>2. b \in Values(t[Provider]) => [code |-> b, pair |-> k] \in provider
      BY <2>2, <2>7 DEF ProvidersKnown, Known
    <3> QED BY <1>2, <2>8, <3>1, <3>2
  <2>11. task[x].rows = rows /\ RowsRead(x) = d /\ task[x].pair = k
    BY DEF rows, d, k
  <2>12. /\ task' \in [Workers -> Task] /\ FetchOK(x)'
         /\ \A y \in Workers : y # x => task'[y] = task[y]
    BY <1>t, <2>4, <2>5, <2>7, <2>10, <2>11, RowDone
  <2> QED BY <1>t, <2>8, <2>9, <2>12
<1> QED BY <1>1, <1>2 DEF ChoiceRead

LEMMA SaveOK ==
  ASSUME TablesInv, NEW x \in Workers, TemplateSave(x)
  PROVE  /\ task' \in [Workers -> Task] /\ FetchOK(x)'
         /\ \A y \in Workers : y # x => task'[y] = task[y]
         /\ corridor' \in [Pairs -> [served : BOOLEAN, template : Templates]]
         /\ answered' \in [Pairs -> Answers]
         /\ UNCHANGED provider
         /\ \A k \in Pairs : TableOK(k)'
<1>t. /\ task[x] \in Task /\ task[x].pc = "row" /\ task[x].rest = <<>>
      /\ corridor \in [Pairs -> [served : BOOLEAN, template : Templates]]
      /\ answered \in [Pairs -> Answers]
      /\ UNCHANGED provider
  BY DEF TablesInv, TypeOK, TemplateSave
<1>1. /\ task' \in [Workers -> Task] /\ FetchOK(x)'
      /\ \A y \in Workers : y # x => task'[y] = task[y]
  BY EndOK DEF TemplateSave
<1>2. PICK k : k = task[x].pair
  OBVIOUS
<1>3. PICK t : t = task[x].template
  OBVIOUS
<1>4. PICK rows : rows = task[x].rows
  OBVIOUS
<1>5. k \in Pairs /\ t \in Templates /\ rows \in Answers
  BY <1>2, <1>3, <1>4, <1>t DEF TablesInv, FetchOK, Task
<1>6. corridor' = [corridor EXCEPT ![k].template = t] /\ answered' = [answered EXCEPT ![k] = rows]
  BY <1>2, <1>3, <1>4 DEF TemplateSave
<1>7. /\ corridor' \in [Pairs -> [served : BOOLEAN, template : Templates]]
      /\ answered' \in [Pairs -> Answers]
      /\ corridor'[k].template = t /\ answered'[k] = rows
      /\ \A j \in Pairs : j # k => corridor'[j] = corridor[j] /\ answered'[j] = answered[j]
  BY <1>5, <1>6, <1>t
<1>8. TemplateOf(t, rows, Len(rows)) /\ ProvidersKnown(t, k)
  <2>1. Len(rows) \in Nat /\ Len(<<>>) = 0
    BY <1>5, AnswersAre, LenProperties
  <2>2. RowsRead(x) = Len(rows)
    BY <1>4, <1>t, <2>1 DEF RowsRead
  <2> QED BY <1>2, <1>3, <1>4, <1>t, <2>2 DEF TablesInv, FetchOK
<1>9. ASSUME NEW j \in Pairs PROVE TableOK(j)'
  <2>1. CASE j = k
    <3>1. ProvidersKnown(corridor[j].template, j)'
      BY <1>7, <1>8, <1>t, <2>1 DEF ProvidersKnown, Known
    <3>2. TemplateOf(corridor[j].template, answered[j], Len(answered[j]))'
      BY <1>7, <1>8, <2>1 DEF TemplateOf
    <3> QED BY <3>1, <3>2 DEF TableOK
  <2>2. CASE j # k
    <3>1. TableOK(j) /\ corridor'[j].template = corridor[j].template /\ answered'[j] = answered[j]
      BY <1>7, <2>2 DEF TablesInv
    <3> QED BY <1>t, <3>1, TableStays
  <2> QED BY <2>1, <2>2
<1> QED BY <1>1, <1>7, <1>9, <1>t

LEMMA AddOK ==
  ASSUME TablesInv, NEW k \in Pairs, CorridorAdd(k)
  PROVE  /\ corridor' \in [Pairs -> [served : BOOLEAN, template : Templates]]
         /\ \A j \in Pairs : corridor'[j].template = corridor[j].template
  BY DEF TablesInv, TypeOK, CorridorAdd

LEMMA TablesNext == TablesInv /\ [Next]_vars => TablesInv'
<1> SUFFICES ASSUME TablesInv, [Next]_vars PROVE TablesInv'
  OBVIOUS
<1>t. /\ TypeOK /\ CodesOnce
      /\ \A x \in Workers : FetchOK(x)
      /\ \A k \in Pairs : TableOK(k)
  BY DEF TablesInv
\* What every step but a choice's and the template's leaves as it is.
<1>1. ASSUME provider \subseteq provider',
             \A k \in Pairs : corridor'[k].template = corridor[k].template,
             UNCHANGED answered
      PROVE  \A k \in Pairs : TableOK(k)'
  BY <1>1, <1>t, TableStays
<1>2. ASSUME UNCHANGED provider PROVE CodesOnce'
  BY <1>2, <1>t DEF CodesOnce
<1>3. ASSUME NEW x \in Workers, provider \subseteq provider', FetchOK(x)',
             \A y \in Workers : y # x => task'[y] = task[y]
      PROVE  \A y \in Workers : FetchOK(y)'
  BY <1>3, <1>t, FetchStays
<1>4. ASSUME NEW x \in Workers, Refresh(x) PROVE TablesInv'
  BY <1>1, <1>2, <1>3, <1>4, <1>t, RefreshOK DEF TablesInv, TypeOK
<1>5. ASSUME NEW x \in Workers, NEW k \in Pairs, NEW rows \in Answers, FetchBegin(x, k, rows)
      PROVE  TablesInv'
  BY <1>1, <1>2, <1>3, <1>5, <1>t, BeginOK DEF TablesInv, TypeOK
<1>6. ASSUME NEW x \in Workers, FieldRead(x) PROVE TablesInv'
  BY <1>1, <1>2, <1>3, <1>6, <1>t, FieldOK DEF TablesInv, TypeOK
<1>7. ASSUME NEW x \in Workers, ChoiceRead(x) PROVE TablesInv'
  BY <1>1, <1>3, <1>7, <1>t, ChoiceOK DEF TablesInv, TypeOK
<1>8. ASSUME NEW x \in Workers, TemplateSave(x) PROVE TablesInv'
  BY <1>2, <1>3, <1>8, <1>t, SaveOK DEF TablesInv, TypeOK
<1>9. ASSUME NEW k \in Pairs, CorridorAdd(k) PROVE TablesInv'
  <2>1. UNCHANGED <<provider, task, answered>>
    BY <1>9 DEF CorridorAdd
  <2>2. \A x \in Workers : FetchOK(x)'
    BY <1>t, <2>1, FetchStays
  <2> QED BY <1>1, <1>2, <1>9, <1>t, <2>1, <2>2, AddOK DEF TablesInv, TypeOK
<1>10. CASE UNCHANGED vars
  <2>1. UNCHANGED <<corridor, provider, task, answered>>
    BY <1>10 DEF vars
  <2>2. \A x \in Workers : FetchOK(x)'
    BY <1>t, <2>1, FetchStays
  <2> QED BY <1>1, <1>2, <1>t, <2>1, <2>2 DEF TablesInv, TypeOK
<1> QED BY <1>4, <1>5, <1>6, <1>7, <1>8, <1>9, <1>10 DEF Next, Fetch

LEMMA TablesAlways == Spec => []TablesInv
  BY TablesStart, TablesNext, PTL DEF Spec

\* Every table, answer and task has its type: a template never grows beyond its answer.
THEOREM CorridorsTypeCorrect == Spec => []TypeOK
<1>1. TablesInv => TypeOK
  BY DEF TablesInv
<1> QED BY <1>1, TablesAlways, PTL

\* Every provider a stored template offers is in the table of codes, for that corridor and
\* no other, however many processes fetch templates at once and wherever they raise.
THEOREM ProvidersAreKnown == Spec => []CodesKnown
<1>1. TablesInv => CodesKnown
  <2> SUFFICES ASSUME TablesInv, NEW k \in Served, Provider \in DOMAIN corridor[k].template,
                      NEW i \in DOMAIN corridor[k].template[Provider]
               PROVE  /\ Known(corridor[k].template[Provider][i], k)
                      /\ ~Taken(corridor[k].template[Provider][i], k)
    BY DEF CodesKnown
  <2> DEFINE t == corridor[k].template
             c == t[Provider][i]
  <2>1. t \in [FieldsTo(answered[k], Len(answered[k])) -> Seq(Codes)] /\ ProvidersKnown(t, k)
    BY DEF TablesInv, TableOK, TemplateOf, Served
  <2>2. t[Provider] \in Seq(Codes)
    BY <2>1
  <2>3. c \in Values(t[Provider])
    BY <2>2, LenProperties DEF Values
  <2>4. Known(c, k)
    BY <2>1, <2>3 DEF ProvidersKnown
  <2>5. ~Taken(c, k)
    BY <2>4 DEF Taken, Known, TablesInv, CodesOnce
  <2> QED BY <2>4, <2>5
<1> QED BY <1>1, TablesAlways, PTL

\* A payload that a stored template lets through conforms to the answer it was made from,
\* whatever rows the service answers and whatever the payload.
THEOREM WalletsConform == Spec => []WalletConforms
<1>1. TablesInv => WalletConforms
  <2> SUFFICES ASSUME TablesInv, NEW k \in Served, NEW payload \in Payloads,
                      Accepted(corridor[k].template, payload),
                      NEW f \in Fields, NEW i \in DOMAIN answered[k],
                      Named(answered[k], i, f)
               PROVE  LET sent == Integrated(corridor[k].template, payload)
                      IN  IF Offered(answered[k], i) = {} THEN sent[f] # NoCode
                                                          ELSE sent[f] \in Offered(answered[k], i)
    BY DEF WalletConforms, Conforms
  <2> DEFINE t == corridor[k].template
             rows == answered[k]
             sent == Integrated(t, payload)
  <2>1. TemplateOf(t, rows, Len(rows)) /\ rows \in Answers
    BY DEF TablesInv, TableOK, TypeOK, Served
  <2>2. rows \in Seq(TemplateRow) /\ Len(rows) \in Nat /\ i \in 1 .. Len(rows)
    BY <2>1, AnswersAre, LenProperties
  <2>3. NamedTo(rows, i, f, Len(rows)) /\ Offered(rows, i) = OfferedTo(rows, i, Len(rows))
    BY DEF Named, NamedTo, Offered, OfferedTo
  <2>4. Values(t[f]) = Offered(rows, i)
    BY <2>1, <2>2, <2>3 DEF TemplateOf
  <2>5. f \in DOMAIN t /\ t[f] \in Seq(Codes)
    BY <2>1, <2>2, <2>3, CorridorsAssumption DEF TemplateOf, NamedTo, FieldsTo
  <2>6. /\ Len(t[f]) \in Nat /\ DOMAIN t[f] = 1 .. Len(t[f])
        /\ Len(t[f]) = 0 => t[f] = <<>>
    BY <2>5, LenProperties, EmptySeq
  <2>7. sent[f] = IF Len(t[f]) = 1 THEN t[f][1] ELSE payload[f]
    BY <2>5 DEF Integrated
  <2>8. /\ t[f] = <<>> => payload[f] # NoCode
        /\ Len(t[f]) > 1 => \E n \in DOMAIN t[f] : payload[f] = t[f][n]
    BY <2>5 DEF Accepted
  <2> HIDE DEF t, rows, sent
  <2>9. ASSUME Len(t[f]) = 0 PROVE Offered(rows, i) = {} /\ sent[f] # NoCode
    BY <2>4, <2>6, <2>7, <2>8, <2>9 DEF Values
  <2>10. ASSUME Len(t[f]) = 1 PROVE sent[f] \in Offered(rows, i)
    BY <2>4, <2>6, <2>7, <2>10 DEF Values
  <2>11. ASSUME Len(t[f]) > 1 PROVE sent[f] \in Offered(rows, i)
    BY <2>4, <2>6, <2>7, <2>8, <2>11 DEF Values
  <2>12. IF Offered(rows, i) = {} THEN sent[f] # NoCode ELSE sent[f] \in Offered(rows, i)
    <3>0. Len(t[f]) \in Nat
      BY <2>6
    <3>a. \A n \in Nat : n = 0 \/ n = 1 \/ n > 1
      OBVIOUS
    <3>1. Len(t[f]) = 0 \/ Len(t[f]) = 1 \/ Len(t[f]) > 1
      BY <3>0, <3>a, Zenon
    <3>2. \/ Offered(rows, i) = {} /\ sent[f] # NoCode
          \/ sent[f] \in Offered(rows, i)
      BY <2>9, <2>10, <2>11, <3>1, Zenon
    <3> QED BY <3>2, Zenon
  <2> QED BY <2>12 DEF t, rows, sent
<1> QED BY <1>1, TablesAlways, PTL

-----------------------------------------------------------------------------
(***************************************************************************)
(* What PayloadLayers promises of a payload.                               *)
(***************************************************************************)
\* What each kind of layer holds.
LEMMA LayersLemma ==
  ASSUME NEW keys, NEW name, NEW p \in Layers(keys, name)
  PROVE  DOMAIN p \subseteq keys /\ \A k \in DOMAIN p : p[k] = name
BY DEF Layers, Layer

\* A record is sent under its own code and id, and but for these as its own payload
\* says (PaymentRecord.get_payload).
THEOREM PayloadOwnFirst == OwnFirst
<1> SUFFICES ASSUME NEW plan \in PlanRows, NEW c \in Configurations,
                    NEW rec \in RecordPayloads
             PROVE  /\ \A k \in DOMAIN Own : RecordPayload(rec, plan, c)[k] = "own"
                    /\ \A k \in DOMAIN rec \ DOMAIN Own : RecordPayload(rec, plan, c)[k] = rec[k]
  BY DEF OwnFirst
<1> DEFINE below == Update(PlanPayload(plan, c), rec)
<1>1. \A k \in DOMAIN Own : Own[k] = "own"
  BY DEF Own, Layer
<1>2. \A k \in DOMAIN rec : k \in DOMAIN below /\ below[k] = rec[k]
  BY DEF Update
<1> HIDE DEF below
<1>3. RecordPayload(rec, plan, c) = Update(below, Own)
  BY DEF RecordPayload, below
<1> QED BY <1>1, <1>2, <1>3 DEF Update

\* The configuration of a mechanism, key by key: the row for the mechanism goes before
\* the two keys that get_configuration adds, and these before the general configuration.
LEMMA ConfigurationLemma ==
  ASSUME NEW c \in Configurations, NEW m
  PROVE  LET conf == Configuration(c, m)
             row == c.special[m].payload
         IN  /\ m \notin DOMAIN c.special => conf = c.general
             /\ m \in DOMAIN c.special =>
                  /\ DOMAIN conf = DOMAIN c.general \cup DOMAIN row
                                     \cup {"delivery_mechanism", "destination_country"}
                  /\ "delivery_mechanism" \notin DOMAIN row
                  /\ conf["delivery_mechanism"] = m
                  /\ \A k \in DOMAIN row : conf[k] = "special"
                  /\ "destination_country" \notin DOMAIN row =>
                       conf["destination_country"] = "country"
                  /\ \A k \in DOMAIN c.general \ (DOMAIN row \cup {"delivery_mechanism", "destination_country"}) :
                       conf[k] = "general"
<1> DEFINE conf == Configuration(c, m)
           row == c.special[m].payload
           named == Update(c.general, Only("delivery_mechanism", m))
           placed == Update(named, Only("destination_country", "country"))
<1>1. ASSUME m \in DOMAIN c.special
      PROVE  row \in Layers(Keys, "special")
  BY <1>1 DEF Configurations, ConfigurationRow
<1>2. c.general \in Layers(Keys, "general")
  BY DEF Configurations
<1>3. \A k \in DOMAIN c.general : c.general[k] = "general"
  BY <1>2, LayersLemma
<1>4. /\ DOMAIN named = DOMAIN c.general \cup {"delivery_mechanism"}
      /\ named["delivery_mechanism"] = m
      /\ \A k \in DOMAIN c.general \ {"delivery_mechanism"} : named[k] = "general"
  BY <1>3 DEF Update, Only
<1> HIDE DEF named
<1>5. /\ DOMAIN placed = DOMAIN c.general \cup {"delivery_mechanism", "destination_country"}
      /\ placed["delivery_mechanism"] = m
      /\ placed["destination_country"] = "country"
      /\ \A k \in DOMAIN c.general \ {"delivery_mechanism", "destination_country"} :
           placed[k] = "general"
  BY <1>4 DEF Update, Only
<1>6. ASSUME m \in DOMAIN c.special
      PROVE  conf = Update(placed, row)
  BY <1>6 DEF Configuration, named
<1> HIDE DEF placed
<1>7. ASSUME m \in DOMAIN c.special
      PROVE  DOMAIN row \subseteq Keys /\ \A k \in DOMAIN row : row[k] = "special"
  BY <1>1, <1>7, LayersLemma
<1>8. m \notin DOMAIN c.special => conf = c.general
  BY DEF Configuration
<1> HIDE DEF row, conf
<1>9. ASSUME m \in DOMAIN c.special
      PROVE  /\ DOMAIN conf = DOMAIN c.general \cup DOMAIN row
                                \cup {"delivery_mechanism", "destination_country"}
             /\ "delivery_mechanism" \notin DOMAIN row
             /\ conf["delivery_mechanism"] = m
             /\ \A k \in DOMAIN row : conf[k] = "special"
             /\ "destination_country" \notin DOMAIN row =>
                  conf["destination_country"] = "country"
             /\ \A k \in DOMAIN c.general \ (DOMAIN row \cup {"delivery_mechanism", "destination_country"}) :
                  conf[k] = "general"
  BY <1>5, <1>6, <1>7, <1>9, PayloadAssumption DEF Update
<1> QED BY <1>8, <1>9 DEF row, conf

\* The columns' mechanism goes before the payload's.
LEMMA ColumnsLemma ==
  ASSUME NEW plan \in PlanRows, MechanismNamed(plan) = plan.mechanism
  PROVE  /\ DOMAIN Columns(plan) = DOMAIN plan.payload \cup {"delivery_mechanism"}
         /\ Columns(plan)["delivery_mechanism"] = plan.mechanism
         /\ \A k \in DOMAIN plan.payload \ {"delivery_mechanism"} : Columns(plan)[k] = plan.payload[k]
<1>1. plan.payload \in PlanPayloads
  BY DEF PlanRows
<1>2. ASSUME NEW p \in Layers(Keys, "plan"), NEW d \in Mechanisms,
             plan.payload = Update(p, Only("delivery_mechanism", d))
      PROVE  MechanismNamed(plan) = d
  BY <1>2 DEF MechanismNamed, Update, Only
<1>3. ASSUME plan.payload \in Layers(Keys, "plan")
      PROVE  MechanismNamed(plan) = Cash
  BY <1>3, LayersLemma, PayloadAssumption DEF MechanismNamed
<1>4. MechanismNamed(plan) \in Mechanisms
  BY <1>1, <1>2, <1>3, PayloadAssumption DEF PlanPayloads
<1>5. plan.mechanism # NoMechanism
  BY <1>4, PayloadAssumption
<1> QED BY <1>5 DEF Columns, Update, Only

\* The payload of such a plan, key by key.
LEMMA PlanLemma ==
  ASSUME NEW plan \in PlanRows, NEW c \in Configurations,
         MechanismNamed(plan) = plan.mechanism,
         NEW k \in DOMAIN PlanPayload(plan, c)
  PROVE  PlanPayload(plan, c)[k] = IF k = "delivery_mechanism" THEN plan.mechanism
                                                              ELSE Configured(plan, c, k)
<1> DEFINE conf == Configuration(c, plan.mechanism)
<1>1. CASE ~plan.country
  BY <1>1, ColumnsLemma DEF PlanPayload, Configured
<1>2. CASE plan.country
  <2>1. PlanPayload(plan, c) = Update(Columns(plan), conf)
    BY <1>2 DEF PlanPayload
  <2>2. DOMAIN c.general \subseteq Keys /\ \A l \in DOMAIN c.general : c.general[l] = "general"
    BY LayersLemma DEF Configurations
  <2> DEFINE row == c.special[plan.mechanism].payload
  <2>3. ASSUME plan.mechanism \in DOMAIN c.special
        PROVE  /\ DOMAIN conf = DOMAIN c.general \cup DOMAIN row
                                  \cup {"delivery_mechanism", "destination_country"}
               /\ "delivery_mechanism" \notin DOMAIN row
               /\ conf["delivery_mechanism"] = plan.mechanism
               /\ \A l \in DOMAIN row : conf[l] = "special"
               /\ "destination_country" \notin DOMAIN row =>
                    conf["destination_country"] = "country"
               /\ \A l \in DOMAIN c.general \ (DOMAIN row \cup {"delivery_mechanism", "destination_country"}) :
                    conf[l] = "general"
    BY <2>3, ConfigurationLemma
  <2> HIDE DEF conf
  <2>4. CASE k \in DOMAIN conf
    <3>1. PlanPayload(plan, c)[k] = conf[k]
      BY <2>1, <2>4 DEF Update
    <3>2. CASE plan.mechanism \in DOMAIN c.special
      BY <3>1, <3>2, <2>4, <2>3, <1>2 DEF Configured
    <3>3. CASE plan.mechanism \notin DOMAIN c.special
      <4>1. conf = c.general
        BY <3>3, ConfigurationLemma DEF conf
      <4> QED BY <4>1, <3>1, <3>3, <2>2, <2>4, <1>2, PayloadAssumption DEF Configured
    <3> QED BY <3>2, <3>3
  <2>5. CASE k \notin DOMAIN conf
    <3>1. k \in DOMAIN Columns(plan) /\ PlanPayload(plan, c)[k] = Columns(plan)[k]
      BY <2>1, <2>5 DEF Update
    <3>2. CASE plan.mechanism \in DOMAIN c.special
      BY <3>1, <3>2, <2>5, <2>3, <1>2, ColumnsLemma DEF Configured
    <3>3. CASE plan.mechanism \notin DOMAIN c.special
      <4>1. conf = c.general
        BY <3>3, ConfigurationLemma DEF conf
      <4> QED BY <4>1, <3>1, <3>3, <2>5, <1>2, ColumnsLemma DEF Configured
    <3> QED BY <3>2, <3>3
  <2> QED BY <2>4, <2>5
<1> QED BY <1>1, <1>2

\* When the payload of a plan names the mechanism of its column, what HOPE says of any
\* other key yields to the configuration of the mechanism in the country, or else to the
\* general one (PaymentInstruction.get_payload, FSPProcessor.get_configuration).
THEOREM PayloadLayersInOrder == LayersInOrder
BY PlanLemma DEF LayersInOrder

\* The configuration the admin's button shows is one such a plan's transfers are made
\* with (PaymentInstruction.configuration and get_payload).
THEOREM PayloadShownIsApplied == ShownIsApplied
<1> SUFFICES ASSUME NEW plan \in PlanRows, NEW c \in Configurations,
                    plan.country, MechanismNamed(plan) = plan.mechanism,
                    NEW m \in ConfigurationShown(plan, c),
                    NEW k \in DOMAIN c.special[m].payload
             PROVE  k \in DOMAIN PlanPayload(plan, c) /\ PlanPayload(plan, c)[k] = "special"
  BY DEF ShownIsApplied
<1>1. m = plan.mechanism /\ m \in DOMAIN c.special
  BY DEF ConfigurationShown
<1> DEFINE conf == Configuration(c, plan.mechanism)
           row == c.special[plan.mechanism].payload
<1>2. /\ DOMAIN conf = DOMAIN c.general \cup DOMAIN row
                         \cup {"delivery_mechanism", "destination_country"}
      /\ \A l \in DOMAIN row : conf[l] = "special"
  BY <1>1, ConfigurationLemma
<1>3. PlanPayload(plan, c) = Update(Columns(plan), conf)
  BY DEF PlanPayload
<1>4. k \in DOMAIN row
  BY <1>1
<1> HIDE DEF conf, row
<1> QED BY <1>2, <1>3, <1>4 DEF Update
=============================================================================
