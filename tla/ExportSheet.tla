----------------------------- MODULE ExportSheet -----------------------------
(***************************************************************************)
(* The sheet that an export template makes of records, on the page of the  *)
(* admin and in the mail of the job.  A line of a query is "label#column"; *)
(* here it is the sequence of its pieces, those between its '#'s, and a    *)
(* piece has neither a '#' nor a line break.  A text is a sequence of      *)
(* pieces, whatever stands between them, and a cell the text rendered for  *)
(* a record.                                                               *)
(***************************************************************************)
EXTENDS Naturals, Sequences

CONSTANTS Pieces, Objects   \* pieces of text, payment records

\* A query is typed into the form of the admin, which ends its lines with CRLF, or sent
\* to the API, which stores what it is sent, bare line feeds too.
Line == Seq(Pieces) \ {<<>>}
Query == [lines : Seq(Line) \ {<<>>}, crlf : BOOLEAN]

LastOf(s) == s[Len(s)]
Cell(text, obj) == [j \in DOMAIN text |-> <<text[j], obj>>]

\* export_as_template_impl: a row of headings, if any, and a row for each record.
Sheet(columns, header, objs) ==
  (IF header = <<>> THEN <<>> ELSE <<header>>) \o
  [i \in DOMAIN objs |-> [c \in DOMAIN columns |-> Cell(columns[c], objs[i])]]

-----------------------------------------------------------------------------
\* TemplateExportForm.clean splits at CRLF alone: a query with line feeds is one value.
Split(q) == q.crlf \/ Len(q.lines) = 1
Marked(q) == {i \in DOMAIN q.lines : Len(q.lines[i]) > 1}

\* Of each value the heading is what stands before the first '#' ...
FirstMarked(q) ==
  IF Marked(q) = {} THEN Len(q.lines) ELSE CHOOSE i \in Marked(q) : \A j \in Marked(q) : i <= j
FormHeader(q) ==
  IF Split(q) THEN [i \in DOMAIN q.lines |-> <<Head(q.lines[i])>>]
  ELSE << [i \in 1 .. FirstMarked(q) |-> Head(q.lines[i])] >>

\* ... and the column what stands after the last.
LastMarked(q) ==
  IF Marked(q) = {} THEN 1 ELSE CHOOSE i \in Marked(q) : \A j \in Marked(q) : i >= j
FormColumns(q) ==
  IF Split(q) THEN [i \in DOMAIN q.lines |-> <<LastOf(q.lines[i])>>]
  ELSE << [i \in 1 .. Len(q.lines) - LastMarked(q) + 1 |-> LastOf(q.lines[LastMarked(q) + i - 1])] >>

\* The action export_as_template, for a query typed into its form ...
ActionSheet(q, objs) == Sheet(FormColumns(q), FormHeader(q), objs)

\* ... which generate_records posts the template's query to, for all records of the plan.
PageSheet(q, objs) == ActionSheet(q, objs)

\* export_payment_instruction_to_email: splitlines(), and the lines are taken whole.
MailSheet(q, objs) == Sheet(q.lines, <<>>, objs)

-----------------------------------------------------------------------------
\* For a query that the form splits, the page and the mail have the same columns, row
\* by row: the page heads each with its label, the mail puts the label into each cell.
SheetsAgree(q, objs) ==
  LET page == PageSheet(q, objs)
      mail == MailSheet(q, objs)
  IN  Split(q) =>
        /\ Len(page) = Len(mail) + 1
        /\ DOMAIN page[1] = DOMAIN q.lines
        /\ \A i \in DOMAIN mail :
             /\ DOMAIN mail[i] = DOMAIN q.lines /\ DOMAIN page[i + 1] = DOMAIN q.lines
             /\ \A c \in DOMAIN q.lines :
                  /\ page[i + 1][c] = <<LastOf(mail[i][c])>>
                  /\ mail[i][c][1][1] = page[1][c][1]

\* Another query has all its columns in one on the page, and the text of the first '#'
\* or before it, and of the last or after it, is what it shows.
OneColumn(q, objs) ==
  ~Split(q) => \A i \in DOMAIN PageSheet(q, objs) : Len(PageSheet(q, objs)[i]) = 1
=============================================================================
