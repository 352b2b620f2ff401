------------------------------ MODULE MCExports ------------------------------
(***************************************************************************)
(* Exports and, for all queries of up to three lines of up to three        *)
(* pieces and up to two records, what ExportsProofs proves of them.        *)
(***************************************************************************)
EXTENDS Exports, ExportSheet

UpTo(n, s) == UNION {[1 .. k -> s] : k \in 1 .. n}
ShortQueries == [lines : UpTo(3, UpTo(3, Pieces)), crlf : BOOLEAN]

ASSUME SheetsChecked ==
  \A q \in ShortQueries, objs \in UpTo(2, Objects) : SheetsAgree(q, objs) /\ OneColumn(q, objs)
=============================================================================
