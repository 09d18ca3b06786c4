------------------------------ MODULE RowList ------------------------------
(***************************************************************************)
(* What a chunked list promises: a list of rows that only grows, whose     *)
(* rows never change their address and of which no two share one.          *)
(***************************************************************************)
EXTENDS Sequences, Naturals

VARIABLE rows   \* the addresses of the rows

Init == rows = <<>>

Add ==
  /\ Len(rows') = Len(rows) + 1
  /\ SubSeq(rows', 1, Len(rows)) = rows
  /\ \A i \in DOMAIN rows : rows[i] # rows'[Len(rows')]

Spec == Init /\ [][Add]_rows
=============================================================================
