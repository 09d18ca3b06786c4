--------------------------- MODULE MCChunkedList ---------------------------
(* Two writers and a reader, on a table of two levels and one of three.    *)
EXTENDS ChunkedList, TLC

CONSTANTS w1, w2

MCTid == (w1 :> 1) @@ (w2 :> 2)
MCOrders == {<<-2>>, <<-1>>, <<0, 3, 2>>}
=============================================================================
