----------------------------- MODULE Dictionary -----------------------------
(***************************************************************************)
(* What struct/map.h promises of a Map: a partial function from keys to    *)
(* values, 0 standing for the absent value, of which a call changes what   *)
(* it was called for and nothing else.                                     *)
(***************************************************************************)
EXTENDS Naturals

CONSTANTS Keys, Values, NoKey

VARIABLES
  map,   \* the value of each key, 0 when it has none
  call   \* the call under way: its key, and the value, 0 for a removal

NoCall == [key |-> NoKey, val |-> 0]

Init == map = [k \in Keys |-> 0] /\ call = NoCall

\* A caller asks; the map is what it was, also when its table grows.
Ask ==
  /\ call = NoCall
  /\ call' \in [key : Keys, val : Values \cup {0}]
  /\ UNCHANGED map

\* The call is done: its key has its value, and every other key the one it had.
Done ==
  /\ call # NoCall
  /\ map' = [map EXCEPT ![call.key] = call.val]
  /\ call' = NoCall

Next == Ask \/ Done

Spec == Init /\ [][Next]_<<map, call>>
=============================================================================
