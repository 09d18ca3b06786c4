------------------------------ MODULE MCParts ------------------------------
(***************************************************************************)
(* The parts that share no state and no thread with the others, checked in *)
(* one run: a behaviour is of the part that the initial state picks, and   *)
(* the others keep their initial values.                                   *)
(***************************************************************************)
EXTENDS HashMap, Input, Timing, Http, TLC

CONSTANTS k1, k2, k3, k4, k5, plainKey, shiftKey

VARIABLE part

partsVars == <<part, vars, keyVars, routeVars, pointerVars,
               timingVars, httpVars>>

\* k1 and k2 collide; k5 shares the first slot of k1 in a table of four only.
MCHash == (k1 :> 3) @@ (k2 :> 3) @@ (k3 :> 0) @@ (k4 :> 1) @@ (k5 :> 7)

MCBinding(mods, mode) == [key |-> plainKey, mods |-> mods, mode |-> mode]
MCBindings == <<MCBinding(0, Modes.tap), MCBinding(0, Modes.double),
                MCBinding(0, Modes.long), MCBinding(1, Modes.tap)>>

\* A coordinate below zero, one that 16 bits do not hold, and the same two as
\* hundredths of a scroll; the halves of the bits of a float.
MCPoints == {<<-2, 40000>>}
MCFloats == {<<65535, 255>>}

MCAnswer(sizes, isChunked, isLong) == [sizes |-> sizes, chunked |-> isChunked, long |-> isLong]
\* The last one announces a chunk with which the sum wraps where a size_t has 8 values.
MCAnswers == {MCAnswer(<<2, 1>>, TRUE, FALSE), MCAnswer(<<2, 2>>, TRUE, FALSE),
              MCAnswer(<<2>>, FALSE, FALSE), MCAnswer(<<3>>, FALSE, FALSE),
              MCAnswer(<<4>>, FALSE, FALSE),
              MCAnswer(<<1>>, TRUE, TRUE), MCAnswer(<<1>>, FALSE, TRUE),
              MCAnswer(<<2, 6>>, TRUE, FALSE)}

PartsInit ==
  /\ part \in {"map", "keys", "routing", "pointer", "time", "http"}
  /\ Init /\ KeyInit /\ RouteInit
  /\ PointerInit /\ (part = "pointer" \/ device = "mouse")
  /\ TimingInit /\ (part = "time" \/ watch = "loop")
  /\ HttpInit /\ (part = "http" \/ side = "server")

\* Every part but one stands still.
Others ==
  /\ IF part = "map" THEN TRUE ELSE UNCHANGED vars
  /\ IF part = "keys" THEN TRUE ELSE UNCHANGED keyVars
  /\ IF part = "routing" THEN TRUE ELSE UNCHANGED routeVars
  /\ IF part = "pointer" THEN TRUE ELSE UNCHANGED pointerVars
  /\ IF part = "time" THEN TRUE ELSE UNCHANGED timingVars
  /\ IF part = "http" THEN TRUE ELSE UNCHANGED httpVars

PartsNext ==
  /\ UNCHANGED part
  /\ \/ part = "map" /\ Next
     \/ part = "keys" /\ KeyNext
     \/ part = "routing" /\ RouteNext
     \/ part = "pointer" /\ PointerNext
     \/ part = "time" /\ TimingNext
     \/ part = "http" /\ HttpNext
  /\ Others

\* A put that is under way runs on, and so do the clock, the game loop, the engine
\* loop, a request and the accept thread.
PartsProgress ==
  /\ UNCHANGED part
  /\ \/ part = "map" /\ (Putting \/ Removing)
     \/ part = "keys" /\ KeyProgress
     \/ part = "time" /\ InLoop
     \/ part = "http" /\ HttpProgress
  /\ Others

PartsSpec == PartsInit /\ [][PartsNext]_partsVars /\ WF_partsVars(PartsProgress)

\* The hash map alone.
MapSpec == PartsSpec /\ part = "map"

\* What the parts begin comes to an end: a put in a table with an empty slot, the
\* taps of a bound key, a loop that is stopped, a request, the stop of a server.
WhatBeginsEnds ==
  /\ PutReturnsIfEmptySlot
  /\ TapsAreSettled
  /\ part = "time" => StopEndsTheLoop
  /\ part = "http" => HttpCallsReturn
=============================================================================
