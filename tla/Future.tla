------------------------------- MODULE Future -------------------------------
(***************************************************************************)
(* objects/future.c: a single-assignment cell, an atomic flag isGiven and  *)
(* a plain 64-bit value.  The first setter whose compare-and-swap moves    *)
(* the flag owns the assignment and stores the value after it; a reader    *)
(* that finds the flag set reads the value.  The value is one aligned      *)
(* word: a racing read gives what it held before the store or after it.    *)
(***************************************************************************)

CONSTANTS
  Setters,   \* the threads that call Future_setDesiredValue, with themselves
             \* as the value
  Readers,   \* the threads that ask Future_isGiven, then Future_get
  Zero       \* the payload of an unresolved future

VARIABLES
  isGiven, value,   \* the two fields
  sp,               \* where each setter is
  rp,               \* where each reader is
  got               \* what a reader's Future_get returned

vars == <<isGiven, value, sp, rp, got>>

\* Future_0
Init ==
  /\ isGiven = FALSE
  /\ value = Zero
  /\ sp = [s \in Setters |-> "start"]
  /\ rp = [r \in Readers |-> "start"]
  /\ got = [r \in Readers |-> Zero]

\* The compare-and-swap of Future_setDesiredValue: the first setter wins ...
SetClaim(s) ==
  /\ sp[s] = "start"
  /\ ~isGiven
  /\ isGiven' = TRUE
  /\ sp' = [sp EXCEPT ![s] = "claimed"]
  /\ UNCHANGED <<value, rp, got>>

\* ... and stores its value, while the others return false.
SetStore(s) ==
  /\ sp[s] = "claimed"
  /\ value' = s
  /\ sp' = [sp EXCEPT ![s] = "won"]
  /\ UNCHANGED <<isGiven, rp, got>>

SetLose(s) ==
  /\ sp[s] = "start"
  /\ isGiven
  /\ sp' = [sp EXCEPT ![s] = "lost"]
  /\ UNCHANGED <<isGiven, value, rp, got>>

\* Future_isGiven answers true.
ReadFlag(r) ==
  /\ rp[r] = "start"
  /\ isGiven
  /\ rp' = [rp EXCEPT ![r] = "given"]
  /\ UNCHANGED <<isGiven, value, sp, got>>

\* Future_get
ReadValue(r) ==
  /\ rp[r] = "given"
  /\ got' = [got EXCEPT ![r] = value]
  /\ rp' = [rp EXCEPT ![r] = "done"]
  /\ UNCHANGED <<isGiven, value, sp>>

Next ==
  \/ \E s \in Setters : SetClaim(s) \/ SetStore(s) \/ SetLose(s)
  \/ \E r \in Readers : ReadFlag(r) \/ ReadValue(r)

Spec == Init /\ [][Next]_vars

-----------------------------------------------------------------------------
\* What the module's definition says of the flag: it publishes the payload, so
\* a reader that saw the future given never reads the unresolved zero.
GivenIsPublished ==
  \A r \in Readers : rp[r] = "done" => got[r] # Zero
=============================================================================
