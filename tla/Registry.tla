------------------------------ MODULE Registry ------------------------------
(***************************************************************************)
(* atomic/registry.c: a table of thread ids in which every thread finds or  *)
(* claims a slot, and the role it writes there.  A slot is never given back; *)
(* when a thread ends, the system may give its id to a new one.              *)
(***************************************************************************)
EXTENDS Integers

CONSTANTS
  Tids,          \* what pthread_self answers: numbers above 0
  TableSize,     \* THREAD_REGISTRY_SIZE
  Roles          \* the roles that a thread takes, THREAD_ROLE_NONE = 0 not one of them

ASSUME RegistryAssumption ==
  /\ Tids \subseteq Nat \ {0}
  /\ TableSize \in Nat \ {0}
  /\ 0 \notin Roles

VARIABLES
  table,         \* s_table
  roles,         \* s_roles
  at,            \* the slot that the call of each thread looks at, or OutOfCall
  claiming,      \* the threads that have seen theirs empty
  owns,          \* history: the slot the last call of each thread returned, or OutOfCall
  plays          \* history: the role the thread has set since it began, or 0

registryVars == <<table, roles, at, claiming, owns, plays>>

OutOfCall == -1
Slots == 0 .. TableSize - 1

RegistryInit ==
  /\ table = [s \in Slots |-> 0] /\ roles = [s \in Slots |-> 0]
  /\ at = [t \in Tids |-> OutOfCall] /\ claiming = {}
  /\ owns = [t \in Tids |-> OutOfCall] /\ plays = [t \in Tids |-> 0]

Answer(t) == at' = [at EXCEPT ![t] = OutOfCall] /\ owns' = [owns EXCEPT ![t] = at[t]]
NextSlot(t) == at' = [at EXCEPT ![t] = (@ + 1) % TableSize] /\ UNCHANGED owns

\* ThreadRegistry_index: its start, the load of a slot, and the compare-and-swap on
\* an empty one.
Look(t) ==
  /\ at[t] = OutOfCall /\ at' = [at EXCEPT ![t] = t % TableSize]
  /\ UNCHANGED <<table, roles, claiming, owns, plays>>
Probe(t) ==
  /\ at[t] # OutOfCall /\ t \notin claiming
  /\ \/ table[at[t]] = t /\ Answer(t) /\ UNCHANGED claiming
     \/ table[at[t]] = 0 /\ claiming' = claiming \union {t} /\ UNCHANGED <<at, owns>>
     \/ table[at[t]] \notin {0, t} /\ NextSlot(t) /\ UNCHANGED claiming
  /\ UNCHANGED <<table, roles, plays>>
\* A variant of Claim: a plain store.
ClaimAnyway(t) ==
  /\ t \in claiming /\ claiming' = claiming \ {t}
  /\ table' = [table EXCEPT ![at[t]] = t] /\ Answer(t)
  /\ UNCHANGED <<roles, plays>>
Claim(t) ==
  /\ t \in claiming /\ claiming' = claiming \ {t}
  /\ \/ table[at[t]] = 0 /\ table' = [table EXCEPT ![at[t]] = t] /\ Answer(t)
     \/ table[at[t]] # 0 /\ NextSlot(t) /\ UNCHANGED table
  /\ UNCHANGED <<roles, plays>>
FindSlot(t) == Probe(t) \/ Claim(t)

\* ThreadRegistry_setRole, by a thread on the index it was given.
SetRole(t) ==
  /\ at[t] = OutOfCall /\ owns[t] # OutOfCall
  /\ \E role \in Roles : roles' = [roles EXCEPT ![owns[t]] = role] /\ plays' = [plays EXCEPT ![t] = role]
  /\ UNCHANGED <<table, at, claiming, owns>>

\* The thread ends, and a new one gets its id: external.
Succeed(t) ==
  /\ at[t] = OutOfCall /\ owns[t] # OutOfCall
  /\ owns' = [owns EXCEPT ![t] = OutOfCall] /\ plays' = [plays EXCEPT ![t] = 0]
  /\ UNCHANGED <<table, roles, at, claiming>>

RegistryNext == \E t \in Tids : Look(t) \/ FindSlot(t) \/ SetRole(t) \/ Succeed(t)

RegistrySpec == RegistryInit /\ [][RegistryNext]_registryVars

\* A slot belongs to one thread, who reads there the role that it has set last; and
\* a thread that asks again, however often others came and went, gets the slot it
\* had.  ThreadRegistry_index, ThreadRegistry_setRole.
SlotsAreOwned ==
  \A t \in Tids :
    /\ owns[t] # OutOfCall => table[owns[t]] = t
    /\ plays[t] # 0 => roles[owns[t]] = plays[t]
    /\ \A s, r \in Slots : table[s] = t /\ table[r] = t => s = r

\* The slots that a probe for t passes on its way to slot s.
Home(t) == t % TableSize
Before(t, s) ==
  IF Home(t) <= s THEN Home(t) .. s - 1 ELSE (Home(t) .. TableSize - 1) \union (0 .. s - 1)

\* The values the variables take.
RegistryTypeOK ==
  /\ table \in [Slots -> Tids \union {0}]
  /\ roles \in [Slots -> Roles \union {0}]
  /\ at \in [Tids -> Slots \union {OutOfCall}]
  /\ claiming \subseteq Tids
  /\ owns \in [Tids -> Slots \union {OutOfCall}]
  /\ plays \in [Tids -> Roles \union {0}]

\* A slot is claimed by the first thread that finds it empty and is never given back,
\* so what stands between an id's first slot and its own is taken by others: a probe
\* that comes to an empty slot has not passed its own and will not find it behind.
ProbesComeAcross ==
  \A t \in Tids :
    /\ \A s \in Slots : table[s] = t => \A r \in Before(t, s) : table[r] \notin {0, t}
    /\ at[t] # OutOfCall => \A r \in Before(t, at[t]) : table[r] \notin {0, t}
    /\ t \in claiming => at[t] # OutOfCall /\ \A s \in Slots : table[s] # t

\* A role is set on a slot.
RolesHaveSlots == \A t \in Tids : plays[t] # 0 => owns[t] # OutOfCall

RegistryInv == RegistryTypeOK /\ ProbesComeAcross /\ RolesHaveSlots /\ SlotsAreOwned

\* A call returns: there are no more ids than slots.
IndexReturns == \A t \in Tids : at[t] # OutOfCall ~> at[t] = OutOfCall
=============================================================================
