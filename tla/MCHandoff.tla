----------------------------- MODULE MCHandoff -----------------------------
(***************************************************************************)
(* The ways in which a thread hands work to another one: the ring that     *)
(* both work on, the worker thread that polls it, and the mailbox that its *)
(* owner drains; and the registry in which threads find their slots.  A     *)
(* behaviour is of the one that the initial state picks; the others keep    *)
(* their initial values.                                                   *)
(***************************************************************************)
EXTENDS RingBuffer, WorkerThread, Dispatch, Registry, TLC

CONSTANTS p, c, d

VARIABLE way

handoffVars == <<way, vars, workerVars, dispatchVars, registryVars>>

\* p and d differ above the bits a ticket keeps: they share a ticket.
MCTid == (p :> 1) @@ (c :> 2) @@ (d :> 9)

HandoffInit ==
  /\ way \in {"ring", "worker", "mailbox", "registry"}
  /\ Init /\ DispatchInit /\ RegistryInit
  /\ WorkerInit /\ (way = "worker" \/ (core /\ tick))

HandoffNext ==
  /\ UNCHANGED way
  /\ \/ way = "ring" /\ Next /\ UNCHANGED <<workerVars, dispatchVars, registryVars>>
     \/ way = "worker" /\ WorkerNext /\ UNCHANGED <<vars, dispatchVars, registryVars>>
     \/ way = "mailbox" /\ DispatchNext /\ UNCHANGED <<vars, workerVars, registryVars>>
     \/ way = "registry" /\ RegistryNext /\ UNCHANGED <<vars, workerVars, dispatchVars>>

\* A thread inside a call goes on, and the consumer of a mailbox drains again
\* and again: the fairness of the one that is at work.
HandoffSpec ==
  /\ HandoffInit /\ [][HandoffNext]_handoffVars
  /\ \A t \in Threads : /\ WF_vars(way = "ring" /\ Acquire(t))
                        /\ WF_vars(way = "ring" /\ Advance(t))
  /\ \A q \in Platforms : WF_workerVars(way = "worker" /\ Loop(q))
  /\ WF_workerVars(way = "worker" /\ (RunSpawn \/ RunMark \/ StopJoin \/ FreeJoin))
  /\ \A t \in Users : /\ WF_dispatchVars(way = "mailbox" /\ Post(t))
                      /\ WF_dispatchVars(way = "mailbox" /\ Drain(t))
  /\ \A t \in Tids : WF_registryVars(way = "registry" /\ FindSlot(t))

\* A stop of a worker returns, and so does a thread's search for its slot when there
\* are no more thread ids than slots.
CallsReturn == StopReturns /\ IndexReturns
=============================================================================
