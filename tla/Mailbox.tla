------------------------------ MODULE Mailbox ------------------------------
(***************************************************************************)
(* What deferred/dispatch.h promises of a Dispatch: every item that is     *)
(* posted is delivered once, in the order of the posts; a drain takes all  *)
(* that is pending at one instant, and what is posted while it delivers    *)
(* waits for a later drain.                                                *)
(***************************************************************************)
EXTENDS Naturals, Sequences

CONSTANT Items

VARIABLES
  pending,    \* posted, not taken by a drain
  active,     \* what the drain under way has still to deliver
  delivered   \* the items whose handler has been invoked

Init ==
  /\ pending = <<>>
  /\ active = <<>>
  /\ delivered = <<>>

Posted == pending \o active \o delivered

Post(x) ==
  /\ \A k \in DOMAIN Posted : Posted[k] # x
  /\ pending' = Append(pending, x)
  /\ UNCHANGED <<active, delivered>>

Take ==
  /\ active = <<>>
  /\ active' = pending
  /\ pending' = <<>>
  /\ UNCHANGED delivered

Deliver ==
  /\ active # <<>>
  /\ active' = Tail(active)
  /\ delivered' = Append(delivered, Head(active))
  /\ UNCHANGED pending

Next == Take \/ Deliver \/ \E x \in Items : Post(x)

Spec == Init /\ [][Next]_<<pending, active, delivered>>
=============================================================================
