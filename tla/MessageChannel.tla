--------------------------- MODULE MessageChannel ---------------------------
(***************************************************************************)
(* What a connection promises of the messages that come in: they are those *)
(* the peer sent, whole, once, in order, up to the first frame that breaks *)
(* the protocol.  A caller that goes on past that frame is promised        *)
(* nothing, until it connects again.                                       *)
(***************************************************************************)
EXTENDS Sequences, Naturals

CONSTANT
  Nothing,  \* no message
  Broken    \* stands in the stream where the peer broke the protocol
VARIABLES
  pending,  \* the messages the peer has completed, not yet delivered
  given,    \* the message the caller holds
  spoiled   \* the caller has gone on past a frame that was not read to its end

Init == pending = <<>> /\ given = Nothing /\ ~spoiled

Offer ==
  /\ Len(pending') = Len(pending) + 1
  /\ SubSeq(pending', 1, Len(pending)) = pending
  /\ UNCHANGED <<given, spoiled>>

Deliver ==
  /\ pending # <<>> /\ Head(pending) # Broken
  /\ given' = Head(pending)
  /\ pending' = Tail(pending)
  /\ UNCHANGED spoiled

PutDown == given' = Nothing /\ UNCHANGED <<pending, spoiled>>

Reconnect == pending' = <<>> /\ given' = Nothing /\ ~spoiled'

GoOn == spoiled' /\ UNCHANGED <<pending, given>>

Adrift == spoiled /\ spoiled'

Next == Offer \/ Deliver \/ PutDown \/ Reconnect \/ GoOn \/ Adrift

Spec == Init /\ [][Next]_<<pending, given, spoiled>>
=============================================================================
