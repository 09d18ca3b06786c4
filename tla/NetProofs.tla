------------------------------ MODULE NetProofs -----------------------------
(***************************************************************************)
(* The network.                                                            *)
(*                                                                         *)
(* WebSocket: that one connection says its close last, keeps what it needs *)
(* and nothing else, and delivers the messages of its peer, whatever the   *)
(* peer sends, whenever the caller writes and closes, and however often    *)
(* the connection is opened again.                                         *)
(*                                                                         *)
(* Http: that the body of an answer and the body the server's handler is   *)
(* called with are what was sent, in pieces of any size, for every answer, *)
(* request and size of the buffers.                                        *)
(***************************************************************************)
EXTENDS WebSocket, Http, NumberProofs, FiniteSetTheorems, SequenceTheorems

-----------------------------------------------------------------------------
(* WebSocket: what is under way *)

\* The message under way on our side of the wire.
UnderWayHere == IF opcode = "none" THEN <<>> ELSE <<opcode, message>>

\* under[i] is the message under way once the next i frames are read, taken[i] the
\* number of messages of pending that they complete: between the message under way
\* here and the peer's there are exactly the frames in flight.
Assembled(under, taken) ==
  /\ under[0] = UnderWayHere /\ under[Len(wire)] = building
  /\ taken[0] = 0 /\ taken[Len(wire)] = Len(pending)
  /\ \A i, j \in 0 .. Len(wire) : i <= j => taken[i] <= taken[j]
  /\ \A i \in 1 .. Len(wire) :
       /\ under[i] = UnderWay(under[i - 1], wire[i])
       /\ IF Completes(under[i - 1], wire[i])
          THEN taken[i] = taken[i - 1] + 1 /\ pending[taken[i]] = Outcome(under[i - 1], wire[i])
          ELSE taken[i] = taken[i - 1]
InStep ==
  amiss = "no" =>
    \E under \in [0 .. Len(wire) -> {<<>>} \cup Messages], taken \in [0 .. Len(wire) -> Nat] :
      Assembled(under, taken)

\* A connection on which a frame was not read to its end has failed, until the
\* caller brings it up.
AmissIsDown == amiss = "failed" => ~Up

\* Where pings are answered, the connection was brought up again after the answer to
\* the peer's close and after every frame that went out in part.
MaySpeak ==
  Up => \A i \in 1 .. Len(out) :
          out[i] \in {"bye", "cut"} => \E k \in i + 1 .. Len(out) : out[k] = "reopen"

SocketInv ==
  /\ SocketTypeOK
  /\ HoldsWhatItNeeds
  /\ PollsWhenUp /\ AmissIsDown
  /\ MaySpeak
  /\ CloseIsLast
  /\ InStep

-----------------------------------------------------------------------------
(* One frame *)

\* The message under way stays one, and so does what it completes.
LEMMA FrameTypes ==
  ASSUME NEW under \in {<<>>} \cup Messages, NEW f \in PeerFrames
  PROVE  /\ UnderWay(under, f) \in {<<>>} \cup Messages
         /\ Completes(under, f) => Outcome(under, f) \in Messages \cup {Broken}
         /\ IsData(f) /\ Fits(under, f) => Grown(under, f) \in Messages
<1>1. f.part \in Parts \cup {"a"} /\ f.op \in {"text", "binary", "cont", "ping", "pong", "close", "bad"}
  BY DEF PeerFrames
<1>2. ASSUME IsData(f), Fits(under, f)
      PROVE  Grown(under, f) \in Messages
  <2>1. CASE f.op = "cont"
    <3>1. under \in Messages
      BY <1>2, <2>1 DEF Fits
    <3>2. under[1] \in Kinds /\ Append(under[2], f.part) \in Seq(Parts \cup {"a"})
      BY <1>1, <3>1 DEF Messages
    <3>3. QED
      BY <2>1, <3>2 DEF Grown, Messages
  <2>2. CASE f.op # "cont"
    <3>1. f.op \in Kinds
      BY <1>2, <2>2 DEF IsData, Starts, Kinds
    <3>2. <<f.part>> \in Seq(Parts \cup {"a"})
      BY <1>1
    <3>3. QED
      BY <2>2, <3>1, <3>2 DEF Grown, Messages
  <2>3. QED
    BY <2>1, <2>2
<1>3. UnderWay(under, f) \in {<<>>} \cup Messages
  BY <1>2 DEF UnderWay
<1>4. Completes(under, f) => Outcome(under, f) \in Messages \cup {Broken}
  BY <1>2 DEF Completes, Breaks, Outcome
<1>5. QED
  BY <1>2, <1>3, <1>4

-----------------------------------------------------------------------------
(* What a data frame does here is what it did at the peer *)

LEMMA HereIsMessage ==
  SocketTypeOK => UnderWayHere \in {<<>>} \cup Messages
BY DEF SocketTypeOK, UnderWayHere, Messages

LEMMA GrownHere ==
  ASSUME SocketTypeOK, NEW f \in PeerFrames, IsData(f), ~OutOfOrder(f)
  PROVE  /\ f.op = "cont" <=> UnderWayHere # <<>>
         /\ Grown(UnderWayHere, f) =
              <<IF Starts(f) THEN f.op ELSE opcode,
                Append(IF Starts(f) THEN <<>> ELSE message, f.part)>>
<1>1. f.op = "cont" <=> ~Starts(f)
  BY DEF IsData, Starts
<1>2. Starts(f) <=> opcode = "none"
  BY <1>1 DEF OutOfOrder
<1>3. <<opcode, message>> # <<>>
  OBVIOUS
<1>4. CASE Starts(f)
  <2>1. UnderWayHere = <<>>
    BY <1>2, <1>4 DEF UnderWayHere
  <2>2. Append(<<>>, f.part) = <<f.part>>
    OBVIOUS
  <2>3. QED
    BY <1>1, <1>4, <2>1, <2>2 DEF Grown
<1>5. CASE ~Starts(f)
  <2>1. UnderWayHere = <<opcode, message>>
    BY <1>2, <1>5 DEF UnderWayHere
  <2>2. QED
    BY <1>1, <1>3, <1>5, <2>1 DEF Grown
<1>6. QED
  BY <1>4, <1>5

LEMMA DataHere ==
  ASSUME SocketTypeOK, NEW f \in PeerFrames, Data(f)
  PROVE  /\ IsData(f) /\ out' = out
         /\ \/ /\ state' = "failed" /\ poll' = "idle" /\ amiss' = (IF amiss = "no" THEN "failed" ELSE amiss)
               /\ UNCHANGED <<given, pending>>
               /\ opcode' \in Kinds /\ message' \in Seq(Parts \cup {"a"})
            \/ /\ ~f.fin /\ Fits(UnderWayHere, f)
               /\ state' = state /\ poll' = "more" /\ UNCHANGED <<amiss, given, pending>>
               /\ opcode' \in Kinds /\ <<opcode', message'>> = Grown(UnderWayHere, f)
               /\ message' \in Seq(Parts \cup {"a"})
            \/ /\ f.fin /\ Fits(UnderWayHere, f) /\ ~Breaks(UnderWayHere, f)
               /\ state' = state /\ poll' = "idle" /\ opcode' = "none" /\ message' = <<>>
               /\ amiss' = amiss
               /\ given' = Grown(UnderWayHere, f)
               /\ pending' = IF amiss = "up" THEN pending ELSE Tail(pending)
<1> DEFINE kind == IF Starts(f) THEN f.op ELSE opcode
           before == IF Starts(f) THEN <<>> ELSE message
           parts == Append(before, f.part)
<1>1. IsData(f) /\ ~OutOfOrder(f) /\ out' = out
  BY DEF Data
<1>3. f.part \in Parts \cup {"a"} /\ f.fin \in BOOLEAN
  BY DEF PeerFrames
<1>4. before \in Seq(Parts \cup {"a"}) /\ parts \in Seq(Parts \cup {"a"})
  BY <1>3 DEF SocketTypeOK
<1>5. kind \in Kinds
  BY <1>1 DEF IsData, OutOfOrder, Starts, SocketTypeOK, Kinds
<1>6. /\ f.op = "cont" <=> UnderWayHere # <<>>
      /\ Grown(UnderWayHere, f) = <<kind, parts>>
  BY <1>1, GrownHere
<1>7. f.part # "cut" => Fits(UnderWayHere, f)
  BY <1>6 DEF Fits
<1>8. f.op # "bad"
  BY <1>1 DEF IsData, Starts
<1>9. \/ /\ state' = "failed" /\ poll' = "idle" /\ amiss' = (IF amiss = "no" THEN "failed" ELSE amiss)
         /\ UNCHANGED <<given, pending>>
         /\ opcode' = kind /\ message' \in {before, parts}
      \/ /\ f.part # "cut" /\ ~f.fin
         /\ state' = state /\ poll' = "more" /\ UNCHANGED <<amiss, given, pending>>
         /\ opcode' = kind /\ message' = parts
      \/ /\ f.part # "cut" /\ f.fin /\ Deliverable(kind, parts)
         /\ state' = state /\ poll' = "idle" /\ opcode' = "none" /\ message' = <<>>
         /\ amiss' = amiss
         /\ given' = <<kind, parts>>
         /\ pending' = IF amiss = "up" THEN pending ELSE Tail(pending)
  BY DEF Data, Fail
<1>10. Deliverable(kind, parts) /\ f.part # "cut" => ~Breaks(UnderWayHere, f)
  BY <1>6, <1>7, <1>8 DEF Breaks
<1>11. QED
  BY <1>1, <1>4, <1>5, <1>6, <1>7, <1>9, <1>10

\* What every frame read leaves as it is.
LEMMA ReadHere ==
  ASSUME SocketTypeOK, Consume
  PROVE  /\ poll \in {"fresh", "more"} /\ wire # <<>>
         /\ wire' = Tail(wire) /\ UNCHANGED <<transport, buffer, building, frames>>
         /\ \E f \in PeerFrames : /\ f = Head(wire) \/ amiss = "up"
                                  /\ Refuse(f) \/ Ping(f) \/ Pong(f) \/ PeerClose(f) \/ Data(f)
BY DEF Consume, Refuse, Ping, Pong, PeerClose, Data, Read

\* A message that is handed over in step is the next one the peer completed.
LEMMA DeliveryIsDue ==
  ASSUME SocketTypeOK, InStep, amiss = "no", wire # <<>>, NEW f, f = Head(wire),
         IsData(f), f.fin, ~Breaks(UnderWayHere, f)
  PROVE  pending # <<>> /\ Head(pending) = Grown(UnderWayHere, f)
<1>1. PICK under \in [0 .. Len(wire) -> {<<>>} \cup Messages], taken \in [0 .. Len(wire) -> Nat] :
        Assembled(under, taken)
  BY DEF InStep
<1>2. Len(wire) \in Nat /\ 1 \in 1 .. Len(wire) /\ wire[1] = f
  BY DEF SocketTypeOK
<1>3. Completes(under[0], wire[1]) /\ Outcome(under[0], wire[1]) = Grown(UnderWayHere, f)
  BY <1>1, <1>2 DEF Assembled, Completes, Outcome
<1>4. taken[1] = 1 /\ pending[1] = Grown(UnderWayHere, f)
  <2>1. 1 - 1 = 0
    OBVIOUS
  <2>2. taken[1] = taken[0] + 1 /\ pending[taken[1]] = Outcome(under[0], wire[1])
    BY <1>1, <1>2, <1>3, <2>1 DEF Assembled
  <2>3. QED
    BY <1>1, <1>3, <2>2 DEF Assembled
<1>5. Len(pending) >= 1
  <2>1. 1 \in 0 .. Len(wire) /\ Len(wire) \in 0 .. Len(wire) /\ 1 <= Len(wire)
    BY <1>2
  <2>2. taken[1] <= taken[Len(wire)] /\ taken[Len(wire)] = Len(pending)
    BY <1>1, <2>1 DEF Assembled
  <2>3. QED
    BY <1>4, <2>2 DEF SocketTypeOK
<1>6. QED
  BY <1>4, <1>5 DEF SocketTypeOK

-----------------------------------------------------------------------------
(* Types *)

LEMMA TypeStep ==
  ASSUME SocketTypeOK, PollsWhenUp, AmissIsDown, InStep, Next
  PROVE  SocketTypeOK'
<1>1. CASE Peer
  <2>1. PICK f \in PeerFrames :
          /\ wire' = Append(wire, f)
          /\ building' = UnderWay(building, f)
          /\ pending' = IF Completes(building, f) THEN Append(pending, Outcome(building, f)) ELSE pending
    BY <1>1 DEF Peer
  <2>2. wire' \in Seq(PeerFrames)
    BY <2>1 DEF SocketTypeOK
  <2>3. building' \in {<<>>} \cup Messages /\ pending' \in Seq(Messages \cup {Broken})
    <3>1. building \in {<<>>} \cup Messages /\ pending \in Seq(Messages \cup {Broken})
      BY DEF SocketTypeOK
    <3>2. /\ UnderWay(building, f) \in {<<>>} \cup Messages
          /\ Completes(building, f) => Outcome(building, f) \in Messages \cup {Broken}
      BY <3>1, FrameTypes
    <3>3. QED
      BY <2>1, <3>1, <3>2
  <2>4. frames' \in Nat /\ UNCHANGED <<state, transport, buffer, opcode, message, poll, out, amiss, given>>
    BY <1>1 DEF Peer, SocketTypeOK
  <2>5. QED
    BY <2>2, <2>3, <2>4 DEF SocketTypeOK
<1>2. CASE Open
  <2>1. /\ opcode' = "none" /\ message' = <<>> /\ out' = <<>> /\ wire' = <<>> /\ building' = <<>>
        /\ pending' = <<>> /\ given' = Nothing /\ frames' = 0 /\ amiss' = "no" /\ poll' = poll
    BY <1>2 DEF Open, Fresh, HungUp
  <2>2. state' \in {"closed", "open", "closing", "failed"} /\ transport' \in BOOLEAN /\ buffer' \in BOOLEAN
    BY <1>2 DEF Open
  <2>3. QED
    BY <2>1, <2>2 DEF SocketTypeOK
<1>3. \A op \in Said : Append(out, op) \in Seq(Said)
  BY DEF SocketTypeOK
<1>4. CASE Close
  <2>1. out' \in Seq(Said)
    BY <1>3, <1>4 DEF Close, SayClose, Sent, NotSent, SocketTypeOK, Said
  <2>2. /\ state' = "closed" /\ transport' \in BOOLEAN /\ buffer' \in BOOLEAN /\ opcode' = "none"
        /\ message' = <<>> /\ wire' = <<>> /\ building' = <<>> /\ pending' = <<>>
        /\ given' = Nothing /\ frames' = 0 /\ amiss' = "no" /\ poll' = poll
    BY <1>4 DEF Close, Release, HungUp
  <2>3. QED
    BY <2>1, <2>2 DEF SocketTypeOK
<1>5. CASE Write \/ WriteClose
  <2>1. /\ out' \in Seq(Said) /\ state' \in {"closed", "open", "closing", "failed"}
        /\ amiss' \in {"no", "failed", "up"}
    BY <1>3, <1>5 DEF Write, WriteClose, Sent, NotSent, SocketTypeOK, Said
  <2>2. QED
    BY <1>5, <2>1 DEF Write, WriteClose, peerVars, SocketTypeOK
<1>6. CASE Poll \/ PollAtOnce \/ PollElapses \/ PollFails
  BY <1>6 DEF Poll, PollAtOnce, PollElapses, PollFails, peerVars, SocketTypeOK
<1>7. CASE Consume
  <2>1. /\ wire # <<>> /\ poll \in {"fresh", "more"}
        /\ wire' = Tail(wire) /\ UNCHANGED <<transport, buffer, building, frames>>
    BY <1>7, ReadHere
  <2>2. wire' \in Seq(PeerFrames)
    BY <2>1 DEF SocketTypeOK
  <2> PICK f \in PeerFrames : /\ f = Head(wire) \/ amiss = "up"
                              /\ Refuse(f) \/ Ping(f) \/ Pong(f) \/ PeerClose(f) \/ Data(f)
    BY <1>7, ReadHere
  <2>3. CASE Refuse(f) \/ Pong(f)
    BY <2>1, <2>2, <2>3 DEF Refuse, Fail, Pong, SocketTypeOK
  <2>4. CASE Ping(f) \/ PeerClose(f)
    <3>1. out' \in Seq(Said)
      BY <1>3, <2>4 DEF Ping, PeerClose, SayClose, Sent, NotSent, SocketTypeOK, Said
    <3>2. QED
      BY <2>1, <2>2, <2>4, <3>1 DEF Ping, PeerClose, SocketTypeOK
  <2>5. CASE Data(f)
    <3>1. /\ out' = out /\ state' \in {"failed", state} /\ poll' \in {"idle", "more"}
          /\ amiss' \in {"failed", amiss}
      BY <2>5, DataHere
    <3>2. opcode' \in {"none"} \cup Kinds /\ message' \in Seq(Parts \cup {"a"})
      <4>1. <<>> \in Seq(Parts \cup {"a"})
        OBVIOUS
      <4>2. \/ opcode' \in Kinds /\ message' \in Seq(Parts \cup {"a"})
            \/ opcode' = "none" /\ message' = <<>>
        BY <2>5, DataHere
      <4>3. QED
        BY <4>1, <4>2
    <3>3. /\ pending' \in Seq(Messages \cup {Broken})
          /\ given' \in Messages \cup {Nothing}
      <4>1. CASE UNCHANGED <<given, pending>>
        BY <4>1 DEF SocketTypeOK
      <4>2. CASE ~UNCHANGED <<given, pending>>
        <5>1. /\ IsData(f) /\ f.fin /\ Fits(UnderWayHere, f) /\ ~Breaks(UnderWayHere, f)
              /\ given' = Grown(UnderWayHere, f)
              /\ pending' = IF amiss = "up" THEN pending ELSE Tail(pending)
          BY <2>5, <4>2, DataHere
        <5>2. amiss # "failed"
          BY <2>1 DEF PollsWhenUp, AmissIsDown
        <5>3. amiss = "no" => pending # <<>>
          BY <2>1, <5>1, DeliveryIsDue
        <5>4. given' \in Messages
          BY <5>1, HereIsMessage, FrameTypes
        <5>5. QED
          BY <5>1, <5>2, <5>3, <5>4 DEF SocketTypeOK
      <4>3. QED
        BY <4>1, <4>2
    <3>4. QED
      BY <2>1, <2>2, <3>1, <3>2, <3>3 DEF SocketTypeOK
  <2>6. QED
    BY <2>3, <2>4, <2>5
<1>8. QED
  BY <1>1, <1>2, <1>4, <1>5, <1>6, <1>7 DEF Next

-----------------------------------------------------------------------------
(* What the connection needs *)

\* Whoever the caller is: no step of a call leaves a connection that is up without
\* its transport, nor memory behind one that is gone.
LEMMA NeedsInit == Init => HoldsWhatItNeeds /\ PollsWhenUp /\ AmissIsDown
BY DEF Init, HoldsWhatItNeeds, PollsWhenUp, AmissIsDown

LEMMA NeedsStep ==
  ASSUME HoldsWhatItNeeds, PollsWhenUp, [Next]_vars
  PROVE  HoldsWhatItNeeds' /\ PollsWhenUp'
<1> USE DEF HoldsWhatItNeeds, PollsWhenUp, Up
<1>1. CASE UNCHANGED vars
  BY <1>1 DEF vars
<1>2. CASE Peer
  BY <1>2 DEF Peer
<1>3. CASE Open
  BY <1>3 DEF Open, Fresh
<1>4. CASE Close
  BY <1>4 DEF Close, Release
<1>5. CASE Write \/ WriteClose
  BY <1>5 DEF Write, WriteClose
<1>6. CASE Poll \/ PollAtOnce \/ PollElapses \/ PollFails
  BY <1>6 DEF Poll, PollAtOnce, PollElapses, PollFails
<1>7. CASE Consume
  <2>1. poll \in {"fresh", "more"} /\ UNCHANGED <<transport, buffer>>
    BY <1>7 DEF Consume, Refuse, Ping, Pong, PeerClose, Data, Read
  <2>2. state' = state \/ (state' \in {"closed", "failed"} /\ poll' = "idle")
    BY <1>7 DEF Consume, Refuse, Fail, Ping, Pong, PeerClose, Data
  <2>3. QED
    BY <2>1, <2>2
<1>8. QED
  BY <1>1, <1>2, <1>3, <1>4, <1>5, <1>6, <1>7 DEF Next

\* A connection that may still carry frames has its transport and its buffer, and
\* one whose transport is gone holds no memory, whatever the caller writes and when,
\* and through every failed open.  WebSocket_open, WebSocket_close.
THEOREM NeedsAreHeld == Spec => []HoldsWhatItNeeds
BY NeedsInit, NeedsStep, PTL DEF Spec

\* A frame that is not read to its end fails the connection.
LEMMA AmissStep ==
  ASSUME AmissIsDown, [Next]_vars
  PROVE  AmissIsDown'
<1> USE DEF AmissIsDown, Up
<1>1. CASE amiss' = amiss /\ (Up' => Up)
  BY <1>1
<1>2. CASE UNCHANGED vars \/ Peer \/ Poll \/ PollAtOnce \/ PollElapses \/ PollFails \/ Write
  BY <1>2 DEF vars, Peer, Poll, PollAtOnce, PollElapses, PollFails, Write
<1>3. CASE Open \/ Close
  BY <1>3 DEF Open, Close, Fresh, HungUp
<1>4. CASE WriteClose
  BY <1>4 DEF WriteClose
<1>5. CASE Consume
  <2>1. PICK f \in PeerFrames : Refuse(f) \/ Ping(f) \/ Pong(f) \/ PeerClose(f) \/ Data(f)
    BY <1>5 DEF Consume
  <2>2. (amiss' = amiss /\ state' \in {state, "closed", "failed"}) \/ state' = "failed"
    BY <2>1 DEF Refuse, Fail, Ping, Pong, PeerClose, Data
  <2>3. QED
    BY <2>2
<1>6. QED
  BY <1>2, <1>3, <1>4, <1>5 DEF Next

-----------------------------------------------------------------------------
(* What may still be said *)

\* One more frame: the client closes where nothing but frames went out, and answers
\* where the connection was brought up again.
LEMMA OneMoreFrame ==
  ASSUME SocketTypeOK, CloseIsLast, NEW op \in Said, out' = Append(out, op),
         state' = "open" => state = "open" /\ op \in {"frame", "pong"},
         op = "bye" => state = "open",
         op = "pong" => MaySpeak /\ Up,
         Up' => op = "reopen" \/ (MaySpeak /\ Up /\ op \in {"frame", "close", "pong"})
  PROVE  CloseIsLast' /\ MaySpeak'
<1>1. /\ Len(out) \in Nat /\ Len(out') = Len(out) + 1
      /\ \A i \in 1 .. Len(out) : out'[i] = out[i]
      /\ out'[Len(out) + 1] = op
  BY DEF SocketTypeOK
<1>2. \A i \in 1 .. Len(out') : i \in 1 .. Len(out) \/ i = Len(out) + 1
  BY <1>1
<1>3. OpenIsUntouched'
  <2> SUFFICES ASSUME state' = "open", NEW i \in 1 .. Len(out') PROVE out'[i] \in {"frame", "pong"}
    BY DEF OpenIsUntouched
  <2>1. QED
    BY <1>1, <1>2 DEF CloseIsLast, OpenIsUntouched
<1>4. ClientKeepsQuiet'
  <2> SUFFICES ASSUME NEW j \in 1 .. Len(out'), NEW i \in 1 .. Len(out'), i < j
               PROVE  /\ out'[j] = "bye" => out'[i] \in {"frame", "pong"}
                      /\ out'[j] = "pong" /\ out'[i] \in {"bye", "cut"} =>
                           \E k \in i + 1 .. j - 1 : out'[k] = "reopen"
    BY DEF ClientKeepsQuiet
  <2>1. i \in 1 .. Len(out) /\ out'[i] = out[i]
    BY <1>1, <1>2
  <2>2. CASE j \in 1 .. Len(out)
    <3>1. /\ out[j] = "bye" => out[i] \in {"frame", "pong"}
          /\ out[j] = "pong" /\ out[i] \in {"bye", "cut"} =>
               \E k \in i + 1 .. j - 1 : out[k] = "reopen"
      BY <2>1, <2>2 DEF CloseIsLast, ClientKeepsQuiet
    <3>2. \A k \in i + 1 .. j - 1 : k \in 1 .. Len(out)
      BY <1>1, <2>1, <2>2
    <3>3. QED
      BY <1>1, <2>1, <2>2, <3>1, <3>2
  <2>3. CASE j = Len(out) + 1
    <3>1. op = "bye" => out[i] \in {"frame", "pong"}
      BY <2>1 DEF CloseIsLast, OpenIsUntouched
    <3>2. op = "pong" /\ out[i] \in {"bye", "cut"} => \E k \in i + 1 .. Len(out) : out[k] = "reopen"
      BY <2>1 DEF MaySpeak
    <3>3. \A k \in i + 1 .. Len(out) : k \in 1 .. Len(out) /\ k \in i + 1 .. j - 1
      BY <1>1, <2>1, <2>3
    <3>4. QED
      BY <1>1, <2>1, <2>3, <3>1, <3>2, <3>3
  <2>4. QED
    BY <1>2, <2>2, <2>3
<1>5. MaySpeak'
  <2> SUFFICES ASSUME Up', NEW i \in 1 .. Len(out'), out'[i] \in {"bye", "cut"}
               PROVE  \E k \in i + 1 .. Len(out') : out'[k] = "reopen"
    BY DEF MaySpeak
  <2>1. i \in 1 .. Len(out) /\ out[i] \in {"bye", "cut"}
    BY <1>1, <1>2
  <2>2. CASE op = "reopen"
    <3>1. Len(out) + 1 \in i + 1 .. Len(out')
      BY <1>1, <2>1
    <3>2. QED
      BY <1>1, <2>2, <3>1
  <2>3. CASE op # "reopen"
    <3>1. PICK k \in i + 1 .. Len(out) : out[k] = "reopen"
      BY <2>1, <2>3 DEF MaySpeak
    <3>2. k \in 1 .. Len(out) /\ k \in i + 1 .. Len(out')
      BY <1>1, <2>1
    <3>3. QED
      BY <1>1, <3>1, <3>2
  <2>4. QED
    BY <2>2, <2>3
<1>6. QED
  BY <1>3, <1>4, <1>5 DEF CloseIsLast

LEMMA SpeechStep ==
  ASSUME SocketTypeOK, CloseIsLast, MaySpeak, PollsWhenUp, [Next]_vars
  PROVE  CloseIsLast' /\ MaySpeak'
<1>1. CASE out' = out /\ (Up' => Up) /\ (state' = "open" => state = "open")
  BY <1>1 DEF CloseIsLast, OpenIsUntouched, ClientKeepsQuiet, MaySpeak
\* Part of a frame, or none of it: the connection has failed or is closed.
<1>2. ASSUME NotSent, state' \in {"failed", "closed"}
      PROVE  CloseIsLast' /\ MaySpeak'
  <2>1. CASE out' = out
    BY <1>1, <1>2, <2>1 DEF Up
  <2>2. CASE out' = Append(out, "cut")
    BY <1>2, <2>2, OneMoreFrame DEF Up, Said
  <2>3. QED
    BY <1>2, <2>1, <2>2 DEF NotSent
<1>3. CASE UNCHANGED vars \/ Peer \/ Poll \/ PollAtOnce \/ PollElapses \/ PollFails
  <2>1. out' = out /\ state' \in {state, "failed"}
    BY <1>3 DEF vars, Peer, Poll, PollAtOnce, PollElapses, PollFails
  <2>2. QED
    BY <1>1, <2>1 DEF Up
<1>4. CASE Open
  <2>1. out' = <<>> /\ Len(out') = 0
    BY <1>4 DEF Open, Fresh
  <2>2. QED
    BY <2>1 DEF CloseIsLast, OpenIsUntouched, ClientKeepsQuiet, MaySpeak
<1>5. CASE Write
  <2>1. (Sent("frame") /\ state' = state) \/ (NotSent /\ state' = "failed")
    BY <1>5 DEF Write
  <2>2. CASE Sent("frame") /\ state' = state
    BY <2>2, OneMoreFrame DEF Sent, Up, Said
  <2>3. QED
    BY <1>2, <2>1, <2>2
<1>6. CASE WriteClose
  <2>1. \/ Sent(IF Up THEN "close" ELSE "reopen") /\ state' = "closing"
        \/ NotSent /\ state' = "failed"
    BY <1>6 DEF WriteClose
  <2>2. CASE Sent(IF Up THEN "close" ELSE "reopen") /\ state' = "closing"
    <3>1. PICK op \in Said : op = IF Up THEN "close" ELSE "reopen"
      BY DEF Said
    <3>2. QED
      BY <2>2, <3>1, OneMoreFrame DEF Sent
  <2>3. QED
    BY <1>2, <2>1, <2>2
<1>7. ASSUME SayClose, state' = "closed"
      PROVE  CloseIsLast' /\ MaySpeak'
  <2>1. CASE state = "open" /\ Sent("bye")
    BY <1>7, <2>1, OneMoreFrame DEF Sent, Up, Said
  <2>2. CASE state # "open" /\ out' = out
    BY <1>1, <1>7, <2>2 DEF Up
  <2>3. QED
    BY <1>2, <1>7, <2>1, <2>2 DEF SayClose
<1>8. CASE Close
  BY <1>7, <1>8 DEF Close, Release
<1>9. CASE Consume
  <2>0. PICK f \in PeerFrames : Refuse(f) \/ Ping(f) \/ Pong(f) \/ PeerClose(f) \/ Data(f)
    BY <1>9 DEF Consume
  <2>1. CASE Refuse(f) \/ Pong(f) \/ Data(f)
    <3>1. out' = out /\ state' \in {state, "failed"}
      BY <2>1, DataHere DEF Refuse, Fail, Pong
    <3>2. QED
      BY <1>1, <3>1 DEF Up
  <2>2. CASE PeerClose(f)
    BY <1>7, <2>2 DEF PeerClose
  <2>3. CASE Ping(f)
    <3>1. Up /\ ((Sent("pong") /\ state' = state) \/ (NotSent /\ state' = "failed"))
      BY <2>3 DEF Ping, Read, PollsWhenUp
    <3>2. CASE Sent("pong") /\ state' = state
      BY <3>1, <3>2, OneMoreFrame DEF Sent, Said
    <3>3. QED
      BY <1>2, <3>1, <3>2
  <2>4. QED
    BY <2>0, <2>1, <2>2, <2>3
<1>10. QED
  BY <1>3, <1>4, <1>5, <1>6, <1>8, <1>9 DEF Next

-----------------------------------------------------------------------------
(* In step with the peer *)

\* The peer sends one more frame.
LEMMA OneMoreInFlight ==
  ASSUME SocketTypeOK, InStep, amiss = "no", Peer
  PROVE  InStep'
<1>1. PICK under \in [0 .. Len(wire) -> {<<>>} \cup Messages], taken \in [0 .. Len(wire) -> Nat] :
        Assembled(under, taken)
  BY DEF InStep
<1>2. PICK f \in PeerFrames :
        /\ wire' = Append(wire, f)
        /\ building' = UnderWay(building, f)
        /\ pending' = IF Completes(building, f) THEN Append(pending, Outcome(building, f)) ELSE pending
  BY DEF Peer
<1> DEFINE n == Len(wire)
           more == IF Completes(building, f) THEN Len(pending) + 1 ELSE Len(pending)
           after == UnderWay(building, f)
           U == [i \in 0 .. n + 1 |-> IF i = n + 1 THEN after ELSE under[i]]
           T == [i \in 0 .. n + 1 |-> IF i = n + 1 THEN more ELSE taken[i]]
<1>3. n \in Nat /\ Len(pending) \in Nat /\ more \in Nat /\ Len(wire') = n + 1
  BY <1>2 DEF SocketTypeOK
<1>4. after \in {<<>>} \cup Messages
  BY FrameTypes DEF SocketTypeOK
<1>5. \A i \in 0 .. n + 1 : i \in 0 .. n \/ i = n + 1
  BY <1>3
<1>6. U \in [0 .. n + 1 -> {<<>>} \cup Messages] /\ T \in [0 .. n + 1 -> Nat]
  BY <1>1, <1>3, <1>4, <1>5
<1>7. \A i \in 1 .. n : wire'[i] = wire[i]
  BY <1>2 DEF SocketTypeOK
<1>8. wire'[n + 1] = f
  BY <1>2 DEF SocketTypeOK
<1>9. \A k \in 1 .. Len(pending) : pending'[k] = pending[k]
  BY <1>2 DEF SocketTypeOK
<1>10. Len(pending') = more
  BY <1>2 DEF SocketTypeOK
<1>11. Completes(building, f) => pending'[more] = Outcome(building, f)
  BY <1>2 DEF SocketTypeOK
<1>12. UnderWayHere' = UnderWayHere
  BY DEF UnderWayHere, Peer
<1>13. /\ U[0] = UnderWayHere /\ T[0] = 0
       /\ U[n + 1] = after /\ T[n + 1] = more
       /\ under[n] = building /\ taken[n] = Len(pending)
  BY <1>1, <1>3 DEF Assembled
<1>14. \A i, j \in 0 .. n + 1 : i <= j => T[i] <= T[j]
  <2> SUFFICES ASSUME NEW i \in 0 .. n + 1, NEW j \in 0 .. n + 1, i <= j
               PROVE  T[i] <= T[j]
    OBVIOUS
  <2>1. \A a, b \in 0 .. n : a <= b => taken[a] <= taken[b]
    BY <1>1 DEF Assembled
  <2>2. n \in 0 .. n /\ taken[n] <= more
    BY <1>3, <1>13
  <2>3. CASE j \in 0 .. n
    BY <1>3, <2>1, <2>3
  <2>4. CASE j = n + 1 /\ i \in 0 .. n
    <3>1. taken[i] <= taken[n]
      BY <1>3, <2>1, <2>2, <2>4
    <3>2. T[i] = taken[i] /\ T[j] = more
      BY <1>3, <2>4
    <3>3. taken[i] \in Nat /\ taken[n] \in Nat
      BY <1>1, <2>2, <2>4
    <3>4. QED
      BY <1>3, <2>2, <3>1, <3>2, <3>3
  <2>5. CASE i = n + 1 /\ j = n + 1
    BY <1>3, <2>5
  <2>6. QED
    BY <1>5, <2>3, <2>4, <2>5, <1>3
<1>15. ASSUME NEW i \in 1 .. n + 1
       PROVE  /\ U[i] = UnderWay(U[i - 1], wire'[i])
              /\ IF Completes(U[i - 1], wire'[i])
                 THEN T[i] = T[i - 1] + 1 /\ pending'[T[i]] = Outcome(U[i - 1], wire'[i])
                 ELSE T[i] = T[i - 1]
  <2>1. CASE i \in 1 .. n
    <3>1. i - 1 \in 0 .. n /\ i \in 0 .. n /\ i # n + 1 /\ i - 1 # n + 1
      BY <1>3, <2>1
    <3>2. U[i] = under[i] /\ U[i - 1] = under[i - 1] /\ T[i] = taken[i] /\ T[i - 1] = taken[i - 1]
      BY <1>3, <3>1
    <3>3. /\ under[i] = UnderWay(under[i - 1], wire[i])
          /\ IF Completes(under[i - 1], wire[i])
             THEN taken[i] = taken[i - 1] + 1 /\ pending[taken[i]] = Outcome(under[i - 1], wire[i])
             ELSE taken[i] = taken[i - 1]
      BY <1>1, <2>1 DEF Assembled
    <3>4. taken[i] <= Len(pending)
      <4>1. n \in 0 .. n /\ i <= n
        BY <1>3, <2>1
      <4>2. QED
        BY <1>1, <1>13, <3>1, <4>1 DEF Assembled
    <3>5. Completes(under[i - 1], wire[i]) => taken[i] \in 1 .. Len(pending)
      <4>1. taken[i] \in Nat /\ taken[i - 1] \in Nat
        BY <1>1, <3>1
      <4>2. QED
        BY <1>3, <3>3, <3>4, <4>1
    <3>6. QED
      BY <1>7, <1>9, <2>1, <3>2, <3>3, <3>5
  <2>2. CASE i = n + 1
    <3>1. i - 1 = n /\ n \in 0 .. n + 1 /\ n # n + 1 /\ i \in 0 .. n + 1
      BY <1>3, <2>2
    <3>2. U[i - 1] = building /\ T[i - 1] = Len(pending) /\ U[i] = after /\ T[i] = more
      BY <1>13, <2>2, <3>1
    <3>3. QED
      BY <1>8, <1>11, <2>2, <3>2
  <2>3. QED
    BY <1>3, <2>1, <2>2
<1>16. ASSUME NEW u, NEW t, u = U, t = T
       PROVE  Assembled(u, t)'
  <2>1. u[0] = UnderWayHere' /\ u[Len(wire')] = building' /\ t[0] = 0 /\ t[Len(wire')] = Len(pending')
    BY <1>2, <1>3, <1>10, <1>12, <1>13, <1>16
  <2>2. \A i, j \in 0 .. Len(wire') : i <= j => t[i] <= t[j]
    BY <1>3, <1>14, <1>16
  <2>3. \A i \in 1 .. Len(wire') :
          /\ u[i] = UnderWay(u[i - 1], wire'[i])
          /\ IF Completes(u[i - 1], wire'[i])
             THEN t[i] = t[i - 1] + 1 /\ pending'[t[i]] = Outcome(u[i - 1], wire'[i])
             ELSE t[i] = t[i - 1]
    BY <1>3, <1>15, <1>16
  <2>4. QED
    BY <2>1, <2>2, <2>3 DEF Assembled
<1>17. \E u \in [0 .. Len(wire') -> {<<>>} \cup Messages], t \in [0 .. Len(wire') -> Nat] : Assembled(u, t)'
  BY <1>3, <1>6, <1>16
<1>18. QED
  BY <1>17 DEF InStep

\* We read the next frame as the peer meant it.
LEMMA OneLessInFlight ==
  ASSUME SocketTypeOK, InStep, amiss = "no", wire # <<>>, NEW f, f = Head(wire),
         wire' = Tail(wire), building' = building,
         UnderWayHere' = UnderWay(UnderWayHere, f),
         pending' = IF Completes(UnderWayHere, f) THEN Tail(pending) ELSE pending
  PROVE  InStep'
<1>1. PICK under \in [0 .. Len(wire) -> {<<>>} \cup Messages], taken \in [0 .. Len(wire) -> Nat] :
        Assembled(under, taken)
  BY DEF InStep
<1> DEFINE m == Len(wire) - 1
           U == [i \in 0 .. m |-> under[i + 1]]
           T == [i \in 0 .. m |-> taken[i + 1] - taken[1]]
<1>2. m \in Nat /\ Len(wire) = m + 1 /\ Len(wire') = m /\ Len(pending) \in Nat
  BY DEF SocketTypeOK
<1>3. \A i \in 0 .. m : i + 1 \in 0 .. Len(wire) /\ i + 1 \in 1 .. Len(wire)
  BY <1>2
<1>4. \A i \in 1 .. m : wire'[i] = wire[i + 1]
  BY <1>2 DEF SocketTypeOK
<1>5. wire[1] = f /\ 1 \in 1 .. Len(wire) /\ 1 \in 0 .. Len(wire) /\ 1 - 1 = 0
  BY <1>2
<1>6. \A i, j \in 0 .. Len(wire) : i <= j => taken[i] <= taken[j]
  BY <1>1 DEF Assembled
<1>7. \A i \in 0 .. Len(wire) : taken[i] \in Nat
  BY <1>1
<1>8. /\ under[1] = UnderWay(UnderWayHere, f)
      /\ taken[1] = IF Completes(UnderWayHere, f) THEN 1 ELSE 0
  <2>1. /\ under[1] = UnderWay(under[1 - 1], wire[1])
        /\ IF Completes(under[1 - 1], wire[1]) THEN taken[1] = taken[1 - 1] + 1
                                               ELSE taken[1] = taken[1 - 1]
    BY <1>1, <1>5 DEF Assembled
  <2>2. under[0] = UnderWayHere /\ taken[0] = 0
    BY <1>1 DEF Assembled
  <2>3. QED
    BY <1>5, <2>1, <2>2
<1>9. Len(pending) >= taken[1] /\ taken[Len(wire)] = Len(pending) /\ under[Len(wire)] = building
  <2>1. 1 <= Len(wire) /\ Len(wire) \in 0 .. Len(wire)
    BY <1>2
  <2>2. taken[1] <= taken[Len(wire)]
    BY <1>5, <1>6, <2>1
  <2>3. QED
    BY <1>1, <1>2, <1>5, <1>7, <2>1, <2>2 DEF Assembled
<1>10. /\ Len(pending') = Len(pending) - taken[1]
       /\ \A k \in 1 .. Len(pending) - taken[1] : pending'[k] = pending[k + taken[1]]
  <2>1. CASE Completes(UnderWayHere, f)
    <3>1. pending # <<>> /\ pending' = Tail(pending) /\ taken[1] = 1
      BY <1>8, <1>9, <2>1 DEF SocketTypeOK
    <3>2. QED
      BY <3>1 DEF SocketTypeOK
  <2>2. CASE ~Completes(UnderWayHere, f)
    BY <1>2, <1>8, <2>2
  <2>3. QED
    BY <2>1, <2>2
<1>11. \A i \in 0 .. m : taken[1] <= taken[i + 1]
  <2> SUFFICES ASSUME NEW i \in 0 .. m PROVE taken[1] <= taken[i + 1]
    OBVIOUS
  <2>1. 1 <= i + 1
    BY <1>2
  <2>2. QED
    BY <1>3, <1>5, <1>6, <2>1
<1>12. U \in [0 .. m -> {<<>>} \cup Messages] /\ T \in [0 .. m -> Nat]
  <2>1. \A i \in 0 .. m : taken[i + 1] - taken[1] \in Nat
    BY <1>3, <1>5, <1>7, <1>11
  <2>2. QED
    BY <1>1, <1>3, <2>1
<1>13. ASSUME NEW i \in 1 .. m
       PROVE  /\ U[i] = UnderWay(U[i - 1], wire'[i])
              /\ IF Completes(U[i - 1], wire'[i])
                 THEN T[i] = T[i - 1] + 1 /\ pending'[T[i]] = Outcome(U[i - 1], wire'[i])
                 ELSE T[i] = T[i - 1]
  <2>1. i - 1 \in 0 .. m /\ i \in 0 .. m /\ (i - 1) + 1 = i /\ (i + 1) - 1 = i /\ i + 1 \in 1 .. Len(wire)
    BY <1>2
  <2>2. /\ U[i] = under[i + 1] /\ U[i - 1] = under[i]
        /\ T[i] = taken[i + 1] - taken[1] /\ T[i - 1] = taken[i] - taken[1]
    BY <2>1
  <2>3. /\ under[i + 1] = UnderWay(under[i], wire[i + 1])
        /\ IF Completes(under[i], wire[i + 1])
           THEN taken[i + 1] = taken[i] + 1 /\ pending[taken[i + 1]] = Outcome(under[i], wire[i + 1])
           ELSE taken[i + 1] = taken[i]
    <3>1. \A k \in 1 .. Len(wire) :
            /\ under[k] = UnderWay(under[k - 1], wire[k])
            /\ IF Completes(under[k - 1], wire[k])
               THEN taken[k] = taken[k - 1] + 1 /\ pending[taken[k]] = Outcome(under[k - 1], wire[k])
               ELSE taken[k] = taken[k - 1]
      BY <1>1 DEF Assembled
    <3>2. QED
      BY <2>1, <3>1
  <2>4. /\ taken[i] \in Nat /\ taken[i + 1] \in Nat /\ taken[1] \in Nat
        /\ taken[1] <= taken[i] /\ taken[i + 1] <= Len(pending)
    <3>1. i \in 0 .. Len(wire) /\ 1 <= i /\ i + 1 \in 0 .. Len(wire) /\ i + 1 <= Len(wire) /\ Len(wire) \in 0 .. Len(wire)
      BY <1>2
    <3>2. QED
      BY <1>5, <1>6, <1>7, <1>9, <3>1
  <2>5. CASE Completes(under[i], wire[i + 1])
    <3>1. T[i] = T[i - 1] + 1 /\ T[i] \in 1 .. Len(pending) - taken[1] /\ T[i] + taken[1] = taken[i + 1]
      <4>1. \A a, b, c, n \in Nat : c <= a /\ b = a + 1 /\ b <= n =>
              b - c = (a - c) + 1 /\ b - c \in 1 .. n - c /\ (b - c) + c = b
        OBVIOUS
      <4>2. taken[i + 1] = taken[i] + 1
        BY <2>3, <2>5
      <4>3. QED
        BY <1>2, <2>2, <2>4, <4>1, <4>2
    <3>2. pending'[T[i]] = pending[taken[i + 1]]
      BY <1>10, <3>1
    <3>3. QED
      BY <1>4, <2>2, <2>3, <2>5, <3>1, <3>2
  <2>6. CASE ~Completes(under[i], wire[i + 1])
    BY <1>4, <2>2, <2>3, <2>6
  <2>7. QED
    BY <2>5, <2>6
<1>14. \A i, j \in 0 .. m : i <= j => T[i] <= T[j]
  <2> SUFFICES ASSUME NEW i \in 0 .. m, NEW j \in 0 .. m, i <= j
               PROVE  T[i] <= T[j]
    OBVIOUS
  <2>1. i + 1 <= j + 1
    BY <1>2
  <2>2. taken[i + 1] <= taken[j + 1] /\ taken[i + 1] \in Nat /\ taken[j + 1] \in Nat /\ taken[1] \in Nat
    BY <1>3, <1>5, <1>6, <1>7, <2>1
  <2>3. QED
    BY <2>2
<1>15. /\ U[0] = UnderWay(UnderWayHere, f) /\ T[0] = 0
       /\ U[m] = building /\ T[m] = Len(pending) - taken[1]
  <2>1. 0 \in 0 .. m /\ m \in 0 .. m /\ 0 + 1 = 1 /\ m + 1 = Len(wire)
    BY <1>2
  <2>2. U[0] = under[1] /\ U[m] = under[Len(wire)] /\ T[0] = taken[1] - taken[1] /\ T[m] = taken[Len(wire)] - taken[1]
    BY <2>1
  <2>3. taken[1] - taken[1] = 0
    BY <1>5, <1>7
  <2>4. QED
    BY <1>8, <1>9, <2>2, <2>3
<1>16. ASSUME NEW u, NEW t, u = U, t = T
       PROVE  Assembled(u, t)'
  <2>1. u[0] = UnderWayHere' /\ u[Len(wire')] = building' /\ t[0] = 0 /\ t[Len(wire')] = Len(pending')
    BY <1>2, <1>10, <1>15, <1>16
  <2>2. \A i, j \in 0 .. Len(wire') : i <= j => t[i] <= t[j]
    BY <1>2, <1>14, <1>16
  <2>3. \A i \in 1 .. Len(wire') :
          /\ u[i] = UnderWay(u[i - 1], wire'[i])
          /\ IF Completes(u[i - 1], wire'[i])
             THEN t[i] = t[i - 1] + 1 /\ pending'[t[i]] = Outcome(u[i - 1], wire'[i])
             ELSE t[i] = t[i - 1]
    BY <1>2, <1>13, <1>16
  <2>4. QED
    BY <2>1, <2>2, <2>3 DEF Assembled
<1>17. \E u \in [0 .. Len(wire') -> {<<>>} \cup Messages], t \in [0 .. Len(wire') -> Nat] : Assembled(u, t)'
  BY <1>2, <1>12, <1>16
<1>18. QED
  BY <1>17 DEF InStep

\* Nothing is in flight and nothing is under way.
LEMMA NothingInFlight ==
  ASSUME opcode' = "none", wire' = <<>>, building' = <<>>, pending' = <<>>
  PROVE  InStep'
<1>1. Len(wire') = 0 /\ Len(pending') = 0 /\ UnderWayHere' = <<>>
  BY DEF UnderWayHere
<1> DEFINE U == [i \in {0} |-> <<>>]
           T == [i \in {0} |-> 0]
<1>2. Assembled(U, T)'
  BY <1>1 DEF Assembled
<1>3. 0 .. Len(wire') = {0}
  BY <1>1
<1>4. U \in [0 .. Len(wire') -> {<<>>} \cup Messages] /\ T \in [0 .. Len(wire') -> Nat]
  BY <1>3
<1>5. QED
  BY <1>2, <1>4 DEF InStep

LEMMA InStepStep ==
  ASSUME SocketTypeOK, PollsWhenUp, AmissIsDown, InStep, [Next]_vars
  PROVE  InStep'
<1>1. CASE amiss' # "no"
  BY <1>1 DEF InStep
<1>2. CASE amiss = "no" /\ UNCHANGED <<wire, building, pending, opcode, message>>
  <2>1. UnderWayHere' = UnderWayHere
    BY <1>2 DEF UnderWayHere
  <2>2. ASSUME NEW u, NEW t, Assembled(u, t)
        PROVE  Assembled(u, t)'
    BY <1>2, <2>1, <2>2 DEF Assembled
  <2>3. QED
    BY <1>2, <2>2 DEF InStep
<1>3. CASE UNCHANGED vars \/ Poll \/ PollAtOnce \/ PollElapses \/ PollFails \/ Write \/ WriteClose
  <2>1. UNCHANGED <<wire, building, pending, opcode, message>> /\ (amiss' = "no" => amiss = "no")
    BY <1>3 DEF vars, peerVars, Poll, PollAtOnce, PollElapses, PollFails, Write, WriteClose
  <2>2. QED
    BY <1>1, <1>2, <2>1
<1>4. CASE Peer
  <2>1. amiss' = amiss
    BY <1>4 DEF Peer
  <2>2. QED
    BY <1>1, <1>4, <2>1, OneMoreInFlight
<1>5. CASE Open \/ Close
  BY <1>5, NothingInFlight DEF Open, Fresh, Close, Release, HungUp
<1>6. CASE Consume /\ amiss' = "no"
  <2>1. wire # <<>> /\ wire' = Tail(wire) /\ building' = building
    BY <1>6, ReadHere
  <2> PICK f \in PeerFrames : /\ f = Head(wire) \/ amiss = "up"
                              /\ Refuse(f) \/ Ping(f) \/ Pong(f) \/ PeerClose(f) \/ Data(f)
    BY <1>6, ReadHere
  <2>2. ~Refuse(f) /\ amiss = "no" /\ f = Head(wire)
    <3>1. amiss' \in {amiss, "failed"} /\ (Refuse(f) => amiss' # "no")
      BY DataHere DEF Refuse, Fail, Ping, Pong, PeerClose
    <3>2. QED
      BY <1>6, <3>1
  <2>3. CASE Ping(f) \/ Pong(f) \/ PeerClose(f)
    <3>1. ~IsData(f) /\ f.op # "bad" /\ UNCHANGED <<opcode, message, pending>>
      BY <2>3 DEF Ping, Pong, PeerClose, IsData, Starts
    <3>2. UnderWay(UnderWayHere, f) = UnderWayHere /\ ~Completes(UnderWayHere, f)
      BY <3>1 DEF UnderWay, Completes, Breaks
    <3>3. UnderWayHere' = UnderWayHere
      BY <3>1 DEF UnderWayHere
    <3>4. QED
      BY <2>1, <2>2, <3>1, <3>2, <3>3, OneLessInFlight
  <2>4. CASE Data(f)
    <3>1. IsData(f) /\ f.op # "bad"
      BY <2>4, DataHere DEF IsData, Starts
    <3>2. CASE ~f.fin
      <4>1. /\ Fits(UnderWayHere, f) /\ pending' = pending
            /\ opcode' \in Kinds /\ <<opcode', message'>> = Grown(UnderWayHere, f)
        BY <1>6, <2>2, <2>4, <3>2, DataHere
      <4>2. UnderWayHere' = Grown(UnderWayHere, f)
        BY <4>1 DEF UnderWayHere, Kinds
      <4>3. UnderWay(UnderWayHere, f) = Grown(UnderWayHere, f) /\ ~Completes(UnderWayHere, f)
        BY <3>1, <3>2, <4>1 DEF UnderWay, Completes, Breaks
      <4>4. QED
        BY <2>1, <2>2, <4>1, <4>2, <4>3, OneLessInFlight
    <3>3. CASE f.fin
      <4>1. Fits(UnderWayHere, f) /\ opcode' = "none" /\ pending' = Tail(pending)
        BY <1>6, <2>2, <2>4, <3>3, DataHere
      <4>2. UnderWayHere' = <<>>
        BY <4>1 DEF UnderWayHere
      <4>3. UnderWay(UnderWayHere, f) = <<>> /\ Completes(UnderWayHere, f)
        BY <3>1, <3>3, <4>1 DEF UnderWay, Completes
      <4>4. QED
        BY <2>1, <2>2, <4>1, <4>2, <4>3, OneLessInFlight
    <3>4. QED
      BY <3>2, <3>3
  <2>5. QED
    BY <2>2, <2>3, <2>4
<1>7. QED
  BY <1>1, <1>3, <1>4, <1>5, <1>6 DEF Next

-----------------------------------------------------------------------------
(* The connection as a whole *)

LEMMA SocketInit == Init => SocketInv
<1> SUFFICES ASSUME Init PROVE SocketInv
  OBVIOUS
<1>1. SocketTypeOK
  <2>1. /\ out \in Seq(Said) /\ wire \in Seq(PeerFrames)
        /\ message \in Seq(Parts \cup {"a"}) /\ pending \in Seq(Messages \cup {Broken})
    BY DEF Init
  <2>2. transport \in BOOLEAN /\ buffer \in BOOLEAN /\ building \in {<<>>} \cup Messages
    BY DEF Init
  <2>3. QED
    BY <2>1, <2>2 DEF Init, SocketTypeOK
<1>2. HoldsWhatItNeeds /\ PollsWhenUp /\ AmissIsDown
  BY NeedsInit
<1>3. MaySpeak /\ CloseIsLast
  <2>1. Len(out) = 0 /\ ~Up
    BY DEF Init, Up
  <2>2. QED
    BY <2>1 DEF Up, MaySpeak, CloseIsLast, OpenIsUntouched, ClientKeepsQuiet
<1>4. InStep
  <2>1. Len(wire) = 0 /\ Len(pending) = 0 /\ UnderWayHere = <<>> /\ building = <<>>
    BY DEF Init, UnderWayHere
  <2> DEFINE U == [i \in {0} |-> <<>>]
             T == [i \in {0} |-> 0]
  <2>2. Assembled(U, T)
    BY <2>1 DEF Assembled
  <2>3. 0 .. Len(wire) = {0}
    BY <2>1
  <2>4. U \in [0 .. Len(wire) -> {<<>>} \cup Messages] /\ T \in [0 .. Len(wire) -> Nat]
    BY <2>3
  <2>5. QED
    BY <2>2, <2>4 DEF InStep
<1>5. QED
  BY <1>1, <1>2, <1>3, <1>4 DEF SocketInv

LEMMA SocketStep ==
  ASSUME SocketInv, [Next]_vars
  PROVE  SocketInv'
<1> USE DEF SocketInv
<1>1. SocketTypeOK'
  <2>1. CASE UNCHANGED vars
    BY <2>1 DEF vars, peerVars, SocketTypeOK
  <2>2. CASE Next
    BY <2>2, TypeStep
  <2>3. QED
    BY <2>1, <2>2
<1>2. HoldsWhatItNeeds' /\ PollsWhenUp' /\ AmissIsDown'
  BY NeedsStep, AmissStep
<1>3. MaySpeak' /\ CloseIsLast'
  BY SpeechStep
<1>4. InStep'
  BY InStepStep
<1>5. QED
  BY <1>1, <1>2, <1>3, <1>4

\* While isOpen answers true, no close frame went out on the connection and no frame
\* in part.  Whatever is written and whenever: the client by itself sends a close
\* frame only there, and after its answer to the peer's close, or part of a frame, no
\* pong, unless a writeClose brought the connection up again in between.
\* WebSocket_writeClose, WebSocket_close, wsConsumeFrame.
THEOREM CloseStaysLast == Spec => []CloseIsLast
<1>1. SocketInv /\ [Next]_vars => SocketInv'
  BY SocketStep
<1>2. SocketInv => CloseIsLast
  BY DEF SocketInv
<1>3. QED
  BY <1>1, <1>2, SocketInit, PTL DEF Spec

\* Every step is one of the channel's: what the peer completes is offered, what is
\* handed to the caller is the oldest of it and whole, and what it broke never is,
\* until the caller goes on past the break.
LEMMA ChannelStep ==
  ASSUME SocketInv, [Next]_vars
  PROVE  [Channel!Next]_<<pending, given, amiss = "up">>
<1> USE DEF SocketInv
<1>1. CASE pending' = pending /\ given' = given /\ (amiss' = "up" <=> amiss = "up")
  BY <1>1
<1>2. CASE UNCHANGED vars \/ Write \/ PollElapses \/ PollFails
  BY <1>1, <1>2 DEF vars, peerVars, Write, PollElapses, PollFails
<1>3. CASE Peer
  <2>1. PICK f \in PeerFrames :
          pending' = IF Completes(building, f) THEN Append(pending, Outcome(building, f)) ELSE pending
    BY <1>3 DEF Peer
  <2>2. given' = given /\ amiss' = amiss
    BY <1>3 DEF Peer
  <2>3. CASE ~Completes(building, f)
    BY <1>1, <2>1, <2>2, <2>3
  <2>4. CASE Completes(building, f)
    <3>1. Outcome(building, f) \in Messages \cup {Broken}
      BY <2>4, FrameTypes DEF SocketTypeOK
    <3>2. pending \in Seq(Messages \cup {Broken}) /\ pending' = Append(pending, Outcome(building, f))
      BY <2>1, <2>4 DEF SocketTypeOK
    <3>3. Len(pending') = Len(pending) + 1
      BY <3>1, <3>2
    <3>4. SubSeq(pending', 1, Len(pending)) = pending
      BY <3>1, <3>2
    <3>5. Channel!Offer
      BY <2>2, <3>3, <3>4 DEF Channel!Offer
    <3>6. QED
      BY <3>5 DEF Channel!Next
  <2>5. QED
    BY <2>3, <2>4
<1>4. CASE Open \/ Close
  <2>1. pending' = <<>> /\ given' = Nothing /\ amiss' # "up"
    BY <1>4 DEF Open, Fresh, Close, HungUp
  <2>2. Channel!Reconnect
    BY <2>1 DEF Channel!Reconnect
  <2>3. QED
    BY <2>2 DEF Channel!Next
<1>5. CASE Poll \/ PollAtOnce
  <2>1. given' = Nothing /\ pending' = pending /\ amiss' = amiss
    BY <1>5 DEF Poll, PollAtOnce, peerVars
  <2>2. Channel!PutDown
    BY <2>1 DEF Channel!PutDown
  <2>3. QED
    BY <2>2 DEF Channel!Next
<1>6. CASE WriteClose
  <2>1. pending' = pending /\ given' = given /\ amiss' \in {amiss, "up"}
    BY <1>6 DEF WriteClose, peerVars
  <2>2. CASE amiss' = "up"
    <3>1. Channel!GoOn
      BY <2>1, <2>2 DEF Channel!GoOn
    <3>2. QED
      BY <3>1 DEF Channel!Next
  <2>3. QED
    BY <1>1, <2>1, <2>2
<1>7. CASE Consume
  <2>1. wire # <<>> /\ poll \in {"fresh", "more"}
    BY <1>7, ReadHere
  <2> PICK f \in PeerFrames : /\ f = Head(wire) \/ amiss = "up"
                              /\ Refuse(f) \/ Ping(f) \/ Pong(f) \/ PeerClose(f) \/ Data(f)
    BY <1>7, ReadHere
  <2>2. CASE Refuse(f) \/ Ping(f) \/ Pong(f) \/ PeerClose(f)
    <3>1. pending' = pending /\ given' = given /\ (amiss' = amiss \/ (amiss' = "failed" /\ amiss = "no"))
      BY <2>2 DEF Refuse, Fail, Ping, Pong, PeerClose
    <3>2. QED
      BY <1>1, <3>1
  <2>3. CASE Data(f)
    <3>1. CASE pending' = pending /\ given' = given /\ amiss' \in {amiss, IF amiss = "no" THEN "failed" ELSE amiss}
      BY <1>1, <3>1
    <3>2. CASE /\ IsData(f) /\ f.fin /\ Fits(UnderWayHere, f) /\ ~Breaks(UnderWayHere, f)
               /\ amiss' = amiss /\ given' = Grown(UnderWayHere, f)
               /\ pending' = IF amiss = "up" THEN pending ELSE Tail(pending)
      <4>1. CASE amiss = "up"
        <5>1. Channel!Adrift
          BY <3>2, <4>1 DEF Channel!Adrift
        <5>2. QED
          BY <5>1 DEF Channel!Next
      <4>2. CASE amiss # "up"
        <5>1. amiss = "no" /\ f = Head(wire)
          BY <2>1, <4>2 DEF PollsWhenUp, AmissIsDown, SocketTypeOK
        <5>2. pending # <<>> /\ Head(pending) = Grown(UnderWayHere, f)
          BY <2>1, <3>2, <5>1, DeliveryIsDue
        <5>3. Grown(UnderWayHere, f) \in Messages
          BY <3>2, HereIsMessage, FrameTypes
        <5>4. \A m \in Messages : m # Broken
          BY DEF Messages, Kinds, Broken
        <5>5. Channel!Deliver
          BY <3>2, <4>2, <5>2, <5>3, <5>4 DEF Channel!Deliver
        <5>6. QED
          BY <5>5 DEF Channel!Next
      <4>3. QED
        BY <4>1, <4>2
    <3>3. QED
      BY <2>3, <3>1, <3>2, DataHere
  <2>4. QED
    BY <2>2, <2>3
<1>8. QED
  BY <1>2, <1>3, <1>4, <1>5, <1>6, <1>7 DEF Next

\* The messages poll returns are those the peer sent, whole, once and in order, up to
\* the first frame that breaks the protocol or cannot be read to its end, however they
\* are cut into frames and whatever the caller writes: until, after such a frame, a
\* writeClose brings the connection up again.  wsConsumeFrame, WebSocket_poll.
THEOREM MessagesComeWhole == Spec => ImplementsChannel
<1>1. SocketInv /\ [Next]_vars => SocketInv'
  BY SocketStep
<1>2. Init => Channel!Init
  BY DEF Init, Channel!Init
<1>3. SocketInv /\ [Next]_vars => [Channel!Next]_<<pending, given, amiss = "up">>
  BY ChannelStep
<1>4. QED
  BY <1>1, <1>2, <1>3, SocketInit, PTL DEF Spec, ImplementsChannel, Channel!Spec
-----------------------------------------------------------------------------
(* HTTP: what is sent *)

TokenKinds == {"status", "te", "long", "rest", "blank", "size", "byte", "CR", "LF", "line", "length"}
Tokens == [kind : TokenKinds, n : Nat]
Sizes == Seq(Nat \ {0})

\* A stretch of the content.
LEMMA BytesAre ==
  ASSUME NEW from \in Nat, NEW n \in Nat
  PROVE  /\ Bytes(from, n) \in Seq(Tokens) /\ Len(Bytes(from, n)) = n
         /\ \A i \in 1 .. n : Bytes(from, n)[i] = Token("byte", from + i)
<1>1. \A i \in 1 .. n : Token("byte", from + i) \in Tokens
  BY DEF Token, Tokens, TokenKinds
<1>2. Bytes(from, n) \in [1 .. n -> Tokens]
  BY <1>1 DEF Bytes
<1>3. QED
  BY <1>2 DEF Bytes

\* The sums of the sizes.
LEMMA UptoIs ==
  ASSUME NEW sizes \in Sizes
  PROVE  /\ Upto(sizes, 0) = 0 /\ \A k \in 0 .. Len(sizes) : Upto(sizes, k) \in Nat
         /\ \A k \in 1 .. Len(sizes) : Upto(sizes, k) = Upto(sizes, k - 1) + sizes[k]
<1>1. PICK m \in Nat : m = Len(sizes)
  BY DEF Sizes
<1> DEFINE g == [p \in Nat \X Nat |-> IF p[1] + 1 \in 1 .. m THEN p[2] + sizes[p[1] + 1] ELSE p[2]]
           Body(f) == [j \in 0 .. m |-> IF j = 0 THEN 0 ELSE f[j - 1] + sizes[j]]
           sum == CHOOSE f : f = Body(f)
<1>2. \A k \in 1 .. m : sizes[k] \in Nat
  BY <1>1 DEF Sizes
<1>3. g \in [Nat \X Nat -> Nat]
  <2>1. ASSUME NEW p \in Nat \X Nat, p[1] + 1 \in 1 .. m PROVE p[2] + sizes[p[1] + 1] \in Nat
    <3>1. sizes[p[1] + 1] \in Nat /\ p[2] \in Nat
      BY <1>2, <2>1
    <3>2. QED
      BY <3>1
  <2>2. QED
    BY <2>1
<1>4. PICK f \in [0 .. m -> Nat] : IsIterate(f, m, 0, g)
  <2> HIDE DEF g
  <2>1. QED
    BY <1>3, Recursion
<1>5. f = Body(f)
  <2>1. ASSUME NEW j \in 0 .. m, j # 0 PROVE g[<<j - 1, f[j - 1]>>] = f[j - 1] + sizes[j]
    <3>1. j - 1 \in 0 .. m /\ j - 1 \in Nat /\ (j - 1) + 1 = j /\ j \in 1 .. m
      BY <2>1
    <3>2. f[j - 1] \in Nat
      BY <3>1
    <3>3. <<j - 1, f[j - 1]>> \in Nat \X Nat
      BY <3>1, <3>2
    <3>4. QED
      BY <3>1, <3>3
  <2> HIDE DEF g
  <2>2. QED
    BY <1>4, <2>1 DEF IsIterate
<1>6. sum = Body(sum)
  <2> HIDE DEF Body
  <2>1. QED
    BY <1>5
<1>7. \A j \in 0 .. m : sum[j] = IF j = 0 THEN 0 ELSE sum[j - 1] + sizes[j]
  <2> HIDE DEF sum
  <2>1. QED
    BY <1>6
<1>8. \A k : Upto(sizes, k) = sum[k]
  BY <1>1 DEF Upto
<1> HIDE DEF sum, Body, g
<1> DEFINE T == {k \in 0 .. m : sum[k] \in Nat}
<1>9. 0 \in T /\ \A k \in 0 .. m - 1 : k \in T => k + 1 \in T
  <2>1. 0 \in T
    BY <1>7
  <2>2. ASSUME NEW k \in 0 .. m - 1, k \in T PROVE k + 1 \in T
    <3>1. k + 1 \in 0 .. m /\ k + 1 # 0 /\ (k + 1) - 1 = k /\ k + 1 \in 1 .. m
      OBVIOUS
    <3>2. sum[k + 1] = sum[k] + sizes[k + 1] /\ sizes[k + 1] \in Nat /\ sum[k] \in Nat
      BY <1>2, <1>7, <2>2, <3>1
    <3>3. QED
      BY <3>1, <3>2
  <2>3. QED
    BY <2>1, <2>2
<1>10. 0 .. m \subseteq T
  <2> HIDE DEF T
  <2>1. QED
    BY <1>9, Induction
<1>11. \A k \in 0 .. m : sum[k] \in Nat
  BY <1>10
<1>12. \A k \in 1 .. m : sum[k] = sum[k - 1] + sizes[k]
  BY <1>7
<1>13. sum[0] = 0
  BY <1>7
<1>14. QED
  BY <1>1, <1>8, <1>11, <1>12, <1>13

\* They grow.
LEMMA UptoGrows ==
  ASSUME NEW sizes \in Sizes, NEW k \in 0 .. Len(sizes)
  PROVE  Upto(sizes, k) <= Upto(sizes, Len(sizes))
<1>1. PICK m \in Nat : m = Len(sizes)
  BY DEF Sizes
<1> DEFINE U(j) == Upto(sizes, j)
           T == {j \in 0 .. m : U(m - j) <= U(m)}
<1>2. /\ \A j \in 0 .. m : U(j) \in Nat
      /\ \A j \in 1 .. m : U(j) = U(j - 1) + sizes[j] /\ sizes[j] \in Nat
  <2>1. \A j \in 1 .. m : sizes[j] \in Nat
    BY <1>1 DEF Sizes
  <2>2. QED
    BY <1>1, <2>1, UptoIs
<1> HIDE DEF U
<1>3. 0 \in T
  BY <1>2
<1>4. ASSUME NEW j \in 0 .. m - 1, j \in T PROVE j + 1 \in T
  <2>1. m - j \in 1 .. m /\ (m - j) - 1 = m - (j + 1) /\ j + 1 \in 0 .. m /\ m - (j + 1) \in 0 .. m
    OBVIOUS
  <2>2. U(m - j) = U(m - (j + 1)) + sizes[m - j] /\ sizes[m - j] \in Nat /\ U(m - (j + 1)) \in Nat /\ U(m) \in Nat
    BY <1>2, <2>1
  <2>3. U(m - j) <= U(m) /\ U(m - j) \in Nat
    BY <1>2, <1>4, <2>1
  <2>4. U(m - (j + 1)) <= U(m)
    BY <2>2, <2>3
  <2>5. QED
    BY <2>1, <2>4
<1>5. 0 .. m \subseteq T
  <2> HIDE DEF T
  <2>1. QED
    BY <1>3, <1>4, Induction
<1>6. m - k \in 0 .. m /\ m - (m - k) = k
  BY <1>1
<1>7. U(k) <= U(m)
  BY <1>5, <1>6
<1>8. QED
  BY <1>1, <1>7 DEF U

\* The content is the bytes of all the chunks.
LEMMA ContentIs ==
  ASSUME NEW sizes \in Sizes
  PROVE  /\ Content(sizes) \in Seq(Tokens) /\ Len(Content(sizes)) = Upto(sizes, Len(sizes))
         /\ \A i \in 1 .. Upto(sizes, Len(sizes)) : Content(sizes)[i] = Token("byte", i)
<1>1. Upto(sizes, Len(sizes)) \in Nat
  <2>1. Len(sizes) \in 0 .. Len(sizes)
    BY DEF Sizes
  <2>2. QED
    BY <2>1, UptoIs
<1>2. PICK n \in Nat : n = Upto(sizes, Len(sizes))
  BY <1>1
<1>3. Content(sizes) = Bytes(0, n)
  BY <1>2 DEF Content
<1>4. \A i \in 1 .. n : Content(sizes)[i] = Token("byte", i)
  <2>1. ASSUME NEW i \in 1 .. n PROVE Content(sizes)[i] = Token("byte", i)
    <3>1. PICK z \in Nat : z = 0
      OBVIOUS
    <3>2. Bytes(z, n)[i] = Token("byte", z + i)
      BY BytesAre
    <3>3. z + i = i
      BY <3>1
    <3>4. QED
      BY <1>3, <3>1, <3>2, <3>3
  <2>2. QED
    BY <2>1
<1>5. QED
  BY <1>2, <1>3, <1>4, BytesAre

\* The chunks that follow, one by one.
LEMMA LastChunksAre ==
  ASSUME NEW sizes \in Sizes
  PROVE  /\ LastChunks(sizes, 0) = <<Token("size", 0)>>
         /\ \A m \in 1 .. Len(sizes) :
              LastChunks(sizes, m) = Chunk(sizes, Len(sizes) + 1 - m) \o LastChunks(sizes, m - 1)
         /\ \A m \in 0 .. Len(sizes) : LastChunks(sizes, m) \in Seq(Tokens)
<1>1. PICK l \in Nat : l = Len(sizes)
  BY DEF Sizes
<1> DEFINE S == Seq(Tokens)
           end == <<Token("size", 0)>>
           C(j) == Chunk(sizes, l + 1 - j)
           g == [p \in Nat \X S |-> IF p[1] + 1 \in 1 .. l THEN C(p[1] + 1) \o p[2] ELSE p[2]]
           Body(f) == [j \in 0 .. l |-> IF j = 0 THEN end ELSE C(j) \o f[j - 1]]
           last == CHOOSE f : f = Body(f)
<1>2. \A j \in 1 .. l : C(j) \in S
  <2>1. ASSUME NEW j \in 1 .. l PROVE C(j) \in S
    <3>1. PICK i \in 1 .. l : i = l + 1 - j
      OBVIOUS
    <3>2. Upto(sizes, i - 1) \in Nat /\ sizes[i] \in Nat
      <4>1. i - 1 \in 0 .. l /\ i \in 1 .. Len(sizes)
        BY <1>1
      <4>2. QED
        BY <1>1, <4>1, UptoIs DEF Sizes
    <3>3. Bytes(Upto(sizes, i - 1), sizes[i]) \in S
      BY <3>2, BytesAre
    <3>4. <<Token("size", sizes[i])>> \in S /\ CRLF \in S
      BY <3>2 DEF Token, Tokens, TokenKinds, CRLF
    <3>5. QED
      BY <3>1, <3>3, <3>4 DEF Chunk
  <2>2. QED
    BY <2>1
<1>3. end \in S
  BY DEF Token, Tokens, TokenKinds
<1> HIDE DEF C, end
<1>4. g \in [Nat \X S -> S]
  <2>1. ASSUME NEW p \in Nat \X S, p[1] + 1 \in 1 .. l PROVE C(p[1] + 1) \o p[2] \in S
    <3>1. C(p[1] + 1) \in S /\ p[2] \in S
      BY <1>2, <2>1
    <3>2. QED
      BY <3>1
  <2> HIDE DEF S
  <2>2. QED
    BY <2>1
<1>5. PICK f \in [0 .. l -> S] : IsIterate(f, l, end, g)
  <2> HIDE DEF g, S
  <2>1. QED
    BY <1>3, <1>4, Recursion
<1>6. f = Body(f)
  <2>1. ASSUME NEW j \in 0 .. l, j # 0 PROVE g[<<j - 1, f[j - 1]>>] = C(j) \o f[j - 1]
    <3> HIDE DEF S
    <3>1. j - 1 \in 0 .. l /\ j - 1 \in Nat /\ (j - 1) + 1 = j /\ j \in 1 .. l
      BY <2>1
    <3>2. f[j - 1] \in S
      BY <3>1
    <3>3. <<j - 1, f[j - 1]>> \in Nat \X S
      BY <3>1, <3>2
    <3>4. QED
      BY <3>1, <3>3
  <2> HIDE DEF g, S
  <2>2. QED
    BY <1>5, <2>1 DEF IsIterate
<1>7. last = Body(last)
  <2> HIDE DEF Body
  <2>1. QED
    BY <1>6
<1>8. \A j \in 0 .. l : last[j] = IF j = 0 THEN end ELSE C(j) \o last[j - 1]
  <2> HIDE DEF last
  <2>1. QED
    BY <1>7
<1>9. \A m : LastChunks(sizes, m) = last[m]
  BY <1>1 DEF LastChunks, C, end
<1> HIDE DEF last, Body, g
<1>10. \A m \in 0 .. l : last[m] \in S
  <2> DEFINE T == {m \in 0 .. l : last[m] \in S}
  <2>1. 0 \in T
    BY <1>3, <1>8
  <2>2. ASSUME NEW k \in 0 .. l - 1, k \in T PROVE k + 1 \in T
    <3>1. k + 1 \in 0 .. l /\ k + 1 # 0 /\ (k + 1) - 1 = k /\ k + 1 \in 1 .. l
      OBVIOUS
    <3>2. last[k + 1] = C(k + 1) \o last[k] /\ C(k + 1) \in S /\ last[k] \in S
      BY <1>2, <1>8, <2>2, <3>1
    <3>3. last[k + 1] \in S
      BY <3>2
    <3> HIDE DEF S
    <3>4. QED
      BY <3>1, <3>3
  <2> HIDE DEF T
  <2>3. 0 .. l \subseteq T
    BY <2>1, <2>2, Induction
  <2>4. QED
    BY <2>3 DEF T
<1>11. \A m \in 1 .. l : last[m] = C(m) \o last[m - 1]
  <2>1. ASSUME NEW m \in 1 .. l PROVE last[m] = C(m) \o last[m - 1]
    <3>1. m \in 0 .. l /\ m # 0
      OBVIOUS
    <3>2. QED
      BY <1>8, <3>1
  <2>2. QED
    BY <2>1
<1>12. last[0] = end
  BY <1>8
<1>13. QED
  BY <1>1, <1>9, <1>10, <1>11, <1>12 DEF C, end

-----------------------------------------------------------------------------
(* HTTP: what is still to be read *)

\* All that has arrived or will, if the peer does not break off.
Due == inbox \o stream

\* t is the beginning of x, and all of it as long as nothing broke.
Coming(t, b, x) ==
  /\ x \in Seq(Tokens) /\ Len(t) <= Len(x) /\ \A i \in 1 .. Len(t) : t[i] = x[i]
  /\ b = "no" => Len(t) = Len(x)

\* One token, or the first n, are read.
LEMMA ComingRead ==
  ASSUME NEW t \in Seq(Tokens), NEW b, NEW x \in Seq(Tokens), Coming(t, b, x), NEW n \in 0 .. Len(t)
  PROVE  /\ SubSeq(t, n + 1, Len(t)) \in Seq(Tokens) /\ SubSeq(x, n + 1, Len(x)) \in Seq(Tokens)
         /\ Coming(SubSeq(t, n + 1, Len(t)), b, SubSeq(x, n + 1, Len(x)))
<1>1. PICK l \in Nat : l = Len(t)
  OBVIOUS
<1>2. PICK m \in Nat : m = Len(x)
  OBVIOUS
<1>3. n \in 0 .. l /\ l <= m /\ (b = "no" => l = m) /\ \A i \in 1 .. l : t[i] = x[i]
  BY <1>1, <1>2 DEF Coming
<1>4. PICK u : u = SubSeq(t, n + 1, l)
  OBVIOUS
<1>5. PICK y : y = SubSeq(x, n + 1, m)
  OBVIOUS
<1>6. /\ u \in Seq(Tokens) /\ Len(u) = l - n /\ \A i \in 1 .. l - n : u[i] = t[n + i]
  BY <1>1, <1>3, <1>4
<1>7. /\ y \in Seq(Tokens) /\ Len(y) = m - n /\ \A i \in 1 .. m - n : y[i] = x[n + i]
  BY <1>2, <1>3, <1>5
<1>8. \A i \in 1 .. l - n : u[i] = y[i]
  <2>1. ASSUME NEW i \in 1 .. l - n PROVE u[i] = y[i]
    <3>1. i \in 1 .. m - n /\ n + i \in 1 .. l
      BY <1>3
    <3>2. QED
      BY <1>3, <1>6, <1>7, <3>1
  <2>2. QED
    BY <2>1
<1>9. Coming(u, b, y)
  BY <1>3, <1>6, <1>7, <1>8 DEF Coming
<1>10. QED
  BY <1>1, <1>2, <1>4, <1>5, <1>6, <1>7, <1>9

\* What is taken from the front of a concatenation is taken from its first part.
LEMMA JoinedCut ==
  ASSUME NEW a \in Seq(Tokens), NEW b \in Seq(Tokens), NEW n \in Nat, n <= Len(a)
  PROVE  /\ SubSeq(a \o b, n + 1, Len(a \o b)) = SubSeq(a, n + 1, Len(a)) \o b
         /\ SubSeq(a, n + 1, Len(a)) \in Seq(Tokens)
         /\ SubSeq(a, 1, n) \in Seq(Tokens) /\ Len(SubSeq(a, 1, n)) = n /\ Len(a \o b) >= n
         /\ \A i \in 1 .. n : SubSeq(a, 1, n)[i] = a[i] /\ (a \o b)[i] = a[i]
<1>1. PICK l \in Nat : l = Len(a)
  OBVIOUS
<1>2. PICK k \in Nat : k = Len(b)
  OBVIOUS
<1>3. PICK t : t = a \o b
  OBVIOUS
<1>4. /\ t \in Seq(Tokens) /\ Len(t) = l + k
      /\ \A i \in 1 .. l : t[i] = a[i]
      /\ \A i \in l + 1 .. l + k : t[i] = b[i - l]
  BY <1>1, <1>2, <1>3
<1>5. PICK j \in Nat : l = n + j
  <2>1. l - n \in Nat /\ l = n + (l - n)
    BY <1>1
  <2>2. QED
    BY <2>1
<1>6. PICK r \in Seq(Tokens) : r = SubSeq(a, n + 1, l)
  <2>1. SubSeq(a, n + 1, l) \in Seq(Tokens)
    BY <1>1
  <2>2. QED
    BY <2>1
<1>7. Len(r) = j /\ \A i \in 1 .. j : r[i] = a[n + i]
  <2>1. \A i \in 1 .. l - n : n + i \in 1 .. l
    OBVIOUS
  <2>2. Len(r) = l - n /\ \A i \in 1 .. l - n : r[i] = a[n + i]
    BY <1>1, <1>6, <2>1
  <2>3. l - n = j
    BY <1>5
  <2>4. QED
    BY <2>2, <2>3
<1>8. PICK u : u = r \o b
  OBVIOUS
<1>9. /\ u \in Seq(Tokens) /\ Len(u) = j + k /\ \A i \in 1 .. j : u[i] = r[i]
      /\ \A i \in j + 1 .. j + k : u[i] = b[i - j]
  <2>1. u \in Seq(Tokens) /\ Len(u) = Len(r) + Len(b)
    BY <1>8
  <2>2. \A i \in 1 .. Len(r) : u[i] = r[i]
    BY <1>8
  <2>3. \A i \in Len(r) + 1 .. Len(r) + Len(b) : u[i] = b[i - Len(r)]
    BY <1>8
  <2>4. Len(r) = j /\ Len(b) = k
    BY <1>2, <1>7
  <2>5. QED
    BY <2>1, <2>2, <2>3, <2>4
<1>10. PICK v : v = SubSeq(t, n + 1, l + k)
  OBVIOUS
<1>11. v \in Seq(Tokens) /\ Len(v) = j + k /\ \A i \in 1 .. j + k : v[i] = t[n + i]
  <2>1. PICK e \in Nat : e = l + k /\ Len(t) = e /\ e = n + (j + k)
    BY <1>4, <1>5
  <2>2. v = SubSeq(t, n + 1, e)
    BY <1>10, <2>1
  <2>3. PICK d \in Nat : d = j + k /\ e - n = d /\ n <= e
    BY <2>1
  <2>4. v \in Seq(Tokens) /\ Len(v) = e - n
    BY <1>4, <2>1, <2>2, <2>3
  <2>5. \A i \in 1 .. e - n : v[i] = t[n + i]
    BY <1>4, <2>1, <2>2, <2>3
  <2>6. QED
    BY <2>3, <2>4, <2>5
<1>12. ASSUME NEW i \in 1 .. j + k PROVE u[i] = v[i]
  <2>1. CASE i <= j
    <3>1. i \in 1 .. j /\ n + i \in 1 .. l
      BY <1>5, <2>1
    <3>2. QED
      BY <1>4, <1>7, <1>9, <1>11, <3>1
  <2>2. CASE i > j
    <3>1. i \in j + 1 .. j + k /\ n + i \in l + 1 .. l + k /\ i - j = (n + i) - l
      BY <1>5, <2>2
    <3>2. QED
      BY <1>4, <1>9, <1>11, <3>1
  <2>3. QED
    BY <2>1, <2>2
<1>13. u = v
  BY <1>9, <1>11, <1>12, SeqEqual
<1>14. /\ SubSeq(a, 1, n) \in Seq(Tokens) /\ Len(SubSeq(a, 1, n)) = n
       /\ \A i \in 1 .. n : SubSeq(a, 1, n)[i] = a[i]
  OBVIOUS
<1>15. \A i \in 1 .. n : t[i] = a[i]
  BY <1>4, <1>5
<1>16. SubSeq(t, n + 1, Len(t)) = u /\ Len(t) >= n
  BY <1>4, <1>5, <1>10, <1>13
<1>17. QED
  BY <1>1, <1>3, <1>6, <1>7, <1>8, <1>14, <1>15, <1>16

\* A receive that takes n tokens: they are the next ones.
LEMMA TakeReads ==
  ASSUME inbox \in Seq(Tokens), stream \in Seq(Tokens), stream' = stream,
         NEW n \in Nat, n <= Len(inbox), inbox' = SubSeq(inbox, n + 1, Len(inbox))
  PROVE  /\ inbox' \in Seq(Tokens) /\ Due \in Seq(Tokens) /\ Len(Due) >= n
         /\ Due' = SubSeq(Due, n + 1, Len(Due))
         /\ SubSeq(inbox, 1, n) \in Seq(Tokens) /\ Len(SubSeq(inbox, 1, n)) = n
         /\ \A i \in 1 .. n : SubSeq(inbox, 1, n)[i] = Due[i] /\ inbox[i] = Due[i]
<1>1. Due = inbox \o stream /\ Due' = inbox' \o stream /\ Due \in Seq(Tokens)
  BY DEF Due
<1>2. PICK a \in Seq(Tokens) : a = inbox
  OBVIOUS
<1>3. PICK b \in Seq(Tokens) : b = stream
  OBVIOUS
<1>4. Due = a \o b /\ Due' = SubSeq(a, n + 1, Len(a)) \o b /\ n <= Len(a)
  BY <1>1, <1>2, <1>3
<1>5. /\ Due' = SubSeq(Due, n + 1, Len(Due)) /\ SubSeq(a, n + 1, Len(a)) \in Seq(Tokens)
      /\ SubSeq(a, 1, n) \in Seq(Tokens) /\ Len(SubSeq(a, 1, n)) = n /\ Len(Due) >= n
      /\ \A i \in 1 .. n : SubSeq(a, 1, n)[i] = a[i] /\ Due[i] = a[i]
  <2>1. /\ SubSeq(a \o b, n + 1, Len(a \o b)) = SubSeq(a, n + 1, Len(a)) \o b
        /\ SubSeq(a, n + 1, Len(a)) \in Seq(Tokens)
        /\ SubSeq(a, 1, n) \in Seq(Tokens) /\ Len(SubSeq(a, 1, n)) = n /\ Len(a \o b) >= n
        /\ \A i \in 1 .. n : SubSeq(a, 1, n)[i] = a[i] /\ (a \o b)[i] = a[i]
    BY <1>4, JoinedCut
  <2>2. QED
    BY <1>4, <2>1
<1>6. QED
  BY <1>1, <1>2, <1>5

\* What arrives stays in order.
LEMMA ArriveKeepsDue ==
  ASSUME inbox \in Seq(Tokens), stream \in Seq(Tokens), Arrive
  PROVE  Due' = Due /\ inbox' \in Seq(Tokens) /\ stream' \in Seq(Tokens)
<1>1. stream # <<>> /\ inbox' = Append(inbox, stream[1]) /\ stream' = Tail(stream)
  BY DEF Arrive
<1>2. QED
  BY <1>1 DEF Due

\* The peer closes: what was coming still comes as far as it does, and is not all
\* unless nothing was under way.
LEMMA CloseCuts ==
  ASSUME inbox \in Seq(Tokens), stream \in Seq(Tokens), PeerCloses,
         NEW x, Coming(Due, broke, x)
  PROVE  Coming(Due', broke', x)
<1>1. stream' = <<>> /\ inbox' = inbox /\ broke' = IF stream = <<>> THEN broke ELSE Because("cut")
  BY DEF PeerCloses
<1>2. CASE stream = <<>>
  BY <1>1, <1>2 DEF Due
<1>3. CASE stream # <<>>
  <2>1. broke' # "no"
    BY <1>1, <1>3 DEF Because
  <2>2. Due' = inbox /\ Len(inbox) <= Len(Due) /\ \A i \in 1 .. Len(inbox) : i \in 1 .. Len(Due) /\ Due[i] = inbox[i]
    BY <1>1 DEF Due
  <2>3. QED
    BY <2>1, <2>2 DEF Coming
<1>4. QED
  BY <1>2, <1>3

\* NothingCame is there of what should come: then something broke.
LEMMA NothingBroke ==
  ASSUME stream \in Seq(Tokens), inbox = <<>>, ~open => stream = <<>>, NEW reason, reason # "no",
         NothingFor(reason), NEW x, x # <<>>, Coming(Due, broke, x)
  PROVE  broke' # "no"
<1>1. CASE open
  BY <1>1 DEF NothingFor, Because
<1>2. CASE ~open
  <2>1. Len(Due) = 0 /\ Len(x) # 0
    BY <1>2 DEF Due, Coming
  <2>2. QED
    BY <1>2, <2>1 DEF NothingFor, Coming
<1>3. QED
  BY <1>1, <1>2

-----------------------------------------------------------------------------
(* HTTP: one receive *)

\* Bytes follow on bytes.
LEMMA BytesFollow ==
  ASSUME NEW from \in Nat, NEW n \in Nat, NEW w \in Nat
  PROVE  /\ Bytes(from, n) \o Bytes(from + n, w) = Bytes(from, n + w)
         /\ Bytes(from, 0) = <<>>
<1>1. PICK a \in Seq(Tokens) : a = Bytes(from, n)
  <2>1. Bytes(from, n) \in Seq(Tokens)
    BY BytesAre
  <2>2. QED
    BY <2>1
<1>2. PICK b \in Seq(Tokens) : b = Bytes(from + n, w)
  <2>1. from + n \in Nat
    OBVIOUS
  <2>2. Bytes(from + n, w) \in Seq(Tokens)
    BY <2>1, BytesAre
  <2>3. QED
    BY <2>2
<1>3. PICK c \in Seq(Tokens) : c = Bytes(from, n + w)
  <2>1. n + w \in Nat
    OBVIOUS
  <2>2. Bytes(from, n + w) \in Seq(Tokens)
    BY <2>1, BytesAre
  <2>3. QED
    BY <2>2
<1>4. PICK f \in Nat : f = from + n
  OBVIOUS
<1>5. PICK m \in Nat : m = n + w
  OBVIOUS
<1>6. /\ Len(a) = n /\ \A i \in 1 .. n : a[i] = Token("byte", from + i)
      /\ Len(b) = w /\ \A i \in 1 .. w : b[i] = Token("byte", f + i)
      /\ Len(c) = m /\ \A i \in 1 .. m : c[i] = Token("byte", from + i)
  BY <1>1, <1>2, <1>3, <1>4, <1>5, BytesAre
<1>7. PICK u : u = a \o b
  OBVIOUS
<1>8. /\ u \in Seq(Tokens) /\ Len(u) = m /\ \A i \in 1 .. n : u[i] = a[i]
      /\ \A i \in n + 1 .. n + w : u[i] = b[i - n]
  <2>1. u \in Seq(Tokens) /\ Len(u) = Len(a) + Len(b)
    BY <1>7
  <2>2. \A i \in 1 .. Len(a) : u[i] = a[i]
    BY <1>7
  <2>3. \A i \in Len(a) + 1 .. Len(a) + Len(b) : u[i] = b[i - Len(a)]
    BY <1>7
  <2>4. Len(a) = n /\ Len(b) = w
    BY <1>6
  <2>5. QED
    BY <1>5, <2>1, <2>2, <2>3, <2>4
<1>9. ASSUME NEW i \in 1 .. m PROVE u[i] = c[i]
  <2>1. CASE i <= n
    <3>1. i \in 1 .. n
      BY <2>1
    <3>2. QED
      BY <1>6, <1>8, <3>1
  <2>2. CASE i > n
    <3>1. i \in n + 1 .. n + w /\ i - n \in 1 .. w /\ f + (i - n) = from + i
      BY <1>4, <1>5, <2>2
    <3>2. u[i] = b[i - n] /\ b[i - n] = Token("byte", f + (i - n)) /\ c[i] = Token("byte", from + i)
      BY <1>6, <1>8, <3>1
    <3>3. QED
      BY <3>1, <3>2
  <2>3. QED
    BY <2>1, <2>2
<1>10. u = c
  BY <1>6, <1>8, <1>9, SeqEqual
<1>11. Bytes(from, 0) \in Seq(Tokens) /\ Len(Bytes(from, 0)) = 0
  BY BytesAre
<1>12. Bytes(from, 0) = <<>>
  BY <1>11
<1>13. QED
  BY <1>1, <1>2, <1>3, <1>7, <1>10, <1>12

\* What a receive returns is the front of what is to come.
LEMMA ReadFront ==
  ASSUME inbox \in Seq(Tokens), stream \in Seq(Tokens), stream' = stream,
         NEW y \in Seq(Tokens), NEW z \in Seq(Tokens), Coming(Due, broke, y \o z),
         NEW n \in Nat, n = Len(y), n <= Len(inbox), inbox' = SubSeq(inbox, n + 1, Len(inbox))
  PROVE  SubSeq(inbox, 1, n) = y /\ Coming(Due', broke, z) /\ inbox' \in Seq(Tokens)
<1>1. PICK x \in Seq(Tokens) : x = y \o z
  <2>1. y \o z \in Seq(Tokens)
    OBVIOUS
  <2>2. QED
    BY <2>1
<1>2. PICK t \in Seq(Tokens) : t = Due
  BY TakeReads
<1>3. PICK s \in Seq(Tokens) : s = SubSeq(inbox, 1, n)
  BY TakeReads
<1>4. /\ inbox' \in Seq(Tokens) /\ Len(t) >= n /\ Due' = SubSeq(t, n + 1, Len(t))
      /\ Len(s) = n /\ \A i \in 1 .. n : s[i] = t[i]
  BY <1>2, <1>3, TakeReads
<1>5. Coming(t, broke, x)
  BY <1>1, <1>2
<1>6. n \in 0 .. Len(t)
  BY <1>4
<1>7. Coming(Due', broke, SubSeq(x, n + 1, Len(x)))
  BY <1>4, <1>5, <1>6, ComingRead
<1>8. SubSeq(x, n + 1, Len(x)) = z /\ \A i \in 1 .. n : x[i] = y[i]
  <2>1. SubSeq(x, n + 1, Len(x)) = SubSeq(y, n + 1, Len(y)) \o z /\ \A i \in 1 .. n : x[i] = y[i]
    BY <1>1, JoinedCut
  <2>2. PICK e \in Seq(Tokens) : e = SubSeq(y, n + 1, Len(y))
    <3>1. SubSeq(y, n + 1, Len(y)) \in Seq(Tokens)
      OBVIOUS
    <3>2. QED
      BY <3>1
  <2>3. Len(e) = 0
    BY <2>2
  <2>4. e = <<>>
    BY <2>3
  <2>5. <<>> \o z = z
    OBVIOUS
  <2>6. QED
    BY <2>1, <2>2, <2>4, <2>5
<1>9. \A i \in 1 .. n : s[i] = y[i]
  <2>1. ASSUME NEW i \in 1 .. n PROVE s[i] = y[i]
    <3>1. i \in 1 .. Len(t)
      BY <1>4
    <3>2. t[i] = x[i]
      BY <1>5, <3>1 DEF Coming
    <3>3. QED
      BY <1>4, <1>8, <3>2
  <2>2. QED
    BY <2>1
<1>10. s = y
  BY <1>4, <1>9, SeqEqual
<1>11. QED
  BY <1>3, <1>4, <1>7, <1>8, <1>10

\* A line is one token.
LEMMA ReadToken ==
  ASSUME inbox \in Seq(Tokens), stream \in Seq(Tokens), Take(1),
         NEW t \in Tokens, NEW z \in Seq(Tokens), Coming(Due, broke, <<t>> \o z)
  PROVE  inbox[1] = t /\ Coming(Due', broke, z) /\ inbox' \in Seq(Tokens)
<1>1. inbox # <<>> /\ stream' = stream /\ inbox' = SubSeq(inbox, 1 + 1, Len(inbox))
  BY DEF Take, Quiet
<1>2. 1 <= Len(inbox)
  BY <1>1
<1>3. PICK y \in Seq(Tokens) : y = <<t>>
  <2>1. <<t>> \in Seq(Tokens)
    OBVIOUS
  <2>2. QED
    BY <2>1
<1>4. Len(y) = 1 /\ y[1] = t /\ Coming(Due, broke, y \o z)
  BY <1>3
<1>5. PICK n \in Nat : n = 1
  OBVIOUS
<1>6. SubSeq(inbox, 1, n) = y /\ Coming(Due', broke, z) /\ inbox' \in Seq(Tokens)
  BY <1>1, <1>2, <1>4, <1>5, ReadFront
<1>7. SubSeq(inbox, 1, 1)[1] = inbox[1]
  BY <1>2
<1>8. QED
  BY <1>4, <1>5, <1>6, <1>7

\* Bytes come in pieces.
LEMMA ReadBytes ==
  ASSUME inbox \in Seq(Tokens), stream \in Seq(Tokens), NEW from \in Nat, NEW w \in Nat,
         NEW z \in Seq(Tokens), Coming(Due, broke, Bytes(from, w) \o z),
         NEW n \in Nat, n <= w, n <= Len(inbox), Take(n)
  PROVE  /\ SubSeq(inbox, 1, n) = Bytes(from, n) /\ inbox' \in Seq(Tokens)
         /\ Coming(Due', broke, Bytes(from + n, w - n) \o z)
<1>1. stream' = stream /\ inbox' = SubSeq(inbox, n + 1, Len(inbox))
  BY DEF Take, Quiet
<1>2. PICK v \in Nat : n + v = w
  <2>1. w - n \in Nat /\ n + (w - n) = w
    OBVIOUS
  <2>2. QED
    BY <2>1
<1>3. PICK y \in Seq(Tokens) : y = Bytes(from, n)
  <2>1. Bytes(from, n) \in Seq(Tokens)
    BY BytesAre
  <2>2. QED
    BY <2>1
<1>4. PICK b \in Seq(Tokens) : b = Bytes(from + n, v)
  <2>1. from + n \in Nat
    OBVIOUS
  <2>2. Bytes(from + n, v) \in Seq(Tokens)
    BY <2>1, BytesAre
  <2>3. QED
    BY <2>2
<1>5. Bytes(from, w) = y \o b
  BY <1>2, <1>3, <1>4, BytesFollow
<1>6. (y \o b) \o z = y \o (b \o z)
  BY ConcatAssociative
<1>7. Coming(Due, broke, y \o (b \o z)) /\ b \o z \in Seq(Tokens)
  BY <1>5, <1>6
<1>8. Len(y) = n
  BY <1>3, BytesAre
<1>9. PICK bz \in Seq(Tokens) : bz = b \o z
  BY <1>7
<1>10. Coming(Due, broke, y \o bz)
  BY <1>7, <1>9
<1>11. SubSeq(inbox, 1, n) = y /\ Coming(Due', broke, bz) /\ inbox' \in Seq(Tokens)
  BY <1>1, <1>8, <1>10, ReadFront
<1>12. w - n = v
  BY <1>2
<1>13. QED
  BY <1>3, <1>4, <1>9, <1>11, <1>12

-----------------------------------------------------------------------------
(* HTTP: what a foreign server sends *)

\* Three and four parts.
Regroups(u, v, w, x) ==
  (u \o v) \o w = u \o (v \o w) /\ ((u \o v) \o w) \o x = u \o (v \o (w \o x))

LEMMA JoinedAgain == \A u, v, w, x \in Seq(Tokens) : Regroups(u, v, w, x)
<1> SUFFICES ASSUME NEW u \in Seq(Tokens), NEW v \in Seq(Tokens), NEW w \in Seq(Tokens), NEW x \in Seq(Tokens)
             PROVE  Regroups(u, v, w, x)
  OBVIOUS
<1>1. (u \o v) \o w = u \o (v \o w)
  BY ConcatAssociative
<1>2. ((u \o v) \o w) \o x = u \o (v \o (w \o x))
  BY ConcatAssociative
<1>3. QED
  BY <1>1, <1>2 DEF Regroups

\* A chunk, and what follows.
LEMMA ChunkIs ==
  ASSUME NEW sizes \in Sizes, NEW k \in 0 .. Len(sizes) - 1
  PROVE  LET more == LastChunks(sizes, Len(sizes) - (k + 1)) IN
         /\ k + 1 \in 1 .. Len(sizes) /\ sizes[k + 1] \in Nat \ {0} /\ Upto(sizes, k) \in Nat
         /\ Upto(sizes, k + 1) = Upto(sizes, k) + sizes[k + 1]
         /\ more \in Seq(Tokens) /\ CRLF \in Seq(Tokens)
         /\ LastChunks(sizes, Len(sizes) - k) =
              <<Token("size", sizes[k + 1])>> \o (Bytes(Upto(sizes, k), sizes[k + 1]) \o (CRLF \o more))
<1>1. PICK l \in Nat : l = Len(sizes)
  BY DEF Sizes
<1>2. PICK i \in 1 .. l : i = k + 1
  BY <1>1
<1>3. l - (k + 1) = (l - k) - 1 /\ l - k \in 1 .. l /\ l + 1 - (l - k) = i /\ i - 1 = k /\ i \in 1 .. Len(sizes)
      /\ (l - k) - 1 \in 0 .. l
  BY <1>1, <1>2
<1>4. sizes[i] \in Nat \ {0}
  BY <1>3 DEF Sizes
<1>5. Upto(sizes, k) \in Nat /\ Upto(sizes, i) = Upto(sizes, k) + sizes[i]
  <2>1. k \in 0 .. Len(sizes)
    OBVIOUS
  <2>2. QED
    BY <1>3, <2>1, UptoIs
<1>6. PICK m : m = (l - k) - 1
  OBVIOUS
<1>7. PICK more \in Seq(Tokens) : more = LastChunks(sizes, m)
  <2>1. LastChunks(sizes, m) \in Seq(Tokens)
    BY <1>1, <1>3, <1>6, LastChunksAre
  <2>2. QED
    BY <2>1
<1>8. LastChunks(sizes, l - k) = Chunk(sizes, i) \o more
  <2>1. LastChunks(sizes, l - k) = Chunk(sizes, l + 1 - (l - k)) \o LastChunks(sizes, (l - k) - 1)
    BY <1>1, <1>3, LastChunksAre
  <2>2. QED
    BY <1>3, <1>6, <1>7, <2>1
<1>9. PICK b \in Seq(Tokens) : b = Bytes(Upto(sizes, k), sizes[i])
  <2>1. Bytes(Upto(sizes, k), sizes[i]) \in Seq(Tokens)
    BY <1>4, <1>5, BytesAre
  <2>2. QED
    BY <2>1
<1>10. PICK h \in Seq(Tokens) : h = <<Token("size", sizes[i])>>
  <2>1. Token("size", sizes[i]) \in Tokens
    BY <1>4 DEF Token, Tokens, TokenKinds
  <2>2. <<Token("size", sizes[i])>> \in Seq(Tokens)
    BY <2>1
  <2>3. QED
    BY <2>2
<1>11. CRLF \in Seq(Tokens)
  BY DEF CRLF, Token, Tokens, TokenKinds
<1>12. Chunk(sizes, i) = (h \o b) \o CRLF
  BY <1>3, <1>9, <1>10 DEF Chunk
<1>13. ((h \o b) \o CRLF) \o more = h \o (b \o (CRLF \o more))
  <2>1. PICK c \in Seq(Tokens) : c = CRLF
    BY <1>11
  <2>2. QED
    <3>1. Regroups(h, b, c, more)
      BY JoinedAgain
    <3>2. QED
      BY <2>1, <3>1 DEF Regroups
<1>14. l - (k + 1) = m /\ k + 1 = i
  BY <1>2, <1>3, <1>6
<1>15. QED
  BY <1>1, <1>3, <1>4, <1>5, <1>7, <1>8, <1>9, <1>10, <1>11, <1>12, <1>13, <1>14

\* The size line first.
LEMMA NextChunk ==
  ASSUME NEW sizes \in Sizes, NEW l \in Nat, l = Len(sizes), NEW k \in 0 .. l - 1
  PROVE  LET more == LastChunks(sizes, l - (k + 1))
             z == Bytes(Upto(sizes, k), sizes[k + 1]) \o (CRLF \o more)
         IN  /\ k + 1 \in 1 .. l /\ sizes[k + 1] \in Nat \ {0} /\ Upto(sizes, k) \in Nat
             /\ Upto(sizes, k + 1) = Upto(sizes, k) + sizes[k + 1]
             /\ Token("size", sizes[k + 1]) \in Tokens /\ z \in Seq(Tokens)
             /\ LastChunks(sizes, l - k) = <<Token("size", sizes[k + 1])>> \o z
<1>1. PICK more \in Seq(Tokens) : more = LastChunks(sizes, l - (k + 1))
  BY ChunkIs
<1>2. PICK c \in Seq(Tokens) : c = CRLF
  BY ChunkIs
<1>3. /\ k + 1 \in 1 .. l /\ sizes[k + 1] \in Nat \ {0} /\ Upto(sizes, k) \in Nat
      /\ Upto(sizes, k + 1) = Upto(sizes, k) + sizes[k + 1]
      /\ LastChunks(sizes, l - k) =
           <<Token("size", sizes[k + 1])>> \o (Bytes(Upto(sizes, k), sizes[k + 1]) \o (c \o more))
  BY <1>1, <1>2, ChunkIs
<1>4. PICK b \in Seq(Tokens) : b = Bytes(Upto(sizes, k), sizes[k + 1])
  <2>1. Bytes(Upto(sizes, k), sizes[k + 1]) \in Seq(Tokens)
    BY <1>3, BytesAre
  <2>2. QED
    BY <2>1
<1>5. b \o (c \o more) \in Seq(Tokens)
  OBVIOUS
<1>6. Token("size", sizes[k + 1]) \in Tokens
  BY <1>3 DEF Token, Tokens, TokenKinds
<1>7. QED
  BY <1>1, <1>2, <1>3, <1>4, <1>5, <1>6

Afterwards(a) == HeadEnd(a) \o Rest(a)

\* The answer, line by line.
LEMMA AnswerIs ==
  ASSUME HttpAssumption, NEW a \in Answers
  PROVE  /\ a.sizes \in Sizes /\ a.chunked \in BOOLEAN /\ a.long \in BOOLEAN
         /\ Rest(a) \in Seq(Tokens) /\ Afterwards(a) \in Seq(Tokens) /\ Answer(a) \in Seq(Tokens)
         /\ Answer(a) = <<Token("status", 0)>> \o
              (IF a.chunked THEN <<Token("te", 0)>> \o Afterwards(a) ELSE Afterwards(a))
         /\ Afterwards(a) = IF a.long
              THEN <<Token("long", 0)>> \o (<<Token("rest", 0)>> \o (<<Token("blank", 0)>> \o Rest(a)))
              ELSE <<Token("blank", 0)>> \o Rest(a)
         /\ Rest(a) = IF a.chunked THEN LastChunks(a.sizes, Len(a.sizes))
                      ELSE Bytes(0, Upto(a.sizes, Len(a.sizes)))
<1>1. a.sizes \in Sizes /\ a.chunked \in BOOLEAN /\ a.long \in BOOLEAN
  BY DEF HttpAssumption, Sizes
<1>2. PICK r \in Seq(Tokens) : r = Rest(a)
  <2>1. LastChunks(a.sizes, Len(a.sizes)) \in Seq(Tokens)
    <3>1. Len(a.sizes) \in 0 .. Len(a.sizes)
      BY <1>1 DEF Sizes
    <3>2. QED
      BY <1>1, <3>1, LastChunksAre
  <2>2. Content(a.sizes) \in Seq(Tokens)
    BY <1>1, ContentIs
  <2>3. Rest(a) \in Seq(Tokens)
    BY <2>1, <2>2 DEF Rest
  <2>4. QED
    BY <2>3
<1>3. PICK s \in Seq(Tokens) : s = <<Token("status", 0)>>
  <2>1. <<Token("status", 0)>> \in Seq(Tokens)
    BY DEF Token, Tokens, TokenKinds
  <2>2. QED
    BY <2>1
<1>4. PICK e \in Seq(Tokens) : e = <<Token("te", 0)>>
  <2>1. <<Token("te", 0)>> \in Seq(Tokens)
    BY DEF Token, Tokens, TokenKinds
  <2>2. QED
    BY <2>1
<1>5. PICK b \in Seq(Tokens) : b = <<Token("blank", 0)>>
  <2>1. <<Token("blank", 0)>> \in Seq(Tokens)
    BY DEF Token, Tokens, TokenKinds
  <2>2. QED
    BY <2>1
<1>6. PICK g \in Seq(Tokens) : g = <<Token("long", 0)>>
  <2>1. <<Token("long", 0)>> \in Seq(Tokens)
    BY DEF Token, Tokens, TokenKinds
  <2>2. QED
    BY <2>1
<1>7. PICK t \in Seq(Tokens) : t = <<Token("rest", 0)>>
  <2>1. <<Token("rest", 0)>> \in Seq(Tokens)
    BY DEF Token, Tokens, TokenKinds
  <2>2. QED
    BY <2>1
<1>8. <<Token("long", 0), Token("rest", 0)>> = g \o t
  BY <1>6, <1>7
<1>9. HeadEnd(a) = (IF a.long THEN g \o t ELSE <<>>) \o b
  BY <1>5, <1>8 DEF HeadEnd
<1>10. HeadEnd(a) = IF a.long THEN (g \o t) \o b ELSE b
  <2>1. <<>> \o b = b
    OBVIOUS
  <2>2. QED
    BY <1>9, <2>1
<1>11. PICK h \in Seq(Tokens) : h = HeadEnd(a)
  <2>1. (g \o t) \o b \in Seq(Tokens)
    OBVIOUS
  <2>2. HeadEnd(a) \in Seq(Tokens)
    BY <1>10, <2>1
  <2>3. QED
    BY <2>2
<1>12. Afterwards(a) = h \o r /\ h \o r \in Seq(Tokens)
  BY <1>2, <1>11 DEF Afterwards
<1>13. Afterwards(a) = IF a.long THEN g \o (t \o (b \o r)) ELSE b \o r
  <2>1. ((g \o t) \o b) \o r = g \o (t \o (b \o r))
    <3>1. Regroups(g, t, b, r)
      BY JoinedAgain
    <3>2. QED
      BY <3>1 DEF Regroups
  <2>2. QED
    BY <1>10, <1>11, <1>12, <2>1
<1>14. Answer(a) = ((s \o (IF a.chunked THEN e ELSE <<>>)) \o h) \o r
  BY <1>2, <1>3, <1>4, <1>11 DEF Answer
<1>15. Answer(a) = s \o (IF a.chunked THEN e \o (h \o r) ELSE h \o r)
  <2>1. CASE a.chunked
    <3>1. Regroups(s, e, h, r)
      BY JoinedAgain
    <3>2. QED
      BY <1>14, <2>1, <3>1 DEF Regroups
  <2>2. CASE ~a.chunked
    <3>1. s \o <<>> = s
      OBVIOUS
    <3>2. Regroups(s, h, r, r)
      BY JoinedAgain
    <3>3. QED
      BY <1>14, <2>2, <3>1, <3>2 DEF Regroups
  <2>3. QED
    BY <2>1, <2>2
<1>16. s \o (e \o (h \o r)) \in Seq(Tokens) /\ s \o (h \o r) \in Seq(Tokens)
  <2>1. h \o r \in Seq(Tokens)
    OBVIOUS
  <2>2. e \o (h \o r) \in Seq(Tokens)
    BY <2>1
  <2>3. QED
    BY <2>1, <2>2
<1>17. Rest(a) = IF a.chunked THEN LastChunks(a.sizes, Len(a.sizes)) ELSE Bytes(0, Upto(a.sizes, Len(a.sizes)))
  BY DEF Rest, Content
<1>18. Answer(a) \in Seq(Tokens)
  BY <1>1, <1>15, <1>16
<1>19. QED
  BY <1>1, <1>2, <1>3, <1>4, <1>5, <1>6, <1>7, <1>12, <1>13, <1>15, <1>17, <1>18

-----------------------------------------------------------------------------
(* HTTP: the client *)

Total(a) == Upto(a.sizes, Len(a.sizes))

ClientTypes ==
  /\ peer \in Answers /\ stream \in Seq(Tokens) /\ inbox \in Seq(Tokens) /\ body \in Seq(Tokens)
  /\ open \in BOOLEAN /\ chunked \in BOOLEAN /\ left \in Nat
  /\ where \in {"call", "status", "headers", "size", "chunk", "crlf", "plain", "done"}
  /\ answer \in {"none", "ok", "failed"}

ClientCounts ==
  /\ Len(body) <= BodyCap
  /\ ~open => stream = <<>>
  /\ answer # "none" <=> where = "done"
  /\ answer = "failed" => broke # "no"
  /\ open /\ where \in {"status", "headers"} => broke = "no"

\* What has been read, and what is to come, wherever the call is.
AtCall ==
  where = "call" =>
    stream = <<>> /\ inbox = <<>> /\ ~open /\ broke = "no" /\ ~chunked /\ body = <<>>
AtStatus == where = "status" => ~chunked /\ body = <<>> /\ Coming(Due, broke, Answer(peer))
AtHeaders ==
  where = "headers" =>
    /\ body = <<>>
    /\ \/ peer.chunked /\ ~chunked /\ Coming(Due, broke, <<Token("te", 0)>> \o Afterwards(peer))
       \/ chunked = peer.chunked /\ Coming(Due, broke, Afterwards(peer))
AtSize ==
  where = "size" /\ broke # "head" =>
    /\ chunked
    /\ peer.long =>
         /\ body = <<>>
         /\ Coming(Due, broke, <<Token("rest", 0)>> \o (<<Token("blank", 0)>> \o Rest(peer)))
    /\ ~peer.long => \E k \in 0 .. Len(peer.sizes) :
         /\ body = Bytes(0, Upto(peer.sizes, k))
         /\ Coming(Due, broke, LastChunks(peer.sizes, Len(peer.sizes) - k))
AtChunk ==
  where = "chunk" =>
    /\ left # 0 /\ Len(body) + left <= BodyCap
    /\ broke # "head" =>
         /\ chunked /\ ~peer.long
         /\ \E k \in 0 .. Len(peer.sizes) :
              /\ Len(body) + left = Upto(peer.sizes, k) /\ body = Bytes(0, Len(body))
              /\ Coming(Due, broke, Bytes(Len(body), left)
                                    \o (CRLF \o LastChunks(peer.sizes, Len(peer.sizes) - k)))
AtCRLF ==
  where = "crlf" /\ broke # "head" =>
    /\ chunked /\ ~peer.long
    /\ \E k \in 0 .. Len(peer.sizes) :
         /\ body = Bytes(0, Upto(peer.sizes, k))
         /\ Coming(Due, broke, CRLF \o LastChunks(peer.sizes, Len(peer.sizes) - k))
AtPlain ==
  where = "plain" /\ broke # "head" /\ ~peer.long =>
    /\ ~chunked
    /\ \E m, w \in Nat :
         m + w = Total(peer) /\ body = Bytes(0, m) /\ Coming(Due, broke, Bytes(m, w) \o <<>>)
AtDone ==
  where = "done" /\ broke # "head" /\ ~peer.long =>
    \E m \in Nat :
      /\ m <= Total(peer) /\ body = Bytes(0, m)
      /\ answer = "ok" /\ (chunked \/ broke = "no") =>
           m = IF chunked \/ Total(peer) < BodyCap THEN Total(peer) ELSE BodyCap

\* Of a head that stopped coming nothing was read beyond, and the end of it, which
\* is no number, is still to come.
HeadFailed ==
  broke = "head" =>
    /\ where \in {"size", "plain", "done"}
    /\ where = "size" => Coming(Due, broke, Afterwards(peer))

ClientInv ==
  /\ ClientTypes /\ ClientCounts /\ HeadFailed
  /\ AtCall /\ AtStatus /\ AtHeaders /\ AtSize /\ AtChunk /\ AtCRLF /\ AtPlain /\ AtDone

\* The peer and the network change what has come, and not what it is part of.
LEMMA ClientBeforeTheNetwork ==
  ASSUME ClientInv, Arrive \/ PeerCloses
  PROVE  ClientInv'
<1>1. /\ UNCHANGED <<side, peer, where, chunked, left, body, answer, serving, stopping, clients, handled>>
  BY DEF Arrive, PeerCloses, Waiting
<1>2. \A x : Coming(Due, broke, x) => Coming(Due', broke', x)
  <2>1. CASE Arrive
    <3>1. Due' = Due /\ broke' = broke
      <4>1. Due' = Due
        BY <2>1, ArriveKeepsDue DEF ClientInv, ClientTypes
      <4>2. QED
        BY <2>1, <4>1 DEF Arrive
    <3>2. QED
      BY <3>1
  <2>2. CASE PeerCloses
    BY <2>2, CloseCuts DEF ClientInv, ClientTypes
  <2>3. QED
    BY <2>1, <2>2
<1>3. /\ broke = "head" => broke' = "head"
      /\ broke # "no" => broke' # "no"
      /\ broke' # broke => broke' = "cut"
      /\ stream = <<>> => broke' = broke
      /\ stream = <<>> => stream' = <<>>
      /\ open' = open \/ (open' = FALSE /\ stream' = <<>>)
      /\ stream' \in Seq(Tokens) /\ inbox' \in Seq(Tokens) /\ open' \in BOOLEAN
  <2>1. CASE Arrive
    BY <2>1, ArriveKeepsDue DEF Arrive, ClientInv, ClientTypes
  <2>2. CASE PeerCloses
    <3>1. /\ open' = FALSE /\ stream' = <<>> /\ inbox' = inbox
          /\ broke' = IF stream = <<>> THEN broke ELSE Because("cut")
      BY <2>2 DEF PeerCloses
    <3>2. /\ broke = "head" => broke' = "head"
          /\ broke # "no" => broke' # "no"
          /\ broke' # broke => broke' = "cut"
      BY <3>1 DEF Because
    <3>3. inbox \in Seq(Tokens) /\ <<>> \in Seq(Tokens)
      BY DEF ClientInv, ClientTypes
    <3>4. QED
      BY <3>1, <3>2, <3>3
  <2>3. QED
    BY <2>1, <2>2
<1>4. ClientTypes'
  BY <1>1, <1>3 DEF ClientInv, ClientTypes
<1>5. ClientCounts'
  <2>1. ~open' => stream' = <<>>
    BY <1>3 DEF ClientInv, ClientCounts
  <2>2. open' /\ where' \in {"status", "headers"} => broke' = "no"
    <3>1. CASE Arrive
      BY <1>1, <3>1 DEF Arrive, ClientInv, ClientCounts
    <3>2. CASE PeerCloses
      BY <3>2 DEF PeerCloses
    <3>3. QED
      BY <3>1, <3>2
  <2>3. QED
    BY <1>1, <1>3, <2>1, <2>2 DEF ClientInv, ClientCounts
<1>6. AtCall'
  <2>1. CASE Arrive
    BY <1>1, <2>1 DEF Arrive, ClientInv, AtCall
  <2>2. CASE PeerCloses
    BY <1>1, <2>2 DEF PeerCloses, ClientInv, AtCall
  <2>3. QED
    BY <2>1, <2>2
<1>7. AtStatus'
  BY <1>1, <1>2 DEF ClientInv, AtStatus
<1>8. AtHeaders'
  BY <1>1, <1>2 DEF ClientInv, AtHeaders
<1>9. AtSize'
  BY <1>1, <1>2, <1>3 DEF ClientInv, AtSize
<1>10. AtChunk'
  BY <1>1, <1>2, <1>3 DEF ClientInv, AtChunk
<1>11. AtCRLF'
  BY <1>1, <1>2, <1>3 DEF ClientInv, AtCRLF
<1>12. AtPlain'
  BY <1>1, <1>2, <1>3 DEF ClientInv, AtPlain
<1>13. AtDone'
  <2>1. SUFFICES ASSUME where' = "done", broke' # "head", ~peer'.long
                 PROVE  \E m \in Nat :
                          /\ m <= Total(peer)' /\ body' = Bytes(0, m)
                          /\ answer' = "ok" /\ (chunked' \/ broke' = "no") =>
                               m = IF chunked' \/ Total(peer)' < BodyCap THEN Total(peer)' ELSE BodyCap
    BY DEF AtDone
  <2>2. PICK m \in Nat :
          /\ m <= Total(peer) /\ body = Bytes(0, m)
          /\ answer = "ok" /\ (chunked \/ broke = "no") =>
               m = IF chunked \/ Total(peer) < BodyCap THEN Total(peer) ELSE BodyCap
    BY <1>1, <1>3, <2>1 DEF ClientInv, AtDone
  <2>3. Total(peer)' = Total(peer)
    BY <1>1 DEF Total
  <2>4. QED
    BY <1>1, <1>3, <2>2, <2>3
<1>14. HeadFailed'
  <2>1. Afterwards(peer') = Afterwards(peer)
    BY <1>1
  <2>2. broke' = "head" => broke = "head"
    BY <1>3
  <2>3. QED
    BY <1>1, <1>2, <2>1, <2>2 DEF ClientInv, HeadFailed
<1>15. QED
  BY <1>4, <1>5, <1>6, <1>7, <1>8, <1>9, <1>10, <1>11, <1>12, <1>13, <1>14 DEF ClientInv

\* Where there is a line, something is to come.
LEMMA LineIsSomething ==
  ASSUME NEW t \in Tokens, NEW z \in Seq(Tokens)
  PROVE  <<t>> \o z # <<>> /\ <<t>> \o z \in Seq(Tokens)
<1>1. <<t>> \o z \in Seq(Tokens) /\ Len(<<t>> \o z) = 1 + Len(z)
  OBVIOUS
<1>2. QED
  BY <1>1

\* What a receive with nothing leaves.
LEMMA NothingLeaves ==
  ASSUME NEW reason, NothingFor(reason)
  PROVE  /\ inbox = <<>> /\ inbox' = inbox /\ UNCHANGED <<side, peer, stream, open, serving, stopping, clients>>
         /\ broke' = broke \/ broke' = reason
         /\ broke # "no" => broke' = broke
BY DEF NothingFor, Because, Quiet

\* Of the fixed lines.
LEMMA LinesAreTokens ==
  /\ \A kind \in TokenKinds : Token(kind, 0) \in Tokens /\ Token(kind, 0).kind = kind /\ Token(kind, 0).n = 0
  /\ <<>> \in Seq(Tokens)
BY DEF Token, Tokens

\* Connected, all of the answer is to come.
LEMMA ClientCalls ==
  ASSUME HttpAssumption, ClientInv, Perform
  PROVE  ClientInv'
<1>1. /\ where = "call" /\ UNCHANGED <<peer, inbox, chunked, left, body>>
      /\ inbox = <<>> /\ stream = <<>> /\ ~open /\ broke = "no" /\ ~chunked /\ body = <<>> /\ answer = "none"
      /\ peer \in Answers /\ chunked \in BOOLEAN /\ left \in Nat /\ <<>> \in Seq(Tokens) /\ BodyCap \in Nat
  BY LinesAreTokens DEF Perform, ClientInv, AtCall, ClientTypes, ClientCounts, HttpAssumption
<1>2. CASE stream' = Answer(peer) /\ open' = TRUE /\ where' = "status" /\ UNCHANGED <<answer, broke>>
  <2>1. PICK x \in Seq(Tokens) : x = Answer(peer)
    <3>1. Answer(peer) \in Seq(Tokens)
      BY <1>1, AnswerIs
    <3>2. QED
      BY <3>1
  <2>2. Due' = x
    BY <1>1, <1>2, <2>1 DEF Due
  <2>3. Coming(x, broke', x)
    BY DEF Coming
  <2>4. AtStatus'
    BY <1>1, <2>1, <2>2, <2>3 DEF AtStatus
  <2>5. ClientTypes'
    BY <1>1, <1>2, <2>1 DEF ClientTypes
  <2>6. ClientCounts'
    BY <1>1, <1>2 DEF ClientCounts
  <2>7. AtCall' /\ AtHeaders' /\ AtSize' /\ AtChunk' /\ AtCRLF' /\ AtPlain' /\ AtDone'
    BY <1>2 DEF AtCall, AtHeaders, AtSize, AtChunk, AtCRLF, AtPlain, AtDone
  <2>8. HeadFailed'
    BY <1>1, <1>2 DEF HeadFailed
  <2>9. QED
    BY <2>4, <2>5, <2>6, <2>7, <2>8 DEF ClientInv
<1>3. CASE Answered("failed") /\ broke' = Because("refused") /\ UNCHANGED <<stream, open>>
  <2>1. where' = "done" /\ answer' = "failed" /\ broke' = "refused"
    BY <1>1, <1>3 DEF Answered, Because
  <2>2. ClientTypes'
    <3>1. stream' = <<>> /\ inbox' = <<>> /\ body' = <<>> /\ open' \in BOOLEAN
      BY <1>1, <1>3 DEF ClientInv, ClientTypes
    <3>2. QED
      BY <1>1, <2>1, <3>1 DEF ClientTypes
  <2>3. ClientCounts'
    BY <1>1, <1>3, <2>1 DEF ClientCounts
  <2>4. AtCall' /\ AtStatus' /\ AtHeaders' /\ AtSize' /\ AtChunk' /\ AtCRLF' /\ AtPlain'
    BY <2>1 DEF AtCall, AtStatus, AtHeaders, AtSize, AtChunk, AtCRLF, AtPlain
  <2>5. AtDone'
    <3>1. Total(peer') \in Nat
      <4>1. Len(peer.sizes) \in 0 .. Len(peer.sizes) /\ peer.sizes \in Sizes
        BY <1>1, AnswerIs DEF Sizes
      <4>2. QED
        BY <1>1, <4>1, UptoIs DEF Total
    <3>2. body' = Bytes(0, 0)
      BY <1>1, BytesFollow
    <3>3. QED
      BY <2>1, <3>1, <3>2 DEF AtDone
  <2>6. HeadFailed'
    BY <2>1 DEF HeadFailed
  <2>7. QED
    BY <2>2, <2>3, <2>4, <2>5, <2>6 DEF ClientInv
<1>4. QED
  BY <1>1, <1>2, <1>3 DEF Perform

\* The call ends: how much there is of the body.
LEMMA ClientEnds ==
  ASSUME HttpAssumption, ClientInv, where # "done", UNCHANGED <<peer, stream, open, chunked>>,
         where' = "done", answer' \in {"ok", "failed"}, answer' = "failed" => broke' # "no",
         inbox' \in Seq(Tokens), left' \in Nat, body' = body, AtDone'
  PROVE  ClientInv'
<1>1. ClientTypes'
  BY DEF ClientInv, ClientTypes
<1>2. ClientCounts'
  BY DEF ClientInv, ClientCounts
<1>3. AtCall' /\ AtStatus' /\ AtHeaders' /\ AtSize' /\ AtChunk' /\ AtCRLF' /\ AtPlain'
  BY DEF AtCall, AtStatus, AtHeaders, AtSize, AtChunk, AtCRLF, AtPlain
<1>4. HeadFailed'
  BY DEF HeadFailed
<1>5. QED
  BY <1>1, <1>2, <1>3, <1>4 DEF ClientInv

\* A call that fails has the front of the content.
LEMMA FailedHasTheFront ==
  ASSUME HttpAssumption, peer \in Answers, UNCHANGED <<peer, body>>,
         where' = "done", answer' = "failed",
         broke' # "head" /\ ~peer.long =>
           \E k \in 0 .. Len(peer.sizes), m \in Nat :
             m <= Upto(peer.sizes, k) /\ body = Bytes(0, m)
  PROVE  AtDone'
<1>1. SUFFICES ASSUME broke' # "head", ~peer'.long
               PROVE  \E m \in Nat : m <= Total(peer)' /\ body' = Bytes(0, m)
  BY DEF AtDone
<1>2. PICK k \in 0 .. Len(peer.sizes), m \in Nat : m <= Upto(peer.sizes, k) /\ body = Bytes(0, m)
  BY <1>1
<1>3. peer.sizes \in Sizes
  BY AnswerIs
<1>4. Len(peer.sizes) \in 0 .. Len(peer.sizes)
  BY <1>3 DEF Sizes
<1>5. /\ Upto(peer.sizes, k) \in Nat /\ Upto(peer.sizes, Len(peer.sizes)) \in Nat
      /\ Upto(peer.sizes, k) <= Upto(peer.sizes, Len(peer.sizes))
  BY <1>3, <1>4, UptoIs, UptoGrows
<1>6. Total(peer)' = Upto(peer.sizes, Len(peer.sizes))
  BY DEF Total
<1>7. m <= Total(peer)'
  BY <1>2, <1>5, <1>6
<1>8. QED
  BY <1>2, <1>7

\* The status line.
LEMMA ClientReadsStatus ==
  ASSUME HttpAssumption, ClientInv, ReadStatus
  PROVE  ClientInv'
<1>1. /\ where = "status" /\ UNCHANGED <<chunked, left, body>>
      /\ ~chunked /\ body = <<>> /\ answer = "none" /\ Coming(Due, broke, Answer(peer))
      /\ peer \in Answers /\ chunked \in BOOLEAN /\ left \in Nat /\ BodyCap \in Nat
      /\ stream \in Seq(Tokens) /\ inbox \in Seq(Tokens) /\ body \in Seq(Tokens)
  BY DEF ReadStatus, ClientInv, AtStatus, ClientTypes, ClientCounts, HttpAssumption
<1>2. PICK t \in Tokens : t = Token("status", 0)
  <2>1. Token("status", 0) \in Tokens
    BY LinesAreTokens DEF TokenKinds
  <2>2. QED
    BY <2>1
<1>3. PICK z \in Seq(Tokens) : z = IF peer.chunked THEN <<Token("te", 0)>> \o Afterwards(peer) ELSE Afterwards(peer)
  <2>1. Afterwards(peer) \in Seq(Tokens)
    BY <1>1, AnswerIs
  <2>2. Token("te", 0) \in Tokens
    BY LinesAreTokens DEF TokenKinds
  <2>3. <<Token("te", 0)>> \o Afterwards(peer) \in Seq(Tokens)
    BY <2>1, <2>2
  <2>4. QED
    BY <2>1, <2>3
<1>4. Answer(peer) = <<t>> \o z
  BY <1>1, <1>2, <1>3, AnswerIs
<1>5. CASE NextLine({"status"}) /\ where' = "headers" /\ UNCHANGED answer
  <2>1. Take(1) /\ UNCHANGED broke /\ UNCHANGED <<peer, stream, open>>
    BY <1>5 DEF NextLine, Take, Quiet
  <2>2. Coming(Due', broke, z) /\ inbox' \in Seq(Tokens)
    BY <1>1, <1>4, <2>1, ReadToken
  <2>3. AtHeaders'
    <3>1. peer.chunked \in BOOLEAN
      BY <1>1, AnswerIs
    <3>2. CASE peer.chunked
      BY <1>1, <1>3, <2>1, <2>2, <3>2 DEF AtHeaders
    <3>3. CASE ~peer.chunked
      <4>1. chunked' = FALSE /\ peer'.chunked = FALSE
        BY <1>1, <2>1, <3>1, <3>3
      <4>2. QED
        BY <1>1, <1>3, <2>1, <2>2, <3>3, <4>1 DEF AtHeaders
    <3>4. QED
      BY <3>2, <3>3
  <2>4. ClientTypes'
    BY <1>1, <1>5, <2>1, <2>2 DEF ClientTypes, ClientInv
  <2>5. ClientCounts'
    BY <1>1, <1>5, <2>1 DEF ClientCounts, ClientInv
  <2>6. AtCall' /\ AtStatus' /\ AtSize' /\ AtChunk' /\ AtCRLF' /\ AtPlain' /\ AtDone'
    BY <1>5 DEF AtCall, AtStatus, AtSize, AtChunk, AtCRLF, AtPlain, AtDone
  <2>7. HeadFailed'
    BY <1>1, <2>1 DEF HeadFailed, ClientInv
  <2>8. QED
    BY <2>3, <2>4, <2>5, <2>6, <2>7 DEF ClientInv
<1>6. CASE NothingCame /\ Answered("failed")
  <2>1. where' = "done" /\ answer' = "failed" /\ NothingFor("late")
    BY <1>6 DEF Answered, NothingCame
  <2>2. /\ inbox = <<>> /\ inbox' = inbox /\ UNCHANGED <<peer, stream, open>>
    BY <2>1, NothingLeaves
  <2>3. broke' # "no"
    <3>1. <<t>> \o z # <<>>
      BY LineIsSomething
    <3>2. QED
      BY <1>1, <1>4, <2>1, <2>2, <3>1, NothingBroke DEF ClientInv, ClientCounts
  <2>4. \E k \in 0 .. Len(peer.sizes), m \in Nat : m <= Upto(peer.sizes, k) /\ body = Bytes(0, m)
    <3>1. peer.sizes \in Sizes
      BY <1>1, AnswerIs
    <3>2. 0 \in 0 .. Len(peer.sizes)
      BY <3>1 DEF Sizes
    <3>3. Upto(peer.sizes, 0) = 0
      BY <3>1, UptoIs
    <3>4. body = Bytes(0, 0)
      BY <1>1, BytesFollow
    <3>5. QED
      BY <3>2, <3>3, <3>4
  <2>5. AtDone'
    BY <1>1, <2>1, <2>2, <2>4, FailedHasTheFront
  <2>6. QED
    BY <1>1, <2>1, <2>2, <2>3, <2>5, ClientEnds
<1>7. QED
  BY <1>5, <1>6 DEF ReadStatus

\* The body starts, of chunks or plain.
LEMMA BodyStarts ==
  ASSUME HttpAssumption, ClientInv, where = "headers", UNCHANGED <<peer, stream, open, chunked, left, body, answer>>,
         where' = BodyPart(chunked), inbox' \in Seq(Tokens), body = <<>>,
         broke' # "head" =>
           IF peer.long
           THEN Coming(Due', broke', <<Token("rest", 0)>> \o (<<Token("blank", 0)>> \o Rest(peer)))
           ELSE IF chunked THEN Coming(Due', broke', LastChunks(peer.sizes, Len(peer.sizes)))
           ELSE Coming(Due', broke', Bytes(0, Total(peer))),
         broke' = "head" /\ chunked => Coming(Due', broke', Afterwards(peer))
  PROVE  ClientInv'
<1>1. /\ peer.sizes \in Sizes /\ Len(peer.sizes) \in Nat /\ Upto(peer.sizes, 0) = 0 /\ Total(peer) \in Nat
      /\ peer \in Answers
  <2>1. peer.sizes \in Sizes /\ peer \in Answers
    BY AnswerIs DEF ClientInv, ClientTypes
  <2>2. Len(peer.sizes) \in Nat /\ Len(peer.sizes) \in 0 .. Len(peer.sizes)
    BY <2>1 DEF Sizes
  <2>3. QED
    BY <2>1, <2>2, UptoIs DEF Total
<1>2. where' = "size" <=> chunked
  BY DEF BodyPart
<1>3. where' = "plain" <=> ~chunked
  BY DEF BodyPart
<1>4. where' \in {"size", "plain"}
  BY DEF BodyPart
<1>5. body' = Bytes(0, 0)
  BY BytesFollow
<1>6. AtSize'
  <2>1. SUFFICES ASSUME where' = "size", broke' # "head" PROVE AtSize'
    BY DEF AtSize
  <2>2. chunked'
    BY <1>2, <2>1
  <2>3. 0 \in 0 .. Len(peer.sizes) /\ Len(peer.sizes) - 0 = Len(peer.sizes)
    BY <1>1
  <2>4. body' = Bytes(0, Upto(peer.sizes, 0))
    BY <1>1, <1>5
  <2>5. ~peer.long => Coming(Due', broke', LastChunks(peer.sizes, Len(peer.sizes) - 0))
    BY <2>1, <2>2, <2>3
  <2>6. peer.long => Coming(Due', broke', <<Token("rest", 0)>> \o (<<Token("blank", 0)>> \o Rest(peer)))
    BY <2>1
  <2>7. ~peer.long => \E k \in 0 .. Len(peer.sizes) :
         /\ body' = Bytes(0, Upto(peer.sizes, k))
         /\ Coming(Due', broke', LastChunks(peer.sizes, Len(peer.sizes) - k))
    BY <2>3, <2>4, <2>5
  <2>8. body' = <<>> /\ peer' = peer
    OBVIOUS
  <2>9. QED
    BY <2>2, <2>6, <2>7, <2>8 DEF AtSize
<1>7. AtPlain'
  <2>1. SUFFICES ASSUME where' = "plain", broke' # "head", ~peer'.long PROVE AtPlain'
    BY DEF AtPlain
  <2>2. ~chunked'
    BY <1>3, <2>1
  <2>3. Coming(Due', broke', Bytes(0, Total(peer)))
    BY <2>1, <2>2
  <2>4. Bytes(0, Total(peer)) \o <<>> = Bytes(0, Total(peer))
    BY <2>3 DEF Coming
  <2>5. 0 + Total(peer) = Total(peer) /\ Total(peer') = Total(peer) /\ 0 \in Nat
    BY <1>1
  <2>6. QED
    BY <1>1, <1>5, <2>2, <2>3, <2>4, <2>5 DEF AtPlain
<1>8. ClientTypes'
  BY <1>4 DEF ClientInv, ClientTypes
<1>9. answer = "none"
  BY DEF ClientInv, ClientTypes, ClientCounts
<1>10. ClientCounts'
  BY <1>4, <1>9 DEF ClientInv, ClientCounts
<1>11. AtCall' /\ AtStatus' /\ AtHeaders' /\ AtChunk' /\ AtCRLF' /\ AtDone'
  BY <1>4 DEF AtCall, AtStatus, AtHeaders, AtChunk, AtCRLF, AtDone
<1>12. HeadFailed'
  <2>1. Afterwards(peer') = Afterwards(peer)
    OBVIOUS
  <2>2. QED
    BY <1>2, <1>4, <2>1 DEF HeadFailed
<1>13. QED
  BY <1>6, <1>7, <1>8, <1>10, <1>11, <1>12 DEF ClientInv

\* A header line, or the end of the head.
LEMMA ClientReadsHeader ==
  ASSUME HttpAssumption, ClientInv, ReadHeader
  PROVE  ClientInv'
<1>1. /\ where = "headers" /\ UNCHANGED <<left, body, answer>>
      /\ body = <<>> /\ peer \in Answers /\ chunked \in BOOLEAN /\ left \in Nat
      /\ stream \in Seq(Tokens) /\ inbox \in Seq(Tokens)
      /\ (~open => stream = <<>>) /\ (open => broke = "no")
  BY DEF ReadHeader, ClientInv, AtHeaders, ClientTypes, ClientCounts
<1>2. /\ peer.sizes \in Sizes /\ peer.chunked \in BOOLEAN /\ peer.long \in BOOLEAN
      /\ Rest(peer) = IF peer.chunked THEN LastChunks(peer.sizes, Len(peer.sizes)) ELSE Bytes(0, Total(peer))
      /\ Rest(peer) \in Seq(Tokens) /\ Afterwards(peer) \in Seq(Tokens)
  BY <1>1, AnswerIs DEF Total
<1>3. PICK te \in Tokens : te = Token("te", 0) /\ te.kind = "te"
  BY LinesAreTokens DEF TokenKinds
<1>4. PICK b \in Tokens : b = Token("blank", 0) /\ b.kind = "blank"
  BY LinesAreTokens DEF TokenKinds
<1>5. PICK g \in Tokens : g = Token("long", 0) /\ g.kind = "long"
  BY LinesAreTokens DEF TokenKinds
<1>6. PICK rest \in Tokens : rest = Token("rest", 0)
  BY LinesAreTokens DEF TokenKinds
<1>7. PICK more \in Seq(Tokens) : more = <<rest>> \o (<<b>> \o Rest(peer))
  <2>1. <<rest>> \o (<<b>> \o Rest(peer)) \in Seq(Tokens)
    <3>1. <<b>> \o Rest(peer) \in Seq(Tokens)
      BY <1>2, LineIsSomething
    <3>2. QED
      BY <3>1, LineIsSomething
  <2>2. QED
    BY <2>1
<1>8. Afterwards(peer) = IF peer.long THEN <<g>> \o more ELSE <<b>> \o Rest(peer)
  BY <1>1, <1>4, <1>5, <1>6, <1>7, AnswerIs
<1>9. \/ peer.chunked /\ ~chunked /\ Coming(Due, broke, <<te>> \o Afterwards(peer))
      \/ chunked = peer.chunked /\ Coming(Due, broke, Afterwards(peer))
  BY <1>1, <1>3 DEF ClientInv, AtHeaders
<1>10. ASSUME NEW kinds, NextLine(kinds)
       PROVE  /\ UNCHANGED <<peer, stream, open, broke>> /\ inbox' \in Seq(Tokens) /\ inbox[1].kind \in kinds
              /\ \/ inbox[1] = te /\ peer.chunked /\ ~chunked /\ Coming(Due', broke, Afterwards(peer))
                 \/ peer.long /\ inbox[1] = g /\ chunked = peer.chunked /\ Coming(Due', broke, more)
                 \/ ~peer.long /\ inbox[1] = b /\ chunked = peer.chunked /\ Coming(Due', broke, Rest(peer))
  <2>1. Take(1) /\ UNCHANGED <<peer, stream, open, broke>> /\ inbox[1].kind \in kinds
    BY <1>10 DEF NextLine, Take, Quiet
  <2>2. CASE peer.chunked /\ ~chunked /\ Coming(Due, broke, <<te>> \o Afterwards(peer))
    <3>1. inbox[1] = te /\ Coming(Due', broke, Afterwards(peer)) /\ inbox' \in Seq(Tokens)
      BY <1>1, <1>2, <2>1, <2>2, ReadToken
    <3>2. QED
      BY <2>1, <2>2, <3>1
  <2>3. CASE chunked = peer.chunked /\ Coming(Due, broke, Afterwards(peer))
    <3>1. CASE peer.long
      <4>1. Coming(Due, broke, <<g>> \o more)
        BY <1>8, <2>3, <3>1
      <4>2. inbox[1] = g /\ Coming(Due', broke, more) /\ inbox' \in Seq(Tokens)
        BY <1>1, <2>1, <4>1, ReadToken
      <4>3. QED
        BY <2>1, <2>3, <3>1, <4>2
    <3>2. CASE ~peer.long
      <4>1. Coming(Due, broke, <<b>> \o Rest(peer))
        BY <1>8, <2>3, <3>2
      <4>2. inbox[1] = b /\ Coming(Due', broke, Rest(peer)) /\ inbox' \in Seq(Tokens)
        BY <1>1, <1>2, <2>1, <4>1, ReadToken
      <4>3. QED
        BY <2>1, <2>3, <3>2, <4>2
    <3>3. QED
      BY <3>1, <3>2
  <2>4. QED
    BY <1>9, <2>2, <2>3
<1>11. CASE NextLine({"te"}) /\ chunked' = TRUE /\ UNCHANGED where
  <2>1. /\ UNCHANGED <<peer, stream, open, broke>> /\ inbox' \in Seq(Tokens)
        /\ peer.chunked /\ Coming(Due', broke, Afterwards(peer))
    <3>1. /\ UNCHANGED <<peer, stream, open, broke>> /\ inbox' \in Seq(Tokens) /\ inbox[1].kind \in {"te"}
          /\ \/ inbox[1] = te /\ peer.chunked /\ ~chunked /\ Coming(Due', broke, Afterwards(peer))
             \/ peer.long /\ inbox[1] = g /\ chunked = peer.chunked /\ Coming(Due', broke, more)
             \/ ~peer.long /\ inbox[1] = b /\ chunked = peer.chunked /\ Coming(Due', broke, Rest(peer))
      BY <1>10, <1>11
    <3>2. QED
      BY <1>3, <1>4, <1>5, <3>1
  <2>2. chunked' = peer'.chunked
    BY <1>2, <1>11, <2>1
  <2>3. AtHeaders'
    BY <1>1, <2>1, <2>2 DEF AtHeaders
  <2>4. ClientTypes'
    BY <1>1, <1>11, <2>1 DEF ClientTypes, ClientInv
  <2>5. ClientCounts'
    BY <1>1, <1>11, <2>1 DEF ClientCounts, ClientInv
  <2>6. AtCall' /\ AtStatus' /\ AtSize' /\ AtChunk' /\ AtCRLF' /\ AtPlain' /\ AtDone'
    BY <1>1, <1>11 DEF AtCall, AtStatus, AtSize, AtChunk, AtCRLF, AtPlain, AtDone
  <2>7. HeadFailed'
    BY <1>1, <2>1 DEF HeadFailed, ClientInv
  <2>8. QED
    BY <2>3, <2>4, <2>5, <2>6, <2>7 DEF ClientInv
<1>12. CASE NextLine({"blank", "long"}) /\ where' = BodyPart(chunked) /\ UNCHANGED chunked
  <2>1. /\ UNCHANGED <<peer, stream, open, broke>> /\ inbox' \in Seq(Tokens)
        /\ chunked = peer.chunked
        /\ IF peer.long THEN Coming(Due', broke, more) ELSE Coming(Due', broke, Rest(peer))
    <3>1. /\ UNCHANGED <<peer, stream, open, broke>> /\ inbox' \in Seq(Tokens) /\ inbox[1].kind \in {"blank", "long"}
          /\ \/ inbox[1] = te /\ peer.chunked /\ ~chunked /\ Coming(Due', broke, Afterwards(peer))
             \/ peer.long /\ inbox[1] = g /\ chunked = peer.chunked /\ Coming(Due', broke, more)
             \/ ~peer.long /\ inbox[1] = b /\ chunked = peer.chunked /\ Coming(Due', broke, Rest(peer))
      BY <1>10, <1>12
    <3>2. QED
      BY <1>3, <1>4, <1>5, <3>1
  <2>2. IF peer.long
        THEN Coming(Due', broke', <<Token("rest", 0)>> \o (<<Token("blank", 0)>> \o Rest(peer)))
        ELSE IF chunked THEN Coming(Due', broke', LastChunks(peer.sizes, Len(peer.sizes)))
        ELSE Coming(Due', broke', Bytes(0, Total(peer)))
    BY <1>2, <1>4, <1>6, <1>7, <2>1
  <2>3. broke' # "head"
    BY <1>1, <2>1 DEF ClientInv, HeadFailed
  <2>4. QED
    BY <1>1, <1>12, <2>1, <2>2, <2>3, BodyStarts
<1>13. CASE NothingFor("head") /\ where' = BodyPart(chunked) /\ UNCHANGED chunked
  <2>1. /\ inbox = <<>> /\ inbox' = inbox /\ UNCHANGED <<peer, stream, open>>
    BY <1>13, NothingLeaves
  <2>2. broke' # "head" => ~open /\ broke' = broke
    BY <1>1, <1>13 DEF NothingFor, Because
  <2>3. ASSUME broke' # "head" PROVE broke' # "no" /\ Due' = <<>>
    <3>1. broke' # "no"
      <4>1. <<te>> \o Afterwards(peer) # <<>> /\ Afterwards(peer) # <<>>
        <5>1. <<te>> \o Afterwards(peer) # <<>> /\ <<g>> \o more # <<>> /\ <<b>> \o Rest(peer) # <<>>
          BY <1>2, LineIsSomething
        <5>2. QED
          BY <1>8, <5>1
      <4>2. "head" # "no"
        OBVIOUS
      <4>3. QED
        BY <1>1, <1>9, <1>13, <2>1, <4>1, <4>2, NothingBroke
    <3>2. Due' = <<>>
      BY <1>1, <2>1, <2>2, <2>3 DEF Due
    <3>3. QED
      BY <3>1, <3>2
  <2>4. LastChunks(peer.sizes, Len(peer.sizes)) \in Seq(Tokens) /\ Bytes(0, Total(peer)) \in Seq(Tokens)
    <3>1. Len(peer.sizes) \in 0 .. Len(peer.sizes)
      BY <1>2 DEF Sizes
    <3>2. Total(peer) \in Nat
      BY <1>2, <3>1, UptoIs DEF Total
    <3>3. QED
      BY <1>2, <3>1, <3>2, BytesAre, LastChunksAre
  <2>5. ASSUME broke' # "head", NEW x \in Seq(Tokens) PROVE Coming(Due', broke', x)
    BY <2>3, <2>5 DEF Coming
  <2>6. broke' # "head" =>
          IF peer.long
          THEN Coming(Due', broke', <<Token("rest", 0)>> \o (<<Token("blank", 0)>> \o Rest(peer)))
          ELSE IF chunked THEN Coming(Due', broke', LastChunks(peer.sizes, Len(peer.sizes)))
          ELSE Coming(Due', broke', Bytes(0, Total(peer)))
    BY <1>4, <1>6, <1>7, <2>4, <2>5
  <2>7. ASSUME broke' = "head", chunked PROVE Coming(Due', broke', Afterwards(peer))
    <3>1. Coming(Due, broke, Afterwards(peer)) /\ Due' = Due
      BY <1>9, <2>1, <2>7 DEF Due
    <3>2. QED
      BY <2>7, <3>1 DEF Coming
  <2>8. QED
    BY <1>1, <1>13, <2>1, <2>6, <2>7, BodyStarts
<1>14. QED
  BY <1>11, <1>12, <1>13 DEF ReadHeader

\* A chunk's size, or the end.
LEMMA ClientReadsSize ==
  ASSUME HttpAssumption, ClientInv, Modest, ReadSize
  PROVE  ClientInv'
<1>1. /\ where = "size" /\ UNCHANGED <<chunked, body>> /\ answer = "none"
      /\ peer \in Answers /\ chunked \in BOOLEAN /\ left \in Nat /\ open \in BOOLEAN
      /\ stream \in Seq(Tokens) /\ inbox \in Seq(Tokens) /\ body \in Seq(Tokens)
      /\ Len(body) <= BodyCap /\ BodyCap \in Nat /\ (~open => stream = <<>>)
  BY DEF ReadSize, ClientInv, ClientTypes, ClientCounts, HttpAssumption
<1>2. PICK l \in Nat : l = Len(peer.sizes) /\ peer.sizes \in Sizes
  <2>1. peer.sizes \in Sizes
    BY <1>1, AnswerIs
  <2>2. Len(peer.sizes) \in Nat
    BY <2>1 DEF Sizes
  <2>3. QED
    BY <2>1, <2>2
<1>3. PICK rest \in Tokens : rest = Token("rest", 0) /\ rest.n = 0
  BY LinesAreTokens DEF TokenKinds
<1>4. PICK zero \in Tokens : zero = Token("size", 0) /\ zero.n = 0
  BY LinesAreTokens DEF TokenKinds
<1>5. PICK tail \in Seq(Tokens) : tail = <<Token("blank", 0)>> \o Rest(peer)
  <2>1. Token("blank", 0) \in Tokens /\ Rest(peer) \in Seq(Tokens)
    BY <1>1, LinesAreTokens, AnswerIs DEF TokenKinds
  <2>2. <<Token("blank", 0)>> \o Rest(peer) \in Seq(Tokens)
    BY <2>1, LineIsSomething
  <2>3. QED
    BY <2>2
\* What the next line is.
<1>6. ASSUME broke # "head"
      PROVE  /\ chunked
             /\ \/ peer.long /\ body = <<>> /\ Coming(Due, broke, <<rest>> \o tail)
                \/ ~peer.long /\ body = Bytes(0, Total(peer)) /\ Coming(Due, broke, <<zero>> \o <<>>)
                \/ ~peer.long /\ \E k \in 0 .. l - 1 :
                     /\ body = Bytes(0, Upto(peer.sizes, k))
                     /\ Coming(Due, broke, LastChunks(peer.sizes, l - k))
  <2>1. /\ chunked
        /\ peer.long =>
             /\ body = <<>>
             /\ Coming(Due, broke, <<Token("rest", 0)>> \o (<<Token("blank", 0)>> \o Rest(peer)))
        /\ ~peer.long => \E k \in 0 .. Len(peer.sizes) :
             /\ body = Bytes(0, Upto(peer.sizes, k))
             /\ Coming(Due, broke, LastChunks(peer.sizes, Len(peer.sizes) - k))
    BY <1>1, <1>6 DEF ClientInv, AtSize
  <2>2. CASE peer.long
    BY <1>3, <1>5, <2>1, <2>2
  <2>3. CASE ~peer.long
    <3>1. PICK k \in 0 .. l :
            /\ body = Bytes(0, Upto(peer.sizes, k))
            /\ Coming(Due, broke, LastChunks(peer.sizes, l - k))
      BY <1>2, <2>1, <2>3
    <3>2. CASE k = l
      <4>1. l - k = 0 /\ LastChunks(peer.sizes, 0) = <<zero>>
        BY <1>2, <1>4, <3>2, LastChunksAre
      <4>2. <<zero>> \o <<>> = <<zero>>
        OBVIOUS
      <4>3. body = Bytes(0, Total(peer))
        BY <1>2, <3>1, <3>2 DEF Total
      <4>4. QED
        BY <2>1, <2>3, <3>1, <4>1, <4>2, <4>3
    <3>3. CASE k # l
      <4>1. k \in 0 .. l - 1
        BY <3>3
      <4>2. QED
        BY <2>1, <2>3, <3>1, <4>1
    <3>4. QED
      BY <3>2, <3>3
  <2>4. QED
    BY <2>2, <2>3
\* However it ends.
<1>7. broke # "head" /\ ~peer.long =>
        \E k \in 0 .. Len(peer.sizes), m \in Nat : m <= Upto(peer.sizes, k) /\ body = Bytes(0, m)
  <2>1. SUFFICES ASSUME broke # "head", ~peer.long
                 PROVE \E k \in 0 .. l, m \in Nat : m <= Upto(peer.sizes, k) /\ body = Bytes(0, m)
    BY <1>2
  <2>2. PICK k \in 0 .. l : body = Bytes(0, Upto(peer.sizes, k))
    <3>1. l \in 0 .. l
      OBVIOUS
    <3>2. QED
      BY <1>2, <1>6, <2>1, <3>1 DEF Total
  <2>3. Upto(peer.sizes, k) \in Nat
    BY <1>2, UptoIs
  <2>4. QED
    BY <2>2, <2>3
<1>8. CASE Take(1)
  <2>1. inbox # <<>> /\ inbox' = SubSeq(inbox, 1 + 1, Len(inbox)) /\ UNCHANGED <<peer, stream, open>>
    BY <1>8 DEF Take, Quiet
  <2>2. inbox' \in Seq(Tokens) /\ inbox[1].n \in Nat
    <3>1. inbox' \in Seq(Tokens)
      BY <1>1, <2>1
    <3>2. inbox[1] \in Tokens
      BY <1>1, <2>1
    <3>3. QED
      BY <3>1, <3>2 DEF Tokens
  <2>3. CASE inbox[1].n = 0 /\ Answered("ok") /\ UNCHANGED <<left, broke>>
    <3>1. where' = "done" /\ answer' = "ok"
      BY <2>3 DEF Answered
    <3>2. ASSUME broke' # "head", ~peer'.long PROVE chunked /\ body = Bytes(0, Total(peer))
      <4>1. broke # "head" /\ ~peer.long
        BY <2>1, <2>3, <3>2
      <4>2. CASE \E k \in 0 .. l - 1 :
                   /\ body = Bytes(0, Upto(peer.sizes, k))
                   /\ Coming(Due, broke, LastChunks(peer.sizes, l - k))
        <5>1. PICK k \in 0 .. l - 1 : Coming(Due, broke, LastChunks(peer.sizes, l - k))
          BY <4>2
        <5>2. PICK t, z : /\ t = Token("size", peer.sizes[k + 1]) /\ peer.sizes[k + 1] \in Nat \ {0}
                          /\ t \in Tokens /\ z \in Seq(Tokens) /\ LastChunks(peer.sizes, l - k) = <<t>> \o z
          <6>1. /\ peer.sizes[k + 1] \in Nat \ {0}
                /\ Token("size", peer.sizes[k + 1]) \in Tokens
                /\ Bytes(Upto(peer.sizes, k), peer.sizes[k + 1])
                     \o (CRLF \o LastChunks(peer.sizes, l - (k + 1))) \in Seq(Tokens)
                /\ LastChunks(peer.sizes, l - k) = <<Token("size", peer.sizes[k + 1])>>
                     \o (Bytes(Upto(peer.sizes, k), peer.sizes[k + 1])
                         \o (CRLF \o LastChunks(peer.sizes, l - (k + 1))))
            BY <1>2, NextChunk
          <6>2. QED
            BY <6>1
        <5>3. inbox[1] = t
          BY <1>1, <1>8, <5>1, <5>2, ReadToken
        <5>4. QED
          BY <2>3, <5>2, <5>3 DEF Token
      <4>3. QED
        BY <1>6, <4>1, <4>2
    <3>3. Total(peer) \in Nat
      BY <1>2, UptoIs DEF Total, Sizes
    <3>4. AtDone'
      <4>1. Total(peer') = Total(peer)
        BY <2>1
      <4>2. QED
        BY <1>1, <3>2, <3>3, <4>1 DEF AtDone
    <3>5. QED
      BY <1>1, <2>1, <2>2, <2>3, <3>1, <3>4, ClientEnds
  <2>4. CASE /\ inbox[1].n # 0 /\ (Len(body) + inbox[1].n) % SizeValues <= BodyCap
             /\ where' = "chunk" /\ left' = inbox[1].n /\ UNCHANGED <<answer, broke>>
    <3>1. broke # "head"
      <4>1. SUFFICES ASSUME broke = "head" PROVE FALSE
        OBVIOUS
      <4>2. PICK t \in Tokens, z \in Seq(Tokens) : t.n = 0 /\ Coming(Due, broke, <<t>> \o z)
        <5>1. Coming(Due, broke, Afterwards(peer))
          BY <1>1, <4>1 DEF ClientInv, HeadFailed
        <5>2. PICK g \in Tokens : g = Token("long", 0) /\ g.n = 0
          BY LinesAreTokens DEF TokenKinds
        <5>3. PICK b \in Tokens : b = Token("blank", 0) /\ b.n = 0
          BY LinesAreTokens DEF TokenKinds
        <5>4. <<rest>> \o tail \in Seq(Tokens) /\ Rest(peer) \in Seq(Tokens)
          BY <1>1, AnswerIs, LineIsSomething
        <5>5. Afterwards(peer) = IF peer.long THEN <<g>> \o (<<rest>> \o tail) ELSE <<b>> \o Rest(peer)
          BY <1>1, <1>3, <1>5, <5>2, <5>3, AnswerIs
        <5>6. QED
          BY <5>1, <5>2, <5>3, <5>4, <5>5
      <4>3. inbox[1] = t
        BY <1>1, <1>8, <4>2, ReadToken
      <4>4. QED
        BY <2>4, <4>2, <4>3
    <3>2. /\ chunked /\ ~peer.long
          /\ Len(body) + left' < SizeValues
          /\ \E k \in 0 .. Len(peer.sizes) :
               /\ Len(body) + left' = Upto(peer.sizes, k) /\ body = Bytes(0, Len(body))
               /\ Coming(Due', broke, Bytes(Len(body), left')
                             \o (CRLF \o LastChunks(peer.sizes, Len(peer.sizes) - k)))
      <4>1. broke # "head"
        BY <3>1
      <4>2. ~(peer.long /\ Coming(Due, broke, <<rest>> \o tail))
        BY <1>1, <1>3, <1>8, <2>4, ReadToken
      <4>3. ~Coming(Due, broke, <<zero>> \o <<>>)
        BY <1>1, <1>4, <1>8, <2>4, LinesAreTokens, ReadToken
      <4>4. PICK k \in 0 .. l - 1 :
              /\ body = Bytes(0, Upto(peer.sizes, k))
              /\ Coming(Due, broke, LastChunks(peer.sizes, l - k))
        BY <1>6, <4>1, <4>2, <4>3
      <4>5. PICK more : /\ more = LastChunks(peer.sizes, l - (k + 1)) /\ k + 1 \in 1 .. l
              /\ peer.sizes[k + 1] \in Nat \ {0} /\ Upto(peer.sizes, k) \in Nat
              /\ Upto(peer.sizes, k + 1) = Upto(peer.sizes, k) + peer.sizes[k + 1]
              /\ LastChunks(peer.sizes, l - k) = <<Token("size", peer.sizes[k + 1])>>
                   \o (Bytes(Upto(peer.sizes, k), peer.sizes[k + 1]) \o (CRLF \o more))
              /\ Token("size", peer.sizes[k + 1]) \in Tokens
              /\ Bytes(Upto(peer.sizes, k), peer.sizes[k + 1]) \o (CRLF \o more) \in Seq(Tokens)
        BY <1>2, NextChunk
      <4>6. PICK t : t = Token("size", peer.sizes[k + 1])
        OBVIOUS
      <4>7. PICK z : z = Bytes(Upto(peer.sizes, k), peer.sizes[k + 1]) \o (CRLF \o more)
        OBVIOUS
      <4>8. t \in Tokens /\ z \in Seq(Tokens) /\ Coming(Due, broke, <<t>> \o z)
        BY <4>4, <4>5, <4>6, <4>7
      <4>9. inbox[1] = t /\ Coming(Due', broke, z)
        BY <1>1, <1>8, <4>8, ReadToken
      <4>10. left' = peer.sizes[k + 1]
        BY <2>4, <4>6, <4>9 DEF Token
      <4>11. Len(body) = Upto(peer.sizes, k)
        BY <4>4, <4>5, BytesAre
      <4>12. k + 1 \in 0 .. Len(peer.sizes)
        BY <1>2, <4>5
      <4>13. ~peer.long /\ chunked
        BY <1>6, <4>1, <4>2
      <4>14. Len(body) + left' = Upto(peer.sizes, k + 1) /\ body = Bytes(0, Len(body))
        BY <4>4, <4>5, <4>10, <4>11
      <4>15. Coming(Due', broke, Bytes(Len(body), left') \o (CRLF \o LastChunks(peer.sizes, Len(peer.sizes) - (k + 1))))
        BY <1>2, <4>5, <4>7, <4>9, <4>10, <4>11
      <4>16. Len(body) + left' < SizeValues
        <5>1. k + 1 \in DOMAIN peer.sizes
          BY <1>2, <4>5 DEF Sizes
        <5>2. BodyCap + peer.sizes[k + 1] < SizeValues
          BY <5>1 DEF Modest
        <5>3. SizeValues \in Nat
          BY DEF HttpAssumption
        <5>4. PICK n, m \in Nat : n = Len(body) /\ m = left' /\ m = peer.sizes[k + 1]
          BY <1>1, <4>5, <4>10
        <5>5. n <= BodyCap /\ BodyCap + m < SizeValues /\ BodyCap \in Nat
          BY <1>1, <5>2, <5>4
        <5>6. n + m < SizeValues
          BY <5>3, <5>5
        <5>7. QED
          BY <5>4, <5>6
      <4>17. QED
        BY <4>12, <4>13, <4>14, <4>15, <4>16
\* The sum does not wrap, and so it is the sum that was held against the buffer.
    <3>3. Len(body) + left' <= BodyCap
      <4>1. PICK sum \in Nat : sum = Len(body) + left' /\ sum % SizeValues <= BodyCap
        BY <1>1, <2>2, <2>4
      <4>2. sum \in 0 .. SizeValues - 1 /\ SizeValues \in Nat \ {0}
        BY <3>2, <4>1 DEF HttpAssumption
      <4>3. sum % SizeValues = sum
        BY <4>2
      <4>4. QED
        BY <4>1, <4>3
    <3>4. AtChunk'
      <4>1. body' = body /\ peer' = peer /\ broke' = broke /\ chunked' = chunked
        BY <1>1, <2>1, <2>4
      <4>2. left' # 0 /\ Len(body') + left' <= BodyCap
        BY <2>4, <3>3, <4>1
      <4>3. QED
        BY <3>2, <4>1, <4>2 DEF AtChunk
    <3>5. ClientTypes'
      BY <1>1, <2>1, <2>2, <2>4 DEF ClientTypes
    <3>6. ClientCounts'
      BY <1>1, <2>1, <2>4 DEF ClientCounts
    <3>7. AtCall' /\ AtStatus' /\ AtHeaders' /\ AtSize' /\ AtCRLF' /\ AtPlain' /\ AtDone'
      BY <2>4 DEF AtCall, AtStatus, AtHeaders, AtSize, AtCRLF, AtPlain, AtDone
    <3>8. HeadFailed'
      BY <2>4, <3>1 DEF HeadFailed
    <3>9. QED
      BY <3>4, <3>5, <3>6, <3>7, <3>8 DEF ClientInv
  <2>5. CASE Answered("failed") /\ broke' = Because("full") /\ UNCHANGED left
    <3>1. where' = "done" /\ answer' = "failed" /\ broke' # "no" /\ (broke' # "head" => broke # "head")
      BY <2>5 DEF Answered, Because
    <3>2. AtDone'
      BY <1>1, <1>7, <2>1, <3>1, FailedHasTheFront
    <3>3. QED
      BY <1>1, <2>1, <2>2, <2>5, <3>1, <3>2, ClientEnds
  <2>6. \/ inbox[1].n = 0 /\ Answered("ok") /\ UNCHANGED <<left, broke>>
        \/ Answered("failed") /\ broke' = Because("full") /\ UNCHANGED left
        \/ /\ (Len(body) + inbox[1].n) % SizeValues <= BodyCap /\ inbox[1].n # 0
           /\ where' = "chunk" /\ left' = inbox[1].n /\ UNCHANGED <<answer, broke>>
        \/ NothingCame
    <3>1. (Len(body) + inbox[1].n) % SizeValues \in Int
      <4>1. Len(body) + inbox[1].n \in Nat /\ SizeValues \in Nat \ {0}
        BY <1>1, <2>2 DEF HttpAssumption
      <4>2. QED
        BY <4>1
    <3>2. QED
      BY <1>1, <2>2, <3>1 DEF ReadSize
  <2>7. ~NothingCame
    BY <2>1 DEF NothingCame, NothingFor
  <2>8. QED
    BY <2>3, <2>4, <2>5, <2>6, <2>7
<1>9. CASE NothingCame /\ Answered("failed") /\ UNCHANGED left
  <2>1. where' = "done" /\ answer' = "failed" /\ NothingFor("late")
    BY <1>9 DEF Answered, NothingCame
  <2>2. /\ inbox = <<>> /\ inbox' = inbox /\ UNCHANGED <<peer, stream, open>>
        /\ broke # "no" => broke' = broke
    BY <2>1, NothingLeaves
  <2>3. broke' # "no"
    <3>1. CASE broke = "head"
      BY <2>2, <3>1
    <3>2. CASE broke # "head"
      <4>1. PICK x : x # <<>> /\ Coming(Due, broke, x)
        <5>1. <<rest>> \o tail # <<>> /\ <<zero>> \o <<>> # <<>>
          BY LineIsSomething, LinesAreTokens
        <5>2. ASSUME NEW k \in 0 .. l - 1 PROVE LastChunks(peer.sizes, l - k) # <<>>
          <6>1. PICK t, z : t \in Tokens /\ z \in Seq(Tokens) /\ LastChunks(peer.sizes, l - k) = <<t>> \o z
            <7>1. /\ Token("size", peer.sizes[k + 1]) \in Tokens
                  /\ Bytes(Upto(peer.sizes, k), peer.sizes[k + 1])
                       \o (CRLF \o LastChunks(peer.sizes, l - (k + 1))) \in Seq(Tokens)
                  /\ LastChunks(peer.sizes, l - k) = <<Token("size", peer.sizes[k + 1])>>
                       \o (Bytes(Upto(peer.sizes, k), peer.sizes[k + 1])
                           \o (CRLF \o LastChunks(peer.sizes, l - (k + 1))))
              BY <1>2, NextChunk
            <7>2. QED
              BY <7>1
          <6>2. QED
            BY <6>1, LineIsSomething
        <5>3. QED
          BY <1>6, <3>2, <5>1, <5>2
      <4>2. "late" # "no"
        OBVIOUS
      <4>3. QED
        BY <1>1, <2>1, <2>2, <4>1, <4>2, NothingBroke
    <3>3. QED
      BY <3>1, <3>2
  <2>4. AtDone'
    BY <1>1, <1>7, <2>1, <2>2, FailedHasTheFront
  <2>5. QED
    BY <1>1, <1>9, <2>1, <2>2, <2>3, <2>4, ClientEnds
<1>10. QED
  BY <1>8, <1>9 DEF ReadSize

\* What a receive may take.
LEMMA ClipIs ==
  ASSUME NEW n \in Nat, inbox \in Seq(Tokens)
  PROVE  Clip(n) \in Nat /\ Clip(n) <= n /\ Clip(n) <= Len(inbox)
BY DEF Clip

\* A receive appends to the body.
LEMMA TakeAppends ==
  ASSUME inbox \in Seq(Tokens), body \in Seq(Tokens), NEW n \in Nat, n <= Len(inbox), Take(n),
         body' = body \o SubSeq(inbox, 1, n)
  PROVE  /\ n > 0 /\ inbox # <<>> /\ UNCHANGED <<side, peer, stream, open, serving, stopping, clients>>
         /\ inbox' \in Seq(Tokens) /\ body' \in Seq(Tokens) /\ Len(body') = Len(body) + n
<1>1. n > 0 /\ inbox # <<>> /\ UNCHANGED <<side, peer, stream, open, serving, stopping, clients>>
      /\ inbox' = SubSeq(inbox, n + 1, Len(inbox))
  BY DEF Take, Quiet
<1>2. inbox' \in Seq(Tokens)
  BY <1>1
<1>3. PICK s \in Seq(Tokens) : s = SubSeq(inbox, 1, n) /\ Len(s) = n
  <2>1. SubSeq(inbox, 1, n) \in Seq(Tokens) /\ Len(SubSeq(inbox, 1, n)) = n
    OBVIOUS
  <2>2. QED
    BY <2>1
<1>4. body' = body \o s
  BY <1>3
<1>5. body' \in Seq(Tokens) /\ Len(body') = Len(body) + Len(s)
  <2>1. PICK b \in Seq(Tokens) : b = body
    OBVIOUS
  <2>2. b \o s \in Seq(Tokens) /\ Len(b \o s) = Len(b) + Len(s)
    OBVIOUS
  <2>3. QED
    BY <1>4, <2>1, <2>2
<1>6. QED
  BY <1>1, <1>2, <1>3, <1>5

\* And what it appends follows on what is there.
LEMMA TakeFollows ==
  ASSUME inbox \in Seq(Tokens), stream \in Seq(Tokens), NEW m \in Nat, NEW w \in Nat,
         body = Bytes(0, m), NEW z \in Seq(Tokens), Coming(Due, broke, Bytes(m, w) \o z),
         NEW n \in Nat, n <= w, n <= Len(inbox), Take(n), body' = body \o SubSeq(inbox, 1, n)
  PROVE  body' = Bytes(0, m + n) /\ Coming(Due', broke, Bytes(m + n, w - n) \o z)
<1>1. SubSeq(inbox, 1, n) = Bytes(m, n) /\ Coming(Due', broke, Bytes(m + n, w - n) \o z)
  BY ReadBytes
<1>2. PICK o \in Nat : o = 0
  OBVIOUS
<1>3. Bytes(o, m) \o Bytes(o + m, n) = Bytes(o, m + n)
  BY BytesFollow
<1>4. o + m = m
  BY <1>2
<1>5. body' = Bytes(o, m) \o Bytes(m, n)
  BY <1>1, <1>2
<1>6. QED
  BY <1>1, <1>2, <1>3, <1>4, <1>5

\* A piece of a chunk.
LEMMA ClientReadsChunk ==
  ASSUME HttpAssumption, ClientInv, ReadChunk
  PROVE  ClientInv'
<1>1. /\ where = "chunk" /\ UNCHANGED chunked /\ answer = "none"
      /\ peer \in Answers /\ chunked \in BOOLEAN /\ left \in Nat /\ open \in BOOLEAN
      /\ stream \in Seq(Tokens) /\ inbox \in Seq(Tokens) /\ body \in Seq(Tokens)
      /\ Len(body) <= BodyCap /\ BodyCap \in Nat /\ (~open => stream = <<>>)
      /\ left # 0 /\ Len(body) + left <= BodyCap
  BY DEF ReadChunk, ClientInv, ClientTypes, ClientCounts, AtChunk, HttpAssumption
<1>2. PICK l \in Nat : l = Len(peer.sizes) /\ peer.sizes \in Sizes
  <2>1. peer.sizes \in Sizes
    BY <1>1, AnswerIs
  <2>2. Len(peer.sizes) \in Nat
    BY <2>1 DEF Sizes
  <2>3. QED
    BY <2>1, <2>2
<1>3. ASSUME broke # "head"
      PROVE  /\ chunked /\ ~peer.long
             /\ \E k \in 0 .. l, z \in Seq(Tokens), m \in Nat :
                  /\ z = CRLF \o LastChunks(peer.sizes, l - k) /\ m = Len(body)
                  /\ m + left = Upto(peer.sizes, k) /\ body = Bytes(0, m)
                  /\ Coming(Due, broke, Bytes(m, left) \o z)
  <2>1. chunked /\ ~peer.long
    BY <1>1, <1>3 DEF ClientInv, AtChunk
  <2>2. PICK k \in 0 .. l :
          /\ Len(body) + left = Upto(peer.sizes, k) /\ body = Bytes(0, Len(body))
          /\ Coming(Due, broke, Bytes(Len(body), left) \o (CRLF \o LastChunks(peer.sizes, l - k)))
    BY <1>1, <1>2, <1>3 DEF ClientInv, AtChunk
  <2>3. PICK z : z = CRLF \o LastChunks(peer.sizes, l - k)
    OBVIOUS
  <2>4. z \in Seq(Tokens)
    <3>1. l - k \in 0 .. l
      OBVIOUS
    <3>2. PICK c \in Seq(Tokens) : c = LastChunks(peer.sizes, l - k)
      <4>1. LastChunks(peer.sizes, l - k) \in Seq(Tokens)
        BY <1>2, <3>1, LastChunksAre
      <4>2. QED
        BY <4>1
    <3>3. CRLF \in Seq(Tokens)
      BY DEF CRLF, Token, Tokens, TokenKinds
    <3>4. QED
      BY <2>3, <3>2, <3>3
  <2>5. Len(body) \in Nat
    BY <1>1
  <2>6. QED
    BY <2>1, <2>2, <2>3, <2>4, <2>5
<1>4. CASE /\ Take(Clip(left)) /\ body' = body \o SubSeq(inbox, 1, Clip(left))
           /\ left' = left - Clip(left) /\ where' = IF left = Clip(left) THEN "crlf" ELSE "chunk"
           /\ UNCHANGED <<answer, broke>>
  <2>1. PICK n \in Nat : n = Clip(left) /\ n <= left /\ n <= Len(inbox)
    BY <1>1, ClipIs
  <2>2. /\ Take(n) /\ body' = body \o SubSeq(inbox, 1, n) /\ left' = left - n
        /\ where' = IF left = n THEN "crlf" ELSE "chunk"
    BY <1>4, <2>1
  <2>3. /\ n > 0 /\ UNCHANGED <<peer, stream, open>> /\ inbox' \in Seq(Tokens)
        /\ body' \in Seq(Tokens) /\ Len(body') = Len(body) + n
    BY <1>1, <2>1, <2>2, TakeAppends
  <2>4. Len(body) \in Nat /\ left' \in Nat /\ Len(body') + left' = Len(body) + left /\ Len(body') <= BodyCap
    <3>1. Len(body) \in Nat /\ left' = left - n /\ Len(body') = Len(body) + n
      BY <1>1, <2>2, <2>3
    <3>2. left \in Nat /\ BodyCap \in Nat /\ Len(body) + left <= BodyCap
      BY <1>1
    <3>3. QED
      BY <2>1, <3>1, <3>2
  <2>5. ASSUME broke' # "head"
        PROVE  /\ chunked' /\ ~peer'.long
               /\ \E k \in 0 .. l, z \in Seq(Tokens) :
                    /\ z = CRLF \o LastChunks(peer.sizes, l - k)
                    /\ Len(body') + left' = Upto(peer.sizes, k) /\ body' = Bytes(0, Len(body'))
                    /\ Coming(Due', broke', Bytes(Len(body'), left') \o z)
    <3>1. broke # "head"
      BY <1>4, <2>5
    <3>2. PICK k \in 0 .. l, z \in Seq(Tokens), m \in Nat :
                  /\ z = CRLF \o LastChunks(peer.sizes, l - k) /\ m = Len(body)
                  /\ m + left = Upto(peer.sizes, k) /\ body = Bytes(0, m)
                  /\ Coming(Due, broke, Bytes(m, left) \o z)
      BY <1>3, <3>1
    <3>3. body' = Bytes(0, m + n) /\ Coming(Due', broke, Bytes(m + n, left - n) \o z)
      <4>1. PICK w \in Nat : w = left
        BY <1>1
      <4>2. /\ inbox \in Seq(Tokens) /\ stream \in Seq(Tokens) /\ body = Bytes(0, m)
            /\ Coming(Due, broke, Bytes(m, w) \o z) /\ n <= w /\ n <= Len(inbox)
            /\ Take(n) /\ body' = body \o SubSeq(inbox, 1, n)
        BY <1>1, <2>1, <2>2, <3>2, <4>1
      <4>3. body' = Bytes(0, m + n) /\ Coming(Due', broke, Bytes(m + n, w - n) \o z)
        BY <4>2, TakeFollows
      <4>4. QED
        BY <4>1, <4>3
    <3>4. m + n = Len(body')
      BY <2>3, <3>2
    <3>5. broke' = broke /\ chunked' = chunked /\ peer' = peer
      BY <1>1, <1>4, <2>3
    <3>6. Coming(Due', broke', Bytes(Len(body'), left') \o z) /\ body' = Bytes(0, Len(body'))
      BY <2>2, <3>3, <3>4, <3>5
    <3>7. Len(body') + left' = Upto(peer.sizes, k)
      BY <2>4, <3>2
    <3>8. QED
      BY <1>3, <3>1, <3>2, <3>5, <3>6, <3>7
  <2>6. ClientTypes'
    BY <1>1, <1>4, <2>2, <2>3, <2>4 DEF ClientTypes
  <2>7. ClientCounts'
    BY <1>1, <1>4, <2>2, <2>3, <2>4 DEF ClientCounts
  <2>8. AtChunk'
    <3>1. SUFFICES ASSUME where' = "chunk" PROVE AtChunk'
      BY DEF AtChunk
    <3>2. left' # 0
      BY <1>1, <2>1, <2>2, <3>1
    <3>3. Len(body') + left' <= BodyCap
      BY <1>1, <2>4
    <3>4. peer'.sizes = peer.sizes /\ Len(peer'.sizes) = l
      BY <1>2, <2>3
    <3>5. QED
      BY <2>5, <3>2, <3>3, <3>4 DEF AtChunk
  <2>9. AtCRLF'
    <3>1. SUFFICES ASSUME where' = "crlf", broke' # "head" PROVE AtCRLF'
      BY DEF AtCRLF
    <3>2. left' = 0
      BY <1>1, <2>1, <2>2, <3>1
    <3>3. PICK k \in 0 .. l, z \in Seq(Tokens) :
            /\ z = CRLF \o LastChunks(peer.sizes, l - k)
            /\ Len(body') + left' = Upto(peer.sizes, k) /\ body' = Bytes(0, Len(body'))
            /\ Coming(Due', broke', Bytes(Len(body'), left') \o z)
      BY <2>5, <3>1
    <3>4. PICK m \in Nat : m = Len(body')
      BY <2>3, <2>4, <1>1
    <3>5. Bytes(m, 0) = <<>> /\ <<>> \o z = z
      <4>1. Bytes(m, 0) = <<>>
        BY BytesFollow
      <4>2. QED
        BY <4>1
    <3>6. Coming(Due', broke', z)
      BY <3>2, <3>3, <3>4, <3>5
    <3>7. m = Upto(peer.sizes, k) /\ body' = Bytes(0, m)
      BY <3>2, <3>3, <3>4
    <3>8. peer'.sizes = peer.sizes /\ Len(peer'.sizes) = l
      BY <1>2, <2>3
    <3>9. QED
      BY <2>5, <3>1, <3>3, <3>6, <3>7, <3>8 DEF AtCRLF
  <2>10. AtCall' /\ AtStatus' /\ AtHeaders' /\ AtSize' /\ AtPlain' /\ AtDone'
    BY <2>2 DEF AtCall, AtStatus, AtHeaders, AtSize, AtPlain, AtDone
  <2>11. HeadFailed'
    BY <1>1, <1>4 DEF ClientInv, HeadFailed
  <2>12. QED
    BY <2>6, <2>7, <2>8, <2>9, <2>10, <2>11 DEF ClientInv
<1>5. CASE NothingCame /\ Answered("failed") /\ UNCHANGED <<left, body>>
  <2>1. where' = "done" /\ answer' = "failed" /\ NothingFor("late")
    BY <1>5 DEF Answered, NothingCame
  <2>2. /\ inbox = <<>> /\ inbox' = inbox /\ UNCHANGED <<peer, stream, open>>
        /\ broke # "no" => broke' = broke
    BY <2>1, NothingLeaves
  <2>3. broke' # "no"
    <3>1. CASE broke = "head"
      BY <2>2, <3>1
    <3>2. CASE broke # "head"
      <4>1. PICK z \in Seq(Tokens), m \in Nat : Coming(Due, broke, Bytes(m, left) \o z)
        BY <1>3, <3>2
      <4>2. PICK b \in Seq(Tokens) : b = Bytes(m, left) /\ Len(b) = left
        <5>1. Bytes(m, left) \in Seq(Tokens) /\ Len(Bytes(m, left)) = left
          BY <1>1, BytesAre
        <5>2. QED
          BY <5>1
      <4>3. Len(b \o z) = Len(b) + Len(z)
        OBVIOUS
      <4>4. b \o z # <<>>
        BY <1>1, <4>2, <4>3
      <4>5. "late" # "no"
        OBVIOUS
      <4>6. QED
        BY <1>1, <2>1, <2>2, <4>1, <4>2, <4>4, <4>5, NothingBroke
    <3>3. QED
      BY <3>1, <3>2
  <2>4. broke' # "head" /\ ~peer.long =>
          \E k \in 0 .. Len(peer.sizes), m \in Nat : m <= Upto(peer.sizes, k) /\ body = Bytes(0, m)
    <3>1. SUFFICES ASSUME broke' # "head"
                   PROVE \E k \in 0 .. l, m \in Nat : m <= Upto(peer.sizes, k) /\ body = Bytes(0, m)
      BY <1>2
    <3>2. broke # "head"
      BY <2>2, <3>1
    <3>3. PICK k \in 0 .. l, m \in Nat : m + left = Upto(peer.sizes, k) /\ body = Bytes(0, m)
      BY <1>3, <3>2
    <3>4. m <= Upto(peer.sizes, k)
      BY <1>1, <3>3
    <3>5. QED
      BY <3>3, <3>4
  <2>5. body' = body /\ left' \in Nat /\ inbox' \in Seq(Tokens)
    BY <1>1, <1>5, <2>2
  <2>6. AtDone'
    BY <1>1, <2>1, <2>2, <2>4, <2>5, FailedHasTheFront
  <2>7. QED
    BY <1>1, <1>5, <2>1, <2>2, <2>3, <2>5, <2>6, ClientEnds
<1>6. QED
  BY <1>4, <1>5 DEF ReadChunk

\* The first bytes of some more.
LEMMA FrontIsPrefix ==
  ASSUME NEW n \in Nat, NEW total \in Nat, n <= total
  PROVE  SQ!IsPrefix(Bytes(0, n), Bytes(0, total))
<1>1. PICK a \in Seq(Tokens) : a = Bytes(0, n) /\ Len(a) = n /\ \A i \in 1 .. n : a[i] = Token("byte", 0 + i)
  <2>1. Bytes(0, n) \in Seq(Tokens) /\ Len(Bytes(0, n)) = n /\ \A i \in 1 .. n : Bytes(0, n)[i] = Token("byte", 0 + i)
    BY BytesAre
  <2>2. QED
    BY <2>1
<1>2. PICK b \in Seq(Tokens) : b = Bytes(0, total) /\ Len(b) = total /\ \A i \in 1 .. total : b[i] = Token("byte", 0 + i)
  <2>1. /\ Bytes(0, total) \in Seq(Tokens) /\ Len(Bytes(0, total)) = total
        /\ \A i \in 1 .. total : Bytes(0, total)[i] = Token("byte", 0 + i)
    BY BytesAre
  <2>2. QED
    BY <2>1
<1>3. \A i \in 1 .. n : a[i] = b[i]
  BY <1>1, <1>2
<1>4. SQ!IsPrefix(a, b)
  BY <1>1, <1>2, <1>3 DEF SQ!IsPrefix
<1>5. QED
  BY <1>1, <1>2, <1>4

\* The two bytes after a chunk.
LEMMA ClientReadsCRLF ==
  ASSUME HttpAssumption, ClientInv, ReadCRLF
  PROVE  ClientInv'
<1>1. /\ where = "crlf" /\ UNCHANGED <<chunked, left, body>> /\ answer = "none"
      /\ peer \in Answers /\ chunked \in BOOLEAN /\ left \in Nat /\ open \in BOOLEAN
      /\ stream \in Seq(Tokens) /\ inbox \in Seq(Tokens) /\ body \in Seq(Tokens)
      /\ Len(body) <= BodyCap /\ (~open => stream = <<>>)
  BY DEF ReadCRLF, ClientInv, ClientTypes, ClientCounts
<1>2. PICK l \in Nat : l = Len(peer.sizes) /\ peer.sizes \in Sizes
  <2>1. peer.sizes \in Sizes
    BY <1>1, AnswerIs
  <2>2. Len(peer.sizes) \in Nat
    BY <2>1 DEF Sizes
  <2>3. QED
    BY <2>1, <2>2
<1>3. PICK y \in Seq(Tokens) : y = CRLF /\ Len(y) = 2
  <2>1. CRLF \in Seq(Tokens) /\ Len(CRLF) = 2
    BY DEF CRLF, Token, Tokens, TokenKinds
  <2>2. QED
    BY <2>1
<1>4. ASSUME broke # "head"
      PROVE  /\ chunked /\ ~peer.long
             /\ \E k \in 0 .. l, z \in Seq(Tokens) :
                  /\ z = LastChunks(peer.sizes, l - k) /\ body = Bytes(0, Upto(peer.sizes, k))
                  /\ Coming(Due, broke, y \o z)
  <2>1. chunked /\ ~peer.long
    BY <1>1, <1>4 DEF ClientInv, AtCRLF
  <2>2. PICK k \in 0 .. l :
          /\ body = Bytes(0, Upto(peer.sizes, k))
          /\ Coming(Due, broke, CRLF \o LastChunks(peer.sizes, l - k))
    BY <1>1, <1>2, <1>4 DEF ClientInv, AtCRLF
  <2>3. l - k \in 0 .. l
    OBVIOUS
  <2>4. LastChunks(peer.sizes, l - k) \in Seq(Tokens)
    BY <1>2, <2>3, LastChunksAre
  <2>5. QED
    BY <1>3, <2>1, <2>2, <2>4
<1>5. broke # "head" /\ ~peer.long =>
        \E k \in 0 .. Len(peer.sizes), m \in Nat : m <= Upto(peer.sizes, k) /\ body = Bytes(0, m)
  <2>1. SUFFICES ASSUME broke # "head"
                 PROVE \E k \in 0 .. l, m \in Nat : m <= Upto(peer.sizes, k) /\ body = Bytes(0, m)
    BY <1>2
  <2>2. PICK k \in 0 .. l : body = Bytes(0, Upto(peer.sizes, k))
    BY <1>4, <2>1
  <2>3. Upto(peer.sizes, k) \in Nat
    BY <1>2, UptoIs
  <2>4. QED
    BY <2>2, <2>3
<1>6. CASE Take(Clip(2)) /\ Clip(2) = 2 /\ where' = "size" /\ UNCHANGED <<answer, broke>>
  <2>1. Take(2) /\ 2 <= Len(inbox)
    BY <1>1, <1>6, ClipIs
  <2>2. inbox' = SubSeq(inbox, 2 + 1, Len(inbox)) /\ UNCHANGED <<peer, stream, open>>
    BY <2>1 DEF Take, Quiet
  <2>3. inbox' \in Seq(Tokens)
    BY <1>1, <2>1, <2>2
  <2>4. AtSize'
    <3>1. SUFFICES ASSUME broke' # "head" PROVE AtSize'
      BY DEF AtSize
    <3>2. broke # "head"
      BY <1>6, <3>1
    <3>3. PICK k \in 0 .. l, z \in Seq(Tokens) :
            /\ z = LastChunks(peer.sizes, l - k) /\ body = Bytes(0, Upto(peer.sizes, k))
            /\ Coming(Due, broke, y \o z)
      BY <1>4, <3>2
    <3>4. PICK n \in Nat : n = 2
      OBVIOUS
    <3>5. n = Len(y) /\ n <= Len(inbox) /\ inbox' = SubSeq(inbox, n + 1, Len(inbox)) /\ stream' = stream
      BY <1>3, <2>1, <2>2, <3>4
    <3>6. Coming(Due', broke, z)
      BY <1>1, <3>3, <3>5, ReadFront
    <3>7. peer' = peer /\ chunked' = chunked /\ body' = body /\ broke' = broke
      BY <1>1, <1>6, <2>2
    <3>8. QED
      BY <1>2, <1>4, <3>2, <3>3, <3>6, <3>7 DEF AtSize
  <2>5. ClientTypes'
    BY <1>1, <1>6, <2>2, <2>3 DEF ClientTypes
  <2>6. ClientCounts'
    BY <1>1, <1>6, <2>2 DEF ClientCounts
  <2>7. AtCall' /\ AtStatus' /\ AtHeaders' /\ AtChunk' /\ AtCRLF' /\ AtPlain' /\ AtDone'
    BY <1>6 DEF AtCall, AtStatus, AtHeaders, AtChunk, AtCRLF, AtPlain, AtDone
  <2>8. HeadFailed'
    BY <1>1, <1>6 DEF ClientInv, HeadFailed
  <2>9. QED
    BY <2>4, <2>5, <2>6, <2>7, <2>8 DEF ClientInv
<1>7. CASE Take(Clip(2)) /\ Answered("failed") /\ broke' = Because("split")
  <2>1. where' = "done" /\ answer' = "failed" /\ broke' # "no" /\ (broke' # "head" => broke # "head")
    BY <1>7 DEF Answered, Because
  <2>2. PICK n \in Nat : n = Clip(2) /\ n <= Len(inbox)
    BY <1>1, ClipIs
  <2>3. inbox' = SubSeq(inbox, n + 1, Len(inbox)) /\ UNCHANGED <<peer, stream, open>>
    BY <1>7, <2>2 DEF Take, Quiet
  <2>4. inbox' \in Seq(Tokens)
    BY <1>1, <2>2, <2>3
  <2>5. AtDone'
    BY <1>1, <1>5, <2>1, <2>3, FailedHasTheFront
  <2>6. QED
    BY <1>1, <2>1, <2>3, <2>4, <2>5, ClientEnds
<1>8. CASE NothingCame /\ Answered("failed")
  <2>1. where' = "done" /\ answer' = "failed" /\ NothingFor("late")
    BY <1>8 DEF Answered, NothingCame
  <2>2. /\ inbox = <<>> /\ inbox' = inbox /\ UNCHANGED <<peer, stream, open>>
        /\ broke # "no" => broke' = broke
    BY <2>1, NothingLeaves
  <2>3. broke' # "no"
    <3>1. CASE broke = "head"
      BY <2>2, <3>1
    <3>2. CASE broke # "head"
      <4>1. PICK z \in Seq(Tokens) : Coming(Due, broke, y \o z)
        BY <1>4, <3>2
      <4>2. Len(y \o z) = Len(y) + Len(z)
        OBVIOUS
      <4>3. y \o z # <<>>
        BY <1>3, <4>2
      <4>4. "late" # "no"
        OBVIOUS
      <4>5. QED
        BY <1>1, <2>1, <2>2, <4>1, <4>3, <4>4, NothingBroke
    <3>3. QED
      BY <3>1, <3>2
  <2>4. broke' # "head" => broke # "head"
    BY <2>2
  <2>5. AtDone'
    BY <1>1, <1>5, <2>1, <2>2, <2>4, FailedHasTheFront
  <2>6. QED
    BY <1>1, <2>1, <2>2, <2>3, <2>5, ClientEnds
<1>9. QED
  BY <1>6, <1>7, <1>8 DEF ReadCRLF

\* A body without chunks.
LEMMA ClientReadsPlain ==
  ASSUME HttpAssumption, ClientInv, ReadPlain
  PROVE  ClientInv'
<1>1. /\ where = "plain" /\ UNCHANGED <<chunked, left>> /\ answer = "none"
      /\ peer \in Answers /\ chunked \in BOOLEAN /\ left \in Nat /\ open \in BOOLEAN
      /\ stream \in Seq(Tokens) /\ inbox \in Seq(Tokens) /\ body \in Seq(Tokens)
      /\ Len(body) <= BodyCap /\ BodyCap \in Nat /\ (~open => stream = <<>>)
  BY DEF ReadPlain, ClientInv, ClientTypes, ClientCounts, HttpAssumption
<1>2. PICK total \in Nat : total = Total(peer)
  <2>1. Total(peer) \in Nat
    <3>1. peer.sizes \in Sizes /\ Len(peer.sizes) \in 0 .. Len(peer.sizes)
      BY <1>1, AnswerIs DEF Sizes
    <3>2. QED
      BY <3>1, UptoIs DEF Total
  <2>2. QED
    BY <2>1
<1>3. ASSUME broke # "head", ~peer.long
      PROVE  /\ ~chunked
             /\ \E m, w \in Nat : /\ m + w = total /\ m = Len(body) /\ body = Bytes(0, m)
                                  /\ Len(Bytes(m, w) \o <<>>) = w /\ Coming(Due, broke, Bytes(m, w) \o <<>>)
  <2>1. ~chunked
    BY <1>1, <1>3 DEF ClientInv, AtPlain
  <2>2. PICK m, w \in Nat : m + w = total /\ body = Bytes(0, m) /\ Coming(Due, broke, Bytes(m, w) \o <<>>)
    BY <1>1, <1>2, <1>3 DEF ClientInv, AtPlain
  <2>3. Len(body) = m
    BY <2>2, BytesAre
  <2>4. PICK b \in Seq(Tokens) : b = Bytes(m, w) /\ Len(b) = w
    <3>1. Bytes(m, w) \in Seq(Tokens) /\ Len(Bytes(m, w)) = w
      BY BytesAre
    <3>2. QED
      BY <3>1
  <2>5. b \o <<>> = b
    OBVIOUS
  <2>6. QED
    BY <2>1, <2>2, <2>3, <2>4, <2>5
<1>4. CASE /\ Take(Clip(BodyCap - Len(body)))
           /\ body' = body \o SubSeq(inbox, 1, Clip(BodyCap - Len(body)))
           /\ UNCHANGED <<where, answer, broke>>
  <2>1. PICK room \in Nat : room = BodyCap - Len(body) /\ Len(body) + room = BodyCap
    <3>1. Len(body) \in Nat
      BY <1>1
    <3>2. BodyCap - Len(body) \in Nat /\ Len(body) + (BodyCap - Len(body)) = BodyCap
      BY <1>1, <3>1
    <3>3. QED
      BY <3>2
  <2>2. PICK n \in Nat : n = Clip(room) /\ n <= room /\ n <= Len(inbox)
    BY <1>1, ClipIs
  <2>3. Take(n) /\ body' = body \o SubSeq(inbox, 1, n)
    BY <1>4, <2>1, <2>2
  <2>4. /\ UNCHANGED <<peer, stream, open>> /\ inbox' \in Seq(Tokens)
        /\ body' \in Seq(Tokens) /\ Len(body') = Len(body) + n
    BY <1>1, <2>2, <2>3, TakeAppends
  <2>5. Len(body') <= BodyCap
    BY <1>1, <2>1, <2>2, <2>4
  <2>6. AtPlain'
    <3>1. SUFFICES ASSUME broke' # "head", ~peer'.long PROVE AtPlain'
      BY DEF AtPlain
    <3>2. broke # "head" /\ ~peer.long
      BY <1>4, <2>4, <3>1
    <3>3. PICK m, w \in Nat : /\ m + w = total /\ m = Len(body) /\ body = Bytes(0, m)
                              /\ Len(Bytes(m, w) \o <<>>) = w /\ Coming(Due, broke, Bytes(m, w) \o <<>>)
      BY <1>3, <3>2
    <3>4. n <= w
      <4>1. Len(inbox) <= Len(Due)
        BY <1>1 DEF Due
      <4>2. Len(Due) <= w /\ Len(Due) \in Nat /\ Len(inbox) \in Nat
        BY <1>1, <3>3 DEF Coming, Due
      <4>3. QED
        BY <2>2, <4>1, <4>2
    <3>5. body' = Bytes(0, m + n) /\ Coming(Due', broke, Bytes(m + n, w - n) \o <<>>)
      <4>1. PICK z \in Seq(Tokens) : z = <<>>
        BY LinesAreTokens
      <4>2. /\ inbox \in Seq(Tokens) /\ stream \in Seq(Tokens) /\ body = Bytes(0, m)
            /\ Coming(Due, broke, Bytes(m, w) \o z) /\ n <= w /\ n <= Len(inbox)
            /\ Take(n) /\ body' = body \o SubSeq(inbox, 1, n)
        BY <1>1, <2>2, <2>3, <3>3, <3>4, <4>1
      <4>3. body' = Bytes(0, m + n) /\ Coming(Due', broke, Bytes(m + n, w - n) \o z)
        BY <4>2, TakeFollows
      <4>4. QED
        BY <4>1, <4>3
    <3>6. m + n \in Nat /\ w - n \in Nat /\ (m + n) + (w - n) = total
      BY <3>3, <3>4
    <3>7. Total(peer') = total /\ broke' = broke /\ ~chunked'
      BY <1>1, <1>2, <1>3, <1>4, <2>4, <3>2
    <3>8. QED
      BY <3>5, <3>6, <3>7 DEF AtPlain
  <2>7. ClientTypes'
    BY <1>1, <1>4, <2>4 DEF ClientTypes
  <2>8. ClientCounts'
    BY <1>1, <1>4, <2>4, <2>5 DEF ClientCounts
  <2>9. AtCall' /\ AtStatus' /\ AtHeaders' /\ AtSize' /\ AtChunk' /\ AtCRLF' /\ AtDone'
    BY <1>1, <1>4 DEF AtCall, AtStatus, AtHeaders, AtSize, AtChunk, AtCRLF, AtDone
  <2>10. HeadFailed'
    BY <1>1, <1>4 DEF HeadFailed
  <2>11. QED
    BY <2>6, <2>7, <2>8, <2>9, <2>10 DEF ClientInv
<1>5. CASE NothingCame /\ Answered("ok") /\ UNCHANGED body
  <2>1. where' = "done" /\ answer' = "ok" /\ NothingFor("late")
    BY <1>5 DEF Answered, NothingCame
  <2>2. /\ inbox = <<>> /\ inbox' = inbox /\ UNCHANGED <<peer, stream, open>>
        /\ broke # "no" => broke' = broke
    BY <2>1, NothingLeaves
  <2>3. broke' = "no" => stream = <<>> /\ broke = "no"
    BY <1>1, <2>1 DEF NothingFor, Because
  <2>4. AtDone'
    <3>1. SUFFICES ASSUME broke' # "head", ~peer'.long PROVE AtDone'
      BY DEF AtDone
    <3>2. broke # "head" /\ ~peer.long
      BY <2>2, <3>1
    <3>3. PICK m, w \in Nat : /\ m + w = total /\ m = Len(body) /\ body = Bytes(0, m)
                              /\ Len(Bytes(m, w) \o <<>>) = w /\ Coming(Due, broke, Bytes(m, w) \o <<>>)
      BY <1>3, <3>2
    <3>4. broke' = "no" => w = 0
      BY <2>2, <2>3, <3>3 DEF Coming, Due
    <3>5. broke' = "no" => m = IF total < BodyCap THEN total ELSE BodyCap
      BY <1>1, <3>3, <3>4
    <3>6. m <= total
      BY <3>3
    <3>7. Total(peer') = total /\ ~chunked' /\ body' = Bytes(0, m)
      BY <1>1, <1>2, <1>3, <1>5, <2>2, <3>2, <3>3
    <3>8. QED
      BY <3>5, <3>6, <3>7 DEF AtDone
  <2>5. QED
    BY <1>1, <1>5, <2>1, <2>2, <2>4, ClientEnds
<1>6. CASE Len(body) = BodyCap /\ Answered("ok") /\ UNCHANGED <<body, inbox, broke>> /\ Quiet
  <2>1. where' = "done" /\ answer' = "ok" /\ UNCHANGED <<peer, stream, open>>
    BY <1>6 DEF Answered, Quiet
  <2>2. AtDone'
    <3>1. SUFFICES ASSUME broke' # "head", ~peer'.long PROVE AtDone'
      BY DEF AtDone
    <3>2. broke # "head" /\ ~peer.long
      BY <1>6, <2>1, <3>1
    <3>3. PICK m, w \in Nat : m + w = total /\ m = Len(body) /\ body = Bytes(0, m)
      BY <1>3, <3>2
    <3>4. m <= total /\ m = IF total < BodyCap THEN total ELSE BodyCap
      BY <1>1, <1>6, <3>3
    <3>5. Total(peer') = total /\ ~chunked' /\ body' = Bytes(0, m)
      BY <1>1, <1>2, <1>3, <1>6, <2>1, <3>2, <3>3
    <3>6. QED
      BY <3>4, <3>5 DEF AtDone
  <2>3. QED
    BY <1>1, <1>6, <2>1, <2>2, ClientEnds
<1>7. QED
  BY <1>4, <1>5, <1>6 DEF ReadPlain

\* Every step of the client.
LEMMA ClientStep ==
  ASSUME HttpAssumption, ClientInv, Modest, Client \/ Arrive \/ PeerCloses
  PROVE  ClientInv'
BY ClientBeforeTheNetwork, ClientCalls, ClientReadsStatus, ClientReadsHeader, ClientReadsSize,
   ClientReadsChunk, ClientReadsCRLF, ClientReadsPlain DEF Client

\* What a client's states say of its answers.
LEMMA ClientHasTheAnswer ==
  ASSUME HttpAssumption, ClientInv
  PROVE  AnswersAreWhole
<1>1. peer \in Answers /\ peer.sizes \in Sizes /\ body \in Seq(Tokens) /\ Len(body) <= BodyCap
      /\ (answer = "failed" => broke # "no")
      /\ where \in {"call", "status", "headers", "size", "chunk", "crlf", "plain", "done"}
      /\ (answer # "none" <=> where = "done")
  BY AnswerIs DEF ClientInv, ClientTypes, ClientCounts
<1>2. PICK l \in Nat : l = Len(peer.sizes) /\ l \in 0 .. l
  BY <1>1 DEF Sizes
<1>3. PICK total \in Nat : total = Total(peer) /\ Content(peer.sizes) = Bytes(0, total)
      /\ Len(Content(peer.sizes)) = total
  <2>1. Total(peer) \in Nat
    BY <1>1, <1>2, UptoIs DEF Total
  <2>2. QED
    BY <1>1, <2>1, ContentIs DEF Total, Content
<1>4. ASSUME ~peer.long, broke # "head"
      PROVE  \E m \in Nat : /\ m <= total /\ body = Bytes(0, m)
                            /\ answer = "ok" /\ (chunked \/ broke = "no") =>
                                 m = IF chunked \/ total < BodyCap THEN total ELSE BodyCap
  <2>1. ASSUME NEW k \in 0 .. l PROVE Upto(peer.sizes, k) \in Nat /\ Upto(peer.sizes, k) <= total
    BY <1>1, <1>2, <1>3, UptoIs, UptoGrows DEF Total
  <2>2. CASE where \in {"call", "status", "headers"}
    <3>1. body = <<>> /\ answer # "ok"
      BY <1>1, <2>2 DEF ClientInv, AtCall, AtStatus, AtHeaders
    <3>2. body = Bytes(0, 0)
      BY <3>1, BytesFollow
    <3>3. QED
      BY <3>1, <3>2
  <2>3. CASE where = "size"
    <3>1. PICK k \in 0 .. l : body = Bytes(0, Upto(peer.sizes, k))
      BY <1>2, <1>4, <2>3 DEF ClientInv, AtSize
    <3>2. QED
      BY <1>1, <2>1, <2>3, <3>1
  <2>4. CASE where = "chunk"
    <3>1. PICK k \in 0 .. l : body = Bytes(0, Len(body)) /\ Len(body) + left = Upto(peer.sizes, k)
      BY <1>2, <1>4, <2>4 DEF ClientInv, AtChunk
    <3>2. left \in Nat /\ Len(body) \in Nat
      BY <1>1 DEF ClientInv, ClientTypes
    <3>3. Len(body) <= total
      BY <2>1, <3>1, <3>2
    <3>4. QED
      BY <1>1, <2>4, <3>1, <3>2, <3>3
  <2>5. CASE where = "crlf"
    <3>1. PICK k \in 0 .. l : body = Bytes(0, Upto(peer.sizes, k))
      BY <1>2, <1>4, <2>5 DEF ClientInv, AtCRLF
    <3>2. QED
      BY <1>1, <2>1, <2>5, <3>1
  <2>6. CASE where = "plain"
    <3>1. PICK m, w \in Nat : m + w = total /\ body = Bytes(0, m)
      BY <1>3, <1>4, <2>6 DEF ClientInv, AtPlain
    <3>2. m <= total
      BY <3>1
    <3>3. QED
      BY <1>1, <2>6, <3>1, <3>2
  <2>7. CASE where = "done"
    BY <1>3, <1>4, <2>7 DEF ClientInv, AtDone
  <2>8. QED
    BY <1>1, <2>2, <2>3, <2>4, <2>5, <2>6, <2>7
<1>5. ASSUME HeadIsWhole
      PROVE  /\ SQ!IsPrefix(body, Content(peer.sizes))
             /\ answer = "ok" /\ (chunked \/ broke = "no") =>
                  Len(body) = IF chunked \/ total < BodyCap THEN total ELSE BodyCap
  <2>1. PICK m \in Nat : /\ m <= total /\ body = Bytes(0, m)
                         /\ answer = "ok" /\ (chunked \/ broke = "no") =>
                              m = IF chunked \/ total < BodyCap THEN total ELSE BodyCap
    BY <1>4, <1>5 DEF HeadIsWhole
  <2>2. Len(body) = m
    BY <2>1, BytesAre
  <2>3. SQ!IsPrefix(Bytes(0, m), Bytes(0, total))
    BY <2>1, FrontIsPrefix
  <2>4. QED
    BY <1>3, <2>1, <2>2, <2>3
<1>6. QED
  BY <1>1, <1>3, <1>5 DEF AnswersAreWhole, HeadIsWhole

-----------------------------------------------------------------------------
(* HTTP: the micro server *)

InHand == {"head", "fits", "body", "handle"}

\* A call of the handler, or an answer of 400, as it should be.
Calls == [kind : {"400", "handler"}, line : BOOLEAN, body : Seq(Tokens), claimed : Nat,
          broke : {"no", "late", "cut", "head"}]
TrueCalls ==
  {c \in Calls : /\ c.kind = "400" <=> c.claimed > ServerCap
                 /\ Len(c.body) <= ServerCap
                 /\ c.broke # "head" => c.body = Bytes(0, Len(c.body)) /\ Len(c.body) <= c.claimed
                 /\ c.broke = "no" /\ c.kind = "handler" => c.line /\ Len(c.body) = c.claimed}

ServerTypes ==
  /\ stream \in Seq(Tokens) /\ inbox \in Seq(Tokens) /\ body \in Seq(Tokens)
  /\ open \in BOOLEAN /\ left \in Nat /\ clients \in Nat
  /\ serving \in BOOLEAN /\ stopping \in BOOLEAN
  /\ where \in {"top", "poll", "off"} \cup InHand
  /\ answer \in {"none", "line"} /\ broke \in {"no", "late", "cut", "head"}

ServerCounts ==
  /\ handled \in Seq(TrueCalls)
  /\ Len(handled) + (IF where \in InHand THEN 1 ELSE 0) = clients
  /\ ~open => stream = <<>>
  /\ open /\ where = "head" => broke = "no"

\* The loop is off once a stop has returned, and only when there was a stop.
Stops ==
  /\ stopping => ~serving
  /\ ~serving /\ ~stopping => where = "off"
  /\ where = "off" => ~serving

\* What is left of a request.
BlankAndBody(n) == <<Token("blank", 0)>> \o Bytes(0, n)
LengthAndAll(n) == <<Token("length", n)>> \o BlankAndBody(n)

AtHead ==
  where = "head" =>
    /\ body = <<>> /\ broke # "head"
    /\ \E n \in Lengths :
         \/ left = 0 /\ answer = "none" /\ Coming(Due, broke, <<Token("line", 0)>> \o LengthAndAll(n))
         \/ left = 0 /\ answer = "line" /\ Coming(Due, broke, LengthAndAll(n))
         \/ left = n /\ answer = "line" /\ Coming(Due, broke, BlankAndBody(n))
AtFits ==
  where = "fits" =>
    /\ body = <<>>
    /\ broke # "head" => Coming(Due, broke, Bytes(0, left))
    /\ broke = "no" => answer = "line"
AtBody ==
  where = "body" =>
    /\ left <= ServerCap /\ Len(body) <= left
    /\ broke # "head" => /\ body = Bytes(0, Len(body))
                         /\ Coming(Due, broke, Bytes(Len(body), left - Len(body)) \o <<>>)
    /\ broke = "no" => answer = "line"
AtHandle ==
  where = "handle" =>
    /\ left <= ServerCap /\ Len(body) <= left
    /\ broke # "head" => body = Bytes(0, Len(body))
    /\ broke # "no"

ServerInv ==
  /\ ServerTypes /\ ServerCounts /\ Stops /\ AtHead /\ AtFits /\ AtBody /\ AtHandle

\* The peer and the network.
LEMMA ServerBeforeTheNetwork ==
  ASSUME ServerInv, Arrive \/ PeerCloses
  PROVE  ServerInv'
<1>1. UNCHANGED <<side, where, left, body, answer, serving, stopping, clients, handled>>
  BY DEF Arrive, PeerCloses, Waiting
<1>2. \A x : Coming(Due, broke, x) => Coming(Due', broke', x)
  <2>1. CASE Arrive
    <3>1. Due' = Due /\ broke' = broke
      <4>1. Due' = Due
        BY <2>1, ArriveKeepsDue DEF ServerInv, ServerTypes
      <4>2. QED
        BY <2>1, <4>1 DEF Arrive
    <3>2. QED
      BY <3>1
  <2>2. CASE PeerCloses
    BY <2>2, CloseCuts DEF ServerInv, ServerTypes
  <2>3. QED
    BY <2>1, <2>2
<1>3. /\ broke' = "head" <=> broke = "head"
      /\ broke # "no" => broke' # "no"
      /\ broke' \in {"no", "late", "cut", "head"}
      /\ open' \in BOOLEAN /\ stream' \in Seq(Tokens) /\ inbox' \in Seq(Tokens)
      /\ ~open' => stream' = <<>>
      /\ open' /\ where' = "head" => broke' = "no"
  <2>1. CASE Arrive
    BY <2>1, <1>1, ArriveKeepsDue DEF Arrive, ServerInv, ServerTypes, ServerCounts
  <2>2. CASE PeerCloses
    <3>1. /\ open' = FALSE /\ stream' = <<>> /\ inbox' = inbox
          /\ broke' = IF stream = <<>> THEN broke ELSE Because("cut")
      BY <2>2 DEF PeerCloses
    <3>2. /\ broke' = "head" <=> broke = "head"
          /\ broke # "no" => broke' # "no"
          /\ broke' \in {"no", "late", "cut", "head"}
      BY <3>1 DEF Because, ServerInv, ServerTypes
    <3>3. inbox \in Seq(Tokens) /\ <<>> \in Seq(Tokens)
      BY DEF ServerInv, ServerTypes
    <3>4. QED
      BY <3>1, <3>2, <3>3
  <2>3. QED
    BY <2>1, <2>2
<1>4. ServerTypes'
  BY <1>1, <1>3 DEF ServerInv, ServerTypes
<1>5. ServerCounts' /\ Stops'
  BY <1>1, <1>3 DEF ServerInv, ServerCounts, Stops
<1>6. AtHead'
  BY <1>1, <1>2, <1>3 DEF ServerInv, AtHead
<1>7. AtFits' /\ AtBody' /\ AtHandle'
  BY <1>1, <1>2, <1>3 DEF ServerInv, AtFits, AtBody, AtHandle
<1>8. QED
  BY <1>4, <1>5, <1>6, <1>7 DEF ServerInv

\* A stop, its join and a start touch nothing of a connection.
LEMMA ServerStops ==
  ASSUME ServerInv, StopServer \/ Joined \/ StartServer
  PROVE  ServerInv'
<1>1. UNCHANGED <<side, stream, inbox, open, left, body, answer, clients, handled, broke>>
  BY DEF StopServer, Joined, StartServer, Unmoved
<1>2. Due' = Due
  BY <1>1 DEF Due
<1>3. \/ serving' = FALSE /\ stopping' = TRUE /\ where' = where /\ serving /\ ~stopping
      \/ serving' = serving /\ stopping' = FALSE /\ where' = where /\ stopping /\ where = "off"
      \/ serving' = TRUE /\ stopping' = stopping /\ where' = "top" /\ ~stopping /\ where = "off"
  BY DEF StopServer, Joined, StartServer, ServerInv, Stops
<1>4. ServerTypes'
  BY <1>1, <1>3 DEF ServerInv, ServerTypes
<1>5. Stops'
  BY <1>3 DEF ServerInv, Stops
<1>6. ServerCounts'
  BY <1>1, <1>3 DEF ServerInv, ServerCounts, InHand
<1>7. AtHead' /\ AtFits' /\ AtBody' /\ AtHandle'
  BY <1>1, <1>2, <1>3 DEF ServerInv, AtHead, AtFits, AtBody, AtHandle
<1>8. QED
  BY <1>4, <1>5, <1>6, <1>7 DEF ServerInv

\* The loop between two connections.
LEMMA ServerPolls ==
  ASSUME ServerInv, LoopHead \/ PollNothing
  PROVE  ServerInv'
<1>1. UNCHANGED <<side, serving, stopping, stream, inbox, open, left, body, answer, clients, handled, broke>>
  BY DEF LoopHead, PollNothing, ServerQuiet
<1>2. /\ where \in {"top", "poll"} /\ where' \in {"top", "poll", "off"}
      /\ where' = "off" => where = "top" /\ ~serving
  BY DEF LoopHead, PollNothing
<1>3. ServerTypes'
  BY <1>1, <1>2 DEF ServerInv, ServerTypes
<1>4. Stops'
  BY <1>1, <1>2 DEF ServerInv, Stops
<1>5. ServerCounts'
  BY <1>1, <1>2 DEF ServerInv, ServerCounts, InHand
<1>6. AtHead' /\ AtFits' /\ AtBody' /\ AtHandle'
  BY <1>2 DEF AtHead, AtFits, AtBody, AtHandle
<1>7. QED
  BY <1>3, <1>4, <1>5, <1>6 DEF ServerInv

\* A request, line by line.
LEMMA RequestIs ==
  ASSUME NEW n \in Nat
  PROVE  /\ Bytes(0, n) \in Seq(Tokens) /\ BlankAndBody(n) \in Seq(Tokens) /\ LengthAndAll(n) \in Seq(Tokens)
         /\ Request(n) = <<Token("line", 0)>> \o LengthAndAll(n) /\ Request(n) \in Seq(Tokens)
         /\ Token("line", 0) \in Tokens /\ Token("length", n) \in Tokens /\ Token("blank", 0) \in Tokens
<1>1. Token("line", 0) \in Tokens /\ Token("length", n) \in Tokens /\ Token("blank", 0) \in Tokens
  BY DEF Token, Tokens, TokenKinds
<1>2. PICK b \in Seq(Tokens) : b = Bytes(0, n)
  <2>1. Bytes(0, n) \in Seq(Tokens)
    BY BytesAre
  <2>2. QED
    BY <2>1
<1>3. PICK u \in Seq(Tokens) : u = <<Token("line", 0)>>
  <2>1. <<Token("line", 0)>> \in Seq(Tokens)
    BY <1>1
  <2>2. QED
    BY <2>1
<1>4. PICK v \in Seq(Tokens) : v = <<Token("length", n)>>
  <2>1. <<Token("length", n)>> \in Seq(Tokens)
    BY <1>1
  <2>2. QED
    BY <2>1
<1>5. PICK w \in Seq(Tokens) : w = <<Token("blank", 0)>>
  <2>1. <<Token("blank", 0)>> \in Seq(Tokens)
    BY <1>1
  <2>2. QED
    BY <2>1
<1>6. (u \o v) \o w = <<Token("line", 0), Token("length", n), Token("blank", 0)>>
  <2>1. <<Token("line", 0), Token("length", n)>> = u \o v
    BY <1>3, <1>4
  <2>2. <<Token("line", 0), Token("length", n), Token("blank", 0)>> = <<Token("line", 0), Token("length", n)>> \o w
    BY <1>5
  <2>3. QED
    BY <2>1, <2>2
<1>7. Regroups(u, v, w, b)
  BY JoinedAgain
<1>8. Request(n) = u \o (v \o (w \o b))
  BY <1>2, <1>6, <1>7 DEF Request, Regroups
<1>9. BlankAndBody(n) = w \o b /\ LengthAndAll(n) = v \o (w \o b)
  BY <1>2, <1>4, <1>5 DEF BlankAndBody, LengthAndAll
<1>10. w \o b \in Seq(Tokens) /\ v \o (w \o b) \in Seq(Tokens) /\ u \o (v \o (w \o b)) \in Seq(Tokens)
  <2>1. w \o b \in Seq(Tokens)
    OBVIOUS
  <2>2. v \o (w \o b) \in Seq(Tokens)
    BY <2>1
  <2>3. QED
    BY <2>1, <2>2
<1>11. QED
  BY <1>1, <1>2, <1>3, <1>8, <1>9, <1>10

\* A connection.
LEMMA ServerAccepts ==
  ASSUME HttpAssumption, ServerInv, NEW n \in Lengths, Accept(n)
  PROVE  ServerInv'
<1>1. /\ where = "poll" /\ where' = "head" /\ clients' = clients + 1
      /\ stream' = Request(n) /\ open' = TRUE /\ inbox' = <<>>
      /\ left' = 0 /\ body' = <<>> /\ answer' = "none" /\ broke' = "no"
      /\ UNCHANGED <<serving, stopping, handled>>
  BY DEF Accept
<1>2. n \in Nat
  BY DEF HttpAssumption
<1>3. PICK r \in Seq(Tokens) : r = Request(n) /\ r = <<Token("line", 0)>> \o LengthAndAll(n)
  BY <1>2, RequestIs
<1>4. Due' = r
  BY <1>1, <1>3 DEF Due
<1>5. Coming(r, "no", r)
  BY DEF Coming
<1>6. AtHead'
  BY <1>1, <1>3, <1>4, <1>5 DEF AtHead
<1>7. ServerTypes'
  <2>1. clients' \in Nat /\ serving' \in BOOLEAN /\ stopping' \in BOOLEAN
    BY <1>1 DEF ServerInv, ServerTypes
  <2>2. stream' \in Seq(Tokens) /\ inbox' \in Seq(Tokens) /\ body' \in Seq(Tokens)
    BY <1>1, <1>3
  <2>3. QED
    BY <1>1, <2>1, <2>2 DEF ServerTypes, InHand
<1>8. ServerCounts'
  <2>1. handled \in Seq(TrueCalls) /\ Len(handled) + 0 = clients /\ Len(handled) \in Nat
    BY <1>1 DEF ServerInv, ServerCounts, InHand
  <2>2. Len(handled) + 1 = clients + 1
    BY <2>1
  <2>3. where' \in InHand
    BY <1>1 DEF InHand
  <2>4. QED
    BY <1>1, <2>1, <2>2, <2>3 DEF ServerCounts
<1>9. Stops'
  BY <1>1 DEF ServerInv, Stops
<1>10. AtFits' /\ AtBody' /\ AtHandle'
  BY <1>1 DEF AtFits, AtBody, AtHandle
<1>11. QED
  BY <1>6, <1>7, <1>8, <1>9, <1>10 DEF ServerInv

\* The head is over.
LEMMA HeadIsRead ==
  ASSUME ServerInv, where = "head", where' = "fits",
         UNCHANGED <<left, body, answer, serving, stopping, clients, handled>>,
         UNCHANGED <<stream, open>>, inbox' \in Seq(Tokens), broke' \in {"no", "late", "cut", "head"},
         body = <<>>, broke' # "head" => Coming(Due', broke', Bytes(0, left)),
         broke' = "no" => answer = "line"
  PROVE  ServerInv'
<1>1. AtFits'
  BY DEF AtFits
<1>2. ServerTypes'
  BY DEF ServerInv, ServerTypes, InHand
<1>3. ServerCounts'
  BY DEF ServerInv, ServerCounts, InHand
<1>4. Stops'
  BY DEF ServerInv, Stops
<1>5. AtHead' /\ AtBody' /\ AtHandle'
  BY DEF AtHead, AtBody, AtHandle
<1>6. QED
  BY <1>1, <1>2, <1>3, <1>4, <1>5 DEF ServerInv

\* A line of the head.
LEMMA ServerReadsHead ==
  ASSUME HttpAssumption, ServerInv, ReadHead
  PROVE  ServerInv'
<1>1. /\ where = "head" /\ UNCHANGED <<body, handled>> /\ body = <<>> /\ broke # "head"
      /\ stream \in Seq(Tokens) /\ inbox \in Seq(Tokens) /\ left \in Nat
      /\ broke \in {"no", "late", "cut", "head"}
      /\ (~open => stream = <<>>) /\ (open => broke = "no")
  BY DEF ReadHead, ServerInv, ServerTypes, ServerCounts, AtHead
<1>2. PICK n \in Lengths :
         \/ left = 0 /\ answer = "none" /\ Coming(Due, broke, <<Token("line", 0)>> \o LengthAndAll(n))
         \/ left = 0 /\ answer = "line" /\ Coming(Due, broke, LengthAndAll(n))
         \/ left = n /\ answer = "line" /\ Coming(Due, broke, BlankAndBody(n))
  BY <1>1 DEF ServerInv, AtHead
<1>3. n \in Nat
  BY DEF HttpAssumption
<1>4. PICK a \in Tokens : a = Token("line", 0) /\ a.kind = "line"
  BY LinesAreTokens DEF TokenKinds
<1>5. PICK b \in Tokens : b = Token("length", n) /\ b.kind = "length" /\ b.n = n
  <2>1. Token("length", n) \in Tokens
    BY <1>3, RequestIs
  <2>2. QED
    BY <2>1 DEF Token
<1>6. PICK c \in Tokens : c = Token("blank", 0) /\ c.kind = "blank"
  BY LinesAreTokens DEF TokenKinds
<1>7. PICK y \in Seq(Tokens) : y = Bytes(0, n)
  BY <1>3, RequestIs
<1>8. PICK bb \in Seq(Tokens) : bb = BlankAndBody(n) /\ bb = <<c>> \o y
  BY <1>3, <1>6, <1>7, RequestIs DEF BlankAndBody
<1>9. PICK ll \in Seq(Tokens) : ll = LengthAndAll(n) /\ ll = <<b>> \o bb
  BY <1>3, <1>5, <1>8, RequestIs DEF LengthAndAll
<1>10. \/ left = 0 /\ answer = "none" /\ Coming(Due, broke, <<a>> \o ll)
       \/ left = 0 /\ answer = "line" /\ Coming(Due, broke, <<b>> \o bb)
       \/ left = n /\ answer = "line" /\ Coming(Due, broke, <<c>> \o y)
  BY <1>2, <1>4, <1>8, <1>9
<1>11. ASSUME NEW kinds, NextLine(kinds)
       PROVE  /\ UNCHANGED <<side, peer, stream, open, serving, stopping, clients, broke>>
              /\ inbox' \in Seq(Tokens) /\ inbox[1].kind \in kinds
              /\ \/ inbox[1] = a /\ left = 0 /\ answer = "none" /\ Coming(Due', broke, ll)
                 \/ inbox[1] = b /\ left = 0 /\ answer = "line" /\ Coming(Due', broke, bb)
                 \/ inbox[1] = c /\ left = n /\ answer = "line" /\ Coming(Due', broke, y)
  <2>1. /\ Take(1) /\ UNCHANGED <<side, peer, stream, open, serving, stopping, clients, broke>>
        /\ inbox[1].kind \in kinds
    BY <1>11 DEF NextLine, Take, Quiet
  <2>2. CASE left = 0 /\ answer = "none" /\ Coming(Due, broke, <<a>> \o ll)
    <3>1. inbox[1] = a /\ Coming(Due', broke, ll) /\ inbox' \in Seq(Tokens)
      BY <1>1, <2>1, <2>2, ReadToken
    <3>2. QED
      BY <2>1, <2>2, <3>1
  <2>3. CASE left = 0 /\ answer = "line" /\ Coming(Due, broke, <<b>> \o bb)
    <3>1. inbox[1] = b /\ Coming(Due', broke, bb) /\ inbox' \in Seq(Tokens)
      BY <1>1, <2>1, <2>3, ReadToken
    <3>2. QED
      BY <2>1, <2>3, <3>1
  <2>4. CASE left = n /\ answer = "line" /\ Coming(Due, broke, <<c>> \o y)
    <3>1. inbox[1] = c /\ Coming(Due', broke, y) /\ inbox' \in Seq(Tokens)
      BY <1>1, <2>1, <2>4, ReadToken
    <3>2. QED
      BY <2>1, <2>4, <3>1
  <2>5. QED
    BY <1>10, <2>2, <2>3, <2>4
\* Two of the lines go on.
<1>12. ASSUME where' = "head", UNCHANGED <<stream, open, serving, stopping, clients, broke>>,
              inbox' \in Seq(Tokens), left' \in Nat, answer' = "line",
              \/ left' = 0 /\ Coming(Due', broke, LengthAndAll(n))
              \/ left' = n /\ Coming(Due', broke, BlankAndBody(n))
       PROVE  ServerInv'
  <2>1. AtHead'
    BY <1>1, <1>12 DEF AtHead
  <2>2. ServerTypes'
    BY <1>1, <1>12 DEF ServerInv, ServerTypes
  <2>3. ServerCounts'
    BY <1>1, <1>12 DEF ServerInv, ServerCounts
  <2>4. Stops'
    BY <1>1, <1>12 DEF ServerInv, Stops
  <2>5. AtFits' /\ AtBody' /\ AtHandle'
    BY <1>12 DEF AtFits, AtBody, AtHandle
  <2>6. QED
    BY <2>1, <2>2, <2>3, <2>4, <2>5 DEF ServerInv
<1>13. CASE NextLine({"line"}) /\ answer' = "line" /\ UNCHANGED <<where, left>>
  <2>1. /\ UNCHANGED <<stream, open, serving, stopping, clients, broke>> /\ inbox' \in Seq(Tokens)
        /\ left = 0 /\ Coming(Due', broke, ll)
    <3>1. /\ UNCHANGED <<side, peer, stream, open, serving, stopping, clients, broke>>
          /\ inbox' \in Seq(Tokens) /\ inbox[1].kind \in {"line"}
          /\ \/ inbox[1] = a /\ left = 0 /\ answer = "none" /\ Coming(Due', broke, ll)
             \/ inbox[1] = b /\ left = 0 /\ answer = "line" /\ Coming(Due', broke, bb)
             \/ inbox[1] = c /\ left = n /\ answer = "line" /\ Coming(Due', broke, y)
      BY <1>11, <1>13
    <3>2. QED
      BY <1>4, <1>5, <1>6, <3>1
  <2>2. QED
    BY <1>1, <1>9, <1>12, <1>13, <2>1
<1>14. CASE NextLine({"length"}) /\ left' = inbox[1].n /\ UNCHANGED <<where, answer>>
  <2>1. /\ UNCHANGED <<stream, open, serving, stopping, clients, broke>> /\ inbox' \in Seq(Tokens)
        /\ inbox[1] = b /\ answer = "line" /\ Coming(Due', broke, bb)
    <3>1. /\ UNCHANGED <<side, peer, stream, open, serving, stopping, clients, broke>>
          /\ inbox' \in Seq(Tokens) /\ inbox[1].kind \in {"length"}
          /\ \/ inbox[1] = a /\ left = 0 /\ answer = "none" /\ Coming(Due', broke, ll)
             \/ inbox[1] = b /\ left = 0 /\ answer = "line" /\ Coming(Due', broke, bb)
             \/ inbox[1] = c /\ left = n /\ answer = "line" /\ Coming(Due', broke, y)
      BY <1>11, <1>14
    <3>2. QED
      BY <1>4, <1>5, <1>6, <3>1
  <2>2. left' = n
    BY <1>5, <1>14, <2>1
  <2>3. QED
    BY <1>1, <1>3, <1>8, <1>12, <1>14, <2>1, <2>2
<1>15. CASE NextLine({"blank"}) /\ where' = "fits" /\ UNCHANGED <<answer, left>>
  <2>1. /\ UNCHANGED <<stream, open, serving, stopping, clients, broke>> /\ inbox' \in Seq(Tokens)
        /\ left = n /\ answer = "line" /\ Coming(Due', broke, y)
    <3>1. /\ UNCHANGED <<side, peer, stream, open, serving, stopping, clients, broke>>
          /\ inbox' \in Seq(Tokens) /\ inbox[1].kind \in {"blank"}
          /\ \/ inbox[1] = a /\ left = 0 /\ answer = "none" /\ Coming(Due', broke, ll)
             \/ inbox[1] = b /\ left = 0 /\ answer = "line" /\ Coming(Due', broke, bb)
             \/ inbox[1] = c /\ left = n /\ answer = "line" /\ Coming(Due', broke, y)
      BY <1>11, <1>15
    <3>2. QED
      BY <1>4, <1>5, <1>6, <3>1
  <2>2. Coming(Due', broke', Bytes(0, left))
    BY <1>7, <2>1
  <2>3. QED
    BY <1>1, <1>15, <2>1, <2>2, HeadIsRead
<1>16. CASE NothingFor("head") /\ where' = "fits" /\ UNCHANGED <<answer, left>>
  <2>1. /\ inbox = <<>> /\ inbox' = inbox /\ UNCHANGED <<stream, open, serving, stopping, clients>>
        /\ broke' = broke \/ broke' = "head"
    BY <1>16, NothingLeaves
  <2>2. broke' # "head" => ~open /\ broke' = broke
    BY <1>1, <1>16 DEF NothingFor, Because
  <2>3. broke' # "no"
    <3>1. <<a>> \o ll # <<>> /\ <<b>> \o bb # <<>> /\ <<c>> \o y # <<>>
      BY LineIsSomething
    <3>2. "head" # "no"
      OBVIOUS
    <3>3. QED
      BY <1>1, <1>10, <1>16, <2>1, <3>1, <3>2, NothingBroke
  <2>4. broke' # "head" => Coming(Due', broke', Bytes(0, left))
    <3>1. SUFFICES ASSUME broke' # "head" PROVE Coming(Due', broke', Bytes(0, left))
      OBVIOUS
    <3>2. Due' = <<>>
      BY <1>1, <2>1, <2>2, <3>1 DEF Due
    <3>3. Bytes(0, left) \in Seq(Tokens)
      BY <1>1, BytesAre
    <3>4. QED
      BY <2>3, <3>2, <3>3 DEF Coming
  <2>5. broke' \in {"no", "late", "cut", "head"}
    BY <1>1, <2>1
  <2>6. QED
    BY <1>1, <1>16, <2>1, <2>3, <2>4, <2>5, HeadIsRead
<1>17. QED
  BY <1>13, <1>14, <1>15, <1>16 DEF ReadHead

\* A connection is done with: its call joins the others.
LEMMA ServerFinishes ==
  ASSUME ServerInv, where \in InHand, CloseClient, ServerQuiet, UNCHANGED <<left, body, answer, broke>>,
         NEW c \in TrueCalls, handled' = Append(handled, c)
  PROVE  ServerInv'
<1>1. /\ where' = "top" /\ stream' = <<>> /\ inbox' = <<>> /\ open' = FALSE
      /\ UNCHANGED <<serving, stopping, clients>>
  BY DEF CloseClient, ServerQuiet
<1>2. ServerTypes'
  <2>1. <<>> \in Seq(Tokens)
    BY LinesAreTokens
  <2>2. QED
    BY <1>1, <2>1 DEF ServerInv, ServerTypes
<1>3. ServerCounts'
  <2>1. handled \in Seq(TrueCalls) /\ Len(handled) + 1 = clients
    BY DEF ServerInv, ServerCounts
  <2>2. handled' \in Seq(TrueCalls) /\ Len(handled') = Len(handled) + 1
    BY <2>1
  <2>3. Len(handled') + 0 = clients
    BY <2>1, <2>2
  <2>4. where' \notin InHand
    BY <1>1 DEF InHand
  <2>5. QED
    BY <1>1, <2>2, <2>3, <2>4 DEF ServerCounts
<1>4. Stops'
  BY <1>1 DEF ServerInv, Stops, InHand
<1>5. AtHead' /\ AtFits' /\ AtBody' /\ AtHandle'
  BY <1>1 DEF AtHead, AtFits, AtBody, AtHandle
<1>6. QED
  BY <1>2, <1>3, <1>4, <1>5 DEF ServerInv

\* A body that does not fit is refused.
LEMMA ServerChecks ==
  ASSUME HttpAssumption, ServerInv, CheckFits
  PROVE  ServerInv'
<1>1. /\ where = "fits" /\ body = <<>> /\ ServerQuiet /\ UNCHANGED <<left, body, answer, broke>>
      /\ left \in Nat /\ ServerCap \in Nat /\ broke \in {"no", "late", "cut", "head"}
      /\ (broke # "head" => Coming(Due, broke, Bytes(0, left)))
      /\ (broke = "no" => answer = "line")
      /\ inbox \in Seq(Tokens) /\ stream \in Seq(Tokens)
  BY DEF CheckFits, ServerInv, ServerTypes, AtFits, HttpAssumption
<1>2. CASE left > ServerCap /\ CloseClient /\ handled' = Append(handled, HandlerCall("400"))
  <2>1. HandlerCall("400") \in TrueCalls
    <3>1. PICK c : c = HandlerCall("400")
      OBVIOUS
    <3>2. c = [kind |-> "400", line |-> answer = "line", body |-> <<>>, claimed |-> left, broke |-> broke]
      BY <1>1, <3>1 DEF HandlerCall
    <3>3. <<>> \in Seq(Tokens) /\ Len(<<>>) = 0 /\ (answer = "line") \in BOOLEAN
      BY LinesAreTokens
    <3>4. c \in Calls
      BY <1>1, <3>2, <3>3 DEF Calls
    <3>5. c.body = Bytes(0, Len(c.body)) /\ Len(c.body) = 0
      BY <3>2, <3>3, BytesFollow
    <3>6. c.kind = "400" /\ c.claimed = left
      BY <3>2
    <3>7. QED
      BY <1>1, <1>2, <3>1, <3>4, <3>5, <3>6 DEF TrueCalls
  <2>2. where \in InHand
    BY <1>1 DEF InHand
  <2>3. QED
    BY <1>1, <1>2, <2>1, <2>2, ServerFinishes
<1>3. CASE ~(left > ServerCap) /\ where' = "body" /\ UNCHANGED <<stream, inbox, open, handled>>
  <2>1. UNCHANGED <<serving, stopping, clients>>
    BY <1>1 DEF ServerQuiet
  <2>2. Due' = Due
    BY <1>3 DEF Due
  <2>3. PICK o \in Nat : o = 0
    OBVIOUS
  <2>4. Len(body) = o /\ left - o = left
    BY <1>1, <2>3
  <2>5. broke # "head" => Coming(Due, broke, Bytes(0, left) \o <<>>)
    <3>1. SUFFICES ASSUME broke # "head" PROVE Coming(Due, broke, Bytes(0, left) \o <<>>)
      OBVIOUS
    <3>2. PICK y \in Seq(Tokens) : y = Bytes(0, left)
      <4>1. Bytes(0, left) \in Seq(Tokens)
        BY <1>1, BytesAre
      <4>2. QED
        BY <4>1
    <3>3. y \o <<>> = y
      OBVIOUS
    <3>4. QED
      BY <1>1, <3>1, <3>2, <3>3
  <2>6. body = Bytes(0, o)
    BY <1>1, <2>3, BytesFollow
  <2>7. AtBody'
    <3>1. left' <= ServerCap /\ Len(body') <= left'
      BY <1>1, <1>3, <2>3, <2>4
    <3>2. broke' # "head" => body' = Bytes(0, Len(body'))
      BY <1>1, <2>4, <2>6
    <3>3. broke' # "head" => Coming(Due', broke', Bytes(Len(body'), left' - Len(body')) \o <<>>)
      BY <1>1, <2>2, <2>3, <2>4, <2>5
    <3>4. QED
      BY <1>1, <3>1, <3>2, <3>3 DEF AtBody
  <2>8. ServerTypes'
    BY <1>1, <1>3, <2>1 DEF ServerInv, ServerTypes, InHand
  <2>9. ServerCounts'
    BY <1>1, <1>3, <2>1 DEF ServerInv, ServerCounts, InHand
  <2>10. Stops'
    BY <1>1, <1>3, <2>1 DEF ServerInv, Stops
  <2>11. AtHead' /\ AtFits' /\ AtHandle'
    BY <1>3 DEF AtHead, AtFits, AtHandle
  <2>12. QED
    BY <2>7, <2>8, <2>9, <2>10, <2>11 DEF ServerInv
<1>4. QED
  BY <1>2, <1>3 DEF CheckFits

\* A piece of the body.
LEMMA ServerReadsBody ==
  ASSUME HttpAssumption, ServerInv, ReadBody
  PROVE  ServerInv'
<1>1. /\ where = "body" /\ Len(body) < left /\ UNCHANGED <<left, answer, handled>>
      /\ left \in Nat /\ ServerCap \in Nat /\ left <= ServerCap /\ broke \in {"no", "late", "cut", "head"}
      /\ (broke = "no" => answer = "line") /\ open \in BOOLEAN
      /\ inbox \in Seq(Tokens) /\ stream \in Seq(Tokens) /\ body \in Seq(Tokens)
      /\ (~open => stream = <<>>)
  BY DEF ReadBody, ServerInv, ServerTypes, ServerCounts, AtBody, HttpAssumption
<1>2. PICK m \in Nat : m = Len(body)
  <2>1. Len(body) \in Nat
    BY <1>1
  <2>2. QED
    BY <2>1
<1>3. PICK w \in Nat : w = left - m /\ m + w = left /\ w # 0
  <2>1. left - m \in Nat /\ m + (left - m) = left /\ left - m # 0
    BY <1>1, <1>2
  <2>2. QED
    BY <2>1
<1>4. PICK z \in Seq(Tokens) : z = <<>>
  BY LinesAreTokens
<1>5. broke # "head" => body = Bytes(0, m) /\ Coming(Due, broke, Bytes(m, w) \o z)
  BY <1>1, <1>2, <1>3, <1>4 DEF ServerInv, AtBody
<1>6. CASE /\ Take(Clip(left - Len(body)))
           /\ body' = body \o SubSeq(inbox, 1, Clip(left - Len(body)))
           /\ UNCHANGED <<where, broke>>
  <2>1. PICK n \in Nat : n = Clip(w) /\ n <= w /\ n <= Len(inbox)
    BY <1>1, ClipIs
  <2>2. Take(n) /\ body' = body \o SubSeq(inbox, 1, n)
    BY <1>2, <1>3, <1>6, <2>1
  <2>3. /\ UNCHANGED <<stream, open, serving, stopping, clients>> /\ inbox' \in Seq(Tokens)
        /\ body' \in Seq(Tokens) /\ Len(body') = m + n
    BY <1>1, <1>2, <2>1, <2>2, TakeAppends
  <2>4. m + n <= left /\ left - (m + n) = w - n
    BY <1>3, <2>1
  <2>5. AtBody'
    <3>1. left' <= ServerCap /\ Len(body') <= left'
      BY <1>1, <2>3, <2>4
    <3>2. ASSUME broke' # "head"
          PROVE  body' = Bytes(0, Len(body')) /\ Coming(Due', broke', Bytes(Len(body'), left' - Len(body')) \o <<>>)
      <4>1. broke # "head" /\ broke' = broke
        BY <1>6, <3>2
      <4>2. /\ inbox \in Seq(Tokens) /\ stream \in Seq(Tokens) /\ body = Bytes(0, m)
            /\ Coming(Due, broke, Bytes(m, w) \o z) /\ n <= w /\ n <= Len(inbox)
            /\ Take(n) /\ body' = body \o SubSeq(inbox, 1, n)
        BY <1>1, <1>5, <2>1, <2>2, <4>1
      <4>3. body' = Bytes(0, m + n) /\ Coming(Due', broke, Bytes(m + n, w - n) \o z)
        BY <4>2, TakeFollows
      <4>4. QED
        BY <1>1, <1>4, <2>3, <2>4, <4>1, <4>3
    <3>3. broke' = "no" => answer' = "line"
      BY <1>1, <1>6
    <3>4. QED
      BY <3>1, <3>2, <3>3 DEF AtBody
  <2>6. ServerTypes'
    BY <1>1, <1>6, <2>3 DEF ServerInv, ServerTypes
  <2>7. ServerCounts'
    BY <1>1, <1>6, <2>3 DEF ServerInv, ServerCounts
  <2>8. Stops'
    BY <1>1, <1>6, <2>3 DEF ServerInv, Stops
  <2>9. AtHead' /\ AtFits' /\ AtHandle'
    BY <1>1, <1>6 DEF AtHead, AtFits, AtHandle
  <2>10. QED
    BY <2>5, <2>6, <2>7, <2>8, <2>9 DEF ServerInv
<1>7. CASE NothingCame /\ where' = "handle" /\ UNCHANGED body
  <2>1. NothingFor("late")
    BY <1>7 DEF NothingCame
  <2>2. /\ inbox = <<>> /\ inbox' = inbox /\ UNCHANGED <<stream, open, serving, stopping, clients>>
        /\ broke' = broke \/ broke' = "late"
        /\ broke # "no" => broke' = broke
    BY <2>1, NothingLeaves
  <2>3. broke' # "no"
    <3>1. CASE broke = "head"
      BY <2>2, <3>1
    <3>2. CASE broke # "head"
      <4>1. PICK b \in Seq(Tokens) : b = Bytes(m, w) /\ Len(b) = w
        <5>1. Bytes(m, w) \in Seq(Tokens) /\ Len(Bytes(m, w)) = w
          BY BytesAre
        <5>2. QED
          BY <5>1
      <4>2. Len(b \o z) = Len(b) + Len(z) /\ Len(z) = 0
        BY <1>4
      <4>3. b \o z # <<>>
        BY <1>3, <4>1, <4>2
      <4>4. "late" # "no"
        OBVIOUS
      <4>5. Coming(Due, broke, b \o z)
        BY <1>5, <3>2, <4>1
      <4>6. QED
        BY <1>1, <2>1, <2>2, <4>3, <4>4, <4>5, NothingBroke
    <3>3. QED
      BY <3>1, <3>2
  <2>4. AtHandle'
    <3>1. broke' # "head" => body' = Bytes(0, Len(body'))
      BY <1>2, <1>5, <1>7, <2>2
    <3>2. Len(body') <= left'
      BY <1>1, <1>2, <1>3, <1>7
    <3>3. QED
      BY <1>1, <2>3, <3>1, <3>2 DEF AtHandle
  <2>5. ServerTypes'
    BY <1>1, <1>7, <2>2 DEF ServerInv, ServerTypes, InHand
  <2>6. ServerCounts'
    BY <1>1, <1>7, <2>2 DEF ServerInv, ServerCounts, InHand
  <2>7. Stops'
    BY <1>1, <1>7, <2>2 DEF ServerInv, Stops
  <2>8. AtHead' /\ AtFits' /\ AtBody'
    BY <1>7 DEF AtHead, AtFits, AtBody
  <2>9. QED
    BY <2>4, <2>5, <2>6, <2>7, <2>8 DEF ServerInv
<1>8. QED
  BY <1>6, <1>7 DEF ReadBody

\* The handler is called.
LEMMA ServerHandles ==
  ASSUME HttpAssumption, ServerInv, Handle
  PROVE  ServerInv'
<1>1. /\ where = "handle" \/ (where = "body" /\ Len(body) = left)
      /\ CloseClient /\ handled' = Append(handled, HandlerCall("handler"))
      /\ ServerQuiet /\ UNCHANGED <<left, body, answer, broke>>
      /\ left \in Nat /\ ServerCap \in Nat /\ body \in Seq(Tokens) /\ broke \in {"no", "late", "cut", "head"}
      /\ left <= ServerCap /\ Len(body) <= left
      /\ (broke # "head" => body = Bytes(0, Len(body)))
      /\ (broke = "no" => answer = "line" /\ Len(body) = left)
  BY DEF Handle, ServerInv, ServerTypes, AtBody, AtHandle, HttpAssumption
<1>2. Len(body) \in Nat
  BY <1>1
<1>3. HandlerCall("handler") \in TrueCalls
  <2>1. PICK c : c = HandlerCall("handler")
    OBVIOUS
  <2>2. c = [kind |-> "handler", line |-> answer = "line", body |-> body, claimed |-> left, broke |-> broke]
    BY <2>1 DEF HandlerCall
  <2>3. (answer = "line") \in BOOLEAN
    OBVIOUS
  <2>4. c \in Calls
    BY <1>1, <2>2, <2>3 DEF Calls
  <2>5. c.kind = "handler" /\ c.body = body /\ c.claimed = left /\ c.broke = broke /\ c.line = (answer = "line")
    BY <2>2
  <2>6. ~(c.claimed > ServerCap) /\ Len(c.body) <= ServerCap
    BY <1>1, <1>2, <2>5
  <2>7. c.broke = "no" => c.line /\ Len(c.body) = c.claimed
    BY <1>1, <2>5
  <2>8. c.broke # "head" => c.body = Bytes(0, Len(c.body)) /\ Len(c.body) <= c.claimed
    BY <1>1, <2>5
  <2>9. c.kind # "400"
    BY <2>5
  <2>10. QED
    BY <2>1, <2>4, <2>6, <2>7, <2>8, <2>9 DEF TrueCalls
<1>4. where \in InHand
  BY <1>1 DEF InHand
<1>5. QED
  BY <1>1, <1>3, <1>4, ServerFinishes

\* Every step of the server.
LEMMA ServerStep ==
  ASSUME HttpAssumption, ServerInv,
         \/ Arrive \/ PeerCloses \/ AcceptThread \/ StopServer \/ Joined \/ StartServer
         \/ \E n \in Lengths : Accept(n)
  PROVE  ServerInv'
<1>1. CASE AcceptThread
  BY <1>1, ServerPolls, ServerReadsHead, ServerChecks, ServerReadsBody, ServerHandles DEF AcceptThread
<1>2. QED
  BY <1>1, ServerBeforeTheNetwork, ServerStops, ServerAccepts

\* What a server's states say of the calls.
LEMMA ServerHasTheRequests ==
  ASSUME HttpAssumption, ServerInv
  PROVE  HandlerHearsTheRequest
<1>1. handled \in Seq(TrueCalls) /\ Len(handled) + (IF where \in InHand THEN 1 ELSE 0) = clients
      /\ clients \in Nat /\ (~serving /\ ~stopping => where = "off")
  BY DEF ServerInv, ServerTypes, ServerCounts, Stops
<1>2. Len(handled) = clients - (IF where \in {"head", "fits", "body", "handle"} THEN 1 ELSE 0)
  <2>1. Len(handled) \in Nat
    BY <1>1
  <2>2. QED
    BY <1>1, <2>1 DEF InHand
<1>3. ASSUME NEW i \in DOMAIN handled
      PROVE  LET c == handled[i] IN
         /\ c.kind = "400" <=> c.claimed > ServerCap
         /\ Len(c.body) <= ServerCap
         /\ c.broke # "head" => SQ!IsPrefix(c.body, Bytes(0, c.claimed))
         /\ c.broke = "no" /\ c.kind = "handler" => c.line /\ Len(c.body) = c.claimed
  <2>1. PICK c \in TrueCalls : c = handled[i]
    <3>1. handled[i] \in TrueCalls
      BY <1>1
    <3>2. QED
      BY <3>1
  <2>2. /\ c.kind = "400" <=> c.claimed > ServerCap
        /\ Len(c.body) <= ServerCap
        /\ c.broke # "head" => c.body = Bytes(0, Len(c.body)) /\ Len(c.body) <= c.claimed
        /\ c.broke = "no" /\ c.kind = "handler" => c.line /\ Len(c.body) = c.claimed
    BY DEF TrueCalls
  <2>3. c.body \in Seq(Tokens) /\ c.claimed \in Nat
    BY DEF TrueCalls, Calls
  <2>4. ASSUME c.broke # "head" PROVE SQ!IsPrefix(c.body, Bytes(0, c.claimed))
    <3>1. PICK n \in Nat : n = Len(c.body)
      <4>1. Len(c.body) \in Nat
        BY <2>3
      <4>2. QED
        BY <4>1
    <3>2. PICK total \in Nat : total = c.claimed
      BY <2>3
    <3>3. n <= total /\ c.body = Bytes(0, n)
      BY <2>2, <2>4, <3>1, <3>2
    <3>4. SQ!IsPrefix(Bytes(0, n), Bytes(0, total))
      BY <3>3, FrontIsPrefix
    <3>5. QED
      BY <3>2, <3>3, <3>4
  <2>5. QED
    BY <2>1, <2>2, <2>4
<1>4. QED
  BY <1>1, <1>2, <1>3 DEF HandlerHearsTheRequest

\* Which of the two it is.
HttpInv == /\ side \in {"client", "server"}
           /\ side = "client" /\ Modest => ClientInv
           /\ side = "server" => ServerInv

LEMMA HttpStarts ==
  ASSUME HttpAssumption, HttpInit
  PROVE  HttpInv
<1>1. <<>> \in Seq(Tokens) /\ Len(<<>>) = 0 /\ BodyCap \in Nat
  BY LinesAreTokens DEF HttpAssumption
<1>2. CASE side = "client"
  <2>1. ClientTypes /\ ClientCounts
    <3>1. /\ peer \in Answers /\ stream = <<>> /\ inbox = <<>> /\ body = <<>> /\ open = FALSE
          /\ chunked = FALSE /\ left = 0 /\ where = "call" /\ answer = "none"
      BY <1>2 DEF HttpInit
    <3>2. ClientTypes
      BY <1>1, <3>1 DEF ClientTypes
    <3>3. ClientCounts
      BY <1>1, <3>1 DEF ClientCounts
    <3>4. QED
      BY <3>2, <3>3
  <2>2. /\ AtCall /\ AtStatus /\ AtHeaders /\ AtSize /\ AtChunk /\ AtCRLF /\ AtPlain /\ AtDone
    BY <1>2 DEF HttpInit, AtCall, AtStatus, AtHeaders, AtSize, AtChunk, AtCRLF, AtPlain, AtDone
  <2>3. HeadFailed
    BY <1>2 DEF HttpInit, HeadFailed
  <2>4. QED
    BY <1>2, <2>1, <2>2, <2>3 DEF HttpInv, ClientInv
<1>3. CASE side = "server"
  <2>1. ServerTypes
    BY <1>1, <1>3 DEF HttpInit, ServerTypes
  <2>2. ServerCounts
    <3>1. <<>> \in Seq(TrueCalls) /\ Len(<<>>) + 0 = 0
      OBVIOUS
    <3>2. handled = <<>> /\ clients = 0 /\ where \notin InHand /\ stream = <<>> /\ open = FALSE
      BY <1>3 DEF HttpInit, InHand
    <3>3. QED
      BY <3>1, <3>2 DEF ServerCounts
  <2>3. Stops /\ AtHead /\ AtFits /\ AtBody /\ AtHandle
    BY <1>3 DEF HttpInit, Stops, AtHead, AtFits, AtBody, AtHandle
  <2>4. QED
    BY <1>3, <2>1, <2>2, <2>3 DEF HttpInv, ServerInv
<1>4. QED
  BY <1>2, <1>3 DEF HttpInit

LEMMA HttpSteps ==
  ASSUME HttpAssumption, HttpInv, [HttpNext]_httpVars
  PROVE  HttpInv'
<1>1. CASE UNCHANGED httpVars
  <2>1. UNCHANGED <<side, peer, stream, inbox, open, where, chunked, left, body, answer,
                    serving, stopping, clients, handled, broke>>
    BY <1>1 DEF httpVars
  <2>2. Due' = Due
    BY <2>1 DEF Due
  <2>3. CASE side = "client"
    BY <2>1, <2>2, <2>3 DEF HttpInv, Modest, ClientInv, ClientTypes, ClientCounts, HeadFailed, AtCall,
         AtStatus, AtHeaders, AtSize, AtChunk, AtCRLF, AtPlain, AtDone, Total, Afterwards
  <2>4. CASE side = "server"
    BY <2>1, <2>2, <2>4 DEF HttpInv, ServerInv, ServerTypes, ServerCounts, Stops, AtHead, AtFits, AtBody, AtHandle
  <2>5. QED
    BY <2>3, <2>4 DEF HttpInv
<1>2. CASE HttpNext
  <2>1. side' = side /\ peer' = peer
    BY <1>2 DEF HttpNext, Arrive, PeerCloses, Waiting, Client, Perform, ReadStatus, ReadHeader, ReadSize,
         ReadChunk, ReadCRLF, ReadPlain, NextLine, Take, NothingCame, NothingFor, Quiet,
         AcceptThread, LoopHead, PollNothing, ServerQuiet, ReadHead, CheckFits, ReadBody, Handle,
         Accept, StopServer, Joined, StartServer, Unmoved
  <2>2. CASE side = "client"
    <3>1. SUFFICES ASSUME Modest' PROVE ClientInv'
      BY <2>1, <2>2 DEF HttpInv
    <3>2. Modest
      BY <2>1, <3>1 DEF Modest
    <3>3. ClientInv
      BY <2>2, <3>2 DEF HttpInv
    <3>4. Client \/ Arrive \/ PeerCloses
      <4>1. ~Joined
        BY <3>3 DEF Joined, ClientInv, ClientTypes
      <4>2. QED
        BY <1>2, <2>2, <4>1 DEF HttpNext, AcceptThread, StopServer, StartServer
    <3>5. QED
      BY <3>2, <3>3, <3>4, ClientStep
  <2>3. CASE side = "server"
    <3>1. ServerInv
      BY <2>3 DEF HttpInv
    <3>2. ServerInv'
      BY <1>2, <2>3, <3>1, ServerStep DEF HttpNext, Client
    <3>3. QED
      BY <2>1, <2>3, <3>2 DEF HttpInv
  <2>4. QED
    BY <2>2, <2>3 DEF HttpInv
<1>3. QED
  BY <1>1, <1>2

\* Whatever pieces they come in and wherever the peer breaks off, what Http_perform
\* leaves in the buffer and what the server's handler is called with is what was
\* sent, from its beginning, all of it when nothing broke, and within the box.  Of
\* the client it holds as long as no announced chunk makes the sum wrap.
THEOREM BodiesArriveWhole == HttpSpec => []ExchangesAreWhole
<1>1. HttpInit => HttpInv
  BY HttpAssumption, HttpStarts
<1>2. HttpInv /\ [HttpNext]_httpVars => HttpInv'
  BY HttpAssumption, HttpSteps
<1>3. HttpInv => ExchangesAreWhole
  <2>1. CASE side = "client"
    BY <2>1, HttpAssumption, ClientHasTheAnswer
       DEF HttpInv, ExchangesAreWhole, AnswersAreWhole, HandlerHearsTheRequest
  <2>2. CASE side = "server"
    BY <2>2, HttpAssumption, ServerHasTheRequests DEF HttpInv, ExchangesAreWhole, AnswersAreWhole
  <2>3. QED
    BY <2>1, <2>2 DEF HttpInv
<1>4. QED
  BY <1>1, <1>2, <1>3, PTL DEF HttpSpec

=============================================================================
