----------------------------- MODULE WebSocket -----------------------------
(***************************************************************************)
(* net/websocket.c: one client connection, driven by one caller, against a *)
(* peer that may send anything, stop in the middle of a frame or go away.  *)
(*                                                                         *)
(* A frame from the peer is an opcode, the fin bit and a payload of one    *)
(* part.  "bad" is every frame the client refuses by its header (reserved  *)
(* bits, a mask, a length over the cap, an unknown opcode, a control frame *)
(* in pieces) and the end of the stream; the part "cut" is a payload that  *)
(* does not arrive in time.  A text is valid when every "lead" is followed *)
(* by its "tail", which may be in the next frame.                          *)
(*                                                                         *)
(* The caller writes and closes when it likes, as vex_ws_source.c does: a  *)
(* write asks only for a transport, and a close frame written on a         *)
(* connection that has failed or was closed brings it up again.            *)
(***************************************************************************)
EXTENDS Naturals, SequencesExt

CONSTANTS
  Parts,      \* payloads the peer sends, of {"a", "lead", "tail", "cut"}
  Cap,        \* maxMessageBytes, in parts
  MaxFrames,  \* frames of the peer on one connection
  MaxWire,    \* frames of the peer in flight
  MaxWrites   \* frames on one connection, after which the caller writes none

ASSUME SocketAssumption ==
  /\ Parts \subseteq {"a", "lead", "tail", "cut"}
  /\ {Cap, MaxFrames, MaxWire, MaxWrites} \subseteq Nat

VARIABLES
  state,      \* WebSocket.state
  transport,  \* fd >= 0 or tls # null
  buffer,     \* message # null
  opcode,     \* messageOpcode: "none" between messages
  message,    \* the parts assembled so far
  poll,       \* "idle", "fresh" in a call of poll, "more" past its first frame
  out,        \* the frames sent on this connection: the caller's "frame" and
              \* "close", "reopen" for a close that brings it up again, the client's
              \* "pong" and "bye", and "cut" for part of any frame
  amiss,      \* auxiliary: "no", "failed" when a frame could not be read to its
              \* end, "up" when the connection was brought up after that
  wire,       \* the frames of the peer not yet read
  building,   \* the peer's message under way: its kind and parts, or <<>>
  pending,    \* auxiliary: what the peer has completed and poll not returned
  given,      \* the message poll has returned, borrowed until the next call
  frames      \* the bound's counter: frames the peer has sent on this connection

peerVars == <<wire, building, pending, frames>>
vars == <<state, transport, buffer, opcode, message, poll, out, amiss, given, peerVars>>

Broken == <<"broken", <<>>>>
Nothing == <<"none", <<>>>>

Init ==
  /\ state = "closed" /\ transport = FALSE /\ buffer = FALSE
  /\ opcode = "none" /\ message = <<>> /\ poll = "idle" /\ out = <<>> /\ amiss = "no"
  /\ wire = <<>> /\ building = <<>> /\ pending = <<>> /\ given = Nothing
  /\ frames = 0

-----------------------------------------------------------------------------
\* wsUtf8Valid, of a whole message.
ValidText(parts) ==
  \A i \in 1 .. Len(parts) :
    /\ parts[i] = "lead" => i < Len(parts) /\ parts[i + 1] = "tail"
    /\ parts[i] = "tail" => i > 1 /\ parts[i - 1] = "lead"

Deliverable(kind, parts) == kind = "text" => ValidText(parts)

Starts(f) == f.op \in {"text", "binary"}
IsData(f) == Starts(f) \/ f.op = "cont"

\* What the peer's next frame makes of its message under way.  A data frame that
\* fits what it has sent builds the message; one that does not, or is bad or cut,
\* breaks the stream.
Fits(under, f) == f.part # "cut" /\ (f.op = "cont" <=> under # <<>>)
Grown(under, f) ==
  IF f.op = "cont" THEN <<under[1], Append(under[2], f.part)>> ELSE <<f.op, <<f.part>>>>
UnderWay(under, f) ==
  IF ~IsData(f) \/ ~Fits(under, f) THEN under
  ELSE IF f.fin THEN <<>> ELSE Grown(under, f)

\* The message it completes, or the break, for the caller to be told of.
Breaks(under, f) ==
  \/ f.op = "bad"
  \/ IsData(f) /\ ~Fits(under, f)
  \/ IsData(f) /\ f.fin /\ ~Deliverable(Grown(under, f)[1], Grown(under, f)[2])
Completes(under, f) == Breaks(under, f) \/ (IsData(f) /\ f.fin)
Outcome(under, f) == IF Breaks(under, f) THEN Broken ELSE Grown(under, f)

PeerFrames ==
  [op : {"text", "cont"}, fin : BOOLEAN, part : Parts]
    \cup [op : {"binary"}, fin : BOOLEAN, part : {"a"}]
    \cup [op : {"ping", "pong", "close", "bad"}, fin : {TRUE}, part : {"a"}]

Peer ==
  /\ transport /\ frames < MaxFrames /\ Len(wire) < MaxWire
  /\ frames' = frames + 1
  /\ \E f \in PeerFrames :
       /\ wire' = Append(wire, f)
       /\ building' = UnderWay(building, f)
       /\ pending' = IF Completes(building, f) THEN Append(pending, Outcome(building, f)) ELSE pending
  /\ UNCHANGED <<state, transport, buffer, opcode, message, poll, out, amiss, given>>

-----------------------------------------------------------------------------
\* wsSendFrame: the whole frame goes out, or the call fails with none or part
\* of it written.
Sent(op) == out' = Append(out, op)
NotSent == out' \in {out, Append(out, "cut")}

\* The connection is up: frames are read and answered.
Up == state \in {"open", "closing"}

\* writeText, writeBinary and writePing, all the same here: whatever the state,
\* as long as there is a transport.
Write ==
  /\ poll = "idle" /\ transport /\ Len(out) < MaxWrites
  /\ \/ Sent("frame") /\ state' = state
     \/ NotSent /\ state' = "failed"
  /\ UNCHANGED <<transport, buffer, opcode, message, poll, amiss, given, peerVars>>

\* writeClose leaves a connection closing, one that has failed or was closed too.
WriteClose ==
  /\ poll = "idle" /\ transport /\ Len(out) < MaxWrites
  /\ \/ /\ Sent(IF Up THEN "close" ELSE "reopen") /\ state' = "closing"
        /\ amiss' = IF amiss = "failed" THEN "up" ELSE amiss
     \/ NotSent /\ state' = "failed" /\ amiss' = amiss
  /\ UNCHANGED <<transport, buffer, opcode, message, poll, given, peerVars>>

\* WebSocket_close: a close frame when open, then everything is released.
SayClose == IF state = "open" THEN Sent("bye") \/ NotSent ELSE UNCHANGED out
Release ==
  /\ state' = "closed" /\ transport' = FALSE /\ buffer' = FALSE
  /\ opcode' = "none" /\ message' = <<>>

\* What was under way is lost, and the message borrowed is freed.
HungUp ==
  /\ wire' = <<>> /\ building' = <<>> /\ pending' = <<>> /\ given' = Nothing
  /\ frames' = 0 /\ amiss' = "no"

Close ==
  /\ poll = "idle" /\ (transport \/ state # "closed")
  /\ SayClose /\ Release /\ HungUp
  /\ UNCHANGED poll

Fresh ==
  /\ opcode' = "none" /\ message' = <<>> /\ out' = <<>> /\ HungUp
  /\ UNCHANGED poll

\* A variant for checking: a rejected handshake drops the buffer only.
OpenKeepsSocket ==
  /\ poll = "idle"
  /\ Fresh
  /\ \/ state' = "failed" /\ transport' = FALSE /\ buffer' = FALSE
     \/ state' = "closed" /\ transport' = TRUE /\ buffer' = FALSE
     \/ state' = "open" /\ transport' = TRUE /\ buffer' = TRUE

\* WebSocket_open closes what there is and starts over.  A bad URL or a refused
\* connect leaves FAILED, a failed allocation or handshake goes through close.
Open ==
  /\ poll = "idle"
  /\ Fresh
  /\ \/ state' = "failed" /\ transport' = FALSE /\ buffer' = FALSE
     \/ state' = "closed" /\ transport' = FALSE /\ buffer' = FALSE
     \/ state' = "open" /\ transport' = TRUE /\ buffer' = TRUE

-----------------------------------------------------------------------------
\* poll is entered on a connection that is up; on any other it returns the
\* error or the close at once and changes nothing.
Poll ==
  /\ poll = "idle" /\ transport /\ Up
  /\ poll' = "fresh" /\ given' = Nothing
  /\ UNCHANGED <<state, transport, buffer, opcode, message, out, amiss, peerVars>>

\* With a budget of 0 it returns before it looks at the socket.
PollAtOnce ==
  /\ poll = "idle" /\ transport /\ Up
  /\ given' = Nothing
  /\ UNCHANGED <<state, transport, buffer, opcode, message, poll, out, amiss, peerVars>>

\* The budget is up, which is found out before the socket is looked at: a frame
\* that is ready may stay unread.
PollElapses ==
  /\ poll \in {"fresh", "more"}
  /\ poll' = "idle"
  /\ UNCHANGED <<state, transport, buffer, opcode, message, out, amiss, given, peerVars>>

\* poll(2) reports an error.
PollFails ==
  /\ poll \in {"fresh", "more"}
  /\ poll' = "idle" /\ state' = "failed"
  /\ UNCHANGED <<transport, buffer, opcode, message, out, amiss, given, peerVars>>

\* wsConsumeFrame reads the next frame.  On a connection that was brought up in
\* the middle of one, what it takes for a frame may be anything.
Read(f) ==
  /\ poll \in {"fresh", "more"} /\ wire # <<>>
  /\ f = Head(wire) \/ amiss = "up"
  /\ wire' = Tail(wire)
  /\ UNCHANGED <<transport, buffer, building, frames>>

OutOfOrder(f) == IsData(f) /\ (f.op = "cont" <=> opcode = "none")

\* The frame is not read to its end, or makes no message.
Fail ==
  /\ state' = "failed" /\ poll' = "idle"
  /\ amiss' = IF amiss = "no" THEN "failed" ELSE amiss

\* Refused before any of its payload is read.
Refuse(f) ==
  /\ Read(f)
  /\ f.op = "bad" \/ OutOfOrder(f)
  /\ Fail
  /\ UNCHANGED <<opcode, message, out, given, pending>>

\* A variant for checking: a ping's payload takes the place of the message's.
PingOverMessage(f) ==
  /\ Read(f) /\ f.op = "ping"
  /\ \/ Sent("pong") /\ state' = state /\ poll' = "more"
     \/ NotSent /\ state' = "failed" /\ poll' = "idle"
  /\ message' = <<f.part>>
  /\ UNCHANGED <<opcode, amiss, given, pending>>

\* A ping is answered, also between the fragments of a message and after our
\* close; a failed answer fails the connection.
Ping(f) ==
  /\ Read(f) /\ f.op = "ping"
  /\ \/ Sent("pong") /\ state' = state /\ poll' = "more"
     \/ NotSent /\ state' = "failed" /\ poll' = "idle"
  /\ UNCHANGED <<opcode, message, amiss, given, pending>>

Pong(f) ==
  /\ Read(f) /\ f.op = "pong"
  /\ poll' = "more"
  /\ UNCHANGED <<state, opcode, message, out, amiss, given, pending>>

\* A variant for checking: the close is answered in every state.
PeerCloseAnswersAlways(f) ==
  /\ Read(f) /\ f.op = "close"
  /\ Sent("bye") \/ NotSent
  /\ state' = "closed" /\ poll' = "idle"
  /\ UNCHANGED <<opcode, message, amiss, given, pending>>

\* A variant for checking: the answer to our own close is passed over.
PeerClosePassesOver(f) ==
  /\ Read(f) /\ f.op = "close"
  /\ SayClose
  /\ IF state = "open" THEN state' = "closed" /\ poll' = "idle" ELSE state' = state /\ poll' = "more"
  /\ UNCHANGED <<opcode, message, amiss, given, pending>>

\* The peer closes: it is answered unless we closed first, and whether the
\* answer goes out does not matter.
PeerClose(f) ==
  /\ Read(f) /\ f.op = "close"
  /\ SayClose
  /\ state' = "closed" /\ poll' = "idle"
  /\ UNCHANGED <<opcode, message, amiss, given, pending>>

\* A data frame in its place.  Its payload may not come, or exceed the cap; a
\* final frame delivers the message if it is valid.
Data(f) ==
  LET kind == IF Starts(f) THEN f.op ELSE opcode
      before == IF Starts(f) THEN <<>> ELSE message
      parts == Append(before, f.part)
  IN /\ Read(f) /\ IsData(f) /\ ~OutOfOrder(f)
     /\ UNCHANGED out
     /\ IF f.part = "cut" \/ Len(before) = Cap
        THEN Fail /\ opcode' = kind /\ message' = before /\ UNCHANGED <<given, pending>>
        ELSE IF ~f.fin
        THEN /\ poll' = "more" /\ UNCHANGED <<state, amiss>>
             /\ opcode' = kind /\ message' = parts /\ UNCHANGED <<given, pending>>
        ELSE IF ~Deliverable(kind, parts)
        THEN Fail /\ opcode' = kind /\ message' = parts /\ UNCHANGED <<given, pending>>
        ELSE /\ poll' = "idle" /\ UNCHANGED <<state, amiss>>
             /\ opcode' = "none" /\ message' = <<>>
             /\ given' = <<kind, parts>>
             /\ pending' = IF amiss = "up" THEN pending ELSE Tail(pending)

Consume ==
  \E f \in PeerFrames : Refuse(f) \/ Ping(f) \/ Pong(f) \/ PeerClose(f) \/ Data(f)

Next ==
  \/ Peer \/ Open \/ Close \/ Write \/ WriteClose
  \/ Poll \/ PollAtOnce \/ PollElapses \/ PollFails \/ Consume

Spec == Init /\ [][Next]_vars

\* A call of poll ends with its budget.  The caller calls it again, with a budget
\* that is not always up before the socket is looked at.
FairSpec == Spec /\ WF_vars(Poll) /\ WF_vars(PollElapses) /\ SF_vars(Consume)

-----------------------------------------------------------------------------
Kinds == {"text", "binary"}
Messages == Kinds \X Seq(Parts \cup {"a"})
Said == {"frame", "close", "reopen", "pong", "bye", "cut"}

\* The values the variables take.
SocketTypeOK ==
  /\ state \in {"closed", "open", "closing", "failed"}
  /\ transport \in BOOLEAN /\ buffer \in BOOLEAN
  /\ opcode \in {"none"} \cup Kinds
  /\ message \in Seq(Parts \cup {"a"})
  /\ poll \in {"idle", "fresh", "more"}
  /\ out \in Seq(Said)
  /\ amiss \in {"no", "failed", "up"}
  /\ wire \in Seq(PeerFrames)
  /\ building \in {<<>>} \cup Messages
  /\ pending \in Seq(Messages \cup {Broken})
  /\ given \in Messages \cup {Nothing}
  /\ frames \in Nat

\* A call of poll past its first checks works on a connection that is up.
PollsWhenUp == poll # "idle" => Up

-----------------------------------------------------------------------------
Channel == INSTANCE MessageChannel WITH spoiled <- amiss = "up"

\* Messages are delivered whole, once, in the order in which the peer sent
\* them: however they are cut into frames, whatever control frames come in
\* between, and none past a frame that breaks the protocol.  This ends where the
\* caller brings a connection up again on which a frame was not read to its end.
ImplementsChannel == Channel!Spec

\* isOpen means that no close frame went out on the connection, nor part of a
\* frame: a caller that asks it first writes nothing after those.
OpenIsUntouched == state = "open" => \A i \in 1 .. Len(out) : out[i] \in {"frame", "pong"}

\* Whatever the caller writes, the client by itself closes only where no close frame
\* and no part of a frame went out before, and answers no ping after it has answered
\* the peer's close or sent part of a frame, unless the caller brought the connection
\* up again since.
ClientKeepsQuiet ==
  \A j \in 1 .. Len(out), i \in 1 .. Len(out) :
    i < j => /\ out[j] = "bye" => out[i] \in {"frame", "pong"}
             /\ out[j] = "pong" /\ out[i] \in {"bye", "cut"} =>
                  \E k \in i + 1 .. j - 1 : out[k] = "reopen"

\* What is said after a close frame, or part of any frame, went out.
CloseIsLast == OpenIsUntouched /\ ClientKeepsQuiet

\* A connection that may still carry frames has its transport and its buffer,
\* and one whose transport is gone, also after a failed open, holds no memory.
HoldsWhatItNeeds ==
  /\ state \in {"open", "closing"} => transport /\ buffer
  /\ buffer = transport

\* A close of the peer is noticed, unless the connection fails first or is given
\* up: frames count from 0 again on the next one.
CloseIsNoticed ==
  amiss # "up" /\ (\E i \in DOMAIN wire : wire[i].op = "close")
    ~> state \in {"closed", "failed"} \/ frames = 0
=============================================================================
