-------------------------------- MODULE Http --------------------------------
(***************************************************************************)
(* net/http.c: one request of the client, and the micro server with its    *)
(* accept thread, each over a stream that the peer fills, cuts off or lets *)
(* wait, and that arrives in pieces of any size.                           *)
(*                                                                         *)
(* A line of a head is one token of the stream, and so is a byte of a      *)
(* body, numbered.  A receive that finds nothing ends at the peer's close, *)
(* or when its time is up.                                                 *)
(***************************************************************************)
EXTENDS Integers, Sequences

SQ == INSTANCE SequencesExt

CONSTANTS
  SizeValues,  \* how many values a size_t has, 2^64
  BodyCap,     \* bodyCap of the caller
  ServerCap,   \* SERVER_BODY_CAP
  Answers,     \* what a foreign server may answer, [chunked, sizes, long]
  Lengths,     \* the Content-Length of requests to our server
  MaxClients   \* bound: the connections made to our server

\* A chunk that is not the last has a byte at least, and strtoul answers no more
\* than the largest size_t.
ASSUME HttpAssumption ==
  /\ SizeValues \in Nat /\ BodyCap \in 0 .. SizeValues - 1 /\ ServerCap \in 0 .. SizeValues - 1
  /\ Answers \subseteq [chunked : BOOLEAN, sizes : Seq(Nat \ {0}), long : BOOLEAN]
  /\ \A a \in Answers : \A i \in DOMAIN a.sizes : a.sizes[i] < SizeValues
  /\ Lengths \subseteq Nat

VARIABLES
  side,      \* "client" or "server": what the behaviour uses
  peer,      \* what the peer means to send
  stream,    \* sent and not yet arrived
  inbox,     \* arrived and not yet read
  open,      \* FALSE once the peer has closed
  where,     \* where Http_perform or the accept loop is
  chunked,   \* the client has seen the header that says so
  left,      \* what is to come of a chunk; the server's contentLen
  body,      \* (*resp).body; s_serverBody up to total
  answer,    \* what Http_perform returns; on the server, that a request line came
  serving,   \* HttpServer.running
  stopping,  \* HttpServer_stop is in its pthread_join
  clients,   \* connections made
  handled,   \* history: the calls of the handler
  broke      \* history: why a receive fell short

httpVars == <<side, peer, stream, inbox, open, where, chunked, left, body, answer,
              serving, stopping, clients, handled, broke>>

Token(kind, n) == [kind |-> kind, n |-> n]
Bytes(from, n) == [i \in 1 .. n |-> Token("byte", from + i)]
CRLF == <<Token("CR", 0), Token("LF", 0)>>

\* The bytes of the first k chunks.
Upto(sizes, k) ==
  LET sum[j \in 0 .. Len(sizes)] == IF j = 0 THEN 0 ELSE sum[j - 1] + sizes[j] IN sum[k]

Content(sizes) == Bytes(0, Upto(sizes, Len(sizes)))

Chunk(sizes, i) == <<Token("size", sizes[i])>> \o Bytes(Upto(sizes, i - 1), sizes[i]) \o CRLF

\* The last m chunks, and the size that ends them.
LastChunks(sizes, m) ==
  LET last[j \in 0 .. Len(sizes)] ==
        IF j = 0 THEN <<Token("size", 0)>> ELSE Chunk(sizes, Len(sizes) + 1 - j) \o last[j - 1]
  IN  last[m]

\* What a foreign server sends.  A header line too long for the line buffer is
\* what fills the buffer and the rest.
Rest(a) == IF a.chunked THEN LastChunks(a.sizes, Len(a.sizes)) ELSE Content(a.sizes)
HeadEnd(a) ==
  (IF a.long THEN <<Token("long", 0), Token("rest", 0)>> ELSE <<>>) \o <<Token("blank", 0)>>
Answer(a) ==
  <<Token("status", 0)>> \o (IF a.chunked THEN <<Token("te", 0)>> ELSE <<>>)
  \o HeadEnd(a) \o Rest(a)

Request(n) == <<Token("line", 0), Token("length", n), Token("blank", 0)>> \o Bytes(0, n)

HttpInit ==
  /\ side \in {"client", "server"}
  /\ peer \in IF side = "client" THEN Answers ELSE {CHOOSE a \in Answers : TRUE}
  /\ stream = <<>> /\ inbox = <<>> /\ open = FALSE
  /\ where = IF side = "client" THEN "call" ELSE "top"
  /\ chunked = FALSE /\ left = 0 /\ body = <<>> /\ answer = "none"
  /\ serving = TRUE /\ stopping = FALSE /\ clients = 0
  /\ handled = <<>> /\ broke = "no"

-----------------------------------------------------------------------------
(* The peer and the network *)

Waiting == UNCHANGED <<side, peer, where, chunked, left, body, answer, serving, stopping,
                       clients, handled>>

Arrive ==
  /\ stream # <<>>
  /\ inbox' = Append(inbox, stream[1]) /\ stream' = Tail(stream)
  /\ Waiting /\ UNCHANGED <<open, broke>>

\* The first reason is kept.
Because(reason) == IF broke = "no" THEN reason ELSE broke

\* The peer closes, at the end or before.
PeerCloses ==
  /\ open /\ open' = FALSE /\ stream' = <<>>
  /\ broke' = IF stream = <<>> THEN broke ELSE Because("cut")
  /\ Waiting /\ UNCHANGED inbox

-----------------------------------------------------------------------------
(* Reading: a receive of at most n bytes takes what is there. *)

Clip(n) == IF n < Len(inbox) THEN n ELSE Len(inbox)

Quiet == UNCHANGED <<side, peer, stream, open, serving, stopping, clients>>

Take(n) ==
  /\ inbox # <<>> /\ n > 0
  /\ inbox' = SubSeq(inbox, n + 1, Len(inbox))
  /\ Quiet

\* The receive ends with nothing: SO_RCVTIMEO, or the close.
NothingFor(reason) ==
  /\ inbox = <<>>
  /\ broke' = IF open THEN Because(reason) ELSE broke
  /\ UNCHANGED inbox /\ Quiet
NothingCame == NothingFor("late")

NextLine(kinds) == Take(1) /\ inbox[1].kind \in kinds /\ UNCHANGED broke

-----------------------------------------------------------------------------
(* Http_perform *)

Answered(a) == where' = "done" /\ answer' = a

\* Connected, the request written; or not.
Perform ==
  /\ where = "call"
  /\ \/ /\ stream' = Answer(peer) /\ open' = TRUE /\ where' = "status"
        /\ UNCHANGED <<answer, broke>>
     \/ Answered("failed") /\ broke' = Because("refused") /\ UNCHANGED <<stream, open>>
  /\ UNCHANGED <<side, peer, inbox, chunked, left, body, serving, stopping, clients, handled>>

ReadStatus ==
  /\ where = "status"
  /\ \/ NextLine({"status"}) /\ where' = "headers" /\ UNCHANGED answer
     \/ NothingCame /\ Answered("failed")
  /\ UNCHANGED <<chunked, left, body, handled>>

BodyPart(c) == IF c THEN "size" ELSE "plain"

\* A line that cannot be read ends the head as the blank line does.
ReadHeader ==
  /\ where = "headers"
  /\ \/ NextLine({"te"}) /\ chunked' = TRUE /\ UNCHANGED where
     \/ NextLine({"blank", "long"}) /\ where' = BodyPart(chunked) /\ UNCHANGED chunked
     \/ NothingFor("head") /\ where' = BodyPart(chunked) /\ UNCHANGED chunked
  /\ UNCHANGED <<left, body, answer, handled>>

\* A line that is no number is a size of zero.  The sum that is held against the
\* buffer wraps: a size close to 2^64 passes, and what comes of that chunk is
\* written past the buffer, whatever is there.
ReadSize ==
  /\ where = "size"
  /\ \/ /\ Take(1)
        /\ IF inbox[1].n = 0
           THEN Answered("ok") /\ UNCHANGED <<left, broke>>
           ELSE IF (Len(body) + inbox[1].n) % SizeValues > BodyCap
           THEN Answered("failed") /\ broke' = Because("full") /\ UNCHANGED left
           ELSE where' = "chunk" /\ left' = inbox[1].n /\ UNCHANGED <<answer, broke>>
     \/ NothingCame /\ Answered("failed") /\ UNCHANGED left
  /\ UNCHANGED <<chunked, body, handled>>

\* A variant for checking: one receive is taken for the whole chunk.
ChunkAtOnce ==
  /\ where = "chunk"
  /\ \/ /\ Take(Clip(left))
        /\ body' = body \o SubSeq(inbox, 1, Clip(left))
        /\ left' = 0 /\ where' = "crlf"
        /\ UNCHANGED <<answer, broke>>
     \/ NothingCame /\ Answered("failed") /\ UNCHANGED <<left, body>>
  /\ UNCHANGED <<chunked, handled>>

ReadChunk ==
  /\ where = "chunk"
  /\ \/ /\ Take(Clip(left))
        /\ body' = body \o SubSeq(inbox, 1, Clip(left))
        /\ left' = left - Clip(left)
        /\ where' = IF left = Clip(left) THEN "crlf" ELSE "chunk"
        /\ UNCHANGED <<answer, broke>>
     \/ NothingCame /\ Answered("failed") /\ UNCHANGED <<left, body>>
  /\ UNCHANGED <<chunked, handled>>

\* One receive for two bytes: a CRLF that comes in two pieces fails the call.
ReadCRLF ==
  /\ where = "crlf"
  /\ \/ /\ Take(Clip(2))
        /\ IF Clip(2) = 2
           THEN where' = "size" /\ UNCHANGED <<answer, broke>>
           ELSE Answered("failed") /\ broke' = Because("split")
     \/ NothingCame /\ Answered("failed")
  /\ UNCHANGED <<chunked, left, body, handled>>

\* Without chunks the body ends with the stream, the buffer or the time.
ReadPlain ==
  /\ where = "plain"
  /\ \/ /\ Take(Clip(BodyCap - Len(body)))
        /\ body' = body \o SubSeq(inbox, 1, Clip(BodyCap - Len(body)))
        /\ UNCHANGED <<where, answer, broke>>
     \/ NothingCame /\ Answered("ok") /\ UNCHANGED body
     \/ Len(body) = BodyCap /\ Answered("ok") /\ UNCHANGED <<body, inbox, broke>> /\ Quiet
  /\ UNCHANGED <<chunked, left, handled>>

Client == /\ side = "client"
          /\ \/ Perform \/ ReadStatus \/ ReadHeader
             \/ ReadSize \/ ReadChunk \/ ReadCRLF \/ ReadPlain

-----------------------------------------------------------------------------
(* The micro server *)

ServerQuiet == UNCHANGED <<side, peer, serving, stopping, clients>>

\* The loop looks at the flag once a poll.
LoopHead ==
  /\ where = "top" /\ where' = IF serving THEN "poll" ELSE "off"
  /\ ServerQuiet
  /\ UNCHANGED <<stream, inbox, open, chunked, left, body, answer, handled, broke>>

PollNothing ==
  /\ where = "poll" /\ where' = "top"
  /\ ServerQuiet
  /\ UNCHANGED <<stream, inbox, open, chunked, left, body, answer, handled, broke>>

Accept(n) ==
  /\ where = "poll" /\ where' = "head"
  /\ clients < MaxClients /\ clients' = clients + 1
  /\ stream' = Request(n) /\ open' = TRUE /\ inbox' = <<>>
  /\ left' = 0 /\ body' = <<>> /\ answer' = "none" /\ broke' = "no"
  /\ UNCHANGED <<side, peer, chunked, serving, stopping, handled>>

\* Until the blank line, or until a line does not come.
ReadHead ==
  /\ where = "head"
  /\ \/ NextLine({"line"}) /\ answer' = "line" /\ UNCHANGED <<where, left>>
     \/ NextLine({"length"}) /\ left' = inbox[1].n /\ UNCHANGED <<where, answer>>
     \/ NextLine({"blank"}) /\ where' = "fits" /\ UNCHANGED <<answer, left>>
     \/ NothingFor("head") /\ where' = "fits" /\ UNCHANGED <<answer, left>>
  /\ UNCHANGED <<chunked, body, handled>>

CloseClient == stream' = <<>> /\ inbox' = <<>> /\ open' = FALSE /\ where' = "top"

HandlerCall(kind) == [kind |-> kind, line |-> answer = "line", body |-> body, claimed |-> left, broke |-> broke]

\* A body that the box cannot hold is answered by 400 and not read.
CheckFits ==
  /\ where = "fits"
  /\ IF left > ServerCap
     THEN CloseClient /\ handled' = Append(handled, HandlerCall("400"))
     ELSE where' = "body" /\ UNCHANGED <<stream, inbox, open, handled>>
  /\ ServerQuiet /\ UNCHANGED <<chunked, left, body, answer, broke>>

\* A variant for checking: the second piece overwrites the first.
ReadBodyOver ==
  /\ where = "body" /\ Len(body) < left
  /\ \/ /\ Take(Clip(left - Len(body)))
        /\ body' = SubSeq(inbox, 1, Clip(left - Len(body)))
                   \o SubSeq(body, Clip(left - Len(body)) + 1, Len(body))
        /\ UNCHANGED <<where, broke>>
     \/ NothingCame /\ where' = "handle" /\ UNCHANGED body
  /\ UNCHANGED <<chunked, left, answer, handled>>

ReadBody ==
  /\ where = "body" /\ Len(body) < left
  /\ \/ /\ Take(Clip(left - Len(body)))
        /\ body' = body \o SubSeq(inbox, 1, Clip(left - Len(body)))
        /\ UNCHANGED <<where, broke>>
     \/ NothingCame /\ where' = "handle" /\ UNCHANGED body
  /\ UNCHANGED <<chunked, left, answer, handled>>

\* The handler runs on the accept thread, whatever came of head and body.
Handle ==
  /\ where = "handle" \/ (where = "body" /\ Len(body) = left)
  /\ CloseClient /\ handled' = Append(handled, HandlerCall("handler"))
  /\ ServerQuiet /\ UNCHANGED <<chunked, left, body, answer, broke>>

AcceptThread == /\ side = "server"
                /\ \/ LoopHead \/ PollNothing
                   \/ ReadHead \/ CheckFits \/ ReadBody \/ Handle

Unmoved == UNCHANGED <<side, peer, stream, inbox, open, chunked, left, body, answer,
                      clients, handled, broke>>

StopServer ==
  /\ side = "server" /\ serving /\ ~stopping
  /\ serving' = FALSE /\ stopping' = TRUE
  /\ UNCHANGED where /\ Unmoved

\* pthread_join.
Joined ==
  /\ stopping /\ where = "off" /\ stopping' = FALSE
  /\ UNCHANGED <<where, serving>> /\ Unmoved

\* HttpServer_start on the same structure.
StartServer ==
  /\ side = "server" /\ ~serving /\ ~stopping /\ clients < MaxClients
  /\ serving' = TRUE /\ where' = "top"
  /\ UNCHANGED stopping /\ Unmoved

-----------------------------------------------------------------------------
HttpNext ==
  \/ Arrive \/ PeerCloses
  \/ Client
  \/ AcceptThread
  \/ \E n \in Lengths : side = "server" /\ Accept(n)
  \/ StopServer \/ Joined \/ StartServer

HttpSpec == HttpInit /\ [][HttpNext]_httpVars

\* The threads run on, and a receive ends when its time is up.
HttpProgress == Client \/ AcceptThread \/ Joined

-----------------------------------------------------------------------------
(* What Http_perform leaves in the buffer is what the peer sent, from its   *)
(* beginning and never more than fits: an answer in chunks that is "ok" is *)
(* whole, also in pieces; a plain one is when nothing broke; and it fails  *)
(* only for a reason.  The exception is a head with a line that does not   *)
(* fit the line buffer or does not come in time: it ends there, and the    *)
(* rest is taken for the body.  All of it holds of a peer that announces   *)
(* no chunk so long that the sum with what is there can wrap; of any other *)
(* nothing is said, for the buffer is overrun.                             *)
HeadIsWhole == ~peer.long /\ broke # "head"
Modest == \A i \in DOMAIN peer.sizes : BodyCap + peer.sizes[i] < SizeValues
AnswersAreWhole ==
  side = "client" /\ Modest =>
    /\ Len(body) <= BodyCap
    /\ HeadIsWhole => SQ!IsPrefix(body, Content(peer.sizes))
    /\ answer = "ok" /\ HeadIsWhole /\ (chunked \/ broke = "no") =>
         Len(body) = IF chunked \/ Len(Content(peer.sizes)) < BodyCap
                     THEN Len(Content(peer.sizes)) ELSE BodyCap
    /\ answer = "failed" => broke # "no"

(* The handler is called once for each connection that was not refused,     *)
(* with the bytes that came, and all of them if nothing broke, in a body   *)
(* that never outgrows the box; and not at all once a stop has returned.   *)
(* Of a head that does not come in time the rest is taken for the body.    *)
HandlerHearsTheRequest ==
  side = "server" =>
    /\ \A i \in DOMAIN handled :
         LET c == handled[i] IN
         /\ c.kind = "400" <=> c.claimed > ServerCap
         /\ Len(c.body) <= ServerCap
         /\ c.broke # "head" => SQ!IsPrefix(c.body, Bytes(0, c.claimed))
         /\ c.broke = "no" /\ c.kind = "handler" => c.line /\ Len(c.body) = c.claimed
    /\ Len(handled) = clients - (IF where \in {"head", "fits", "body", "handle"} THEN 1 ELSE 0)
    /\ ~serving /\ ~stopping => where = "off"

(* Whatever pieces they come in and wherever the peer breaks off, the body  *)
(* of a modest answer and the body that the handler is called with are     *)
(* what was sent.                                                          *)
ExchangesAreWhole == AnswersAreWhole /\ HandlerHearsTheRequest

(* A request ends and a stop returns, whatever the peer does: every receive *)
(* has its time, and the loop looks at the flag between two connections.  *)
HttpCallsReturn ==
  /\ side = "client" ~> where = "done"
  /\ stopping ~> ~stopping
=============================================================================
