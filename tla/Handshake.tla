----------------------------- MODULE Handshake -----------------------------
(***************************************************************************)
(* net/websocket.c, before the first frame: the URL taken apart, an address *)
(* of the host connected to, the request sent and the answer checked.       *)
(*                                                                         *)
(* A URL is a scheme and the characters behind it.  What the server sends   *)
(* is a sequence of words, of which "crlf" ends a line, ":" and " " are      *)
(* themselves and any other stands for its letters.                         *)
(***************************************************************************)
EXTENDS Integers, Sequences

CONSTANTS HostBytes,   \* WS_HOST_BYTES
          HostSlack,   \* what else an authority may hold: 8
          PathBytes,   \* WS_PATH_BYTES
          PortMax,     \* 65535
          Digits,      \* the characters that are digits, with their values
          Lower,       \* the words with capital letters, without them
          HeadMax,     \* WS_HANDSHAKE_MAX_BYTES
          ValueMax     \* the bytes of a header's value: 256

Rejected == [ok |-> FALSE]
FirstOf(c, s) == LET at == {i \in 1 .. Len(s) : s[i] = c} IN
                 IF at = {} THEN 0 ELSE CHOOSE i \in at : \A k \in at : i <= k
LastOf(c, s) == LET at == {i \in 1 .. Len(s) : s[i] = c} IN
                IF at = {} THEN 0 ELSE CHOOSE i \in at : \A k \in at : k <= i
Front(s, n) == SubSeq(s, 1, n)
Behind(s, n) == SubSeq(s, n + 1, Len(s))
Lesser(i, j) == IF i < j THEN i ELSE j

-----------------------------------------------------------------------------
(* wsParseUrl *)

\* A port read digit by digit; -1 when it is none or too large.
PortOf(s) ==
  LET value[i \in 0 .. Len(s)] ==
        IF i = 0 THEN 0
        ELSE IF value[i - 1] < 0 \/ s[i] \notin DOMAIN Digits \/ value[i - 1] * 10 + Digits[s[i]] > PortMax THEN -1
        ELSE value[i - 1] * 10 + Digits[s[i]]
  IN value[Len(s)]
DefaultPort(secure) == IF secure THEN 443 ELSE 80

\* [host] or [host]:port; a port behind the colon may be empty and is 0 then.
BracketHost(s, secure) ==
  LET close == FirstOf("]", s)
      after == Behind(s, close)
      port == IF after = <<>> THEN DefaultPort(secure) ELSE IF after[1] # ":" THEN -1 ELSE PortOf(Tail(after))
  IN IF close = 0 \/ port < 0 THEN Rejected ELSE [ok |-> TRUE, host |-> SubSeq(s, 2, close - 1), port |-> port]

\* host or host:port, at the last colon.
PlainHost(s, secure) ==
  LET colon == LastOf(":", s)
      port == IF colon = 0 THEN DefaultPort(secure) ELSE IF colon = Len(s) THEN -1 ELSE PortOf(Behind(s, colon))
  IN IF port < 0 THEN Rejected
     ELSE [ok |-> TRUE, host |-> IF colon = 0 THEN s ELSE Front(s, colon - 1), port |-> port]

\* A variant of it: the user is cut off at the first @.
ParseUrlFirstAt(scheme, rest) ==
  LET slash == FirstOf("/", rest)
      authority == IF slash = 0 THEN rest ELSE Front(rest, slash - 1)
      hostPort == Behind(authority, FirstOf("@", authority))
      secure == scheme = "wss://"
      target == IF hostPort # <<>> /\ hostPort[1] = "[" THEN BracketHost(hostPort, secure) ELSE PlainHost(hostPort, secure)
      path == IF slash = 0 THEN <<"/">> ELSE Behind(rest, slash - 1)
  IN IF \/ scheme \notin {"ws://", "wss://"} \/ Len(authority) \notin 1 .. HostBytes + HostSlack - 1
        \/ ~target.ok \/ Len(path) >= PathBytes
     THEN Rejected
     ELSE IF Len(target.host) \notin 1 .. HostBytes - 1 THEN Rejected
     ELSE [ok |-> TRUE, host |-> target.host, port |-> target.port, path |-> path, secure |-> secure]

\* wsParseUrl: the user is cut off at the last @.
ParseUrl(scheme, rest) ==
  LET slash == FirstOf("/", rest)
      authority == IF slash = 0 THEN rest ELSE Front(rest, slash - 1)
      hostPort == Behind(authority, LastOf("@", authority))
      secure == scheme = "wss://"
      target == IF hostPort # <<>> /\ hostPort[1] = "[" THEN BracketHost(hostPort, secure) ELSE PlainHost(hostPort, secure)
      path == IF slash = 0 THEN <<"/">> ELSE Behind(rest, slash - 1)
  IN IF \/ scheme \notin {"ws://", "wss://"} \/ Len(authority) \notin 1 .. HostBytes + HostSlack - 1
        \/ ~target.ok \/ Len(path) >= PathBytes
     THEN Rejected
     ELSE IF Len(target.host) \notin 1 .. HostBytes - 1 THEN Rejected
     ELSE [ok |-> TRUE, host |-> target.host, port |-> target.port, path |-> path, secure |-> secure]

\* What is accepted is the URL again when it is put together: behind a user, the host
\* or the host in brackets, then the port unless it is the usual one, then the path; and
\* neither the user nor the slash of a path is in the host.
Has(c, s) == FirstOf(c, s) # 0
PortTexts(port, secure, least) ==
  {<<":">> \o p : p \in {q \in UNION {[1 .. n -> DOMAIN Digits] : n \in least .. 3} : PortOf(q) = port}}
    \cup (IF port = DefaultPort(secure) THEN {<<>>} ELSE {})
UrlAgrees(scheme, rest) ==
  LET u == ParseUrl(scheme, rest)
      slash == FirstOf("/", rest)
      authority == IF slash = 0 THEN rest ELSE Front(rest, slash - 1)
      named(host, end) == LET whole == host \o end IN
        \/ authority = whole
        \/ LET n == Len(authority) - Len(whole) IN n > 0 /\ authority[n] = "@" /\ Behind(authority, n) = whole
  IN u.ok =>
       /\ ~Has("@", u.host) /\ ~Has("/", u.host) /\ u.host # <<>>
       /\ u.secure = (scheme = "wss://")
       /\ u.path = (IF slash = 0 THEN <<"/">> ELSE Behind(rest, slash - 1))
       /\ \/ \E end \in PortTexts(u.port, u.secure, 1) : named(u.host, end)
          \/ \E end \in PortTexts(u.port, u.secure, 0) : named(<<"[">> \o u.host \o <<"]">>, end)

-----------------------------------------------------------------------------
(* wsConnect: the addresses of the host one after the other. *)

\* What an address does: no socket, no flags, connected at once or within the time,
\* an error at once or within the time, nothing.
Connects(address) == address \in {"now", "later"}
Sockets(address) == address # "nosocket"
\* The state behind the first k addresses: the socket kept, or 0, and those open.
Connect(addresses) ==
  LET after[k \in 0 .. Len(addresses)] ==
        LET old == after[k - 1]
            a == addresses[k]
        IN IF k = 0 THEN [fd |-> 0, open |-> {}, waited |-> 0]
           ELSE IF old.fd # 0 \/ ~Sockets(a) THEN old
           ELSE IF Connects(a) THEN [fd |-> k, open |-> old.open \cup {k}, waited |-> old.waited]
           ELSE [old EXCEPT !.waited = @ + (IF a = "silent" THEN 1 ELSE 0)]
  IN after[Len(addresses)]

\* The socket is that of the first address that answers, no other is left open, and the
\* time is waited once for every address before it that is silent.
ConnectAgrees(addresses) ==
  LET c == Connect(addresses)
      good == {k \in 1 .. Len(addresses) : Connects(addresses[k])}
      last == IF good = {} THEN Len(addresses) + 1 ELSE c.fd
  IN /\ c.open = {c.fd} \ {0}
     /\ good = {} <=> c.fd = 0
     /\ good # {} => c.fd \in good /\ \A k \in good : c.fd <= k
     /\ \A k \in 1 .. Len(addresses) : (addresses[k] = "silent" /\ k < last) => c.waited > 0

-----------------------------------------------------------------------------
(* The answer *)

Lowered(w) == IF w \in DOMAIN Lower THEN Lower[w] ELSE w
Begins(value, word) == value # <<>> /\ Lowered(value[1]) = word

\* The words up to and with the end of the head, read one by one; 0 when it does not
\* come in time or is too long.
HeadEnd(stream) ==
  LET ends == {i \in 2 .. Lesser(Len(stream), HeadMax) : stream[i - 1] = "crlf" /\ stream[i] = "crlf"} IN
  IF ends = {} THEN 0 ELSE CHOOSE i \in ends : \A k \in ends : i <= k

\* The lines of a head.
LineAt(head, from) == LET rest == Behind(head, from) IN Front(rest, FirstOf("crlf", rest) - 1)
LineStarts(head) == {0} \cup {i \in 1 .. Len(head) - 1 : head[i] = "crlf"}

Trimmed(s) ==
  LET shown == {i \in 1 .. Len(s) : s[i] # " "} IN
  IF shown = {} THEN <<>>
  ELSE SubSeq(s, CHOOSE i \in shown : \A k \in shown : i <= k, CHOOSE i \in shown : \A k \in shown : k <= i)
Named(line, name) == Len(line) > 1 /\ Lowered(line[1]) = name /\ line[2] = ":"

\* wsHeaderValue: the first line of the name counts, even when its value is too long.
HeaderValue(head, name) ==
  LET named == {i \in LineStarts(head) : Named(LineAt(head, i), name)}
      first == CHOOSE i \in named : \A k \in named : i <= k
      value == Trimmed(Behind(LineAt(head, first), 2))
  IN IF named = {} \/ (named # {} /\ Len(value) + 1 > ValueMax) THEN Rejected ELSE [ok |-> TRUE, value |-> value]

\* wsHandshake, for a key whose answer is accept: what of the stream is read, and
\* whether the connection is open.
Answered(stream, accept) ==
  LET end == HeadEnd(stream)
      head == Front(stream, end)
      upgrade == HeaderValue(head, "upgrade")
      connection == HeaderValue(head, "connection")
      hash == HeaderValue(head, "accept")
      Refuse(n) == [open |-> FALSE, read |-> n]
  IN CASE end = 0 -> Refuse(Lesser(Len(stream), HeadMax))
       [] end > 0 /\ stream[1] # "101" -> Refuse(end)
       [] end > 0 /\ stream[1] = "101" ->
            IF /\ upgrade.ok /\ (upgrade.ok => Begins(upgrade.value, "websocket"))
               /\ connection.ok /\ (connection.ok => Begins(connection.value, "upgrade"))
               /\ hash.ok /\ (hash.ok => hash.value = <<accept>>)
            THEN [open |-> TRUE, read |-> end] ELSE Refuse(end)

\* Only an answer to this very request opens the connection, and what is read of the
\* stream is its head, so that the first frame is read next.
ValuesOf(head, name) == {Trimmed(Behind(LineAt(head, i), 2)) : i \in {j \in LineStarts(head) : Named(LineAt(head, j), name)}}
AnswerAgrees(stream, accept) ==
  LET a == Answered(stream, accept)
      head == Front(stream, a.read)
      first == {i \in LineStarts(head) : /\ Named(LineAt(head, i), "accept")
                                         /\ \A k \in LineStarts(head) : k < i => ~Named(LineAt(head, k), "accept")}
  IN /\ a.read <= Lesser(HeadMax, Len(stream))
     /\ \A i \in 2 .. a.read - 1 : ~(head[i - 1] = "crlf" /\ head[i] = "crlf")
     /\ a.open => /\ stream[1] = "101" /\ SubSeq(head, a.read - 1, a.read) = <<"crlf", "crlf">>
                  /\ \E v \in ValuesOf(head, "upgrade") : Begins(v, "websocket")
                  /\ \E v \in ValuesOf(head, "connection") : Begins(v, "upgrade")
                  /\ \A i \in first : Trimmed(Behind(LineAt(head, i), 2)) = <<accept>>
                  /\ first # {}
=============================================================================
