-------------------------------- MODULE Json --------------------------------
(***************************************************************************)
(* net/json.c: a parser into a pool of nodes and a scratch buffer that the *)
(* caller owns, and a writer into a buffer that the caller owns.            *)
(*                                                                         *)
(* A text is a sequence of symbols: a literal or a number is one symbol of  *)
(* several bytes, and so are the four digits of a \u escape; every other    *)
(* symbol is a byte.  References and offsets count from 0, as in the code;  *)
(* -1 is no reference.                                                      *)
(***************************************************************************)
EXTENDS Integers, Sequences, FiniteSets

LOCAL INSTANCE TLC

SX == INSTANCE SequencesExt

CONSTANTS
  MaxDepth,   \* JSON_MAX_DEPTH
  WordMod,    \* the range of uint32_t
  PathKeyMax, \* the longest key in a path, 127
  Quote, Backslash, Nul, Space,
  Designator, \* Designator[b]: the letter that escapes byte b, \n for a newline
  Encoded     \* Encoded[h]: the UTF-8 bytes of the code point with digits h

Numbers == {"0", "1"}
Literals == {"true", "false", "null"}
SizeOf(sym) == CASE sym \in {"true", "null"} -> 4 [] sym = "false" -> 5 [] OTHER -> 1
SizeOfText(text) == SX!FoldLeft(LAMBDA n, sym : n + SizeOf(sym), 0, text)

\* A value: kind, the bytes of a string or the symbol of a scalar, the
\* elements, and for an object their keys.
Value(kind, text, kids, keys) == [kind |-> kind, text |-> text, kids |-> kids, keys |-> keys]
Scalar(sym) == Value(IF sym \in Numbers THEN "number" ELSE sym,
                     IF sym \in Numbers THEN <<sym>> ELSE <<>>, <<>>, <<>>)
Text(bytes) == Value("string", bytes, <<>>, <<>>)
Array(kids) == Value("array", <<>>, kids, <<>>)
Object(keys, kids) == Value("object", <<>>, kids, keys)

-----------------------------------------------------------------------------
(* The parser.  d is the document and the cursor, in which failed calls     *)
(* leave ok FALSE; refs of the calls are returned in d.ref.                 *)

NodeOf(type) == [type |-> type, child |-> -1, next |-> -1,
                 offset |-> 0, length |-> 0, inScratch |-> FALSE, number |-> "none"]

Peek(d) == IF d.p <= Len(d.src) THEN d.src[d.p] ELSE Nul
Failed(d) == [d EXCEPT !.ok = FALSE]
Past(d) == [d EXCEPT !.p = @ + 1]

\* allocNode, and the type the caller gives the node.
AllocNode(d, node) ==
  IF Len(d.nodes) >= d.nodeCap THEN Failed(d)
  ELSE [d EXCEPT !.nodes = Append(@, node), !.ref = Len(d.nodes)]

RECURSIVE SkipWs(_), Decode(_, _, _, _), ParseValue(_, _), ParseMembers(_, _, _, _, _)

SkipWs(d) == IF Peek(d) = Space THEN SkipWs(Past(d)) ELSE d

\* The bytes that one step of the decoding loop yields, and the symbols it takes.
Decoded(d) ==
  LET e == IF d.p < Len(d.src) THEN d.src[d.p + 1] ELSE Nul
      h == IF d.p + 1 < Len(d.src) THEN d.src[d.p + 2] ELSE Nul
      unescaped == {b \in DOMAIN Designator : Designator[b] = e}
  IN IF Peek(d) # Backslash THEN [taken |-> 1, bytes |-> <<Peek(d)>>]
     ELSE IF unescaped # {} THEN [taken |-> 2, bytes |-> <<CHOOSE b \in unescaped : TRUE>>]
     ELSE IF e = "u" /\ h \in DOMAIN Encoded THEN [taken |-> 3, bytes |-> Encoded[h]]
     ELSE [taken |-> 0, bytes |-> <<>>]

\* The slow path of parseStringBody: out is what has been decoded so far.
Decode(d, dst, capLeft, out) ==
  LET step == Decoded(d) IN
  IF Peek(d) = Nul THEN Failed(d)
  ELSE IF Peek(d) = Quote
  THEN [Past(d) EXCEPT !.view = [offset |-> dst, length |-> Len(out), inScratch |-> TRUE],
                       !.used = dst + Len(out) + 1,
                       !.scratch = [k \in DOMAIN d.scratch \cup dst .. dst + Len(out) |->
                          IF k \in dst .. dst + Len(out) - 1 THEN out[k - dst + 1]
                          ELSE IF k = dst + Len(out) /\ k + 1 < d.scratchCap THEN Nul
                          ELSE IF k \in DOMAIN d.scratch THEN d.scratch[k] ELSE "junk"]]
  ELSE IF step.taken = 0 \/ Len(out) + Len(step.bytes) > capLeft THEN Failed(d)
  ELSE Decode([d EXCEPT !.p = @ + step.taken], dst, capLeft, out \o step.bytes)

\* A variant for checking: a string is viewed in place, escapes or not.
ParseStringInPlace(d) ==
  LET rest == {k \in d.p .. Len(d.src) : d.src[k] = Quote}
      end == CHOOSE k \in rest : \A j \in rest : k <= j
  IN IF rest = {} THEN Failed(d)
     ELSE [d EXCEPT !.p = end + 1,
             !.view = [offset |-> d.p, length |-> end - d.p, inScratch |-> FALSE]]

\* parseStringBody, after the opening quote: a view into the text, or, when
\* there is an escape, a copy in scratch.  The capacity left is a difference
\* of two uint32_t.
ParseStringBody(d) ==
  LET rest == {k \in d.p .. Len(d.src) : d.src[k] \in {Quote, Backslash}}
      end == CHOOSE k \in rest : \A j \in rest : k <= j
  IN IF rest = {} THEN Failed(d)
     ELSE IF d.src[end] = Quote
     THEN [d EXCEPT !.p = end + 1,
             !.view = [offset |-> d.p, length |-> end - d.p, inScratch |-> FALSE]]
     ELSE Decode(d, d.used, (d.scratchCap - d.used) % WordMod, <<>>)

Viewing(node, view) == [node EXCEPT !.offset = view.offset, !.length = view.length,
                                    !.inScratch = view.inScratch]

\* After a key and its blanks: the colon, and the node of the member.
Colon(key, at) ==
  IF ~key.ok \/ Peek(at) # ":" THEN Failed(at)
  ELSE AllocNode(Past(at), Viewing(NodeOf("null"), key.view))
AfterKey(key) == Colon(key, SkipWs(key))

\* The node of a member or of an element, which is of type null.
NewMember(d, at, isObject) ==
  IF ~isObject THEN AllocNode(d, NodeOf("null"))
  ELSE IF Peek(at) # Quote THEN Failed(at)
  ELSE AfterKey(ParseStringBody(Past(at)))

\* A member that has its value goes behind the tail, or first below its owner.
Linked(value, member, owner, tail) ==
  [value EXCEPT
     !.nodes = [[@ EXCEPT ![member + 1].child = value.ref] EXCEPT
                   ![(IF tail < 0 THEN owner ELSE tail) + 1] =
                      IF tail < 0 THEN [@ EXCEPT !.child = member]
                      ELSE [@ EXCEPT !.next = member]]]

\* What is behind a member: a comma and the next, or the end of its owner.
AfterMember(d, member, owner, isObject, depth) ==
  IF Peek(d) = "," THEN ParseMembers(Past(d), owner, member, isObject, depth)
  ELSE IF Peek(d) = (IF isObject THEN "}" ELSE "]") THEN [Past(d) EXCEPT !.ref = owner]
  ELSE Failed(d)
MemberDone(value, member, owner, tail, isObject, depth) ==
  IF ~value.ok THEN value
  ELSE AfterMember(SkipWs(Linked(value, member, owner, tail)), member, owner, isObject, depth)

MemberFrom(member, owner, tail, isObject, depth) ==
  IF ~member.ok THEN member
  ELSE MemberDone(ParseValue(member, depth + 1), member.ref, owner, tail, isObject, depth)

\* The members of an object or the elements of an array, from the first on;
\* each has a node of its own, whose child is the value.
ParseMembers(d, owner, tail, isObject, depth) ==
  MemberFrom(NewMember(d, SkipWs(d), isObject), owner, tail, isObject, depth)

\* parseObject and parseArray, at the bracket.
Opened(d, at, isObject, depth) ==
  IF ~d.ok THEN d
  ELSE IF Peek(at) = (IF isObject THEN "}" ELSE "]") THEN Past(at)
  ELSE ParseMembers(at, d.ref, -1, isObject, depth)
Container(made, isObject, depth) == Opened(made, SkipWs(Past(made)), isObject, depth)
ParseContainer(d, isObject, depth) ==
  Container(AllocNode(d, NodeOf(IF isObject THEN "object" ELSE "array")), isObject, depth)

ParseString(string) ==
  IF string.ok THEN AllocNode(string, Viewing(NodeOf("string"), string.view)) ELSE string

ValueFrom(at, c, depth) ==
  CASE c \in {"{", "["} -> ParseContainer(at, c = "{", depth)
    [] c = Quote -> ParseString(ParseStringBody(Past(at)))
    [] c \in Literals -> AllocNode(Past(at), NodeOf(c))
    [] c \in Numbers -> AllocNode(Past(at), [NodeOf("number") EXCEPT !.number = c])
    [] OTHER -> Failed(at)
ParseAt(at, depth) == ValueFrom(at, Peek(at), depth)
ParseValue(d, depth) == IF depth > MaxDepth THEN Failed(d) ELSE ParseAt(SkipWs(d), depth)

AllRead(d, end) == IF d.ok /\ Peek(end) # Nul THEN Failed(end) ELSE end
Document(d) == AllRead(d, SkipWs(d))

\* Json_parse
ParseText(text, nodeCap, scratchCap) ==
  Document(ParseValue([ok |-> TRUE, p |-> 1, ref |-> -1, nodes |-> <<>>, used |-> 0,
                       view |-> [offset |-> 0, length |-> 0, inScratch |-> FALSE],
                       scratch |-> [k \in {} |-> Nul],
                       src |-> text, nodeCap |-> nodeCap, scratchCap |-> scratchCap], 0))

-----------------------------------------------------------------------------
(* Reading the document *)

\* Json_string and Json_key
Viewed(d, node) ==
  [k \in 1 .. node.length |->
     IF node.inScratch THEN d.scratch[node.offset + k - 1] ELSE d.src[node.offset + k - 1]]

RECURSIVE ValueAt(_, _), Chain(_, _)
Chain(d, ref) == IF ref < 0 THEN <<>> ELSE <<ref>> \o Chain(d, d.nodes[ref + 1].next)

\* The value at a reference, by Json_type, Json_count, Json_at and Json_key.
ValueAt(d, ref) ==
  LET node == d.nodes[ref + 1]
      chain == Chain(d, node.child)
      kids == [k \in DOMAIN chain |-> ValueAt(d, d.nodes[chain[k] + 1].child)]
  IN CASE node.type = "string" -> Text(Viewed(d, node))
       [] node.type = "number" -> Scalar(node.number)
       [] node.type = "array" -> Array(kids)
       [] node.type = "object" ->
            Object([k \in DOMAIN chain |-> Viewed(d, d.nodes[chain[k] + 1])], kids)
       [] OTHER -> Scalar(node.type)

\* Json_member of an object: the first member with this key.
Member(d, obj, key) ==
  LET chain == Chain(d, d.nodes[obj + 1].child)
      hits == {k \in DOMAIN chain : Viewed(d, d.nodes[chain[k] + 1]) = key}
  IN IF hits = {} THEN -1
     ELSE d.nodes[chain[CHOOSE k \in hits : \A j \in hits : k <= j] + 1].child

\* Json_at: by place, in an array or in an object.
At(d, ref, index) ==
  LET chain == Chain(d, d.nodes[ref + 1].child) IN
  IF d.nodes[ref + 1].type \in {"array", "object"} /\ index < Len(chain)
  THEN d.nodes[chain[index + 1] + 1].child ELSE -1

\* The first symbols of a path that are, or are not, among some.
While(path, symbols) ==
  LET others == {k \in DOMAIN path : path[k] \notin symbols} IN
  IF others = {} THEN path ELSE SubSeq(path, 1, (CHOOSE k \in others : \A j \in others : k <= j) - 1)
IndexOf(digits) == SX!FoldLeft(LAMBDA n, c : (10 * n + (IF c = "1" THEN 1 ELSE 0)) % WordMod, 0, digits)

\* A variant for checking: an index needs no bracket behind it.
PathIndexOpen(rest, digits) == digits # <<>>

\* The digits of an index, and the bracket behind them.
PathIndex(rest, digits) == digits # <<>> /\ Len(rest) > Len(digits) /\ rest[Len(digits) + 1] = "]"

RECURSIVE PathFrom(_, _, _)
\* The loop of Json_path: a dot is passed over wherever it stands, a key leads
\* to a member, and an index in brackets to an element.
PathFrom(d, cur, path) ==
  LET key == While(path, {path[k] : k \in DOMAIN path} \ {".", "["})
      digits == While(Tail(path), Numbers)
      by == IF Head(path) = "["
            THEN IF PathIndex(Tail(path), digits)
                 THEN [ref |-> At(d, cur, IndexOf(digits)), taken |-> Len(digits) + 2]
                 ELSE [ref |-> -1, taken |-> 0]
            ELSE IF Len(key) <= PathKeyMax /\ d.nodes[cur + 1].type = "object"
                 THEN [ref |-> Member(d, cur, key), taken |-> Len(key)]
                 ELSE [ref |-> -1, taken |-> 0]
  IN IF path = <<>> THEN cur
     ELSE IF Head(path) = "." THEN PathFrom(d, cur, Tail(path))
     ELSE IF by.ref < 0 THEN -1
     ELSE PathFrom(d, by.ref, SubSeq(path, by.taken + 1, Len(path)))
PathOf(d, path) == IF path = <<>> THEN -1 ELSE PathFrom(d, d.ref, path)

\* Json_getBool, Json_getNumber and Json_getString
GetBool(d, ref, def) ==
  IF ref < 0 \/ d.nodes[ref + 1].type \notin {"true", "false"} THEN def ELSE d.nodes[ref + 1].type
GetNumber(d, ref, def) ==
  IF ref < 0 \/ d.nodes[ref + 1].type # "number" THEN def ELSE d.nodes[ref + 1].number
GetString(d, ref) ==
  IF ref < 0 \/ d.nodes[ref + 1].type # "string" THEN <<"none">> ELSE Viewed(d, d.nodes[ref + 1])

-----------------------------------------------------------------------------
(* The writer.  needComma[k] is of the container at depth k; a call that    *)
(* finds ok FALSE does nothing.                                             *)

NewWriter(cap) == [out |-> <<>>, cap |-> cap, ok |-> cap > 0, depth |-> 0,
                   needComma |-> [k \in 1 .. MaxDepth |-> FALSE]]
WriterFail(w) == [w EXCEPT !.ok = FALSE]

\* writerAppend and writerPut: all of it and the terminator, or none of it.
Put(w, text) ==
  IF ~w.ok \/ text = <<>> THEN w
  ELSE IF SizeOfText(w.out) + SizeOfText(text) >= w.cap THEN WriterFail(w)
  ELSE [w EXCEPT !.out = @ \o text]

ValueOpen(w) ==
  IF ~w.ok \/ w.depth = 0 THEN w
  ELSE IF w.needComma[w.depth]
  THEN LET p == Put(w, <<",">>) IN IF p.ok THEN [p EXCEPT !.needComma[w.depth] = FALSE] ELSE p
  ELSE w

ValueClose(w) == IF ~w.ok \/ w.depth = 0 THEN w ELSE [w EXCEPT !.needComma[w.depth] = TRUE]

\* Json_beginObject and Json_beginArray: the depth is tested after the bracket.
Begin(w, bracket) ==
  LET p == Put(ValueOpen(w), <<bracket>>) IN
  IF ~p.ok THEN p
  ELSE IF p.depth >= MaxDepth THEN WriterFail(p)
  ELSE [p EXCEPT !.needComma[p.depth + 1] = FALSE, !.depth = @ + 1]

\* Json_endObject and Json_endArray
End(w, bracket) ==
  IF ~w.ok THEN w
  ELSE IF w.depth <= 0 THEN WriterFail(w)
  ELSE LET p == Put(w, <<bracket>>) IN
       IF p.ok THEN ValueClose([p EXCEPT !.depth = @ - 1]) ELSE p

\* writerStringBody
StringBody(w, bytes) ==
  SX!FoldLeft(LAMBDA u, b : Put(u, IF b \in DOMAIN Designator THEN <<Backslash, Designator[b]>>
                                   ELSE <<b>>), w, bytes)

\* Json_addKey
AddKey(w, key) ==
  IF ~w.ok THEN w
  ELSE IF w.depth <= 0 THEN WriterFail(w)
  ELSE LET comma == IF w.needComma[w.depth] THEN Put(w, <<",">>) ELSE w
           done == Put(StringBody(Put(comma, <<Quote>>), key), <<Quote, ":">>)
       IN IF done.ok THEN [done EXCEPT !.needComma[w.depth] = FALSE] ELSE done

\* Json_stringVal, numberVal, boolVal, nullVal
PutString(w, bytes) ==
  ValueClose(Put(StringBody(Put(ValueOpen(w), <<Quote>>), bytes), <<Quote>>))
PutScalar(w, sym) == ValueClose(Put(ValueOpen(w), <<sym>>))

RECURSIVE Write(_, _)
\* The calls a caller makes for a value.
Write(w, v) ==
  CASE v.kind = "string" -> PutString(w, v.text)
    [] v.kind = "number" -> PutScalar(w, v.text[1])
    [] v.kind = "array" ->
         End(SX!FoldLeft(Write, Begin(w, "["), v.kids), "]")
    [] v.kind = "object" ->
         End(SX!FoldLeft(LAMBDA u, k : Write(AddKey(u, v.keys[k]), v.kids[k]),
                         Begin(w, "{"), [k \in DOMAIN v.keys |-> k]), "}")
    [] OTHER -> PutScalar(w, v.kind)

\* Json_writeString: in one call; the last test asks for a byte more than the
\* text and its terminator take.
WriteString(bytes, cap) ==
  LET esc(b) == IF b \in DOMAIN Designator THEN <<Backslash, Designator[b]>> ELSE <<b>>
      Next1(w, b) == IF ~w.ok \/ Len(w.out) + Len(esc(b)) >= cap THEN [w EXCEPT !.ok = FALSE]
                     ELSE [w EXCEPT !.out = @ \o esc(b)]
      body == SX!FoldLeft(Next1, [ok |-> TRUE, out |-> <<Quote>>], bytes)
  IN IF cap < 2 THEN [ok |-> FALSE, out |-> <<>>]
     ELSE IF ~body.ok \/ Len(body.out) + 2 >= cap THEN [body EXCEPT !.ok = FALSE]
     ELSE [body EXCEPT !.out = Append(@, Quote)]

-----------------------------------------------------------------------------
(* What is owed *)

RECURSIVE Spell(_, _), NodesOf(_), DepthOf(_), Nesting(_), StringsOf(_)

\* The text of a value; spaced out and with every known byte escaped, or plain.
SpellBytes(bytes, loose) ==
  <<Quote>> \o SX!FlattenSeq([k \in DOMAIN bytes |->
     IF bytes[k] \in DOMAIN Designator THEN <<Backslash, Designator[bytes[k]]>>
     ELSE IF loose /\ \E h \in DOMAIN Encoded : Encoded[h] = <<bytes[k]>>
     THEN <<Backslash, "u", CHOOSE h \in DOMAIN Encoded : Encoded[h] = <<bytes[k]>> >>
     ELSE <<bytes[k]>>]) \o <<Quote>>
Spell(v, loose) ==
  LET gap == IF loose THEN <<Space>> ELSE <<>>
      Item(k) == (IF k > 1 THEN <<",">> ELSE <<>>)
                   \o (IF v.kind = "object"
                       THEN gap \o SpellBytes(v.keys[k], loose) \o gap \o <<":">> ELSE <<>>)
                   \o Spell(v.kids[k], loose)
      items == SX!FlattenSeq([k \in DOMAIN v.kids |-> Item(k)])
  IN gap \o (CASE v.kind = "string" -> SpellBytes(v.text, loose)
               [] v.kind = "number" -> v.text
               [] v.kind = "array" -> <<"[">> \o items \o gap \o <<"]">>
               [] v.kind = "object" -> <<"{">> \o items \o gap \o <<"}">>
               [] OTHER -> <<v.kind>>) \o gap

\* What a value takes of the pool, of the depth and, for its escaped strings,
\* of the scratch buffer.
NodesOf(v) == 1 + SX!FoldLeft(LAMBDA n, k : n + 1 + NodesOf(k), 0, v.kids)
DepthOf(v) == LET sub == {0} \cup {1 + DepthOf(v.kids[k]) : k \in DOMAIN v.kids}
              IN CHOOSE n \in sub : \A m \in sub : m <= n
Nesting(v) == IF v.kind \notin {"array", "object"} THEN 0
              ELSE LET sub == {0} \cup {Nesting(v.kids[k]) : k \in DOMAIN v.kids}
                   IN 1 + CHOOSE n \in sub : \A m \in sub : m <= n
StringsOf(v) == SX!FoldLeft(LAMBDA s, k : s \o StringsOf(k),
                            v.keys \o (IF v.kind = "string" THEN <<v.text>> ELSE <<>>), v.kids)
ScratchOf(v, loose) ==
  SX!FoldLeft(LAMBDA n, s : IF Backslash \in SX!ToSet(SpellBytes(s, loose)) THEN n + Len(s) + 1 ELSE n,
              0, StringsOf(v))

\* The writer's text is the value's, cut off nowhere: when it does not fit the
\* buffer with its terminator, the writer says so, and what it has written by
\* then fits and is the beginning of it.
WritesTheText(v, cap) ==
  LET w == Write(NewWriter(cap), v)
      text == Spell(v, FALSE)
  IN /\ SX!IsPrefix(w.out, text)
     /\ cap > 0 => SizeOfText(w.out) < cap
     /\ w.ok => w.out = text
     /\ SizeOfText(text) < cap /\ Nesting(v) <= MaxDepth => w.ok

\* The parser reads a value back from either spelling when pool, scratch and
\* depth are large enough, and refuses it when the pool or the depth is not;
\* whatever it accepts is the value, each key leading to the first of its
\* members, unless a string has filled the scratch to its last byte.  It
\* refuses every text that stops short and every text that goes on.
IsValue(d, v) ==
  /\ ValueAt(d, d.ref) = v
  /\ v.kind = "object" =>
       \A k \in DOMAIN v.keys :
         ValueAt(d, Member(d, d.ref, v.keys[k]))
           = v.kids[CHOOSE j \in 1 .. k : v.keys[j] = v.keys[k]
                                          /\ \A i \in 1 .. j - 1 : v.keys[i] # v.keys[k]]
Reads(v, d, room, scratch) ==
  /\ d.ok /\ d.used <= d.scratchCap => room /\ IsValue(d, v)
  /\ room /\ d.scratchCap >= scratch => d.ok
ReadsTheText(v, loose, nodeCap, scratchCap) ==
  LET text == Spell(v, loose)
      wrong == {Append(text, sym) : sym \in {"]", ",", "true"}}
                 \cup (IF loose THEN {} ELSE {SubSeq(text, 1, k) : k \in 0 .. Len(text) - 1})
  IN /\ Reads(v, ParseText(text, nodeCap, scratchCap),
              nodeCap >= NodesOf(v) /\ DepthOf(v) <= MaxDepth, ScratchOf(v, loose))
     /\ \A bad \in wrong : ~ParseText(bad, nodeCap, scratchCap).ok

\* Where a hop leads in a value: an element by its place, a member by its key.
Follow(v, hop) ==
  LET hits == IF hop[1] = "at" THEN {k \in DOMAIN v.kids : k = hop[2] + 1}
              ELSE {k \in DOMAIN v.keys : v.keys[k] = hop[2]}
  IN IF hits = {} THEN <<>> ELSE <<v.kids[CHOOSE k \in hits : \A j \in hits : k <= j]>>

\* A path leads where its hops lead one after the other, in each of its
\* spellings, and nowhere when one of them does; one with an index that is not
\* closed or has no digits leads nowhere.  What the value there is not, the
\* getters answer with what the caller gave them.
Spelled(hop, dotted) ==
  IF hop[1] = "at" THEN <<"[", ToString(hop[2]), "]">> ELSE (IF dotted THEN <<".">> ELSE <<>>) \o hop[2]
GettersAgree(d, ref, v) ==
  /\ GetBool(d, ref, "def") = IF v # <<>> /\ v[1].kind \in {"true", "false"} THEN v[1].kind ELSE "def"
  /\ GetNumber(d, ref, "def") = IF v # <<>> /\ v[1].kind = "number" THEN v[1].text[1] ELSE "def"
  /\ GetString(d, ref) = IF v # <<>> /\ v[1].kind = "string" THEN v[1].text ELSE <<"none">>
PathsLead(v, hops) ==
  LET d == ParseText(Spell(v, FALSE), 20, 20) IN
  d.ok => \A a \in hops, b \in hops :
    LET there == Follow(v, a)
        further == IF there = <<>> THEN <<>> ELSE Follow(there[1], b)
        To(path) == PathOf(d, path)
        Leads(ref, w) == IF w = <<>> THEN ref = -1 ELSE ref >= 0 /\ ValueAt(d, ref) = w[1]
    IN /\ \A dotted \in BOOLEAN : Leads(To(Spelled(a, dotted)), there)
       /\ Leads(To(Spelled(a, FALSE) \o Spelled(b, TRUE)), further)
       /\ GettersAgree(d, To(Spelled(a, FALSE)), there)
       /\ \A bad \in {<<"[">>, <<"[", "]">>, <<"[", "1">>, <<"[", "0", ".">>} : To(Spelled(a, FALSE) \o bad) = -1

\* Into a buffer goes the text of the string, or -1 is answered, and nothing is
\* written behind the buffer.
WritesTheString(bytes, cap) ==
  LET w == WriteString(bytes, cap) IN
  /\ Len(w.out) <= cap /\ (w.ok => Len(w.out) < cap)
  /\ SX!IsPrefix(w.out, SpellBytes(bytes, FALSE))
  /\ w.ok => w.out = SpellBytes(bytes, FALSE)
  /\ Len(SpellBytes(bytes, FALSE)) + 1 < cap => w.ok

\* json.h:84: a string is "NUL-terminated when it came through scratch".
DecodedIsTerminated(d) ==
  d.ok => \A r \in DOMAIN d.nodes :
    LET n == d.nodes[r] IN
    n.inScratch => /\ n.offset + n.length < d.scratchCap
                   /\ d.scratch[n.offset + n.length] = Nul
=============================================================================
