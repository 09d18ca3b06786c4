---------------------------- MODULE MCAlgorithms ----------------------------
(***************************************************************************)
(* Inputs for the algorithms that keep no state of their own: patterns for *)
(* the regular expressions, texts to search and expressions to evaluate,   *)
(* arrays for the sorts, values for JSON, scenes and graphs to search, and  *)
(* what is turned into another form: dates, images, digests, sealed         *)
(* messages, passwords, codes and coordinates.  A step draws an input or    *)
(* makes a larger one from it; the invariants say what the code returns.    *)
(***************************************************************************)
EXTENDS Integers, Sequences, FiniteSets, SequencesExt, TLC

VARIABLE sample   \* what it is an input of, and the input

sampleVars == <<sample>>

-----------------------------------------------------------------------------
(* Patterns *)

RX == INSTANCE Regex WITH Bytes <- <<"nl", "A", "a", "b">>, Lower <- ("A" :> "a"),
                          Newline <- "nl", Wordly <- {"A", "a", "b"}, MaxRepeat <- 3,
                          MaxProgram <- 14

Few == {RX!Char("a"), RX!Char("b"), RX!Leaf("any"), RX!Leaf("bol"), RX!Leaf("empty")}
Fewer == {RX!Char("a"), RX!Leaf("bol"), RX!Leaf("empty")}
Leaves == Few \cup {RX!Char("A"), RX!Char("nl"), RX!Leaf("eol"), RX!Leaf("word"),
                    RX!Class({"A", "a"}), RX!Node("not", <<>>, {"a"}, 0, 0)}
Unaries(n) == {RX!Unary(k, n) : k \in {"star", "plus", "quest"}} \cup {RX!Group(n, 1)}
                \cup {RX!Repeat(n, 0, 2), RX!Repeat(n, 1, 3), RX!Repeat(n, 1, RX!Unbounded)}
Binaries(m, n) == {RX!Binary(k, m, n) : k \in {"alt", "concat"}}
Small(leaves) == UNION {Unaries(n) : n \in leaves}
                   \cup UNION {Binaries(m, n) : m \in leaves, n \in leaves}

Subjects == UNION {[1 .. n -> {"nl", "A", "a", "b"}] : n \in 0 .. 2} \cup [1 .. 3 -> {"a", "b"}]
Options == {[nocase |-> f, multiline |-> f, dotall |-> f] : f \in BOOLEAN}

DrawPattern ==
  /\ sample[1] = "none"
  /\ \E n \in Leaves \cup Small(Leaves) : sample' = <<"pattern", n>>

GrowPattern ==
  /\ sample[1] = "pattern" /\ sample[2] \in Small(Few)
  /\ \E n \in Unaries(sample[2]) \cup UNION {Binaries(sample[2], x) : x \in Fewer}
                \cup {RX!Binary("concat", x, sample[2]) : x \in Fewer} :
       sample' = <<"grown", n>>

\* Codes of steps 0, 1, ...; steps 1 and 3 happen to share theirs.
MCCode(n) == <<4, 1, 2, 1, 3, 5, 6, 2>>[n + 1]

\* A day has 24 of the smallest unit.
TX == INSTANCE Text WITH
        Millis <- 2, Seconds <- 2, Minutes <- 3, Hours <- 2, Code <- MCCode, StepSeconds <- 2,
        WordMod <- 16, Quote <- 8, Backslash <- 9, Designator <- (8 :> 8 @@ 3 :> 4),
        Lower <- ("A" :> "a"), Wordly <- {"A", "a", "b", "_"}, QueryKept <- 2, TextKept <- 4, Joints <- {"_", "-"},
        Large <- 5, Numbers <- ("0" :> 0 @@ "2" :> 2 @@ "3" :> 3), Constants <- ("pi" :> <<22, 7>>),
        Functions <- {"abs", "min", "clamp"}, Unknown <- {"nosuch"}

Signs == UNION {[1 .. n -> {"a", "b", "%", "_"}] : n \in 0 .. 3}
DrawText ==
  /\ sample[1] = "none"
  /\ \E t \in UNION {[1 .. n -> {"a", "A", "b", "-"}] : n \in 0 .. 3} \cup [1 .. 5 -> {"a", "b"}] :
       sample' = <<"text", t>>

HS == INSTANCE Handshake WITH
        HostBytes <- 4, HostSlack <- 2, PathBytes <- 3, PortMax <- 700, Digits <- ("0" :> 0 @@ "7" :> 7),
        Lower <- ("Upgrade" :> "upgrade" @@ "WebSocket" :> "websocket" @@ "Connection" :> "connection"),
        HeadMax <- 18, ValueMax <- 3

MCStrings == {Append(t, 0) : t \in UNION {[1 .. n -> {1, 2}] : n \in 0 .. 3} \cup {<<1, 2, 1, 2>>}}
MCPuts == {"put", "quoted", "printf"} \X {<<>>, <<1>>, <<3, 1>>, <<1, 8, 2>>}
DrawString ==
  /\ sample[1] = "none"
  /\ \/ \E s \in MCStrings, t \in MCStrings : sample' = <<"strings", s, t>>
     \/ \E n \in 0 .. 3 : \E steps \in [1 .. n -> MCPuts] : sample' = <<"puts", steps>>
     \/ \E n \in 0 .. 3 : \E sets \in [1 .. n -> BOOLEAN], message \in BOOLEAN :
          sample' = <<"exception", message, sets>>

DrawUrl ==
  /\ sample[1] = "none"
  /\ \E n \in 0 .. 5 : \E t \in [1 .. n -> {"h", "@", "[", "]", ":", "/", "7"}], scheme \in {"ws://", "wss://"} :
       sample' = <<"url", scheme, t>>
MCLines == {<<"Upgrade", ":", " ", "WebSocket">>, <<"upgrade", ":", "h2">>, <<"Connection", ":", "Upgrade", " ">>,
            <<"accept", ":", " ", "good">>, <<"accept", ":", "good", "x">>, <<"accept", ":">>, <<"x", "upgrade">>}
DrawAnswer ==
  /\ sample[1] = "none"
  /\ \/ \E n \in 0 .. 3 : \E t \in [1 .. n -> {"nosocket", "now", "later", "refused", "silent"}] :
          sample' = <<"addresses", t>>
     \/ \E n \in 0 .. 4 : \E lines \in [1 .. n -> MCLines] : sample' = <<"head", lines>>
MCHead(status, lines) == <<status, "crlf">> \o FlattenSeq([i \in DOMAIN lines |-> Append(lines[i], "crlf")])

Digits == {"0", "2", "3"}
Signed == {"+", "-", "*", "/", "%", "^"}
DrawExpression ==
  /\ sample[1] = "none"
  /\ \/ \E n \in 0 .. 3 :
          \E t \in [1 .. n -> Digits \cup {"pi", "nosuch", "-", "/", "^", "(", ")", "min", ",", "%"}] :
            sample' = <<"sum", t>>
     \/ \E a \in Digits, b \in Digits, c \in Digits, op \in Signed, oq \in Signed :
          sample' = <<"sum", <<a, op, b, oq, c>>>>

\* Parentheses, a sign, calls, and a power or a quotient behind a sum of three.
Grown(t) ==
  {<<"(">> \o SubSeq(t, 1, 3) \o <<")">> \o SubSeq(t, 4, 5), <<"-">> \o t, t \o <<"^", "-", "2">>,
   <<"min", "(">> \o t \o <<",", "2", ")">>, <<"abs", "(", "-", t[1], ")">> \o SubSeq(t, 2, 5),
   <<"clamp", "(", t[1], ",", t[3], ",", t[5], ")">>, t \o <<"/", "(", "2", "-", t[1], ")">>}
GrowExpression ==
  /\ sample[1] = "sum" /\ Len(sample[2]) = 5
  /\ \E t \in Grown(sample[2]) : sample' = <<"sum", t>>

\* A pattern compiles to a program that finds the leftmost match its
\* alternatives and greedy quantifiers prefer, and matches a subject in full
\* when any of its matches is the subject; what regex.h rules out is refused.
\* A text is described by a pattern of % and _ when each sign has a stretch of
\* it, and a word is found where it first stands.  An expression is worth what
\* its grammar says.  Strings are cut, put together and compared as texts, whatever
\* room there is.  A URL that is accepted is spelled by what was read from it, and
\* only the answer to this request opens a connection.  regex/, search/find.c,
\* search/calc.c, primitive/string.c, lang/str.c, exception/exception.c,
\* net/websocket.c.
TextsAreReadAsWritten ==
  CASE sample[1] \in {"pattern", "grown"} ->
         /\ \A o \in Options : RX!MatchesAsWritten(sample[2], Subjects, o)
         /\ RX!Rejects(sample[2])
    [] sample[1] = "text" -> \A p \in Signs :
         /\ TX!FindAgrees(sample[2], p) /\ TX!ScoresAgree(sample[2], p)
         /\ TX!RanksAgree(p, <<<<"b", "-", "a">>, sample[2], p, <<"A">> \o sample[2]>>)
    [] sample[1] = "sum" -> TX!EvalAgrees(sample[2])
    [] sample[1] = "strings" -> \A room \in {1, 4, 9} :
         TX!StringsAgree(sample[2], sample[3], room) /\ TX!AppendIntoAgrees(sample[2], sample[3], room)
    [] sample[1] = "puts" -> \A cap \in {0, 1, 2, 4, 7, 20} : TX!StrAgrees(sample[2], cap)
    [] sample[1] = "exception" -> TX!ExceptionsAgree(sample[2], sample[3])
    [] sample[1] = "url" -> HS!UrlAgrees(sample[2], sample[3])
    [] sample[1] = "addresses" -> HS!ConnectAgrees(sample[2])
    [] sample[1] = "head" -> \A status \in {"101", "404"}, tail \in {<<>>, <<"crlf">>, <<"crlf", "frame">>} :
         HS!AnswerAgrees(MCHead(status, sample[2]) \o tail, "good")
    [] OTHER -> TRUE

-----------------------------------------------------------------------------
(* Arrays *)

ST == INSTANCE Sort WITH Cutoff <- 2, Radix <- 2, Passes <- 2, WeightMax <- 7

DrawArray ==
  /\ sample[1] = "none"
  /\ \E n \in 0 .. 5 : \E keys \in [0 .. n - 1 -> 0 .. 3] :
       sample' = <<"array", [i \in 0 .. n - 1 |-> [key |-> keys[i], tag |-> i]]>>

\* Every sort of algo/sort.c and util/arrays.c orders the array and loses nothing,
\* those that promise it keep what is alike in its order, a partition splits at
\* the boundary it returns, and a search in the sorted array finds the key or its
\* place.
SortsAgree ==
  sample[1] = "array" =>
    /\ ST!SortsSort(sample[2])
    /\ ST!ArraysAgree([i \in DOMAIN sample[2] |-> sample[2][i].key], Cardinality(DOMAIN sample[2]), -1 .. 4)

-----------------------------------------------------------------------------
(* Values *)

Quote == "Q"
JS == INSTANCE Json WITH
        MaxDepth <- 2, WordMod <- 64, PathKeyMax <- 1, Backslash <- "BS", Nul <- "NUL", Space <- "ws",
        Designator <- (Quote :> Quote) @@ ("BS" :> "BS") @@ ("NL" :> "n"),
        Encoded <- ("u41" :> <<"A">>) @@ ("u78" :> <<"x">>) @@ ("uE9" :> <<"c3", "a9">>)

Strings == {<<>>, <<"x">>, <<Quote>>, <<"x", "NL", "x">>, <<Quote, Quote>>, <<"c3", "a9">>}
Scalars == {JS!Scalar(s) : s \in {"null", "false", "1"}} \cup {JS!Text(s) : s \in Strings}
ObjectKeys == {<<"k">>, <<Quote>>}
Boxes(S) == {JS!Array(<<>>), JS!Object(<<>>, <<>>)}
              \cup {JS!Array(<<s, t>>) : s \in S, t \in S}
              \cup {JS!Object(<<k>>, <<s>>) : k \in ObjectKeys, s \in S}
              \cup {JS!Object(<<k, <<"k">> >>, <<s, t>>) : k \in ObjectKeys, s \in S, t \in S}

DrawValue ==
  /\ sample[1] = "none"
  /\ \E v \in Scalars \cup Boxes(Scalars) : sample' = <<"value", v>>

GrowValue ==
  /\ sample[1] = "value" /\ sample[2] \in Boxes({JS!Scalar("1"), JS!Text(<<Quote>>)})
  /\ \E box \in {"array", "object", "deeper"} :
       sample' = <<"value",
                   CASE box = "array" -> JS!Array(<<sample[2], sample[2]>>)
                     [] box = "object" -> JS!Object(<< <<"k">> >>, <<sample[2]>>)
                     [] OTHER -> JS!Array(<<JS!Array(<<sample[2]>>)>>)>>

MCHops == {<<"at", 0>>, <<"at", 1>>, <<"key", <<"k">> >>, <<"key", <<Quote>> >>, <<"key", <<"k", "k">> >>}

\* What the writer of net/json.c leaves in a buffer of any size is the text of
\* the value or the beginning of it, and ok tells which; the parser reads the
\* value back from it, in whatever spelling and whenever the pool, the scratch
\* buffer and the depth suffice, and refuses every text that stops short.  A path
\* leads where its hops lead.
JsonWritesAndReads ==
  sample[1] = "value" =>
    /\ \A cap \in {0, 1, 4, 8, 20, 100} : JS!WritesTheText(sample[2], cap)
    /\ \A loose \in BOOLEAN, nodes \in {1, 3, 20}, scratch \in {0, 2, 4, 20} :
         JS!ReadsTheText(sample[2], loose, nodes, scratch)
    /\ JS!PathsLead(sample[2], MCHops)
    /\ \A cap \in {0, 1, 2, 3, 4, 5, 6, 9} : JS!WritesTheString(sample[2].text, cap)

\* net/json.h:84: a string the parser decoded is NUL-terminated in scratch.
DecodedStringsAreTerminated ==
  sample[1] = "value" =>
    \A scratch \in {2, 3, 4, 6, 20} :
      JS!DecodedIsTerminated(JS!ParseText(JS!Spell(sample[2], FALSE), 20, scratch))

-----------------------------------------------------------------------------
(* Searches *)

SP == INSTANCE Spatial WITH MaxDepth <- 2, MaxItems <- 1, LeafMax <- 2,
                            LeafPrims <- 2, StackMax <- 64, Big <- 1000000,
                            QueuePerNode <- 4, QueueSlack <- 16, PathMax <- 1024, FirstEdges <- 1, NodesMax <- 4

\* Points on the faces of octants, inside them and outside the world.
World == [min |-> <<0, 0, 0>>, max |-> <<8, 8, 8>>]
Sites == {<<1, 1, 1>>, <<2, 1, 1>>, <<4, 1, 1>>, <<4, 4, 4>>, <<7, 3, 5>>, <<9, 0, 0>>}
Ranges == {World, [min |-> <<1, 1, 1>>, max |-> <<2, 2, 2>>],
           [min |-> <<4, 0, 0>>, max |-> <<8, 4, 4>>], [min |-> <<4, 4, 4>>, max |-> <<1, 1, 1>>]}
Centers == {<<4, 4, 4>>, <<0, 0, 0>>}

DrawTree == sample[1] = "none" /\ sample' = <<"octree", SP!EmptyTree(World)>>
GrowTree ==
  /\ sample[1] = "octree" /\ sample[2].total < 4
  /\ \E p \in Sites :
       sample' = <<"octree", SP!Inserted(sample[2], [point |-> p, data |-> p[1]])>>

CloudPoints == {<<0, 0, 0>>, <<1, 0, 0>>, <<0, 2, 0>>, <<2, 2, 1>>, <<1, 2, 2>>}
DrawCloud ==
  /\ sample[1] = "none"
  /\ \E n \in 1 .. 4 : \E c \in [0 .. n - 1 -> CloudPoints] :
       sample' = <<"cloud", [i \in 0 .. n - 1 |-> [coord |-> c[i], payload |-> i]], n>>

MCBox(a, b) == [min |-> a, max |-> b, centroid |-> [i \in 1 .. 3 |-> (a[i] + b[i]) \div 2]]
MCBoxes == {MCBox(<<0, 0, 0>>, <<2, 2, 2>>), MCBox(<<2, 0, 0>>, <<4, 2, 2>>), MCBox(<<1, 1, 0>>, <<3, 5, 4>>),
            MCBox(<<6, 0, 0>>, <<8, 2, 2>>), MCBox(<<0, 4, 0>>, <<2, 6, 2>>)}
MCRays == {[origin |-> o, dir |-> d, tmin |-> 0, tmax |-> t] :
             o \in {<<-1, 1, 1>>, <<1, 1, 1>>, <<9, 1, 1>>, <<-1, -1, -1>>},
             d \in {<<1, 0, 0>>, <<-1, 0, 0>>, <<0, 1, 0>>, <<1, 1, 1>>, <<1, 1, 0>>}, t \in {5, 20}}
DrawScene ==
  /\ sample[1] = "none"
  /\ \E n \in 1 .. 4 : \E boxes \in [1 .. n -> MCBoxes] : sample' = <<"scene", boxes>>

\* A graph of three nodes has any weight, or no edge, between each two of them.
NoEdge == 9
EdgesOf(u, weights, n) ==
  SelectSeq([v \in 1 .. n |-> [to |-> v - 1, weight |-> IF v - 1 = u THEN NoEdge ELSE weights[<<u, v - 1>>]]],
            LAMBDA e : e.weight # NoEdge)
Couples(n) == {<<u, v>> \in (0 .. n - 1) \X (0 .. n - 1) : u # v}
DrawGraph ==
  /\ sample[1] = "none"
  /\ \E w \in [Couples(3) -> {0, 1, 3, NoEdge}] :
       sample' = <<"graph", [u \in 0 .. 2 |-> EdgesOf(u, w, 3)], 3>>

DrawSyntax == sample[1] = "none" /\ sample' = <<"syntax", SP!NoNodes>>
GrowSyntax ==
  /\ sample[1] = "syntax" /\ Len(sample[2].nodes) < 4
  /\ \E parent \in -1 .. Len(sample[2].nodes), span \in {<<0, 3>>, <<1, 1>>, <<1, 2>>, <<3, 3>>} :
       sample' = <<"syntax", SP!AddNode(sample[2], parent, "kind", span)>>

DrawGrid == sample[1] = "none" /\ \E r \in 0 .. 3 : sample' = <<"grid", r>>

DrawPool == sample[1] = "none" /\ \E n \in 0 .. 4 : sample' = <<"pool", ST!EmptyPool(n)>>
GrowPool ==
  /\ sample[1] = "pool" /\ Len(sample[2].slots) < 5
  /\ \E w \in {0, 1, 2, 3, 5} : sample' = <<"pool", ST!Add(sample[2], Len(sample[2].slots) + 1, w)>>

Offsets == (-2 .. 2) \X (-2 .. 2) \X (-2 .. 2)
SphereHolds(r) == SP!SphereKeepsCells(r, Offsets, {<<0, 0, 0>>, <<1, 0, 0>>, <<1, 1, 0>>, <<0, -1, 0>>})

\* What was stored to be found quickly is found as by looking at all of it: the
\* points in a range of an octree and of a k-d tree, the nearest one, the first
\* box a ray enters, the shortest way to a goal, the nodes of a syntax tree at a
\* byte, the cells of a disc or a ball, and the object that a number draws from a
\* pool.  struct/octree.c, algo/kd_tree.c, algo/bvh.c, algo/dijkstra.c,
\* algo/tree_sit.c, struct/sphere_array.c, struct/circle_array.c,
\* objects/probable_objects.c.
SearchesAgree ==
  CASE sample[1] = "octree" -> SP!OctreeAgrees(sample[2], Ranges, Centers, {1, 2, 5}, {1, 2, 9})
    [] sample[1] = "cloud" -> SP!KdAgrees(sample[2], sample[3], {<<0, 0, 0>>, <<1, 1, 1>>, <<3, 2, 1>>}, {0, 1, 2}, {1, 2, 9})
    [] sample[1] = "scene" -> SP!BvhAgrees(sample[2], MCRays)
    [] sample[1] = "graph" ->
         /\ SP!PathsAreShortest(sample[2], sample[3], 0, 0 .. 2)
         /\ \A room \in {1, 2, 4, 5, 30} : SP!GraphIsBuilt(sample[2], sample[3], room)
    [] sample[1] = "syntax" -> SP!TreeAgrees(sample[2], 0 .. 4)
    [] sample[1] = "pool" -> ST!ChanceIsWeight(sample[2])
    [] sample[1] = "grid" -> /\ SP!CircleKeepsCells(sample[2], (-4 .. 4) \X (-4 .. 4))
                             /\ sample[2] < 2 => SphereHolds(sample[2])
    [] OTHER -> TRUE

-----------------------------------------------------------------------------
(* Instants *)

\* Around 1 March of year 0, 1900, 1970, 2000, 2100 and the eras beside.
Days == UNION {d - 400 .. d + 400 : d \in {-719468 - 146097, -719468, -719468 + 146097, -25567, 0, 11016, 47541}}
DrawInstant ==
  /\ sample[1] = "none"
  /\ \E d \in Days, t \in {0, 5, 23} : sample' = <<"instant", d * 24 + t>>

-----------------------------------------------------------------------------
(* Images *)

\* A byte has eight values here, so that sums and differences wrap.
PN == INSTANCE Png WITH ByteMod <- 8, MaxPixels <- 8

PixelRows(n) == IF n = 3 THEN {<<0, 7, 3>>, <<5, 1, 6>>}
                ELSE {<<0, 7, 3, 5>>, <<6, 1, 7, 2>>, <<4, 6, 4, 2>>, <<7, 0, 5, 7>>}
DrawImage ==
  /\ sample[1] = "none"
  /\ \E color \in {0, 2, 4, 6}, f \in 0 .. 4 : \E row \in PixelRows(IF color = 2 THEN 3 ELSE 4) :
       sample' = <<"image", <<row>>, color, <<f>>>>
GrowImage ==
  /\ sample[1] = "image" /\ Len(sample[2]) = 1
  /\ \E f \in 0 .. 4, row \in PixelRows(Len(sample[2][1])) :
       sample' = <<"image", Append(sample[2], row), sample[3], Append(sample[4], f)>>

-----------------------------------------------------------------------------
(* Messages *)

DI == INSTANCE Digest WITH Block <- 4, LengthBytes <- 2

MCSalts == {<<"s">>, <<"s", "t">>, <<"t">>}
SE == INSTANCE Secrets WITH
        HashBlock <- 4, HashSize <- 2, StreamBlock <- 3, TagBlock <- 4, LengthBytes <- 2,
        SyncPoints <- 4, Addresses <- 2, Word <- 8, HashMax <- 4, SaltMin <- 1, TagMin <- 2, PrfSize <- 2,
        RecordSalt <- MCSalts, RecordHash <- 3, IterationsMin <- 1,
        Costs <- ("pbkdf2" :> <<2, 0, 0>> @@ "argon2id" :> <<1, 8, 1>>),
        Unreserved <- {"a", "-"}, Hex <- (":" :> <<"3", "A">> @@ "%" :> <<"2", "5">> @@ "?" :> <<"3", "F">>)

MCData(name, n) == [i \in 1 .. n |-> <<name, i>>]
DrawMessage ==
  /\ sample[1] = "none"
  /\ \E n \in 0 .. 10 : \E i \in 0 .. n, j \in 0 .. n : i <= j /\ sample' = <<"message", n, <<i, j>>>>
DrawEnvelope ==
  /\ sample[1] = "none"
  /\ \E aad \in 0 .. 5, plain \in 0 .. 8 : sample' = <<"envelope", aad, plain>>

MessageAgrees(n, cuts) ==
  \A k \in {0, 1, 4} :
    DI!DigestsAgree(MCData("data", n), <<0>> \o cuts \o <<n>>, [i \in 0 .. 3 |-> <<"old", i>>], MCData("key", k))
EnvelopeAgrees(aad, plain) ==
  /\ SE!SealingAgrees("key", "nonce", MCData("aad", aad), MCData("data", plain))
  /\ SE!MacsAgree(MCData("key", aad), MCData("data", plain))
  /\ SE!ExpansionAgrees(MCData("salt", aad), MCData("key", 3), MCData("info", 1), plain)

-----------------------------------------------------------------------------
(* Codes *)

DrawBytes ==
  /\ sample[1] = "none"
  /\ \E n \in 0 .. 4 : \E bytes \in [1 .. n -> {0, 255, 173, 1}] : sample' = <<"bytes", bytes>>
GrowBytes ==
  /\ sample[1] = "bytes" /\ Len(sample[2]) = 3
  /\ \E m \in 2 .. 4 : sample' = <<"bytes", sample[2] \o SubSeq(<<202, 17>> \o sample[2], 1, m)>>

DrawClock == sample[1] = "none" /\ sample' = <<"clock", TX!Begun>>
TryCode ==
  /\ sample[1] = "clock"
  /\ \E wait \in 0 .. 3, code \in {1, 2, 3, 5}, window \in 0 .. 1 :
       /\ sample[2].time + wait < 12
       /\ sample' = <<"clock", TX!Tried(sample[2], wait, code, window)>>

-----------------------------------------------------------------------------
(* Keys from passwords, records of them and the URIs of authenticators *)

\* Two that differ only in where one part ends and the next begins.
MCSecrets == {<<<<"x">>, <<"s">>, <<>>, <<>>>>, <<<<"x", "s">>, <<"s">>, <<>>, <<>>>>, <<<<"x">>, <<"s", "s">>, <<>>, <<>>>>,
              <<<<"x">>, <<"s">>, <<"s">>, <<>>>>, <<<<"x">>, <<"s">>, <<>>, <<"s">>>>, <<<<"x">>, <<>>, <<>>, <<"s">>>>}
MCPasswords == {<<>>, <<"x">>, <<"x", "y">>, <<"y">>}
DrawPassword ==
  /\ sample[1] = "none"
  /\ \/ \E lanes \in 1 .. 3, segment \in 2 .. 3, passes \in 1 .. 3 : sample' = <<"fill", lanes, 4 * lanes * segment + 1, passes>>
     \/ \E n \in 1 .. 17 : sample' = <<"chain", n>>
     \/ \E p \in MCSecrets, lanes \in 0 .. 2, memory \in {7, 8, 15, 16}, n \in {1, 2, 4, 5} :
          sample' = <<"derive", [lanes |-> lanes, memory |-> memory, passes |-> 1, tagBytes |-> n], p>>
     \/ \E kdf \in {"pbkdf2", "argon2id", "md5"}, p \in MCPasswords, salt \in MCSalts, gotSalt \in BOOLEAN, gotMemory \in BOOLEAN :
          sample' = <<"record", kdf, p, salt, gotSalt, gotMemory>>
     \/ \E n \in 0 .. 2, m \in 0 .. 2 :
          \E issuer \in [1 .. n -> {"a", "-", ":", "%", "?"}], account \in [1 .. m -> {"a", ":", "?", "%"}] :
            sample' = <<"uri", issuer, account>>

PasswordsHold ==
  CASE sample[1] = "fill" -> SE!FillAgrees(SE!Shape(sample[2], sample[3]), sample[4])
    [] sample[1] = "chain" -> SE!HPrimeAgrees(sample[2], "x")
    [] sample[1] = "derive" -> SE!DeriveAgrees(sample[2], sample[3], MCSecrets)
    [] sample[1] = "record" -> SE!PasswordsAgree(sample[2], sample[3], sample[4], sample[5], sample[6], MCPasswords)
    [] sample[1] = "uri" -> \A cap \in {0, 1, 2, 5, 8, 12, 20, 24, 25, 29, 34, 40} :
         SE!UriAgrees(sample[2], sample[3], <<"S">>, cap)
    [] OTHER -> TRUE

-----------------------------------------------------------------------------
(* Vectors, matrices and rectangles *)

GE == INSTANCE Geometry

MCVectors == {<<0, 0, 0>>, <<1, 0, 0>>, <<0, 2, 0>>, <<0, 0, -1>>, <<1, 2, 3>>, <<-2, 1, 0>>, <<3, -1, 1>>}
MCMatrices == {GE!Identity, GE!Translate(GE!Identity, <<1, 2, 3>>), GE!Perspective(1, 2),
               GE!Rotate(GE!Identity, 1, <<0, 0, 1>>, GE!Identity),
               [i \in 0 .. 15 |-> (i * i) % 7], [i \in 0 .. 15 |-> i - 6]}
MCCorners == {<<0, 0, 0>>, <<1, 1, 1>>, <<-1, 2, 3>>}
MCRectangles == {GE!Rectangle(x, y, w, h) : x \in 0 .. 2, y \in 0 .. 1, w \in -1 .. 2, h \in 0 .. 2}
DrawGeometry ==
  /\ sample[1] = "none"
  /\ \/ \E v \in MCVectors, w \in MCVectors : sample' = <<"vectors", v, w>>
     \/ \E a \in MCMatrices, b \in MCMatrices : sample' = <<"matrices", a, b>>
     \/ \E pos \in {<<0, 0, 0>>, <<1, 2, 3>>}, s \in {<<1, 1, 1>>, <<2, -1, 3>>}, q \in [1 .. 3 -> 0 .. 3] :
          sample' = <<"steps", pos, q, s>>
     \/ \E eye \in {<<0, 0, 0>>, <<1, 2, 3>>}, ahead \in {<<1, 0, 0>>, <<-2, 0, 0>>, <<0, 3, 0>>, <<0, 0, -1>>},
          up \in {<<0, 1, 0>>, <<0, 0, 2>>, <<1, 0, 0>>, <<0, -1, 0>>}, q \in (0 .. 3) \X (0 .. 3) :
          sample' = <<"camera", eye, ahead, up, q>>
     \/ \E near \in 1 .. 3, width \in 1 .. 2, low \in MCCorners, size \in [1 .. 3 -> 1 .. 2] :
          /\ (2 * (near + width) * near) % width = 0 /\ (2 * near) % width = 0
          /\ sample' = <<"lens", near, width, low, size>>
     \/ \E r \in MCRectangles : sample' = <<"rectangle", r>>

GeometryAgrees ==
  CASE sample[1] = "vectors" ->
         /\ GE!VectorsAgree(sample[2], sample[3]) /\ GE!FramesAgree(sample[2], sample[3])
         /\ GE!SpotsAgree(sample[2], sample[3])
         /\ \A k \in {-1, 3} : GE!PlacesAgree(Append(sample[2], 5), Append(sample[3], -2), k)
    [] sample[1] = "matrices" -> \A v \in {<<1, 2, 3, 1>>, <<-1, 0, 2, 0>>} : GE!ProductsAgree(sample[2], sample[3], v)
    [] sample[1] = "steps" -> GE!StepsAgree(sample[2], sample[3], sample[4], <<1, -2, 3>>)
    [] sample[1] = "camera" -> GE!CamerasAgree(sample[2], sample[3], sample[4], sample[5][1], sample[5][2], <<1, -2, 3>>)
    [] sample[1] = "lens" -> GE!LensesAgree(sample[2], sample[3], sample[4], GE!Add(sample[4], sample[5]))
    [] sample[1] = "rectangle" -> \A b \in MCRectangles : GE!RectanglesAgree(sample[2], b)
    [] OTHER -> TRUE

-----------------------------------------------------------------------------
\* What is converted is what the standard says, however it came in.  Dates follow
\* one another as in the Gregorian calendar, before 1970 too, and the fields of an
\* instant give it back; an image comes back whatever filters and chunks carried
\* it, and a broken stream leaves nothing; a digest is that of the whole message,
\* wherever its pieces were cut; what was sealed opens and nothing else does; a
\* code is accepted once; a record of a password lets in that password and no other,
\* and the memory of its derivation is filled as the standard says; bytes come back
\* from their letters; a vector taken through a
\* matrix, a frame or a camera comes out where the steps they are made of put it.
\* time/datetime.c, time/calendar.c, image/png.c, security/, net/url.c, lang/mat4.c,
\* the vectors of lang/, math/coord_frame.c, lang/rect/rectangle.c.
ConversionsAreExact ==
  CASE sample[1] = "instant" -> TX!CalendarAgrees(sample[2], {1, 11, 12, -1, -13})
    [] sample[1] = "image" -> PN!PngAgrees(sample[2], sample[3], sample[4])
    [] sample[1] = "message" -> MessageAgrees(sample[2], sample[3])
    [] sample[1] = "envelope" -> EnvelopeAgrees(sample[2], sample[3])
    [] sample[1] = "bytes" -> TX!CodesAgree(sample[2]) /\ TX!DigitsAgree(sample[2])
    [] sample[1] = "clock" -> TX!TotpAgrees(sample[2], 0 .. 1)
    [] OTHER -> GeometryAgrees /\ PasswordsHold

DrawConversion == DrawGeometry \/ DrawPassword \/ DrawInstant \/ DrawImage \/ DrawMessage \/ DrawEnvelope \/ DrawBytes \/ DrawClock
GrowConversion == GrowImage \/ GrowBytes \/ TryCode

-----------------------------------------------------------------------------
(* Paths in a graph with more edges than the search's queue has room for *)

\* From node 0, more and more light edges to node 1 and then one to node 2; the
\* queue of a search in a graph of four nodes holds 32 entries.
Crowded(k) ==
  [u \in 0 .. 3 |->
     CASE u = 0 -> [e \in 1 .. k |-> [to |-> 1, weight |-> 100 - e]] \o << [to |-> 2, weight |-> 200] >>
       [] u = 2 -> << [to |-> 3, weight |-> 1] >>
       [] OTHER -> <<>>]
DrawCrowd ==
  /\ sample[1] = "none"
  /\ \E k \in {0, 1, 30, 31, 32, 40} : sample' = <<"crowd", Crowded(k), 4>>

\* algo/dijkstra.h:42: no path is answered when there is none, and only then.
ReachableIsAnswered ==
  sample[1] = "crowd" => \A goal \in 0 .. 3 : SP!ReachableIsAnswered(sample[2], sample[3], 0, goal)

-----------------------------------------------------------------------------
SampleInit == sample = <<"none">>
SampleNext ==
  \/ DrawPattern \/ GrowPattern \/ DrawArray \/ DrawValue \/ GrowValue
  \/ DrawTree \/ GrowTree \/ DrawCloud \/ DrawScene \/ DrawGraph \/ DrawSyntax \/ GrowSyntax
  \/ DrawGrid \/ DrawCrowd \/ DrawText \/ DrawExpression \/ GrowExpression \/ DrawPool \/ GrowPool
  \/ DrawString \/ DrawUrl \/ DrawAnswer
  \/ DrawConversion \/ GrowConversion
SampleSpec == SampleInit /\ [][SampleNext]_sampleVars
=============================================================================
