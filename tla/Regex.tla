------------------------------- MODULE Regex -------------------------------
(***************************************************************************)
(* regex/parser.c, regex/program.c and regex/vm.c: a pattern is parsed     *)
(* into a tree, the tree is laid out as a Thompson program, and the        *)
(* program is run over the subject with all its threads side by side.      *)
(* The reference at the end gives, for a tree, the ends of its matches in  *)
(* the order in which a backtracking matcher would try them.               *)
(*                                                                         *)
(* A byte is a character of Bytes; positions, program counters and slots   *)
(* count from 1.  The ceilings on nodes, classes and depth and a refused   *)
(* allocation end in a rejection and are left out.                         *)
(***************************************************************************)
EXTENDS Integers, Sequences

LOCAL INSTANCE TLC
SX == INSTANCE SequencesExt

CONSTANTS
  Bytes,   \* the characters of the subjects, as a sequence in byte order
  Lower,   \* lowerByte on them: Lower[c]
  Newline,
  Wordly,  \* the characters \w stands for
  MaxRepeat, \* REGEX_MAX_REPEAT
  MaxProgram \* REGEX_MAX_PROGRAM

ByteSet == SX!ToSet(Bytes)
Fold(c) == IF c \in DOMAIN Lower THEN Lower[c] ELSE c

-----------------------------------------------------------------------------
(* The tree *)

Node(kind, kids, set, lo, hi) ==
  [kind |-> kind, kids |-> kids, set |-> set, lo |-> lo, hi |-> hi]
Leaf(kind) == Node(kind, <<>>, {}, 0, 0)
Char(c) == Node("char", <<>>, {c}, 0, 0)
Class(set) == Node("class", <<>>, set, 0, 0)
Unary(kind, a) == Node(kind, <<a>>, {}, 0, 0)
Binary(kind, a, b) == Node(kind, <<a, b>>, {}, 0, 0)
Group(a, index) == Node("group", <<a>>, {}, index, index)
Unbounded == MaxRepeat + 1                 \* REGEX_REP_INF
Repeat(a, lo, hi) == Node("repeat", <<a>>, {}, lo, hi)

-----------------------------------------------------------------------------
(* The parser.  What it has read so far is a record; a rejection is Fail.   *)

Read(at, node, groups) == [ok |-> TRUE, at |-> at, node |-> node, groups |-> groups]
Fail == [ok |-> FALSE, at |-> 0, node |-> Leaf("empty"), groups |-> 0]

At(p, i) == IF i <= Len(p) THEN p[i] ELSE "end"

Digit == [d \in {"0", "1", "2", "3"} |->
            CASE d = "0" -> 0 [] d = "1" -> 1 [] d = "2" -> 2 [] d = "3" -> 3]
EscapeLetters == {"a", "b", "c", "d", "w", "n", "A", "B", "W"}
IsPredefined(c) == c \in {"w", "W"}
Predefined(c) == IF c = "w" THEN Wordly ELSE ByteSet \ Wordly

\* parseEscapeByte: the byte of an escape, in a sequence; none for a letter or
\* digit that means nothing.  Any other character stands for itself.
Escape(c) == CASE c = "n" -> <<Newline>>
               [] c = "end" \/ c \in EscapeLetters \cup (DOMAIN Digit \ {"0"}) -> <<>>
               [] OTHER -> <<c>>

RECURSIVE ParseAlternation(_, _, _, _), ParseAlternatives(_, _, _), OrElse(_, _, _, _),
          ParseConcat(_, _, _, _, _), AndThen(_, _, _, _), ParseNumber(_, _, _),
          ParseClassItems(_, _, _, _, _), ClassFrom(_, _, _, _), ClassRange(_, _, _, _, _)

\* One member or endpoint of a class: the byte and where the next one starts.
ClassByte(p, i) ==
  IF At(p, i) # "\\" THEN [at |-> i + 1, byte |-> IF i <= Len(p) THEN <<p[i]>> ELSE <<>>]
  ELSE [at |-> i + 2, byte |-> IF IsPredefined(At(p, i + 1)) THEN <<>> ELSE Escape(At(p, i + 1))]

OrdinalOf(c) == CHOOSE n \in DOMAIN Bytes : Bytes[n] = c
BytesFrom(lo, hi) == {Bytes[n] : n \in OrdinalOf(lo) .. OrdinalOf(hi)}
BothCases(set, nocase) ==
  IF nocase THEN {c \in ByteSet : \E x \in set : Fold(c) = Fold(x)} ELSE set

\* parseClass, after the bracket and the caret.  A bracket that comes first is
\* a member, and so is a hyphen at either end.
ParseClassItems(p, i, set, first, nocase) ==
  CASE At(p, i) = "]" /\ ~first -> Read(i + 1, set, 0)
    [] At(p, i) = "\\" /\ IsPredefined(At(p, i + 1)) ->
         ParseClassItems(p, i + 2, set \cup Predefined(At(p, i + 1)), FALSE, nocase)
    [] OTHER -> ClassFrom(p, ClassByte(p, i), set, nocase)

\* Past the byte lo: it is a member, or the first end of a range.
ClassFrom(p, lo, set, nocase) ==
  CASE lo.byte = <<>> -> Fail
    [] lo.byte # <<>> /\ (At(p, lo.at) # "-" \/ At(p, lo.at + 1) \in {"]", "end"}) ->
         ParseClassItems(p, lo.at, set \cup BothCases({lo.byte[1]}, nocase), FALSE, nocase)
    [] OTHER -> ClassRange(p, lo.byte[1], ClassByte(p, lo.at + 1), set, nocase)

ClassRange(p, lo, hi, set, nocase) ==
  IF hi.byte = <<>> THEN Fail
  ELSE IF OrdinalOf(hi.byte[1]) < OrdinalOf(lo) THEN Fail
  ELSE ParseClassItems(p, hi.at, set \cup BothCases(BytesFrom(lo, hi.byte[1]), nocase), FALSE, nocase)

Bracketed(items, negate, g) ==
  IF ~items.ok THEN Fail
  ELSE Read(items.at, Class(IF negate THEN ByteSet \ items.node ELSE items.node), g)

ParseClass(p, i, g, nocase) ==
  LET negate == At(p, i + 1) = "^"
  IN Bracketed(ParseClassItems(p, IF negate THEN i + 2 ELSE i + 1, {}, TRUE, nocase), negate, g)

Enclosed(p, body, plain, index) ==
  IF ~body.ok \/ At(p, body.at) # ")" THEN Fail
  ELSE Read(body.at + 1, IF plain THEN body.node ELSE Group(body.node, index), body.groups)

\* parseGroup: only (...) and (?:...).  A group is numbered where it opens.
ParseGroup(p, i, g, nocase) ==
  IF At(p, i + 1) # "?" THEN Enclosed(p, ParseAlternation(p, i + 1, g + 1, nocase), FALSE, g + 1)
  ELSE IF At(p, i + 2) # ":" THEN Fail
  ELSE Enclosed(p, ParseAlternation(p, i + 3, g, nocase), TRUE, 0)

ParseAtom(p, i, g, nocase) ==
  LET c == At(p, i) e == At(p, i + 1)
      Literal(x) == Char(IF nocase THEN Fold(x) ELSE x)
  IN CASE c = "(" -> ParseGroup(p, i, g, nocase)
       [] c = "[" -> ParseClass(p, i, g, nocase)
       [] c = "." -> Read(i + 1, Leaf("any"), g)
       [] c = "^" -> Read(i + 1, Leaf("bol"), g)
       [] c = "$" -> Read(i + 1, Leaf("eol"), g)
       [] c = "\\" -> IF IsPredefined(e) THEN Read(i + 2, Class(Predefined(e)), g)
                      ELSE IF Escape(e) # <<>> THEN Read(i + 2, Literal(Escape(e)[1]), g)
                      ELSE Fail
       [] c \in {"*", "+", "?"} -> Fail
       [] OTHER -> Read(i + 1, Literal(c), g)

ParseNumber(p, i, n) ==
  IF At(p, i) \in DOMAIN Digit THEN ParseNumber(p, i + 1, 10 * n + Digit[p[i]])
  ELSE [at |-> i, n |-> n]

Braced(p, close, a, lo, hi) ==
  IF \/ At(p, close) # "}" \/ lo > MaxRepeat
     \/ hi # Unbounded /\ (hi > MaxRepeat \/ hi < lo)
  THEN Fail ELSE Read(close + 1, Repeat(a.node, lo, hi), a.groups)

\* After the comma: a number, too large at Unbounded, or none.
FromUpper(p, at, a, lo, hi) ==
  IF hi.at = at THEN Braced(p, at, a, lo, Unbounded)
  ELSE IF hi.n > MaxRepeat THEN Fail
  ELSE Braced(p, hi.at, a, lo, hi.n)

FromLower(p, a, lo) ==
  IF At(p, lo.at) # "," THEN IF lo.n > MaxRepeat THEN Fail ELSE Braced(p, lo.at, a, lo.n, lo.n)
  ELSE FromUpper(p, lo.at + 1, a, lo.n, ParseNumber(p, lo.at + 1, 0))

\* parseBraces after a brace that a digit follows: {m}, {m,} or {m,n}.
ParseBraces(p, i, a) == FromLower(p, a, ParseNumber(p, i + 1, 0))

IsBraces(p, i) == At(p, i) = "{" /\ At(p, i + 1) \in DOMAIN Digit

\* parseRepeat: an atom and at most one quantifier.
Quantified(p, a) ==
  LET c == At(p, a.at) IN
  CASE c = "*" -> Read(a.at + 1, Unary("star", a.node), a.groups)
    [] c = "+" -> Read(a.at + 1, Unary("plus", a.node), a.groups)
    [] c = "?" -> Read(a.at + 1, Unary("quest", a.node), a.groups)
    [] IsBraces(p, a.at) -> ParseBraces(p, a.at, a)
    [] OTHER -> a

Stacked(p, at) == At(p, at) \in {"*", "+", "?"} \/ IsBraces(p, at)

Once(p, a, q) == IF ~q.ok \/ (q.at > a.at /\ Stacked(p, q.at)) THEN Fail ELSE q

QuantifiedOnce(p, a) == IF ~a.ok THEN Fail ELSE Once(p, a, Quantified(p, a))

ParseRepeat(p, i, g, nocase) == QuantifiedOnce(p, ParseAtom(p, i, g, nocase))

\* head is <<>> until the first piece has been read.
ParseConcat(p, i, g, head, nocase) ==
  IF At(p, i) \in {"end", "|", ")"}
  THEN Read(i, IF head = <<>> THEN Leaf("empty") ELSE head[1], g)
  ELSE AndThen(p, head, ParseRepeat(p, i, g, nocase), nocase)

AndThen(p, head, piece, nocase) ==
  IF ~piece.ok THEN Fail
  ELSE ParseConcat(p, piece.at, piece.groups,
         <<IF head = <<>> THEN piece.node ELSE Binary("concat", head[1], piece.node)>>, nocase)

ParseAlternatives(p, left, nocase) ==
  IF ~left.ok THEN Fail
  ELSE IF At(p, left.at) # "|" THEN left
  ELSE OrElse(p, left.node, ParseConcat(p, left.at + 1, left.groups, <<>>, nocase), nocase)

OrElse(p, left, right, nocase) ==
  IF ~right.ok THEN Fail
  ELSE ParseAlternatives(p, [right EXCEPT !.node = Binary("alt", left, right.node)], nocase)

ParseAlternation(p, i, g, nocase) ==
  ParseAlternatives(p, ParseConcat(p, i, g, <<>>, nocase), nocase)

Whole(p, r) == IF r.at = Len(p) + 1 THEN r ELSE Fail

\* RegexParser_parse
Parse(p, nocase) ==
  Whole(p, ParseAlternation(p, 1, 0, nocase))

-----------------------------------------------------------------------------
(* The program: emitNode, laid out from pc on                              *)

Inst(op, a, b) == [op |-> op, a |-> a, b |-> b]
Split(a, b) == Inst("split", a, b)
Jump(a) == Inst("jump", a, 0)
Save(slot) == Inst("save", slot, 0)

RECURSIVE Emit(_, _), EmitRepeat(_, _)

\* A variant for checking: a plus goes back to its own split.
EmitPlusToSplit(body, pc) ==
  body \o <<Split(pc + Len(body), pc + Len(body) + 1)>>
EmitPlus(body, pc) == body \o <<Split(pc, pc + Len(body) + 1)>>

EmitQuest(n, pc) ==
  LET body == Emit(n, pc + 1) IN <<Split(pc + 1, pc + 1 + Len(body))>> \o body

EmitStar(n, pc) ==
  LET body == Emit(n, pc + 1) IN
  <<Split(pc + 1, pc + 2 + Len(body))>> \o body \o <<Jump(pc)>>

\* m copies, then a star of the body or a quest for each copy more.
EmitRepeat(n, pc) ==
  LET a == n.kids[1]
      lo == n.lo
      hi == n.hi
      first == IF lo > 0 THEN Emit(a, pc)
               ELSE IF hi = Unbounded THEN EmitStar(a, pc) ELSE EmitQuest(a, pc)
      rest == IF lo > 0 THEN Repeat(a, lo - 1, IF hi = Unbounded THEN hi ELSE hi - 1)
              ELSE Repeat(a, 0, IF hi = Unbounded THEN 0 ELSE hi - 1)
  IN IF hi = 0 THEN <<>> ELSE first \o EmitRepeat(rest, pc + Len(first))

Emit(n, pc) ==
  CASE n.kind = "empty" -> <<>>
    [] n.kind \in {"char", "any", "class", "bol", "eol"} -> <<Inst(n.kind, n.set, 0)>>
    [] n.kind = "concat" -> LET a == Emit(n.kids[1], pc) IN a \o Emit(n.kids[2], pc + Len(a))
    [] n.kind = "alt" ->
         LET a == Emit(n.kids[1], pc + 1)
             second == pc + 2 + Len(a)
             b == Emit(n.kids[2], second)
         IN <<Split(pc + 1, second)>> \o a \o <<Jump(second + Len(b))>> \o b
    [] n.kind = "star" -> EmitStar(n.kids[1], pc)
    [] n.kind = "plus" -> EmitPlus(Emit(n.kids[1], pc), pc)
    [] n.kind = "quest" -> EmitQuest(n.kids[1], pc)
    [] n.kind = "repeat" -> EmitRepeat(n, pc)
    [] n.kind = "group" ->
         <<Save(2 * n.lo + 1)>> \o Emit(n.kids[1], pc + 1) \o <<Save(2 * n.lo + 2)>>

\* RegexProgram_build: slots 1 and 2 hold the whole match.
Program(node) == <<Save(1)>> \o Emit(node, 2) \o <<Save(2), Inst("match", 0, 0)>>

-----------------------------------------------------------------------------
(* The virtual machine.  A list is its threads, [pc, caps], and the pcs it *)
(* has seen at this position.                                              *)

Unset == 0
NoThreads == [threads |-> <<>>, seen |-> {}]
Expand(pc) == [restore |-> FALSE, pc |-> pc, slot |-> 0, value |-> Unset]
\* vmInitialize: the room of the work stack, which no push looks at.
StackCapacity(prog) == 4 * Len(prog) + 8
RestoreSlot(slot, value) == [restore |-> TRUE, pc |-> 0, slot |-> slot, value |-> value]

\* What a zero-width instruction puts on the stack, top first.
Successors(inst, pc, caps, at, subject, multiline) ==
  CASE inst.op = "jump" -> <<Expand(inst.a)>>
    [] inst.op = "split" -> <<Expand(inst.a), Expand(inst.b)>>
    [] inst.op = "save" -> <<Expand(pc + 1), RestoreSlot(inst.a, caps[inst.a])>>
    [] inst.op = "bol" ->
         IF at = 1 \/ (multiline /\ subject[at - 1] = Newline) THEN <<Expand(pc + 1)>> ELSE <<>>
    [] inst.op = "eol" ->
         IF at = Len(subject) + 1 \/ (multiline /\ subject[at] = Newline)
         THEN <<Expand(pc + 1)>> ELSE <<>>
    [] OTHER -> <<>>

RECURSIVE Closure(_, _, _, _, _, _, _), Steps(_, _, _, _, _, _, _), RunFrom(_, _, _, _, _, _, _)

\* addThread: the closure over a stack of its own; a write to a slot is undone
\* when everything behind it has been expanded.  (A push behind the stack's end
\* would destroy the threads.)
Closure(prog, list, stack, caps, at, subject, multiline) ==
  IF stack = <<>> THEN list
  ELSE LET task == Head(stack) IN
       IF task.restore
       THEN Closure(prog, list, Tail(stack), [caps EXCEPT ![task.slot] = task.value],
                    at, subject, multiline)
       ELSE IF task.pc \in list.seen
       THEN Closure(prog, list, Tail(stack), caps, at, subject, multiline)
       ELSE LET inst == prog[task.pc]
                more == Successors(inst, task.pc, caps, at, subject, multiline)
                zero == inst.op \in {"jump", "split", "save", "bol", "eol"}
                seen == list.seen \cup {task.pc}
            IN IF Len(more) + Len(stack) - 1 > StackCapacity(prog) THEN NoThreads ELSE Closure(prog,
                 IF zero THEN [list EXCEPT !.seen = seen]
                 ELSE [threads |-> Append(list.threads, [pc |-> task.pc, caps |-> caps]),
                       seen |-> seen],
                 more \o Tail(stack),
                 IF inst.op = "save" THEN [caps EXCEPT ![inst.a] = at] ELSE caps,
                 at, subject, multiline)

AddThread(prog, list, pc, caps, at, subject, multiline) ==
  Closure(prog, list, <<Expand(pc)>>, caps, at, subject, multiline)

\* instMatches
Accepts(inst, c, o) ==
  LET byte == IF o.nocase THEN Fold(c) ELSE c IN
  CASE inst.op = "char" -> byte \in inst.a
    [] inst.op = "any" -> o.dotall \/ byte # Newline
    [] inst.op = "class" -> byte \in inst.a
    [] OTHER -> FALSE

\* One position: the threads in order of priority, cut off behind a match.
Steps(prog, threads, next, best, at, subject, o) ==
  IF threads = <<>> THEN [next |-> next, best |-> best]
  ELSE LET t == Head(threads)
           inst == prog[t.pc]
           read == at <= Len(subject) /\ Accepts(inst, subject[at], o)
       IN IF inst.op = "match" /\ ~(o.full /\ at # Len(subject) + 1)
          THEN [next |-> next, best |-> <<t.caps>>]
          ELSE Steps(prog, Tail(threads),
                 IF read THEN AddThread(prog, next, t.pc + 1, t.caps, at + 1, subject, o.multiline)
                 ELSE next,
                 best, at, subject, o)

\* run: best is <<>> until something has matched; no search starts after that.
RunFrom(prog, list, best, at, seed, subject, o) ==
  IF list.threads = <<>> /\ best # <<>> THEN best
  ELSE LET starts == best = <<>> /\ (~(o.anchored \/ o.full) \/ at = 1)
           now == IF starts THEN AddThread(prog, list, 1, seed, at, subject, o.multiline) ELSE list
           step == Steps(prog, now.threads, NoThreads, best, at, subject, o)
       IN IF at = Len(subject) + 1 THEN step.best
          ELSE RunFrom(prog, step.next, step.best, at + 1, seed, subject, o)

\* RegexVm_run and RegexVm_runFull: <<>>, or the slots of the match.
Run(prog, groups, subject, o) ==
  RunFrom(prog, NoThreads, <<>>, 1, [s \in 1 .. 2 * (groups + 1) |-> Unset], subject, o)

-----------------------------------------------------------------------------
(* regex.c: a compiled pattern and the calls on it                         *)

NoSpan == [start |-> Unset, end |-> Unset]
IsSet(span) == span.start # Unset /\ span.end # Unset
SpanLength(span) == IF ~IsSet(span) \/ span.end < span.start THEN 0 ELSE span.end - span.start

\* RegexVm_span of a winning row; group 0 is the whole match.
Span(caps, group) ==
  IF 2 * group + 2 > Len(caps) THEN NoSpan
  ELSE LET span == [start |-> caps[2 * group + 1], end |-> caps[2 * group + 2]] IN
       IF IsSet(span) THEN span ELSE NoSpan

NoRegex == [ok |-> FALSE]
Built(p, flags, r) ==
  LET program == Program(r.node) IN
  IF Len(program) > MaxProgram THEN NoRegex
  ELSE [ok |-> TRUE, pattern |-> p, flags |-> flags, groups |-> r.groups, program |-> program]
CompileParsed(p, flags, r) == IF r.ok THEN Built(p, flags, r) ELSE NoRegex

\* Regex_2, compilePattern
Compile(p, flags) == CompileParsed(p, flags, Parse(p, flags.nocase))

\* A hit fills the first spans of out, as many as there is room for.
Filled(caps, groups, out, room) ==
  [g \in DOMAIN out |-> IF g <= room /\ g <= groups + 1 THEN Span(caps, g - 1) ELSE out[g]]

\* runSearch: out is only written on a hit.
Searched(regex, best, out, room) ==
  IF best = <<>> THEN [hit |-> FALSE, out |-> out, truncated |-> FALSE]
  ELSE [hit |-> TRUE, out |-> Filled(best[1], regex.groups, out, room),
        truncated |-> regex.groups + 1 > room]
RunSearch(regex, subject, anchored, out, room) ==
  Searched(regex,
    Run(regex.program, regex.groups, subject, [anchored |-> FALSE, full |-> anchored] @@ regex.flags),
    out, room)

IsMatch(regex, subject) == RunSearch(regex, subject, FALSE, <<NoSpan>>, 1).hit
IsFullMatch(regex, subject) ==
  LET search == RunSearch(regex, subject, TRUE, <<NoSpan>>, 1) IN
  search.hit /\ search.out[1] = [start |-> 1, end |-> Len(subject) + 1]
Find(regex, subject) == RunSearch(regex, subject, FALSE, <<NoSpan>>, 1)
FindGroups(regex, subject, out, room) == RunSearch(regex, subject, FALSE, out, room)

\* textAppend: what does not fit in front of the terminator is cut.
TextAppend(text, s, cap) ==
  IF Len(text.text) + Len(s) >= cap
  THEN [text |-> SubSeq(text.text \o s, 1, cap - 1), truncated |-> TRUE]
  ELSE [text EXCEPT !.text = @ \o s]

\* The pieces of Regex_toString; a number is one character of its own.
Pieces(regex) ==
  <<<<"/">>, regex.pattern, <<"/">>,
    IF regex.flags.nocase THEN <<"i">> ELSE <<>>, IF regex.flags.dotall THEN <<"s">> ELSE <<>>,
    IF regex.flags.multiline THEN <<"m">> ELSE <<>>,
    <<" (groups=", ToString(regex.groups), ", insts=", ToString(Len(regex.program)), ")">>>>
AsText(regex, cap) ==
  SX!FoldLeft(LAMBDA text, piece : TextAppend(text, piece, cap),
              [text |-> <<>>, truncated |-> FALSE], Pieces(regex))

-----------------------------------------------------------------------------
(* The reference *)

RECURSIVE Ends(_, _, _, _), Iterate(_, _, _, _, _)

\* The ends of n from i on in order of preference, without repetitions.
Firsts(s) == SX!FoldLeft(LAMBDA acc, x : IF x \in SX!ToSet(acc) THEN acc ELSE Append(acc, x),
                         <<>>, s)
Each(s, F(_)) == Firsts(SX!FlattenSeq([k \in DOMAIN s |-> F(s[k])]))

\* Up to max more iterations of a star, greedy, none of them empty.  (The first
\* iteration of a plus may be empty, and is then the last; the optional copies
\* of {0,n} may be empty and are each tried.)
Iterate(n, s, i, max, o) ==
  IF max = 0 THEN <<i>>
  ELSE LET once == SelectSeq(Ends(n, s, i, o), LAMBDA j : j # i) IN
       Firsts(Each(once, LAMBDA j : Iterate(n, s, j, max - 1, o)) \o <<i>>)

Ends(n, s, i, o) ==
  LET c == IF o.nocase /\ i <= Len(s) THEN Fold(s[i]) ELSE IF i <= Len(s) THEN s[i] ELSE "end"
      One(ok) == IF i <= Len(s) /\ ok THEN <<i + 1>> ELSE <<>>
      Zero(ok) == IF ok THEN <<i>> ELSE <<>>
  IN CASE n.kind = "empty" -> <<i>>
       [] n.kind = "char" -> One(\E x \in n.set : c = IF o.nocase THEN Fold(x) ELSE x)
       [] n.kind = "any" -> One(o.dotall \/ c # Newline)
       [] n.kind = "class" -> One(c \in BothCases(n.set, o.nocase))
       [] n.kind = "not" -> One(c \notin BothCases(n.set, o.nocase))
       [] n.kind = "word" -> One(c \in Wordly)
       [] n.kind = "bol" -> Zero(i = 1 \/ (o.multiline /\ s[i - 1] = Newline))
       [] n.kind = "eol" -> Zero(i = Len(s) + 1 \/ (o.multiline /\ s[i] = Newline))
       [] n.kind = "concat" -> Each(Ends(n.kids[1], s, i, o), LAMBDA j : Ends(n.kids[2], s, j, o))
       [] n.kind = "alt" -> Firsts(Ends(n.kids[1], s, i, o) \o Ends(n.kids[2], s, i, o))
       [] n.kind = "group" -> Ends(n.kids[1], s, i, o)
       [] n.kind = "quest" -> Firsts(Ends(n.kids[1], s, i, o) \o <<i>>)
       [] n.kind = "star" -> Iterate(n.kids[1], s, i, Len(s) + 1, o)
       [] n.kind = "plus" ->
            Each(Ends(n.kids[1], s, i, o),
                 LAMBDA j : IF j = i THEN <<i>> ELSE Iterate(n.kids[1], s, j, Len(s) + 1, o))
       [] n.kind = "repeat" ->
            IF n.lo > 0
            THEN Each(Ends(n.kids[1], s, i, o),
                      LAMBDA j : Ends(Repeat(n.kids[1], n.lo - 1,
                                   IF n.hi = Unbounded THEN n.hi ELSE n.hi - 1), s, j, o))
            ELSE IF n.hi = 0 THEN <<i>>
            ELSE IF n.hi = Unbounded THEN Iterate(n.kids[1], s, i, Len(s) + 1, o)
            ELSE Each(Firsts(Ends(n.kids[1], s, i, o) \o <<i>>),
                      LAMBDA j : Ends(Repeat(n.kids[1], 0, n.hi - 1), s, j, o))

\* The pattern of a tree, with the parentheses its grammar needs.
RECURSIVE Spell(_), SpellNumber(_)
SpellNumber(k) == IF k < 4 THEN <<CHOOSE d \in DOMAIN Digit : Digit[d] = k>>
                  ELSE SpellNumber(k \div 10) \o SpellNumber(k % 10)
Escaped(x) == IF x = Newline THEN <<"\\", "n">> ELSE IF x \in EscapeLetters THEN <<x>> ELSE <<"\\", x>>
\* The members of a class, from the first byte on: as a range where they adjoin.
Members(set) ==
  LET run == {OrdinalOf(x) : x \in set}
      least == CHOOSE n \in run : \A m \in run : n <= m
      most == CHOOSE n \in run : \A m \in run : n >= m
  IN IF set # {} /\ run = least .. most /\ least < most
     THEN Escaped(Bytes[least]) \o <<"-">> \o Escaped(Bytes[most])
     ELSE SX!FlattenSeq([k \in DOMAIN Bytes |-> IF Bytes[k] \in set THEN Escaped(Bytes[k]) ELSE <<>>])

Tight(n) == IF n.kind \in {"alt", "concat", "empty", "star", "plus", "quest", "repeat"}
            THEN <<"(", "?", ":">> \o Spell(n) \o <<")">> ELSE Spell(n)
Loose(n) == IF n.kind = "alt" THEN <<"(", "?", ":">> \o Spell(n) \o <<")">> ELSE Spell(n)
Spell(n) ==
  CASE n.kind = "empty" -> <<>>
    [] n.kind = "char" -> SX!FlattenSeq(SX!SetToSeq({Escaped(x) : x \in n.set}))
    [] n.kind = "any" -> <<".">>
    [] n.kind = "bol" -> <<"^">>
    [] n.kind = "eol" -> <<"$">>
    [] n.kind = "class" -> <<"[">> \o Members(n.set) \o <<"]">>
    [] n.kind = "not" -> <<"[", "^">> \o Members(n.set) \o <<"]">>
    [] n.kind = "word" -> <<"\\", "w">>
    [] n.kind = "concat" -> Loose(n.kids[1]) \o Loose(n.kids[2])
    [] n.kind = "alt" -> Spell(n.kids[1]) \o <<"|">> \o Spell(n.kids[2])
    [] n.kind = "group" -> <<"(">> \o Spell(n.kids[1]) \o <<")">>
    [] n.kind = "star" -> Tight(n.kids[1]) \o <<"*">>
    [] n.kind = "plus" -> Tight(n.kids[1]) \o <<"+">>
    [] n.kind = "quest" -> Tight(n.kids[1]) \o <<"?">>
    [] n.kind = "repeat" ->
         Tight(n.kids[1]) \o <<"{">> \o SpellNumber(n.lo) \o
         (IF n.hi = n.lo THEN <<>>
          ELSE <<",">> \o IF n.hi = Unbounded THEN <<>> ELSE SpellNumber(n.hi)) \o <<"}">>

-----------------------------------------------------------------------------
(* What Regex_2 and the match calls owe the pattern of a tree             *)

\* The ends of the first match from start on in order of preference; <<>> if none.
RECURSIVE Leftmost(_, _, _, _)
Leftmost(n, s, i, o) ==
  LET ends == Ends(n, s, i, o) IN
  IF ends # <<>> THEN <<i, ends[1]>>
  ELSE IF i > Len(s) THEN <<>> ELSE Leftmost(n, s, i + 1, o)

\* What a search finds, and whether a full match succeeds, against the reference.
FindsAsWritten(n, s, o, regex) ==
  LET found == Find(regex, s)
      first == Leftmost(n, s, 1, o)
  IN /\ found.hit <=> first # <<>>
     /\ found.hit => found.out[1] = [start |-> first[1], end |-> first[2]]
     /\ IsFullMatch(regex, s) <=> Len(s) + 1 \in SX!ToSet(Ends(n, s, 1, o))

RECURSIVE GroupsOf(_)
GroupsOf(n) == (IF n.kind = "group" THEN {n} ELSE {}) \cup UNION {GroupsOf(n.kids[k]) : k \in DOMAIN n.kids}

\* The spans of the groups: one that took part lies in the match and is a match
\* of what the group holds; what there is no room for is left as it was, and
\* that there is more is said.
Untouched == [start |-> -1, end |-> -1]
GroupsAsWritten(tree, s, o, regex) ==
  \A room \in {1, regex.groups + 2} :
    LET found == FindGroups(regex, s, [g \in 1 .. regex.groups + 2 |-> Untouched], room)
        whole == found.out[1]
    IN /\ found.hit <=> IsMatch(regex, s)
       /\ \A g \in DOMAIN found.out :
            (g > room \/ g > regex.groups + 1 \/ ~found.hit) <=> found.out[g] = Untouched
       /\ found.truncated <=> found.hit /\ room <= regex.groups
       /\ found.hit => \A n \in GroupsOf(tree) :
            n.lo < room => \/ found.out[n.lo + 1] = NoSpan
                           \/ LET span == found.out[n.lo + 1] IN
                              /\ whole.start <= span.start /\ span.end <= whole.end
                              /\ span.end \in SX!ToSet(Ends(n.kids[1], s, span.start, o))
                              /\ SpanLength(span) = span.end - span.start

\* The text of a compiled pattern is cut where the room ends, and says so.
SpelledAsWritten(regex) ==
  LET whole == SX!FlattenSeq(Pieces(regex)) IN
  \A cap \in 1 .. Len(whole) + 2 :
    AsText(regex, cap) = [text |-> SubSeq(whole, 1, IF Len(whole) < cap THEN Len(whole) ELSE cap - 1),
                          truncated |-> Len(whole) >= cap]

\* A pattern compiles unless its program is too long; a search reports the
\* leftmost match, and of those that start there the one its alternatives and
\* greedy quantifiers prefer; a full match succeeds when any of them ends the
\* subject.
CompiledMatches(n, subjects, o, r, regex) ==
  /\ r.ok
  /\ regex.ok <=> Len(Program(r.node)) <= MaxProgram
  /\ regex.ok => /\ \A s \in subjects : FindsAsWritten(n, s, o, regex) /\ GroupsAsWritten(r.node, s, o, regex)
                 /\ SpelledAsWritten(regex)
MatchesAsWritten(n, subjects, o) ==
  CompiledMatches(n, subjects, o, Parse(Spell(n), o.nocase), Compile(Spell(n), o))

\* regex.h: no second quantifier, no group extension but (?:, no escape of a
\* letter or digit that means nothing, no empty quantifier.
Rejects(n) ==
  LET p == Spell(n)
      quantifiers == IF n.kind \in {"star", "plus", "quest", "repeat"}
                     THEN {Append(p, q) : q \in {"*", "+", "?"}} ELSE {}
  IN \A q \in quantifiers \cup {<<q>> \o p : q \in {"*", "+", "?"}}
                \cup {<<"(", "?", c>> \o p \o <<")">> : c \in {"=", "!", "<"}}
                \cup {<<"(">> \o p, p \o <<")">>, p \o <<"\\", "b">>, p \o <<"\\", "1">>, p \o <<"\\">>,
                      p \o <<"[">>, <<"[", "b", "-", "a", "]">> \o p,
                      p \o <<"a", "{", "2", ",", "1", "}">>, p \o <<"a", "{", "2">>} :
       ~Parse(q, FALSE).ok
=============================================================================
