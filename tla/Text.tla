--------------------------------- MODULE Text ---------------------------------
(***************************************************************************)
(* primitive/string.c, the strings; lang/str.c, a text written into a       *)
(* buffer that may be too small; exception/exception.c, the texts that an   *)
(* exception owns.                                                          *)
(*                                                                         *)
(* A character is a number, 0 ends a C string.  A string is the cells of its *)
(* block, a terminator behind its text; nullptr is no cells.  Its length is  *)
(* that of the block without the last cell, whatever the cells hold, while a *)
(* literal ends at its first 0.  Memory gives blocks of up to room cells.    *)
(*                                                                         *)
(* search/find.c: a text searched for a word or matched with an SQL        *)
(* pattern of % and _.  A text is a sequence of characters.                *)
(* search/spotlight.c: texts ranked by how well a query fits them.         *)
(*                                                                         *)
(* search/calc.c: the value of an arithmetic expression, by recursive      *)
(* descent.  A text is a sequence of words: numbers, names, operators,     *)
(* parentheses and commas; the white space between them is left out.       *)
(*                                                                         *)
(* Values are exact fractions <<n, d>> in lowest terms, or Undefined (NaN) *)
(* where the library's pow has no number to give or one too large to       *)
(* follow; a comparison with Undefined is false.  Rounding is left out.    *)
(*                                                                         *)
(* time/datetime.c and time/calendar.c: an instant in milliseconds since   *)
(* 1970 as a Gregorian date and a time of day, and back.  C divides        *)
(* towards zero, so an instant before 1970 borrows from the next larger    *)
(* unit.  The lengths of the units below a day are parameters; those of    *)
(* the calendar are the code's.                                            *)
(*                                                                         *)
(* security/base32.c, the base64 of net/url.c and the hexadecimal digits   *)
(* of security/crypto.c.  A character of an alphabet is its place in it;   *)
(* Pad, Space (the separators that are skipped) and Alien (any other       *)
(* character) are outside.                                                 *)
(*                                                                         *)
(* security/totp.c: one-time codes of the time, and the check of one that  *)
(* remembers the last step it has accepted a code of.                      *)
(***************************************************************************)
EXTENDS Integers, FiniteSets, SequencesExt

CONSTANTS WordMod,    \* 2^64: sizes are taken modulo it
          Quote,      \* the quotation mark
          Backslash,
          Designator  \* for the characters that are escaped, what follows the backslash

Null == <<>>
Overrun == <<-1>>   \* more was copied than there is
Lesser(i, j) == IF i < j THEN i ELSE j

-----------------------------------------------------------------------------
(* string.c *)

Alloc(text, room) == IF Len(text) + 1 > room THEN Null ELSE Append(text, 0)
Length(s) == IF s = Null THEN 0 ELSE Len(s) - 1
StrLen(s) == (CHOOSE i \in 1 .. Len(s) : s[i] = 0 /\ \A k \in 1 .. i - 1 : s[k] # 0) - 1
CText(s) == SubSeq(s, 1, StrLen(s))
\* What an operation takes of a "string" and of a "literal".
Content(kind, s) == IF kind = "string" THEN SubSeq(s, 1, Length(s)) ELSE CText(s)
Copy(kind, s, room) == IF s = Null THEN Null ELSE Alloc(Content(kind, s), room)

Equals(s, literal) == s # Null /\ literal # Null /\ Content("string", s) = CText(literal)
Compare(a, b) ==
  LET s == CText(a)
      t == CText(b)
      differ == {i \in 1 .. Lesser(Len(s), Len(t)) : s[i] # t[i]}
      first == CHOOSE i \in differ : \A k \in differ : i <= k
  IN CASE a = Null \/ b = Null -> (IF a = b THEN 0 ELSE IF a = Null THEN -1 ELSE 1)
       [] differ # {} -> IF s[first] < t[first] THEN -1 ELSE 1
       [] OTHER -> IF Len(s) < Len(t) THEN -1 ELSE IF Len(s) > Len(t) THEN 1 ELSE 0

Absent == -1
IndexOf(s, t) ==
  LET h == CText(s)
      n == CText(t)
      places == {i \in 0 .. Len(h) - Len(n) : SubSeq(h, i + 1, i + Len(n)) = n}
  IN IF s = Null \/ t = Null \/ places = {} THEN Absent ELSE CHOOSE i \in places : \A k \in places : i <= k
HasText(s, t) == IndexOf(s, t) # Absent
Instring(index, s, t) == IndexOf(s, t) # Absent /\ IndexOf(s, t) = index

\* String_substring and String_substringLiteral; start + len may leave the word.
Substring(kind, s, start, len, room) ==
  LET text == Content(kind, s)
      taken == IF (start + len) % WordMod > Len(text) THEN Len(text) - start ELSE len
  IN CASE s = Null -> Null
       [] s # Null /\ start >= Len(text) -> Alloc(<<>>, room)
       [] OTHER -> IF taken > Len(text) - start THEN Overrun
                   ELSE Alloc(SubSeq(text, start + 1, start + taken), room)
SubFirst(s, count, room) == Substring("string", s, 0, count, room)
SubLastChar(s, room) ==
  IF s = Null THEN Null
  ELSE IF Length(s) = 0 THEN Alloc(<<>>, room) ELSE Substring("string", s, Length(s) - 1, 1, room)
SubLast(s, count, room) ==
  IF s = Null THEN Null
  ELSE IF count >= Length(s) THEN Copy("string", s, room)
       ELSE Substring("string", s, Length(s) - count, count, room)

\* String_append, String_appendLiteral and String_appendLiterals, by what a and b are.
Appended(ka, a, kb, b, room) ==
  CASE a = Null /\ b = Null -> Alloc(<<>>, room)
    [] a = Null /\ b # Null -> Copy(kb, b, room)
    [] a # Null /\ b = Null -> Copy(ka, a, room)
    [] OTHER -> Alloc(Content(ka, a) \o Content(kb, b), room)

Overwritten(cells, at, new) ==
  [i \in 1 .. Len(cells) |-> IF i \in at + 1 .. at + Len(new) THEN new[i - at] ELSE cells[i]]
\* A variant of String_appendInto: a text that does not fit is begun.
AppendIntoBegins(mem, a, b, dest) ==
  LET n == Length(mem[a])
      all == Content("string", mem[a]) \o Content("string", mem[b])
  IN IF Null \in {mem[a], mem[b], mem[dest]} \/ Len(mem[dest]) < n + 1 THEN mem
     ELSE [mem EXCEPT ![dest] = Overwritten(@, 0, SubSeq(all, 1, Lesser(Len(all), Len(@) - 1)))]

\* String_appendInto, of three blocks of mem that may be the same: when the text does
\* not fit, nothing is written.
AppendInto(mem, a, b, dest) ==
  LET n == Length(mem[a])
      m == Length(mem[b])
      first == [mem EXCEPT ![dest] = Overwritten(@, 0, Content("string", mem[a]))]
      second == [first EXCEPT ![dest] = Overwritten(@, n, SubSeq(first[b], 1, m))]
  IN IF Null \in {mem[a], mem[b], mem[dest]} \/ Len(mem[dest]) < n + m + 1 THEN mem
     ELSE [second EXCEPT ![dest][n + m + 1] = 0]

\* String_appendFirst and its literal form: a is moved to a larger block, or stays as
\* it is when there is none.
AppendFirst(a, kb, b, room) ==
  CASE a = Null -> Copy(kb, b, room)
    [] a # Null /\ (b = Null \/ CText(b) = <<>>) -> a
    [] OTHER -> IF Length(a) + Len(Content(kb, b)) + 1 > room THEN a
                ELSE Append(Content("string", a) \o Content(kb, b), 0)

\* The parts of a text put together are the text; what is found is there and nothing
\* before it; what two texts make together ends with the second, and a text is left
\* whole when there is no memory for more.
StringsAgree(s, t, room) ==
  LET text == CText(s)
      all == 100
      both == Appended("string", s, "string", t, all)
      grown == AppendFirst(s, "string", t, room)
      at == IndexOf(s, t)
  IN /\ \A i \in 0 .. Len(text), n \in 0 .. WordMod - 1 :
          i + n < WordMod =>
            LET part == Substring("string", s, i, n, all)
                rest == Substring("literal", s, i, WordMod - 1 - i, all)
            IN /\ part = Append(SubSeq(text, i + 1, Lesser(i + n, Len(text))), 0)
               /\ Appended("string", SubFirst(s, i, all), "literal", rest, all) = s
               /\ SubLast(s, Len(text) - i, all) = rest
     /\ text # <<>> => Appended("string", SubFirst(s, Len(text) - 1, all), "string", SubLastChar(s, all), all) = s
     /\ CText(both) = text \o CText(t) /\ Length(both) = Length(s) + Length(t)
     /\ grown \in {both, s} /\ (grown = s <=> Len(both) > room \/ CText(t) = <<>>)
     /\ at # Absent => /\ HasText(s, t) /\ Instring(at, s, t)
                       /\ SubSeq(text, at + 1, at + Len(CText(t))) = CText(t)
                       /\ \A i \in 0 .. at - 1 : SubSeq(text, i + 1, i + Len(CText(t))) # CText(t)
     /\ HasText(both, s) /\ HasText(both, t)
     /\ Compare(s, t) = -Compare(t, s) /\ (Compare(s, t) = 0) = Equals(s, t)
     /\ (Compare(s, t) < 0 /\ text # <<>>) => Compare(Appended("string", t, "string", s, all), s) > 0

\* A block written by appendInto holds the whole text or what it held; two that are
\* the same block never fit in it, unless one of them is empty.
AppendIntoAgrees(s, t, cells) ==
  LET old == [i \in 1 .. cells |-> IF i = cells THEN 0 ELSE 7]
      mem == <<s, t, old>>
      done == AppendInto(mem, 1, 2, 3)
      fits == cells >= Length(s) + Length(t) + 1
  IN /\ fits => CText(done[3]) = CText(s) \o CText(t) /\ Len(done[3]) = cells
     /\ ~fits => done = mem
     /\ done[1] = s /\ done[2] = t
     /\ AppendInto(mem, 1, 2, 1)[1] = s /\ AppendInto(mem, 1, 2, 2)[2] = t
     /\ AppendInto(mem, 1, 1, 1)[1] = s

-----------------------------------------------------------------------------
(* str.c *)

Str(cap) == [text |-> <<>>, cap |-> cap, truncated |-> FALSE]
Room(s) == IF s.cap > 0 THEN s.cap - 1 - Len(s.text) ELSE 0
Putc(s, c) ==
  IF Len(s.text) + 1 >= s.cap THEN [s EXCEPT !.truncated = TRUE] ELSE [s EXCEPT !.text = Append(@, c)]
Put(s, text) ==
  [s EXCEPT !.text = @ \o SubSeq(text, 1, Lesser(Len(text), Room(s))),
            !.truncated = @ \/ Len(text) > Room(s)]
Printf(s, text) == IF s.cap = 0 THEN [s EXCEPT !.truncated = TRUE] ELSE Put(s, text)

\* A variant of it: a text that does not fit is left out.
PutWhole(s, text) == IF Len(text) > Room(s) THEN [s EXCEPT !.truncated = TRUE] ELSE [s EXCEPT !.text = @ \o text]

Escaped(c) == IF c \in DOMAIN Designator THEN <<Backslash, Designator[c]>> ELSE <<c>>
PutQuoted(s, text) ==
  LET after[i \in 0 .. Len(text)] ==
        IF i = 0 THEN Putc(s, Quote)
        ELSE IF text[i] \in DOMAIN Designator THEN Put(after[i - 1], Escaped(text[i]))
        ELSE Putc(after[i - 1], text[i])
  IN Putc(after[Len(text)], Quote)

\* However it is put, a text is the beginning of what was meant, as much as fits, and
\* truncated tells whether something is missing.
Done(s, step) ==
  CASE step[1] = "put" -> Put(s, step[2])
    [] step[1] = "quoted" -> PutQuoted(s, step[2])
    [] step[1] = "printf" -> Printf(s, step[2])
Meant(step) ==
  LET inside[i \in 0 .. Len(step[2])] == IF i = 0 THEN <<>> ELSE inside[i - 1] \o Escaped(step[2][i]) IN
  IF step[1] = "quoted" THEN <<Quote>> \o inside[Len(step[2])] \o <<Quote>> ELSE step[2]
StrAgrees(steps, cap) ==
  LET n == Len(steps)
      after[i \in 0 .. n] == IF i = 0 THEN Str(cap) ELSE Done(after[i - 1], steps[i])
      meant[i \in 0 .. n] == IF i = 0 THEN <<>> ELSE meant[i - 1] \o Meant(steps[i])
      s == after[n]
      fits == Lesser(Len(meant[n]), IF cap = 0 THEN 0 ELSE cap - 1)
  IN /\ s.text = SubSeq(meant[n], 1, fits)
     /\ Len(meant[n]) > fits => s.truncated
     /\ s.truncated => Len(meant[n]) > fits \/ cap = 0

-----------------------------------------------------------------------------
(* exception.c: live are the blocks that malloc gave and free did not take. *)

NoText == 0
Exception0 == [message |-> NoText, details |-> NoText, live |-> {}, next |-> 1]
Given(e) == [e EXCEPT !.live = @ \cup {e.next}, !.next = @ + 1]
Freed(e, block) == [e EXCEPT !.live = @ \ {block}]
\* exceptionInitializeV, with a message or none; ok says whether it is written.
Formatted(ok) == IF ok THEN [Given(Exception0) EXCEPT !.message = 1] ELSE Exception0

\* A variant of it: the old details are freed before there are new ones.
SetDetailsFreesFirst(e, ok) ==
  LET emptied == Freed(e, e.details) IN
  IF ok THEN [Given(emptied) EXCEPT !.details = e.next] ELSE emptied
\* Exception_setDetailsV.
SetDetails(e, ok) == IF ok THEN [Freed(Given(e), e.details) EXCEPT !.details = e.next] ELSE e
ExceptionFree(e) == [Freed(Freed(e, e.message), e.details) EXCEPT !.message = NoText, !.details = NoText]

\* However often its details are set, and whether or not there is memory for them, an
\* exception owns what it shows and nothing else; freed once or twice, it owns nothing.
ExceptionsAgree(message, sets) ==
  LET n == Len(sets)
      after[i \in 0 .. n] == IF i = 0 THEN Formatted(message) ELSE SetDetails(after[i - 1], sets[i])
      e == after[n]
      good == {i \in 1 .. n : sets[i]}
  IN /\ e.live = {e.message, e.details} \ {NoText}
     /\ (e.details # NoText) = (good # {})
     /\ good # {} => e = after[CHOOSE i \in good : \A k \in good : k <= i]
     /\ ExceptionFree(e).live = {} /\ ExceptionFree(ExceptionFree(e)) = ExceptionFree(e)

-----------------------------------------------------------------------------
(* Words and patterns *)

CONSTANTS Lower,    \* what tolower makes of the letters it changes
          Wordly    \* the characters that belong to a word: letters, digits, _


\* normalize_char.
Normalized(c, cased) == IF ~cased /\ c \in DOMAIN Lower THEN Lower[c] ELSE c
SameChar(c, d, cased) == Normalized(c, cased) = Normalized(d, cased)

RECURSIVE LikeFrom(_, _, _, _, _, _, _)
\* A variant of it: a % keeps the stretch it took first.
LikeFromOnce(t, p, cased, i, j, star, taken) ==
  IF i > Len(t) THEN \A k \in j .. Len(p) : p[k] = "%"
  ELSE IF j <= Len(p) /\ p[j] = "%" THEN LikeFrom(t, p, cased, i, j + 1, j, i)
  ELSE IF j <= Len(p) /\ (p[j] = "_" \/ SameChar(t[i], p[j], cased))
       THEN LikeFrom(t, p, cased, i + 1, j + 1, star, taken)
  ELSE star = j - 1 /\ LikeFrom(t, p, cased, taken + 1, star + 1, star, taken + 1)
\* match_like: what is left of the text at i and of the pattern at j; on a mismatch
\* the last % takes one character more than it did.  No pattern has a character 0.
LikeFrom(t, p, cased, i, j, star, taken) ==
  IF i > Len(t) THEN \A k \in j .. Len(p) : p[k] = "%"
  ELSE IF j <= Len(p) /\ p[j] = "%" THEN LikeFrom(t, p, cased, i, j + 1, j, i)
  ELSE IF j <= Len(p) /\ (p[j] = "_" \/ SameChar(t[i], p[j], cased))
       THEN LikeFrom(t, p, cased, i + 1, j + 1, star, taken)
  ELSE star # Absent /\ LikeFrom(t, p, cased, taken + 1, star + 1, star, taken + 1)
MatchLike(t, p, cased) == LikeFrom(t, p, cased, 1, 1, Absent, Absent)

\* is_word_boundary.
IsWordBoundary(c) == c \notin Wordly

StandsAt(t, p, i, cased) == \A j \in 1 .. Len(p) : SameChar(t[i + j], p[j], cased)
StandsAlone(t, p, i) == /\ i = 0 \/ IsWordBoundary(t[i])
                        /\ i + Len(p) = Len(t) \/ IsWordBoundary(t[i + Len(p) + 1])

\* find_substring: the first offset; an empty word stands at 0 in any text.
FindSubstring(t, p, cased, alone) ==
  LET found == {i \in 0 .. Len(t) - Len(p) : StandsAt(t, p, i, cased) /\ (alone => StandsAlone(t, p, i))} IN
  IF p = <<>> THEN 0
  ELSE IF found = {} THEN Absent ELSE CHOOSE i \in found : \A k \in found : i <= k

\* Search_match and Search_findFirst; flags says which of "case", "word" and "like" are set.
Match(t, p, flags) ==
  IF "like" \in flags THEN MatchLike(t, p, "case" \in flags)
  ELSE FindSubstring(t, p, "case" \in flags, "word" \in flags) >= 0
FindFirst(t, p, flags) == FindSubstring(t, p, "case" \in flags, "word" \in flags)

-----------------------------------------------------------------------------
\* A pattern describes a text when each of its signs can be given a stretch of the
\* text, one after the other: any stretch to %, one character to the others.
Describes(t, p, cased) ==
  LET n == Len(p)
      fits[j \in 0 .. n] ==   \* where in the text the first j signs can end
        IF j = 0 THEN {0}
        ELSE {e \in 0 .. Len(t) :
                \E b \in fits[j - 1] :
                  IF p[j] = "%" THEN b <= e
                  ELSE e = b + 1 /\ (p[j] = "_" \/ SameChar(t[e], p[j], cased))}
  IN Len(t) \in fits[n]

\* Where a pattern of plain characters is found, it matches with % around it; the
\* offset answered is the first; a word found alone is found among all.
Plain(p) == \A j \in 1 .. Len(p) : p[j] \notin {"%", "_"}
FindAgrees(t, p) ==
  \A cased \in BOOLEAN :
    LET case == IF cased THEN {"case"} ELSE {}
        i == FindFirst(t, p, case)
        w == FindFirst(t, p, case \cup {"word"})
    IN /\ Match(t, p, case \cup {"like"}) = Describes(t, p, cased)
       /\ Plain(p) => (i >= 0) = Describes(t, <<"%">> \o p \o <<"%">>, cased)
       /\ i > 0 => FindFirst(SubSeq(t, 1, i + Len(p) - 1), p, case) = Absent
       /\ i >= 0 => Len(p) + i <= Len(t)
       /\ Match(t, p, case \cup {"word"}) => w >= i /\ i >= 0

-----------------------------------------------------------------------------
(* Ranks *)

CONSTANTS QueryKept, TextKept,  \* the characters of a query and of a text that are
                                \* put into lower case, 63 and 127
          Joints                \* _ and -, behind which a word begins

LowerCased(t) == [i \in DOMAIN t |-> Normalized(t[i], FALSE)]
Kept(t, room) == LowerCased(SubSeq(t, 1, Lesser(Len(t), room)))
Begins(t, q, i) == i + Len(q) <= Len(t) /\ StandsAt(t, q, i, FALSE)
BeginsWord(t, i) == t[i] \in Joints \/ t[i + 1] \in DOMAIN Lower
\* How many characters of q are met, one after the other, along t.
Walked(t, q) == FoldLeft(LAMBDA k, c : IF k < Len(q) /\ q[k + 1] = c THEN k + 1 ELSE k, 0, t)

\* calculate_score: the best of its tiers, less what the text has more than the query.
\* A long query is looked for inside by its first characters only.
Tiers == {1000, 800, 600, 400, 200}
Reaches(tier, t, q) ==
  CASE tier = 1000 -> LowerCased(t) = LowerCased(q)
    [] tier = 800 -> Begins(t, q, 0)
    [] tier = 600 -> \E i \in 1 .. Len(t) - 1 : BeginsWord(t, i) /\ Begins(t, q, i)
    [] tier = 400 -> FindSubstring(Kept(t, TextKept), Kept(q, QueryKept), TRUE, FALSE) # Absent
    [] tier = 200 -> Walked(Kept(t, TextKept), Kept(q, QueryKept)) = Len(Kept(q, QueryKept))
Score(t, q) ==
  LET reached == {tier \in Tiers : Reaches(tier, t, q)} IN
  IF q = <<>> \/ reached = {} THEN 0
  ELSE (CHOOSE tier \in reached : \A other \in reached : other <= tier) - (Len(t) - Len(q))

\* Spotlight_rank: the first room texts that score, the best in front; where qsort puts
\* two of the same score is open, and here by their place.
Ranked(q, texts, room) ==
  LET found == SelectSeq([i \in DOMAIN texts |-> [id |-> i - 1, score |-> Score(texts[i], q)]],
                         LAMBDA m : m.score > 0)
      better(m, n) == m.score > n.score \/ (m.score = n.score /\ m.id < n.id)
  IN IF room = 0 THEN [total |-> 0, matches |-> <<>>]
     ELSE [total |-> Len(found), matches |-> SortSeq(SubSeq(found, 1, Lesser(Len(found), room)), better)]

-----------------------------------------------------------------------------
\* A text scores when the query's characters stand in it one after the other, and more
\* than 200 when they stand together; a longer text that begins as the query does scores
\* less; the case of a letter matters only where a word begins with it.
Scattered(t, q) ==
  \E at \in [DOMAIN q -> DOMAIN t] :
    \A j \in DOMAIN q : SameChar(t[at[j]], q[j], FALSE) /\ (j > 1 => at[j - 1] < at[j])
Together(t, q) == Describes(t, <<"%">> \o q \o <<"%">>, FALSE)
ScoresAgree(t, q) ==
  LET score == Score(t, q)
      whole == Len(q) <= QueryKept /\ Len(t) <= TextKept
  IN /\ q = <<>> => score = 0
     /\ q # <<>> /\ whole => /\ (score > 0) = Scattered(t, q)
                             /\ Plain(q) => (score > 200) = Together(t, q)
                             /\ Plain(q) => (score > 600) = Describes(t, q \o <<"%">>, FALSE)
     /\ score = 1000 <=> q # <<>> /\ LowerCased(t) = LowerCased(q)
     /\ score \in 601 .. 999 => Score(t \o <<"a">>, q) = score - 1
     /\ \/ Score(LowerCased(t), q) = score
        \/ Score(LowerCased(t), q) < score /\ score + Len(t) - Len(q) = 600

\* What is ranked is in order, scores as the text it names, and is as much as there is
\* room for of the total, which does not depend on the room; what fits exactly is in front.
RanksAgree(q, texts) ==
  \A room \in 1 .. Len(texts) :
    LET r == Ranked(q, texts, room)
        scoring == {i \in DOMAIN texts : Score(texts[i], q) > 0}
        n == Len(r.matches)
    IN /\ r.total = Cardinality(scoring) /\ n = Lesser(room, r.total)
       /\ \A i \in 1 .. n - 1 : r.matches[i].score >= r.matches[i + 1].score
       /\ \A i \in 1 .. n : r.matches[i].score = Score(texts[r.matches[i].id + 1], q)
       /\ Cardinality({r.matches[i].id : i \in 1 .. n}) = n
       /\ (\E i \in 1 .. n : LowerCased(texts[r.matches[i].id + 1]) = LowerCased(q)) => r.matches[1].score = 1000

-----------------------------------------------------------------------------
(* Expressions *)

CONSTANTS Large,       \* the largest base and exponent of a power
          Numbers,     \* the words that are numbers: naturals
          Constants,   \* the names of constants, with their values
          Functions,   \* the names of functions
          Unknown      \* names of neither

Undefined == <<0, 0>>

Abs(i) == IF i < 0 THEN -i ELSE i
Gcd(a, b) ==
  LET gcd[x \in Nat, y \in Nat] == IF y = 0 THEN x ELSE gcd[y, x % y] IN gcd[a, b]
Ratio(n, d) ==
  LET g == Gcd(Abs(n), Abs(d)) IN
  CASE d = 0 -> Undefined
    [] d > 0 -> <<n \div g, d \div g>>
    [] d < 0 -> <<(-n) \div g, (-d) \div g>>
Whole(i) == <<i, 1>>
IsZero(x) == x = Whole(0)
Less(x, y) == x # Undefined /\ y # Undefined /\ x[1] * y[2] < y[1] * x[2]

\* What Joined makes of Undefined is Undefined: its denominator is 0.
Rest(x, y) ==   \* fmod: what is left over has the sign of the dividend
  LET n == x[1] * y[2]
      m == x[2] * y[1]
      whole == IF m = 0 THEN 0 ELSE Abs(n) \div Abs(m)
      cut == IF (n < 0) = (m < 0) THEN whole ELSE -whole
  IN Ratio(x[1] * y[2] - cut * y[1] * x[2], IF m = 0 THEN 0 ELSE x[2] * y[2])
\* pow, for exponents that are whole and numbers that are not too large.
Power(x, y) ==
  LET k == Abs(y[1])
      base == IF y[1] >= 0 THEN x ELSE <<x[2], x[1]>>
  IN CASE y = Whole(0) \/ x = Whole(1) -> Whole(1)
       [] y[2] # 1 \/ base[2] = 0 \/ k > Large \/ Abs(x[1]) > Large \/ x[2] > Large -> Undefined
       [] OTHER -> Ratio(base[1] ^ k, base[2] ^ k)
Joined(op, x, y) ==
  CASE op = "+" -> Ratio(x[1] * y[2] + y[1] * x[2], x[2] * y[2])
    [] op = "-" -> Ratio(x[1] * y[2] - y[1] * x[2], x[2] * y[2])
    [] op = "*" -> Ratio(x[1] * y[1], x[2] * y[2])
    [] op = "/" -> Ratio(x[1] * y[2], x[2] * y[1])
    [] op = "%" -> Rest(x, y)
    [] op = "^" -> Power(x, y)
Negated(x) == <<-x[1], x[2]>>

\* The functions that the samples call; the others are table entries like these.
Applied(name, a, b, c) ==
  CASE name = "abs" -> IF Less(a, Whole(0)) THEN Negated(a) ELSE a
    [] name = "min" -> IF Less(a, b) THEN a ELSE b
    [] name = "clamp" -> IF Less(a, b) THEN b ELSE IF Less(c, a) THEN c ELSE a

\* The parser has read the words before at, remembers an error and carries a value.
Readings == [at : Nat, bad : BOOLEAN, val : Int \X Int]
Fail(s) == [s EXCEPT !.bad = TRUE, !.val = Whole(0)]
Next(text, s) == IF s.at <= Len(text) THEN text[s.at] ELSE "end"
Past(s) == [s EXCEPT !.at = @ + 1]
Closed(text, s) == IF Next(text, s) = ")" THEN Past(s) ELSE Fail(s)

\* Each part of the parser is told what parsed[part, s], any part from s on, reads.

\* A call behind its name, with at most three arguments; one left out is 0.
Call(parsed, text, name, s) ==
  LET Further(from) == IF Next(text, from) = "," THEN parsed["expression", Past(from)]
                       ELSE [from EXCEPT !.val = Whole(0)]
      a == parsed["expression", Past(s)]
      b == Further(a)
      c == IF Next(text, a) = "," THEN Further(b) ELSE b
      end == Closed(text, c)
  IN IF Next(text, s) # "(" \/ end.bad \/ name \notin Functions
     THEN Fail(IF Next(text, s) # "(" THEN s ELSE end)
     ELSE [end EXCEPT !.val = Applied(name, a.val, b.val, c.val)]

\* parse_primary.
Primary(parsed, text, s) ==
  LET word == Next(text, s)
      p == parsed["primary", Past(s)]
      e == parsed["expression", Past(s)]
  IN CASE word = "+" -> p
       [] word = "-" -> [p EXCEPT !.val = Negated(@)]
       [] word = "(" -> IF Next(text, e) = ")" THEN Past(e) ELSE [e EXCEPT !.bad = TRUE]
       [] word \in DOMAIN Numbers -> [Past(s) EXCEPT !.val = Whole(Numbers[word])]
       [] word \in DOMAIN Constants -> [Past(s) EXCEPT !.val = Constants[word]]
       [] word \in Functions \cup Unknown -> Call(parsed, text, word, Past(s))
       [] OTHER -> Fail(s)

\* A variant of it: powers are taken from the left.
FactorRestLeft(parsed, text, base) ==
  LET e == parsed["primary", Past(base)] IN
  IF Next(text, base) # "^" THEN base
  ELSE parsed["powers", [e EXCEPT !.val = Joined("^", base.val, @)]]

\* parse_factor, behind its first primary: a power of a power is taken from the right.
FactorRest(parsed, text, base) ==
  LET e == parsed["factor", Past(base)] IN
  IF Next(text, base) # "^" THEN base
  ELSE parsed["powers", [e EXCEPT !.val = Joined("^", base.val, @)]]

\* parse_term, behind its first factor: a division by zero is an error and ends the term.
TermRest(parsed, text, left) ==
  LET op == Next(text, left)
      right == parsed["factor", Past(left)]
  IN IF op \notin {"*", "/", "%"} THEN left
     ELSE IF op # "*" /\ IsZero(right.val) THEN Fail(right)
     ELSE parsed["products", [right EXCEPT !.val = Joined(op, left.val, @)]]

\* parse_expression, behind its first term.
ExpressionRest(parsed, text, left) ==
  LET op == Next(text, left)
      right == parsed["term", Past(left)]
  IN IF op \notin {"+", "-"} THEN left
     ELSE parsed["sums", [right EXCEPT !.val = Joined(op, left.val, @)]]

Parts == {"expression", "sums", "term", "products", "factor", "powers", "primary"}
Parsed(text) ==
  LET parsed[part \in Parts, s \in Readings] ==
        CASE part = "expression" -> parsed["sums", parsed["term", s]]
          [] part = "term" -> parsed["products", parsed["factor", s]]
          [] part = "factor" -> parsed["powers", parsed["primary", s]]
          [] part = "sums" -> ExpressionRest(parsed, text, s)
          [] part = "products" -> TermRest(parsed, text, s)
          [] part = "powers" -> FactorRest(parsed, text, s)
          [] part = "primary" -> Primary(parsed, text, s)
  IN parsed["expression", [at |-> 1, bad |-> FALSE, val |-> Whole(0)]]

Refused == [ok |-> FALSE, val |-> Whole(0)]
\* Calc_eval: all of the text must be read and none of it in error.
Eval(text) ==
  LET s == Parsed(text) IN
  IF text = <<>> \/ s.bad \/ s.at <= Len(text) THEN Refused ELSE [ok |-> TRUE, val |-> s.val]

-----------------------------------------------------------------------------
\* The same language as a grammar, with no reader that goes from left to right: what
\* a stretch of the text can be and what it is worth then.  A sum is cut at its last
\* + or -, a product at its last * / or %, a power at its first ^.
Unfit == <<1, 0>>   \* the worth of a division by zero, and of all that holds one

Shared(op, x, y) ==
  IF Unfit \in {x, y} \/ (op \in {"/", "%"} /\ IsZero(y)) THEN Unfit ELSE Joined(op, x, y)

Operators == [sum |-> {"+", "-"}, product |-> {"*", "/", "%"}, power |-> {"^"}]
LeftPart == [sum |-> "sum", product |-> "product", power |-> "primary"]
RightPart == [sum |-> "product", product |-> "power", power |-> "power"]
Narrower == [sum |-> "product", product |-> "power", power |-> "primary"]

\* What is in parentheses or the arguments of a call, from i to j.
Enclosed(text, i, j) == text[i] = "(" /\ text[j] = ")"
Arguments(worths, text, i, j) ==
  LET none == {Whole(0)}
      commas == {k \in i .. j : text[k] = ","}
      arg(a, b) == IF a > b THEN {} ELSE worths["sum", a, b]
  IN UNION ({arg(i, j) \X none \X none}
              \cup {arg(i, k - 1) \X arg(k + 1, j) \X none : k \in commas}
              \cup {arg(i, k - 1) \X arg(k + 1, m - 1) \X arg(m + 1, j) : k \in commas, m \in commas})

\* The worths of the stretch from i to j as a primary.
PrimaryWorths(worths, text, i, j) ==
  CASE i = j /\ text[i] \in DOMAIN Numbers -> {Whole(Numbers[text[i]])}
    [] i = j /\ text[i] \in DOMAIN Constants -> {Constants[text[i]]}
    [] i < j /\ text[i] = "+" -> worths["primary", i + 1, j]
    [] i < j /\ text[i] = "-" -> {IF x = Unfit THEN Unfit ELSE Negated(x) : x \in worths["primary", i + 1, j]}
    [] i + 1 < j /\ Enclosed(text, i, j) -> worths["sum", i + 1, j - 1]
    [] i + 2 < j /\ text[i] \in Functions /\ Enclosed(text, i + 1, j) ->
         {IF Unfit \in {args[1], args[2], args[3]} THEN Unfit ELSE Applied(text[i], args[1], args[2], args[3])
            : args \in Arguments(worths, text, i + 2, j - 1)}
    [] OTHER -> {}

\* The worths of a text as a sum.
Worths(text) ==
  LET n == Len(text)
      worths[kind \in {"sum", "product", "power", "primary"}, i \in 1 .. n, j \in 1 .. n] ==
        IF kind = "primary" THEN PrimaryWorths(worths, text, i, j)
        ELSE worths[Narrower[kind], i, j]
               \cup UNION {{Shared(text[k], x, y) : x \in worths[LeftPart[kind], i, k - 1],
                                                    y \in worths[RightPart[kind], k + 1, j]}
                             : k \in {m \in i + 1 .. j - 1 : text[m] \in Operators[kind]}}
  IN IF n = 0 THEN {} ELSE worths["sum", 1, n]

\* A text is worth one thing or nothing; what it is worth is what is answered, and a
\* text that is worth nothing, or that divides by zero, is refused.
EvalAgrees(text) ==
  LET worths == Worths(text)
      answer == Eval(text)
  IN IF answer.ok THEN worths = {answer.val} ELSE worths \subseteq {Unfit}

-----------------------------------------------------------------------------
(* Dates *)

CONSTANTS
  Millis, Seconds, Minutes, Hours   \* per second, minute, hour and day: 1000, 60, 60, 24

Quot(a, b) == IF a < 0 THEN -(Abs(a) \div b) ELSE a \div b   \* a / b in C, b positive
Rem(a, b) == a - b * Quot(a, b)

\* A variant for checking: nothing is borrowed before 1970.
UnitsTowardsZero(total, per) == Quot(total, per)

\* One step of the decomposition: what is left below the unit, and the units.
Below(total, per) == IF Rem(total, per) < 0 THEN Rem(total, per) + per ELSE Rem(total, per)
Units(total, per) == IF Rem(total, per) < 0 THEN Quot(total, per) - 1 ELSE Quot(total, per)

SecondsOf(e) == Units(e, Millis)
MinutesOf(e) == Units(SecondsOf(e), Seconds)
HoursOf(e) == Units(MinutesOf(e), Minutes)
DaysOf(e) == Units(HoursOf(e), Hours)

\* 1 January 1970 was a Thursday; 1 is Monday.
DayOfWeek(days) == 1 + Below(days + 3, 7)

\* Civil from days: eras of 400 years that begin on 1 March, then the year of the
\* era, the day of the year and the month from March.
Era(z) == Quot(IF z >= 0 THEN z ELSE z - 146096, 146097)
YearOfEra(doe) == Quot(doe - Quot(doe, 1460) + Quot(doe, 36524) - Quot(doe, 146096), 365)
DayOfYear(doe, yoe) == doe - (365 * yoe + Quot(yoe, 4) - Quot(yoe, 100))
MonthFromMarch(doy) == Quot(5 * doy + 2, 153)
MonthOf(mp) == IF mp < 10 THEN mp + 3 ELSE mp - 9

Dated(year, doy, mp) ==
  [year |-> IF MonthOf(mp) <= 2 THEN year + 1 ELSE year, month |-> MonthOf(mp),
   day |-> doy - Quot(153 * mp + 2, 5) + 1]
DatedIn(era, yoe, doy) == Dated(yoe + era * 400, doy, MonthFromMarch(doy))
DatedAt(era, doe) == DatedIn(era, YearOfEra(doe), DayOfYear(doe, YearOfEra(doe)))
DateOf(days) == DatedAt(Era(days + 719468), days + 719468 - Era(days + 719468) * 146097)

\* setEpochMillis
TimeOf(e) ==
  [hour |-> Below(HoursOf(e), Hours), minute |-> Below(MinutesOf(e), Minutes),
   second |-> Below(SecondsOf(e), Seconds), millisecond |-> Below(e, Millis)]
Fields(e) == [date |-> DateOf(DaysOf(e)), time |-> TimeOf(e), dayOfWeek |-> DayOfWeek(DaysOf(e))]

\* Calendar_isLeapYear, Calendar_daysInMonth
IsLeapYear(year) == (Rem(year, 4) = 0 /\ Rem(year, 100) # 0) \/ Rem(year, 400) = 0
DaysInMonth(year, month) ==
  IF month < 1 \/ month > 12 THEN 0
  ELSE IF month = 2 THEN IF IsLeapYear(year) THEN 29 ELSE 28
  ELSE IF month \in {4, 6, 9, 11} THEN 30 ELSE 31

\* Calendar_dayOfWeek: Zeller's congruence, from Saturday.
Zeller(y, m, day) ==
  Rem(day + Quot(13 * (m + 1), 5) + Rem(y, 100) + Quot(Rem(y, 100), 4)
        + Quot(Quot(y, 100), 4) + 5 * Quot(y, 100), 7)
ZellerDay(year, month, day) ==
  LET h == IF month < 3 THEN Zeller(year - 1, month + 12, day) ELSE Zeller(year, month, day) IN
  CASE h = 0 -> 6 [] h = 1 -> 7 [] h \in 2 .. 5 -> h - 1 [] OTHER -> 5

\* toEpochMillis
DaysIn(era, yoe, doy) == era * 146097 + yoe * 365 + Quot(yoe, 4) - Quot(yoe, 100) + doy - 719468
DaysFrom(y, m, day) ==
  LET era == Quot(IF y >= 0 THEN y ELSE y - 399, 400) IN
  DaysIn(era, y - era * 400, Quot(153 * m + 2, 5) + day - 1)
DaysOfDate(year, month, day) ==
  IF month <= 2 THEN DaysFrom(year - 1, month + 9, day) ELSE DaysFrom(year, month - 3, day)
ToEpochMillis(year, month, day, t) ==
  (((DaysOfDate(year, month, day) * Hours + t.hour) * Minutes + t.minute) * Seconds + t.second) * Millis
    + t.millisecond

\* Calendar_addDays, addMonths and addYears: the instant they leave; a day that
\* the month does not have becomes its last.
AddDays(e, days) == e + days * Hours * Minutes * Seconds * Millis
Clipped(year, month, day) == IF day < DaysInMonth(year, month) THEN day ELSE DaysInMonth(year, month)
Moved(year, month, f) == ToEpochMillis(year, month, Clipped(year, month, f.date.day), f.time)
AddMonths(f, months) ==
  LET total == f.date.year * 12 + f.date.month - 1 + months IN
  Moved(Quot(total, 12), Rem(total, 12) + 1, f)
AddYears(f, years) == Moved(f.date.year + years, f.date.month, f)

-----------------------------------------------------------------------------
NextDate(d) ==
  IF d.day < DaysInMonth(d.year, d.month) THEN [d EXCEPT !.day = @ + 1]
  ELSE IF d.month < 12 THEN [d EXCEPT !.month = @ + 1, !.day = 1]
  ELSE [year |-> d.year + 1, month |-> 1, day |-> 1]

Epoch == [date |-> [year |-> 1970, month |-> 1, day |-> 1],
          time |-> [hour |-> 0, minute |-> 0, second |-> 0, millisecond |-> 0], dayOfWeek |-> 4]

\* The dates follow one another as the months have days and the weekdays as a
\* week has, forwards and back from 1970; the fields give the instant back.
FollowsThe(f, g, e) ==
  /\ g.date = NextDate(f.date) /\ g.time = f.time
  /\ g.dayOfWeek = IF f.dayOfWeek = 7 THEN 1 ELSE f.dayOfWeek + 1
  /\ ToEpochMillis(f.date.year, f.date.month, f.date.day, f.time) = e
  /\ f.time.hour \in 0 .. Hours - 1 /\ f.time.minute \in 0 .. Minutes - 1
  /\ f.time.second \in 0 .. Seconds - 1 /\ f.time.millisecond \in 0 .. Millis - 1

\* From year 1 on, Zeller's weekday is the one counted from 1970, and months and
\* years are added as on a calendar.
MovesAlong(f, months) ==
  /\ ZellerDay(f.date.year, f.date.month, f.date.day) = f.dayOfWeek
  /\ \A k \in months :
       LET g == Fields(AddMonths(f, k))
           n == f.date.year * 12 + f.date.month - 1 + k
       IN /\ g.date.year = n \div 12 /\ g.date.month = (n % 12) + 1
          /\ g.date.day = (IF f.date.day < DaysInMonth(g.date.year, g.date.month)
                             THEN f.date.day ELSE DaysInMonth(g.date.year, g.date.month))
          /\ g.time = f.time
  /\ \A k \in {-1, 4, 100} :
       LET g == Fields(AddYears(f, k)) IN
       /\ g.date.year = f.date.year + k /\ g.date.month = f.date.month /\ g.time = f.time
       /\ g.date.day = f.date.day \/ (f.date.month = 2 /\ f.date.day = 29 /\ g.date.day = 28)

CalendarAgrees(e, months) ==
  /\ Fields(0) = Epoch
  /\ FollowsThe(Fields(e), Fields(AddDays(e, 1)), e)
  /\ Fields(e).date.year > 1 => MovesAlong(Fields(e), months)

-----------------------------------------------------------------------------
(* Text encodings *)

Pad == -1
Space == -2
Alien == -3

\* The n low bits of v, the highest first, and the value of a sequence of bits.
BitsOf(v, n) == [i \in 1 .. n |-> (v \div 2 ^ (n - i)) % 2]
ValueOf(bits) == FoldLeft(LAMBDA v, b : 2 * v + b, 0, bits)

\* Base32_encodedLength, Base32_decodedLength.
Base32EncodedLength(n) == ((n + 4) \div 5) * 8
Base32DecodedLength(n) == (n * 5) \div 8

\* One group of five bytes, of which take are there, as eight characters.
Base32Group(bytes, take) ==
  LET group == FlattenSeq([j \in 1 .. 5 |-> BitsOf(IF j <= take THEN bytes[j] ELSE 0, 8)])
      pad == ((5 - take) * 8) \div 5
  IN [j \in 1 .. 8 |-> IF j > 8 - pad THEN Pad ELSE ValueOf(SubSeq(group, 5 * j - 4, 5 * j))]

\* A variant of it: the terminator has no room of its own.
Base32EncodeTight(bytes, cap) ==
  LET n == Len(bytes)
      need == Base32EncodedLength(n)
      group(k) == LET take == IF n - 5 * k < 5 THEN n - 5 * k ELSE 5 IN
                  Base32Group(SubSeq(bytes, 5 * k + 1, 5 * k + take), take)
  IN IF cap < need THEN [ok |-> FALSE, text |-> <<>>]
     ELSE [ok |-> TRUE, text |-> FlattenSeq([k \in 1 .. (n + 4) \div 5 |-> group(k - 1)])]

\* Base32_encode into a buffer of cap bytes, of which one is for the terminator.
Base32Encode(bytes, cap) ==
  LET n == Len(bytes)
      need == Base32EncodedLength(n)
      group(k) == LET take == IF n - 5 * k < 5 THEN n - 5 * k ELSE 5 IN
                  Base32Group(SubSeq(bytes, 5 * k + 1, 5 * k + take), take)
  IN IF cap < need + 1 THEN [ok |-> FALSE, text |-> <<>>]
     ELSE [ok |-> TRUE, text |-> FlattenSeq([k \in 1 .. (n + 4) \div 5 |-> group(k - 1)])]

\* One character of Base32_decode.  Of the accumulator, no more than the last twelve
\* bits are read.
Base32Take(s, c, cap) ==
  LET acc == (s.acc * 32 + c) % 4096
      bits == s.bits + 5
  IN IF s.code # "going" \/ c = Space THEN s
     ELSE IF c = Pad THEN [s EXCEPT !.code = "end"]
     ELSE IF c = Alien THEN [s EXCEPT !.code = "bad"]
     ELSE IF bits < 8 THEN [s EXCEPT !.acc = acc, !.bits = bits]
     ELSE IF Len(s.out) >= cap THEN [s EXCEPT !.code = "bad"]
     ELSE [s EXCEPT !.acc = acc, !.bits = bits - 8,
                    !.out = Append(@, (acc \div 2 ^ (bits - 8)) % 256)]
\* Base32_decode; a length is answered only when it succeeds.
Base32Decode(text, cap) ==
  LET s == FoldLeft(LAMBDA x, c : Base32Take(x, c, cap), [code |-> "going", acc |-> 0, bits |-> 0, out |-> <<>>], text)
  IN [ok |-> s.code # "bad", bytes |-> s.out, len |-> IF s.code = "bad" THEN 0 ELSE Len(s.out)]

\* Three bytes, or the one or two that are left over, as four characters of base64.
Base64Group(bytes) ==
  LET v == FlattenSeq([j \in 1 .. 3 |-> BitsOf(IF j <= Len(bytes) THEN bytes[j] ELSE 0, 8)]) IN
  [j \in 1 .. 4 |-> IF j > Len(bytes) + 1 THEN Pad ELSE ValueOf(SubSeq(v, 6 * j - 5, 6 * j))]
\* Url_base64: the text, or nothing when it does not fit with its terminator.
Base64(bytes, cap) ==
  LET n == Len(bytes)
      needed == 4 * ((n + 2) \div 3)
      end(k) == IF 3 * k + 3 < n THEN 3 * k + 3 ELSE n
  IN IF cap < needed + 1 THEN [ok |-> FALSE, text |-> <<>>]
     ELSE [ok |-> TRUE, text |-> FlattenSeq([k \in 1 .. (n + 2) \div 3 |->
                                   Base64Group(SubSeq(bytes, 3 * k - 2, end(k - 1)))])]

-----------------------------------------------------------------------------
\* Characters of width bits stand for the bits of the bytes in a row, and for zeros
\* behind them, and pads fill up the last group.
Stands(text, bytes, width, group) ==
  LET all == FlattenSeq([i \in 1 .. Len(bytes) |-> BitsOf(bytes[i], 8)])
      chars == (Len(all) + width - 1) \div width
  IN /\ Len(text) = ((chars + group - 1) \div group) * group
     /\ \A j \in 1 .. Len(text) :
          IF j > chars THEN text[j] = Pad
          ELSE \A b \in 1 .. width :
                 LET i == (j - 1) * width + b IN
                 BitsOf(text[j], width)[b] = IF i <= Len(all) THEN all[i] ELSE 0

\* What is encoded stands for the bytes, and is refused by a buffer that has no room
\* for it; it is decoded again, also with separators in between and without its
\* pads, into any buffer of as many bytes; what has an alien character before the
\* pads is refused.
CodesAgree(bytes) ==
  LET n == Len(bytes)
      need32 == Base32EncodedLength(n)
      text == Base32Encode(bytes, need32 + 1).text
      chars == SelectSeq(text, LAMBDA c : c # Pad)
  IN /\ Stands(text, bytes, 5, 8)
     /\ Stands(Base64(bytes, 4 * ((n + 2) \div 3) + 1).text, bytes, 6, 4)
     /\ \A cap \in 0 .. need32 + 2 : Base32Encode(bytes, cap).ok = (cap > Len(text))
     /\ \A cap \in 0 .. need32 + 2 : Base64(bytes, cap).ok = (cap > 4 * ((n + 2) \div 3))
     /\ Base32DecodedLength(Len(chars)) = n
     /\ \A t \in {text, chars} \cup {InsertAt(text, i, Space) : i \in 1 .. Len(text) + 1} :
          /\ Base32Decode(t, n) = [ok |-> TRUE, bytes |-> bytes, len |-> n]
          /\ n > 0 => ~Base32Decode(t, n - 1).ok
     /\ \A i \in 1 .. Len(chars) : ~Base32Decode(InsertAt(text, i, Alien), n).ok
     /\ Base32Decode(text \o <<Alien>>, n).ok = (chars # text)

\* Crypto_toHex and Crypto_fromHex: two digits a byte, the letters in either case (the
\* capital of a digit is 16 more); reading ends before the first pair that is none.
ToHex(bytes) == FlattenSeq([i \in DOMAIN bytes |-> <<bytes[i] \div 16, bytes[i] % 16>>])
HexVal(c) == IF c \in 0 .. 15 THEN c ELSE IF c \in 26 .. 31 THEN c - 16 ELSE -1
FromHex(text, max) ==
  LET pairs == Lesser(Len(text) \div 2, max)
      bad == {i \in 1 .. pairs : HexVal(text[2 * i - 1]) < 0 \/ HexVal(text[2 * i]) < 0}
      n == IF bad = {} THEN pairs ELSE (CHOOSE i \in bad : \A k \in bad : i <= k) - 1
  IN [i \in 1 .. n |-> 16 * HexVal(text[2 * i - 1]) + HexVal(text[2 * i])]

\* Crypto_constantTimeEquals: the bits in which any two bytes differ are gathered.
ConstantTimeEquals(a, b, n) ==
  /\ a # Null /\ b # Null
  /\ UNION {{k \in 1 .. 8 : BitsOf(a[i], 8)[k] # BitsOf(b[i], 8)[k]} : i \in 1 .. n} = {}

\* Crypto_rngBytes: whole words of the generator, then the beginning of one more.
WordBytes == 8
RngWord(k) == [i \in 1 .. WordBytes |-> <<k, i>>]
RngBytes(k, n) ==
  LET words == n \div WordBytes
      left == n % WordBytes
  IN [bytes |-> FlattenSeq([i \in 1 .. words |-> RngWord(k + i - 1)]) \o SubSeq(RngWord(k + words), 1, left),
      next |-> k + words + (IF left > 0 THEN 1 ELSE 0)]

\* Digits give their bytes back in either case and up to the room there is, and up to
\* what is no digit; one changed byte is seen wherever it stands; two drafts of random
\* bytes have no byte of the generator in common and waste less than a word each.
DigitsAgree(bytes) ==
  LET text == ToHex(bytes)
      capitals == [i \in DOMAIN text |-> IF text[i] > 9 /\ i % 3 # 0 THEN text[i] + 16 ELSE text[i]]
      Drafted(d) == {d.bytes[i] : i \in DOMAIN d.bytes}
  IN /\ \A max \in 0 .. Len(bytes) + 1, t \in {text, capitals, Append(capitals, 7)} :
          FromHex(t, max) = SubSeq(bytes, 1, Lesser(max, Len(bytes)))
     /\ \A i \in 1 .. Len(text) : FromHex(InsertAt(text, i, Alien), Len(bytes)) = SubSeq(bytes, 1, (i - 1) \div 2)
     /\ \A i \in DOMAIN bytes, v \in {0, 1, 172, 255}, n \in 0 .. Len(bytes) :
          ConstantTimeEquals(bytes, [bytes EXCEPT ![i] = v], n) = (n < i \/ bytes[i] = v)
     /\ \A m \in 0 .. 20 :
          LET first == RngBytes(1, Len(bytes))
              second == RngBytes(first.next, m)
          IN /\ Cardinality(Drafted(first) \cup Drafted(second)) = Len(bytes) + m
             /\ (second.next - 1) * WordBytes < Len(bytes) + m + 2 * WordBytes

-----------------------------------------------------------------------------
(* One-time codes *)

CONSTANTS Code(_),       \* the code of a step: six to eight digits, so two steps may share one
          StepSeconds    \* 30

\* Totp_code, at a time.
CodeAt(time) == Code(time \div StepSeconds)

RECURSIVE VerifyFrom(_, _, _, _, _)
VerifyReplays(code, step, span, offset, last) ==   \* a variant: only the last step is refused
  LET candidate == step + offset IN
  IF offset > span THEN [ok |-> FALSE, last |-> last]
  ELSE IF candidate < 0 \/ CodeAt(candidate * StepSeconds) # code
       THEN VerifyFrom(code, step, span, offset + 1, last)
  ELSE IF candidate = last THEN [ok |-> FALSE, last |-> last]
  ELSE [ok |-> TRUE, last |-> candidate]
VerifyFrom(code, step, span, offset, last) ==
  LET candidate == step + offset IN
  IF offset > span THEN [ok |-> FALSE, last |-> last]
  ELSE IF candidate < 0 \/ CodeAt(candidate * StepSeconds) # code
       THEN VerifyFrom(code, step, span, offset + 1, last)
  ELSE IF candidate <= last THEN [ok |-> FALSE, last |-> last]
  ELSE [ok |-> TRUE, last |-> candidate]

\* Totp_verify, with the caller's ioLastAcceptedStep.
Verify(code, time, window, last) ==
  LET span == IF window < 0 THEN 0 ELSE window IN
  VerifyFrom(code, time \div StepSeconds, span, -span, last)

-----------------------------------------------------------------------------
\* A caller that has accepted codes since step 0: the time never goes back.
Begun == [time |-> 0, last |-> 0, accepted |-> <<>>]
Tried(s, wait, code, window) ==
  LET answer == Verify(code, s.time + wait, window, s.last) IN
  [time |-> s.time + wait, last |-> answer.last,
   accepted |-> IF answer.ok THEN Append(s.accepted, [step |-> answer.last, code |-> code]) ELSE s.accepted]

\* Whatever is tried and when, each step's code is accepted at most once and in the
\* order of the steps, and is the code of a step that the window held.
AcceptedOnce(s) ==
  /\ \A i \in 1 .. Len(s.accepted) : s.accepted[i].code = Code(s.accepted[i].step)
  /\ \A i, j \in 1 .. Len(s.accepted) : i < j => s.accepted[i].step < s.accepted[j].step

\* The code of now is accepted when no step from now on was, unless it is also the
\* code of an earlier step in the window.
NowIsAccepted(s, window) ==
  LET now == s.time \div StepSeconds IN
  /\ s.last < now
  /\ \A k \in now - window .. now - 1 : k >= 0 => Code(k) # Code(now)
  => Verify(CodeAt(s.time), s.time, window, s.last) = [ok |-> TRUE, last |-> now]
TotpAgrees(s, windows) == AcceptedOnce(s) /\ \A w \in windows : NowIsAccepted(s, w)
=============================================================================
