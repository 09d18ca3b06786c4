-------------------------------- MODULE Png --------------------------------
(***************************************************************************)
(* image/png.c: a PNG stream decoded to RGBA.  A stream is a sequence of    *)
(* chunks behind its signature; zlib's inflate is external.                  *)
(*                                                                          *)
(* A chunk is [type, data, sound, whole]: sound when its CRC is right, whole *)
(* when the stream does not end before it does.  The data of an IHDR chunk   *)
(* is its fields, that of an IDAT chunk a sequence of compressed bytes.      *)
(***************************************************************************)
EXTENDS Integers, Sequences, FiniteSets, SequencesExt

CONSTANTS ByteMod,     \* 256
          MaxPixels    \* PNG_MAX_PIXELS

\* pngChannels: grey, RGB, grey and alpha, RGBA; no palette.
Channels(colorType) ==
  CASE colorType = 0 -> 1 [] colorType = 2 -> 3 [] colorType = 4 -> 2 [] colorType = 6 -> 4 [] OTHER -> 0

\* zlib, over a format where each byte stands for itself and End ends the stream.
End == -1
Inflate(bytes, size) ==
  IF Len(bytes) = size + 1 /\ \A i \in 1 .. Len(bytes) : bytes[i] = End <=> i = size + 1
  THEN [ok |-> TRUE, raw |-> SubSeq(bytes, 1, size)] ELSE [ok |-> FALSE, raw |-> <<>>]

\* What the first pass has found, and the code it ends with when it does not go on.
Begun == [code |-> "going", header |-> <<>>, idat |-> FALSE, end |-> FALSE]

HeaderCode(h) ==
  IF h.width = 0 \/ h.height = 0 \/ h.width * h.height > MaxPixels THEN "invalid"
  ELSE IF h.depth # 8 \/ Channels(h.color) = 0 \/ h.interlace # 0 THEN "unsupported"
  ELSE "going"

\* One chunk of the first pass; what follows IEND is not looked at.
Checked(s, chunk) ==
  IF s.code # "going" \/ s.end THEN s
  ELSE IF ~chunk.whole THEN [s EXCEPT !.code = "truncated"]
  ELSE IF ~chunk.sound THEN [s EXCEPT !.code = "invalid"]
  ELSE CASE chunk.type = "IHDR" ->
              IF s.header # <<>> THEN [s EXCEPT !.code = "invalid"]
              ELSE [s EXCEPT !.code = HeaderCode(chunk.data), !.header = <<chunk.data>>]
         [] chunk.type = "IDAT" ->
              IF s.header = <<>> THEN [s EXCEPT !.code = "invalid"] ELSE [s EXCEPT !.idat = TRUE]
         [] chunk.type = "IEND" -> [s EXCEPT !.end = TRUE]
         [] chunk.type = "critical" -> [s EXCEPT !.code = "unsupported"]
         [] chunk.type = "ancillary" -> s
FirstPass(stream) == FoldLeft(Checked, Begun, stream)

\* The second pass: what the IDAT chunks before IEND hold, one after the other.
Gathered(stream) ==
  LET last == CHOOSE i \in 1 .. Len(stream) :
                stream[i].type = "IEND" /\ \A j \in 1 .. i - 1 : stream[j].type # "IEND"
  IN FlattenSeq([i \in 1 .. last |-> IF stream[i].type = "IDAT" THEN stream[i].data ELSE <<>>])

\* The predictor of the filters, from the bytes to the left, above and above left.
PaethLast(left, up, upLeft) ==   \* a variant: of equally near ones the last
  LET p == left + up - upLeft
      off(x) == IF p > x THEN p - x ELSE x - p
  IN IF off(left) < off(up) /\ off(left) < off(upLeft) THEN left
     ELSE IF off(up) < off(upLeft) THEN up ELSE upLeft
Paeth(left, up, upLeft) ==
  LET p == left + up - upLeft
      off(x) == IF p > x THEN p - x ELSE x - p
  IN IF off(left) <= off(up) /\ off(left) <= off(upLeft) THEN left
     ELSE IF off(up) <= off(upLeft) THEN up ELSE upLeft
Predicted(filter, left, up, upLeft) ==
  CASE filter = 0 -> 0
    [] filter = 1 -> left
    [] filter = 2 -> up
    [] filter = 3 -> (left + up) \div 2
    [] filter = 4 -> Paeth(left, up, upLeft)

\* pngUnfilter of one row, in place: what is to the left is already restored.
UnfilteredRow(filter, row, above, bpp) ==
  LET at(r, x) == IF x < 1 \/ r = <<>> THEN 0 ELSE r[x]
      restored[x \in 0 .. Len(row)] ==
        IF x = 0 THEN <<>>
        ELSE Append(restored[x - 1],
               (row[x] + Predicted(filter, at(restored[x - 1], x - bpp), at(above, x), at(above, x - bpp)))
                 % ByteMod)
  IN restored[Len(row)]
\* pngUnfilter: the rows, each behind the byte that names its filter.
Unfiltered(raw, height, rowBytes, bpp) ==
  LET filter(y) == raw[(y - 1) * (rowBytes + 1) + 1]
      row(y) == SubSeq(raw, (y - 1) * (rowBytes + 1) + 2, y * (rowBytes + 1))
      rows[y \in 0 .. height] ==
        IF y = 0 THEN <<>>
        ELSE Append(rows[y - 1],
               UnfilteredRow(filter(y), row(y), IF y = 1 THEN <<>> ELSE rows[y - 1][y - 1], bpp))
  IN IF \E y \in 1 .. height : filter(y) \notin 0 .. 4 THEN [ok |-> FALSE, rows |-> <<>>]
     ELSE [ok |-> TRUE, rows |-> rows[height]]

\* One pixel out of its samples; what has no alpha is opaque.
Expanded(s) ==
  CASE Len(s) = 1 -> <<s[1], s[1], s[1], ByteMod - 1>>
    [] Len(s) = 2 -> <<s[1], s[1], s[1], s[2]>>
    [] Len(s) = 3 -> <<s[1], s[2], s[3], ByteMod - 1>>
    [] OTHER -> s
Pixels(rows, width, channels) ==
  [y \in 1 .. Len(rows) |->
     [x \in 1 .. width |-> Expanded(SubSeq(rows[y], (x - 1) * channels + 1, x * channels))]]

Outcome(code, rgba, held) == [code |-> code, rgba |-> rgba, held |-> held]

\* Png_decode, Png_decodeMalloc; grants is how many allocations succeed, held the
\* blocks that are not released when it returns.
Decode(signed, stream, grants) ==
  LET pass == FirstPass(stream)
      h == pass.header[1]
      channels == Channels(h.color)
      rowBytes == h.width * channels
      inflated == Inflate(Gathered(stream), h.height * (rowBytes + 1))
      image == Unfiltered(inflated.raw, h.height, rowBytes, channels)
      first == {"compressed"}
      both == first \cup {"raw"}
      second == both \ {"compressed"}
  IN CASE ~signed -> Outcome("invalid", <<>>, {})
       [] signed /\ pass.code # "going" -> Outcome(pass.code, <<>>, {})
       [] signed /\ pass.code = "going" /\ ~(pass.header # <<>> /\ pass.idat /\ pass.end) ->
            Outcome("truncated", <<>>, {})
       [] OTHER ->
            IF grants = 0 THEN Outcome("no-memory", <<>>, {})
            ELSE IF grants = 1 THEN Outcome("no-memory", <<>>, first \ {"compressed"})
            ELSE IF ~inflated.ok THEN Outcome("invalid", <<>>, second \ {"raw"})
            ELSE IF ~image.ok THEN Outcome("invalid", <<>>, second \ {"raw"})
            ELSE IF grants = 2 THEN Outcome("no-memory", <<>>, second \ {"raw"})
            ELSE Outcome("ok", Pixels(image.rows, h.width, channels), (second \cup {"rgba"}) \ {"raw"})

-----------------------------------------------------------------------------
(* An encoder, after the standard: a sample less what is expected of it. *)

\* The one of left, up and upLeft that is nearest to left + up - upLeft; of equally
\* near ones the first.
Nearest(left, up, upLeft) ==
  LET all == <<left, up, upLeft>>
      off(i) == IF left + up - upLeft > all[i] THEN left + up - upLeft - all[i]
                ELSE all[i] - left - up + upLeft
  IN all[CHOOSE i \in 1 .. 3 : \A j \in 1 .. 3 : off(i) < off(j) \/ (off(i) = off(j) /\ i <= j)]
Expected(filter, left, up, upLeft) ==
  <<0, left, up, CHOOSE m \in 0 .. ByteMod : 2 * m <= left + up /\ left + up < 2 * m + 2,
    Nearest(left, up, upLeft)>>[filter + 1]

Encoded(image, filters, bpp) ==
  LET at(y, x) == IF x < 1 \/ y < 1 THEN 0 ELSE image[y][x]
      row(y) == <<filters[y]>> \o [x \in 1 .. Len(image[y]) |->
                  (image[y][x] - Expected(filters[y], at(y, x - bpp), at(y - 1, x), at(y - 1, x - bpp)))
                    % ByteMod]
  IN FlattenSeq([y \in 1 .. Len(image) |-> row(y)]) \o <<End>>

Chunk(type, data) == [type |-> type, data |-> data, sound |-> TRUE, whole |-> TRUE]
Header(width, height, color) ==
  [width |-> width, height |-> height, depth |-> 8, color |-> color, interlace |-> 0]

\* The compressed bytes in two chunks, with another in between that may be ignored.
Stream(header, bytes, k) ==
  <<Chunk("IHDR", header), Chunk("IDAT", SubSeq(bytes, 1, k)), Chunk("ancillary", <<>>),
    Chunk("IDAT", SubSeq(bytes, k + 1, Len(bytes))), Chunk("IEND", <<>>)>>
Without(stream, i) == RemoveAt(stream, i)
With(stream, i, chunk) == InsertAt(stream, i, chunk)

\* However the image was filtered and cut up, it comes back as it was, and nothing
\* but its block is kept; a stream that lacks or breaks something, and a decoder
\* that gets no memory, leave nothing behind.
PngAgrees(image, color, filters) ==
  LET bpp == Channels(color)
      width == Len(image[1]) \div bpp
      header == Header(width, Len(image), color)
      bytes == Encoded(image, filters, bpp)
      Fails(code, stream, grants) ==
        Decode(TRUE, stream, grants) = Outcome(code, <<>>, {})
  IN \A k \in {0, 1, Len(bytes) - 1, Len(bytes)} :
       LET stream == Stream(header, bytes, k)
           holds(i) == stream[i].type # "ancillary" /\ stream[i].data # <<>>
           late == stream \o <<[Chunk("critical", <<>>) EXCEPT !.sound = FALSE]>>
       IN /\ \A s \in {stream, late, Without(stream, 3)} :
               LET d == Decode(TRUE, s, 3) IN
               /\ d.code = "ok" /\ d.held = {"rgba"}
               /\ \A y \in 1 .. Len(image), x \in 1 .. width :
                    LET sample(c) == image[y][(x - 1) * bpp + c]
                        grey == bpp < 3
                    IN d.rgba[y][x] = <<sample(1), sample(IF grey THEN 1 ELSE 2), sample(IF grey THEN 1 ELSE 3),
                                        IF bpp \in {2, 4} THEN sample(bpp) ELSE ByteMod - 1>>
          /\ ~Decode(FALSE, stream, 3).code = "ok"
          /\ \A grants \in 0 .. 2 : Fails("no-memory", stream, grants)
          /\ \A i \in 1 .. 5 :
               /\ Fails("invalid", [stream EXCEPT ![i].sound = FALSE], 3)
               /\ Fails("truncated", [stream EXCEPT ![i].whole = FALSE], 3)
               /\ Fails("unsupported", With(stream, i, Chunk("critical", <<>>)), 3) \/ i = 1
               /\ Fails("truncated", SubSeq(stream, 1, i - 1), 3)
               /\ Fails("invalid", With(stream, i, stream[1]), 3)
               /\ holds(i) => Decode(TRUE, Without(stream, i), 3).code # "ok"
               /\ Decode(TRUE, Without(stream, i), 3).held \subseteq {"rgba"}
          /\ Fails("unsupported", [stream EXCEPT ![1].data.color = 3], 3)
          /\ Fails("invalid", [stream EXCEPT ![1].data.width = MaxPixels], 3) \/ Len(image) = 1
          /\ Fails("invalid", Stream(header, [bytes EXCEPT ![1] = 5], k), 3)
          /\ Fails("invalid", Stream(header, Append(bytes, 0), k), 3)
=============================================================================
