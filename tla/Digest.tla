------------------------------- MODULE Digest -------------------------------
(***************************************************************************)
(* The digests of security/ that are fed in pieces: crypto.c (SHA-256),     *)
(* sha1.c, blake2b.c and poly1305.c.  What they mix is kept apart: the state *)
(* of a digest is the sequence of the blocks that were compressed into it,   *)
(* each with what else the compression was told.                             *)
(*                                                                          *)
(* A byte is a tuple that says where it comes from, so that no two are alike *)
(* by chance.  A buffer is a function on 0 .. Block - 1 that keeps what an    *)
(* earlier block left in it.                                                 *)
(***************************************************************************)
EXTENDS Integers, Sequences

CONSTANTS Block,        \* the bytes of a block: 64, 128 or 16
          LengthBytes   \* those of the length at the end of a padded message: 8

Zero == <<"zero">>
Mark == <<"mark">>                       \* 0x80 of the padding, 1 of Poly1305's
LengthByte(n, i) == <<"length", n, i>>   \* byte i of the length of n bytes
Blank == [i \in 0 .. Block - 1 |-> Zero]

\* memcpy of bytes from sequence data, from position from on, to buffer position at.
Copied(buffer, at, data, from, n) ==
  [i \in 0 .. Block - 1 |-> IF i \in at .. at + n - 1 THEN data[from + i - at] ELSE buffer[i]]
Cleared(buffer, from, to) == [i \in 0 .. Block - 1 |-> IF i \in from .. to - 1 THEN Zero ELSE buffer[i]]
PieceAt(data, from) == [i \in 0 .. Block - 1 |-> data[from + i]]
Lesser(a, b) == IF a < b THEN a ELSE b

-----------------------------------------------------------------------------
(* SHA-256: the place in the buffer is the count of bytes, modulo a block. *)

Sha256Init(buffer) == [state |-> <<>>, buffer |-> buffer, count |-> 0]
Sha256Transform(c, block) == [c EXCEPT !.state = Append(@, block)]

RECURSIVE Sha256Whole(_, _, _)
\* The full blocks of the data from position from on, and what is left of it.
Sha256Whole(c, data, from) ==
  LET left == Len(data) - from + 1 IN
  IF left >= Block THEN Sha256Whole(Sha256Transform(c, PieceAt(data, from)), data, from + Block)
  ELSE IF left > 0 THEN [c EXCEPT !.buffer = Copied(@, 0, data, from, left)] ELSE c

\* Crypto_sha256Update.
Sha256Update(c, data) ==
  LET at == c.count % Block
      needed == Block - at
      counted == [c EXCEPT !.count = @ + Len(data)]
      filled == Copied(c.buffer, at, data, 1, Lesser(needed, Len(data)))
  IN IF data = <<>> THEN c
     ELSE IF at = 0 THEN Sha256Whole(counted, data, 1)
     ELSE IF Len(data) < needed THEN [counted EXCEPT !.buffer = filled]
     ELSE Sha256Whole(Sha256Transform([counted EXCEPT !.buffer = filled], filled), data, needed + 1)

\* Crypto_sha256Final: a block more when the length does not fit behind the mark.
Sha256Final(c) ==
  LET at == c.count % Block
      marked == [c.buffer EXCEPT ![at] = Mark]
      body == Block - LengthBytes
      crowded == at + 1 > body
      first == Cleared(marked, at + 1, Block)
      rest == IF crowded THEN Cleared(first, 0, body) ELSE Cleared(marked, at + 1, body)
      last == [i \in 0 .. Block - 1 |-> IF i >= body THEN LengthByte(c.count, i - body) ELSE rest[i]]
  IN Sha256Transform(IF crowded THEN Sha256Transform(c, first) ELSE c, last).state

-----------------------------------------------------------------------------
(* SHA-1: the place in the block is kept, and the padding is fed like data. *)

Sha1Init(block) == [state |-> <<>>, block |-> block, total |-> 0, used |-> 0]
Sha1Compress(c) == [c EXCEPT !.state = Append(@, c.block), !.used = 0]

RECURSIVE Sha1From(_, _, _), Sha1Zeros(_)
Sha1From(c, data, from) ==
  LET left == Len(data) - from + 1
      take == Lesser(left, Block - c.used)
      taken == [c EXCEPT !.block = Copied(@, c.used, data, from, take), !.used = @ + take]
  IN IF left <= 0 THEN c
     ELSE Sha1From(IF taken.used = Block THEN Sha1Compress(taken) ELSE taken, data, from + take)

\* Crypto_sha1Update.
Sha1Update(c, data) == Sha1From([c EXCEPT !.total = @ + Len(data)], data, 1)

Sha1Zeros(c) == IF c.used = Block - LengthBytes THEN c ELSE Sha1Zeros(Sha1Update(c, <<Zero>>))
\* Crypto_sha1Final: the length is that from before the padding.
Sha1Final(c) ==
  Sha1Update(Sha1Zeros(Sha1Update(c, <<Mark>>)),
             [i \in 1 .. LengthBytes |-> LengthByte(c.total, i - 1)]).state

-----------------------------------------------------------------------------
(* BLAKE2b: a full buffer waits, since the last block is told to be the last. *)

Blake2bInit == [state |-> <<>>, buf |-> Blank, used |-> 0, t |-> 0]
\* Blake2b_initKeyed: the key is a first block of its own.
Blake2bInitKeyed(key) ==
  IF key = <<>> THEN Blake2bInit
  ELSE [Blake2bInit EXCEPT !.buf = Cleared(Copied(@, 0, key, 1, Len(key)), Len(key), Block),
                           !.used = Block]
Blake2bCompress(s, block, last) ==
  [s EXCEPT !.state = Append(@, [block |-> block, t |-> s.t, last |-> last])]

RECURSIVE Blake2bWhole(_, _, _)
Blake2bWhole(s, data, from) ==
  LET left == Len(data) - from + 1 IN
  IF left > Block
  THEN Blake2bWhole(Blake2bCompress([s EXCEPT !.t = @ + Block], PieceAt(data, from), FALSE), data, from + Block)
  ELSE [s EXCEPT !.buf = Copied(@, s.used, data, from, left), !.used = @ + left]

\* A variant of it: a block that is just full is compressed as if more would come.
Blake2bUpdateEager(s, data) ==
  LET take == Block - s.used
      full == Copied(s.buf, s.used, data, 1, take)
      begun == Blake2bCompress([s EXCEPT !.buf = full, !.t = @ + Block], full, FALSE)
  IN IF data = <<>> THEN s
     ELSE IF s.used + Len(data) >= Block THEN Blake2bWhole([begun EXCEPT !.used = 0], data, take + 1)
     ELSE Blake2bWhole(s, data, 1)

\* Blake2b_update.
Blake2bUpdate(s, data) ==
  LET take == Block - s.used
      full == Copied(s.buf, s.used, data, 1, take)
      begun == Blake2bCompress([s EXCEPT !.buf = full, !.t = @ + Block], full, FALSE)
  IN IF data = <<>> THEN s
     ELSE IF s.used + Len(data) > Block THEN Blake2bWhole([begun EXCEPT !.used = 0], data, take + 1)
     ELSE Blake2bWhole(s, data, 1)

\* Blake2b_final.
Blake2bFinal(s) ==
  Blake2bCompress([s EXCEPT !.t = @ + s.used], Cleared(s.buf, s.used, Block), TRUE).state

-----------------------------------------------------------------------------
(* Poly1305: the last block, when it is not full, has its high bit as a byte. *)

Poly1305Init == [state |-> <<>>, buffer |-> Blank, leftover |-> 0]
\* blocks, for one block.
Poly1305Block(s, block, short) == [s EXCEPT !.state = Append(@, [block |-> block, short |-> short])]

RECURSIVE Poly1305Whole(_, _, _)
Poly1305Whole(s, data, from) ==
  LET left == Len(data) - from + 1 IN
  IF left >= Block THEN Poly1305Whole(Poly1305Block(s, PieceAt(data, from), FALSE), data, from + Block)
  ELSE [s EXCEPT !.buffer = Copied(@, s.leftover, data, from, left), !.leftover = @ + left]

\* Poly1305_update.
Poly1305Update(s, data) ==
  LET want == Lesser(Block - s.leftover, Len(data))
      filled == [s EXCEPT !.buffer = Copied(@, s.leftover, data, 1, want), !.leftover = @ + want]
  IN IF data = <<>> THEN s
     ELSE IF s.leftover = 0 THEN Poly1305Whole(s, data, 1)
     ELSE IF filled.leftover < Block THEN filled
     ELSE Poly1305Whole([Poly1305Block(filled, filled.buffer, FALSE) EXCEPT !.leftover = 0], data, want + 1)

\* Poly1305_final.
Poly1305Final(s) ==
  IF s.leftover = 0 THEN s.state
  ELSE Poly1305Block(s, Cleared([s.buffer EXCEPT ![s.leftover] = Mark], s.leftover + 1, Block), TRUE).state

-----------------------------------------------------------------------------
(* What each is a digest of, by its standard: the whole message, cut in blocks. *)

Zeros(n) == [i \in 1 .. n |-> Zero]
CutUp(bytes) == [k \in 1 .. Len(bytes) \div Block |-> PieceAt(bytes, (k - 1) * Block + 1)]
Roundup(n) == ((n + Block - 1) \div Block) * Block
Filled(bytes) == bytes \o Zeros(Roundup(Len(bytes)) - Len(bytes))

ShaPadded(bytes) ==
  LET body == Roundup(Len(bytes) + 1 + LengthBytes) - LengthBytes IN
  bytes \o <<Mark>> \o Zeros(body - Len(bytes) - 1) \o [i \in 1 .. LengthBytes |-> LengthByte(Len(bytes), i - 1)]
Blake2bBlocks(key, bytes) ==
  LET all == Filled(key) \o bytes
      blocks == IF all = <<>> THEN <<Blank>> ELSE CutUp(Filled(all))
  IN [k \in 1 .. Len(blocks) |-> [block |-> blocks[k], t |-> Lesser(k * Block, Len(all)), last |-> k = Len(blocks)]]
Poly1305Blocks(bytes) ==
  LET over == Len(bytes) % Block
      blocks == CutUp(IF over = 0 THEN bytes ELSE Filled(Append(bytes, Mark)))
  IN [k \in 1 .. Len(blocks) |-> [block |-> blocks[k], short |-> over > 0 /\ k = Len(blocks)]]

\* In whatever pieces the message comes, and whatever an earlier one left in the
\* buffer, the digest is that of the message.
DigestsAgree(message, cuts, old, key) ==
  LET piece(k) == SubSeq(message, cuts[k] + 1, cuts[k + 1])
      fed(Update(_, _), start) ==
        LET after[k \in 0 .. Len(cuts) - 1] == IF k = 0 THEN start ELSE Update(after[k - 1], piece(k)) IN
        after[Len(cuts) - 1]
  IN /\ Sha256Final(fed(Sha256Update, Sha256Init(old))) = CutUp(ShaPadded(message))
     /\ Sha1Final(fed(Sha1Update, Sha1Init(old))) = CutUp(ShaPadded(message))
     /\ Blake2bFinal(fed(Blake2bUpdate, Blake2bInitKeyed(key))) = Blake2bBlocks(key, message)
     /\ Poly1305Final(fed(Poly1305Update, Poly1305Init)) = Poly1305Blocks(message)
=============================================================================
