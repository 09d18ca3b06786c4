------------------------------ MODULE Secrets ------------------------------
(***************************************************************************)
(* What security/ builds on its digests: hmac.c, hkdf.c, the cipher stream  *)
(* of chacha20.c, the sealed messages of chacha20poly1305.c, argon2.c,      *)
(* password.c and otpauth.c.                                                *)
(*                                                                          *)
(* Bytes are the tuples of Digest; a hash, a byte of a key stream and a tag *)
(* are tuples of all that they are made from; and a block of Argon2's       *)
(* memory is the number of the write that filled it, so that a block says   *)
(* how old it is.                                                           *)
(***************************************************************************)
EXTENDS Integers, Sequences, FiniteSets

CONSTANTS HashBlock,     \* bytes of a block of SHA-1 and SHA-256: 64
          HashSize,      \* bytes of a digest: 20 or 32
          StreamBlock,   \* bytes of a block of ChaCha20: 64
          TagBlock,      \* bytes of a block of Poly1305, and of two lengths: 16
          LengthBytes    \* bytes of a length: 8

Sha == INSTANCE Digest WITH Block <- HashBlock
Poly == INSTANCE Digest WITH Block <- TagBlock

Zero == <<"zero">>
\* What is on the stack where a digest is begun.
Junk(n) == [i \in 0 .. n - 1 |-> <<"junk", i>>]
HashBytes(state) == [i \in 1 .. HashSize |-> <<"hash", i, state>>]

\* The digest of two pieces, one fed after the other.
Sha256Of(p, q) == HashBytes(Sha!Sha256Final(Sha!Sha256Update(Sha!Sha256Update(Sha!Sha256Init(Junk(HashBlock)), p), q)))
Sha1Of(p, q) == HashBytes(Sha!Sha1Final(Sha!Sha1Update(Sha!Sha1Update(Sha!Sha1Init(Junk(HashBlock)), p), q)))

-----------------------------------------------------------------------------
(* hmac.c, hkdf.c *)

\* The key filled up to a block with zeros; a longer one is hashed first.
HmacPad(Hash(_, _), key) ==
  LET short == IF Len(key) > HashBlock THEN Hash(key, <<>>) ELSE key IN
  [i \in 1 .. HashBlock |-> IF i <= Len(short) THEN short[i] ELSE Zero]
Masked(bytes, mask) == [i \in 1 .. Len(bytes) |-> <<"xor", bytes[i], mask>>]

\* hmacSha1Block, and Hmac_sha256 likewise.
Hmac(Hash(_, _), key, data) ==
  LET pad == HmacPad(Hash, key) IN
  Hash(Masked(pad, <<"opad">>), Hash(Masked(pad, <<"ipad">>), data))
HmacSha1(key, data) == Hmac(Sha1Of, key, data)
HmacSha256(key, data) == Hmac(Sha256Of, key, data)

\* Hkdf_extract: no salt is a salt of zeros.
HkdfExtract(salt, ikm) ==
  HmacSha256(IF salt = <<>> THEN [i \in 1 .. HashSize |-> Zero] ELSE salt, ikm)

RECURSIVE HkdfFrom(_, _, _, _, _)
\* The blocks of Hkdf_expand, each with the one before it, until there are enough bytes.
HkdfFrom(prk, info, left, t, counter) ==
  LET block == HmacSha256(prk, t \o info \o <<<<"counter", counter>>>>) IN
  IF left <= 0 THEN <<>>
  ELSE SubSeq(block, 1, IF left < HashSize THEN left ELSE HashSize)
         \o HkdfFrom(prk, info, left - HashSize, block, counter + 1)
HkdfExpand(prk, info, n) == HkdfFrom(prk, info, n, <<>>, 1)

-----------------------------------------------------------------------------
(* chacha20.c, chacha20poly1305.c *)

\* One byte of ChaCha20_block.
StreamByte(key, counter, nonce, i) == <<"stream", key, counter, nonce, i>>
Xor(byte, mask) ==
  IF byte[1] = "xor" /\ byte[3] = mask THEN byte[2] ELSE <<"xor", byte, mask>>

\* ChaCha20_xor: a new block of the stream for each block of data.
StreamXor(data, key, counter, nonce) ==
  [i \in 1 .. Len(data) |->
     Xor(data[i], StreamByte(key, counter + (i - 1) \div StreamBlock, nonce, (i - 1) % StreamBlock))]

\* pad16: zeros up to a whole block of the tag.
Pad16(s, n) ==
  IF n % TagBlock = 0 THEN s ELSE Poly!Poly1305Update(s, [i \in 1 .. TagBlock - (n % TagBlock) |-> Zero])

\* A variant of it: the tag does not tell where the header ends.
MacUnmeasured(key, nonce, aad, cipher) ==
  LET header == Pad16(Poly!Poly1305Update(Poly!Poly1305Init, aad), Len(aad))
      body == Pad16(Poly!Poly1305Update(header, cipher), Len(cipher))
  IN <<"tag", key, 0, nonce, Poly!Poly1305Final(body)>>

\* mac: the tag of the header and the ciphertext, under the first block of the stream.
Mac(key, nonce, aad, cipher) ==
  LET header == Pad16(Poly!Poly1305Update(Poly!Poly1305Init, aad), Len(aad))
      body == Pad16(Poly!Poly1305Update(header, cipher), Len(cipher))
      lengths == [i \in 1 .. 2 * LengthBytes |->
                    IF i <= LengthBytes THEN <<"length", Len(aad), i>>
                    ELSE <<"length", Len(cipher), i - LengthBytes>>]
  IN <<"tag", key, 0, nonce, Poly!Poly1305Final(Poly!Poly1305Update(body, lengths))>>

\* ChaCha20Poly1305_encrypt and ChaCha20Poly1305_decrypt, which leaves zeros when
\* the tag is another.
Encrypt(key, nonce, aad, plain) ==
  LET cipher == StreamXor(plain, key, 1, nonce) IN [cipher |-> cipher, tag |-> Mac(key, nonce, aad, cipher)]
Decrypt(key, nonce, aad, cipher, tag) ==
  IF Mac(key, nonce, aad, cipher) # tag
  THEN [ok |-> FALSE, plain |-> [i \in 1 .. Len(cipher) |-> Zero]]
  ELSE [ok |-> TRUE, plain |-> StreamXor(cipher, key, 1, nonce)]

-----------------------------------------------------------------------------
\* A digest of the whole, by the standard.
Whole(bytes) == HashBytes(Sha!CutUp(Sha!ShaPadded(bytes)))
HmacByStandard(key, data) ==
  LET k == IF Len(key) <= HashBlock THEN key ELSE Whole(key)
      full == k \o [i \in 1 .. HashBlock - Len(k) |-> Zero]
  IN Whole(Masked(full, <<"opad">>) \o Whole(Masked(full, <<"ipad">>) \o data))
MacsAgree(key, data) ==
  /\ HmacSha1(key, data) = HmacByStandard(key, data)
  /\ HmacSha256(key, data) = HmacByStandard(key, data)

\* Output i of the expansion is in the block of its number, of which each holds the
\* one before; a shorter output begins a longer one.
ExpansionAgrees(salt, ikm, info, n) ==
  LET prk == HkdfExtract(salt, ikm)
      block[k \in 0 .. n] ==
        IF k = 0 THEN <<>> ELSE HmacByStandard(prk, block[k - 1] \o info \o <<<<"counter", k>>>>)
      out == HkdfExpand(prk, info, n)
  IN /\ prk = HmacByStandard(IF salt = <<>> THEN [i \in 1 .. HashSize |-> Zero] ELSE salt, ikm)
     /\ Len(out) = n
     /\ \A i \in 1 .. n : out[i] = block[(i - 1) \div HashSize + 1][((i - 1) % HashSize) + 1]

\* What was sealed is opened again; a message of which a byte, the header, the cut
\* between the two, the nonce or the tag is another is refused and leaves only
\* zeros; and no byte of the stream is used twice, or is of the block of the tag.
SealingAgrees(key, nonce, aad, plain) ==
  LET s == Encrypt(key, nonce, aad, plain)
      n == Len(plain)
      other == <<"other">>
      Refused(d) == ~d.ok /\ \A i \in 1 .. Len(d.plain) : d.plain[i] = Zero
      all == aad \o s.cipher
  IN /\ Decrypt(key, nonce, aad, s.cipher, s.tag) = [ok |-> TRUE, plain |-> plain]
     /\ \A i \in 1 .. n : Refused(Decrypt(key, nonce, aad, [s.cipher EXCEPT ![i] = other], s.tag))
     /\ \A i \in 1 .. Len(aad) : Refused(Decrypt(key, nonce, [aad EXCEPT ![i] = other], s.cipher, s.tag))
     /\ \A i \in 0 .. Len(all) :
          i # Len(aad) => Refused(Decrypt(key, nonce, SubSeq(all, 1, i), SubSeq(all, i + 1, Len(all)), s.tag))
     /\ Refused(Decrypt(key, nonce, aad, Append(s.cipher, Zero), s.tag))
     /\ Refused(Decrypt(key, nonce, Append(aad, Zero), s.cipher, s.tag))
     /\ Refused(Decrypt(key, other, aad, s.cipher, s.tag))
     /\ \A i \in 1 .. n :
          /\ s.cipher[i][2] = plain[i] /\ s.cipher[i][3][3] # 0
          /\ \A j \in 1 .. i - 1 : s.cipher[i][3] # s.cipher[j][3]

-----------------------------------------------------------------------------
CONSTANTS SyncPoints,   \* ARGON2_SYNC_POINTS: 4
          Addresses,    \* the addresses in a block: 128
          Word,         \* 2^32
          HashMax,      \* the longest hash of BLAKE2b: 64 bytes, of which half go out
          SaltMin,      \* ARGON2_SALT_MIN: 8
          TagMin,       \* ARGON2_TAG_MIN: 4
          PrfSize,      \* bytes of the pseudorandom function of PBKDF2: 20 or 32
          RecordSalt,   \* the salts a record may have, PASSWORD_SALT_MIN to PASSWORD_SALT_MAX bytes
          RecordHash,   \* bytes of the hash of a record: 32
          Costs,        \* for each KDF, the iterations, memory and lanes of a new record
          IterationsMin, \* PASSWORD_ITERATIONS_MIN
          Unreserved,   \* the characters of a URI that stand for themselves
          Hex           \* for the others, their two hexadecimal digits

Lesser(a, b) == IF a < b THEN a ELSE b

-----------------------------------------------------------------------------
(* argon2.c: a lane is SyncPoints segments; the lanes lie one after the other. *)

Unfilled == -1
Shape(lanes, memoryKiB) ==
  LET blocks == SyncPoints * lanes * (memoryKiB \div (SyncPoints * lanes)) IN
  [lanes |-> lanes, blocks |-> blocks, segment |-> blocks \div (lanes * SyncPoints), lane |-> blocks \div lanes]

\* A variant of it: a lane that is not the own may answer with its newest block.
IndexAlphaNewest(inst, pass, slice, index, rand, sameLane) ==
  LET done == IF pass = 0 THEN slice * inst.segment ELSE inst.lane - inst.segment
      area == IF sameLane THEN done + index - 1 ELSE done
      back == (area * ((rand * rand) \div Word)) \div Word
      start == IF pass = 0 \/ slice = SyncPoints - 1 THEN 0 ELSE (slice + 1) * inst.segment
  IN (start + area - 1 - back) % inst.lane

\* indexAlpha: the block to mix in, counted from the oldest of those that may be.
IndexAlpha(inst, pass, slice, index, rand, sameLane) ==
  LET done == IF pass = 0 THEN slice * inst.segment ELSE inst.lane - inst.segment
      area == IF sameLane THEN done + index - 1 ELSE IF index = 0 THEN done - 1 ELSE done
      back == (area * ((rand * rand) \div Word)) \div Word
      start == IF pass = 0 \/ slice = SyncPoints - 1 THEN 0 ELSE (slice + 1) * inst.segment
  IN (start + area - 1 - back) % inst.lane

\* fillSegment: the memory, which writes are counted in, and what each block was made
\* from.  In the first half of the first pass the numbers that choose a block come from
\* address blocks, of which made were made.
FillSegment(inst, memory, pass, slice, lane) ==
  LET first == IF pass = 0 /\ slice = 0 THEN 2 ELSE 0
      independent == pass = 0 /\ slice < SyncPoints \div 2
      at(i) == lane * inst.lane + slice * inst.segment + i
      prev(i) == IF at(i) % inst.lane = 0 THEN at(i) + inst.lane - 1 ELSE at(i) - 1
      fill[i \in first .. inst.segment] ==   \* when the blocks below i are filled
        LET old == fill[i - 1]
            made == IF independent /\ (i - 1) % Addresses = 0 THEN old.made + 1 ELSE old.made
        IN IF i = first
           THEN [memory |-> memory, made |-> IF independent /\ first > 0 THEN 1 ELSE 0, reads |-> <<>>]
           ELSE [memory |-> [old.memory EXCEPT !.cells[at(i - 1)] = old.memory.writes, !.writes = @ + 1],
                 made |-> made,
                 reads |-> Append(old.reads,
                             [pass |-> pass, slice |-> slice, lane |-> lane, index |-> i - 1, at |-> at(i - 1),
                              prev |-> prev(i - 1), before |-> old.memory,
                              address |-> IF independent THEN <<made, (i - 1) % Addresses>> ELSE <<>>])]
  IN fill[inst.segment]

\* The loops of Argon2id_derive: every slice of a pass in every lane, over memory of
\* which the first two blocks of each lane are made from the inputs.
Begun(inst) ==
  [cells |-> [b \in 0 .. inst.blocks - 1 |-> IF b % inst.lane < 2 THEN b % inst.lane ELSE Unfilled], writes |-> 2]
Filled(inst, passes) ==
  LET n == passes * SyncPoints * inst.lanes
      after[k \in 0 .. n] ==
        LET old == after[k - 1]
            s == FillSegment(inst, old.memory, (k - 1) \div (SyncPoints * inst.lanes),
                             ((k - 1) \div inst.lanes) % SyncPoints, (k - 1) % inst.lanes)
        IN IF k = 0 THEN [memory |-> Begun(inst), reads |-> <<>>]
           ELSE [memory |-> s.memory, reads |-> old.reads \o s.reads]
  IN after[n]
\* The blocks that the tag is made from.
LastBlocks(inst) == {lane * inst.lane + inst.lane - 1 : lane \in 0 .. inst.lanes - 1}

\* The lane that is read: the own one as long as there is nothing in the others.
RefLane(inst, r, high) == IF r.pass = 0 /\ r.slice = 0 THEN r.lane ELSE high % inst.lanes

\* By the standard: what may be mixed in is, of the own lane, all but the block that
\* was filled last; of another, what was filled before this slice, at a segment's
\* first block without the last of it.
Newest(r, blocks) == CHOOSE b \in blocks : \A c \in blocks : r.before.cells[c] <= r.before.cells[b]
FilledIn(inst, r, lane) == {b \in DOMAIN r.before.cells : b \div inst.lane = lane /\ r.before.cells[b] # Unfilled}
Candidates(inst, r, lane) ==
  LET earlier == {b \in FilledIn(inst, r, lane) :
                    \/ (b % inst.lane) \div inst.segment # r.slice
                    \/ lane = r.lane /\ b < r.at}
  IN IF lane = r.lane \/ r.index = 0 THEN earlier \ {Newest(r, earlier)} ELSE earlier

\* Every block is made from the one that was filled before it in its lane and from the
\* one that the standard's number chooses among the candidates, counted from the
\* newest; every pass fills every block once; and no two blocks of a segment are
\* chosen by the same address.
FillAgrees(inst, passes) ==
  LET f == Filled(inst, passes)
      Chosen(r, lane, rand) ==
        LET c == Candidates(inst, r, lane)
            newer == (Cardinality(c) * ((rand * rand) \div Word)) \div Word
        IN CHOOSE b \in c : Cardinality({d \in c : r.before.cells[d] > r.before.cells[b]}) = newer
  IN /\ \A i \in 1 .. Len(f.reads) : LET r == f.reads[i] IN
          /\ r.prev = Newest(r, FilledIn(inst, r, r.lane)) /\ r.prev # r.at
          /\ \A high \in 0 .. inst.lanes - 1, rand \in 0 .. Word - 1 :
               LET lane == RefLane(inst, r, high) IN
               lane * inst.lane + IndexAlpha(inst, r.pass, r.slice, r.index, rand, lane = r.lane) = Chosen(r, lane, rand)
          /\ (r.address # <<>>) = (r.pass = 0 /\ r.slice < SyncPoints \div 2)
          /\ r.address # <<>> => r.address = <<r.index \div Addresses + 1, r.index % Addresses>>
     /\ \A pass \in 0 .. passes - 1, b \in 0 .. inst.blocks - 1 :
          Cardinality({i \in 1 .. Len(f.reads) : f.reads[i].pass = pass /\ f.reads[i].at = b})
            = (IF pass = 0 /\ b % inst.lane < 2 THEN 0 ELSE 1)
     /\ \A b \in LastBlocks(inst), c \in 0 .. inst.blocks - 1 :
          b \div inst.lane = c \div inst.lane => f.memory.cells[c] <= f.memory.cells[b]

-----------------------------------------------------------------------------
\* A hash of n bytes.
Blake2b(n, data) == [i \in 1 .. n |-> <<"b", i, n, data>>]
Half == HashMax \div 2

\* hPrime: a long output is the halves of a chain of hashes, and the last one whole.
HPrime(n, data) ==
  LET r == (n + Half - 1) \div Half - 2
      v[i \in 1 .. r] == IF i = 1 THEN Blake2b(HashMax, <<n, data>>) ELSE Blake2b(HashMax, v[i - 1])
      out[i \in 0 .. r] == IF i = 0 THEN <<>> ELSE out[i - 1] \o SubSeq(v[i], 1, Half)
  IN IF n <= HashMax THEN Blake2b(n, <<n, data>>) ELSE out[r] \o Blake2b(n - Half * r, v[r])

\* An output has the length that was asked for, hashes of lengths that there are, and no
\* byte in common with one of another length.
HPrimeAgrees(n, data) ==
  LET out == HPrime(n, data) IN
  /\ Len(out) = n
  /\ \A i \in 1 .. n : /\ out[i][3] \in 1 .. HashMax /\ out[i][2] <= out[i][3]
                       /\ i <= n - HashMax => out[i][2] <= Half
                       /\ \A k \in 1 .. i - 1 : out[i] # out[k]
  /\ \A m \in 1 .. n - 1 : \A i \in 1 .. m : HPrime(m, data)[i] # out[i]

\* Argon2id_derive: what is hashed first, every part behind its length; from it the first
\* blocks of each lane are made, and from them, by Filled, the last, which the tag is
\* made from.
Refused == <<>>   \* no output
Bytes(x) == <<Len(x)>> \o x
H0(params, password, salt, secret, associated) ==
  <<params.lanes, params.tagBytes, params.memory, params.passes>>
    \o Bytes(password) \o Bytes(salt) \o Bytes(secret) \o Bytes(associated)
Argon2idDerive(params, password, salt, secret, associated, memoryIsGiven) ==
  LET inst == Shape(params.lanes, params.memory)
      seed(lane, k) == HPrime(1, <<H0(params, password, salt, secret, associated), k, lane>>)
  IN IF \/ password = <<>> \/ Len(salt) < SaltMin \/ params.lanes = 0 \/ params.passes = 0 \/ params.tagBytes \notin TagMin .. HashMax
        \/ inst.blocks < 2 * SyncPoints * params.lanes \/ ~memoryIsGiven
     THEN Refused
     ELSE HPrime(params.tagBytes, [lane \in 0 .. params.lanes - 1 |-> <<params, seed(lane, 0), seed(lane, 1)>>])

\* Whoever derives a tag put in the same bytes at the same places.
DeriveAgrees(params, parts, others) ==
  LET tag(p) == Argon2idDerive(params, p[1], p[2], p[3], p[4], TRUE) IN
  /\ \A p \in others : p # parts /\ tag(p) # Refused => tag(p) # tag(parts)
  /\ tag(parts) # Refused => Len(tag(parts)) = params.tagBytes
  /\ Argon2idDerive(params, parts[1], parts[2], parts[3], parts[4], FALSE) = Refused

-----------------------------------------------------------------------------
(* password.c *)

Prf(password, message) == [i \in 1 .. PrfSize |-> <<"prf", i, password, message>>]

\* derive: PBKDF2; the exclusive or of bytes that are never alike is their set.
Derive(password, salt, iterations, n) ==
  LET block(k) ==
        LET u[round \in 1 .. iterations] ==
              IF round = 1 THEN Prf(password, <<salt, k>>) ELSE Prf(password, u[round - 1])
        IN [i \in 1 .. PrfSize |-> {u[round][i] : round \in 1 .. iterations}]
      out[k \in 0 .. n] ==
        IF k = 0 THEN <<>>
        ELSE out[k - 1] \o SubSeq(block(k), 1, Lesser(PrfSize, n - Len(out[k - 1])))
  IN IF password = <<>> \/ n = 0 \/ iterations = 0 \/ salt = <<>> THEN Refused ELSE out[(n + PrfSize - 1) \div PrfSize]
VerifySha256(password, salt, iterations, expected) ==
  Len(expected) \in 1 .. RecordHash /\ Derive(password, salt, iterations, Len(expected)) = expected

\* The hash of a record: by Password_deriveSha256 or Argon2id_derive.
HashOf(v, password, memoryIsGiven) ==
  IF v.kdf = "pbkdf2" THEN Derive(password, v.salt, v.iterations, RecordHash)
  ELSE Argon2idDerive([lanes |-> v.lanes, passes |-> v.iterations, memory |-> v.memory, tagBytes |-> RecordHash],
                      password, v.salt, <<>>, <<>>, memoryIsGiven)

\* Password_createVerifier: what fails leaves a record whose code says so.
Blank(code) == [code |-> code, kdf |-> "none", salt |-> <<>>, iterations |-> 0, memory |-> 0, lanes |-> 0, hash |-> <<>>]
CreateVerifier(kdf, password, salt, saltIsGiven, memoryIsGiven) ==
  LET begun == [Blank("invalid") EXCEPT !.kdf = kdf, !.salt = salt, !.iterations = Costs[kdf][1],
                                        !.memory = Costs[kdf][2], !.lanes = Costs[kdf][3]]
      hash == HashOf(begun, password, memoryIsGiven)
  IN CASE password = <<>> -> Blank("invalid")
       [] password # <<>> /\ kdf \notin DOMAIN Costs -> Blank("unsupported")
       [] password # <<>> /\ kdf \in DOMAIN Costs /\ ~saltIsGiven -> [Blank("failed") EXCEPT !.kdf = kdf]
       [] OTHER -> IF hash = Refused THEN Blank("failed") ELSE [begun EXCEPT !.code = "ok", !.hash = hash]

\* PasswordVerifier_isValid.
IsValid(v) ==
  /\ v.code = "ok" /\ v.salt \in RecordSalt /\ Len(v.hash) = RecordHash
  /\ \/ v.kdf = "pbkdf2" /\ v.iterations >= IterationsMin /\ v.memory = 0 /\ v.lanes = 0
     \/ v.kdf = "argon2id" /\ v.memory # 0 /\ v.iterations # 0 /\ v.lanes # 0

\* A variant of PasswordVerifier_verify: a hash that could not be derived is as good as none.
VerifyUnderived(v, password, memoryIsGiven) ==
  LET hash == HashOf(v, password, memoryIsGiven) IN
  IsValid(v) /\ password # <<>> /\ (hash = Refused \/ hash = v.hash)
\* PasswordVerifier_verify.
VerifyRecord(v, password, memoryIsGiven) ==
  IsValid(v) /\ password # <<>> /\ HashOf(v, password, memoryIsGiven) = v.hash

\* A record lets in its password and no other, and nobody when anything in it is
\* another or there is no memory for the hash; what failed is not a record.
Changes(v) ==
  {[v EXCEPT !.code = c] : c \in {"invalid", "failed"}} \cup {[v EXCEPT !.salt = s] : s \in RecordSalt \cup {<<>>}}
    \cup {[v EXCEPT !.kdf = k] : k \in DOMAIN Costs \cup {"none"}} \cup {[v EXCEPT !.iterations = n] : n \in 0 .. 3}
    \cup {[v EXCEPT !.memory = m] : m \in {0, 8, 9}} \cup {[v EXCEPT !.lanes = n] : n \in 0 .. 2}
    \cup {[v EXCEPT !.hash = h] : h \in {<<>>, Tail(v.hash), Append(Tail(v.hash), v.hash[1])}}
PasswordsAgree(kdf, password, salt, saltIsGiven, memoryIsGiven, others) ==
  LET v == CreateVerifier(kdf, password, salt, saltIsGiven, memoryIsGiven)
      good == password # <<>> /\ kdf \in DOMAIN Costs /\ saltIsGiven /\ (kdf = "pbkdf2" \/ memoryIsGiven)
  IN /\ (v.code = "ok") = good /\ IsValid(v) = good
     /\ good => /\ \A q \in others \cup {password} : VerifyRecord(v, q, TRUE) = (q = password)
                /\ VerifyRecord(v, password, FALSE) = (kdf = "pbkdf2")
                /\ \A w \in Changes(v) \ {v} : ~VerifyRecord(w, password, TRUE) /\ ~VerifyRecord(w, password, FALSE)
     /\ kdf = "pbkdf2" => \A n \in 1 .. 2 * PrfSize + 1 :
          LET key == Derive(password, salt, 2, n) IN
          key # Refused => /\ Len(key) = n /\ \A i \in 1 .. n : \A j \in 1 .. i - 1 : key[i] \cap key[j] = {}
                           /\ \A i \in 1 .. n : Derive(password, salt, 2, i) = SubSeq(key, 1, i)
                           /\ VerifySha256(password, salt, 2, key) = (n <= RecordHash)

-----------------------------------------------------------------------------
(* otpauth.c: dest is the cells of the buffer, of which used are written. *)

Put(d, c) == [d EXCEPT !.cells[d.used] = c, !.used = @ + 1]
Ended(d) == [d EXCEPT !.cells[d.used] = "nul"]

\* A variant of appendLiteral: the room for the terminator is not kept.
AppendLiteralTight(d, text) ==
  LET after[i \in 0 .. Len(text)] ==
        LET old == after[i - 1] IN
        IF i = 0 THEN d
        ELSE IF old.ok /\ old.used + 1 <= Cardinality(DOMAIN old.cells) THEN Put(old, text[i]) ELSE [old EXCEPT !.ok = FALSE]
  IN IF after[Len(text)].ok THEN Ended(after[Len(text)]) ELSE after[Len(text)]

\* appendLiteral: as much as leaves room for a terminator, which is written last.
AppendLiteral(d, text) ==
  LET after[i \in 0 .. Len(text)] ==
        LET old == after[i - 1] IN
        IF i = 0 THEN d
        ELSE IF old.ok /\ old.used + 2 <= Cardinality(DOMAIN old.cells) THEN Put(old, text[i]) ELSE [old EXCEPT !.ok = FALSE]
  IN IF after[Len(text)].ok THEN Ended(after[Len(text)]) ELSE after[Len(text)]

\* appendEncoded: three cells for what is not unreserved.
AppendEncoded(d, text) ==
  LET after[i \in 0 .. Len(text)] ==
        LET old == after[i - 1]
            plain == text[i] \in Unreserved
        IN IF i = 0 THEN d
           ELSE IF ~old.ok \/ old.used + (IF plain THEN 2 ELSE 4) > Cardinality(DOMAIN old.cells) THEN [old EXCEPT !.ok = FALSE]
           ELSE IF plain THEN Put(old, text[i])
           ELSE Put(Put(Put(old, "%"), Hex[text[i]][1]), Hex[text[i]][2])
  IN IF after[Len(text)].ok THEN Ended(after[Len(text)]) ELSE after[Len(text)]

\* OtpAuth_buildUri; every literal part is two characters here.
UriParts(issuer, account, secret) ==
  << <<"literal", <<"o", "/">>>>, <<"encoded", issuer>>, <<"literal", <<":">>>>, <<"encoded", account>>,
     <<"literal", <<"?", "=">>>>, <<"literal", secret>>, <<"literal", <<"&", "=">>>>, <<"encoded", issuer>>,
     <<"literal", <<"&", "6">>>> >>
BuildUri(issuer, account, secret, dest) ==
  LET parts == UriParts(issuer, account, secret)
      after[k \in 0 .. Len(parts)] ==
        LET old == after[k - 1] IN
        IF k = 0 THEN [cells |-> dest, used |-> 0, ok |-> TRUE]
        ELSE IF ~old.ok THEN old
        ELSE IF parts[k][1] = "literal" THEN AppendLiteral(old, parts[k][2]) ELSE AppendEncoded(old, parts[k][2])
  IN after[Len(parts)]

\* When the buffer is large enough it holds the URI and a terminator, from which the
\* names are read back; when it is not, that is told and it holds the beginning.
Encoded(text) ==
  LET out[i \in 0 .. Len(text)] ==
        IF i = 0 THEN <<>>
        ELSE out[i - 1] \o (IF text[i] \in Unreserved THEN <<text[i]>> ELSE <<"%", Hex[text[i]][1], Hex[text[i]][2]>>)
  IN out[Len(text)]
Uri(issuer, account, secret) ==
  <<"o", "/">> \o Encoded(issuer) \o <<":">> \o Encoded(account) \o <<"?", "=">> \o secret \o <<"&", "=">>
    \o Encoded(issuer) \o <<"&", "6">>
Decoded(code) ==
  LET from[i \in 1 .. Len(code) + 1] ==
        IF i > Len(code) THEN <<>>
        ELSE IF code[i] = "%" THEN <<CHOOSE c \in DOMAIN Hex : Hex[c] = <<code[i + 1], code[i + 2]>>>> \o from[i + 3]
        ELSE <<code[i]>> \o from[i + 1]
  IN from[1]
FirstOf(c, s) == CHOOSE i \in 1 .. Len(s) : s[i] = c /\ \A k \in 1 .. i - 1 : s[k] # c
UriAgrees(issuer, account, secret, cap) ==
  LET dest == [i \in 0 .. cap - 1 |-> "old"]
      uri == Uri(issuer, account, secret)
      d == BuildUri(issuer, account, secret, dest)
      colon == FirstOf(":", uri)
      query == FirstOf("?", uri)
  IN /\ DOMAIN d.cells = DOMAIN dest
     /\ d.ok = (Len(uri) < cap)
     /\ \A i \in 1 .. d.used : d.cells[i - 1] = uri[i]
     /\ \A i \in d.used + 1 .. cap - 1 : d.cells[i] = "old"
     /\ d.ok => d.used = Len(uri) /\ d.cells[d.used] = "nul"
     /\ Decoded(SubSeq(uri, 3, colon - 1)) = issuer /\ Decoded(SubSeq(uri, colon + 1, query - 1)) = account
=============================================================================
