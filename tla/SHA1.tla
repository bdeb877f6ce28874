-------------------------------- MODULE SHA1 --------------------------------
(***************************************************************************)
(* The hash that names a program and its saves (utilities/SHA1.cpp, and    *)
(* the stream of SHA1_Helpers.hpp): the data comes in pieces, and whole    *)
(* blocks go through the transform the processor has -- the plain one, the *)
(* one of x86 or the one of ARM.  A word is the set of its one bits.       *)
(* The vectors are in the order of the rounds, whichever the lanes are.    *)
(***************************************************************************)
EXTENDS Integers, Sequences

CONSTANTS
  Paths,     \* the transforms the processors have: "scalar", "x86", "arm"
  Lengths,   \* the sizes of the data, in bytes
  Pieces     \* how many bytes are fed at once: 512 blocks by the stream

VARIABLES
  path,      \* the transform of this processor
  length,    \* m_data_size
  processed, \* m_processed
  sha,       \* the SHA1 object: m_digest, m_buffer, m_tail_size, m_hash_bytes
  result,    \* the hash, <<>> before the end
  chained    \* history: the plain transform has been given several blocks at once

shaVars == <<path, length, processed, sha, result, chained>>

(* Words.                                                                  *)
Bits(n) == {i \in 0..30 : (n \div 2^i) % 2 = 1}
Word32(high, low) == {16 + i : i \in Bits(high)} \cup Bits(low)
Rotl(x, n) == {(i + n) % 32 : i \in x}
Xor(x, y) == (x \ y) \cup (y \ x)
Sum[x \in SUBSET (0..31), y \in SUBSET (0..31)] ==
  IF y = {} THEN x ELSE Sum[Xor(x, y), {i + 1 : i \in (x \cap y) \ {31}}]
Each(Op(_, _), v, w) == [i \in DOMAIN v |-> Op(v[i], w[i])]
Add(x, y) == Sum[x, y]

\* The element of a set of one.
The(S) == CHOOSE x \in S : TRUE

\* Four quarters of twenty rounds.
Twenty(Step(_, _), r, q) ==
  LET after[t \in 0..20] ==
        IF t = 0 THEN r ELSE The({Step(s, 20 * q + t - 1) : s \in {after[t - 1]}})
  IN  after[20]
Quarters(Step(_, _), r) ==
  LET after[q \in 0..4] ==
        IF q = 0 THEN r ELSE The({Twenty(Step, s, q - 1) : s \in {after[q - 1]}})
  IN  after[4]

\* Four bytes from the first on, the most significant one first.
WordAt(bytes, first) ==
  UNION {{8 * (3 - k) + i : i \in Bits(bytes[first + k])} : k \in 0..3}
BlockAt(bytes, first) == [i \in 1..16 |-> WordAt(bytes, first + 4 * i - 4)]

\* The data, and its bytes from one position on.
Data == [i \in 1..(CHOOSE n \in Lengths : \A k \in Lengths : k <= n) |-> (i * 37 + 11) % 256]

IV == <<Word32(26437, 8961), Word32(61389, 43913), Word32(39098, 56574),
        Word32(4146, 21622), Word32(50130, 57840)>>
Quarter(t) == t \div 20
Constant(t) ==
  <<Word32(23170, 31129), Word32(28377, 60321),
    Word32(36635, 48348), Word32(51810, 49622)>>[Quarter(t) + 1]
-----------------------------------------------------------------------------
(* The standard: FIPS 180, on the whole of the data.                       *)
Schedule(block) ==
  LET W[t \in 16..80] ==
        IF t = 16 THEN block
        ELSE The({Append(w, Rotl(Xor(Xor(w[t - 3], w[t - 8]), Xor(w[t - 14], w[t - 16])), 1)) :
                    w \in {W[t - 1]}})
  IN  W[80]

Standard_f(t, x, y, z) ==
  CASE Quarter(t) = 0 -> (x \cap y) \cup (z \ x)
    [] Quarter(t) = 2 -> (x \cap y) \cup (x \cap z) \cup (y \cap z)
    [] OTHER -> Xor(Xor(x, y), z)

\* One round.
Rotated(h, term) == <<Add(Rotl(h[1], 5), term), h[1], Rotl(h[2], 30), h[3], h[4]>>

Standard_round(W, r, t) ==
  Rotated(r, Add(Add(Standard_f(t, r[2], r[3], r[4]), r[5]), Add(W[t + 1], Constant(t))))

Compress(h, block) ==
  LET Eighty(W) == Quarters(LAMBDA r, t : Standard_round(W, r, t), h)
  IN  Each(Add, h, The({Eighty(W) : W \in {Schedule(block)}}))

Padded(bytes) ==
  LET zeroes == (119 - (Len(bytes) % 64)) % 64
  IN  bytes \o <<128>> \o [i \in 1..zeroes |-> 0] \o <<0, 0, 0, 0, 0, 0>>
        \o <<(8 * Len(bytes)) \div 256, (8 * Len(bytes)) % 256>>

Standard(bytes) ==
  LET m == Padded(bytes)
      H[n \in 0..(Len(m) \div 64)] ==
        IF n = 0 THEN IV ELSE Compress(H[n - 1], BlockAt(m, 64 * n - 63))
  IN  H[Len(m) \div 64]
-----------------------------------------------------------------------------
(* The plain transform: sixteen words in a circle.                         *)

block_mix(block, i) ==
  LET at(k) == block[((i + k) % 16) + 1] IN Rotl(Xor(Xor(at(13), at(8)), Xor(at(2), at(0))), 1)

\* R0 to R4: the functions of the rounds, each with its own form.
RoundFunction(t, w, x, y) ==
  CASE Quarter(t) = 0 -> Xor(w \cap Xor(x, y), y)
    [] Quarter(t) = 2 -> ((w \cup x) \cap y) \cup (w \cap x)
    [] OTHER -> Xor(Xor(w, x), y)

\* One call of R0 to R4; they give the registers their next roles by their arguments.
Round(s, t) ==
  LET i == t % 16
      block == IF t < 16 THEN s.block ELSE [s.block EXCEPT ![i + 1] = block_mix(s.block, i)]
      r == s.regs
  IN  [regs |-> Rotated(r, Add(Add(RoundFunction(t, r[2], r[3], r[4]), r[5]),
                               Add(block[i + 1], Constant(t)))),
       block |-> block]

Rounds(regs, words) == Quarters(Round, [regs |-> regs, block |-> words]).regs

\* The registers are loaded before the first block and added after the last one.
transform_scalar(digest, blocks) ==
  LET after[n \in 0..Len(blocks)] ==
        IF n = 0 THEN digest ELSE Rounds(after[n - 1], blocks[n])
  IN  IF blocks = <<>> THEN digest ELSE Each(Add, digest, after[Len(blocks)])
-----------------------------------------------------------------------------
(* The instructions of the processors, four rounds at a time (external).   *)

Words4(block, g) == [i \in 1..4 |-> block[4 * g + i]]

\* sha1rnds4, and sha1c, sha1p and sha1m: the terms hold the words and the constant.
FourRounds(g, abcd, e, terms) ==
  LET after[k \in 0..4] ==
        IF k = 0 THEN Append(abcd, e)
        ELSE The({Rotated(r, Add(Add(RoundFunction(4 * g, r[2], r[3], r[4]), r[5]), terms[k])) :
                    r \in {after[k - 1]}})
  IN  SubSeq(after[4], 1, 4)

\* sha1msg1 and sha1msg2.
sha1msg1(a, b) == <<Xor(a[1], a[3]), Xor(a[2], a[4]), Xor(a[3], b[1]), Xor(a[4], b[2])>>
sha1msg2(a, b) ==
  LET first == Rotl(Xor(a[1], b[2]), 1)
  IN  <<first, Rotl(Xor(a[2], b[3]), 1), Rotl(Xor(a[3], b[4]), 1), Rotl(Xor(a[4], first), 1)>>

\* sha1su0 and sha1su1.
sha1su0(a, b, c) == Each(Xor, sha1msg1(a, b), c)
sha1su1(a, b) == sha1msg2(a, b)

\* Plausible mistake: the exclusive or starts one group late.
XorGroupsLate == 3..17

\* The groups that mix the vector two behind.
XorGroups == 2..17

\* x86: the group's vector of words is msg[g % 4].  In each group the next vector is
\* finished, and those one and two behind are prepared.
X86Group(s, g) ==
  LET m == s.msg[g % 4]
      k == Constant(4 * g)
      terms == [i \in 1..4 |-> Add(m[i], k)]
      next == (g + 1) % 4  last == (g + 3) % 4  before == (g + 2) % 4
  IN  [abcd |-> FourRounds(g, s.abcd, s.e, terms),
       e |-> Rotl(s.abcd[1], 30),
       msg |-> [s.msg EXCEPT
         ![next] = IF g \in 3..18 THEN sha1msg2(@, m) ELSE @,
         ![last] = IF g \in 1..16 THEN sha1msg1(@, m) ELSE @,
         ![before] = IF g \in XorGroups THEN Each(Xor, @, m) ELSE @]]

\* ARM: the terms of a group are formed two groups ahead.
ArmTerms(msg, g) == [i \in 1..4 |-> Add(msg[g % 4][i], Constant(4 * g))]
ArmGroup(s, g) ==
  LET last == (g + 3) % 4  before == (g + 2) % 4
      finished == [s.msg EXCEPT ![last] =
                     IF g \in 1..17 THEN sha1su1(@, s.msg[before]) ELSE @]
  IN  [abcd |-> FourRounds(g, s.abcd, s.e, s.terms[g % 2]),
       e |-> Rotl(s.abcd[1], 30),
       terms |-> [s.terms EXCEPT ![g % 2] = IF g \in 0..17 THEN ArmTerms(s.msg, g + 2) ELSE @],
       msg |-> [finished EXCEPT ![g % 4] =
                  IF g \in 0..16 THEN sha1su0(@, finished[(g + 1) % 4], finished[before])
                  ELSE @]]

\* The saved state is added after every block.
HardwareBlock(digest, block, arm) ==
  LET msg == [g \in 0..3 |-> Words4(block, g)]
      after[g \in 0..20] ==
        IF g = 0
          THEN [abcd |-> SubSeq(digest, 1, 4), e |-> digest[5], msg |-> msg,
                terms |-> [h \in 0..1 |-> ArmTerms(msg, h)]]
          ELSE The({IF arm THEN ArmGroup(s, g - 1) ELSE X86Group(s, g - 1) :
                      s \in {after[g - 1]}})
  IN  Each(Add, digest, Append(after[20].abcd, after[20].e))

transform_hw(digest, blocks, arm) ==
  LET after[n \in 0..Len(blocks)] ==
        IF n = 0 THEN digest ELSE HardwareBlock(after[n - 1], blocks[n], arm)
  IN  after[Len(blocks)]

transform(p, digest, blocks) ==
  IF p = "scalar" THEN transform_scalar(digest, blocks)
  ELSE transform_hw(digest, blocks, p = "arm")
-----------------------------------------------------------------------------
(* The object.                                                             *)

ResetSha ==
  [m_digest |-> IV, m_buffer |-> [i \in 1..64 |-> 0], m_tail_size |-> 0, m_hash_bytes |-> 0]

\* Bytes put into the buffer behind the first ones.
Copied(buffer, after, bytes) ==
  [i \in 1..64 |-> IF i > after /\ i - after <= Len(bytes) THEN bytes[i - after] ELSE buffer[i]]

Blocks(bytes) == [n \in 1..(Len(bytes) \div 64) |-> BlockAt(bytes, 64 * n - 63)]

Hashed(s, bytes) ==
  [s EXCEPT !.m_digest = transform(path, @, Blocks(bytes)), !.m_hash_bytes = @ + Len(bytes)]

\* update(): a begun block is filled up first; whole blocks are not copied; the rest is.
WholeBlocks(bytes) == SubSeq(bytes, 1, 64 * (Len(bytes) \div 64))
TopUp(s, bytes) ==
  SubSeq(bytes, 1, IF s.m_tail_size = 0 THEN 0
                   ELSE IF Len(bytes) < 64 - s.m_tail_size THEN Len(bytes)
                   ELSE 64 - s.m_tail_size)
update(s, bytes) ==
  LET top == TopUp(s, bytes)
      tail == s.m_tail_size + Len(top)
      filled == [s EXCEPT !.m_buffer = Copied(@, s.m_tail_size, top), !.m_tail_size = tail % 64]
      first == IF tail = 64 THEN Hashed(filled, filled.m_buffer) ELSE filled
      rest == SubSeq(bytes, Len(top) + 1, Len(bytes))
      whole == WholeBlocks(rest)
      second == IF whole = <<>> THEN first ELSE Hashed(first, whole)
      left == SubSeq(rest, Len(whole) + 1, Len(rest))
  IN  IF left = <<>> THEN second
      ELSE [second EXCEPT !.m_buffer = Copied(@, 0, left), !.m_tail_size = Len(left)]

\* Plausible mistake: the end bit is not counted.
SizeFitsBarely(tail) == tail <= 57

\* There is room for the size behind the end bit.
SizeFits(tail) == tail <= 56

\* final(): the end bit, zeroes -- a block of their own when the size has no room --
\* and the size in bits.
final(s) ==
  LET bits == 8 * (s.m_hash_bytes + s.m_tail_size)
      tail == s.m_tail_size + 1
      ended == [i \in 1..64 |->
                 IF i < tail THEN s.m_buffer[i] ELSE IF i = tail THEN 128 ELSE 0]
      size == <<0, 0, 0, 0, 0, 0, bits \div 256, bits % 256>>
      before == IF SizeFits(tail) THEN s.m_digest ELSE transform(path, s.m_digest, Blocks(ended))
      last == IF SizeFits(tail) THEN ended ELSE [i \in 1..64 |-> 0]
  IN  transform(path, before, Blocks(Copied(last, 56, size)))
-----------------------------------------------------------------------------
ShaInit ==
  /\ path \in Paths /\ length = 0
  /\ processed = 0 /\ sha = ResetSha /\ result = <<>> /\ chained = FALSE

\* The next piece, and the end of the hash with the last one: SHA1_Stream::advance, whose
\* pieces are blocks, and SHA1::from, whose piece is the whole.
Feed(piece) ==
  LET rest == length - processed
      taken == SubSeq(Data, processed + 1, processed + IF piece < rest THEN piece ELSE rest)
      next == update(sha, taken)
      whole == WholeBlocks(SubSeq(taken, Len(TopUp(sha, taken)) + 1, Len(taken)))
  IN  /\ result = <<>>
      /\ processed' = processed + Len(taken)
      /\ chained' = (chained \/ (path = "scalar" /\ Len(whole) > 64))
      /\ IF processed' = length
           THEN result' = final(next) /\ sha' = ResetSha
           ELSE sha' = next /\ UNCHANGED result
      /\ UNCHANGED <<path, length>>

\* The stream is reset, in the middle or at the end, for another file.
Setup(size) ==
  /\ length' = size /\ processed' = 0 /\ sha' = ResetSha
  /\ result' = <<>> /\ chained' = FALSE
  /\ UNCHANGED path

ShaNext == (\E piece \in Pieces : Feed(piece)) \/ (\E size \in Lengths : Setup(size))
-----------------------------------------------------------------------------
\* However a file is cut into pieces and whichever instructions the processor has, the hash
\* is the SHA-1 of the file -- unless the plain transform was given several blocks at once.
HashIsStandard ==
  result # <<>> /\ ~chained => result = Standard(SubSeq(Data, 1, length))

\* What the file says of the stream, with no exception: it hashes using SHA-1.
HashIsAlwaysStandard == result # <<>> => result = Standard(SubSeq(Data, 1, length))
=============================================================================
