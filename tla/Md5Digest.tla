------------------------------ MODULE Md5Digest ------------------------------
(***************************************************************************)
(* The buffering of src/common/md5.c: MD5Update takes a message in pieces  *)
(* of any length and hands whole blocks to MD5Transform, keeping the rest  *)
(* in the context's buffer; MD5Final adds the padding and the length.      *)
(* MD5Transform is the sequence of the blocks it is given: the digest is a *)
(* function of it.  A byte of the message is its place in the message, so  *)
(* that a lost, doubled or misplaced byte shows.                           *)
(*                                                                         *)
(* The block is scaled down with the words that count the bits.  What      *)
(* relates them in the code relates them here: a word of bits counts whole *)
(* blocks.                                                                 *)
(***************************************************************************)
EXTENDS Integers, Sequences

CONSTANTS
  Block,    \* bytes of a block: 64
  Length,   \* bytes of the length at the end of the last block: 8
  Word,     \* 2^32, the unsigned ints of the count
  MaxBytes  \* bound on the length of a message

ASSUME Md5Assumption ==
  /\ Block \in Nat /\ Length \in 1..(Block - 1) /\ MaxBytes \in Nat
  /\ Word \in Nat \ {0} /\ Word % (8 * Block) = 0

VARIABLES
  count,     \* context->count: the low and the high word of the bits so far
  buffer,    \* context->buffer
  blocks,    \* the blocks that MD5Transform was given
  taken,     \* history: bytes of the message so far
  finished   \* has MD5Final returned?

mvars == <<count, buffer, blocks, taken, finished>>

PadByte == 0
LengthByte(c, i) == [count |-> c, place |-> i]

\* MD5Init; the buffer is uninitialized.
Md5Init ==
  /\ count = <<0, 0>>
  /\ buffer = [i \in 0..(Block - 1) |-> PadByte]
  /\ blocks = <<>>
  /\ taken = 0
  /\ finished = FALSE

\* The state that MD5Update changes.
Context == [count |-> count, buffer |-> buffer, blocks |-> blocks]

\* Faulty variant: the high word misses the carry of the low one.
CountedNoCarry(c, n) ==
  <<(c[1] + 8 * n) % Word, (c[2] + (n \div (Word \div 8))) % Word>>

\* count[0] += inputlen << 3, with its carry, and count[1] += inputlen >> 29.
Counted(c, n) ==
  LET low == (c[1] + 8 * n) % Word
      carry == IF low < (8 * n) % Word THEN 1 ELSE 0
  IN  <<low, (c[2] + carry + (n \div (Word \div 8))) % Word>>

\* Faulty variant: a full block is not recognised until more follows.
WholeLate(n, partlen) == n > partlen

\* inputlen >= partlen
Whole(n, partlen) == n >= partlen

\* memcpy(&buffer[at], bytes): the buffer from at on.
Copied(b, at, bytes) ==
  [i \in DOMAIN b |-> IF i \in at..(at + Len(bytes) - 1) THEN bytes[i - at + 1] ELSE b[i]]
BlockOf(b) == [i \in 1..Block |-> b[i - 1]]

\* MD5Update(context, input, inputlen)
Updated(ctx, input) ==
  LET n == Len(input)
      index == (ctx.count[1] \div 8) % Block
      partlen == Block - index
      turns == (n - partlen) \div Block    \* the loop: i + 64 <= inputlen
      rest == IF Whole(n, partlen) THEN partlen + turns * Block ELSE 0
  IN
  [count |-> Counted(ctx.count, n),
   blocks |->
     IF Whole(n, partlen)
     THEN ctx.blocks
            \o <<BlockOf(Copied(ctx.buffer, index, SubSeq(input, 1, partlen)))>>
            \o [t \in 1..turns |->
                  SubSeq(input, partlen + (t - 1) * Block + 1, partlen + t * Block)]
     ELSE ctx.blocks,
   buffer |->
     IF Whole(n, partlen)
     THEN Copied(Copied(ctx.buffer, index, SubSeq(input, 1, partlen)), 0,
                 SubSeq(input, rest + 1, n))
     ELSE Copied(ctx.buffer, index, input)]

Becomes(ctx) ==
  count' = ctx.count /\ buffer' = ctx.buffer /\ blocks' = ctx.blocks

\* The next n bytes of the message.
Update(n) ==
  /\ ~finished
  /\ taken + n <= MaxBytes
  /\ Becomes(Updated(Context, [i \in 1..n |-> taken + i]))
  /\ taken' = taken + n
  /\ UNCHANGED finished

\* (index < 56) ? (56 - index) : (120 - index)
PadLen(index) ==
  IF index < Block - Length THEN Block - Length - index ELSE 2 * Block - Length - index

\* MD5Final: padding, and the count from before it; Padded is PADDING's first
\* byte, 0x80, and zeros.
Padded(n) == [i \in 1..n |-> IF i = 1 THEN -1 ELSE PadByte]
Final ==
  /\ ~finished
  /\ LET index == (count[1] \div 8) % Block
         bits == [i \in 1..Length |-> LengthByte(count, i)]
     IN  Becomes(Updated(Updated(Context, Padded(PadLen(index))), bits))
  /\ finished' = TRUE
  /\ UNCHANGED taken

Digested == finished /\ UNCHANGED mvars

Md5Next == Final \/ Digested \/ \E n \in 0..MaxBytes : Update(n)

Md5Spec == Md5Init /\ [][Md5Next]_mvars

------------------------------------------------------------------------------

\* The bytes so far, and a sequence of bytes cut into blocks.
Message == [i \in 1..taken |-> i]
InBlocks(s) ==
  [t \in 1..(Len(s) \div Block) |-> SubSeq(s, (t - 1) * Block + 1, t * Block)]

\* The number of bits of n bytes, in two words.
Bits(n) == <<(8 * n) % Word, ((8 * n) \div Word) % Word>>

\* However a message is cut into pieces, its bytes are in the blocks and in the
\* used part of the buffer, each once and in order.
MessageKept ==
  /\ blocks = InBlocks(Message)
  /\ \A i \in 1..(taken % Block) : buffer[i - 1] = Message[Len(blocks) * Block + i]

\* The digest is that of the message padded as RFC 1321 says: the message, one
\* 0x80, as few zeros as fill a block up to the length, and the length in bits
\* with both words, also where the low one has wrapped around.
DigestRight ==
  LET zeros == Len(blocks) * Block - taken - 1 - Length
      padded == Message \o Padded(1 + zeros) \o [i \in 1..Length |-> LengthByte(Bits(taken), i)]
  IN  zeros \in 0..(Block - 1) /\ blocks = InBlocks(padded)

\* However a message is cut into pieces, each byte is digested once, and what
\* MD5Transform is given at the end is what RFC 1321 says.
DigestStandard == IF finished THEN DigestRight ELSE MessageKept
==============================================================================
