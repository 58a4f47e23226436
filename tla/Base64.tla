------------------------------- MODULE Base64 -------------------------------
(***************************************************************************)
(* src/common/base64.c: login encodes the output of DesEnc with            *)
(* base64_encode before it takes the md5 that is the token.  The input is  *)
(* any sequence of bytes: what DesEnc returns is not determined by its     *)
(* input on a 64-bit build, where half of the round keys are               *)
(* uninitialized (des.c:397-398, 434), so that nothing is assumed of it.   *)
(* base64_decode, which no program calls, serves to state that no two      *)
(* inputs are encoded alike.  A character is its place in base64char.      *)
(***************************************************************************)
EXTENDS Integers, Sequences, SequencesExt

CONSTANTS
  Bytes,     \* the bytes of the input
  MaxOctets  \* bound on the length of the input

ASSUME Base64Assumption == Bytes \subseteq 0..255 /\ MaxOctets \in Nat

VARIABLE octets  \* the input

OctetsInit == octets = <<>>
AppendByte(b) == Len(octets) < MaxOctets /\ octets' = Append(octets, b)
OctetsEnd == UNCHANGED octets
OctetsNext == OctetsEnd \/ \E b \in Bytes : AppendByte(b)
OctetsSpec == OctetsInit /\ [][OctetsNext]_octets

------------------------------------------------------------------------------
(* base64.c: places in base64char, and Pad for '='; & and >> take bits out, *)
(* | puts disjoint bits together                                            *)

Pad == 64

\* Faulty variant: the second sextet lacks the upper half of the second byte.
EncodeGroupDropsBits(g) ==
  CASE Len(g) = 1 -> <<g[1] \div 4, 16 * (g[1] % 4), Pad, Pad>>
    [] Len(g) = 2 -> <<g[1] \div 4, 16 * (g[1] % 4), 4 * (g[2] % 16), Pad>>
    [] OTHER -> <<g[1] \div 4, 16 * (g[1] % 4) + (g[2] \div 16),
                  4 * (g[2] % 16) + (g[3] \div 64), g[3] % 64>>

\* One turn of base64_encode's loop: three bytes, or the one or two left over.
EncodeGroup(g) ==
  CASE Len(g) = 1 -> <<g[1] \div 4, 16 * (g[1] % 4), Pad, Pad>>
    [] Len(g) = 2 -> <<g[1] \div 4, 16 * (g[1] % 4) + (g[2] \div 16),
                       4 * (g[2] % 16), Pad>>
    [] OTHER -> <<g[1] \div 4, 16 * (g[1] % 4) + (g[2] \div 16),
                  4 * (g[2] % 16) + (g[3] \div 64), g[3] % 64>>

\* Turn t takes the bytes from 3t - 2 on and writes four characters.
Group(s, t) == SubSeq(s, 3 * t - 2, IF 3 * t < Len(s) THEN 3 * t ELSE Len(s))
Base64Encode(s) ==
  [i \in 1..(4 * ((Len(s) + 2) \div 3)) |->
     EncodeGroup(Group(s, (i + 3) \div 4))[((i - 1) % 4) + 1]]

\* One turn of base64_decode's loop.  A character that base64char lacks leaves
\* 0xFF in temp, and shifts keep eight bits.
DecodeGroup(g) ==
  LET temp == [i \in 1..4 |-> IF g[i] \in 0..63 THEN g[i] ELSE 255]
      b1 == ((temp[1] * 4) % 256) + ((temp[2] \div 16) % 4)
      b2 == ((temp[2] * 16) % 256) + ((temp[3] \div 4) % 16)
      b3 == ((temp[3] * 64) % 256) + (temp[4] % 64) IN
  IF g[3] = Pad THEN <<b1>> ELSE IF g[4] = Pad THEN <<b1, b2>> ELSE <<b1, b2, b3>>

\* The turn that an '=' ends is the last one; those before it write three bytes.
Quad(s, t) == SubSeq(s, 4 * t - 3, 4 * t)
LastTurn(s) ==
  CHOOSE t \in 0..(Len(s) \div 4) :
    /\ t < Len(s) \div 4 => t > 0 /\ Pad \in {Quad(s, t)[3], Quad(s, t)[4]}
    /\ \A i \in 1..(t - 1) : Pad \notin {Quad(s, i)[3], Quad(s, i)[4]}
Base64Decode(s) ==
  LET t == LastTurn(s)
      length == IF t = 0 THEN 0 ELSE 3 * (t - 1) + Len(DecodeGroup(Quad(s, t)))
  IN  [i \in 1..length |-> DecodeGroup(Quad(s, (i + 2) \div 3))[((i - 1) % 3) + 1]]

-----------------------------------------------------------------------------
(* Properties *)

\* base64_decode returns the bytes that base64_encode was given, whatever is
\* left over behind the last group of three.
Base64Undone == Base64Decode(Base64Encode(octets)) = octets

\* base64 is that of RFC 4648: three bytes, with zeros for missing ones, are a
\* number of 24 bits, and the four characters its sextets; each missing byte
\* makes one of them an =.
Base64Standard ==
  LET code == Base64Encode(octets)
      groups == Len(code) \div 4
      Octet(i) == IF i <= Len(octets) THEN octets[i] ELSE 0
      Sextet(i) == IF code[i] = Pad THEN 0 ELSE code[i]
  IN
  /\ Len(code) = 4 * groups /\ 3 * groups \in Len(octets)..(Len(octets) + 2)
  /\ \A t \in 0..(groups - 1) :
       /\ 65536 * Octet(3 * t + 1) + 256 * Octet(3 * t + 2) + Octet(3 * t + 3)
            = 262144 * Sextet(4 * t + 1) + 4096 * Sextet(4 * t + 2)
                + 64 * Sextet(4 * t + 3) + Sextet(4 * t + 4)
       /\ \A j \in 1..4 :
            IF 3 * t + j > Len(octets) + 1 THEN code[4 * t + j] = Pad
                                           ELSE code[4 * t + j] \in 0..63

\* base64_encode writes the bits of its input in sixes, for every length and
\* every value of its bytes, and base64_decode undoes it: no two inputs make the
\* same text.
Base64Right == Base64Undone /\ Base64Standard
=============================================================================
