----------------------------- MODULE HelperProofs ------------------------------
(***************************************************************************)
(* What holds of the helpers for every input: of recv_save_file (Receive)  *)
(* for data, heaps and older files of any length, of the texts of          *)
(* cgi_util.c (CgiText) for texts of any length over any characters, of    *)
(* the md5 digest (Md5Digest) for blocks, words and messages of any size,  *)
(* and of base64 (Base64) for bytes of any number.                         *)
(***************************************************************************)
EXTENDS Receive, CgiText, Base64, Md5Digest, WellFoundedInduction, SequenceTheorems, TLAPS

\* A set of numbers that has an element has a least one.
LEMMA LeastNumber ==
  ASSUME NEW T, T \subseteq Nat, T # {}
  PROVE  \E x \in T : \A y \in T : x <= y
<1>1. PICK x \in T : \A y \in T : <<y, x>> \notin OpToRel(<, Nat)
  BY NatLessThanWellFounded, WFMin
<1>2. \A y \in T : <<y, x>> \in OpToRel(<, Nat) <=> y < x
  BY DEF OpToRel
<1>3. \A y \in T : ~(y < x)
  BY <1>1, <1>2, Zenon
<1> QED
  BY <1>3

\* The elements of a concatenation.
LEMMA Concat ==
  ASSUME NEW S, NEW a \in Seq(S), NEW b \in Seq(S), NEW c, c = a \o b
  PROVE  /\ c \in Seq(S) /\ Len(c) = Len(a) + Len(b)
         /\ \A i \in 1..Len(a) : c[i] = a[i]
         /\ \A i \in 1..Len(b) : c[i + Len(a)] = b[i]
<1>2. /\ c \in Seq(S) /\ Len(c) = Len(a) + Len(b)
      /\ \A i \in 1..(Len(a) + Len(b)) : c[i] = IF i <= Len(a) THEN a[i] ELSE b[i - Len(a)]
  BY ConcatProperties, Zenon
<1>3. Len(a) \in Nat /\ Len(b) \in Nat
  OBVIOUS
<1>4. \A i \in 1..Len(a) : c[i] = a[i]
  BY <1>2, <1>3
<1>5. ASSUME NEW i \in 1..Len(b) PROVE c[i + Len(a)] = b[i]
  <2>1. /\ i + Len(a) \in 1..(Len(a) + Len(b)) /\ ~(i + Len(a) <= Len(a))
        /\ i + Len(a) - Len(a) = i
    BY <1>3
  <2> QED
    BY <1>2, <2>1
<1> QED
  BY <1>2, <1>4, <1>5

\* The symbols of a body, place by place.
LEMMA BodyPlaces ==
  ASSUME NEW d \in Seq(Pieces)
  PROVE  /\ BodyOf(d) \in Seq(Symbols) /\ Len(BodyOf(d)) = Len(d) + 16
         /\ BodyOf(d)[1] = Boundary /\ BodyOf(d)[2] = CRLF /\ BodyOf(d)[3] = Header
         /\ BodyOf(d)[4] = CRLF /\ BodyOf(d)[5] = CRLF /\ BodyOf(d)[6] = Info
         /\ BodyOf(d)[7] = CRLF /\ BodyOf(d)[8] = Boundary /\ BodyOf(d)[9] = CRLF
         /\ BodyOf(d)[10] = Header /\ BodyOf(d)[11] = CRLF /\ BodyOf(d)[12] = Header
         /\ BodyOf(d)[13] = CRLF /\ BodyOf(d)[14] = CRLF
         /\ \A i \in 1..Len(d) : BodyOf(d)[i + 14] = d[i]
         /\ BodyOf(d)[Len(d) + 15] = CRLF /\ BodyOf(d)[Len(d) + 16] = Boundary
<1> DEFINE front == <<Boundary, CRLF, Header, CRLF, CRLF, Info, CRLF, Boundary, CRLF,
                      Header, CRLF, Header, CRLF, CRLF>>
           back == <<CRLF, Boundary>>
<1>1. /\ front \in Seq(Symbols) /\ Len(front) = 14
      /\ front[1] = Boundary /\ front[2] = CRLF /\ front[3] = Header
      /\ front[4] = CRLF /\ front[5] = CRLF /\ front[6] = Info
      /\ front[7] = CRLF /\ front[8] = Boundary /\ front[9] = CRLF
      /\ front[10] = Header /\ front[11] = CRLF /\ front[12] = Header
      /\ front[13] = CRLF /\ front[14] = CRLF
  BY DEF Symbols, Pieces
<1>2. back \in Seq(Symbols) /\ Len(back) = 2 /\ back[1] = CRLF /\ back[2] = Boundary
  BY DEF Symbols, Pieces
<1>3. d \in Seq(Symbols) /\ Len(d) \in Nat
  BY DEF Symbols, Pieces
<1>4. BodyOf(d) = (front \o d) \o back
  BY DEF BodyOf
<1> HIDE DEF front, back
<1>5. PICK fd : fd = front \o d
  OBVIOUS
<1>5a. /\ fd \in Seq(Symbols) /\ Len(fd) = Len(front) + Len(d)
       /\ \A i \in 1..Len(front) : fd[i] = front[i]
       /\ \A i \in 1..Len(d) : fd[i + Len(front)] = d[i]
  <2>1. front \in Seq(Symbols) /\ d \in Seq(Symbols)
    BY <1>1, <1>3
  <2> QED
    BY <1>5, <2>1, Concat
<1>5b. /\ Len(fd) = Len(d) + 14
       /\ \A i \in 1..14 : fd[i] = front[i]
       /\ \A i \in 1..Len(d) : fd[i + 14] = d[i]
  BY <1>1, <1>3, <1>5a
<1>6. /\ BodyOf(d) \in Seq(Symbols) /\ Len(BodyOf(d)) = Len(d) + 16
      /\ \A i \in 1..(Len(d) + 14) : BodyOf(d)[i] = fd[i]
      /\ BodyOf(d)[Len(d) + 15] = back[1] /\ BodyOf(d)[Len(d) + 16] = back[2]
  <2>1. /\ BodyOf(d) \in Seq(Symbols) /\ Len(BodyOf(d)) = Len(fd) + Len(back)
        /\ \A i \in 1..Len(fd) : BodyOf(d)[i] = fd[i]
        /\ \A i \in 1..Len(back) : BodyOf(d)[i + Len(fd)] = back[i]
    <3>1. BodyOf(d) = fd \o back
      BY <1>4, <1>5
    <3>2. fd \in Seq(Symbols) /\ back \in Seq(Symbols)
      BY <1>2, <1>5a
    <3> QED
      BY <3>1, <3>2, Concat
  <2>2. /\ BodyOf(d)[1 + (Len(d) + 14)] = back[1] /\ BodyOf(d)[2 + (Len(d) + 14)] = back[2]
        /\ 1 + (Len(d) + 14) = Len(d) + 15 /\ 2 + (Len(d) + 14) = Len(d) + 16
    BY <1>2, <1>3, <1>5b, <2>1
  <2> QED
    BY <1>2, <1>3, <1>5b, <2>1, <2>2
<1>7. ASSUME NEW i \in 1..14 PROVE BodyOf(d)[i] = front[i]
  <2>1. i \in 1..(Len(d) + 14)
    BY <1>3
  <2> QED
    BY <1>5b, <1>6, <2>1
<1>8. ASSUME NEW i \in 1..Len(d) PROVE BodyOf(d)[i + 14] = d[i]
  <2>1. i + 14 \in 1..(Len(d) + 14)
    BY <1>3
  <2> QED
    BY <1>5b, <1>6, <2>1
<1> QED
  BY <1>1, <1>2, <1>6, <1>7, <1>8

\* The first of some places, and what Place returns: the first place of a
\* symbol, or 0 if there is none.
LEMMA FirstIs ==
  ASSUME NEW T, T \subseteq Nat, T # {}
  PROVE  First(T) \in T /\ \A l \in T : First(T) <= l
<1>1. \E j \in T : \A l \in T : j <= l
  BY LeastNumber
<1> QED
  BY <1>1 DEF First

LEMMA PlaceFirst ==
  ASSUME mem \in Seq(Symbols), NEW s, NEW i \in Nat \ {0}
  PROVE  \/ Place(s, i) = 0 /\ \A j \in i..Len(mem) : mem[j] # s
         \/ /\ Place(s, i) \in i..Len(mem) /\ mem[Place(s, i)] = s
            /\ \A j \in i..Len(mem) : mem[j] = s => Place(s, i) <= j
<1>0. PICK T : T = {j \in i..Len(mem) : mem[j] = s}
  OBVIOUS
<1>1. Place(s, i) = First(T) /\ T \subseteq Nat
  BY <1>0 DEF Place
<1>2. CASE T = {}
  <2>1. First(T) = 0
    BY <1>2 DEF First
  <2> QED
    BY <1>0, <1>1, <1>2, <2>1
<1>3. CASE T # {}
  <2>1. First(T) \in T /\ \A l \in T : First(T) <= l
    BY <1>1, <1>3, FirstIs
  <2> QED
    BY <1>0, <1>1, <2>1
<1> QED
  BY <1>2, <1>3

\* A place without an earlier one is the one that is found.
LEMMA PlaceIs ==
  ASSUME mem \in Seq(Symbols), NEW s, NEW i \in Nat \ {0}, NEW j \in i..Len(mem),
         mem[j] = s, \A l \in i..(j - 1) : mem[l] # s
  PROVE  Place(s, i) = j
BY PlaceFirst

\* strstr finds a line end that no zero byte is in front of.
LEMMA StrStrIs ==
  ASSUME mem \in Seq(Symbols), NEW i \in Nat \ {0}, NEW j \in i..Len(mem),
         mem[j] = CRLF, \A l \in i..(j - 1) : mem[l] \notin {CRLF, Nul}
  PROVE  StrStr(i) = j /\ ~StrStrPast(i)
<1>1. Place(CRLF, i) = j /\ j # 0
  BY PlaceIs
<1>2. Place(Nul, i) # 0 => ~(Place(Nul, i) < j)
  <2>1. mem[j] # Nul
    BY ReceiveAssumption
  <2> QED
    BY <1>1, <2>1, PlaceFirst
<1> QED
  BY <1>1, <1>2 DEF StrStr, StrStrPast

\* What strstr finds is a line end from where it began.
LEMMA StrStrFound ==
  ASSUME mem \in Seq(Symbols), NEW i \in Nat \ {0}, StrStr(i) # 0
  PROVE  StrStr(i) \in i..Len(mem) /\ mem[StrStr(i)] = CRLF
<1>1. StrStr(i) = Place(CRLF, i)
  BY DEF StrStr
<1> QED
  BY <1>1, PlaceFirst

------------------------------------------------------------------------------

\* A boundary of one symbol is found at its first place.
LEMMA OneSymbol ==
  ASSUME mem \in Seq(Symbols), StrStr(1) = 2, mem[1] = Boundary, NEW i \in Nat \ {0}
  PROVE  MemStr(i) = Place(Boundary, i)
<1>1. BoundaryLen = 1
  BY DEF BoundaryLen
<1>2. Len(mem) \in Nat /\ Len(mem) - 1 + 1 = Len(mem)
  OBVIOUS
<1>3. ASSUME NEW j \in i..Len(mem)
      PROVE  (\A l \in 1..1 : mem[j + l - 1] = mem[l]) <=> mem[j] = Boundary
  <2>1. j + 1 - 1 = j /\ \A l \in 1..1 : l = 1
    BY <1>2
  <2> QED
    BY <2>1
<1>4. BoundariesFrom(i) = {j \in i..Len(mem) : mem[j] = Boundary}
  BY <1>1, <1>2, <1>3 DEF BoundariesFrom
<1> QED
  BY <1>4 DEF MemStr, Place

\* Wherever a boundary is found, its first symbol is.
LEMMA FoundBegins ==
  ASSUME mem \in Seq(Symbols), StrStr(1) # 0, mem[1] = Boundary, NEW i \in Nat \ {0},
         MemStr(i) # 0
  PROVE  \E j \in i..Len(mem) : mem[j] = Boundary
<1>1. StrStr(1) \in 1..Len(mem) /\ mem[StrStr(1)] = CRLF
  BY StrStrFound
<1>2. StrStr(1) # 1
  BY <1>1, ReceiveAssumption
<1>3. BoundaryLen \in Nat /\ BoundaryLen >= 1 /\ 1 \in 1..BoundaryLen /\ Len(mem) \in Nat
  BY <1>1, <1>2 DEF BoundaryLen
<1>4. BoundariesFrom(i) # {}
  BY DEF MemStr, First
<1>5. PICK j \in i..(Len(mem) - BoundaryLen + 1) :
        \A l \in 1..BoundaryLen : mem[j + l - 1] = mem[l]
  BY <1>4 DEF BoundariesFrom
<1>6. mem[j + 1 - 1] = mem[1]
  BY <1>3, <1>5
<1>7. j + 1 - 1 = j /\ j \in i..Len(mem)
  BY <1>3
<1> QED
  BY <1>6, <1>7

\* Where the searches end in a body that is whole.
LEMMA WholeSearches ==
  ASSUME data \in Seq(Pieces), Received, WholeBody
  PROVE  /\ StrStr(1) = 2 /\ StrStr(3) = 4 /\ StrStr(6) = 7 /\ StrStr(8) = 9
         /\ StrStr(10) = 11 /\ StrStr(12) = 13 /\ mem[6] = Info
         /\ \A i \in {1, 3, 6, 8, 10, 12} : ~StrStrPast(i)
         /\ MemStr(15) = Len(data) + 16
         /\ SubSeq(mem, 15, Len(data) + 14) = data
<1>1. /\ mem \in Seq(Symbols) /\ Len(data) \in Nat /\ Len(mem) >= Len(data) + 16
      /\ Len(mem) \in Nat
      /\ \A i \in 1..(Len(data) + 16) : mem[i] = BodyOf(data)[i]
  BY BodyPlaces DEF Received, WholeBody
<1>2. /\ mem[1] = Boundary /\ mem[2] = CRLF /\ mem[3] = Header /\ mem[4] = CRLF
      /\ mem[6] = Info /\ mem[7] = CRLF /\ mem[8] = Boundary /\ mem[9] = CRLF
      /\ mem[10] = Header /\ mem[11] = CRLF /\ mem[12] = Header /\ mem[13] = CRLF
  <2>1. \A i \in 1..13 : mem[i] = BodyOf(data)[i]
    BY <1>1
  <2>2. /\ mem[1] = BodyOf(data)[1] /\ mem[2] = BodyOf(data)[2] /\ mem[3] = BodyOf(data)[3]
        /\ mem[4] = BodyOf(data)[4] /\ mem[6] = BodyOf(data)[6] /\ mem[7] = BodyOf(data)[7]
        /\ mem[8] = BodyOf(data)[8] /\ mem[9] = BodyOf(data)[9] /\ mem[10] = BodyOf(data)[10]
        /\ mem[11] = BodyOf(data)[11] /\ mem[12] = BodyOf(data)[12]
        /\ mem[13] = BodyOf(data)[13]
    BY <2>1
  <2> QED
    BY <2>2, BodyPlaces
<1>3. ASSUME NEW i \in {1, 3, 6, 8, 10, 12}
      PROVE  StrStr(i) = i + 1 /\ ~StrStrPast(i)
  <2>1. i \in Nat \ {0} /\ i + 1 \in i..Len(mem)
    BY <1>1
  <2>2. mem[i + 1] = CRLF /\ mem[i] \notin {CRLF, Nul}
    BY <1>2, ReceiveAssumption
  <2>3. \A l \in i..((i + 1) - 1) : l = i
    BY <2>1
  <2>4. \A l \in i..((i + 1) - 1) : mem[l] \notin {CRLF, Nul}
    BY <2>2, <2>3
  <2> QED
    BY <1>1, <2>1, <2>2, <2>4, StrStrIs
<1>4. ASSUME NEW i \in 1..Len(data) PROVE mem[i + 14] = data[i] /\ data[i] \in Pieces
  <2>1. i + 14 \in 1..(Len(data) + 16)
    BY <1>1
  <2>2. BodyOf(data)[i + 14] = data[i]
    BY BodyPlaces
  <2> QED
    BY <1>1, <2>1, <2>2
<1>5. mem[Len(data) + 15] = CRLF /\ mem[Len(data) + 16] = Boundary
  <2>1. Len(data) + 15 \in 1..(Len(data) + 16) /\ Len(data) + 16 \in 1..(Len(data) + 16)
    BY <1>1
  <2>2. BodyOf(data)[Len(data) + 15] = CRLF /\ BodyOf(data)[Len(data) + 16] = Boundary
    BY BodyPlaces
  <2> QED
    BY <1>1, <2>1, <2>2
<1>6. MemStr(15) = Len(data) + 16
  <2>1. Len(data) + 16 \in 15..Len(mem)
    BY <1>1
  <2>2. ASSUME NEW l \in 15..((Len(data) + 16) - 1) PROVE mem[l] # Boundary
    <3>1. CASE l = Len(data) + 15
      BY <1>5, <3>1, ReceiveAssumption
    <3>2. CASE l # Len(data) + 15
      <4>1. l - 14 \in 1..Len(data) /\ (l - 14) + 14 = l
        BY <1>1, <3>2
      <4>2. mem[l] \in Pieces
        BY <1>4, <4>1
      <4> QED
        BY <4>2, ReceiveAssumption DEF Pieces
    <3> QED
      BY <3>1, <3>2
  <2> QED
    <3>1. Place(Boundary, 15) = Len(data) + 16
      BY <1>1, <1>5, <2>1, <2>2, PlaceIs
    <3>2. StrStr(1) = 2
      BY <1>3
    <3>3. MemStr(15) = Place(Boundary, 15)
      BY <1>1, <1>2, <3>2, OneSymbol
    <3> QED
      BY <3>1, <3>3
<1>7. SubSeq(mem, 15, Len(data) + 14) = data
  <2> DEFINE found == SubSeq(mem, 15, Len(data) + 14)
  <2>1. \A j \in 15..(Len(data) + 14) : mem[j] \in Symbols
    BY <1>1
  <2>2. /\ found \in Seq(Symbols)
        /\ Len(found) = IF 15 <= Len(data) + 14 THEN (Len(data) + 14) - 15 + 1 ELSE 0
        /\ \A j \in 1..((Len(data) + 14) - 15 + 1) : found[j] = mem[15 + j - 1]
    <3>1. 15 \in Int /\ Len(data) + 14 \in Int
      BY <1>1
    <3> QED
      BY <2>1, <3>1, SubSeqProperties
  <2> HIDE DEF found
  <2>3. Len(found) = Len(data)
    BY <1>1, <2>2
  <2>4. ASSUME NEW j \in 1..Len(data) PROVE found[j] = data[j]
    <3>1. j \in 1..((Len(data) + 14) - 15 + 1) /\ 15 + j - 1 = j + 14
      BY <1>1
    <3> QED
      BY <1>4, <2>2, <3>1
  <2>5. data \in Seq(Symbols)
    BY DEF Pieces, Symbols
  <2>6. found = data
    BY <2>2, <2>3, <2>4, <2>5, SeqEqual
  <2> QED
    BY <2>6 DEF found
<1> QED
  BY <1>2, <1>3, <1>6, <1>7

\* What a body that was cut off lacks.
LEMMA CutLacks ==
  ASSUME data \in Seq(Pieces), Received, ~WholeBody, HeapLacksBoundary
  PROVE  /\ mem \in Seq(Symbols) /\ Len(mem) \in Nat /\ got \in Nat /\ mem[1] = Boundary
         /\ \A i \in 9..Len(mem) : mem[i] # Boundary
         /\ got < 8 => \A i \in 2..Len(mem) : mem[i] # Boundary
         /\ \A i \in 1..got : mem[i] = Info => i = 6
<1>1. /\ mem \in Seq(Symbols) /\ Len(mem) \in Nat /\ Len(data) \in Nat
      /\ got \in 1..(Len(data) + 15) /\ Len(BodyOf(data)) = Len(data) + 16
      /\ Len(mem) >= got /\ \A i \in 1..got : mem[i] = BodyOf(data)[i]
  BY BodyPlaces DEF Received, WholeBody
<1>2. ASSUME NEW i \in 1..Len(mem)
      PROVE  mem[i] # Boundary \/ (i <= got /\ mem[i] = BodyOf(data)[i])
  BY <1>1, <1>2 DEF HeapLacksBoundary
<1>3. ASSUME NEW i \in 15..(Len(data) + 15) PROVE BodyOf(data)[i] \in Pieces
  <2>1. CASE i = Len(data) + 15
    BY <2>1, BodyPlaces DEF Pieces
  <2>2. CASE i # Len(data) + 15
    <3>1. i - 14 \in 1..Len(data) /\ (i - 14) + 14 = i
      BY <1>1, <2>2
    <3>2. BodyOf(data)[(i - 14) + 14] = data[i - 14] /\ data[i - 14] \in Pieces
      BY <3>1, BodyPlaces
    <3> QED
      BY <3>1, <3>2
  <2> QED
    BY <2>1, <2>2
<1>4. /\ \A i \in {9, 11, 13, 14} : BodyOf(data)[i] = CRLF
      /\ \A i \in {10, 12} : BodyOf(data)[i] = Header
  BY BodyPlaces
<1>5. ASSUME NEW i \in 9..(Len(data) + 15) PROVE BodyOf(data)[i] \notin {Boundary, Info}
  <2>1. CASE i \in 15..(Len(data) + 15)
    BY <1>3, <2>1, ReceiveAssumption DEF Pieces
  <2>2. CASE i \in {9, 10, 11, 12, 13, 14}
    BY <1>4, <2>2, ReceiveAssumption
  <2> QED
    BY <1>1, <2>1, <2>2
<1>6. \A i \in {1, 2, 3, 4, 5, 7, 8} : BodyOf(data)[i] # Info
  BY BodyPlaces, ReceiveAssumption
<1>7. \A i \in {2, 3, 4, 5, 6, 7} : BodyOf(data)[i] # Boundary
  BY BodyPlaces, ReceiveAssumption
<1>8. ASSUME NEW i \in 9..Len(mem) PROVE mem[i] # Boundary
  BY <1>1, <1>2, <1>5
<1>9. ASSUME NEW i \in 1..got, mem[i] = Info PROVE i = 6
  <2>1. BodyOf(data)[i] = Info
    BY <1>1, <1>9
  <2>2. i \notin 9..(Len(data) + 15)
    BY <1>5, <2>1
  <2> QED
    BY <1>1, <1>6, <2>1, <2>2
<1>10. ASSUME got < 8, NEW i \in 2..Len(mem) PROVE mem[i] # Boundary
  <2>1. i <= got => i \in {2, 3, 4, 5, 6, 7}
    BY <1>1, <1>10
  <2> QED
    BY <1>1, <1>2, <1>7, <2>1
<1>11. mem[1] = Boundary
  <2>1. 1 \in 1..got /\ BodyOf(data)[1] = Boundary
    BY <1>1, BodyPlaces
  <2> QED
    BY <1>1, <2>1
<1> QED
  BY <1>1, <1>8, <1>9, <1>10, <1>11

------------------------------------------------------------------------------

\* A bounded sequence is a sequence.
LEMMA BoundedIsSeq ==
  ASSUME NEW S, NEW n \in Nat, NEW s \in BoundedSeq(S, n)
  PROVE  s \in Seq(S)
<1>1. PICK m \in 0..n : s \in [1..m -> S]
  BY DEF BoundedSeq, SeqOf
<1>2. m \in Nat
  OBVIOUS
<1> QED
  BY <1>1, <1>2

\* What fread leaves in the buffer.
LEMMA FreadReceives ==
  ASSUME data \in Seq(Pieces), NEW n \in 1..Len(BodyOf(data)),
         NEW heap \in BoundedSeq(Symbols, MaxHeap), UNCHANGED data,
         got' = n, mem' = SubSeq(BodyOf(data), 1, n) \o heap
  PROVE  Received'
<1> DEFINE sub == SubSeq(BodyOf(data), 1, n)
<1>0. BodyOf(data) \in Seq(Symbols) /\ Len(BodyOf(data)) = Len(data) + 16 /\ Len(data) \in Nat
  BY BodyPlaces
<1>1. heap \in Seq(Symbols) /\ Len(heap) \in Nat
  <2>1. heap \in Seq(Symbols)
    BY BoundedIsSeq, ReceiveAssumption
  <2> QED
    BY <2>1
<1>2. sub \in Seq(Symbols) /\ Len(sub) = n /\ \A i \in 1..n : sub[i] = BodyOf(data)[i]
  <2>1. \A i \in 1..n : BodyOf(data)[i] \in Symbols
    BY <1>0
  <2>2. /\ sub \in Seq(Symbols) /\ Len(sub) = IF 1 <= n THEN n - 1 + 1 ELSE 0
        /\ \A i \in 1..(n - 1 + 1) : sub[i] = BodyOf(data)[1 + i - 1]
    <3>1. 1 \in Int /\ n \in Int
      BY <1>0
    <3> QED
      BY <2>1, <3>1, SubSeqProperties
  <2> HIDE DEF sub
  <2> QED
    BY <1>0, <2>2
<1>3. mem' = sub \o heap
  OBVIOUS
<1> HIDE DEF sub
<1>4. /\ mem' \in Seq(Symbols) /\ Len(mem') = Len(sub) + Len(heap)
      /\ \A i \in 1..Len(sub) : mem'[i] = sub[i]
      /\ \A i \in 1..Len(heap) : mem'[i + Len(sub)] = heap[i]
  BY <1>1, <1>2, <1>3, Concat
<1>5. n \in Nat /\ Len(mem') = n + Len(heap)
  BY <1>0, <1>2, <1>4
<1>7. Len(mem') >= n /\ \A i \in 1..n : mem'[i] = BodyOf(data)[i]
  BY <1>1, <1>2, <1>4, <1>5
<1> QED
  BY <1>4, <1>7 DEF Received

\* What a step that leaves the buffer alone has to show.
LEMMA SameBuffer ==
  ASSUME ReceiveInv, UNCHANGED given
  PROVE  /\ data' \in Seq(Pieces) /\ old' \in Seq(Pieces) /\ got' = got
         /\ (Received <=> Received') /\ (WholeBody <=> WholeBody')
         /\ (HeapLacksBoundary <=> HeapLacksBoundary')
BY DEF ReceiveInv, given, Received, WholeBody, HeapLacksBoundary

\* A step in a body that is whole.
LEMMA WholeStep ==
  ASSUME data \in Seq(Pieces), old \in Seq(Pieces), Received, WholeBody, TakenApart,
         Next, ~Fread
  PROVE  TakenApart'
<1>0. /\ at \in DOMAIN Begins \cup {"save", "unopened", "saved"} /\ ~past
      /\ Begins.boundary = 1 /\ Begins.header = 3 /\ Begins.info = 6 /\ Begins.skip1 = 8
      /\ Begins.skip2 = 10 /\ Begins.skip3 = 12 /\ Begins.end = 15
      /\ DOMAIN Begins = {"boundary", "header", "info", "skip1", "skip2", "skip3", "end"}
      /\ at \in DOMAIN Begins => p = Begins[at]
  BY DEF TakenApart, Begins
<1>s. /\ StrStr(1) = 2 /\ StrStr(3) = 4 /\ StrStr(6) = 7 /\ StrStr(8) = 9
      /\ StrStr(10) = 11 /\ StrStr(12) = 13 /\ mem[6] = Info
      /\ \A i \in {1, 3, 6, 8, 10, 12} : ~StrStrPast(i)
      /\ MemStr(15) = Len(data) + 16
      /\ SubSeq(mem, 15, Len(data) + 14) = data
  BY WholeSearches
<1>t. Len(data) \in Nat
  OBVIOUS
<1>g. ASSUME NEW l \in DOMAIN Begins, at' = l, p' = Begins[l], ~past'
      PROVE  TakenApart'
  <2>1. l \notin {"save", "unopened", "saved"}
    BY <1>0, <1>g
  <2> QED
    BY <1>g, <2>1 DEF TakenApart
<1> HIDE DEF TakenApart
<1>1. CASE FindBoundary
  <2>1. at = "boundary" /\ at' = "header" /\ p' = 3 /\ ~past'
    BY <1>0, <1>1, <1>s DEF FindBoundary, Goto
  <2> QED
    BY <1>0, <1>g, <2>1
<1>2. CASE FindHeader
  <2>1. at = "header" /\ p = 3
    BY <1>0, <1>2 DEF FindHeader
  <2>2. at' = "info" /\ p' = 6 /\ ~past'
    BY <1>0, <1>2, <1>s, <2>1 DEF FindHeader, Goto
  <2> QED
    BY <1>0, <1>g, <2>2
<1>3. CASE FindInfo
  <2>1. at = "info" /\ p = 6
    BY <1>0, <1>3 DEF FindInfo
  <2>2. at' = "skip1" /\ p' = 8 /\ ~past'
    BY <1>0, <1>3, <1>s, <2>1 DEF FindInfo, Goto
  <2> QED
    BY <1>0, <1>g, <2>2
<1>4. CASE SkipHeaders
  <2>1. CASE Skip("skip1", "skip2", 1)
    <3>1. at = "skip1" /\ p = 8
      BY <1>0, <2>1 DEF Skip
    <3>2. at' = "skip2" /\ p' = 10 /\ ~past'
      BY <1>0, <1>s, <2>1, <3>1 DEF Skip, Goto
    <3> QED
      BY <1>0, <1>g, <3>2
  <2>2. CASE Skip("skip2", "skip3", 1)
    <3>1. at = "skip2" /\ p = 10
      BY <1>0, <2>2 DEF Skip
    <3>2. at' = "skip3" /\ p' = 12 /\ ~past'
      BY <1>0, <1>s, <2>2, <3>1 DEF Skip, Goto
    <3> QED
      BY <1>0, <1>g, <3>2
  <2>3. CASE Skip("skip3", "end", 2)
    <3>1. at = "skip3" /\ p = 12
      BY <1>0, <2>3 DEF Skip
    <3>2. at' = "end" /\ p' = 15 /\ ~past'
      BY <1>0, <1>s, <2>3, <3>1 DEF Skip, Goto
    <3> QED
      BY <1>0, <1>g, <3>2
  <2> QED
    BY <1>4, <2>1, <2>2, <2>3 DEF SkipHeaders
<1>5. CASE FindEnd
  <2>1. at = "end" /\ p = 15
    BY <1>0, <1>5 DEF FindEnd
  <2>2. MemStr(p) # 0
    BY <1>s, <1>t, <2>1
  <2>3. /\ at' = "save" /\ p' = Len(data) + 15 /\ begin' = 15 /\ ~past' /\ UNCHANGED data
    BY <1>0, <1>5, <1>s, <1>t, <2>1, <2>2 DEF FindEnd, Goto, given
  <2> QED
    BY <1>0, <2>3 DEF TakenApart
<1>6. CASE Save
  <2>1. at = "save" /\ begin = 15 /\ p = Len(data) + 15 /\ p - 1 = Len(data) + 14
    BY <1>6, <1>t DEF Save, TakenApart
  <2>2. Found = data
    BY <1>s, <2>1 DEF Found
  <2>3. CASE Ends("unopened")
    BY <1>0, <2>3 DEF Ends, Goto, TakenApart
  <2>4. CASE ~Ends("unopened")
    <3>1. PICK n \in 0..Len(data), fits \in BOOLEAN :
            /\ file' = Written(IF fits THEN Truncated ELSE old, n)
            /\ stuck' = ~fits /\ short' = (n < Len(data) \/ p < begin)
            /\ at' = "saved" /\ UNCHANGED <<data, old, past>>
      BY <1>6, <2>2, <2>4 DEF Save, given
    <3>2. ASSUME ~short', stuck' => Len(old) <= Len(data) PROVE file' = data
      <4>0. ~(n < Len(data)) /\ (~fits => Len(old) <= Len(data))
        BY <3>1, <3>2, Zenon
      <4>1. n = Len(data)
        BY <1>t, <4>0
      <4>2. PICK under : under = IF fits THEN Truncated ELSE old
        OBVIOUS
      <4>3. Len(under) \in Nat /\ Len(under) <= Len(data)
        <5>1. CASE fits
          <6>1. under = [i \in 1..Len(data) |-> IF i <= Len(old) THEN old[i] ELSE Nul]
            BY <2>2, <4>2, <5>1 DEF Truncated
          <6> QED
            BY <1>t, <6>1
        <5>2. CASE ~fits
          BY <4>0, <4>2, <5>2
        <5> QED
          BY <5>1, <5>2
      <4>4. file' = [i \in 1..Len(data) |-> data[i]]
        <5>1. (IF n > Len(under) THEN n ELSE Len(under)) = Len(data)
          BY <1>t, <4>1, <4>3
        <5>2. \A i \in 1..Len(data) : i <= n
          BY <1>t, <4>1
        <5> QED
          BY <2>2, <3>1, <4>2, <5>1, <5>2 DEF Written
      <4> QED
        BY <4>4
    <3> QED
      BY <1>0, <3>1, <3>2 DEF TakenApart
  <2> QED
    BY <2>3, <2>4
<1>7. CASE Finished
  BY <1>7 DEF Finished, rvars, TakenApart
<1> QED
  BY <1>1, <1>2, <1>3, <1>4, <1>5, <1>6, <1>7 DEF Next

\* A step in a body that was cut off.
LEMMA CutStep ==
  ASSUME data \in Seq(Pieces), Received, ~WholeBody, HeapLacksBoundary, CutOff, Next, ~Fread
  PROVE  CutOff'
<1> DEFINE Searches == {"boundary", "header", "info", "skip1", "skip2", "skip3", "end"}
<1>0. /\ at \in Searches \cup {"failed", "died"} /\ p \in Nat \ {0}
      /\ at \in Searches \ {"boundary"} => p >= 2 /\ StrStr(1) # 0
      /\ at = "skip1" => got < 8 \/ p >= 8
      /\ at \in {"skip2", "skip3", "end"} => got < 8 \/ p >= 9
      /\ DOMAIN Begins = Searches
  BY DEF CutOff, Begins
<1>s. /\ mem \in Seq(Symbols) /\ Len(mem) \in Nat /\ got \in Nat /\ mem[1] = Boundary
      /\ \A i \in 9..Len(mem) : mem[i] # Boundary
      /\ got < 8 => \A i \in 2..Len(mem) : mem[i] # Boundary
      /\ \A i \in 1..got : mem[i] = Info => i = 6
  BY CutLacks
<1>u. UNCHANGED given /\ StrStr(1)' = StrStr(1) /\ UNCHANGED got
  <2>1. UNCHANGED given
    BY DEF Next, FindBoundary, FindHeader, FindInfo, SkipHeaders, Skip, FindEnd, Save,
           Finished, Leaves, Ends, Goto, given, rvars
  <2> QED
    BY <2>1 DEF given, StrStr, Place
<1>f. ASSUME NEW i \in Nat \ {0}, StrStr(i) # 0
      PROVE  StrStr(i) \in Nat /\ StrStr(i) >= i /\ StrStr(i) <= Len(mem) /\ mem[StrStr(i)] = CRLF
  BY <1>f, <1>s, StrStrFound
<1>e. ASSUME at' \in {"failed", "died"}, UNCHANGED p PROVE CutOff'
  BY <1>0, <1>e DEF CutOff, Begins
<1>l. Leaves \/ (\E o \in {"failed", "died"} : Ends(o)) => CutOff'
  BY <1>e DEF Leaves, Ends, Goto
<1>g. ASSUME NEW l \in Searches \ {"boundary"}, at' = l, p' \in Nat, p' >= 2, StrStr(1) # 0,
             l = "skip1" => got < 8 \/ p' >= 8,
             l \in {"skip2", "skip3", "end"} => got < 8 \/ p' >= 9
      PROVE  CutOff'
  BY <1>0, <1>g, <1>u DEF CutOff
<1>1. CASE FindBoundary
  <2>1. ASSUME StrStr(1) # 0, p' = StrStr(1) + 1, at' = "header" PROVE CutOff'
    <3>1. StrStr(1) \in Nat /\ StrStr(1) >= 1
      BY <1>f, <2>1
    <3> QED
      BY <1>g, <2>1, <3>1
  <2> QED
    BY <1>1, <1>l, <2>1 DEF FindBoundary, Goto
<1>2. CASE FindHeader
  <2>1. ASSUME StrStr(p) # 0, p' = StrStr(p) + 2, at' = "info", at = "header" PROVE CutOff'
    <3>1. StrStr(p) \in Nat /\ StrStr(p) >= p /\ StrStr(1) # 0
      BY <1>0, <1>f, <2>1
    <3> QED
      BY <1>0, <1>g, <2>1, <3>1
  <2> QED
    BY <1>2, <1>l, <2>1 DEF FindHeader, Goto
<1>3. CASE FindInfo
  <2>1. ASSUME StrStr(p) # 0, mem[p] = Info, p' = StrStr(p) + 1, at' = "skip1", at = "info"
        PROVE  CutOff'
    <3>1. /\ StrStr(p) \in Nat /\ StrStr(p) >= p /\ StrStr(p) <= Len(mem)
          /\ mem[StrStr(p)] = CRLF /\ StrStr(1) # 0
      BY <1>0, <1>f, <2>1
    <3>2. p <= got => p = 6
      BY <1>0, <1>s, <2>1
    <3>3. StrStr(p) # p
      BY <2>1, <3>1, ReceiveAssumption
    <3>4. p' \in Nat /\ p' >= 2 /\ (got < 8 \/ p' >= 8)
      BY <1>0, <1>s, <2>1, <3>1, <3>2, <3>3
    <3> QED
      BY <1>g, <2>1, <3>1, <3>4
  <2> QED
    BY <1>3, <1>l, <2>1 DEF FindInfo, Goto
<1>4. CASE SkipHeaders
  <2>1. ASSUME NEW from \in {"skip1", "skip2", "skip3"}, NEW to \in {"skip2", "skip3", "end"},
               NEW k \in {1, 2}, Skip(from, to, k)
        PROVE  CutOff'
    <3>1. at \in {"skip1", "skip2", "skip3"}
      BY <2>1 DEF Skip
    <3>2. (got < 8 \/ p >= 8) /\ p >= 2 /\ StrStr(1) # 0
      BY <1>0, <3>1
    <3>3. ASSUME StrStr(p) # 0, p' = StrStr(p) + k, at' = to PROVE CutOff'
      <4>1. StrStr(p) \in Nat /\ StrStr(p) >= p
        BY <1>0, <1>f, <3>3
      <4>2. p' \in Nat /\ p' >= 2 /\ (got < 8 \/ p' >= 9)
        BY <1>0, <3>2, <3>3, <4>1
      <4> QED
        BY <1>g, <3>2, <3>3, <4>2
    <3> QED
      BY <1>l, <2>1, <3>3 DEF Skip, Goto
  <2> QED
    BY <1>4, <2>1 DEF SkipHeaders
<1>5. CASE FindEnd
  <2>1. at = "end" /\ (got < 8 \/ p >= 9) /\ p >= 2 /\ StrStr(1) # 0
    BY <1>0, <1>5 DEF FindEnd
  <2>2. \A j \in p..Len(mem) : mem[j] # Boundary
    BY <1>0, <1>s, <2>1
  <2>3. MemStr(p) = 0
    BY <1>0, <1>s, <2>1, <2>2, FoundBegins
  <2> QED
    BY <1>5, <1>l, <2>3 DEF FindEnd
<1>6. CASE Save
  BY <1>0, <1>6 DEF Save
<1>7. CASE Finished
  BY <1>7, <1>u DEF Finished, rvars, CutOff
<1> QED
  BY <1>1, <1>2, <1>3, <1>4, <1>5, <1>6, <1>7 DEF Next

\* Every step of recv_save_file keeps the invariant.
LEMMA ReceiveStep == ReceiveInv /\ [Next]_rvars => ReceiveInv'
<1> SUFFICES ASSUME ReceiveInv, [Next]_rvars PROVE ReceiveInv'
  OBVIOUS
<1>0. data \in Seq(Pieces) /\ old \in Seq(Pieces)
  BY DEF ReceiveInv
<1>z. Len(BodyOf(data)) \in Nat /\ Len(BodyOf(data)) >= 16
  BY <1>0, BodyPlaces
<1>1. CASE UNCHANGED rvars
  BY <1>1 DEF rvars, ReceiveInv, Received, TakenApart, CutOff, WholeBody, HeapLacksBoundary,
              StrStr, Place
<1>2. CASE Fread
  <2>0. at = "fread" /\ UNCHANGED old
    BY <1>2 DEF Fread, Ends, Goto, given
  <2>1. got = 0 /\ p = 1 /\ ~past
    BY <2>0 DEF ReceiveInv
  <2>2. CASE Ends("failed")
    BY <1>0, <2>0, <2>1, <2>2 DEF Ends, Goto, given, ReceiveInv
  <2>3. CASE ~Ends("failed")
    <3>1. PICK n \in 1..Len(BodyOf(data)), heap \in BoundedSeq(Symbols, MaxHeap) :
            /\ got' = n /\ mem' = SubSeq(BodyOf(data), 1, n) \o heap
            /\ at' = "boundary" /\ UNCHANGED <<data, p, past>>
      BY <1>2, <2>3 DEF Fread
    <3>2. Received'
      BY <1>0, <3>1, FreadReceives
    <3>3. TakenApart' /\ CutOff'
      BY <2>1, <3>1 DEF TakenApart, CutOff, Begins
    <3> QED
      BY <1>0, <2>0, <3>1, <3>2, <3>3 DEF ReceiveInv
  <2> QED
    BY <2>2, <2>3
<1>3. CASE Next /\ ~Fread
  <2>1. UNCHANGED given
    BY <1>3 DEF Next, FindBoundary, FindHeader, FindInfo, SkipHeaders, Skip, FindEnd, Save,
                Finished, Leaves, Ends, Goto, given, rvars
  <2>2. /\ data' \in Seq(Pieces) /\ old' \in Seq(Pieces) /\ got' = got
        /\ (Received <=> Received') /\ (WholeBody <=> WholeBody')
        /\ (HeapLacksBoundary <=> HeapLacksBoundary')
    BY <2>1, SameBuffer
  <2>3. CASE got = 0
    <3>1. at = "failed" /\ p = 1 /\ ~past
      <4>1. ~Received
        BY <1>z, <2>3 DEF Received
      <4>2. at \in {"fread", "failed"} /\ p = 1 /\ ~past
        BY <4>1 DEF ReceiveInv
      <4>3. at # "fread"
        BY <1>3 DEF Next, FindBoundary, FindHeader, FindInfo, SkipHeaders, Skip, FindEnd,
                    Save, Finished
      <4> QED
        BY <4>2, <4>3
    <3>2. UNCHANGED rvars
      BY <1>3, <3>1 DEF Next, FindBoundary, FindHeader, FindInfo, SkipHeaders, Skip, FindEnd,
                        Save, Finished
    <3> QED
      BY <1>1, <3>2
  <2>4. CASE got # 0
    <3>1. Received /\ IF WholeBody THEN TakenApart ELSE HeapLacksBoundary => CutOff
      BY <2>4 DEF ReceiveInv
    <3>2. IF WholeBody' THEN TakenApart' ELSE HeapLacksBoundary' => CutOff'
      BY <1>0, <1>3, <2>2, <3>1, WholeStep, CutStep
    <3>3. at' # "fread"
      BY <1>3 DEF Next, FindBoundary, FindHeader, FindInfo, SkipHeaders, Skip, FindEnd, Save,
                  Finished, Leaves, Ends, Goto, rvars
    <3> QED
      BY <2>2, <3>1, <3>2, <3>3 DEF ReceiveInv
  <2> QED
    BY <2>3, <2>4
<1> QED
  BY <1>1, <1>2, <1>3

\* The invariant holds in every state.
LEMMA ReceiveInvariant == Spec => []ReceiveInv
<1>1. Init => ReceiveInv
  <2>1. SUFFICES ASSUME Init PROVE ReceiveInv
    OBVIOUS
  <2>2. data \in Seq(Pieces)
    BY <2>1, BoundedIsSeq, ReceiveAssumption DEF Init
  <2>3. MaxData + 1 \in Nat /\ Byte \in Pieces
    BY ReceiveAssumption DEF Pieces
  <2>4. old \in Seq(Pieces)
    <3>1. \/ old = <<>> \/ old = <<Byte>>
          \/ old = [i \in 1..(MaxData + 1) |-> Byte]
      BY <2>1 DEF Init
    <3>2. [i \in 1..(MaxData + 1) |-> Byte] \in Seq(Pieces)
      BY <2>3
    <3>3. <<>> \in Seq(Pieces) /\ <<Byte>> \in Seq(Pieces)
      BY <2>3
    <3> QED
      BY <3>1, <3>2, <3>3
  <2> QED
    BY <2>1, <2>2, <2>4 DEF Init, ReceiveInv
<1> QED
  BY <1>1, ReceiveStep, PTL DEF Spec

\* Whatever bytes the data consists of, however long it and an older temporary
\* file are: when recv_save_file succeeds, write did not fall short and ftruncate
\* worked (or the older file is not longer), the temporary file is what the client
\* sent, for a whole body whatever is behind it, and for one that was cut off
\* unless the heap holds its boundary.
THEOREM SavedFilesWhole == Spec => []SavedWhole
<1>1. ReceiveInv => SavedWhole
  BY DEF ReceiveInv, SavedWhole, TakenApart, CutOff, Begins
<1> QED
  BY <1>1, ReceiveInvariant, PTL

\* Once the whole body has arrived, no search ends without what it looks for and
\* none leaves the buffer: only open may still fail.
THEOREM WholeBodiesTaken == Spec => []BodyTaken
<1>1. ReceiveInv => BodyTaken
  <2>1. ReceiveInv => Len(BodyOf(data)) # 0
    BY BodyPlaces DEF ReceiveInv
  <2> QED
    BY <2>1 DEF ReceiveInv, WholeBody, BodyTaken, TakenApart, Begins
<1> QED
  BY <1>1, ReceiveInvariant, PTL

-----------------------------------------------------------------------------
(* The texts of cgi_util.c *)

\* Min and Max are the least and the greatest number of a set that has them.
LEMMA MinIs ==
  ASSUME NEW T, T \subseteq Nat, T # {}
  PROVE  Min(T) \in T /\ \A y \in T : Min(T) <= y
<1>1. \E x \in T : \A y \in T : x <= y
  BY LeastNumber
<1> QED
  BY <1>1 DEF Min

LEMMA MaxIs ==
  ASSUME NEW n \in Nat, NEW T, T \subseteq 0..n, T # {}
  PROVE  Max(T) \in T /\ \A y \in T : Max(T) >= y
<1> DEFINE U == {n - x : x \in T}
<1>1. U \subseteq Nat /\ U # {}
  <2>1. PICK x \in T : TRUE
    OBVIOUS
  <2>2. n - x \in U
    OBVIOUS
  <2>3. \A y \in T : n - y \in Nat
    OBVIOUS
  <2> QED
    BY <2>2, <2>3
<1>2. PICK u \in U : \A y \in U : u <= y
  BY <1>1, LeastNumber
<1>3. PICK x \in T : u = n - x
  OBVIOUS
<1>4. \A y \in T : x >= y
  <2> SUFFICES ASSUME NEW y \in T PROVE x >= y
    OBVIOUS
  <2>1. n - y \in U
    OBVIOUS
  <2>2. n - x <= n - y
    BY <1>2, <1>3, <2>1
  <2> QED
    BY <2>2
<1> QED
  BY <1>4 DEF Max

\* The elements of a part of a sequence.
LEMMA Piece ==
  ASSUME NEW S, NEW s \in Seq(S), NEW m \in Nat \ {0}, NEW n \in Nat, n >= m - 1, n <= Len(s),
         NEW r, r = SubSeq(s, m, n)
  PROVE  /\ r \in Seq(S) /\ Len(r) = n - m + 1
         /\ \A i \in 1..(n - m + 1) : r[i] = s[m + i - 1]
<1>1. Len(s) \in Nat /\ \A i \in 1..Len(s) : s[i] \in S
  OBVIOUS
<1>2. m \in Int /\ n \in Int /\ \A i \in m..n : s[i] \in S
  BY <1>1
<1>3. /\ r \in Seq(S)
      /\ Len(r) = IF m <= n THEN n - m + 1 ELSE 0
      /\ \A i \in 1..(n - m + 1) : r[i] = s[m + i - 1]
  BY <1>2, SubSeqProperties
<1>4. Len(r) = n - m + 1
  BY <1>3
<1> QED
  BY <1>3, <1>4

\* trim_space's first loop stops at the first character that is no space.
LEMMA FirstKeptIs ==
  ASSUME NEW s \in Seq(Chars)
  PROVE  /\ FirstKept(s) \in 1..(Len(s) + 1)
         /\ FirstKept(s) <= Len(s) => s[FirstKept(s)] \notin Spaces
         /\ \A k \in 1..(FirstKept(s) - 1) : s[k] \in Spaces
<1> DEFINE T == {i \in 1..(Len(s) + 1) : i <= Len(s) => s[i] \notin Spaces}
<1>1. Len(s) \in Nat
  OBVIOUS
<1>2. T \subseteq Nat /\ Len(s) + 1 \in T
  BY <1>1
<1>3. FirstKept(s) \in T /\ \A y \in T : FirstKept(s) <= y
  BY <1>2, MinIs DEF FirstKept
<1>4. ASSUME NEW k \in 1..(FirstKept(s) - 1) PROVE s[k] \in Spaces
  <2>1. k \in 1..(Len(s) + 1) /\ k <= Len(s) /\ ~(FirstKept(s) <= k)
    BY <1>1, <1>3
  <2> QED
    BY <1>3, <2>1
<1> QED
  BY <1>3, <1>4

\* The second loop stops at the last one, not before the first.
LEMMA LastKeptIs ==
  ASSUME NEW s \in Seq(Chars)
  PROVE  /\ LastKept(s) \in 0..Len(s) /\ LastKept(s) >= FirstKept(s) - 1
         /\ LastKept(s) > FirstKept(s) => s[LastKept(s)] \notin Spaces
         /\ FirstKept(s) <= Len(s) => LastKept(s) >= FirstKept(s)
         /\ \A k \in (LastKept(s) + 1)..Len(s) : s[k] \in Spaces
<1> DEFINE T == {j \in 0..Len(s) : j > FirstKept(s) => s[j] \notin Spaces}
<1>1. Len(s) \in Nat
  OBVIOUS
<1>2. FirstKept(s) \in 1..(Len(s) + 1)
  BY FirstKeptIs
<1>3. T \subseteq 0..Len(s) /\ FirstKept(s) - 1 \in T
  BY <1>1, <1>2
<1>4. LastKept(s) \in T /\ \A y \in T : LastKept(s) >= y
  BY <1>1, <1>3, MaxIs DEF LastKept
<1>5. FirstKept(s) <= Len(s) => FirstKept(s) \in T
  BY <1>1, <1>2
<1>6. ASSUME NEW k \in (LastKept(s) + 1)..Len(s) PROVE s[k] \in Spaces
  <2>1. k \in 0..Len(s) /\ k \notin T
    BY <1>1, <1>4
  <2> QED
    BY <2>1
<1> QED
  BY <1>3, <1>4, <1>5, <1>6

LEMMA TrimmedIs ==
  ASSUME text \in Seq(Chars)
  PROVE  TrimmedBare
<1>1. PICK i, j, n : i = FirstKept(text) /\ j = LastKept(text) /\ n = Len(text)
  OBVIOUS
<1>2. /\ n \in Nat /\ i \in 1..(n + 1) /\ j \in 0..n /\ j >= i - 1
      /\ i <= n => text[i] \notin Spaces /\ j >= i
      /\ j > i => text[j] \notin Spaces
      /\ \A k \in 1..(i - 1) : text[k] \in Spaces
      /\ \A k \in (j + 1)..n : text[k] \in Spaces
  BY <1>1, FirstKeptIs, LastKeptIs
<1>3. PICK kept : kept = SubSeq(text, i, j)
  OBVIOUS
<1>4. Len(kept) = j - i + 1 /\ \A k \in 1..(j - i + 1) : kept[k] = text[i + k - 1]
  BY <1>1, <1>2, <1>3, Piece
<1>5. Bare(kept)
  <2> SUFFICES ASSUME kept # <<>> PROVE kept[1] \notin Spaces /\ kept[Len(kept)] \notin Spaces
    BY DEF Bare
  <2>1. j >= i
    BY <1>2, <1>3, SubSeqEmpty
  <2>2. i <= n
    BY <1>2, <2>1
  <2>3. kept[1] = text[i]
    <3>1. 1 \in 1..(j - i + 1) /\ i + 1 - 1 = i
      BY <1>2, <2>1
    <3> QED
      BY <1>4, <3>1
  <2>4. kept[Len(kept)] = text[j]
    <3>1. j - i + 1 \in 1..(j - i + 1) /\ i + (j - i + 1) - 1 = j
      BY <1>2, <2>1
    <3> QED
      BY <1>4, <3>1
  <2>5. text[j] \notin Spaces
    BY <1>2, <2>1, <2>2
  <2> QED
    BY <1>2, <2>2, <2>3, <2>4, <2>5
<1>6. AllSpaces(SubSeq(text, 1, i - 1))
  <2>1. PICK r : r = SubSeq(text, 1, i - 1)
    OBVIOUS
  <2>2. i - 1 \in Nat /\ i - 1 <= Len(text)
    BY <1>1, <1>2
  <2>3. Len(r) = i - 1 - 1 + 1 /\ \A k \in 1..(i - 1 - 1 + 1) : r[k] = text[1 + k - 1]
    BY <2>1, <2>2, Piece
  <2>4. ASSUME NEW k \in 1..Len(r) PROVE r[k] \in Spaces
    <3>1. k \in 1..(i - 1) /\ 1 + k - 1 = k /\ k \in 1..(i - 1 - 1 + 1)
      BY <1>2, <2>3
    <3> QED
      BY <1>2, <2>3, <3>1
  <2> QED
    BY <2>1, <2>4 DEF AllSpaces
<1>7. AllSpaces(SubSeq(text, j + 1, Len(text)))
  <2>1. PICK r : r = SubSeq(text, j + 1, n)
    OBVIOUS
  <2>2. j + 1 \in Nat \ {0} /\ n >= j + 1 - 1 /\ n <= Len(text)
    BY <1>1, <1>2
  <2>3. Len(r) = n - (j + 1) + 1 /\ \A k \in 1..(n - (j + 1) + 1) : r[k] = text[j + 1 + k - 1]
    BY <1>2, <2>1, <2>2, Piece
  <2>4. ASSUME NEW k \in 1..Len(r) PROVE r[k] \in Spaces
    <3>1. k \in 1..(n - (j + 1) + 1) /\ j + 1 + k - 1 \in (j + 1)..n
      BY <1>2, <2>3
    <3> QED
      BY <1>2, <2>3, <3>1
  <2> QED
    BY <1>1, <2>1, <2>4 DEF AllSpaces
<1>8. ASSUME NEW r \in TrimSpace(text)
      PROVE  Len(r) = Len(kept) /\ (i = 1 => r = kept)
  <2> DEFINE c == j - i + 1
  <2>1. c \in Nat /\ i + c - 1 = j
    BY <1>2
  <2>2. r \in IF i > 1 /\ i - 1 < c THEN [1..c -> Chars] ELSE {SubSeq(text, i, i + c - 1)}
    BY <1>1 DEF TrimSpace
  <2>3. CASE i > 1 /\ i - 1 < c
    <3>1. r \in [1..c -> Chars]
      BY <2>2, <2>3
    <3>2. Len(r) = c
      BY <2>1, <3>1
    <3> QED
      BY <1>4, <2>3, <3>2
  <2>4. CASE ~(i > 1 /\ i - 1 < c)
    <3>1. r = kept
      BY <1>3, <2>1, <2>2, <2>4
    <3> QED
      BY <3>1
  <2> QED
    BY <2>3, <2>4
<1>9. i \in 1..(Len(text) + 1) /\ j \in 0..Len(text) /\ j >= i - 1
  BY <1>1, <1>2
<1> QED
  BY <1>3, <1>5, <1>6, <1>7, <1>8, <1>9 DEF TrimmedBare

LEMMA QueryIs ==
  ASSUME text \in Seq(Chars)
  PROVE  QueryRead
<1>1. PICK n, m : n = Len(text) /\ m = Len(Key)
  OBVIOUS
<1>2. n \in Nat /\ m \in Nat
  BY <1>1, CgiTextAssumption
<1> SUFFICES ASSUME NEW i \in 1..(n + 1), NEW j \in 0..n, NEW v, v = i + m + 1,
                    Parameter(text, i, j), KeyAt(text) # {}, i = Min(KeyAt(text)), v <= j + 1,
                    text[v - 1] = "="
             PROVE  QueryParseKeyValue(text) = {SubSeq(text, v, j)}
  BY <1>1 DEF QueryRead
<1>3. /\ j = n \/ text[j + 1] \in {"&", "#"}
      /\ \A k \in 1..j : text[k] # "#" /\ (k >= i => text[k] # "&")
  BY <1>1 DEF Parameter
<1>4. v \in Nat \ {0} /\ i <= v /\ ~(v > n + 1)
  BY <1>2
<1> DEFINE T == {k \in v..(n + 1) : k <= n => text[k] \in {"#", "&"}}
<1>5. T \subseteq Nat /\ j + 1 \in T
  BY <1>2, <1>3, <1>4
<1>6. Min(T) \in T /\ \A y \in T : Min(T) <= y
  BY <1>5, MinIs
<1>7. Min(T) = j + 1
  <2>1. PICK k \in v..(n + 1) : k = Min(T)
    BY <1>6
  <2>2. k <= j + 1
    BY <1>5, <1>6, <2>1
  <2>3. ASSUME k <= j PROVE FALSE
    <3>1. k \in 1..j /\ k >= i /\ k <= n
      BY <1>2, <1>4, <2>3
    <3>2. text[k] # "#" /\ text[k] # "&"
      BY <1>3, <3>1
    <3>3. text[k] \in {"#", "&"}
      BY <1>6, <2>1, <3>1
    <3> QED
      BY <3>2, <3>3
  <2> QED
    BY <1>2, <1>4, <2>1, <2>2, <2>3
<1>8. ValueEnd(text, v) = j + 1
  BY <1>1, <1>7 DEF ValueEnd
<1>9. QueryParseKeyValue(text) = {SubSeq(text, v, ValueEnd(text, v) - 1)}
  BY <1>1, <1>4 DEF QueryParseKeyValue
<1>10. j + 1 - 1 = j
  BY <1>2
<1> QED
  BY <1>8, <1>9, <1>10

LEMMA SuffixIs ==
  ASSUME text \in Seq(Chars)
  PROVE  SuffixRead
<1> DEFINE Plain(r) == r # <<>> /\ \A i \in 1..Len(r) : r[i] # "."
           Dots == {k \in 1..Len(text) : text[k] = "."}
           Behind == {SubSeq(text, i + 1, Len(text)) : i \in Dots}
<1>1. PICK n, k : n = Len(text) /\ k = Dot(text)
  OBVIOUS
<1>2. n \in Nat
  BY <1>1
<1>3. k \in {1} \cup Dots /\ \A i \in Dots : k >= i
  <2>1. {1} \cup Dots \subseteq 0..(n + 1) /\ n + 1 \in Nat
    BY <1>1, <1>2
  <2> QED
    BY <1>1, <2>1, MaxIs DEF Dot
<1>4. ASSUME NEW i \in 1..n, NEW r, r = SubSeq(text, i + 1, n)
      PROVE  Len(r) = n - i /\ \A l \in 1..(n - i) : r[l] = text[i + l]
  <2>1. i + 1 \in Nat \ {0} /\ n >= i + 1 - 1 /\ n <= Len(text)
    BY <1>1, <1>2
  <2>2. /\ Len(r) = n - (i + 1) + 1
        /\ \A l \in 1..(n - (i + 1) + 1) : r[l] = text[i + 1 + l - 1]
    BY <1>2, <1>4, <2>1, Piece
  <2>3. n - (i + 1) + 1 = n - i /\ \A l \in 1..(n - i) : i + 1 + l - 1 = i + l
    BY <1>2
  <2> QED
    BY <2>2, <2>3
<1>5. CASE k <= n /\ text[k] = "." /\ k < n
  <2>1. PICK r : r = SubSeq(text, k + 1, n)
    OBVIOUS
  <2>2. k \in 1..n /\ k \in Dots
    BY <1>1, <1>2, <1>3, <1>5
  <2>3. Len(r) = n - k /\ \A l \in 1..(n - k) : r[l] = text[k + l]
    BY <1>4, <2>1, <2>2
  <2>4. r \in Behind
    BY <1>1, <2>1, <2>2
  <2>5. r # <<>>
    BY <1>2, <1>5, <2>2, <2>3
  <2>6. ASSUME NEW l \in 1..Len(r) PROVE r[l] # "."
    <3>1. l \in 1..(n - k) /\ k + l \in 1..n /\ ~(k >= k + l)
      BY <1>2, <2>2, <2>3
    <3> QED
      BY <1>1, <1>3, <2>3, <3>1
  <2>7. GetFileSuffix(text) = r
    BY <1>1, <1>5, <2>1 DEF GetFileSuffix
  <2> QED
    BY <2>4, <2>5, <2>6, <2>7 DEF SuffixRead
<1>6. CASE ~(k <= n /\ text[k] = "." /\ k < n)
  <2>1. GetFileSuffix(text) = Null
    BY <1>1, <1>6 DEF GetFileSuffix
  <2>2. ASSUME NEW i \in Dots, NEW r, r = SubSeq(text, i + 1, n), Plain(r) PROVE FALSE
    <3>1. i \in 1..n /\ text[i] = "." /\ k >= i
      BY <1>1, <1>3, <2>2
    <3>2. k \in 1..n /\ text[k] = "."
      BY <1>1, <1>2, <1>3, <3>1
    <3>3. k = n
      BY <1>2, <1>6, <3>2
    <3>4. Len(r) = n - i /\ \A l \in 1..(n - i) : r[l] = text[i + l]
      BY <1>4, <2>2, <3>1
    <3>5. CASE i = n
      <4>1. r = <<>>
        BY <1>2, <2>2, <3>5, SubSeqEmpty
      <4> QED
        BY <2>2, <4>1
    <3>6. CASE i # n
      <4>1. n - i \in 1..Len(r) /\ n - i \in 1..(n - i) /\ i + (n - i) = n
        BY <1>2, <3>1, <3>4, <3>6
      <4>2. r[n - i] = "."
        BY <3>2, <3>3, <3>4, <4>1
      <4> QED
        BY <2>2, <4>1, <4>2
    <3> QED
      BY <3>5, <3>6
  <2> QED
    BY <1>1, <2>1, <2>2 DEF SuffixRead
<1> QED
  BY <1>5, <1>6

LEMMA TextType == TextSpec => [](text \in Seq(Chars))
<1>1. TextInit => text \in Seq(Chars)
  BY DEF TextInit
<1>2. text \in Seq(Chars) /\ [TextNext]_text => (text \in Seq(Chars))'
  BY DEF TextNext, Complete, Append1
<1> QED
  BY <1>1, <1>2, PTL DEF TextSpec

\* TextsRead: whatever the text, and whatever characters are spaces and make up
\* the key, trim_space, query_parse_key_value and get_file_suffix find the ends
\* of what they cut out.
THEOREM TextsAlwaysRead == TextSpec => []TextsRead
<1>1. text \in Seq(Chars) => TextsRead
  BY TrimmedIs, QueryIs, SuffixIs DEF TextsRead
<1> QED
  BY <1>1, TextType, PTL

-----------------------------------------------------------------------------
(* The md5 digest *)

\* Products of numbers.
LEMMA Product ==
  ASSUME NEW a \in Nat, NEW b \in Nat
  PROVE  a * b \in Nat
OBVIOUS

LEMMA Grows ==
  ASSUME NEW a \in Int, NEW b \in Int, NEW d \in Nat, a <= b
  PROVE  a * d <= b * d
<1>1. (b - a) * d >= 0
  OBVIOUS
<1>2. (b - a) * d = b * d - a * d
  OBVIOUS
<1>3. a * d \in Int /\ b * d \in Int
  OBVIOUS
<1> QED
  BY <1>1, <1>2, <1>3

\* Division with a rest, and that there is only one.
LEMMA Divided ==
  ASSUME NEW a \in Nat, NEW d \in Nat \ {0}
  PROVE  /\ a \div d \in Nat /\ a % d \in 0..(d - 1)
         /\ a = (a \div d) * d + (a % d)
OBVIOUS

LEMMA DividedOnce ==
  ASSUME NEW a \in Nat, NEW d \in Nat \ {0}, NEW q \in Nat, NEW r \in 0..(d - 1), a = q * d + r
  PROVE  a \div d = q /\ a % d = r
<1>1. PICK k, l : k = a \div d /\ l = a % d
  OBVIOUS
<1>2. k \in Nat /\ l \in 0..(d - 1) /\ a = k * d + l
  BY <1>1, Divided
<1>3. (q + 1) * d = q * d + d /\ (k + 1) * d = k * d + d
  BY <1>2
<1>4. q * d \in Nat /\ k * d \in Nat
  BY <1>2, Product
<1>5. ~(k >= q + 1)
  <2>1. k >= q + 1 => (q + 1) * d <= k * d
    BY <1>2, Grows
  <2> QED
    BY <1>2, <1>3, <1>4, <2>1
<1>6. ~(q >= k + 1)
  <2>1. q >= k + 1 => (k + 1) * d <= q * d
    BY <1>2, Grows
  <2> QED
    BY <1>2, <1>3, <1>4, <2>1
<1>7. k = q
  BY <1>2, <1>5, <1>6
<1> QED
  BY <1>1, <1>2, <1>4, <1>7

\* A word counts the bits of whole blocks.
LEMMA WordIs ==
  \E w \in Nat \ {0} : /\ Word = 8 * (Block * w) /\ Word \div 8 = Block * w
                       /\ Block * w \in Nat \ {0} /\ Block \in Nat \ {0} /\ Word \in Nat \ {0}
<1>1. Block \in Nat \ {0} /\ Word \in Nat \ {0} /\ Word % (8 * Block) = 0
  BY Md5Assumption
<1>2. PICK b : b = 8 * Block
  OBVIOUS
<1>3. b \in Nat \ {0} /\ Word % b = 0
  BY <1>1, <1>2
<1>4. PICK w : w = Word \div b
  OBVIOUS
<1>5. w \in Nat /\ Word = w * b + 0
  BY <1>1, <1>3, <1>4, Divided
<1>6. w # 0
  BY <1>1, <1>3, <1>5
<1>7. Word = 8 * (Block * w)
  BY <1>1, <1>2, <1>5
<1>8. Block * w \in Nat /\ Block * w # 0
  BY <1>1, <1>5, <1>7, Product
<1>9. Word = (Block * w) * 8 + 0
  BY <1>7, <1>8
<1>10. Word \div 8 = Block * w
  BY <1>1, <1>8, <1>9, DividedOnce
<1> QED
  BY <1>1, <1>5, <1>6, <1>7, <1>8, <1>10

LEMMA RestAdds ==
  ASSUME NEW a \in Nat, NEW b \in Nat, NEW d \in Nat \ {0}
  PROVE  ((a % d) + b) % d = (a + b) % d
<1>1. PICK q, r : q = a \div d /\ r = a % d
  OBVIOUS
<1>2. q \in Nat /\ r \in 0..(d - 1) /\ a = q * d + r
  BY <1>1, Divided
<1>3. PICK k, l : k = (r + b) \div d /\ l = (r + b) % d
  OBVIOUS
<1>4. r + b \in Nat
  BY <1>2
<1>5. k \in Nat /\ l \in 0..(d - 1) /\ r + b = k * d + l
  BY <1>3, <1>4, Divided
<1>6. q * d \in Nat /\ k * d \in Nat /\ (q + k) * d = q * d + k * d
  BY <1>2, <1>5, Product
<1>7. a + b \in Nat /\ q + k \in Nat /\ a + b = (q + k) * d + l
  BY <1>2, <1>5, <1>6
<1>8. (a + b) % d = l
  BY <1>5, <1>7, DividedOnce
<1> QED
  BY <1>1, <1>3, <1>8

\* index in MD5Update and MD5Final is the number of bytes that do not fill a
\* block, although the low word of the count may have wrapped around.
LEMMA IndexIs ==
  ASSUME NEW n \in Nat
  PROVE  (Bits(n)[1] \div 8) % Block = n % Block
<1>1. PICK w \in Nat \ {0} : /\ Word = 8 * (Block * w) /\ Block * w \in Nat \ {0}
                             /\ Block \in Nat \ {0} /\ Word \in Nat \ {0}
  BY WordIs
<1>2. PICK v : v = Block * w
  OBVIOUS
<1>3. v \in Nat \ {0} /\ Word = 8 * v
  BY <1>1, <1>2
<1>4. PICK q, r : q = (8 * n) \div Word /\ r = (8 * n) % Word
  OBVIOUS
<1>5. q \in Nat /\ r \in 0..(Word - 1) /\ 8 * n = q * Word + r
  <2>1. 8 * n \in Nat
    OBVIOUS
  <2> QED
    BY <1>1, <1>4, <2>1, Divided
<1>6. q * v \in Nat /\ q * Word = 8 * (q * v)
  BY <1>3, <1>5, Product
<1>7. PICK m : m = n - q * v
  OBVIOUS
<1>8. m \in Nat /\ r = m * 8 + 0 /\ n = m + q * v
  BY <1>3, <1>5, <1>6, <1>7
<1>9. r \div 8 = m
  <2>1. r \in Nat /\ 8 \in Nat \ {0} /\ 0 \in 0..(8 - 1)
    BY <1>8
  <2> QED
    BY <1>8, <2>1, DividedOnce
<1>10. PICK a, b : a = m \div Block /\ b = m % Block
  OBVIOUS
<1>11. a \in Nat /\ b \in 0..(Block - 1) /\ m = a * Block + b
  BY <1>1, <1>8, <1>10, Divided
<1>12. q * w \in Nat /\ q * v = (q * w) * Block /\ a * Block \in Nat
  BY <1>1, <1>2, <1>5, <1>11, Product
<1>13. PICK c : c = q * w
  OBVIOUS
<1>14. n = (a + c) * Block + b
  <2>1. (a + c) * Block = a * Block + c * Block
    BY <1>1, <1>11, <1>12, <1>13
  <2>2. PICK x, y : x = a * Block /\ y = c * Block
    OBVIOUS
  <2>3. q * v = y /\ x \in Nat /\ y \in Nat
    BY <1>6, <1>12, <1>13, <2>2
  <2>4. n = x + b + y /\ (a + c) * Block = x + y
    BY <1>8, <1>11, <2>1, <2>2, <2>3
  <2> QED
    BY <1>1, <1>11, <2>3, <2>4
<1>15. n % Block = b
  <2>1. a + c \in Nat
    BY <1>11, <1>12, <1>13
  <2> QED
    BY <1>1, <1>11, <1>14, <2>1, DividedOnce
<1> QED
  BY <1>4, <1>9, <1>10, <1>15 DEF Bits

\* The two words count the bits of all pieces together, with the carry.
LEMMA CountIs ==
  ASSUME NEW n \in Nat, NEW m \in Nat
  PROVE  Counted(Bits(n), m) = Bits(n + m)
<1>1. PICK w \in Nat \ {0} : /\ Word = 8 * (Block * w) /\ Word \div 8 = Block * w
                             /\ Block * w \in Nat \ {0} /\ Word \in Nat \ {0}
  BY WordIs
<1>2. PICK v : v = Block * w
  OBVIOUS
<1>3. v \in Nat \ {0} /\ Word = 8 * v /\ Word \div 8 = v
  BY <1>1, <1>2
<1>4. PICK q, r, k, l : /\ q = (8 * n) \div Word /\ r = (8 * n) % Word
                        /\ k = (8 * m) \div Word /\ l = (8 * m) % Word
  OBVIOUS
<1>5. /\ q \in Nat /\ r \in 0..(Word - 1) /\ 8 * n = q * Word + r
      /\ k \in Nat /\ l \in 0..(Word - 1) /\ 8 * m = k * Word + l
  <2>1. 8 * n \in Nat /\ 8 * m \in Nat
    OBVIOUS
  <2> QED
    BY <1>1, <1>4, <2>1, Divided
<1>6. m \div v = k
  <2>1. k * v \in Nat /\ k * Word = 8 * (k * v)
    BY <1>3, <1>5, Product
  <2>2. PICK x : x = m - k * v
    OBVIOUS
  <2>3. x \in 0..(v - 1) /\ m = k * v + x
    BY <1>3, <1>5, <2>1, <2>2
  <2> QED
    BY <1>3, <1>5, <2>3, DividedOnce
<1>7. PICK e \in {0, 1} : /\ r + l - e * Word \in 0..(Word - 1)
                          /\ e = 1 <=> r + l >= Word
  <2>1. CASE r + l >= Word
    <3>1. r + l - 1 * Word \in 0..(Word - 1)
      BY <1>1, <1>5, <2>1
    <3> QED
      BY <2>1, <3>1
  <2>2. CASE ~(r + l >= Word)
    <3>1. r + l - 0 * Word \in 0..(Word - 1)
      BY <1>1, <1>5, <2>2
    <3> QED
      BY <2>2, <3>1
  <2> QED
    BY <2>1, <2>2
<1>8. PICK low : low = r + l - e * Word
  OBVIOUS
<1>9. /\ low \in 0..(Word - 1) /\ r + l = e * Word + low
      /\ e = IF low < l THEN 1 ELSE 0
  <2>1. CASE e = 0
    <3>1. low = r + l
      BY <1>1, <1>5, <1>8, <2>1
    <3> QED
      BY <1>1, <1>5, <1>7, <1>8, <2>1, <3>1
  <2>2. CASE e = 1
    <3>1. low = r + l - Word
      BY <1>1, <1>5, <1>8, <2>2
    <3> QED
      BY <1>1, <1>5, <1>7, <1>8, <2>2, <3>1
  <2> QED
    BY <2>1, <2>2
<1>10. PICK x, y, z : x = q * Word /\ y = k * Word /\ z = e * Word
  OBVIOUS
<1>11. x \in Nat /\ y \in Nat /\ z \in Nat
  BY <1>1, <1>5, <1>7, <1>10, Product
<1>12. (r + 8 * m) % Word = low
  <2>1. (k + e) * Word = y + z
    BY <1>1, <1>5, <1>7, <1>10
  <2>2. r + 8 * m = (k + e) * Word + low
    BY <1>1, <1>5, <1>9, <1>10, <1>11, <2>1
  <2>3. k + e \in Nat /\ r + 8 * m \in Nat
    BY <1>5, <1>7
  <2> QED
    BY <1>1, <1>9, <2>2, <2>3, DividedOnce
<1>13. (8 * (n + m)) \div Word = q + (e + k) /\ (8 * (n + m)) % Word = low
  <2>1. (q + (e + k)) * Word = x + y + z
    BY <1>1, <1>5, <1>7, <1>10
  <2>2. 8 * (n + m) = (q + (e + k)) * Word + low
    BY <1>1, <1>5, <1>9, <1>10, <1>11, <2>1
  <2>3. PICK a, t : a = 8 * (n + m) /\ t = q + (e + k)
    OBVIOUS
  <2>4. t \in Nat /\ a \in Nat /\ a = t * Word + low
    BY <1>5, <1>7, <2>2, <2>3
  <2>5. a \div Word = t /\ a % Word = low
    BY <1>1, <1>9, <2>4, DividedOnce
  <2> QED
    BY <2>3, <2>5
<1>14. ((q % Word) + e + k) % Word = (q + (e + k)) % Word
  <2>1. PICK a : a = e + k
    OBVIOUS
  <2>2. PICK t : t = q % Word
    OBVIOUS
  <2>3. t \in 0..(Word - 1)
    BY <1>1, <1>5, <2>2, Divided
  <2>4. a \in Nat /\ e \in Nat
    BY <1>5, <1>7, <2>1
  <2>5. t + e + k = t + a
    BY <1>1, <1>5, <2>1, <2>3, <2>4
  <2>6. ((q % Word) + a) % Word = (q + a) % Word
    BY <1>1, <1>5, <2>4, RestAdds
  <2> QED
    BY <2>1, <2>2, <2>5, <2>6
<1>15. Counted(Bits(n), m) = <<low, ((q % Word) + e + k) % Word>>
  <2>1. Bits(n)[1] = r /\ Bits(n)[2] = q % Word
    BY <1>4 DEF Bits
  <2> QED
    BY <1>3, <1>4, <1>6, <1>9, <1>12, <2>1 DEF Counted
<1> QED
  BY <1>13, <1>14, <1>15 DEF Bits

\* What a context has taken of the bytes s: q whole blocks, and r bytes in the
\* buffer.
Keeps(S, q, r, ctx, s) ==
  /\ q \in Nat /\ r \in 0..(Block - 1)
  /\ s \in Seq(S) /\ Len(s) = q * Block + r
  /\ ctx.count = Bits(Len(s))
  /\ ctx.blocks \in Seq(Seq(S)) /\ Len(ctx.blocks) = q
  /\ \A t \in 1..q : /\ Len(ctx.blocks[t]) = Block
                     /\ \A j \in 1..Block : ctx.blocks[t][j] = s[(t - 1) * Block + j]
  /\ ctx.buffer \in [0..(Block - 1) -> S]
  /\ \A i \in 1..r : ctx.buffer[i - 1] = s[q * Block + i]

\* memcpy into the buffer.
LEMMA CopiedIs ==
  ASSUME NEW S, NEW b \in [0..(Block - 1) -> S], NEW a \in Nat, NEW bytes \in Seq(S),
         a + Len(bytes) <= Block
  PROVE  /\ Copied(b, a, bytes) \in [0..(Block - 1) -> S]
         /\ \A i \in 1..Len(bytes) : Copied(b, a, bytes)[a + i - 1] = bytes[i]
<1>0. PICK c : c = Copied(b, a, bytes)
  OBVIOUS
<1>1. Block \in Nat /\ Len(bytes) \in Nat
  BY Md5Assumption
<1>2. c = [i \in 0..(Block - 1) |->
             IF i \in a..(a + Len(bytes) - 1) THEN bytes[i - a + 1] ELSE b[i]]
  BY <1>0 DEF Copied
<1>3. ASSUME NEW i \in 0..(Block - 1)
      PROVE  (IF i \in a..(a + Len(bytes) - 1) THEN bytes[i - a + 1] ELSE b[i]) \in S
  <2>1. CASE i \in a..(a + Len(bytes) - 1)
    <3>1. i - a + 1 \in 1..Len(bytes)
      BY <1>1, <2>1
    <3> QED
      BY <2>1, <3>1
  <2>2. CASE i \notin a..(a + Len(bytes) - 1)
    BY <2>2
  <2> QED
    BY <2>1, <2>2
<1>4. c \in [0..(Block - 1) -> S]
  BY <1>2, <1>3
<1>5. ASSUME NEW i \in 1..Len(bytes) PROVE c[a + i - 1] = bytes[i]
  <2>1. /\ a + i - 1 \in 0..(Block - 1) /\ a + i - 1 \in a..(a + Len(bytes) - 1)
        /\ a + i - 1 - a + 1 = i
    BY <1>1
  <2> QED
    BY <1>2, <2>1
<1> QED
  BY <1>0, <1>4, <1>5

LEMMA CopiedBehind ==
  ASSUME NEW b, NEW a \in Nat, NEW bytes, Len(bytes) \in Nat, NEW i \in DOMAIN b, i \in Nat, i < a
  PROVE  Copied(b, a, bytes)[i] = b[i]
<1>1. i \notin a..(a + Len(bytes) - 1)
  OBVIOUS
<1> QED
  BY <1>1 DEF Copied

\* MD5Update finds in the count how much of the buffer is used.
LEMMA UsedIs ==
  ASSUME NEW S, NEW q, NEW r, NEW ctx, NEW s, Keeps(S, q, r, ctx, s)
  PROVE  (ctx.count[1] \div 8) % Block = r
<1>1. /\ q \in Nat /\ r \in 0..(Block - 1) /\ Len(s) = q * Block + r /\ Len(s) \in Nat
      /\ Block \in Nat \ {0} /\ ctx.count = Bits(Len(s))
  BY Md5Assumption DEF Keeps
<1>2. Len(s) % Block = r
  BY <1>1, DividedOnce
<1> QED
  BY <1>1, <1>2, IndexIs

\* A piece that does not fill the buffer.
LEMMA ShortKept ==
  ASSUME NEW S, NEW q, NEW r, NEW ctx, NEW s, Keeps(S, q, r, ctx, s),
         NEW input \in Seq(S), ~Whole(Len(input), Block - r)
  PROVE  Keeps(S, q, r + Len(input), Updated(ctx, input), s \o input)
<1>1. PICK n, u, z, ns : n = Len(input) /\ u = Updated(ctx, input) /\ z = s \o input /\ ns = Len(s)
  OBVIOUS
<1>2. /\ q \in Nat /\ r \in 0..(Block - 1) /\ s \in Seq(S) /\ ns = q * Block + r
      /\ ctx.count = Bits(ns) /\ ctx.blocks \in Seq(Seq(S)) /\ Len(ctx.blocks) = q
      /\ \A t \in 1..q : /\ Len(ctx.blocks[t]) = Block
                         /\ \A j \in 1..Block : ctx.blocks[t][j] = s[(t - 1) * Block + j]
      /\ ctx.buffer \in [0..(Block - 1) -> S]
      /\ \A i \in 1..r : ctx.buffer[i - 1] = s[q * Block + i]
  BY <1>1 DEF Keeps
<1>3. n \in Nat /\ ns \in Nat /\ Block \in Nat \ {0} /\ r + n <= Block - 1
  <2>1. s \in Seq(S) /\ r \in 0..(Block - 1)
    BY <1>2
  <2>2. n \in Nat /\ ns \in Nat /\ Block \in Nat \ {0}
    BY <1>1, <2>1, Md5Assumption
  <2>3. ~(n >= Block - r)
    BY <1>1 DEF Whole
  <2> QED
    BY <2>1, <2>2, <2>3
<1>4. /\ z \in Seq(S) /\ Len(z) = ns + n
      /\ \A i \in 1..ns : z[i] = s[i]
      /\ \A i \in 1..n : z[i + ns] = input[i]
  <2>1. s \in Seq(S)
    BY <1>2
  <2> QED
    BY <1>1, <2>1, Concat
<1>5. (ctx.count[1] \div 8) % Block = r
  BY UsedIs
<1>6. /\ u.count = Counted(Bits(ns), n) /\ u.blocks = ctx.blocks
      /\ u.buffer = Copied(ctx.buffer, r, input)
  BY <1>1, <1>2, <1>5 DEF Updated
<1>7. u.count = Bits(Len(z))
  BY <1>3, <1>4, <1>6, CountIs
<1>8. PICK b : b = q * Block
  OBVIOUS
<1>9. b \in Nat /\ ns = b + r
  BY <1>2, <1>3, <1>8, Product
<1>10. /\ u.buffer \in [0..(Block - 1) -> S]
       /\ \A i \in 0..(r - 1) : u.buffer[i] = ctx.buffer[i]
       /\ \A i \in 1..n : u.buffer[r + i - 1] = input[i]
  <2>1. r \in Nat /\ r + Len(input) <= Block
    BY <1>1, <1>2, <1>3
  <2>2. PICK c, d : c = u.buffer /\ d = ctx.buffer
    OBVIOUS
  <2>3. d \in [0..(Block - 1) -> S] /\ c = Copied(d, r, input)
    BY <1>2, <1>6, <2>2
  <2>4. d \in [0..(Block - 1) -> S]
    BY <2>3
  <2>5. /\ Copied(d, r, input) \in [0..(Block - 1) -> S]
        /\ \A i \in 0..(r - 1) : Copied(d, r, input)[i] = d[i]
        /\ \A i \in 1..Len(input) : Copied(d, r, input)[r + i - 1] = input[i]
    <3>1. Copied(d, r, input) \in [0..(Block - 1) -> S]
      BY <2>1, <2>4, CopiedIs
    <3>2. \A i \in 0..(r - 1) : Copied(d, r, input)[i] = d[i]
      <4>1. ASSUME NEW i \in 0..(r - 1) PROVE Copied(d, r, input)[i] = d[i]
        <5>1. i \in DOMAIN d /\ i \in Nat /\ i < r /\ Len(input) \in Nat /\ r \in Nat
          BY <1>2, <1>3, <2>1, <2>4
        <5> QED
          BY <5>1, CopiedBehind
      <4> QED
        BY <4>1
    <3>3. \A i \in 1..Len(input) : Copied(d, r, input)[r + i - 1] = input[i]
      BY <2>1, <2>4, CopiedIs
    <3> QED
      BY <3>1, <3>2, <3>3
  <2>6. /\ c \in [0..(Block - 1) -> S]
        /\ \A i \in 0..(r - 1) : c[i] = d[i]
        /\ \A i \in 1..n : c[r + i - 1] = input[i]
    BY <1>1, <2>3, <2>5
  <2> QED
    BY <2>2, <2>6
<1>11. ASSUME NEW i \in 1..(r + n) PROVE u.buffer[i - 1] = z[b + i]
  <2>1. CASE i <= r
    <3>1. i \in 1..r /\ i - 1 \in 0..(r - 1) /\ b + i \in 1..ns
      BY <1>2, <1>3, <1>9, <2>1
    <3> QED
      BY <1>2, <1>4, <1>8, <1>10, <3>1
  <2>2. CASE ~(i <= r)
    <3>1. i - r \in 1..n /\ r + (i - r) - 1 = i - 1 /\ (i - r) + ns = b + i
      BY <1>2, <1>3, <1>9, <2>2
    <3> QED
      BY <1>4, <1>10, <3>1
  <2> QED
    BY <2>1, <2>2
<1>12. ASSUME NEW t \in 1..q, NEW j \in 1..Block
       PROVE  z[(t - 1) * Block + j] = s[(t - 1) * Block + j]
  <2>1. PICK a : a = (t - 1) * Block
    OBVIOUS
  <2>2. a \in Nat /\ a + Block <= b
    <3>1. t * Block <= q * Block
      <4>1. t \in Int /\ q \in Int /\ t <= q /\ Block \in Nat
        BY <1>2, <1>3
      <4> QED
        BY <4>1, Grows
    <3>2. t * Block = a + Block
      BY <1>2, <1>3, <2>1
    <3>3. a \in Nat
      BY <1>2, <1>3, <2>1, Product
    <3> QED
      BY <1>3, <1>8, <1>9, <3>1, <3>2, <3>3
  <2>3. a + j \in 1..ns
    BY <1>2, <1>3, <1>9, <2>2
  <2> QED
    BY <1>4, <2>1, <2>3
<1>13. r + n \in 0..(Block - 1) /\ Len(z) = q * Block + (r + n)
  BY <1>2, <1>3, <1>4, <1>8, <1>9
<1>14. \A t \in 1..q : /\ Len(u.blocks[t]) = Block
                       /\ \A j \in 1..Block : u.blocks[t][j] = z[(t - 1) * Block + j]
  BY <1>2, <1>6, <1>12
<1>15. Keeps(S, q, r + n, u, z)
  BY <1>2, <1>4, <1>6, <1>7, <1>8, <1>10, <1>11, <1>13, <1>14 DEF Keeps
<1> QED
  BY <1>1, <1>15

\* The loop over k whole blocks of the input, from g on.
Loop(input, g, k) ==
  [t \in 1..k |-> SubSeq(input, g + (t - 1) * Block + 1, g + t * Block)]

LEMMA LoopIs ==
  ASSUME NEW S, NEW input \in Seq(S), NEW g \in Nat, NEW k \in Nat, g + k * Block <= Len(input)
  PROVE  /\ Loop(input, g, k) \in Seq(Seq(S)) /\ Len(Loop(input, g, k)) = k
         /\ \A t \in 1..k :
              /\ Len(Loop(input, g, k)[t]) = Block
              /\ \A j \in 1..Block :
                   Loop(input, g, k)[t][j] = input[g + (t - 1) * Block + j]
<1> DEFINE more == Loop(input, g, k)
<1>1. Block \in Nat \ {0}
  BY Md5Assumption
<1>2. ASSUME NEW t \in 1..k
      PROVE  /\ more[t] \in Seq(S) /\ Len(more[t]) = Block
             /\ \A j \in 1..Block : more[t][j] = input[g + (t - 1) * Block + j]
  <2>1. PICK a, c : a = (t - 1) * Block /\ c = t * Block
    OBVIOUS
  <2>2. a \in Nat /\ c = a + Block /\ c <= k * Block
    <3>1. t \in Int /\ k \in Int /\ t <= k /\ t - 1 \in Nat /\ Block \in Nat
      BY <1>1
    <3>2. t * Block <= k * Block
      BY <3>1, Grows
    <3>3. (t - 1) * Block \in Nat
      BY <3>1, Product
    <3>4. t * Block = (t - 1) * Block + Block
      BY <3>1
    <3> QED
      BY <2>1, <3>2, <3>3, <3>4
  <2>3. k * Block \in Nat
    BY <1>1, Product
  <2>4. PICK m, l : m = g + a + 1 /\ l = g + c
    OBVIOUS
  <2>5. m \in Nat \ {0} /\ l \in Nat /\ l >= m - 1 /\ l <= Len(input)
    BY <1>1, <2>2, <2>3, <2>4
  <2>b. l - m + 1 = Block
    BY <1>1, <2>2, <2>4
  <2>6. PICK x : x = more[t]
    OBVIOUS
  <2>7. x = SubSeq(input, m, l)
    BY <2>1, <2>4, <2>6 DEF Loop
  <2>8. x \in Seq(S) /\ Len(x) = l - m + 1 /\ \A i \in 1..(l - m + 1) : x[i] = input[m + i - 1]
    BY <2>5, <2>7, Piece
  <2>9. ASSUME NEW j \in 1..Block PROVE x[j] = input[g + a + j]
    <3>1. m + j - 1 = g + a + j
      BY <1>1, <2>2, <2>4
    <3>2. x[j] = input[m + j - 1]
      BY <2>b, <2>8
    <3> QED
      BY <3>1, <3>2
  <2> QED
    BY <2>1, <2>b, <2>6, <2>8, <2>9
<1>3. more \in [1..k -> Seq(S)]
  BY <1>2 DEF Loop
<1> HIDE DEF more
<1>4. more \in Seq(Seq(S)) /\ Len(more) = k
  BY <1>3
<1> QED
  BY <1>2, <1>4 DEF more

\* The blocks that are already there.
LEMMA Before ==
  ASSUME NEW q \in Nat, NEW t \in 1..q, NEW j \in 1..Block
  PROVE  (t - 1) * Block + j \in 1..(q * Block)
<1>1. t \in Int /\ q \in Int /\ t <= q /\ t - 1 \in Nat /\ Block \in Nat
  BY Md5Assumption
<1>2. t * Block <= q * Block
  BY <1>1, Grows
<1>3. (t - 1) * Block \in Nat
  BY <1>1, Product
<1>4. t * Block = (t - 1) * Block + Block
  BY <1>1
<1>5. q * Block \in Nat
  BY <1>1, Product
<1> QED
  BY <1>1, <1>2, <1>3, <1>4, <1>5

\* A piece that fills the buffer, and whole blocks that follow.
LEMMA LongKept ==
  ASSUME NEW S, NEW q, NEW r, NEW ctx, NEW s, Keeps(S, q, r, ctx, s),
         NEW input \in Seq(S), Whole(Len(input), Block - r)
  PROVE  \E k, e : Keeps(S, q + 1 + k, e, Updated(ctx, input), s \o input)
<1>1. PICK n, u, z, ns : n = Len(input) /\ u = Updated(ctx, input) /\ z = s \o input /\ ns = Len(s)
  OBVIOUS
<1>2. /\ q \in Nat /\ r \in 0..(Block - 1) /\ s \in Seq(S) /\ ns = q * Block + r
      /\ ctx.count = Bits(ns) /\ ctx.blocks \in Seq(Seq(S)) /\ Len(ctx.blocks) = q
      /\ \A t \in 1..q : /\ Len(ctx.blocks[t]) = Block
                         /\ \A j \in 1..Block : ctx.blocks[t][j] = s[(t - 1) * Block + j]
      /\ ctx.buffer \in [0..(Block - 1) -> S]
      /\ \A i \in 1..r : ctx.buffer[i - 1] = s[q * Block + i]
  BY <1>1 DEF Keeps
<1>t. q \in Nat /\ r \in 0..(Block - 1) /\ s \in Seq(S) /\ ns = q * Block + r
  BY <1>2
<1>s. s \in Seq(S)
  BY <1>2
<1>d. PICK d, old0 : d = ctx.buffer /\ old0 = ctx.blocks
  OBVIOUS
<1>f. /\ d \in [0..(Block - 1) -> S] /\ \A i \in 1..r : d[i - 1] = s[q * Block + i]
      /\ old0 \in Seq(Seq(S)) /\ Len(old0) = q
      /\ \A t \in 1..q : /\ Len(old0[t]) = Block
                         /\ \A j \in 1..Block : old0[t][j] = s[(t - 1) * Block + j]
  BY <1>2, <1>d
<1>g. PICK g : g = Block - r
  OBVIOUS
<1>3. n \in Nat /\ ns \in Nat /\ Block \in Nat \ {0} /\ g \in 1..Block /\ n >= g
  <2>1. n \in Nat /\ ns \in Nat /\ Block \in Nat \ {0}
    BY <1>1, <1>s, Md5Assumption
  <2>2. n >= g
    BY <1>1, <1>g DEF Whole
  <2> QED
    BY <1>t, <1>g, <2>1, <2>2
<1>4. /\ z \in Seq(S) /\ Len(z) = ns + n
      /\ \A i \in 1..ns : z[i] = s[i]
      /\ \A i \in 1..n : z[i + ns] = input[i]
  BY <1>1, <1>s, Concat
<1>5. (ctx.count[1] \div 8) % Block = r
  BY UsedIs
<1>6. PICK k, e : k = (n - g) \div Block /\ e = (n - g) % Block
  OBVIOUS
<1>7. k \in Nat /\ e \in 0..(Block - 1) /\ n - g = k * Block + e
  <2>1. n - g \in Nat
    BY <1>3
  <2> QED
    BY <1>3, <1>6, <2>1, Divided
<1>8. PICK b, kb : b = q * Block /\ kb = k * Block
  OBVIOUS
<1>9. b \in Nat /\ kb \in Nat /\ ns = b + r /\ n = g + kb + e /\ ns + g = b + Block
  <2>1. b \in Nat /\ kb \in Nat
    BY <1>t, <1>3, <1>7, <1>8, Product
  <2> QED
    BY <1>t, <1>g, <1>3, <1>7, <1>8, <2>1
<1>10. PICK h, cp, first, more, tail :
         /\ h = SubSeq(input, 1, g) /\ cp = Copied(d, r, h) /\ first = BlockOf(cp)
         /\ more = Loop(input, g, k)
         /\ tail = SubSeq(input, g + kb + 1, n)
  OBVIOUS
<1>11. /\ u.count = Counted(Bits(ns), n)
       /\ u.blocks = (old0 \o <<first>>) \o more
       /\ u.buffer = Copied(cp, 0, tail)
  BY <1>1, <1>2, <1>d, <1>g, <1>5, <1>6, <1>8, <1>10 DEF Updated, Loop
<1>12. h \in Seq(S) /\ Len(h) = g /\ \A i \in 1..g : h[i] = input[i]
  <2>1. 1 \in Nat \ {0} /\ g \in Nat /\ g >= 1 - 1 /\ g <= Len(input)
    BY <1>1, <1>3
  <2>2. h \in Seq(S) /\ Len(h) = g - 1 + 1 /\ \A i \in 1..(g - 1 + 1) : h[i] = input[1 + i - 1]
    BY <1>10, <2>1, Piece
  <2>3. g - 1 + 1 = g /\ \A i \in 1..g : 1 + i - 1 = i
    BY <1>3
  <2> QED
    BY <2>2, <2>3
<1>13. /\ cp \in [0..(Block - 1) -> S]
       /\ \A i \in 0..(r - 1) : cp[i] = d[i]
       /\ \A i \in 1..g : cp[r + i - 1] = h[i]
  <2>1. r \in Nat /\ r + Len(h) <= Block
    BY <1>t, <1>g, <1>3, <1>12
  <2>2. d \in [0..(Block - 1) -> S] /\ h \in Seq(S)
    BY <1>f, <1>12
  <2>3. /\ Copied(d, r, h) \in [0..(Block - 1) -> S]
        /\ \A i \in 1..Len(h) : Copied(d, r, h)[r + i - 1] = h[i]
    BY <2>1, <2>2, CopiedIs
  <2>4. ASSUME NEW i \in 0..(r - 1) PROVE Copied(d, r, h)[i] = d[i]
    <3>1. i \in DOMAIN d /\ i \in Nat /\ i < r /\ Len(h) \in Nat /\ r \in Nat
      BY <1>t, <1>3, <1>12, <2>1, <2>2
    <3> QED
      BY <3>1, CopiedBehind
  <2> QED
    BY <1>10, <1>12, <2>3, <2>4
<1>14. first \in Seq(S) /\ Len(first) = Block /\ \A j \in 1..Block : first[j] = z[b + j]
  <2>1. first = [j \in 1..Block |-> cp[j - 1]]
    BY <1>10 DEF BlockOf
  <2>2. first \in [1..Block -> S]
    <3>1. \A j \in 1..Block : j - 1 \in 0..(Block - 1)
      BY <1>3
    <3> QED
      BY <1>13, <2>1, <3>1
  <2>3. first \in Seq(S) /\ Len(first) = Block
    BY <1>3, <2>2
  <2>4. ASSUME NEW j \in 1..Block PROVE first[j] = z[b + j]
    <3>1. first[j] = cp[j - 1]
      BY <2>1
    <3>2. CASE j <= r
      <4>1. j \in 1..r /\ j - 1 \in 0..(r - 1) /\ b + j \in 1..ns
        BY <1>t, <1>3, <1>9, <3>2
      <4>2. cp[j - 1] = d[j - 1] /\ d[j - 1] = s[b + j] /\ z[b + j] = s[b + j]
        BY <1>f, <1>4, <1>8, <1>13, <4>1
      <4> QED
        BY <3>1, <4>2
    <3>3. CASE ~(j <= r)
      <4>1. j - r \in 1..g /\ j - r \in 1..n /\ r + (j - r) - 1 = j - 1 /\ (j - r) + ns = b + j
        BY <1>t, <1>g, <1>3, <1>9, <3>3
      <4>2. cp[r + (j - r) - 1] = h[j - r] /\ h[j - r] = input[j - r]
            /\ z[(j - r) + ns] = input[j - r]
        BY <1>4, <1>12, <1>13, <4>1
      <4> QED
        BY <3>1, <4>1, <4>2
    <3> QED
      BY <3>2, <3>3
  <2> QED
    BY <2>3, <2>4
<1>15. /\ more \in Seq(Seq(S)) /\ Len(more) = k
       /\ \A t \in 1..k :
            /\ Len(more[t]) = Block
            /\ \A j \in 1..Block : more[t][j] = input[g + (t - 1) * Block + j]
  <2>1. g \in Nat /\ g + k * Block <= Len(input)
    BY <1>1, <1>3, <1>7, <1>8, <1>9
  <2>2. k \in Nat
    BY <1>7
  <2>3. /\ Loop(input, g, k) \in Seq(Seq(S)) /\ Len(Loop(input, g, k)) = k
        /\ \A t \in 1..k :
             /\ Len(Loop(input, g, k)[t]) = Block
             /\ \A j \in 1..Block :
                  Loop(input, g, k)[t][j] = input[g + (t - 1) * Block + j]
    <3>1. Loop(input, g, k) \in Seq(Seq(S)) /\ Len(Loop(input, g, k)) = k
      BY <2>1, <2>2, LoopIs
    <3>2. \A t \in 1..k :
             /\ Len(Loop(input, g, k)[t]) = Block
             /\ \A j \in 1..Block :
                  Loop(input, g, k)[t][j] = input[g + (t - 1) * Block + j]
      BY <2>1, <2>2, LoopIs
    <3> QED
      BY <3>1, <3>2
  <2>4. more = Loop(input, g, k)
    BY <1>10
  <2> QED
    BY <2>3, <2>4
<1>16. PICK bs : bs = (old0 \o <<first>>) \o more
  OBVIOUS
<1>17. /\ bs \in Seq(Seq(S)) /\ Len(bs) = q + 1 + k
       /\ \A t \in 1..q : bs[t] = old0[t]
       /\ bs[q + 1] = first
       /\ \A t \in 1..k : bs[q + 1 + t] = more[t]
  <2>1. PICK a, o : a = <<first>> /\ o = old0 \o a
    OBVIOUS
  <2>2. a \in Seq(Seq(S)) /\ Len(a) = 1 /\ a[1] = first
    BY <1>14, <2>1
  <2>3. old0 \in Seq(Seq(S)) /\ Len(old0) = q /\ q \in Nat
    BY <1>t, <1>f
  <2>4. /\ o \in Seq(Seq(S)) /\ Len(o) = Len(old0) + Len(a)
        /\ \A i \in 1..Len(old0) : o[i] = old0[i]
        /\ \A i \in 1..Len(a) : o[i + Len(old0)] = a[i]
    BY <2>1, <2>2, <2>3, Concat
  <2>5. /\ Len(o) = q + 1 /\ \A t \in 1..q : o[t] = old0[t]
        /\ o[q + 1] = first
    <3>1. 1 \in 1..Len(a) /\ 1 + q = q + 1
      BY <2>2, <2>3
    <3> QED
      BY <2>2, <2>3, <2>4, <3>1
  <2>6. bs = o \o more /\ more \in Seq(Seq(S)) /\ Len(more) = k
    BY <1>15, <1>16, <2>1
  <2>7. /\ bs \in Seq(Seq(S)) /\ Len(bs) = Len(o) + Len(more)
        /\ \A i \in 1..Len(o) : bs[i] = o[i]
        /\ \A i \in 1..Len(more) : bs[i + Len(o)] = more[i]
    <3>1. o \in Seq(Seq(S)) /\ more \in Seq(Seq(S)) /\ bs = o \o more
      BY <2>4, <2>6
    <3> QED
      BY <3>1, Concat
  <2>8. /\ Len(bs) = q + 1 + k /\ \A i \in 1..(q + 1) : bs[i] = o[i]
        /\ \A t \in 1..k : bs[t + (q + 1)] = more[t]
    BY <2>5, <2>6, <2>7
  <2>9. \A t \in 1..q : t \in 1..(q + 1)
    BY <2>3
  <2>10. q + 1 \in 1..(q + 1) /\ \A t \in 1..k : t + (q + 1) = q + 1 + t
    BY <1>7, <2>3
  <2> QED
    BY <2>5, <2>7, <2>8, <2>9, <2>10
<1>18. /\ u.buffer \in [0..(Block - 1) -> S]
       /\ \A i \in 1..e : u.buffer[i - 1] = z[b + Block + kb + i]
  <2>1. g + kb + 1 \in Nat \ {0} /\ n >= g + kb + 1 - 1 /\ n <= Len(input) /\ n \in Nat
    BY <1>1, <1>3, <1>7, <1>9
  <2>2. PICK m : m = g + kb + 1
    OBVIOUS
  <2>a. tail = SubSeq(input, g + kb + 1, n)
    BY <1>10
  <2>b. tail = SubSeq(input, m, n)
    BY <2>a, <2>2, Zenon
  <2>3. m \in Nat \ {0} /\ n >= m - 1
    BY <1>3, <1>9, <2>1, <2>2
  <2>4. tail \in Seq(S) /\ Len(tail) = n - m + 1 /\ \A i \in 1..(n - m + 1) : tail[i] = input[m + i - 1]
    BY <2>b, <2>1, <2>3, Piece
  <2>5. n - m + 1 = e
    BY <1>3, <1>7, <1>9, <2>2
  <2>6. cp \in [0..(Block - 1) -> S] /\ 0 \in Nat /\ 0 + Len(tail) <= Block
    BY <1>3, <1>7, <1>13, <2>4, <2>5
  <2>7. tail \in Seq(S)
    BY <2>4
  <2>8. /\ Copied(cp, 0, tail) \in [0..(Block - 1) -> S]
        /\ \A i \in 1..Len(tail) : Copied(cp, 0, tail)[0 + i - 1] = tail[i]
    BY <2>6, <2>7, CopiedIs
  <2>9. ASSUME NEW i \in 1..e PROVE Copied(cp, 0, tail)[i - 1] = z[b + Block + kb + i]
    <3>1. i \in 1..Len(tail) /\ 0 + i - 1 = i - 1
      BY <1>7, <2>4, <2>5
    <3>2. Copied(cp, 0, tail)[i - 1] = tail[i]
      BY <2>8, <3>1
    <3>3. tail[i] = input[m + i - 1]
      BY <2>4, <2>5
    <3>4. m + i - 1 \in 1..n /\ m + i - 1 + ns = b + Block + kb + i
      BY <1>3, <1>7, <1>9, <2>2
    <3>5. z[m + i - 1 + ns] = input[m + i - 1]
      BY <1>4, <3>4
    <3> QED
      BY <3>2, <3>3, <3>4, <3>5
  <2> QED
    BY <1>11, <2>8, <2>9
<1>19. PICK q2 : q2 = q + 1 + k
  OBVIOUS
<1>20. q2 \in Nat /\ q2 * Block = b + Block + kb
  <2>1. (q + 1 + k) * Block = q * Block + Block + k * Block
    BY <1>t, <1>3, <1>7
  <2> QED
    BY <1>t, <1>7, <1>8, <1>19, <2>1
<1>21. Len(z) = q2 * Block + e
  <2>1. PICK y : y = q2 * Block
    OBVIOUS
  <2>2. y = b + Block + kb /\ Len(z) = ns + n
    BY <1>4, <1>20, <2>1
  <2>3. Len(z) = y + e
    BY <1>3, <1>7, <1>9, <2>2
  <2> QED
    BY <2>1, <2>3
<1>22. ASSUME NEW t \in 1..q2
       PROVE  /\ Len(bs[t]) = Block
              /\ \A j \in 1..Block : bs[t][j] = z[(t - 1) * Block + j]
  <2>1. CASE t \in 1..q
    <3>1. bs[t] = old0[t]
      BY <1>17, <2>1
    <3>2. ASSUME NEW j \in 1..Block PROVE bs[t][j] = z[(t - 1) * Block + j]
      <4>1. PICK x : x = (t - 1) * Block + j
        OBVIOUS
      <4>2. x \in 1..b
        BY <1>t, <1>8, <2>1, <4>1, Before
      <4>3. x \in 1..ns
        BY <1>t, <1>3, <1>9, <4>2
      <4>4. old0[t][j] = s[x]
        BY <1>f, <2>1, <4>1
      <4> QED
        BY <1>4, <3>1, <4>1, <4>3, <4>4
    <3> QED
      BY <1>f, <2>1, <3>1, <3>2
  <2>2. CASE t = q + 1
    <3>1. (t - 1) * Block = b
      BY <1>t, <1>8, <2>2
    <3> QED
      BY <1>14, <1>17, <2>2, <3>1
  <2>3. CASE t \in (q + 2)..q2
    <3>1. PICK i : i = t - (q + 1)
      OBVIOUS
    <3>2. i \in 1..k /\ t = q + 1 + i
      BY <1>t, <1>7, <1>19, <2>3, <3>1
    <3>3. bs[t] = more[i]
      BY <1>17, <3>2
    <3>4. PICK x : x = (i - 1) * Block
      OBVIOUS
    <3>5. x \in Nat /\ (t - 1) * Block = b + Block + x
      <4>1. i - 1 \in Nat
        BY <1>7, <3>2
      <4>2. x \in Nat
        BY <1>3, <3>4, <4>1, Product
      <4>3. (t - 1) = q + 1 + (i - 1)
        BY <1>t, <1>7, <3>2
      <4>4. (q + 1 + (i - 1)) * Block = q * Block + Block + (i - 1) * Block
        BY <1>t, <1>3, <4>1
      <4> QED
        BY <1>8, <3>4, <4>2, <4>3, <4>4
    <3>6. ASSUME NEW j \in 1..Block PROVE more[i][j] = z[(t - 1) * Block + j]
      <4>1. more[i][j] = input[g + x + j]
        BY <1>15, <3>2, <3>4
      <4>2. x + j <= kb
        <5>1. (i - 1) * Block + j \in 1..(k * Block)
          BY <1>7, <3>2, Before
        <5> QED
          BY <1>8, <3>4, <5>1
      <4>3. g + x + j \in 1..n /\ g + x + j + ns = b + Block + x + j
        BY <1>3, <1>7, <1>9, <3>5, <4>2
      <4>4. z[g + x + j + ns] = input[g + x + j]
        BY <1>4, <4>3
      <4> QED
        BY <3>5, <4>1, <4>3, <4>4
    <3> QED
      BY <1>15, <3>2, <3>3, <3>6
  <2> QED
    BY <1>t, <1>7, <1>19, <2>1, <2>2, <2>3
<1>23. u.count = Bits(Len(z))
  BY <1>3, <1>4, <1>11, CountIs
<1>24. u.blocks = bs /\ bs \in Seq(Seq(S)) /\ Len(bs) = q2
  BY <1>11, <1>16, <1>17, <1>19
<1>25. \A i \in 1..e : u.buffer[i - 1] = z[q2 * Block + i]
  BY <1>18, <1>20
<1>26. Keeps(S, q2, e, u, z)
  BY <1>4, <1>7, <1>18, <1>20, <1>21, <1>22, <1>23, <1>24, <1>25 DEF Keeps
<1> QED
  BY <1>1, <1>19, <1>26

\* MD5Update adds its input to what the context has taken.
LEMMA UpdateKeeps ==
  ASSUME NEW S, NEW q, NEW r, NEW ctx, NEW s, Keeps(S, q, r, ctx, s), NEW input \in Seq(S)
  PROVE  \E k, e : Keeps(S, k, e, Updated(ctx, input), s \o input)
BY ShortKept, LongKept

\* The blocks are those of the bytes taken, and the buffer holds the rest.
LEMMA KeptBlocks ==
  ASSUME NEW S, NEW q, NEW r, NEW ctx, NEW s, Keeps(S, q, r, ctx, s)
  PROVE  ctx.blocks = InBlocks(s) /\ Len(s) % Block = r
<1>1. PICK bs, l : bs = ctx.blocks /\ l = Len(s)
  OBVIOUS
<1>2. /\ q \in Nat /\ r \in 0..(Block - 1) /\ s \in Seq(S) /\ l = q * Block + r
      /\ bs \in Seq(Seq(S)) /\ Len(bs) = q
      /\ \A t \in 1..q : /\ Len(bs[t]) = Block
                         /\ \A j \in 1..Block : bs[t][j] = s[(t - 1) * Block + j]
  BY <1>1 DEF Keeps
<1>3. Block \in Nat \ {0} /\ s \in Seq(S)
  BY <1>2, Md5Assumption
<1>4. l \in Nat /\ q * Block \in Nat
  <2>1. q \in Nat
    BY <1>2
  <2> QED
    BY <1>1, <1>3, <2>1, Product
<1>5. l \div Block = q /\ l % Block = r
  <2>1. q \in Nat /\ r \in 0..(Block - 1) /\ l = q * Block + r
    BY <1>2
  <2> QED
    BY <1>3, <1>4, <2>1, DividedOnce
<1>6. PICK ib : ib = [t \in 1..q |-> SubSeq(s, (t - 1) * Block + 1, t * Block)]
  OBVIOUS
<1>7. InBlocks(s) = ib
  BY <1>1, <1>5, <1>6 DEF InBlocks
<1>8. ASSUME NEW t \in 1..q PROVE ib[t] = bs[t]
  <2>1. PICK a, c : a = (t - 1) * Block /\ c = t * Block
    OBVIOUS
  <2>2. a \in Nat /\ c = a + Block /\ c <= q * Block
    <3>1. t \in Int /\ q \in Int /\ t <= q /\ t - 1 \in Nat /\ Block \in Nat
      BY <1>2, <1>3
    <3>2. t * Block <= q * Block
      BY <3>1, Grows
    <3>3. (t - 1) * Block \in Nat
      BY <3>1, Product
    <3>4. t * Block = (t - 1) * Block + Block
      BY <3>1
    <3> QED
      BY <2>1, <3>2, <3>3, <3>4
  <2>3. PICK m, x : m = a + 1 /\ x = ib[t]
    OBVIOUS
  <2>4. m \in Nat \ {0} /\ c \in Nat /\ c >= m - 1 /\ c <= Len(s)
    <3>1. q * Block <= l
      BY <1>2, <1>3, <1>4
    <3> QED
      BY <1>1, <1>3, <1>4, <2>2, <2>3, <3>1
  <2>5. x = SubSeq(s, m, c)
    BY <1>6, <2>1, <2>3
  <2>6. x \in Seq(S) /\ Len(x) = c - m + 1 /\ \A i \in 1..(c - m + 1) : x[i] = s[m + i - 1]
    BY <1>3, <2>4, <2>5, Piece
  <2>7. c - m + 1 = Block
    BY <1>3, <2>2, <2>3
  <2>8. PICK y : y = bs[t]
    OBVIOUS
  <2>9. y \in Seq(S) /\ Len(y) = Block /\ \A j \in 1..Block : y[j] = s[a + j]
    <3>1. bs \in Seq(Seq(S)) /\ t \in 1..Len(bs)
      BY <1>2
    <3>2. y \in Seq(S)
      BY <2>8, <3>1
    <3>3. Len(bs[t]) = Block /\ \A j \in 1..Block : bs[t][j] = s[(t - 1) * Block + j]
      BY <1>2
    <3> QED
      BY <2>1, <2>8, <3>2, <3>3
  <2>10. ASSUME NEW j \in 1..Block PROVE x[j] = y[j]
    <3>1. m + j - 1 = a + j
      BY <1>3, <2>2, <2>3
    <3> QED
      BY <2>6, <2>7, <2>9, <3>1
  <2>11. x = y
    <3>1. x \in Seq(S) /\ y \in Seq(S) /\ Len(x) = Len(y) /\ \A j \in 1..Len(x) : x[j] = y[j]
      BY <2>6, <2>7, <2>9, <2>10
    <3> QED
      BY <3>1, SeqEqual
  <2> QED
    BY <2>3, <2>8, <2>11
<1>9. ib = bs
  <2>1. bs = [t \in 1..q |-> bs[t]]
    BY <1>2
  <2>2. ib = [t \in 1..q |-> ib[t]]
    BY <1>6
  <2> QED
    BY <1>8, <2>1, <2>2
<1> QED
  BY <1>1, <1>5, <1>7, <1>9

\* The bytes of a message, of the padding and of the length.
Octets == Int \cup {LengthByte(Bits(n), i) : n \in Nat, i \in Nat}

\* The inductive invariant of Md5Spec.
Md5Inv ==
  /\ taken \in Nat
  /\ IF finished THEN DigestRight ELSE \E q, r : Keeps(Octets, q, r, Context, Message)

LEMMA Md5Starts == Md5Init => Md5Inv
<1> SUFFICES ASSUME Md5Init PROVE Md5Inv
  OBVIOUS
<1>1. /\ count = <<0, 0>> /\ buffer = [i \in 0..(Block - 1) |-> 0] /\ blocks = <<>>
      /\ taken = 0 /\ finished = FALSE
  BY DEF Md5Init, PadByte
<1>2. Block \in Nat \ {0} /\ Word \in Nat \ {0}
  BY Md5Assumption
<1>3. Message \in Seq(Octets) /\ Len(Message) = 0
  BY <1>1 DEF Message
<1>4. Bits(0) = <<0, 0>>
  <2>1. 0 = 0 * Word + 0 /\ 0 \in 0..(Word - 1)
    BY <1>2
  <2>2. 0 % Word = 0 /\ 0 \div Word = 0
    BY <1>2, <2>1, DividedOnce
  <2>3. 8 * 0 = 0
    OBVIOUS
  <2> QED
    BY <2>2, <2>3 DEF Bits
<1>5. buffer \in [0..(Block - 1) -> Octets]
  BY <1>1 DEF Octets
<1>6. /\ Context.count = <<0, 0>> /\ Context.buffer = buffer /\ Context.blocks = <<>>
  BY <1>1 DEF Context
<1>7. <<>> \in Seq(Seq(Octets)) /\ Len(<<>>) = 0 /\ 0 * Block + 0 = 0 /\ 0 \in 0..(Block - 1)
  BY <1>2
<1>8. Keeps(Octets, 0, 0, Context, Message)
  BY <1>3, <1>4, <1>5, <1>6, <1>7 DEF Keeps
<1> QED
  BY <1>1, <1>8 DEF Md5Inv

LEMMA UpdateStep ==
  ASSUME Md5Inv, NEW n \in 0..MaxBytes, Update(n)
  PROVE  Md5Inv'
<1>1. /\ finished = FALSE \/ ~finished
      /\ finished' = finished /\ taken' = taken + n
      /\ Becomes(Updated(Context, [i \in 1..n |-> taken + i]))
  BY DEF Update
<1>2. PICK q, r : Keeps(Octets, q, r, Context, Message)
  BY DEF Md5Inv, Update
<1>3. PICK ctx, s, input, u : /\ ctx = Context /\ s = Message
                              /\ input = [i \in 1..n |-> taken + i] /\ u = Updated(ctx, input)
  OBVIOUS
<1>4. taken \in Nat /\ n \in Nat
  BY Md5Assumption DEF Md5Inv
<1>5. input \in Seq(Octets) /\ Len(input) = n /\ \A i \in 1..n : input[i] = taken + i
  <2>1. input \in [1..n -> Octets]
    BY <1>3, <1>4 DEF Octets
  <2>2. input \in Seq(Octets) /\ Len(input) = n
    BY <1>4, <2>1
  <2>3. \A i \in 1..n : input[i] = taken + i
    BY <1>3
  <2> QED
    BY <2>2, <2>3
<1>6. s \in Seq(Octets) /\ Len(s) = taken /\ \A i \in 1..taken : s[i] = i
  <2>1. s = [i \in 1..taken |-> i]
    BY <1>3 DEF Message
  <2>2. s \in [1..taken -> Octets]
    BY <1>4, <2>1 DEF Octets
  <2> QED
    BY <1>4, <2>1, <2>2
<1>7. PICK k, e : Keeps(Octets, k, e, u, s \o input)
  <2>1. Keeps(Octets, q, r, ctx, s)
    BY <1>2, <1>3
  <2> QED
    BY <1>3, <1>5, <2>1, UpdateKeeps
<1>8. Message' = s \o input
  <2>1. PICK m, z : m = Message' /\ z = s \o input
    OBVIOUS
  <2>2. m = [i \in 1..(taken + n) |-> i]
    BY <1>1, <2>1 DEF Message
  <2>3. m \in [1..(taken + n) -> Octets]
    BY <1>4, <2>2 DEF Octets
  <2>4. m \in Seq(Octets) /\ Len(m) = taken + n /\ \A i \in 1..(taken + n) : m[i] = i
    BY <1>4, <2>2, <2>3
  <2>5. /\ z \in Seq(Octets) /\ Len(z) = Len(s) + Len(input)
        /\ \A i \in 1..Len(s) : z[i] = s[i]
        /\ \A i \in 1..Len(input) : z[i + Len(s)] = input[i]
    <3>1. s \in Seq(Octets) /\ input \in Seq(Octets) /\ z = s \o input
      BY <1>5, <1>6, <2>1
    <3> QED
      BY <3>1, Concat
  <2>6. ASSUME NEW i \in 1..(taken + n) PROVE z[i] = i
    <3>1. CASE i <= taken
      <4>1. i \in 1..taken
        BY <1>4, <3>1
      <4> QED
        BY <1>6, <2>5, <4>1
    <3>2. CASE ~(i <= taken)
      <4>1. i - taken \in 1..n /\ i - taken + taken = i /\ taken + (i - taken) = i
        BY <1>4, <3>2
      <4>2. z[i - taken + taken] = input[i - taken] /\ input[i - taken] = taken + (i - taken)
        BY <1>5, <1>6, <2>5, <4>1
      <4> QED
        BY <4>1, <4>2
    <3> QED
      BY <3>1, <3>2
  <2>7. Len(z) = Len(m) /\ \A i \in 1..Len(m) : m[i] = z[i]
    BY <1>5, <1>6, <2>4, <2>5, <2>6
  <2>8. m = z
    BY <2>4, <2>5, <2>7, SeqEqual
  <2> QED
    BY <2>1, <2>8
<1>9. Context' = u
  <2>1. count' = u.count /\ buffer' = u.buffer /\ blocks' = u.blocks
    BY <1>1, <1>3 DEF Becomes
  <2>2. u = [count |-> u.count, buffer |-> u.buffer, blocks |-> u.blocks]
    BY <1>3 DEF Updated
  <2> QED
    BY <2>1, <2>2 DEF Context
<1>10. ~finished' /\ taken' \in Nat
  BY <1>1, <1>4 DEF Update
<1>11. Keeps(Octets, k, e, Context, Message)'
  BY <1>7, <1>8, <1>9 DEF Keeps
<1> QED
  BY <1>10, <1>11 DEF Md5Inv

\* The padding fills the last block, or the one after it, up to the length.
LEMMA PadFills ==
  ASSUME NEW q \in Nat, NEW r \in 0..(Block - 1)
  PROVE  /\ PadLen(r) \in 1..Block
         /\ \E k \in {q + 1, q + 2} : q * Block + r + PadLen(r) + Length = k * Block + 0
<1>1. Block \in Nat /\ Length \in 1..(Block - 1)
  BY Md5Assumption
<1>2. PICK b : b = q * Block
  OBVIOUS
<1>3. b \in Nat /\ (q + 1) * Block = b + Block /\ (q + 2) * Block = b + 2 * Block
  BY <1>1, <1>2, Product
<1>4. PICK l : l = PadLen(r)
  OBVIOUS
<1>5. CASE r < Block - Length
  <2>1. l = Block - Length - r
    BY <1>4, <1>5 DEF PadLen
  <2>2. l \in 1..Block /\ b + r + l + Length = b + Block + 0
    BY <1>1, <1>3, <1>5, <2>1
  <2> QED
    BY <1>2, <1>3, <1>4, <2>2
<1>6. CASE ~(r < Block - Length)
  <2>1. l = 2 * Block - Length - r
    BY <1>4, <1>6 DEF PadLen
  <2>2. l \in 1..Block /\ b + r + l + Length = b + 2 * Block + 0
    BY <1>1, <1>3, <1>6, <2>1
  <2> QED
    BY <1>2, <1>3, <1>4, <2>2
<1> QED
  BY <1>5, <1>6

LEMMA FinalStep ==
  ASSUME Md5Inv, Final
  PROVE  Md5Inv'
<1>1. ~finished /\ finished' = TRUE /\ taken' = taken
  BY DEF Final
<1>2. PICK q, r : Keeps(Octets, q, r, Context, Message)
  BY <1>1 DEF Md5Inv
<1>3. PICK ctx, s : ctx = Context /\ s = Message
  OBVIOUS
<1>4. Keeps(Octets, q, r, ctx, s)
  BY <1>2, <1>3
<1>5. taken \in Nat /\ Block \in Nat \ {0} /\ Length \in 1..(Block - 1)
  BY Md5Assumption DEF Md5Inv
<1>6. s \in Seq(Octets) /\ Len(s) = taken
  <2>1. s = [i \in 1..taken |-> i]
    BY <1>3 DEF Message
  <2>2. s \in [1..taken -> Octets]
    BY <1>5, <2>1 DEF Octets
  <2> QED
    BY <1>5, <2>2
<1>7. q \in Nat /\ r \in 0..(Block - 1) /\ taken = q * Block + r /\ count = Bits(taken)
  BY <1>3, <1>4, <1>6 DEF Keeps, Context
<1>8. (count[1] \div 8) % Block = r
  <2>1. (ctx.count[1] \div 8) % Block = r
    BY <1>4, UsedIs
  <2> QED
    BY <1>3, <2>1 DEF Context
<1>9. PICK l, padding, bits, u, v :
        /\ l = PadLen(r) /\ padding = Padded(l)
        /\ bits = [i \in 1..Length |-> LengthByte(Bits(taken), i)]
        /\ u = Updated(ctx, padding) /\ v = Updated(u, bits)
  OBVIOUS
<1>10. PICK k \in {q + 1, q + 2} : l \in 1..Block /\ q * Block + r + l + Length = k * Block + 0
  <2>1. q \in Nat /\ r \in 0..(Block - 1) /\ l = PadLen(r)
    BY <1>7, <1>9
  <2> QED
    BY <2>1, PadFills
<1>11. padding \in Seq(Octets) /\ Len(padding) = l
  <2>1. padding = [i \in 1..l |-> IF i = 1 THEN -1 ELSE 0]
    BY <1>9 DEF Padded, PadByte
  <2>2. padding \in [1..l -> Octets]
    BY <2>1 DEF Octets
  <2>3. l \in Nat
    BY <1>5, <1>10
  <2> QED
    BY <2>2, <2>3
<1>12. bits \in Seq(Octets) /\ Len(bits) = Length
  <2>1. \A i \in 1..Length : LengthByte(Bits(taken), i) \in Octets
    BY <1>5 DEF Octets
  <2>2. bits \in [1..Length -> Octets]
    BY <1>9, <2>1
  <2>3. Length \in Nat
    BY <1>5
  <2> QED
    BY <2>2, <2>3
<1>13. PICK m, z : m = s \o padding /\ z = m \o bits
  OBVIOUS
<1>14. m \in Seq(Octets) /\ Len(m) = taken + l
  <2>1. s \in Seq(Octets) /\ padding \in Seq(Octets) /\ m = s \o padding
    BY <1>6, <1>11, <1>13
  <2>2. m \in Seq(Octets) /\ Len(m) = Len(s) + Len(padding)
    BY <2>1, Concat
  <2> QED
    BY <1>6, <1>11, <2>2
<1>15. z \in Seq(Octets) /\ Len(z) = taken + l + Length
  <2>1. m \in Seq(Octets) /\ bits \in Seq(Octets) /\ z = m \o bits
    BY <1>12, <1>13, <1>14
  <2>2. z \in Seq(Octets) /\ Len(z) = Len(m) + Len(bits)
    BY <2>1, Concat
  <2> QED
    BY <1>12, <1>14, <2>2
<1>16. \E q2, r2 : Keeps(Octets, q2, r2, u, m)
  <2>1. Keeps(Octets, q, r, ctx, s) /\ padding \in Seq(Octets)
    BY <1>4, <1>11
  <2>2. \E q2, r2 : Keeps(Octets, q2, r2, Updated(ctx, padding), s \o padding)
    BY <2>1, UpdateKeeps
  <2> QED
    BY <1>9, <1>13, <2>2
<1>17. PICK q3, r3 : Keeps(Octets, q3, r3, v, z)
  <2>1. PICK q2, r2 : Keeps(Octets, q2, r2, u, m)
    BY <1>16
  <2>2. bits \in Seq(Octets)
    BY <1>12
  <2>3. \E q3, r3 : Keeps(Octets, q3, r3, Updated(u, bits), m \o bits)
    BY <2>1, <2>2, UpdateKeeps
  <2> QED
    BY <1>9, <1>13, <2>3
<1>18. blocks' = v.blocks
  BY <1>3, <1>7, <1>8, <1>9 DEF Final, Becomes
<1>19. blocks' = InBlocks(z)
  BY <1>17, <1>18, KeptBlocks
<1>20. Len(blocks') = k
  <2>1. PICK w : w = taken + l + Length
    OBVIOUS
  <2>2. w \in Nat /\ w = k * Block + 0 /\ k \in Nat /\ 0 \in 0..(Block - 1)
    BY <1>5, <1>7, <1>10, <2>1
  <2>3. w \div Block = k
    BY <1>5, <2>2, DividedOnce
  <2>4. q3 \in Nat /\ r3 \in 0..(Block - 1) /\ w = q3 * Block + r3 /\ Len(v.blocks) = q3
    BY <1>15, <1>17, <2>1 DEF Keeps
  <2>5. w \div Block = q3
    BY <1>5, <2>2, <2>4, DividedOnce
  <2> QED
    BY <1>18, <2>3, <2>4, <2>5
<1>21. k * Block - taken - 1 - Length = l - 1
  <2>1. PICK w : w = k * Block
    OBVIOUS
  <2>2. w = taken + l + Length
    BY <1>5, <1>7, <1>10, <2>1
  <2> QED
    BY <1>5, <1>10, <2>1, <2>2
<1>22. 1 + (l - 1) = l /\ l - 1 \in 0..(Block - 1)
  BY <1>5, <1>10
<1>23. Message' = s
  BY <1>1, <1>3 DEF Message
<1>24. DigestRight'
  BY <1>1, <1>9, <1>13, <1>19, <1>20, <1>21, <1>22, <1>23 DEF DigestRight, InBlocks
<1> QED
  BY <1>1, <1>5, <1>24 DEF Md5Inv

\* Md5Inv says what DigestStandard says.
LEMMA Md5Means == Md5Inv => DigestStandard
<1> SUFFICES ASSUME Md5Inv, ~finished PROVE MessageKept
  BY DEF Md5Inv, DigestStandard
<1>1. PICK q, r : Keeps(Octets, q, r, Context, Message)
  BY DEF Md5Inv
<1>2. PICK ctx, s : ctx = Context /\ s = Message
  OBVIOUS
<1>3. ctx.blocks = blocks /\ ctx.buffer = buffer
  BY <1>2 DEF Context
<1>4. Len(s) = taken
  <2>1. s = [i \in 1..taken |-> i] /\ taken \in Nat
    BY <1>2 DEF Message, Md5Inv
  <2> QED
    BY <2>1
<1>5. Keeps(Octets, q, r, ctx, s)
  BY <1>1, <1>2
<1>6. blocks = InBlocks(s) /\ taken % Block = r
  BY <1>3, <1>4, <1>5, KeptBlocks
<1>7. \A i \in 1..r : buffer[i - 1] = s[q * Block + i]
  BY <1>3, <1>5 DEF Keeps
<1>8. Len(blocks) = q
  BY <1>3, <1>5 DEF Keeps
<1> QED
  BY <1>2, <1>6, <1>7, <1>8 DEF MessageKept

LEMMA Md5Step == Md5Inv /\ [Md5Next]_mvars => Md5Inv'
<1> SUFFICES ASSUME Md5Inv, [Md5Next]_mvars PROVE Md5Inv'
  OBVIOUS
<1>1. CASE Final
  BY <1>1, FinalStep
<1>2. CASE \E n \in 0..MaxBytes : Update(n)
  BY <1>2, UpdateStep
<1>3. CASE Digested \/ UNCHANGED mvars
  <2>1. /\ count' = count /\ buffer' = buffer /\ blocks' = blocks /\ taken' = taken
        /\ finished' = finished
    BY <1>3 DEF Digested, mvars
  <2>2. Context' = Context /\ Message' = Message
    BY <2>1 DEF Context, Message
  <2>3. DigestRight => DigestRight'
    BY <2>1, <2>2 DEF DigestRight, InBlocks
  <2>4. \A q, r : Keeps(Octets, q, r, Context, Message) => Keeps(Octets, q, r, Context, Message)'
    BY <2>2 DEF Keeps
  <2> QED
    BY <2>1, <2>3, <2>4 DEF Md5Inv
<1> QED
  BY <1>1, <1>2, <1>3 DEF Md5Next

\* DigestStandard: whatever the length of a message and the pieces it comes in,
\* and whatever the sizes of a block, of the length and of a word, MD5Update
\* loses, doubles or misplaces no byte, and the blocks that MD5Final completes
\* are those of the padded message of RFC 1321, also where the words of the
\* count overflow.
THEOREM DigestsStandard == Md5Spec => []DigestStandard
BY Md5Starts, Md5Step, Md5Means, PTL DEF Md5Spec

-----------------------------------------------------------------------------
(* base64 *)

\* One turn of base64_decode.
LEMMA DecodeIs ==
  ASSUME NEW h, h[1] \in 0..63, h[2] \in 0..63
  PROVE  LET b1 == ((h[1] * 4) % 256) + ((h[2] \div 16) % 4)
             b2 == ((h[2] * 16) % 256) + ((h[3] \div 4) % 16)
             b3 == ((h[3] * 64) % 256) + (h[4] % 64) IN
         /\ h[3] = 64 => DecodeGroup(h) = <<b1>>
         /\ h[3] \in 0..63 /\ h[4] = 64 => DecodeGroup(h) = <<b1, b2>>
         /\ h[3] \in 0..63 /\ h[4] \in 0..63 => DecodeGroup(h) = <<b1, b2, b3>>
<1>0. PICK b1, b2, b3 : /\ b1 = ((h[1] * 4) % 256) + ((h[2] \div 16) % 4)
                        /\ b2 = ((h[2] * 16) % 256) + ((h[3] \div 4) % 16)
                        /\ b3 = ((h[3] * 64) % 256) + (h[4] % 64)
  OBVIOUS
<1>1. PICK temp : temp = [i \in 1..4 |-> IF h[i] \in 0..63 THEN h[i] ELSE 255]
  OBVIOUS
<1>2. /\ temp[1] = h[1] /\ temp[2] = h[2]
      /\ h[3] \in 0..63 => temp[3] = h[3] /\ h[3] # 64
      /\ h[4] \in 0..63 => temp[4] = h[4] /\ h[4] # 64
  BY <1>1
<1>3. PICK c2, c3 : /\ c2 = ((temp[2] * 16) % 256) + ((temp[3] \div 4) % 16)
                    /\ c3 = ((temp[3] * 64) % 256) + (temp[4] % 64)
  OBVIOUS
<1>4. b1 = ((temp[1] * 4) % 256) + ((temp[2] \div 16) % 4)
  BY <1>0, <1>2
<1>5. DecodeGroup(h)
        = IF h[3] = 64 THEN <<b1>> ELSE IF h[4] = 64 THEN <<b1, c2>> ELSE <<b1, c2, c3>>
  <2>1. DecodeGroup(h)
          = LET d1 == ((temp[1] * 4) % 256) + ((temp[2] \div 16) % 4)
                d2 == ((temp[2] * 16) % 256) + ((temp[3] \div 4) % 16)
                d3 == ((temp[3] * 64) % 256) + (temp[4] % 64)
            IN  IF h[3] = 64 THEN <<d1>> ELSE IF h[4] = 64 THEN <<d1, d2>> ELSE <<d1, d2, d3>>
    BY <1>1 DEF DecodeGroup, Pad
  <2> QED
    BY <1>3, <1>4, <2>1
<1>6. h[3] \in 0..63 => c2 = b2 /\ h[3] # 64
  BY <1>0, <1>2, <1>3
<1>7. h[3] \in 0..63 /\ h[4] \in 0..63 => c3 = b3 /\ h[4] # 64
  BY <1>0, <1>2, <1>3
<1> QED
  BY <1>0, <1>5, <1>6, <1>7

\* The bits of a byte, put together from two sextets.
LEMMA FirstByte ==
  ASSUME NEW a \in 0..255, NEW e \in 0..15
  PROVE  (((a \div 4) * 4) % 256) + (((16 * (a % 4) + e) \div 16) % 4) = a
<1>1. PICK q, r : q = a \div 4 /\ r = a % 4
  OBVIOUS
<1>2. q \in 0..63 /\ r \in 0..3 /\ a = q * 4 + r
  BY <1>1
<1>3. (q * 4) % 256 = q * 4 /\ (16 * r + e) \div 16 = r /\ r % 4 = r
  BY <1>2
<1> QED
  BY <1>1, <1>2, <1>3

LEMMA SecondByte ==
  ASSUME NEW a \in 0..255, NEW b \in 0..255, NEW e \in 0..3
  PROVE  (((16 * (a % 4) + (b \div 16)) * 16) % 256) + (((4 * (b % 16) + e) \div 4) % 16) = b
<1>1. PICK q, r, l : q = b \div 16 /\ r = b % 16 /\ l = a % 4
  OBVIOUS
<1>2. q \in 0..15 /\ r \in 0..15 /\ b = q * 16 + r /\ l \in 0..3
  BY <1>1
<1>3. (4 * r + e) \div 4 = r /\ r % 16 = r
  BY <1>2
<1>4. (16 * l + q) * 16 = l * 256 + 16 * q
  BY <1>2
<1>5. (l * 256 + 16 * q) % 256 = 16 * q
  BY <1>2
<1> QED
  BY <1>1, <1>2, <1>3, <1>4, <1>5

LEMMA ThirdByte ==
  ASSUME NEW b \in 0..255, NEW c \in 0..255
  PROVE  (((4 * (b % 16) + (c \div 64)) * 64) % 256) + ((c % 64) % 64) = c
<1>1. PICK q, r, l : q = c \div 64 /\ r = c % 64 /\ l = b % 16
  OBVIOUS
<1>2. q \in 0..3 /\ r \in 0..63 /\ c = q * 64 + r /\ l \in 0..15
  BY <1>1
<1>3. (4 * l + q) * 64 = l * 256 + 64 * q /\ r % 64 = r
  BY <1>2
<1>4. (l * 256 + 64 * q) % 256 = 64 * q
  BY <1>2
<1> QED
  BY <1>1, <1>2, <1>3, <1>4

\* One turn of base64_encode: the sextets of the number of 24 bits that the
\* bytes make, zeros taken for missing ones, and = for the sextets without any.
LEMMA EncodeIs ==
  ASSUME NEW g \in Seq(0..255), Len(g) \in 1..3
  PROVE  LET a == g[1]
             b == IF Len(g) > 1 THEN g[2] ELSE 0
             c == IF Len(g) > 2 THEN g[3] ELSE 0 IN
         /\ a \in 0..255 /\ b \in 0..255 /\ c \in 0..255
         /\ EncodeGroup(g) = <<a \div 4, 16 * (a % 4) + (b \div 16),
                               IF Len(g) > 1 THEN 4 * (b % 16) + (c \div 64) ELSE 64,
                               IF Len(g) > 2 THEN c % 64 ELSE 64>>
<1>0. PICK a, b, c : /\ a = g[1] /\ b = (IF Len(g) > 1 THEN g[2] ELSE 0)
                     /\ c = (IF Len(g) > 2 THEN g[3] ELSE 0)
  OBVIOUS
<1> DEFINE Code == <<a \div 4, 16 * (a % 4) + (b \div 16),
                     IF Len(g) > 1 THEN 4 * (b % 16) + (c \div 64) ELSE 64,
                     IF Len(g) > 2 THEN c % 64 ELSE 64>>
<1>1. a \in 0..255
  <2>1. PICK B : B = 0..255
    OBVIOUS
  <2>2. g \in Seq(B) /\ Len(g) \in 1..3
    BY <2>1
  <2>3. g[1] \in B
    BY <2>2
  <2> QED
    BY <1>0, <2>1, <2>3
<1>2. b \in 0..255 /\ c \in 0..255
  <2>1. PICK B : B = 0..255
    OBVIOUS
  <2>2. g \in Seq(B) /\ Len(g) \in 1..3
    BY <2>1
  <2>3. Len(g) > 1 => g[2] \in B
    BY <2>2
  <2>4. Len(g) > 2 => g[3] \in B
    BY <2>2
  <2>5. 0 \in B
    BY <2>1
  <2> QED
    BY <1>0, <2>1, <2>3, <2>4, <2>5
<1>3. 0 \div 16 = 0 /\ 0 \div 64 = 0
  OBVIOUS
<1>4. ASSUME Len(g) = 1 PROVE EncodeGroup(g) = Code
  <2>1. EncodeGroup(g) = <<a \div 4, 16 * (a % 4), 64, 64>>
    BY <1>0, <1>4 DEF EncodeGroup, Pad
  <2>2. b = 0 /\ 16 * (a % 4) + (b \div 16) = 16 * (a % 4)
    BY <1>0, <1>1, <1>3, <1>4
  <2> QED
    BY <1>1, <1>2, <1>4, <2>1, <2>2
<1>5. ASSUME Len(g) = 2 PROVE EncodeGroup(g) = Code
  <2>1. EncodeGroup(g) = <<a \div 4, 16 * (a % 4) + (b \div 16), 4 * (b % 16), 64>>
    BY <1>0, <1>5 DEF EncodeGroup, Pad
  <2>2. c = 0 /\ 4 * (b % 16) + (c \div 64) = 4 * (b % 16)
    BY <1>0, <1>2, <1>3, <1>5
  <2>3. Len(g) > 1 /\ ~(Len(g) > 2)
    BY <1>5
  <2> QED
    BY <1>1, <1>2, <2>1, <2>2, <2>3
<1>6. ASSUME Len(g) = 3 PROVE EncodeGroup(g) = Code
  BY <1>0, <1>1, <1>2, <1>6 DEF EncodeGroup
<1>7. EncodeGroup(g) = Code
  BY <1>4, <1>5, <1>6
<1> QED
  BY <1>0, <1>1, <1>2, <1>7

\* One turn of base64_decode gives the bytes back.
LEMMA TurnIs ==
  ASSUME NEW g \in Seq(0..255), Len(g) \in 1..3
  PROVE  DecodeGroup(EncodeGroup(g)) = g
<1>0. PICK a, b, c : /\ a = g[1] /\ b = (IF Len(g) > 1 THEN g[2] ELSE 0)
                     /\ c = (IF Len(g) > 2 THEN g[3] ELSE 0)
  OBVIOUS
<1>1. /\ a = g[1] /\ b = (IF Len(g) > 1 THEN g[2] ELSE 0)
      /\ c = (IF Len(g) > 2 THEN g[3] ELSE 0)
      /\ a \in 0..255 /\ b \in 0..255 /\ c \in 0..255
      /\ EncodeGroup(g) = <<a \div 4, 16 * (a % 4) + (b \div 16),
                            IF Len(g) > 1 THEN 4 * (b % 16) + (c \div 64) ELSE 64,
                            IF Len(g) > 2 THEN c % 64 ELSE 64>>
  BY <1>0, EncodeIs
<1>2. PICK x, y, z, w : /\ x = a \div 4 /\ y = 16 * (a % 4) + (b \div 16)
                        /\ z = 4 * (b % 16) + (c \div 64) /\ w = c % 64
  OBVIOUS
<1>3. EncodeGroup(g) = <<x, y, IF Len(g) > 1 THEN z ELSE 64, IF Len(g) > 2 THEN w ELSE 64>>
  BY <1>1, <1>2
<1>4. a \in 0..255 /\ b \in 0..255 /\ c \in 0..255
  BY <1>1
<1>5. x \in 0..63 /\ y \in 0..63 /\ z \in 0..63 /\ w \in 0..63
  <2>1. /\ a \div 4 \in 0..63 /\ 16 * (a % 4) + (b \div 16) \in 0..63
        /\ 4 * (b % 16) + (c \div 64) \in 0..63 /\ c % 64 \in 0..63
    <3>1. a \div 4 \in 0..63 /\ 16 * (a % 4) + (b \div 16) \in 0..63
      BY <1>4
    <3>2. 4 * (b % 16) + (c \div 64) \in 0..63 /\ c % 64 \in 0..63
      BY <1>4
    <3> QED
      BY <3>1, <3>2
  <2> QED
    BY <1>2, <2>1
<1>6. ((x * 4) % 256) + ((y \div 16) % 4) = a
  <2>1. b \div 16 \in 0..15
    BY <1>4
  <2> QED
    BY <1>2, <1>4, <2>1, FirstByte
<1>7. ((y * 16) % 256) + ((z \div 4) % 16) = b
  <2>1. PICK e : e = c \div 64
    OBVIOUS
  <2>2. e \in 0..3
    BY <1>4, <2>1
  <2>3. (((16 * (a % 4) + (b \div 16)) * 16) % 256) + (((4 * (b % 16) + e) \div 4) % 16) = b
    BY <1>4, <2>2, SecondByte
  <2> QED
    BY <1>2, <2>1, <2>3
<1>8. ((z * 64) % 256) + (w % 64) = c
  BY <1>2, <1>4, ThirdByte
<1>9. PICK h : h = EncodeGroup(g)
  OBVIOUS
<1>10. /\ h[1] = x /\ h[2] = y /\ h[3] = (IF Len(g) > 1 THEN z ELSE 64)
       /\ h[4] = (IF Len(g) > 2 THEN w ELSE 64)
  BY <1>3, <1>9
<1>11. CASE Len(g) = 1
  <2>1. g = <<a>>
    BY <1>1, <1>11
  <2>2. h[3] = 64
    BY <1>10, <1>11
  <2>3. h[1] \in 0..63 /\ h[2] \in 0..63 /\ a = ((h[1] * 4) % 256) + ((h[2] \div 16) % 4)
    BY <1>5, <1>6, <1>10
  <2>4. DecodeGroup(h) = <<a>>
    BY <2>2, <2>3, DecodeIs
  <2> QED
    BY <1>9, <2>1, <2>4
<1>12. CASE Len(g) = 2
  <2>1. g = <<a, b>>
    BY <1>1, <1>12
  <2>2. h[3] = z /\ h[4] = 64
    BY <1>10, <1>12
  <2>3. /\ h[1] \in 0..63 /\ h[2] \in 0..63 /\ h[3] \in 0..63
        /\ a = ((h[1] * 4) % 256) + ((h[2] \div 16) % 4)
        /\ b = ((h[2] * 16) % 256) + ((h[3] \div 4) % 16)
    BY <1>5, <1>6, <1>7, <1>10, <2>2
  <2>4. DecodeGroup(h) = <<a, b>>
    BY <2>2, <2>3, DecodeIs
  <2> QED
    BY <1>9, <2>1, <2>4
<1>13. CASE Len(g) = 3
  <2>1. g = <<a, b, c>>
    BY <1>1, <1>13
  <2>2. h[3] = z /\ h[4] = w
    BY <1>10, <1>13
  <2>3. /\ h[1] \in 0..63 /\ h[2] \in 0..63 /\ h[3] \in 0..63 /\ h[4] \in 0..63
        /\ a = ((h[1] * 4) % 256) + ((h[2] \div 16) % 4)
        /\ b = ((h[2] * 16) % 256) + ((h[3] \div 4) % 16)
        /\ c = ((h[3] * 64) % 256) + (h[4] % 64)
    BY <1>5, <1>6, <1>7, <1>8, <1>10, <2>2
  <2>4. DecodeGroup(h) = <<a, b, c>>
    BY <2>3, DecodeIs
  <2> QED
    BY <1>9, <2>1, <2>4
<1> QED
  BY <1>11, <1>12, <1>13

\* The characters of a turn: only those without a byte are =.
LEMMA CharsAre ==
  ASSUME NEW g \in Seq(0..255), Len(g) \in 1..3, NEW e, e = EncodeGroup(g)
  PROVE  /\ e \in Seq(0..64) /\ Len(e) = 4 /\ e[1] \in 0..63 /\ e[2] \in 0..63
         /\ IF Len(g) > 1 THEN e[3] \in 0..63 ELSE e[3] = 64
         /\ IF Len(g) > 2 THEN e[4] \in 0..63 ELSE e[4] = 64
<1>1. PICK a, b, c : /\ a = g[1] /\ b = (IF Len(g) > 1 THEN g[2] ELSE 0)
                     /\ c = (IF Len(g) > 2 THEN g[3] ELSE 0)
  OBVIOUS
<1>2. /\ a \in 0..255 /\ b \in 0..255 /\ c \in 0..255
      /\ e = <<a \div 4, 16 * (a % 4) + (b \div 16),
               IF Len(g) > 1 THEN 4 * (b % 16) + (c \div 64) ELSE 64,
               IF Len(g) > 2 THEN c % 64 ELSE 64>>
  BY <1>1, EncodeIs
<1>3. PICK x, y, z, w : /\ x = a \div 4 /\ y = 16 * (a % 4) + (b \div 16)
                        /\ z = (IF Len(g) > 1 THEN 4 * (b % 16) + (c \div 64) ELSE 64)
                        /\ w = (IF Len(g) > 2 THEN c % 64 ELSE 64)
  OBVIOUS
<1>4. a \in 0..255 /\ b \in 0..255 /\ c \in 0..255
  BY <1>2
<1>5. x \in 0..63 /\ y \in 0..63
  BY <1>3, <1>4
<1>6. 4 * (b % 16) + (c \div 64) \in 0..63 /\ c % 64 \in 0..63
  BY <1>4
<1>7. /\ IF Len(g) > 1 THEN z \in 0..63 ELSE z = 64
      /\ IF Len(g) > 2 THEN w \in 0..63 ELSE w = 64
  BY <1>3, <1>6
<1>8. e = <<x, y, z, w>>
  BY <1>2, <1>3
<1>9. x \in 0..64 /\ y \in 0..64 /\ z \in 0..64 /\ w \in 0..64
  BY <1>5, <1>7
<1>10. e \in Seq(0..64) /\ Len(e) = 4
  BY <1>8, <1>9
<1>11. e[1] = x /\ e[2] = y /\ e[3] = z /\ e[4] = w
  BY <1>8
<1> QED
  BY <1>5, <1>7, <1>10, <1>11

\* The turns of base64_encode's loop.
LEMMA TurnsAre ==
  ASSUME NEW n \in Nat, NEW m, m = (n + 2) \div 3
  PROVE  m \in Nat /\ n <= 3 * m /\ 3 * m <= n + 2
OBVIOUS

\* The bytes of a turn.
LEMMA GroupIs ==
  ASSUME NEW S, NEW s \in Seq(S), NEW t \in Nat \ {0}, 3 * t <= Len(s) + 2
  PROVE  /\ Group(s, t) \in Seq(S) /\ Len(Group(s, t)) \in 1..3
         /\ Len(Group(s, t)) = IF 3 * t < Len(s) THEN 3 ELSE Len(s) - 3 * t + 3
         /\ \A j \in 1..Len(Group(s, t)) : /\ Group(s, t)[j] = s[3 * t - 3 + j]
                                           /\ 3 * t - 3 + j \in 1..Len(s)
<1>1. PICK g, n, k, q : /\ g = Group(s, t) /\ n = Len(s) /\ k = 3 * t - 2
                        /\ q = (IF 3 * t < n THEN 3 * t ELSE n)
  OBVIOUS
<1>2. n \in Nat /\ k \in Nat \ {0} /\ q \in Nat /\ q >= k - 1 /\ q <= n
  BY <1>1
<1>3. g = SubSeq(s, k, q)
  BY <1>1 DEF Group
<1>4. g \in Seq(S) /\ Len(g) = q - k + 1 /\ \A i \in 1..(q - k + 1) : g[i] = s[k + i - 1]
  <2>1. q >= k - 1 /\ q <= Len(s)
    BY <1>1, <1>2
  <2> QED
    BY <1>2, <1>3, <2>1, Piece
<1>5. q - k + 1 \in 1..3 /\ q - k + 1 = (IF 3 * t < n THEN 3 ELSE n - 3 * t + 3)
  <2>1. CASE 3 * t < n
    BY <1>1, <2>1
  <2>2. CASE ~(3 * t < n)
    <3>1. k = 3 * t - 2 /\ q = n /\ n <= 3 * t /\ 3 * t <= n + 2
      BY <1>1, <1>2, <2>2
    <3> QED
      BY <1>2, <2>2, <3>1
  <2> QED
    BY <2>1, <2>2
<1>6. ASSUME NEW j \in 1..(q - k + 1)
      PROVE  k + j - 1 = 3 * t - 3 + j /\ 3 * t - 3 + j \in 1..n
  <2>1. k \in Int /\ q \in Int /\ n \in Int /\ q <= n /\ k >= 1 /\ k = 3 * t - 2
    BY <1>1, <1>2
  <2> QED
    BY <2>1
<1>7. \A j \in 1..(q - k + 1) : g[j] = s[3 * t - 3 + j] /\ 3 * t - 3 + j \in 1..n
  BY <1>4, <1>6
<1> QED
  BY <1>1, <1>4, <1>5, <1>7

\* The bytes of one turn of base64_encode's loop.
LEMMA TurnTakes ==
  ASSUME NEW s \in Seq(0..255), NEW t \in 1..((Len(s) + 2) \div 3)
  PROVE  /\ Group(s, t) \in Seq(0..255) /\ Len(Group(s, t)) \in 1..3
         /\ Len(Group(s, t)) = IF 3 * t < Len(s) THEN 3 ELSE Len(s) - 3 * t + 3
         /\ \A j \in 1..Len(Group(s, t)) : /\ Group(s, t)[j] = s[3 * t - 3 + j]
                                           /\ 3 * t - 3 + j \in 1..Len(s)
<1>1. PICK B : B = 0..255
  OBVIOUS
<1>2. s \in Seq(B)
  BY <1>1
<1>3. t \in Nat \ {0} /\ 3 * t <= Len(s) + 2
  <2>1. PICK n, m : n = Len(s) /\ m = (n + 2) \div 3
    OBVIOUS
  <2>2. n \in Nat
    BY <2>1
  <2>3. m \in Nat /\ n <= 3 * m /\ 3 * m <= n + 2
    BY <2>1, <2>2, TurnsAre
  <2>4. t \in 1..m
    BY <2>1
  <2>5. t \in Nat \ {0} /\ 3 * t <= n + 2
    BY <2>2, <2>3, <2>4
  <2> QED
    BY <2>1, <2>5
<1>4. /\ Group(s, t) \in Seq(B) /\ Len(Group(s, t)) \in 1..3
      /\ Len(Group(s, t)) = IF 3 * t < Len(s) THEN 3 ELSE Len(s) - 3 * t + 3
      /\ \A j \in 1..Len(Group(s, t)) : /\ Group(s, t)[j] = s[3 * t - 3 + j]
                                        /\ 3 * t - 3 + j \in 1..Len(s)
  BY <1>2, <1>3, GroupIs
<1> QED
  BY <1>1, <1>4

\* Where a character is in its turn.
LEMMA InTurn ==
  ASSUME NEW m \in Nat, NEW i \in 1..(4 * m)
  PROVE  (i + 3) \div 4 \in 1..m /\ ((i - 1) % 4) + 1 \in 1..4
OBVIOUS

LEMMA OfTurn ==
  ASSUME NEW m \in Nat, NEW t \in 1..m, NEW j \in 1..4
  PROVE  /\ 4 * t - 4 + j \in 1..(4 * m)
         /\ (4 * t - 4 + j + 3) \div 4 = t /\ ((4 * t - 4 + j - 1) % 4) + 1 = j
OBVIOUS

\* What base64_encode writes: four characters for each turn.
LEMMA CodeIs ==
  ASSUME NEW s \in Seq(0..255)
  PROVE  LET c == Base64Encode(s)
             m == (Len(s) + 2) \div 3 IN
         /\ c \in Seq(0..64) /\ Len(c) = 4 * m
         /\ \A t \in 1..m : /\ \A j \in 1..4 : c[4 * t - 4 + j] = EncodeGroup(Group(s, t))[j]
                            /\ Quad(c, t) = EncodeGroup(Group(s, t))
<1>0. PICK n, m, c, l : /\ n = Len(s) /\ m = (n + 2) \div 3 /\ c = Base64Encode(s)
                        /\ l = 4 * m
  OBVIOUS
<1>1. m \in Nat /\ n <= 3 * m /\ 3 * m <= n + 2
  <2>1. n \in Nat
    BY <1>0
  <2> QED
    BY <1>0, <2>1, TurnsAre
<1>2. l = 4 * m
  BY <1>0
<1>3. c = [i \in 1..l |-> EncodeGroup(Group(s, (i + 3) \div 4))[((i - 1) % 4) + 1]]
  BY <1>0 DEF Base64Encode
<1>4. ASSUME NEW t \in 1..m
      PROVE  EncodeGroup(Group(s, t)) \in Seq(0..64) /\ Len(EncodeGroup(Group(s, t))) = 4
  <2>1. PICK g, e : g = Group(s, t) /\ e = EncodeGroup(g)
    OBVIOUS
  <2>2. g \in Seq(0..255) /\ Len(g) \in 1..3
    BY <1>0, <2>1, TurnTakes
  <2>3. e \in Seq(0..64) /\ Len(e) = 4
    BY <2>1, <2>2, CharsAre
  <2> QED
    BY <2>1, <2>3
<1>5. ASSUME NEW i \in 1..l
      PROVE  EncodeGroup(Group(s, (i + 3) \div 4))[((i - 1) % 4) + 1] \in 0..64
  <2>1. PICK t, j, e : /\ t = (i + 3) \div 4 /\ j = ((i - 1) % 4) + 1
                       /\ e = EncodeGroup(Group(s, t))
    OBVIOUS
  <2>2. t \in 1..m /\ j \in 1..4
    BY <1>1, <1>2, <2>1, InTurn
  <2>3. e \in Seq(0..64) /\ Len(e) = 4
    BY <1>4, <2>1, <2>2
  <2>4. e[j] \in 0..64
    <3>1. PICK C : C = 0..64
      OBVIOUS
    <3>2. e \in Seq(C) /\ j \in 1..Len(e)
      BY <2>2, <2>3, <3>1
    <3>3. e[j] \in C
      BY <3>2
    <3> QED
      BY <3>1, <3>3
  <2> QED
    BY <2>1, <2>4
<1>6. c \in Seq(0..64) /\ Len(c) = l
  <2>1. l \in Nat
    BY <1>1, <1>2
  <2>2. c \in [1..l -> 0..64]
    BY <1>3, <1>5
  <2> QED
    BY <2>1, <2>2
<1>7. ASSUME NEW t \in 1..m, NEW j \in 1..4
      PROVE  c[4 * t - 4 + j] = EncodeGroup(Group(s, t))[j]
  <2>1. PICK i : i = 4 * t - 4 + j
    OBVIOUS
  <2>2. i \in 1..l /\ (i + 3) \div 4 = t /\ ((i - 1) % 4) + 1 = j
    BY <1>1, <1>2, <2>1, OfTurn
  <2>3. c[i] = EncodeGroup(Group(s, t))[j]
    BY <1>3, <2>2
  <2> QED
    BY <2>1, <2>3
<1>8. ASSUME NEW t \in 1..m PROVE Quad(c, t) = EncodeGroup(Group(s, t))
  <2>1. PICK k, q, x, y, C : /\ k = 4 * t - 3 /\ q = 4 * t /\ x = Quad(c, t)
                             /\ y = EncodeGroup(Group(s, t)) /\ C = 0..64
    OBVIOUS
  <2>2. k \in Nat \ {0} /\ q \in Nat /\ q >= k - 1 /\ q <= Len(c)
    BY <1>1, <1>2, <1>6, <2>1
  <2>3. x = SubSeq(c, k, q)
    BY <2>1 DEF Quad
  <2>4. c \in Seq(C)
    BY <1>6, <2>1
  <2>5. x \in Seq(C) /\ Len(x) = q - k + 1 /\ \A j \in 1..(q - k + 1) : x[j] = c[k + j - 1]
    BY <2>2, <2>3, <2>4, Piece
  <2>6. q - k + 1 = 4 /\ \A j \in 1..4 : k + j - 1 = 4 * t - 4 + j
    BY <2>1
  <2>7. y \in Seq(C) /\ Len(y) = 4
    BY <1>4, <2>1
  <2>8. \A j \in 1..4 : x[j] = y[j]
    BY <1>7, <2>1, <2>5, <2>6
  <2>9. x = y
    BY <2>5, <2>6, <2>7, <2>8, SeqEqual
  <2> QED
    BY <2>1, <2>9
<1> QED
  BY <1>0, <1>6, <1>7, <1>8

\* base64_decode stops behind the turn that base64_encode made last.
LEMMA LastIs ==
  ASSUME NEW s \in Seq(0..255), NEW n \in Nat, n = Len(s), NEW m, m = (n + 2) \div 3,
         NEW c, c = Base64Encode(s)
  PROVE  LastTurn(c) = m
<1>1. m \in Nat /\ n <= 3 * m /\ 3 * m <= n + 2
  BY TurnsAre
<1>2. Len(c) = 4 * m /\ \A t \in 1..m : Quad(c, t) = EncodeGroup(Group(s, t))
  BY CodeIs
<1>3. Len(c) \div 4 = m
  BY <1>1, <1>2
<1>4. ASSUME NEW t \in 1..m, t < m PROVE 64 \notin {Quad(c, t)[3], Quad(c, t)[4]}
  <2>1. PICK g, e : g = Group(s, t) /\ e = EncodeGroup(g)
    OBVIOUS
  <2>2. 3 * t < n
    BY <1>1, <1>4
  <2>3. g \in Seq(0..255) /\ Len(g) = 3
    BY <2>1, <2>2, TurnTakes
  <2>4. g \in Seq(0..255) /\ Len(g) \in 1..3 /\ Len(g) > 1 /\ Len(g) > 2
    BY <2>3
  <2>5. e[3] \in 0..63 /\ e[4] \in 0..63
    BY <2>1, <2>4, CharsAre
  <2>6. e[3] # 64 /\ e[4] # 64
    <3>1. \A i \in 0..63 : i # 64
      OBVIOUS
    <3> QED
      BY <2>5, <3>1
  <2>7. Quad(c, t) = e
    BY <1>2, <2>1
  <2> QED
    BY <2>6, <2>7
<1> DEFINE StopsAt(t) == /\ t < m => t > 0 /\ 64 \in {Quad(c, t)[3], Quad(c, t)[4]}
                      /\ \A i \in 1..(t - 1) : 64 \notin {Quad(c, i)[3], Quad(c, i)[4]}
<1>5. LastTurn(c) = CHOOSE t \in 0..m : StopsAt(t)
  BY <1>3 DEF LastTurn, Pad
<1>6. StopsAt(m)
  <2>1. ~(m < m)
    BY <1>1
  <2>2. ASSUME NEW i \in 1..(m - 1) PROVE i \in 1..m /\ i < m
    BY <1>1
  <2> QED
    BY <1>4, <2>1, <2>2
<1>7. ASSUME NEW t \in 0..m, StopsAt(t) PROVE t = m
  <2>1. t \in Nat /\ t <= m
    BY <1>1
  <2>2. ASSUME t < m PROVE FALSE
    <3>1. t > 0 /\ 64 \in {Quad(c, t)[3], Quad(c, t)[4]}
      BY <1>7, <2>2
    <3>2. t \in 1..m
      BY <1>1, <2>1, <3>1
    <3> QED
      BY <1>4, <2>2, <3>1, <3>2
  <2> QED
    BY <1>1, <2>1, <2>2
<1>8. m \in 0..m
  BY <1>1
<1> HIDE DEF StopsAt
<1> QED
  BY <1>5, <1>6, <1>7, <1>8

\* Where a byte is in its turn.
LEMMA InGroup ==
  ASSUME NEW n \in Nat, NEW m \in Nat, n <= 3 * m, 3 * m <= n + 2, NEW i \in 1..n
  PROVE  /\ (i + 2) \div 3 \in 1..m /\ ((i - 1) % 3) + 1 \in 1..3
         /\ 3 * ((i + 2) \div 3) - 3 + (((i - 1) % 3) + 1) = i
OBVIOUS

\* base64_decode gives back what base64_encode was given.
LEMMA Base64Is ==
  ASSUME octets \in Seq(0..255)
  PROVE  Base64Undone
<1>1. PICK s, n, m, c : /\ s = octets /\ n = Len(octets) /\ m = (n + 2) \div 3
                        /\ c = Base64Encode(octets)
  OBVIOUS
<1>2. s \in Seq(0..255) /\ n \in Nat /\ n = Len(s) /\ m = (n + 2) \div 3 /\ c = Base64Encode(s)
  BY <1>1
<1>3. m \in Nat /\ n <= 3 * m /\ 3 * m <= n + 2
  BY <1>2, TurnsAre
<1>4. \A t \in 1..m : Quad(c, t) = EncodeGroup(Group(s, t))
  BY <1>2, CodeIs
<1>5. LastTurn(c) = m
  BY <1>2, LastIs
<1>6. ASSUME NEW t \in 1..m
      PROVE  /\ DecodeGroup(Quad(c, t)) = Group(s, t)
             /\ Len(Group(s, t)) = IF 3 * t < n THEN 3 ELSE n - 3 * t + 3
             /\ \A j \in 1..Len(Group(s, t)) : Group(s, t)[j] = s[3 * t - 3 + j]
  <2>1. PICK g : g = Group(s, t)
    OBVIOUS
  <2>2. /\ g \in Seq(0..255) /\ Len(g) \in 1..3
        /\ Len(g) = IF 3 * t < n THEN 3 ELSE n - 3 * t + 3
        /\ \A j \in 1..Len(g) : g[j] = s[3 * t - 3 + j]
    BY <1>2, <2>1, TurnTakes
  <2>3. g \in Seq(0..255) /\ Len(g) \in 1..3
    BY <2>2
  <2>4. DecodeGroup(EncodeGroup(g)) = g
    BY <2>3, TurnIs
  <2>5. DecodeGroup(Quad(c, t)) = g
    BY <1>4, <2>1, <2>4
  <2> QED
    BY <2>1, <2>2, <2>5
<1>7. PICK length : length = (IF m = 0 THEN 0 ELSE 3 * (m - 1) + Len(DecodeGroup(Quad(c, m))))
  OBVIOUS
<1>8. length = n
  <2>1. CASE m = 0
    BY <1>2, <1>3, <1>7, <2>1
  <2>2. CASE m # 0
    <3>1. m \in 1..m
      BY <1>3, <2>2
    <3>2. DecodeGroup(Quad(c, m)) = Group(s, m)
      BY <1>6, <3>1
    <3>3. Len(Group(s, m)) = IF 3 * m < n THEN 3 ELSE n - 3 * m + 3
      BY <1>6, <3>1
    <3>4. Len(Group(s, m)) = n - 3 * m + 3
      BY <1>2, <1>3, <3>3
    <3>5. length = 3 * (m - 1) + (n - 3 * m + 3)
      BY <1>7, <2>2, <3>2, <3>4
    <3> QED
      BY <1>2, <1>3, <3>5
  <2> QED
    BY <2>1, <2>2
<1>9. Base64Decode(c) = [i \in 1..n |-> DecodeGroup(Quad(c, (i + 2) \div 3))[((i - 1) % 3) + 1]]
  BY <1>5, <1>7, <1>8 DEF Base64Decode
<1>10. ASSUME NEW i \in 1..n
       PROVE  DecodeGroup(Quad(c, (i + 2) \div 3))[((i - 1) % 3) + 1] = s[i]
  <2>1. PICK t, j : t = (i + 2) \div 3 /\ j = ((i - 1) % 3) + 1
    OBVIOUS
  <2>2. t \in 1..m /\ j \in 1..3 /\ 3 * t - 3 + j = i
    BY <1>2, <1>3, <2>1, InGroup
  <2>3. PICK g : g = Group(s, t)
    OBVIOUS
  <2>4. /\ DecodeGroup(Quad(c, t)) = g /\ Len(g) = IF 3 * t < n THEN 3 ELSE n - 3 * t + 3
        /\ \A k \in 1..Len(g) : g[k] = s[3 * t - 3 + k]
    BY <1>6, <2>2, <2>3
  <2>5. j \in 1..Len(g)
    <3>1. Len(g) = IF 3 * t < n THEN 3 ELSE n - 3 * t + 3
      BY <2>4
    <3> QED
      BY <1>2, <1>3, <2>2, <3>1
  <2>6. g[j] = s[i]
    BY <2>2, <2>4, <2>5
  <2> QED
    BY <2>1, <2>4, <2>6
<1>11. s = [i \in 1..n |-> s[i]]
  BY <1>2
<1>12. Base64Decode(c) = s
  BY <1>9, <1>10, <1>11
<1> QED
  BY <1>1, <1>12 DEF Base64Undone

\* The four characters of a turn make the number that its bytes make.
LEMMA TurnStandard ==
  ASSUME NEW g \in Seq(0..255), Len(g) \in 1..3, NEW e, e = EncodeGroup(g)
  PROVE  65536 * g[1] + 256 * (IF Len(g) > 1 THEN g[2] ELSE 0)
             + (IF Len(g) > 2 THEN g[3] ELSE 0)
           = 262144 * e[1] + 4096 * e[2] + 64 * (IF Len(g) > 1 THEN e[3] ELSE 0)
               + (IF Len(g) > 2 THEN e[4] ELSE 0)
<1>1. PICK a, b, c : /\ a = g[1] /\ b = (IF Len(g) > 1 THEN g[2] ELSE 0)
                     /\ c = (IF Len(g) > 2 THEN g[3] ELSE 0)
  OBVIOUS
<1>2. /\ a \in 0..255 /\ b \in 0..255 /\ c \in 0..255
      /\ e = <<a \div 4, 16 * (a % 4) + (b \div 16),
               IF Len(g) > 1 THEN 4 * (b % 16) + (c \div 64) ELSE 64,
               IF Len(g) > 2 THEN c % 64 ELSE 64>>
  BY <1>1, EncodeIs
<1>3. a \in 0..255 /\ b \in 0..255 /\ c \in 0..255
  BY <1>2
<1>4. e[1] = a \div 4 /\ e[2] = 16 * (a % 4) + (b \div 16)
  BY <1>2
<1>5. (IF Len(g) > 1 THEN e[3] ELSE 0) = 4 * (b % 16) + (c \div 64)
  <2>1. CASE Len(g) > 1
    BY <1>2, <2>1
  <2>2. CASE ~(Len(g) > 1)
    <3>1. ~(Len(g) > 2)
      BY <2>2
    <3>2. b = 0 /\ c = 0
      BY <1>1, <2>2, <3>1
    <3>3. 4 * (0 % 16) + (0 \div 64) = 0
      OBVIOUS
    <3> QED
      BY <2>2, <3>2, <3>3
  <2> QED
    BY <2>1, <2>2
<1>6. (IF Len(g) > 2 THEN e[4] ELSE 0) = c % 64
  <2>1. CASE Len(g) > 2
    BY <1>2, <2>1
  <2>2. CASE ~(Len(g) > 2)
    <3>1. c = 0 /\ 0 % 64 = 0
      BY <1>1, <2>2
    <3> QED
      BY <2>2, <3>1
  <2> QED
    BY <2>1, <2>2
<1>7. 65536 * a + 256 * b + c
        = 262144 * (a \div 4) + 4096 * (16 * (a % 4) + (b \div 16))
            + 64 * (4 * (b % 16) + (c \div 64)) + (c % 64)
  BY <1>3
<1> QED
  BY <1>1, <1>4, <1>5, <1>6, <1>7

\* base64_encode writes what RFC 4648 asks for.
LEMMA StandardIs ==
  ASSUME octets \in Seq(0..255)
  PROVE  Base64Standard
<1>1. PICK s, n, m, c : /\ s = octets /\ n = Len(octets) /\ m = (n + 2) \div 3
                        /\ c = Base64Encode(octets)
  OBVIOUS
<1>2. s \in Seq(0..255) /\ n \in Nat /\ n = Len(s) /\ m = (n + 2) \div 3 /\ c = Base64Encode(s)
  BY <1>1
<1>3. m \in Nat /\ n <= 3 * m /\ 3 * m <= n + 2
  BY <1>2, TurnsAre
<1>4. /\ Len(c) = 4 * m
      /\ \A t \in 1..m : \A j \in 1..4 : c[4 * t - 4 + j] = EncodeGroup(Group(s, t))[j]
  <2>1. Len(c) = 4 * m
    BY <1>2, CodeIs
  <2>2. \A t \in 1..m : /\ \A j \in 1..4 : c[4 * t - 4 + j] = EncodeGroup(Group(s, t))[j]
                        /\ Quad(c, t) = EncodeGroup(Group(s, t))
    BY <1>2, CodeIs
  <2> QED
    BY <2>1, <2>2
<1>5. Len(c) \div 4 = m /\ 3 * m \in n..(n + 2)
  BY <1>2, <1>3, <1>4
<1> DEFINE Octet(i) == IF i <= n THEN s[i] ELSE 0
           Sextet(i) == IF c[i] = 64 THEN 0 ELSE c[i]
<1>6. ASSUME NEW t \in 0..(m - 1)
      PROVE  /\ 65536 * Octet(3 * t + 1) + 256 * Octet(3 * t + 2) + Octet(3 * t + 3)
                  = 262144 * Sextet(4 * t + 1) + 4096 * Sextet(4 * t + 2)
                      + 64 * Sextet(4 * t + 3) + Sextet(4 * t + 4)
             /\ \A j \in 1..4 : IF 3 * t + j > n + 1 THEN c[4 * t + j] = 64
                                                     ELSE c[4 * t + j] \in 0..63
  <2>1. PICK g, e : g = Group(s, t + 1) /\ e = EncodeGroup(g)
    OBVIOUS
  <2>2. t + 1 \in 1..m
    BY <1>3
  <2>3. /\ g \in Seq(0..255) /\ Len(g) \in 1..3
        /\ Len(g) = IF 3 * (t + 1) < n THEN 3 ELSE n - 3 * (t + 1) + 3
        /\ \A j \in 1..Len(g) : g[j] = s[3 * (t + 1) - 3 + j]
    BY <1>2, <2>1, <2>2, TurnTakes
  <2>4. Len(g) \in 1..3 /\ Len(g) = IF 3 * (t + 1) < n THEN 3 ELSE n - 3 * (t + 1) + 3
    BY <2>3
  <2>5. /\ 3 * t + 1 <= n /\ (Len(g) > 1 <=> 3 * t + 2 <= n)
        /\ (Len(g) > 2 <=> 3 * t + 3 <= n)
    BY <1>2, <1>3, <2>2, <2>4
  <2>6. /\ g[1] = s[3 * t + 1] /\ (Len(g) > 1 => g[2] = s[3 * t + 2])
        /\ Len(g) > 2 => g[3] = s[3 * t + 3]
    <3>1. /\ 3 * (t + 1) - 3 + 1 = 3 * t + 1 /\ 3 * (t + 1) - 3 + 2 = 3 * t + 2
          /\ 3 * (t + 1) - 3 + 3 = 3 * t + 3
      OBVIOUS
    <3>2. 1 \in 1..Len(g) /\ (Len(g) > 1 => 2 \in 1..Len(g)) /\ (Len(g) > 2 => 3 \in 1..Len(g))
      BY <2>4
    <3>3. \A j \in 1..Len(g) : g[j] = s[3 * (t + 1) - 3 + j]
      BY <2>3
    <3> QED
      BY <3>1, <3>2, <3>3
  <2>7. /\ Octet(3 * t + 1) = g[1] /\ Octet(3 * t + 2) = (IF Len(g) > 1 THEN g[2] ELSE 0)
        /\ Octet(3 * t + 3) = (IF Len(g) > 2 THEN g[3] ELSE 0)
    BY <2>5, <2>6
  <2>8. \A j \in 1..4 : c[4 * t + j] = e[j]
    <3>1. ASSUME NEW j \in 1..4 PROVE c[4 * t + j] = e[j]
      <4>1. c[4 * (t + 1) - 4 + j] = EncodeGroup(Group(s, t + 1))[j]
        BY <1>4, <2>2
      <4>2. 4 * (t + 1) - 4 + j = 4 * t + j
        OBVIOUS
      <4> QED
        BY <2>1, <4>1, <4>2
    <3> QED
      BY <3>1
  <2>9. c[4 * t + 1] = e[1] /\ c[4 * t + 2] = e[2] /\ c[4 * t + 3] = e[3] /\ c[4 * t + 4] = e[4]
    BY <2>8
  <2>10. g \in Seq(0..255) /\ Len(g) \in 1..3
    BY <2>3
  <2>11. /\ e[1] \in 0..63 /\ e[2] \in 0..63
         /\ IF Len(g) > 1 THEN e[3] \in 0..63 ELSE e[3] = 64
         /\ IF Len(g) > 2 THEN e[4] \in 0..63 ELSE e[4] = 64
    BY <2>1, <2>10, CharsAre
  <2>12. \A i \in 0..63 : i # 64
    OBVIOUS
  <2>13. /\ Sextet(4 * t + 1) = e[1] /\ Sextet(4 * t + 2) = e[2]
         /\ Sextet(4 * t + 3) = (IF Len(g) > 1 THEN e[3] ELSE 0)
         /\ Sextet(4 * t + 4) = (IF Len(g) > 2 THEN e[4] ELSE 0)
    BY <2>9, <2>11, <2>12
  <2>14. 65536 * g[1] + 256 * (IF Len(g) > 1 THEN g[2] ELSE 0)
             + (IF Len(g) > 2 THEN g[3] ELSE 0)
           = 262144 * e[1] + 4096 * e[2] + 64 * (IF Len(g) > 1 THEN e[3] ELSE 0)
               + (IF Len(g) > 2 THEN e[4] ELSE 0)
    BY <2>1, <2>10, TurnStandard
  <2>15. 65536 * Octet(3 * t + 1) + 256 * Octet(3 * t + 2) + Octet(3 * t + 3)
           = 262144 * Sextet(4 * t + 1) + 4096 * Sextet(4 * t + 2)
               + 64 * Sextet(4 * t + 3) + Sextet(4 * t + 4)
    <3> HIDE DEF Octet, Sextet
    <3> QED
      BY <2>7, <2>13, <2>14
  <2>16. ASSUME NEW j \in 1..4
         PROVE  IF 3 * t + j > n + 1 THEN c[4 * t + j] = 64 ELSE c[4 * t + j] \in 0..63
    <3>1. CASE j = 1
      <4>1. ~(3 * t + 1 > n + 1)
        BY <1>2, <2>5
      <4> QED
        BY <2>9, <2>11, <3>1, <4>1
    <3>2. CASE j = 2
      <4>1. ~(3 * t + 2 > n + 1)
        BY <1>2, <2>5
      <4> QED
        BY <2>9, <2>11, <3>2, <4>1
    <3>3. CASE j = 3
      <4>1. 3 * t + 3 > n + 1 <=> ~(Len(g) > 1)
        BY <1>2, <2>5
      <4> QED
        BY <2>9, <2>11, <3>3, <4>1
    <3>4. CASE j = 4
      <4>1. 3 * t + 4 > n + 1 <=> ~(Len(g) > 2)
        BY <1>2, <2>5
      <4> QED
        BY <2>9, <2>11, <3>4, <4>1
    <3> QED
      BY <3>1, <3>2, <3>3, <3>4
  <2> QED
    BY <2>15, <2>16
<1> QED
  BY <1>1, <1>4, <1>5, <1>6 DEF Base64Standard, Pad

LEMMA OctetsType == OctetsSpec => [](octets \in Seq(0..255))
<1>1. OctetsInit => octets \in Seq(0..255)
  BY DEF OctetsInit
<1>2. octets \in Seq(0..255) /\ [OctetsNext]_octets => (octets \in Seq(0..255))'
  <2>1. SUFFICES ASSUME octets \in Seq(0..255), [OctetsNext]_octets PROVE octets' \in Seq(0..255)
    OBVIOUS
  <2>2. CASE UNCHANGED octets
    BY <2>1, <2>2
  <2>3. CASE \E b \in Bytes : AppendByte(b)
    <3>1. PICK b \in Bytes : octets' = Append(octets, b)
      BY <2>3 DEF AppendByte
    <3>2. b \in 0..255
      BY Base64Assumption
    <3>3. PICK B : B = 0..255
      OBVIOUS
    <3>4. octets \in Seq(B) /\ b \in B
      BY <2>1, <3>2, <3>3
    <3>5. octets' \in Seq(B)
      BY <3>1, <3>4
    <3> QED
      BY <3>3, <3>5
  <2> QED
    BY <2>1, <2>2, <2>3 DEF OctetsNext, OctetsEnd
<1> QED
  BY <1>1, <1>2, PTL DEF OctetsSpec

\* For bytes of any number and value: base64_encode writes the characters of
\* RFC 4648, and base64_decode returns the bytes that it was given.  So no two
\* outputs of DesEnc make the same text, of which the token is the digest.
THEOREM Base64AlwaysRight == OctetsSpec => []Base64Right
<1>1. octets \in Seq(0..255) => Base64Right
  BY Base64Is, StandardIs DEF Base64Right
<1> QED
  BY <1>1, OctetsType, PTL

=============================================================================
