------------------------------- MODULE Receive -------------------------------
(***************************************************************************)
(* recv_save_file of src/cgi/cgi_upload.c, with memstr of                  *)
(* src/common/cgi_util.c: the body of an upload is read, taken apart and   *)
(* its data written to a temporary file.                                   *)
(*                                                                         *)
(* A body is a sequence of symbols: its boundary, CRLF, a header line, the *)
(* info field, pieces of data.  The buffer has no end mark, so that a      *)
(* search may leave it; what malloc left behind the received part, and     *)
(* what is behind the buffer, is heap and may be anything, the boundary of *)
(* this request included (the stream buffer of libfcgi has it too).        *)
(***************************************************************************)
EXTENDS Sequences, Integers, SequencesExt

CONSTANTS
  Boundary,   \* "------WebKitFormBoundary..."
  CRLF,       \* "\r\n"
  Header,     \* a header line
  Info,       \* user|filename|md5|size
  Nul,        \* a zero byte
  Byte,       \* any other piece of data
  MaxData,    \* bound on the pieces of data
  MaxHeap     \* bound on what is behind the received part

\* The symbols that a search looks for, or that end it, are told apart.
ASSUME ReceiveAssumption ==
  /\ Boundary \notin {CRLF, Header, Info, Nul, Byte}
  /\ CRLF \notin {Header, Info, Nul, Byte}
  /\ Info \notin {Header, Nul, Byte}
  /\ Nul \notin {Header, Byte}
  /\ MaxData \in Nat /\ MaxHeap \in Nat

VARIABLES
  data,     \* the file that the client sends
  old,      \* the temporary file that a killed upload left under the name
  mem,      \* the buffer and what is behind it
  got,      \* how much of the body fread has read
  p, begin, \* the pointers of recv_save_file; p = 0 is NULL
  at,       \* the statement to come: a line of recv_save_file, or its outcome
  file,     \* the temporary file
  short,    \* has write written less?
  stuck,    \* has ftruncate failed?
  past      \* has a search left mem?

rvars == <<data, old, mem, got, p, begin, at, file, short, stuck, past>>
given == <<data, old, mem, got>>

\* Binary data may contain line ends and zero bytes.  The browser chooses a
\* boundary that does not occur in it.
Pieces == {CRLF, Nul, Byte}
Symbols == Pieces \cup {Boundary, Header, Info}

\* The body, as the comment at line 68 shows it.
BodyOf(d) ==
  <<Boundary, CRLF, Header, CRLF, CRLF, Info, CRLF, Boundary, CRLF, Header, CRLF,
    Header, CRLF, CRLF>> \o d \o <<CRLF, Boundary>>

Init ==
  /\ data \in BoundedSeq(Pieces, MaxData)
  /\ old \in {<<>>, <<Byte>>, [i \in 1..(MaxData + 1) |-> Byte]}
  /\ mem = <<>>
  /\ got = 0
  /\ p = 1 /\ begin = 1
  /\ at = "fread"
  /\ file = old
  /\ short = FALSE /\ stuck = FALSE /\ past = FALSE

------------------------------------------------------------------------------

\* The first of some places, 0 if there is none.
First(places) ==
  IF places = {} THEN 0 ELSE CHOOSE j \in places : \A l \in places : j <= l

\* The first place of a symbol from i on in mem.
Place(s, i) == First({j \in i..Len(mem) : mem[j] = s})

\* strstr(i, "\r\n"): a zero byte ends the search.
StrStr(i) ==
  LET n == Place(CRLF, i)
      z == Place(Nul, i)
  IN  IF z # 0 /\ (n = 0 \/ z < n) THEN 0 ELSE n

\* The search from i leaves mem.
StrStrPast(i) == Place(CRLF, i) = 0 /\ Place(Nul, i) = 0

Goto(l) == at' = l /\ UNCHANGED <<given, file, short, stuck>>

\* The process reads on behind mem and finds nothing there: it dies where
\* nothing is mapped, or a zero byte or memstr's length ends the search.  A search
\* that does find something there is one in a mem with a longer heap.
Leaves ==
  /\ past' = TRUE
  /\ \E o \in {"failed", "died"} : Goto(o)
  /\ UNCHANGED <<p, begin>>

Ends(outcome) == Goto(outcome) /\ UNCHANGED <<p, begin, past>>

------------------------------------------------------------------------------
(* recv_save_file *)

\* fread: at least one symbol arrived, or the upload fails.
Fread ==
  /\ at = "fread"
  /\ \/ /\ \E n \in 1..Len(BodyOf(data)), heap \in BoundedSeq(Symbols, MaxHeap) :
             /\ got' = n
             /\ mem' = SubSeq(BodyOf(data), 1, n) \o heap
        /\ at' = "boundary"
        /\ UNCHANGED <<data, old, p, begin, file, short, stuck, past>>
     \/ Ends("failed")

\* The first line is the boundary.
FindBoundary ==
  /\ at = "boundary"
  /\ \/ StrStrPast(1) /\ Leaves
     \/ ~StrStrPast(1) /\ StrStr(1) = 0 /\ Ends("failed")
     \/ /\ StrStr(1) # 0
        /\ p' = StrStr(1) + 1
        /\ Goto("header") /\ UNCHANGED <<begin, past>>

\* The header of the first part and the empty line.  NULL is not looked for.
FindHeader ==
  /\ at = "header"
  /\ \/ StrStrPast(p) /\ Leaves
     \/ ~StrStrPast(p) /\ StrStr(p) = 0 /\ Ends("died")
     \/ /\ StrStr(p) # 0
        /\ p' = StrStr(p) + 2
        /\ Goto("info") /\ UNCHANGED <<begin, past>>

\* The info field, taken apart by strtok, whose NULL is not looked for.
FindInfo ==
  /\ at = "info"
  /\ \/ StrStrPast(p) /\ Leaves
     \/ ~StrStrPast(p) /\ StrStr(p) = 0 /\ Ends("failed")
     \/ /\ StrStr(p) # 0
        /\ mem[p] # Info
        /\ Ends("died")
     \/ /\ StrStr(p) # 0
        /\ mem[p] = Info
        /\ p' = StrStr(p) + 1
        /\ Goto("skip1") /\ UNCHANGED <<begin, past>>

\* The second boundary and two header lines, and after them the empty line.
Skip(from, to, past_line) ==
  /\ at = from
  /\ \/ StrStrPast(p) /\ Leaves
     \/ ~StrStrPast(p) /\ StrStr(p) = 0 /\ Ends("died")
     \/ /\ StrStr(p) # 0
        /\ p' = StrStr(p) + past_line
        /\ Goto(to) /\ UNCHANGED <<begin, past>>

SkipHeaders ==
  \/ Skip("skip1", "skip2", 1)
  \/ Skip("skip2", "skip3", 1)
  \/ Skip("skip3", "end", 2)

\* The boundary that is looked for is the first line, whatever it is.
BoundaryLen == StrStr(1) - 1
BoundariesFrom(i) ==
  {j \in i..(Len(mem) - BoundaryLen + 1) : \A l \in 1..BoundaryLen : mem[j + l - 1] = mem[l]}

\* Faulty variant: strstr instead of memstr.
MemStrStops(i) ==
  LET b == First(BoundariesFrom(i))
      z == Place(Nul, i)
  IN  IF z # 0 /\ z < b THEN 0 ELSE b

\* memstr, for the boundary: zero bytes do not end the search.
MemStr(i) == First(BoundariesFrom(i))

\* memstr for the boundary, from the data on.  The length it is given is that
\* of the body and of what lies before the data, and not the difference:
\* without a boundary it searches past the buffer.
FindEnd ==
  /\ at = "end"
  /\ \/ MemStr(p) = 0 /\ Leaves
     \/ /\ MemStr(p) # 0
        /\ begin' = p
        /\ p' = MemStr(p) - 1
        /\ Goto("save") /\ UNCHANGED past

Found == SubSeq(mem, begin, p - 1)

\* ftruncate to the length of the data, and write of n of its symbols.
Truncated == [i \in 1..Len(Found) |-> IF i <= Len(old) THEN old[i] ELSE Nul]
Written(under, n) ==
  [i \in 1..(IF n > Len(under) THEN n ELSE Len(under)) |->
     IF i <= n THEN Found[i] ELSE under[i]]

\* Faulty variant: no ftruncate.
SaveUntruncated ==
  /\ at = "save"
  /\ at' = "saved"
  /\ file' = Written(old, Len(Found))
  /\ UNCHANGED <<given, p, begin, short, stuck, past>>

\* open, ftruncate and write, whose results are ignored.  Both refuse a negative
\* length, which a boundary right where the data should begin gives.
Save ==
  /\ at = "save"
  /\ \/ Ends("unopened")
     \/ \E n \in 0..Len(Found), fits \in BOOLEAN :
          /\ p < begin => ~fits
          /\ file' = Written(IF fits THEN Truncated ELSE old, n)
          /\ stuck' = ~fits
          /\ short' = (n < Len(Found) \/ p < begin)
          /\ at' = "saved"
          /\ UNCHANGED <<given, p, begin, past>>

Finished == at \in {"failed", "died", "unopened", "saved"} /\ UNCHANGED rvars

Next ==
  \/ Fread \/ FindBoundary \/ FindHeader \/ FindInfo \/ SkipHeaders \/ FindEnd
  \/ Save \/ Finished

Spec == Init /\ [][Next]_rvars

------------------------------------------------------------------------------

WholeBody == got = Len(BodyOf(data))
HeapLacksBoundary == \A i \in (got + 1)..Len(mem) : mem[i] # Boundary

\* Whatever bytes the data consists of and whatever an older temporary file
\* holds: when recv_save_file succeeds and write did not fall short, the temporary
\* file is what the client sent, provided that ftruncate worked or the older file
\* is not longer.  Of a whole body this holds whatever is behind it.  A body that
\* was cut off is saved only if the heap holds the boundary, which memstr, given
\* too great a length, finds there.
SavedWhole ==
  /\ at = "saved"
  /\ ~short /\ (stuck => Len(old) <= Len(data))
  /\ WholeBody \/ HeapLacksBoundary
  => file = data

\* Once the whole body has arrived, no search ends without what it looks for
\* and none leaves the buffer, although memstr is given too great a length and
\* strstr none: only open may still fail.
BodyTaken ==
  WholeBody => at \notin {"failed", "died"} /\ ~past
------------------------------------------------------------------------------
(* What makes these invariants inductive *)

\* The buffer begins with what was received.
Received ==
  /\ got \in 1..Len(BodyOf(data))
  /\ mem \in Seq(Symbols) /\ Len(mem) >= got
  /\ \A i \in 1..got : mem[i] = BodyOf(data)[i]

\* Where each search begins in a body that is whole.
Begins ==
  [boundary |-> 1, header |-> 3, info |-> 6, skip1 |-> 8, skip2 |-> 10, skip3 |-> 12,
   end |-> 15]

\* A whole body is taken apart at its own lines.
TakenApart ==
  /\ at \in DOMAIN Begins \cup {"save", "unopened", "saved"} /\ ~past
  /\ at \in DOMAIN Begins => p = Begins[at]
  /\ at = "save" => begin = 15 /\ p = Len(data) + 15
  /\ at = "saved" /\ ~short /\ (stuck => Len(old) <= Len(data)) => file = data

\* In a body that was cut off, the search for the end begins behind the second
\* boundary, or behind the first one if the second did not arrive: it finds one
\* only in the heap.
CutOff ==
  /\ at \in DOMAIN Begins \cup {"failed", "died"}
  /\ p \in Nat \ {0}
  /\ at \in DOMAIN Begins \ {"boundary"} => p >= 2 /\ StrStr(1) # 0
  /\ at = "skip1" => got < 8 \/ p >= 8
  /\ at \in {"skip2", "skip3", "end"} => got < 8 \/ p >= 9

ReceiveInv ==
  /\ data \in Seq(Pieces) /\ old \in Seq(Pieces)
  /\ \/ got = 0 /\ at \in {"fread", "failed"} /\ p = 1 /\ ~past
     \/ /\ Received /\ at # "fread"
        /\ IF WholeBody THEN TakenApart ELSE HeapLacksBoundary => CutOff
=============================================================================
