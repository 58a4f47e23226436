------------------------------- MODULE CgiText -------------------------------
(***************************************************************************)
(* The text helpers of src/common/cgi_util.c that the programs call on     *)
(* what others send: trim_space (upload, on the id that fdfs_upload_file   *)
(* prints), query_parse_key_value (sharefiles and sharefilesop, on the     *)
(* query of a request) and get_file_suffix (upload, on a file name).  Each *)
(* is an operator over every text up to a bound.  Where the C code reads   *)
(* past the end, or copies between overlapping ranges, its result is any   *)
(* of the texts that may come out: the operators return sets of texts.     *)
(***************************************************************************)
EXTENDS Integers, Sequences, FiniteSetsExt

CONSTANTS
  Chars,   \* the characters of a text, without NUL
  Spaces,  \* those for which isspace holds
  Key,     \* the name that is looked for in a query
  MaxLen   \* bound on the length of a text

ASSUME CgiTextAssumption ==
  Spaces \subseteq Chars /\ Key \in Seq(Chars) /\ Key # <<>> /\ MaxLen \in Nat

VARIABLE text

Texts(n) == UNION {[1..m -> Chars] : m \in 0..n}

TextInit == text = <<>>
Append1(c) == Len(text) < MaxLen /\ text' = Append(text, c)
Complete == Len(text) = MaxLen /\ UNCHANGED text
TextNext == Complete \/ \E c \in Chars : Append1(c)
TextSpec == TextInit /\ [][TextNext]_text

------------------------------------------------------------------------------
(* trim_space *)

\* The first loop stops at a character that is no space, or at the end.
FirstKept(s) == Min({i \in 1..(Len(s) + 1) : i <= Len(s) => s[i] \notin Spaces})

\* Faulty variant: the loop does not look at the last character.
LastKeptShort(s) ==
  Max({j \in 0..(Len(s) - 1) : j > FirstKept(s) => s[j] \notin Spaces} \cup {0})

\* The second one runs back to a character that is no space, or to the place
\* where the first one stopped.
LastKept(s) ==
  Max({j \in 0..Len(s) : j > FirstKept(s) => s[j] \notin Spaces})

\* strncpy moves what is kept to the front: without overlap unless the spaces in
\* front are fewer than the characters behind them.
TrimSpace(s) ==
  LET i == FirstKept(s)
      count == LastKept(s) - i + 1 IN
  IF i > 1 /\ i - 1 < count THEN [1..count -> Chars]
                            ELSE {SubSeq(s, i, i + count - 1)}

------------------------------------------------------------------------------
(* query_parse_key_value *)

\* The places where strstr may find the key, and the one it returns.
KeyAt(s) == {i \in 1..(Len(s) - Len(Key) + 1) : SubSeq(s, i, i + Len(Key) - 1) = Key}

\* Faulty variant: a value ends at a fragment only.
ValueEndLong(s, from) == Min({i \in from..(Len(s) + 1) : i <= Len(s) => s[i] = "#"})

\* The value ends at the end of the query, at # and at &.
ValueEnd(s, from) ==
  Min({i \in from..(Len(s) + 1) : i <= Len(s) => s[i] \in {"#", "&"}})

\* The values that may be written: none when the key is not found; what the
\* memory holds when the query ends with the key, as the character behind the
\* key is skipped unread.
QueryParseKeyValue(s) ==
  IF KeyAt(s) = {} THEN {}
  ELSE LET from == Min(KeyAt(s)) + Len(Key) + 1 IN
       IF from > Len(s) + 1 THEN Texts(MaxLen)
                            ELSE {SubSeq(s, from, ValueEnd(s, from) - 1)}

------------------------------------------------------------------------------
(* get_file_suffix *)

Null == <<"n", "u", "l", "l">>

\* Faulty variant: the search begins at the front.
DotFirst(s) == Min({i \in 1..Len(s) : s[i] = "."} \cup {Len(s) + 1})

\* The loop runs from the terminating NUL to the last dot, or to the start.
Dot(s) == Max({1} \cup {i \in 1..Len(s) : s[i] = "."})

GetFileSuffix(s) ==
  LET k == Dot(s) IN
  IF k <= Len(s) /\ s[k] = "." /\ k < Len(s) THEN SubSeq(s, k + 1, Len(s)) ELSE Null

------------------------------------------------------------------------------
(* Properties *)

AllSpaces(s) == \A i \in 1..Len(s) : s[i] \in Spaces
Bare(s) == s # <<>> => s[1] \notin Spaces /\ s[Len(s)] \notin Spaces

\* trim_space leaves exactly the spaces at both ends out, down to texts that are
\* empty or nothing but spaces; the length is right even where strncpy's ranges
\* overlap, and so is the text when there is no space in front, which is what
\* upload relies on for the file id.
TrimmedBare ==
  \E i \in 1..(Len(text) + 1), j \in 0..Len(text) :
    LET kept == SubSeq(text, i, j) IN
    /\ j >= i - 1
    /\ Bare(kept)
    /\ AllSpaces(SubSeq(text, 1, i - 1)) /\ AllSpaces(SubSeq(text, j + 1, Len(text)))
    /\ \A r \in TrimSpace(text) :
         Len(r) = Len(kept) /\ (i = 1 => r = kept)

\* A parameter of a query, name=value between & up to #, begins at i and ends
\* at j.
Parameter(s, i, j) ==
  /\ i = 1 \/ s[i - 1] = "&"
  /\ j >= i - 1
  /\ j = Len(s) \/ s[j + 1] \in {"&", "#"}
  /\ \A k \in 1..j : s[k] # "#" /\ (k >= i => s[k] # "&")

\* query_parse_key_value returns the value of the parameter that has the key as
\* its name, whenever that name is the first place where the key occurs in the
\* query and a = follows it, as in the queries the pages send.
QueryRead ==
  \A i \in 1..(Len(text) + 1), j \in 0..Len(text) :
    LET value == i + Len(Key) + 1 IN
    (Parameter(text, i, j) /\ KeyAt(text) # {} /\ i = Min(KeyAt(text)) /\ value <= j + 1
       /\ text[value - 1] = "=")
      => QueryParseKeyValue(text) = {SubSeq(text, value, j)}

\* The suffix in file_info.type is what stands behind the last dot of the name,
\* and "null" for a name that has no dot or ends in one.
SuffixRead ==
  LET Plain(r) == r # <<>> /\ \A i \in 1..Len(r) : r[i] # "."
      Behind == {SubSeq(text, i + 1, Len(text)) : i \in {k \in 1..Len(text) : text[k] = "."}}
      suffix == GetFileSuffix(text) IN
  \/ suffix \in Behind /\ Plain(suffix)
  \/ suffix = Null /\ \A r \in Behind : ~Plain(r)

\* trim_space leaves out exactly the spaces at both ends (of a text that begins
\* with one only the length is claimed, as its strncpy overlaps),
\* query_parse_key_value returns the value of the parameter with the key as its
\* name, if the key occurs there first, and get_file_suffix what follows the last
\* dot, or null.
TextsRead == TrimmedBare /\ QueryRead /\ SuffixRead
=============================================================================
