\* Every body with up to three pieces of data, cut off anywhere, with up to two
\* symbols of any kind behind it; every text of up to five characters; every
\* message of up to ten blocks of four bytes, with words of six bits, so that the
\* low one wraps every 8 bytes.  The bytes of base64 have all patterns of set and
\* unset bits at the borders of the sextets.
SPECIFICATION MCSpec
CONSTANTS
  Boundary = Boundary
  CRLF = CRLF
  Header = Header
  Info = Info
  Nul = Nul
  Byte = Byte
  MaxData = 3
  MaxHeap = 2
  Chars = {"c", "x", " ", ".", "&", "=", "#"}
  Spaces = {" "}
  Key <- OneCharacter
  MaxLen = 5
  Bytes = {0, 1, 2, 3, 8, 15, 16, 63, 64, 85, 128, 170, 240, 255}
  MaxOctets = 4
  Block = 4
  Length = 2
  Word = 64
  MaxBytes = 40
INVARIANTS
  SavedWhole
  BodyTaken
  TextsRead
  Base64Right
  DigestStandard
