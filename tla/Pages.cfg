\* The pages of the web client: three files one after the other; two at once, or
\* a known, a too big and an empty one at once; two pages of files and clients
\* that send all the fields or some; a form that is sent again while it waits.
SPECIFICATION MCSpec
CONSTANTS
  Files = {f1, f2, f3, known, big, empty}
  Known = {known}
  Big = {big}
  Empty = {empty}
  NoInfo = NoInfo
  Waits = {{f1, f2, f3}}
  Rushes = {{f1, f2}, {known, big, empty}}
  MaxFaults = 1
  Owners = {o1, o2}
  Names = {k1, k2}
  Garbage = Garbage
  Counts = {0, 1, 2, 3, 4}
  MaxActs = 4
  Users = {u1, u2}
  Nobody = Nobody
  MaxEvents = 5
INVARIANTS
  ContentTrue
  LeftKnown
  ListsProved
  StoredCurrent
PROPERTIES
  FilesArrive
  PageSettles
  OwnersDelete
