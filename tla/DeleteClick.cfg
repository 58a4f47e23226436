\* A page next to a client that sends all the fields.
SPECIFICATION DeleteSpec
CONSTANTS
  Owners = {u1, u2}
  Names = {k1, k2}
  Garbage = Garbage
  Counts = {4}
  MaxActs = 4
INVARIANT ClickedGone
