\* The upload page: a file the server knows, and then others.
SPECIFICATION UploadSpec
CONSTANTS
  Files = {f1, f2, f3}
  Known = {f1}
  Big = {}
  Empty = {}
  NoInfo = NoInfo
  Waits = {{f1, f2, f3}}
  Rushes = {}
  MaxFaults = 0
INVARIANT Md5CheckedFirst
