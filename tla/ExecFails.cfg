\* execlp of a FastDFS client fails.
SPECIFICATION Spec
CONSTANTS
  Pids = {p1, p2, p3}
  First = p1
  NoPid = NoPid
  FileIds = {f1}
  NoFile = NoFile
  MaxRequests = 1
  MaxExecFaults = 1
  MaxFaults = 0
INVARIANT UploadStored
