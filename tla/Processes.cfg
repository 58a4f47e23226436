\* The processes of cgi_upload, with failing calls and kills, under
\* fairness of every process.
SPECIFICATION FairSpec
CONSTANTS
  Pids = {p1, p2, p3, p4}
  First = p1
  NoPid = NoPid
  FileIds = {f1, f2, f3}
  NoFile = NoFile
  MaxRequests = 3
  MaxExecFaults = 2
  MaxFaults = 1
INVARIANTS
  ProcessTypeOK
  RecordedOnce
  OneAtWork
  ZombiesBounded
  ExecutedUploadStored
PROPERTY RequestAnswered
