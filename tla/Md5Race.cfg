\* A delete overtakes an md5 check that has found the content.
SPECIFICATION Spec
CONSTANTS
  u1 = u1  u2 = u2  m1 = m1  m2 = m2  n1 = n1  n2 = n2
  f1 = f1  f2 = f2  f3 = f3  f4 = f4
  Users <- TwoUsers
  Md5s <- OneMd5
  Names <- OneName
  FileIds <- ThreeFiles
  Sizes = {0}
  ShareUser = ShareUser
  NoKey = NoKey
  NoFile = NoFile
  NoMd5 = NoMd5
  NoReply = NoReply
  LexRank <- Lex
  Pages <- FirstPage
  Commands <- DeployedCommands
  UniqueKeys = TRUE
  Serial = FALSE
  ListedOnly = TRUE
  MaxRequests = 3
  MaxFaults = 0
INVARIANT Md5SuccessRecorded
