\* Progress under fairness, without failures.  Commands and ListedOnly are set
\* by each instance of MCLiveness.
SPECIFICATION MCFairSpec
CONSTANTS
  u1 = u1  u2 = u2  m1 = m1  m2 = m2  n1 = n1  n2 = n2
  f1 = f1  f2 = f2  f3 = f3  f4 = f4
  Users <- OneUser
  Md5s <- OneMd5
  Names <- TwoNames
  FileIds <- TwoFiles
  Sizes = {0}
  ShareUser = ShareUser
  NoKey = NoKey
  NoFile = NoFile
  NoMd5 = NoMd5
  NoReply = NoReply
  LexRank <- Lex
  Pages <- FirstPage
  Commands <- DeployedCommands
  UniqueKeys = TRUE
  Serial = FALSE
  ListedOnly = TRUE
  MaxRequests = 4
  MaxFaults = 0
PROPERTIES
  RequestsEnd
  UnlinkedRemoved
