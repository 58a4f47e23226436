\* The programs interleaved call by call, with failures and kills.  Commands,
\* UniqueKeys and ListedOnly are set by each instance of MCConcurrent, and the
\* bounds here are the larger ones of its instances.
SPECIFICATION MCSpec
CONSTANTS
  u1 = u1  u2 = u2  m1 = m1  m2 = m2  n1 = n1  n2 = n2
  f1 = f1  f2 = f2  f3 = f3  f4 = f4
  Users <- TwoUsers
  Md5s <- OneMd5
  Names <- OneName
  FileIds <- FourFiles
  Sizes = {0}
  ShareUser = ShareUser
  NoKey = NoKey
  NoFile = NoFile
  NoMd5 = NoMd5
  NoReply = NoReply
  LexRank <- Lex
  Pages <- FirstPage
  Commands <- DeployedCommands
  UniqueKeys = FALSE
  Serial = FALSE
  ListedOnly = FALSE
  MaxRequests = 5
  MaxFaults = 2
SYMMETRY Symmetry
INVARIANTS
  TypeOK
  FileInfoBacked
  ObjectsNotShared
  UrlNamesObject
  UserCountPositive
  ShareRowsListed
  StaleMembersBounded
  SharedAgain
PROPERTY ObjectsLive
