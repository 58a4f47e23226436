\* One request at a time, with failures and kills; and the race for the ranking.
\* Commands, Pages, Serial, ListedOnly and the bounds are set by the instances.
SPECIFICATION MCSpec
CONSTANTS
  u1 = u1  u2 = u2  m1 = m1  m2 = m2  n1 = n1  n2 = n2
  f1 = f1  f2 = f2  f3 = f3  f4 = f4  f5 = f5
  Users <- TwoUsers
  Md5s <- TwoMd5s
  Names <- TwoNames
  FileIds <- FiveFiles
  Sizes = {0}
  ShareUser = ShareUser
  NoKey = NoKey
  NoFile = NoFile
  NoMd5 = NoMd5
  NoReply = NoReply
  LexRank <- Lex
  Pages <- FirstPage
  Commands <- EveryCommand
  UniqueKeys = TRUE
  Serial = TRUE
  ListedOnly = TRUE
  MaxRequests = 7
  MaxFaults = 2
SYMMETRY SerialSymmetry
INVARIANTS
  CountersDrift
  LeakBounded
  AnswersTrue
  ListedFilesStored
  RankingTrue
  RankingComplete
