SPECIFICATION FairSpec
CHECK_DEADLOCK FALSE
CONSTANTS
  f1 = f1
  f2 = f2
  f3 = f3
  f4 = f4
  q1 = q1
  q2 = q2
  wire = wire
  blog = blog
  a1 = a1
  a2 = a2
  a3 = a3
  a4 = a4
  b1 = b1
  b2 = b2
  b3 = b3
  Source <- MCSource
  Stages <- MCStages
  Slots = 1
  Attempts = 2
  Domain <- MCDomain
  DomainOf <- MCDomainOf
  Known <- MCKnown
  Article <- MCArticle
  Url <- MCUrl
  Words <- MCWords
  From <- MCFrom
  Date <- MCDate
  Stopwords = {"the"}
  SharedWords = 2
  MaxCluster = 2
  ArticlesOf <- MCArticlesOf
  Base <- MCBase
INVARIANTS
  CollectionInv
  OneSourceCostsOneSource
  RegistryFollowsOrder
  KeptIsBest
  ClustersAreSound
PROPERTIES
  CollectionEnds
