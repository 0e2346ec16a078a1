SPECIFICATION FairSpec
CONSTANTS
  Handlers = {w1, w2}
  MaxId = 7
  Requested = 3
  DefaultLimit = 1
  MaxLimit = 2
  Matching <- AllButSecond
INVARIANTS
  TypeOK
  PagesDescend
  NothingIsSkipped
PROPERTIES
  PagingEnds
