SPECIFICATION FairSpec
CONSTANTS
  Threads = {t1, t2, t3}
  Positions = {0,2,4}
  FanOut = 2
  PerPage = 2
  Pages = {1,2,3}
  NoPage = NoPage
  MaxCalls = 3
INVARIANTS PagesOwned Stable Distinct
PROPERTY WalkEnds
