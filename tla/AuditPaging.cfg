CONSTANTS
  Kinds = {k1, k2}
  Any = Any
  MaxLimit = 2
  MaxTime = 1
  MaxWrites = 3
SPECIFICATION PagingSpec
INVARIANTS PagingInv PagesDescend WalkIsComplete NoEmptyPage
