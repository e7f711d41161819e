SPECIFICATION FairSpec
CONSTANTS
  Node <- MCNode
  tree <- MCTree
  Functions <- MCFunctions
INVARIANTS
  TypeOK
  DepthMatchesStack
  ExprContained
  PrefixOnFirstLeaf
  LocationsPrinted
  NothingInItself
PROPERTY WalksEnd
