SPECIFICATION Spec
CONSTANTS
  Node <- MCNode
  tree <- MCTree
  Functions <- MCFunctions
INVARIANT StatementCallsLocated
