SPECIFICATION FairSpec
CONSTANTS
  none = none
  NoDecl = none
  tcalls <- MCTcalls
  Sources <- MCSources
INVARIANTS TypeOK ChecksFollowTarget ResultIsWoven
PROPERTY PassEnds
