SPECIFICATION LogsSpec
CONSTANTS
  p1 = p1  p2 = p2
  Procs = {p1, p2}
  Names <- MCNames
  Job <- MCJob
  Before <- MCBefore
  Old <- MCOld
  Records <- MCRecords
  Header <- MCHeader
  Prefix <- MCPrefix
  Message <- MCMessage
  Newline <- MCNewline
  Nul <- MCNul
  NoFile = NoFile
  Link = Link
  ReportBound <- MCBound
  FaultBound <- MCBound
  Arguments <- MCNames
  Selections <- MCSelections
  Exports = {"g", "h"}
INVARIANTS CheckerTypeOK LogIsOwn NameHoldsLog
  ChecksWhatWasPrinted ChecksSelectedCalls
CHECK_DEADLOCK FALSE
