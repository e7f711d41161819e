SPECIFICATION Spec
CONSTANTS
  Operands <- MCOperands
  MaxArgs = 3
  Tags <- MCTags
  Lexeme <- MCLexeme
  Prio <- MCPrio
  Symbol <- MCSymbol
  Digits <- MCDigits
  Word = 1024
  MaxStrPrint = 3
  TmpBuf = 32
  Shortened <- MCShortened
  CreatFlags <- MCCreatFlags
  ULong = 1024
  LooseModes <- MCLooseModes
  PointerSize = 8
INVARIANTS TypeOK CSplits PySplits OffsetsInText VerdictRight ConstantsReadBack CutOnlyHides
