SPECIFICATION FairSpec
CONSTANTS
  Sources <- MCSources
INVARIANTS
  TokensInOrder
  NumberSyntax
  AcceptsGrammar
  TreeIsProgram
  ReprReadsBack
  ErrorsShowText
PROPERTIES
  ImplementsLexicon
  Finishes
CHECK_DEADLOCK FALSE
