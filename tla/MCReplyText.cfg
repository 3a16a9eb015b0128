SPECIFICATION FairSpec
CONSTANTS
  Letter = Letter
  Mark = Mark
  MaxLines = 3
  Punct <- MCPunct
  Tokens <- MCTokens
  Char <- MCChar
INVARIANTS TypeOK StreamReadWhole ClausesAreWhole SpeechIsComplete RequestInOrder OneVerdict
PROPERTIES KeepsScript RequestEnds
CHECK_DEADLOCK FALSE
