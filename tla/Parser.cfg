SPECIFICATION FairSpec
CONSTANTS
  Docs <- MCDocs
  MaxAny = 4
  AnyToken = {"NAME", "NUMBER", "STRING", "NIL", "COMMENT", "EQUALS", "COMMA", "SEMICOLON", "SQUARE_OPEN", "SQUARE_CLOSE", "CURLY_OPEN", "CURLY_CLOSE", "INVALID"}
  MaxTokens = 8
  Alphabet = {"COMMENT", "NAME", "STRING", "EQUALS", "SEMICOLON", "SQUARE_OPEN", "SQUARE_CLOSE", "CURLY_OPEN", "CURLY_CLOSE", "INVALID"}
INVARIANTS
  TextIsOfEvent
  ErrorIsAtItsToken
  DepthIsNesting
  AcceptsExactlyDocuments
PROPERTIES
  ImplementsEventStream
  EventsMoveForward
  ParsingEnds
