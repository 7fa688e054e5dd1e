SPECIFICATION Spec
CONSTANTS
  Docs <- AnyDocs
  MaxAny = 4
  AnyToken = {"NAME", "NUMBER", "STRING", "NIL", "COMMENT", "EQUALS", "COMMA", "SEMICOLON", "SQUARE_OPEN", "SQUARE_CLOSE", "CURLY_OPEN", "CURLY_CLOSE", "INVALID"}
  MaxTokens = 4
  Alphabet = {"COMMENT", "NAME", "STRING", "EQUALS", "SEMICOLON", "SQUARE_OPEN", "SQUARE_CLOSE", "CURLY_OPEN", "CURLY_CLOSE", "INVALID"}
INVARIANT
  GrammarAccepted
