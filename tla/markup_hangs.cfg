CONSTANTS
  Lexeme <- MC_Lexeme
  Letters <- MC_Letters
  Templates <- MC_Templates
  MaxItems = 2
  MaxOut = 16
SPECIFICATION Spec
PROPERTIES Terminates
CHECK_DEADLOCK FALSE
