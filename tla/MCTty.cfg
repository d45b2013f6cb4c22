CONSTANTS
  TTY_BUFFER_SIZE = 4
  Width = 5
  Height = 2
  TabStop = 4
  NUL = "nul"
  NewLine = "nl"
  BackSpace = "bs"
  Tab = "tab"
  Return = "cr"
  Space = " "
  Char <- MCChar
  KeyChars <- MCKeyChars
  Prompt <- MCPrompt
  HelpName <- MCHelpName
  ClearName <- MCClearName
  EchoPrefix <- MCEchoPrefix
  HelpText <- MCHelpText
  UnknownHead <- MCUnknownHead
  UnknownTail <- MCUnknownTail
  MaxKeys = 7
  PageHeight = 40
SPECIFICATION Spec
INVARIANTS
  ScreenIsTail
  SeenIsLine
PROPERTIES
  ImplementsLine
