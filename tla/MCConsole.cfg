CONSTANTS
  k = k
  lshift = lshift
  INPUT_BUFFER_SIZE = 3
  Keys <- MCKeys
  ShiftKeys <- MCShifts
  MaxKeys = 4
  TTY_BUFFER_SIZE = 2
  Width = 4
  Height = 2
  TabStop = 4
  PageHeight = 10
  Char <- MCChar
  NulChar = "nul"
  NewLine = "nl"
  BackSpace = "bs"
  Tab = "tab"
  Return = "cr"
  Space = " "
  Prompt <- MCPrompt
  HelpName <- MCHelp
  ClearName <- MCClear
  EchoPrefix <- MCEcho
  HelpText <- MCHelp
  UnknownHead <- MCHelp
  UnknownTail <- MCUnknown
  KeyChar <- MCKeyChar
SPECIFICATION ConsoleSpec
INVARIANTS
  TypeOK
  LockDiscipline
  InterruptPerByte
  EndToEnd
  PollNotStale
  CommandsAsTyped
PROPERTIES
  WedgeIsForever
  EveryKeyHandled
  ImplementsQueue
