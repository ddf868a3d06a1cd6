SPECIFICATION Spec

CONSTANTS
  Chars <- Characters
  Lines <- ShellLines
  AddressLines <- AnAddress
  DefaultConfig <- Default
  DigitValue <- TwoDigits
  IntMod = 100
  MaxPort = 50
  Erase = Erase
  NUL = NUL
  LineLen = 4
  AnswerLen = 3
  PasswdLen = 3
  SerialLen = 3
  MacLen = 2
  MaxSaves = 2

PROPERTY ConfirmedByYes
