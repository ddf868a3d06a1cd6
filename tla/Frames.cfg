SPECIFICATION FairSpec
CONSTANTS
  Models = {"P16", "P506", "BH1000"}
  Base = 5
  STX = 2
  STX2 = 3
  Clear = 4
  NumCounts = 2
  Counts = {2}
  Noise = {1, 2}
  Size = 5
  Size2 = 6
  P506Size = 4
  BH1000Size = 6
  Radix = 2
  Zero = 3
  NumDigits = 2
  RingSize = 9
  MsgMod = 2
  NoReading = NoReading
  MaxFrames = 3
  MaxFaults = 1
INVARIANTS
  FramesTypeOK
  InStep
PROPERTIES
  ReadingAsShown
  DamagedRejected
  Recovers
