SPECIFICATION FairSpec
CONSTANTS
  Regs = {"acOn", "dcOn", "block"}
  Values = {0, 1}
  Words <- MCWords
  Writable = {"acOn", "dcOn"}
  ReadTries = 2
  WriteTries = 2
  Readbacks = 2
  RxLen = 1
  NoCall = NoCall
  MaxUncommitted = 2
  MaxLost = 1
  MaxChanges = 1
  MaxStragglers = 0
INVARIANT
  TypeOK
PROPERTIES
  ServesRegisters
  CallsReturn
