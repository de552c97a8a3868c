SPECIFICATION Spec
CONSTANTS
  Regs = {"acOn", "dcOn", "block"}
  Values = {0, 1}
  Words <- MCWords
  Writable = {"acOn", "dcOn"}
  ReadTries = 2
  WriteTries = 2
  Readbacks = 2
  RxLen = 1
  NoCall = NoCall
  MaxUncommitted = 2
  MaxLost = 0
  MaxChanges = 0
  MaxStragglers = 1
PROPERTIES
  ServesRegisters
