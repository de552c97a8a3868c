SPECIFICATION FairSpec
CONSTANTS
  RxLen = 3
  Conns = 4
  MaxLost = 2
  MaxSlow = 2
  MaxDrops = 1
INVARIANTS
  TypeOK
  KeysAgree
PROPERTIES
  CleanHandshakeSucceeds
  LinkRecovers
