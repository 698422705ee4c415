CONSTANTS
  First = 1
  Top = 8
  Owners = {50, 51}
  MaxReq = 4
VIEW ChainOnly
SPECIFICATION Spec
INVARIANTS ChainOK NoAdjacentFree
PROPERTY ImplementsMap
