CONSTANTS
  First = 8
  Top = 18
  Owners = {1, 8, 9, 10, 11, 12, 13, 14, 15, 16, 17, 18}
  MaxReq = 3
  PspParas = 1
  Word = 64
  MinKeep = 1
  Images <- MCImages
  EnvParas = {1}
VIEW NoAnswer
SPECIFICATION ProcSpec
INVARIANT BlocksOwned
PROPERTIES ExecAllOrNothing BlocksKept MemoryNeutral
