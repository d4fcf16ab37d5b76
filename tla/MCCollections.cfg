SPECIFICATION SumSpec
CONSTANTS
  Byte <- MCByte
  Keys <- OneKeys
  Hash <- OneHash
  Values <- OneValues
  Sizes <- LargerSizes
  Others <- OneOthers
  Fill = 1
  MapAlign = 1
  MaxCount = 9
  MaxData = 140000
  Requests <- MCRequests
  ItemSizes <- MCItemSizes
  Active = {"hash", "alloc", "set", "zset"}
VIEW LiveView
INVARIANTS HVerify MapNoItem AllocFits SetsSound
PROPERTIES ImplementsHash GrowsEnough ImplementsSet ImplementsZSet
