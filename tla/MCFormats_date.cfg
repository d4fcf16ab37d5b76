SPECIFICATION SumSpec
CONSTANTS
  EntryIds <- ThreeIds
  SearchIds <- SearchFor
  Groups = {g1, g2}
  Consumers = {c1, c2}
  Times = {20}
  Claims <- SomeClaims
  NsPerMs = 10
  MaxEntries = 3
  MaxPending = 2
  MaxCount = 2
  MaxSize = 70
  Extra = 4
  Places = {100, 300}
  MaxCalls = 3
  MaxDepth = 3
  Active = {"sass", "form"}
  MfHeaders <- SomeHeaders
  SassDates <- SomeDates
VIEW Look
INVARIANT SassEncoded
CHECK_DEADLOCK FALSE
