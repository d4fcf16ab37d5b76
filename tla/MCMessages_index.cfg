SPECIFICATION SumSpec
CONSTANTS
  MaxSize = 36
  Extra = 4
  Prefix = 16
  Places = {100, 300}
  BufferSizes = {8, 21}
  Roots <- SomeRoots
  Kinds <- SomeKinds
  Fields <- SomeFields
  Keys = {7}
  MaxCalls = 3
  MaxDepth = 3
  Owners = {a, b, c}
  Sizes = {0, 3, 6, 9}
  Word = 2
  Count = 3
  MaxBlocks = 3
  Edge = Edge
  Unset = Unset
  Fids = {3, 4, 6}
  Names <- DictNames
  EntryKinds <- TheKinds
  EnumMaps <- TheMaps
  NameHash <- TheHash
  TypeHash <- TheTypeHash
  NameWords <- TheWords
  MinNames = 2
  MinShift = 1
  MaxBuild = 4
  NONE = NONE
  Active = {"dict"}
VIEW Look
INVARIANT IndexByFid
