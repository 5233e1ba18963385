SPECIFICATION Spec
CONSTANT MaxDepth = 3
CONSTANT MaxU32 = 15
CONSTANT MaxNrTypes = 5
CONSTANT MaxStrOffset = 2
CONSTANT MinGrow = 2
CONSTANT FirstSize = 3
CONSTANT VlanMaxDepth = 2
INVARIANT SizesExact
INVARIANT ExtRecordsExact
INVARIANT TypesEntered
INVARIANT RetryCorrects
INVARIANT LinesFound
INVARIANT SectionsResolve
INVARIANT LastOptionDecides
INVARIANT HeadersAgree
CHECK_DEADLOCK FALSE
INVARIANT DedupExact
INVARIANT NetlinkExact
