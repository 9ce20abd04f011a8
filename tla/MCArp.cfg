SPECIFICATION FairSpec
CONSTANTS
  Nodes <- MCNodes
  AddrOf <- MCAddrOf
  Unset = 0
  MaxBegin = 2
INVARIANT ResolvedIsAsked
PROPERTY Resolves
