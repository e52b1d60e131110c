\* Nodes of six pairs over leaves of four bytes: 180 bytes make four layers of
\* 45 leaves, which the lists of 16 + 5 * 6 node updates have room for.
\* Names of up to three letters, in pages of two and one: three pages at most.
SPECIFICATION BothSpec
CONSTANTS
  MaxKeys = 6
  LeafSize = 4
  StackSize = 5
  NupdSize = 16
  Nsfslite = FALSE
  NoRequest = NoRequest
  MaxOps = 3
  MaxSteps = 250
  Requests <- MCRequests
  Clients = {k1, k2}
  Names <- MCNames
  Hash <- MCHash
  HeadCap = 2
  TailCap = 1
  NVarPages = 8
  MaxVarCalls = 4
  MaxVarFails = 1
  NoCall = NoCall
  Nobody = Nobody
INVARIANTS
  BothTypeOK
  TreeValid
  RequestsFinish
  ChainsExact
  TransactionAlone
PROPERTIES
  ImplementsByteArray
  ImplementsNames
