SPECIFICATION Spec
CONSTANTS
  Modes = {"lock"}
  p1 = p1 p2 = p2 p3 = p3 t1 = t1 t2 = t2 t3 = t3 t4 = t4
  o1 = o1 o2 = o2 o3 = o3 a1 = a1 a2 = a2 a3 = a3
  Threads <- MCThreads
  Objs <- MCObjs
  Null = Null
  Users <- MCUsers
  Cases <- MCCases
  Sizes <- MCSizes
  W = 64
  MaxRaces = 1
  MaxDrift = 2
  MaxTaken = 3
  Clients <- MCThreads
  Attrs <- MCAttrs
  Rows = 2
  CellOf <- MCCellOf
  NoAttr = NoAttr
  MaxDepth = 1
  MaxReports = 3
  MaxCollects = 2
  Servers <- MCServers
  Senders <- MCSenders
  Ring = 4
  Piece = 1
  Long = 4
  Limit = 1
  UInt32 = 3
  MaxSent = 3
  MaxCall = 0
  Procs <- MCProcs
  WorkerThreads <- MCWorkerThreads
  ProcOf <- MCProcOf
  MaxOpen = 2
  MaxNodes = 6
  MaxOps = 3
  MetaTags = {1, 2}
  ChildTags = {11, 16}
  KeyVals <- MCKeyVals
  FieldVals <- MCFieldVals
  Inserts <- MCInserts
  Trees <- MCTrees
CHECK_DEADLOCK FALSE
INVARIANT MutualExclusion
