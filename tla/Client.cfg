SPECIFICATION Spec
CONSTANTS
  RequestLens = {2, 3}
  ResponseLens = {3}
  MaxRequest = 2
  MaxResponse = 3
  MaxQueries = 3
  PerSet = 2
  MaxRows = 6
  Fields = 2
  CryptKeys = {"k1"}
  Chars = {"a", "b"}
  Block = 2
  Prefix = 1
  MaxEncrypt = 4
  MaxText = 6
  childNum = 2
  x1 = x1 x2 = x2 x3 = x3 x4 = x4
  Pids <- MCPids
  NoPid = NoPid
  Group = 4
  Width64 = 25
  Width32 = 10
  Tags = {1, 2}
  Signed <- MCSigned
  Fixed = {0, 777}
  Texts <- MCTexts
  Capacities = {5, 40}
  MaxFields = 2
CHECK_DEADLOCK FALSE
INVARIANTS OwnAnswer RowsOnce RoundTrip WireFaithful OneWorkerPerNumber
PROPERTIES AnswersInOrder  LostOnlyUnrecorded Restarted
