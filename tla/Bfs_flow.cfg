CONSTANTS
  src = src
  ann = ann
  ben = ben
  cat = cat
  dan = dan
  hub = hub
  pool = pool
  h1 = h1
  h2 = h2
  h3 = h3
  h4 = h4
  h5 = h5
  h6 = h6
  h7 = h7
  h8 = h8
  h9 = h9
  Address <- People
  Hash <- Hashes
  Row <- TownLines
  Block = {1, 2, 3, 4}
  Blob <- Town
  Index <- TownListing
  Count <- Counters
  ListCap = 3
  MaxDegree = 3
  Source = src
  FromBlock = 1
  ToBlock = 3
  Requests <- OutputRequest
SPECIFICATION Spec
INVARIANTS FlowRespected
CHECK_DEADLOCK FALSE
