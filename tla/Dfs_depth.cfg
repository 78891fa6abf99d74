CONSTANTS
  src = src
  ann = ann
  ben = ben
  cat = cat
  dan = dan
  hub = hub
  pool = pool
  h1 = h1
  h2 = h2
  h3 = h3
  h4 = h4
  h5 = h5
  h6 = h6
  h7 = h7
  h8 = h8
  h9 = h9
  Address <- People
  Hash <- Hashes
  Row <- DiamondLines
  Block = {1, 2, 3, 4, 5}
  Blob <- Diamond
  Index <- DiamondListing
  Count <- Counters
  ListCap = 4
  MaxDegree = 3
  Source = src
  FromBlock = 1
  ToBlock = 5
  Requests <- DeepRequest
SPECIFICATION Spec
INVARIANTS DepthComplete
CHECK_DEADLOCK FALSE
