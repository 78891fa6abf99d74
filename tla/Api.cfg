CHECK_DEADLOCK FALSE
CONSTANTS
  Nil = Nil
  ann = ann
  bob = bob
  cat = cat
  dot = dot
  h1 = h1
  h2 = h2
  h3 = h3
  h4 = h4
  h5 = h5
  ether = ether
  coin = coin
  Addr = {ann, bob, cat, dot}
  Hash = {h1, h2, h3, h4, h5}
  Currency = {ether, coin}
  Row <- Lines
  Source = ann
  Targets = {cat, dot}
  Short = {dot}
  Depths = {0, 1}
  FromBlocks = {3}
  ToBlocks = {2}
  LastBlock = 9
  Count <- SomeCounts
  Text = {"", "Exchange", "Mixer", "high_risk"}
  Labels <- SomeLabels
  Labelled <- Known
  Busy = {bob}
  MaxNews = 1
  MaxFaults = 1
SPECIFICATION FairSpec
INVARIANTS TypeOK MapsKept Conserved AnswerWhole PathsTell NodesTrue
PROPERTIES Answered
