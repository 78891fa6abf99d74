CONSTANTS
  Nil = Nil
  alice = alice
  carol = carol
  coin = coin
  stone = stone
  t1 = t1
  t2 = t2
  t3 = t3
  t4 = t4
  t5 = t5
  Addr = {alice}
  Tokens = {}
  Hashes = {t1, t2, t3}
  Chain <- NarrowChain
  Unreadable = {}
  Tip = 2
  EnrichAt = 2
  Seeds <- Seeded
  MaxFaults = 2
  Ready = 1
SPECIFICATION FairSpec
INVARIANTS NoGap DuplicationBounded
PROPERTIES LedgerSpec CatchesUp
