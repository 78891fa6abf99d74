CONSTANTS
  Nil = Nil
  alice = alice
  carol = carol
  coin = coin
  stone = stone
  t1 = t1
  t2 = t2
  t3 = t3
  t4 = t4
  t5 = t5
  Addr = {alice}
  Tokens = {coin}
  Hashes = {t1, t2, t3}
  Chain <- NarrowChain
  Unreadable = {}
  Tip = 2
  EnrichAt = 9
  Seeds <- Unseeded
  MaxFaults = 0
  Ready = 0
SPECIFICATION FairSpec
PROPERTIES FreshStart
