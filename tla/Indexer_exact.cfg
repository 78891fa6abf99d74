CONSTANTS
  Nil = Nil
  alice = alice
  carol = carol
  coin = coin
  stone = stone
  t1 = t1
  t2 = t2
  t3 = t3
  t4 = t4
  t5 = t5
  Addr = {alice, carol, coin, stone}
  Tokens = {coin, stone}
  Hashes = {t2, t3, t4, t5}
  Chain <- TokenChain
  Unreadable = {stone}
  Tip = 2
  EnrichAt = 2
  Seeds <- Seeded
  MaxFaults = 1
  Ready = 2
SPECIFICATION Spec
INVARIANTS TypeOK ExactSoFar IndexSound QueueJustified RowsKept
