SPECIFICATION FairSpec
CONSTANTS
  Producers = {ta, tb}
  Consumers = {tb, tc}
  Quota <- MCQuota
  ta = ta
  tb = tb
  BlockSize = 2
  Blocks = {k1, k2}
  Pool = {k1}
  NoThread = NoThread
  NoBlock = NoBlock
  Raw = Raw
INVARIANTS
  NeverPastTail
  CountsMatchElements
PROPERTIES
  ImplementsFairBag
