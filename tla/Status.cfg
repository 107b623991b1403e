SPECIFICATION FairSpec
CONSTANTS
  u1 = u1
  u2 = u2
  Upgrades <- TwoUpgrades
  Stages = 3
  MaxTime = 2
  Active <- OneActive
  FromOthers <- Pending
  Together = FALSE
INVARIANT TypeOK
INVARIANT MasterCompleteIsTrue
INVARIANT FinishedIsSeen
INVARIANT ErrorOnlyIfCrowded
PROPERTY StatusAnswered
