SPECIFICATION FairSpec
CONSTANTS
  u1 = u1
  u2 = u2
  Upgrades <- OneUpgrade
  Stages = 3
  MaxTime = 2
  Active <- OneActive
  FromOthers <- Pending
  Together = FALSE
PROPERTY RunningIsShown
