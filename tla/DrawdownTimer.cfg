SPECIFICATION FairSpec
CONSTANTS
  Worth = {5, 70, 80, 90, 100}
  MaxDrawdown = 15
  Cooldown = 3
  OneShot = TRUE
PROPERTY
  HaltEnds
