SPECIFICATION FairSpec
CONSTANTS
  Wrap = 8
  Period = 1
  NudgeIdle = 4
  NudgeQuiet = 2
  MaxAge = 6
PROPERTIES EventPerEnable AnimationPumped CloseEnds
CHECK_DEADLOCK FALSE
