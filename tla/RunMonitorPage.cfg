SPECIFICATION FairSpec
CONSTANTS
  ca = ca
  Nil = Nil
  Conversations = {ca}
  MaxRuns = 1
  MaxPauses = 1
  MaxPolls = 2
  MaxTasks = 2
  MaxFaults = 1
CHECK_DEADLOCK FALSE
INVARIANTS TypeOK ShownIsSelected
PROPERTIES SessionNeverGoesBack LiveRunIsFollowed SettledRunIsShown FollowingEnds
