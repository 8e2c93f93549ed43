CONSTANTS
  o1 = o1
  o2 = o2
  g1 = g1
  g2 = g2
  r1 = r1
  r2 = r2
  Orders = {o1, o2}
  Codes = {g1}
  Redeemers = {r1}
  Amounts = {1, 2}
  Tiers <- MCTiers
  Nothing = Nothing
  MaxSpent = 2
  SignupBonus = 0
SPECIFICATION FairSpec
INVARIANTS ChargedOnce OwedIsTrue
PROPERTY SuccessIsRecorded
CHECK_DEADLOCK FALSE
