CONSTANTS
  c1 = c1
  c2 = c2
  p1 = p1
  p2 = p2
  Creators = {c1, c2}
  Payers = {p1, p2}
  Handlers = {c1, c2, p1, p2}
  Free = Free
  Nobody = Nobody
  SlowHandlers = FALSE
  MaxFaults = 1
  MaxHour = 2
  MaxBills = 3
  Prices = {0, 1}
  SignupBonus = 1
  ChargeAmounts = {2}
  MaxCharges = 1
  MaxRequests = 1
SPECIFICATION FairSpec
INVARIANTS TypeOK HoursOnce PaidOnce LedgerIsTrue
PROPERTIES HoursAreBilled BillsArePaid
CHECK_DEADLOCK FALSE
