CONSTANTS
  capped = capped
  open = open
  sold_out = sold_out
  Products = {capped, open, sold_out}
  Capacity <- MCCapacity
  Minimum <- MCMinimum
  Cpm <- MCCpm
  Volumes = {0, 1, 4, 5, 6, 16, 17, 19}
  Budgets = {0, 3, 9}
  Dimensions <- MCDimensions
  Targetings <- MCTargetings
  Foreign <- MCForeign
  Exact = 16
  None = None
  NotANumber = NotANumber
SPECIFICATION Spec
INVARIANTS
  DialectChangesNothing
  StatusIsHonest
CHECK_DEADLOCK FALSE
