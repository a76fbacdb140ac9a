\* A date, filled in from the prompt.
SPECIFICATION Spec
CONSTANTS
  Situations <- SituationsDated
  Limit = 3
  EfSearch = 4
  Offers <- OffersSome
  Texts <- SomeTexts
  Plans <- PlansSome
  MaxPlanRows = 2
  MaxPlanCost = 2
  NaN = NaN
  None = None
CHECK_DEADLOCK FALSE
INVARIANT ValidDatesRun
