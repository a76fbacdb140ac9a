\* Catalogs of up to five queries in any order, where an index scan visits four
\* rows; and catalogs of one query with every kind of declaration, value and plan.
\* A request stops once it is decided.
SPECIFICATION Spec
CONSTANTS
  Situations <- SituationsAll
  Limit = 3
  EfSearch = 4
  Offers <- OffersSome
  Texts <- SomeTexts
  Plans <- PlansSome
  MaxPlanRows = 2
  MaxPlanCost = 2
  NaN = NaN
  None = None
CHECK_DEADLOCK FALSE
INVARIANTS
  HiddenRowsDoNotMatter
  RichestAssetQuery
  BindingFaithful
  SecondChecksSilent
  ContractEnforced
  BudgetSeesEveryNode
