CONSTANTS
  Content = {c1, c2}
  StrongContent = {c1}
  ToolEvidenceId = tool
  Invented = {invented}
  Budgets <- MCBudgets
  PlannerActions <- MCActions
  RecursionLimit = 13
SPECIFICATION FairSpec
INVARIANTS
  TypeOK
  CountersWithinBudgets
  RejectedRunsSpendNothing
  RefinementsJustified
  AnsweredMeansGenerated
  BudgetsBoundTheRun
PROPERTIES
  ImplementsGate
  RunConcludes
