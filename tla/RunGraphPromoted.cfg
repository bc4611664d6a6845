CONSTANTS
  Content = {c1, c2}
  StrongContent = {c1}
  ToolEvidenceId = tool
  Invented = {}
  Budgets <- TwoByTwo
  PlannerActions <- MCActions
  RecursionLimit = 25
SPECIFICATION Spec
INVARIANT
  PromotedEvidenceIsSynthesised
