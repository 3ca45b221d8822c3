CONSTANTS
  Images = {i0}
  i0 = i0
  Ops = {"LOCATE", "SELECT", "RELATION", "VLM_REASON"}
  Fallbacks = {"LOCATE"}
  Answers = {"CHOICE_SINGLE", "FREE_FORM"}
  Options = {"features", "non_feature"}
  Fusion = "auto"
  ForbidNonFeature = TRUE
  MaxNodes = 3
  MaxRoles = 2
  MaxRefs = 2
SPECIFICATION Spec
INVARIANTS
  TypeOK
  UnsafeNeverFlows
  OverrideUnobserved
  ChoiceSurvivesEvidence
PROPERTY DagSpec
CHECK_DEADLOCK FALSE
