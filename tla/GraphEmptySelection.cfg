CONSTANTS
  Images = {i0}
  i0 = i0
  Ops = {"LOCATE", "SELECT", "CLASSIFY"}
  Fallbacks = {}
  Answers = {"FREE_FORM"}
  Options = {"none"}
  Fusion = "auto"
  ForbidNonFeature = FALSE
  MaxNodes = 3
  MaxRoles = 2
  MaxRefs = 2
SPECIFICATION Spec
INVARIANT EmptySelectionTolerated
CHECK_DEADLOCK FALSE
