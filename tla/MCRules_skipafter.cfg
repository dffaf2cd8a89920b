SPECIFICATION Spec
CONSTANTS
  Configs <- MCConfigs
  Marks = {"END"}
  Sizes = {}
  Lengths = {}
  Statuses = {200}
  MaxInt = 7
INVARIANT SkipAfterContained
