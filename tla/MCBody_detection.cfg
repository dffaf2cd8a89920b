SPECIFICATION Spec
CONSTANTS
  Configs <- MCConfigs
  Marks = {}
  Sizes = {0, 1, 2, 3}
  Lengths = {0, 2, 7}
  Statuses = {200}
  MaxInt = 7
  CtlLimits = {0, 1, 3}
PROPERTY DetectionOnlyNeverDisrupts
