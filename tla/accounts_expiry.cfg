SPECIFICATION Spec
CONSTANTS
  NumCPU = 2
  Tabs = {"tab1", "tab2"}
  Envs <- SomeEnvs
  Inputs <- SomeInputs
  Horizon = 1
  MaxOpen = 2
  MaxCalls = 3
INVARIANT ExpiryRedirects
CHECK_DEADLOCK FALSE
