SPECIFICATION ContainerSpec
CONSTANTS
  Users = {x1, x2}
  Names = {a}
PROPERTY ResolveReturns
CHECK_DEADLOCK FALSE
