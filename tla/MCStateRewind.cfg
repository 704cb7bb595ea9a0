SPECIFICATION Spec
CONSTANTS
  States <- MCStates
  srwframes = 4
INVARIANTS PacketsContiguous
PROPERTIES ImplementsStack
