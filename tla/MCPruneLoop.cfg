SPECIFICATION Spec
CONSTANTS
  Inputs <- MCInputs
  Proxy = "p"
  Zero = Zero
INVARIANT ClosedFormsHold
INVARIANT RightUnlessPanic
CHECK_DEADLOCK FALSE
