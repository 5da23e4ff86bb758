SPECIFICATION Spec
CONSTANTS
  None = None
  Order <- Two
  Settings <- FirstStatusSettings
INVARIANT
  AppliedIsEnforced
