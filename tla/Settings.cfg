SPECIFICATION Spec
CONSTANTS
  Envs = {"sandbox", "production"}
  Tunings <- MCTunings
  Defaults <- MCDefaults
  MaxTyped = 3
  Absent = Absent
  Placeholder = Placeholder
  Junk = Junk
  TooLarge = TooLarge
  NULL = NULL
INVARIANTS
  EnteredSecretsKnown
  KeysFitDatabase
  ServicesLoad
