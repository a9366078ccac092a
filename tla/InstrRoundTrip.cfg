\* Both tools on every template of up to two commands.
SPECIFICATION Spec
CONSTANTS
  MaxCommands = 2
CHECK_DEADLOCK FALSE
INVARIANT RoundTrip
