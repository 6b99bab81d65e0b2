\* All lists of up to 3 events, of up to 5 of five kinds, of up to 8 of three kinds.
SPECIFICATION Spec
CONSTANT Traces <- MCTraces
INVARIANTS
  TypeOK
  TreeMatchesEvents
  BuiltIffClosed
  NoInventedSuccess
PROPERTIES
  MessageAnswered
CHECK_DEADLOCK FALSE
