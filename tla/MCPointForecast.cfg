SPECIFICATION Spec
CONSTANT Questions <- MCQuestions
CHECK_DEADLOCK FALSE
INVARIANTS
  SummaryCoherent
  SampledNearest
  TimelineSelected
  SameInOtherUnits
