SPECIFICATION LiveSpec
CONSTANTS
  leak = leak
  N = 2
  Guards = {leak}
  MaxSteps = 2
  MaxAsked = 3
  MaxSaid = 3
  MaxTrouble = 1
 
PROPERTIES BareAnswerIsMeant  OnlyOnYes RunEnds
CHECK_DEADLOCK FALSE
