SPECIFICATION Spec
CONSTANTS
  Declarations <- Started
  Edits <- Written
  Clocks = {"c1", "c2"}
  MaxEdits = 2
PROPERTIES RecordingNeverHurts AnswersSettle
CHECK_DEADLOCK FALSE
