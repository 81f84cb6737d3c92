SPECIFICATION DeskSpec
CONSTANTS
  Runners = {p, q}
  Starts = {1, 3, 4, 12, 17, 20, 22, 24, 31}
  Targets = {1, 2, 4, 5, 6, 7, 9, 10, 11, 12, 13, 15, 16, 18, 19, 20, 21, 22, 23}
  Topics = {}
  Drifted = TRUE
  Prepares = TRUE
  MaxRuns = 3
  Alone = p
  Desks = {"stages", "reminders", "values", "together"}
CHECK_DEADLOCK FALSE
PROPERTIES DataKept SchemaServes
