SPECIFICATION Spec
CONSTANTS
  None = None
  WindowTurns = 3
  Overlap = 1
  Slices = 2
  Telecallers = {t1, t2}
  Contacts = {c1, c2}
  Transcripts <- MCTranscripts
  Answers <- MCAnswers
  Values = {100}
  Moves = {"Interested", "Closed Won"}
  Backdates <- MCBackdates
  Defaults <- MCDefaults
  Saved <- MCSaved
  TrendDays = 1
  CoachMin = 2
  MonthDays = 2
  Target = 60
  Start = 3
  Horizon = 5
  MaxCalls = 2
  MaxWrites = 4
  MaxEdits = 2
SYMMETRY Alike
INVARIANTS
  PagesAgree
  NothingUncounted
CHECK_DEADLOCK FALSE
