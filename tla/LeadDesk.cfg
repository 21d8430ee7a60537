SPECIFICATION DeskSpec
CONSTANTS
  Markets <- MCMarkets
  Workable <- MCWorkable
  Pipelines = {p1, p2}
  Answers <- MCAnswers
  Skills = {"go", "rust"}
  StartHour = 72
  EndHour = 96
  MaxPageSize = 2
INVARIANTS DeskTypeOK DuplicateIsReal StatsNest DetailConsistent PagesMissNothing SkipStaysLow
CHECK_DEADLOCK FALSE
SYMMETRY MCSymmetry
