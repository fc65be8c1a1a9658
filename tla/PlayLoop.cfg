SPECIFICATION Spec
CONSTANTS
  None = None
  right = right wrong = wrong magic = magic thanks = thanks broken = broken
  LastStep = 3
  Quest <- LongQuest
  SkipCost = 10
  Answers = {right, wrong, magic}
  Reviews = {thanks}
  Reports = {broken}
  Scores = {4, 5}
  Universals <- Served
  Elsewhere = {"completion_bonus"}
  MaxWaiting = 0
  MaxLog = 9
  MaxFacts = 3
  MaxVisits = 1
INVARIANTS TypeOK LogReplays OneSolution ResumeIsEarned
PROPERTIES PaysOnce
