CONSTANTS
  l1 = l1  l2 = l2  r1 = r1  r2 = r2  r3 = r3
  Session = {l1}
  Request = {r1, r2}
  NoText = NoText
SPECIFICATION FairSpec
INVARIANTS TypeOK
PROPERTIES AnswerMatchesPrompt SessionEnds
CHECK_DEADLOCK FALSE
