CONSTANTS
  l1 = l1  l2 = l2  r1 = r1  r2 = r2  r3 = r3
  Session = {l1}
  Request = {r1}
  NoText = NoText
SPECIFICATION Spec
PROPERTIES PromptIsNotError
CHECK_DEADLOCK FALSE
