CONSTANTS
  Contacts = 2
  Calls = 1
SPECIFICATION FairSpec
INVARIANTS TypeOK OneSender AnswerNotLost ServesAuthorised
PROPERTIES EachItsOwnAnswer QueryAnswered LogOutEnds StopEnds
CHECK_DEADLOCK FALSE
