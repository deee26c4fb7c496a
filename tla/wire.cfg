SPECIFICATION Spec
CONSTANTS
  Line <- LinesOfEverySort
  Replies <- EveryReply
  MaxLines = 2
INVARIANTS AnswersInOrder TextsAreWhole
CHECK_DEADLOCK FALSE
