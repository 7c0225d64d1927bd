\* Two rounds of one page, the settlement of the second reverts; the wallet holds two manual transactions.
CONSTANTS
  MaxBets = 2
  MaxManual = 2
  Faulty = {2}
SPECIFICATION FairSpec
INVARIANTS
  EverySubmissionIsAccounted
PROPERTIES
  ResultIsShownOnce
  EveryRoundIsAnswered
\* The player may leave the room.
CHECK_DEADLOCK FALSE
