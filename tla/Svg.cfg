SPECIFICATION FairSpec
CONSTANTS
  Users <- MCUsers
  MaxUploads = 3
INVARIANTS TypeOK OwnGcode ReadsItsCommand
PROPERTIES AnsweredUnlessLost
CHECK_DEADLOCK FALSE
