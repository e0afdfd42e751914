SPECIFICATION TestSpec
CONSTANTS
  Users <- MCUsers
  Replies <- MCReplies
  MaxContent = 512
  MaxRead = 80
  MaxMessages = 5
  Backlog = 9
  LocalEps = 2
INVARIANTS
  RequestUnderstood
  
PROPERTIES
  
  TestEnds
