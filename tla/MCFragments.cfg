SPECIFICATION FairSpec
CONSTANTS
  Fid = {1, 2}
  Frag = {"a", "z"}
  ZeroFile = "z"
  Index = {1, 2}
  Column <- MCColumn
  Stored0 = {2}
  Uploads <- MCUploads
  Requests <- MCRequests
  MaxEvents = 3
CHECK_DEADLOCK FALSE
INVARIANTS
  KeptWhileAssigned
  FoundUnlessMoved
PROPERTIES
  ReportMade
  MovedIn
