SPECIFICATION FairPcSpec
CONSTANTS
  Requests <- MCRequests
  Uploads <- MCUploads
  MaxWire = 3
INVARIANTS AnsweredOnce SocketInStep UploadsSettle
PROPERTIES HalfOpenNoticed RequestEnds
CHECK_DEADLOCK FALSE
