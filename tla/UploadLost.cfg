SPECIFICATION FairSpec
CONSTANTS
  k1 = k1
  k2 = k2
  f1 = f1
  Files = {f1, f2}
  FlowIds = {k1, k2}
  FlowId <- DistinctIds
  N = 2
  Requests = {r1, r2}
  Absent = Absent
  NoRequest = NoRequest
  MaxLost = 1
  MaxCrashes = 0
INVARIANTS DoneMeansUploaded NoSizeError
PROPERTIES EventuallyUploadedOrOversize
\* every file is uploaded and processed, or the client has nothing left to send
CHECK_DEADLOCK FALSE
