CONSTANT Units = {u1}
CONSTANT Requests = {r1, r2}
CONSTANT Commands = {"addUnit", "setPricing", "setAvailability", "createLease", "setVerification", "assign", "archiveUnit", "archiveProperty", "createListing", "editListing", "publish", "unpublish", "approve", "reject"}
SPECIFICATION FairSpec
PROPERTY EveryRequestEnds
CHECK_DEADLOCK FALSE
