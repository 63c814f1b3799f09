CONSTANT Units = {u1}
CONSTANT Requests = {r1, r2}
CONSTANT Commands = {"setPricing", "setAvailability", "assign", "archiveProperty", "createListing", "approve"}
SPECIFICATION Spec
INVARIANT PublishedListingHasLiveUnit
CHECK_DEADLOCK FALSE
