CONSTANT Units = {u1, u2}
CONSTANT Requests = {r1, r2}
CONSTANT Commands = {"addUnit", "createLease", "setPricing", "setAvailability", "assign", "archiveUnit", "archiveProperty", "createListing", "editListing", "publish", "approve"}
SYMMETRY UnitAndRequestSymmetry
SPECIFICATION Spec
INVARIANT TypeOK
INVARIANT PublishedListingIsReviewed
INVARIANT DeadlockNeedsListingCreation
PROPERTY KeepsInventoryPromise
CHECK_DEADLOCK FALSE
