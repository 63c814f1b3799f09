CONSTANT Links = {l1, l2}
CONSTANT Uploads = {i1, i2, i3}
CONSTANT Editors = {e1, e2}
CONSTANT Reviewers = {v1}
CONSTANT MaxImages = 3
CONSTANT MaxVersion = 6
SYMMETRY ContentSymmetry
SPECIFICATION Spec
INVARIANT TypeOK
INVARIANT PublishedContentIsApproved
INVARIANT VersionNamesDraft
INVARIANT OnlyArchivesAreUnrecorded
CHECK_DEADLOCK FALSE
