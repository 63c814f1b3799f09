CONSTANT Calls = {c1, c2}
CONSTANT Labels = {l1}
CONSTANT MaxVersions = 4
CONSTANT Unread = Unread
CONSTANT None = None
SPECIFICATION Spec
SYMMETRY Symmetry
INVARIANT TypeOK
INVARIANT OneIntentOneEffect
PROPERTY NeverBehindTheLastReload
