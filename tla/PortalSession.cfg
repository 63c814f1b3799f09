CONSTANT Accounts = {a1, a2}
CONSTANT Organizations = {o1, o2}
CONSTANT Nil = Nil
SPECIFICATION SessionSpec
INVARIANT SessionTypeOK
INVARIANT SessionIsEarned
PROPERTY SignOutSticks
