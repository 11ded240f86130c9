CONSTANTS
  kWorkspacePageSize = 4
  Requests = {0, 4, 5, 9}
  Addresses = {a1, a2, a3, a4, a5}
  nullptr = nullptr
  MaxHeld = 4
SPECIFICATION Spec
INVARIANT NothingLost
CHECK_DEADLOCK FALSE
