\* The promise on its own, under every policy.
SPECIFICATION Spec
CONSTANTS
    Policies = {"block", "drop_newest", "latest"}
    Capacity = 2
    Items = {1, 2, 3, 4}
INVARIANTS StrandedAtMostOne InOrder
\* Everything inserted, popped and closed.
CHECK_DEADLOCK FALSE
