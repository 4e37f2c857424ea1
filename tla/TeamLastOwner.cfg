\* Two owners demote each other at once.
SPECIFICATION Spec
CONSTANTS
  Operators = {ann, bob}
  Founders = {ann, bob}
  Requests = {q1, q2}
  Invites = {i1}
  Nobody = Nobody
INVARIANTS AlwaysOwned
CHECK_DEADLOCK FALSE
