\* One opportunity, one reply to confirm, one member who changes the stage.
SPECIFICATION BookingSpec
CONSTANTS
  Opportunities = {o1}
  Prospects = {}
  Replies = {r1}
  Requests = {q1}
  Proposals = {n1}
  StagesAsked = {"target", "closed"}
  Nothing = Nothing
PROPERTY ClosedStaysClosed
CHECK_DEADLOCK FALSE
