\* Three requests, one slot for a Run, two things going wrong; a tree of three scopes.
SPECIFICATION MCSpec
CONSTANTS
  q1 = q1
  q2 = q2
  q3 = q3
  s1 = s1
  s2 = s2
  Requests = {q1, q2, q3}
  Sessions = {s1, s2}
  Scopes = {q1, q2, q3}
  NoScope = NoScope
  None = None
  Plans <- MCPlans
  MaxSlots = 1
  MaxTroubles = 2
INVARIANTS RunsAreReachable HeldByTheLiving AnswersAreTrue NoEscape
PROPERTIES EveryRequestIsAnswered
CHECK_DEADLOCK FALSE
