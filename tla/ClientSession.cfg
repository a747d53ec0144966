\* Two users, two logins, two requests in flight; two kinds of trouble.
SPECIFICATION Spec

CONSTANTS
  u1 = u1
  u2 = u2
  Users <- TwoUsers
  MaxSessions = 2
  MaxRequests = 2
  MaxEvents = 2

INVARIANTS
  TypeOK
  ConfigIsTheSessions
  ListsAreTheUsers

PROPERTIES
  ActsAsShown

CHECK_DEADLOCK FALSE
