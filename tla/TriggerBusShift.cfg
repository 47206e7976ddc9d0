SPECIFICATION Spec
CONSTANTS
  Versions = {v1, v2}
  Expressions = {}
  Topics = {"topic"}
  Mailboxes = {}
  MaxChanges = 5
INVARIANT SubscribedServed
CHECK_DEADLOCK FALSE
