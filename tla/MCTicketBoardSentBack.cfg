SPECIFICATION Spec
CONSTANTS
  Tickets = {t1}
  Statuses = {"In Progress", "PR & Code Review", "Deployed to Dev", "Ready to Test", "QA Failed"}
  MaxChanges = 1
  MaxFaults = 0
PROPERTY SentBackReturns
