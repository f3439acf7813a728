SPECIFICATION CheckSpec
CONSTANTS
  t1 = t1  p1 = p1
  Tickets = {t1}
  Statuses = {"In Progress", "PR & Code Review", "Deployed to Dev", "Ready to Test", "QA Failed", "Done"}
  MaxChanges = 2
  MaxFaults = 2
  Prs = {p1}
  TicketOf <- OneTicket
  MaxEdits = 3
  QuietJira <- Quiet
INVARIANTS OneList NoSecondNotice ToldExactlyOnce AlertsAreTheUnseen
PROPERTIES KeepsPromise PollsMoveOnlyNewAndSentBack FinishedIsReported WalksForward
  NewTicketsArrive CatchesUp PrsCatchUp
