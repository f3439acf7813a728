---------------------------- MODULE MCTicketCheck ----------------------------
(* One ticket.  Without Azure DevOps the team moves it in Jira; with it,   *)
(* the ticket stays where it is there and has a pull request.              *)
EXTENDS TicketCheck

CONSTANTS t1, p1

OneTicket == [p \in {p1} |-> t1]
InWork == [t \in {t1} |-> "In Progress"]
Quiet == {InWork}
=============================================================================
