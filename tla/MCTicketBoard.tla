---------------------------- MODULE MCTicketBoard ----------------------------
EXTENDS TicketBoard
=============================================================================
