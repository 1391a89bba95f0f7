-------------------------- MODULE MCCustomerTicket --------------------------
EXTENDS CustomerTicket

CONSTANTS mine, other

MCOthers == {other}
\* The clock runs on the eve of a closed day and on the closed day.
MCClosed == {1}

=============================================================================
