-------------------------- MODULE MCSessionClients --------------------------
EXTENDS SessionClients

=============================================================================
