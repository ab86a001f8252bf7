---------------------------- MODULE MCSessionHost ---------------------------
EXTENDS SessionHost

=============================================================================
