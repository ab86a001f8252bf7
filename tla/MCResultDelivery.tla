------------------------- MODULE MCResultDelivery -------------------------
EXTENDS ResultDelivery
=============================================================================
