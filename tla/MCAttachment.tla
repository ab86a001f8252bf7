---------------------------- MODULE MCAttachment ----------------------------
EXTENDS Attachment

=============================================================================
