------------------------------ MODULE MCMailbox ------------------------------
(* The mailbox with a few tasks and messages.                                *)
EXTENDS Mailbox
=============================================================================
