-------------------------- MODULE MCMailboxPointer --------------------------
(* An instance of MailboxPointer for TLC: the terminals are model values.   *)
EXTENDS MailboxPointer

CONSTANTS a, b
=============================================================================
