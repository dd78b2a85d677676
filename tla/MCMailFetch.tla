---------------------------- MODULE MCMailFetch -----------------------------
(* The instance of MailFetch that is checked.                               *)
EXTENDS MailFetch, TLC
=============================================================================
