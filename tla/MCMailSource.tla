---------------------------- MODULE MCMailSource ----------------------------
(* Two messages; what each run adds is in its .cfg.                        *)
EXTENDS MailSource
=============================================================================
