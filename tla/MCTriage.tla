------------------------------ MODULE MCTriage ------------------------------
(* The instances of Triage that TLC explores; the bounds are in the .cfg.   *)
EXTENDS Triage

BothModes == BOOLEAN
LiveOnly == {FALSE}
HarmlessRoutes == {"mutate", "escalate"}
ReceiptRoutes == {"mutate", "escalate", "archive_receipt"}

=============================================================================
