------------------------------- MODULE MCSweep -------------------------------
(* The instances of Sweep that TLC explores; the bounds are in the .cfg.    *)
EXTENDS Sweep

OneAtATime == {{"backfill"}, {"reclassify"}}
NoneOld == {0}
OneOld == {1}

=============================================================================
