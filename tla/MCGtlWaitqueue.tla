--------------------------- MODULE MCGtlWaitqueue ---------------------------
(* Instances of GtlWaitqueue for TLC; the constants get their values in    *)
(* the configuration files.                                                *)
EXTENDS GtlWaitqueue

OneLink  == {0}
TwoLinks == {0, 1}
=============================================================================
