------------------------------- MODULE MCVes -------------------------------
(* Instances of Ves for TLC; the constants get their values in the         *)
(* configuration files.                                                    *)
EXTENDS Ves

MostDirtyFirst == -1
=============================================================================
