---------------------------- MODULE MCBleManager ----------------------------
(* Instances of BleManager for TLC; the constants get their values in the  *)
(* configuration files.                                                    *)
EXTENDS BleManager

CONSTANTS a1, a2     \* application tasks

OneApp  == {a1}
TwoApps == {a1, a2}
=============================================================================
