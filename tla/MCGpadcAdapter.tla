--------------------------- MODULE MCGpadcAdapter ---------------------------
(* Instances of GpadcAdapter for TLC: the converter is the only resource. *)
EXTENDS GpadcAdapter, TLC

CONSTANTS gpadc, pin

OnlyGpadc == {gpadc}

Reading(async, s, nest) == [async |-> async, source |-> s, nest |-> nest]

FewReadings ==
    {Reading(FALSE, TempSensor, "none"), Reading(TRUE, pin, "none"), Reading(TRUE, TempSensor, "outer")}
=============================================================================
