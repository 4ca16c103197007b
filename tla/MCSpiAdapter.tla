---------------------------- MODULE MCSpiAdapter ----------------------------
(* Instances of SpiAdapter for TLC: two devices on one bus, one of them with *)
(* DMA channels that a device on another bus uses too.                     *)
EXTENDS SpiAdapter, TLC

CONSTANTS d1, d2, d3, b1, b2, dma

SpiDevices == {d1, d2, d3}
SpiBuses == {b1, b2}
SpiBusOf == d1 :> b1 @@ d2 :> b1 @@ d3 :> b2
SpiDmaOf == d1 :> {} @@ d2 :> {dma} @@ d3 :> {dma}
AllResources == SpiDevices \cup SpiBuses \cup {dma}

Symmetry == Permutations(Tasks) \cup Permutations(Requests)
=============================================================================
