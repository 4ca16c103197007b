------------------------------ MODULE VesStore ------------------------------
(***************************************************************************)
(* What the Virtual EEPROM promises (ad_nvms_ves.h): a memory written and  *)
(* read by virtual address, with power failure safety.  A write covers     *)
(* some addresses; each of them takes its payload in one step, in order,   *)
(* and a power failure drops the rest of the write and nothing else.       *)
(***************************************************************************)
EXTENDS Integers, Sequences

CONSTANTS CatMax, Bits

VARIABLES
    mem,        \* the payload of each address
    writing,    \* the <<address, payload>> pairs of the write in progress
    alive       \* whether the driver is up

Ixs == 1 .. CatMax

Writes == UNION {[1 .. n -> Ixs \X SUBSET Bits] : n \in 1 .. CatMax}

Init ==
    /\ mem = [ix \in Ixs |-> Bits]
    /\ writing = <<>>
    /\ alive = FALSE

Begin ==
    /\ alive /\ writing = <<>>
    /\ writing' \in Writes
    /\ UNCHANGED <<mem, alive>>

Done(k) == mem[writing[k][1]] = writing[k][2]

Commit(k) ==
    /\ \A j \in 1 .. k - 1 : Done(j)
    /\ mem' = [mem EXCEPT ![writing[k][1]] = writing[k][2]]
    /\ UNCHANGED <<writing, alive>>

Finish ==
    /\ \A k \in DOMAIN writing : Done(k)
    /\ writing' = <<>>
    /\ UNCHANGED <<mem, alive>>

PowerLoss ==
    /\ writing' = <<>>
    /\ alive' = FALSE
    /\ UNCHANGED mem

Recover ==
    /\ ~alive
    /\ alive' = TRUE
    /\ UNCHANGED <<mem, writing>>

Next == Begin \/ (\E k \in DOMAIN writing : Commit(k)) \/ Finish \/ PowerLoss \/ Recover

Spec == Init /\ [][Next]_<<mem, writing, alive>>
=============================================================================
