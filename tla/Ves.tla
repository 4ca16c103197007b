-------------------------------- MODULE Ves --------------------------------
(***************************************************************************)
(* The Virtual EEPROM driver (ad_nvms_ves.c): a log of containers on NOR   *)
(* flash, where a program operation can only clear bits and only a whole   *)
(* sector can be erased, and where the supply may fail between any two     *)
(* flash operations.                                                       *)
(*                                                                         *)
(* The driver runs under one mutex, so one operation of it is under way at *)
(* a time.  An action is one iteration of one of its loops, or one of its  *)
(* flash operations with the assignments around it; a loss of power may    *)
(* come between any two actions.  The variables below `erased` are the     *)
(* local variables of the functions that are running.                      *)
(*                                                                         *)
(* A payload is the set of its bits that are still 1.  A write of part of  *)
(* a container is the write of the merged payload, and one program         *)
(* operation is done entirely or not at all.                               *)
(***************************************************************************)
EXTENDS Integers, FiniteSets

CONSTANTS
    SectorCount,    \* sectors of the partition
    PerSector,      \* containers_per_sector
    CatMax,         \* cat_size - 1: the virtual addresses are 1..CatMax
    Bits,           \* the bits of a payload
    GcThreshold,    \* AD_NVMS_VES_GC_THRESHOLD, negative for none
    LosesAfterData  \* may power be lost after a new container's data, before its index?

ASSUME VesAssumption ==
    /\ SectorCount \in Nat /\ SectorCount >= 3
    /\ PerSector \in Nat \ {0}
    /\ CatMax \in Nat \ {0}
    /\ GcThreshold \in Int
    /\ LosesAfterData \in BOOLEAN

(* What the widths of the code leave room for.  con_ix_t is a byte, so with *)
(* 256 containers in a sector, those of 16 bytes, number 255 is             *)
(* CAT_ENTRY_NONE; max_dirty_count and the loop of ves_mark_unused_as_dirty *)
(* are too narrow for a full sector, and ves_init clears half of the dirty  *)
(* counts (ad_nvms_ves.c:26-37, 149, 328, 354, 724).  An index has 14 bits, *)
(* of which all ones with CONTAINER_CURRENT are CONTAINER_UNUSED.           *)
ASSUME WidthAssumption == PerSector < 256 /\ CatMax < 16383

VARIABLES
    flash,      \* flash[sector][container]: index field and payload
    cat,        \* the place of the live container of each address
    dirty,      \* sector_dirty_count
    free,       \* free_sector_map and free_sector_count
    current,    \* current_sector
    next,       \* free_container
    erased,     \* last_erased_sector
    phase,      \* "off", "scan" (ves_read_cat), "gc" (ves_gc), "ready" or "write"
    step,       \* what the running function does next, "rest" if none is running
    sec, con,   \* the sector and the container a loop is at
    count,      \* unused_count, uninitialized_count and dirty_count of the scan
    index,      \* the address whose container is being moved or written,
    from, to,   \* and where it goes
    request,    \* the <<address, payload>> pairs of the running write
    nth         \* the pair it is at

flashRam == <<flash, cat, dirty>>
room == <<free, current, next, erased>>
at == <<phase, step>>
scan == <<sec, con, count>>
job == <<index, from, to>>
call == <<request, nth>>
vars == <<flashRam, room, at, scan, job, call>>

Sectors == 0 .. SectorCount - 1
Containers == 0 .. PerSector - 1
Ixs == 1 .. CatMax
Payloads == SUBSET Bits
Places == Sectors \X Containers

NoEntry == <<-1, -1>>     \* CAT_ENTRY_NONE

(* The index field: CONTAINER_UNINITIALIZED, CONTAINER_UNUSED, an address    *)
(* with and without CONTAINER_CURRENT, CONTAINER_CLEARED.                   *)
IndexKinds == {"uninitialized", "unused", "current", "old", "cleared"}

Container == [kind : IndexKinds, ix : 0 .. CatMax, data : Payloads]

Erased == [kind |-> "uninitialized", ix |-> 0, data |-> Bits]

NoCount == [unused |-> 0, uninit |-> 0, dirty |-> 0]

At(p) == flash[p[1]][p[2]]

Live(c) == c.kind \in {"current", "old"}

----------------------------------------------------------------------------
(* Flash operations.  A cleared container's payload is never read again    *)
(* before an erase, and the model forgets it.                              *)

ProgramIndex(p, k, i) ==
    flash' = [flash EXCEPT ![p[1]][p[2]] =
                 [kind |-> k, ix |-> i, data |-> IF k = "cleared" THEN {} ELSE @.data]]

ProgramData(p, d) == flash' = [flash EXCEPT ![p[1]][p[2]].data = @ \cap d]

EraseSector(s) == flash' = [flash EXCEPT ![s] = [c \in Containers |-> Erased]]

----------------------------------------------------------------------------
Init ==
    /\ flash = [s \in Sectors |-> [c \in Containers |-> Erased]]
    /\ cat = [ix \in Ixs |-> NoEntry]
    /\ dirty = [s \in Sectors |-> 0]
    /\ free = {} /\ current = 0 /\ next = PerSector /\ erased = 0
    /\ phase = "off" /\ step = "rest"
    /\ sec = 0 /\ con = 0 /\ count = NoCount
    /\ index = 0 /\ from = NoEntry /\ to = NoEntry
    /\ request = <<>> /\ nth = 1

(* ves_init and the start of ves_read_cat *)
Boot ==
    /\ phase = "off"
    /\ phase' = "scan" /\ step' = "look"
    /\ cat' = [ix \in Ixs |-> NoEntry]
    /\ dirty' = [s \in Sectors |-> 0]
    /\ free' = {} /\ current' = 0 /\ next' = PerSector /\ erased' = 0
    /\ sec' = 0 /\ con' = 0 /\ count' = NoCount
    /\ UNCHANGED <<flash, job, call>>

Full == next >= PerSector

Lowest(S) == CHOOSE s \in S : \A t \in S : s <= t

(* ves_get_free_sector, S being the free sectors, and its caller's free_container *)
TakeFreeSector(S) ==
    /\ S # {}
    /\ free' = S \ {Lowest(S)}
    /\ current' = Lowest(S)
    /\ next' = 0

----------------------------------------------------------------------------
(* ves_read_cat: the containers of a sector                                *)

Cell == flash[sec][con]

Scanning == phase = "scan" /\ step = "look" /\ sec < SectorCount /\ con < PerSector

(* unused containers before another one count as dirty *)
Settled == [count EXCEPT !.dirty = @ + count.unused, !.unused = 0]

ScanUnused ==
    /\ Scanning /\ Cell.kind = "unused"
    /\ count' = [count EXCEPT !.unused = @ + 1]
    /\ con' = con + 1
    /\ UNCHANGED <<flashRam, room, at, sec, job, call>>

ScanUninitialized ==
    /\ Scanning /\ Cell.kind = "uninitialized"
    /\ count' = [Settled EXCEPT !.uninit = @ + 1]
    /\ con' = con + 1
    /\ UNCHANGED <<flashRam, room, at, sec, job, call>>

ScanCleared ==
    /\ Scanning /\ Cell.kind = "cleared"
    /\ count' = [Settled EXCEPT !.dirty = @ + 1]
    /\ con' = con + 1
    /\ UNCHANGED <<flashRam, room, at, sec, job, call>>

ScanFirstCopy ==
    /\ Scanning /\ Live(Cell) /\ cat[Cell.ix] = NoEntry
    /\ cat' = [cat EXCEPT ![Cell.ix] = <<sec, con>>]
    /\ count' = Settled
    /\ con' = con + 1
    /\ UNCHANGED <<flash, dirty, room, at, sec, job, call>>

(* Faulty variant: of two copies the first one found is kept. *)
FirstWinsScanCurrentCopy ==
    /\ Scanning /\ Cell.kind = "current" /\ cat[Cell.ix] # NoEntry
    /\ ProgramIndex(<<sec, con>>, "cleared", 0)
    /\ count' = [Settled EXCEPT !.dirty = @ + 1]
    /\ con' = con + 1
    /\ UNCHANGED <<cat, dirty, room, at, sec, job, call>>

ScanCurrentCopy ==
    /\ Scanning /\ Cell.kind = "current" /\ cat[Cell.ix] # NoEntry
    /\ LET old == cat[Cell.ix] IN
       /\ ProgramIndex(old, "cleared", 0)
       /\ cat' = [cat EXCEPT ![Cell.ix] = <<sec, con>>]
       /\ IF old[1] = sec
          THEN /\ count' = [Settled EXCEPT !.dirty = @ + 1]
               /\ UNCHANGED dirty
          ELSE /\ count' = Settled
               /\ dirty' = [dirty EXCEPT ![old[1]] = @ + 1]
    /\ con' = con + 1
    /\ UNCHANGED <<room, at, sec, job, call>>

ScanOldCopy ==
    /\ Scanning /\ Cell.kind = "old" /\ cat[Cell.ix] # NoEntry
    /\ ProgramIndex(<<sec, con>>, "cleared", 0)
    /\ count' = [Settled EXCEPT !.dirty = @ + 1]
    /\ con' = con + 1
    /\ UNCHANGED <<cat, dirty, room, at, sec, job, call>>

----------------------------------------------------------------------------
(* ves_read_cat: the end of a sector                                       *)

SectorScanned == phase = "scan" /\ step = "look" /\ sec < SectorCount /\ con = PerSector

NextSector == sec' = sec + 1 /\ con' = 0 /\ count' = NoCount

NothingLive == count.unused + count.uninit + count.dirty = PerSector

FindFreeSector ==
    /\ SectorScanned /\ count.unused = PerSector
    /\ free' = free \cup {sec}
    /\ NextSector
    /\ UNCHANGED <<flashRam, current, next, erased, at, job, call>>

(* to ves_init_sector, which looks whether an erase is needed if asked to *)
RecycleSector ==
    LET clean == \A c \in Containers : /\ flash[sec][c].kind \in {"unused", "uninitialized"}
                                       /\ flash[sec][c].data = Bits
    IN  /\ SectorScanned /\ count.unused # PerSector /\ NothingLive
        /\ step' = IF count.dirty = 0 /\ clean THEN "prepare" ELSE "wipe"
        /\ con' = 0 /\ count' = NoCount
        /\ UNCHANGED <<flashRam, room, phase, sec, job, call>>

(* The first sector with some unused containers is the current one.  A      *)
(* second one means that the flash was written from outside; its unused     *)
(* containers are cleared (ves_mark_unused_as_dirty), here in one step.     *)
KeepSector ==
    LET partial == count.unused > 0
        clear(c) == IF c.kind = "unused" THEN [kind |-> "cleared", ix |-> 0, data |-> {}] ELSE c
    IN  /\ SectorScanned /\ count.unused # PerSector /\ ~NothingLive
        /\ dirty' = [dirty EXCEPT ![sec] = count.dirty]
        /\ IF partial /\ Full
           THEN current' = sec /\ next' = PerSector - count.unused
           ELSE UNCHANGED <<current, next>>
        /\ flash' = IF partial /\ ~Full
                    THEN [flash EXCEPT ![sec] = [c \in Containers |-> clear(@[c])]]
                    ELSE flash
        /\ NextSector
        /\ UNCHANGED <<cat, free, erased, at, job, call>>

(* Faulty variant: the sector chosen for new data stays in the free map. *)
SharedScanDone ==
    /\ phase = "scan" /\ step = "look" /\ sec = SectorCount
    /\ IF Full /\ free # {} THEN current' = Lowest(free) /\ next' = 0
                            ELSE UNCHANGED <<current, next>>
    /\ phase' = "gc" /\ step' = "choose" /\ sec' = 0
    /\ UNCHANGED <<flashRam, free, erased, con, count, job, call>>

ScanDone ==
    /\ phase = "scan" /\ step = "look" /\ sec = SectorCount
    /\ IF Full /\ free # {} THEN TakeFreeSector(free) ELSE UNCHANGED <<free, current, next>>
    /\ phase' = "gc" /\ step' = "choose" /\ sec' = 0
    /\ UNCHANGED <<flashRam, erased, con, count, job, call>>

----------------------------------------------------------------------------
(* ves_init_sector, for the scan and for the collector                     *)

Wipe ==
    /\ step = "wipe"
    /\ EraseSector(sec)
    /\ erased' = IF phase = "gc" THEN sec ELSE erased
    /\ step' = "prepare" /\ con' = 0
    /\ UNCHANGED <<cat, dirty, free, current, next, phase, sec, count, job, call>>

Prepare ==
    /\ step = "prepare" /\ con < PerSector
    /\ ProgramIndex(<<sec, con>>, "unused", 0)
    /\ con' = con + 1
    /\ UNCHANGED <<cat, dirty, room, at, sec, count, job, call>>

ScanPrepared ==
    /\ phase = "scan" /\ step = "prepare" /\ con = PerSector
    /\ free' = free \cup {sec}
    /\ dirty' = [dirty EXCEPT ![sec] = 0]
    /\ step' = "look"
    /\ NextSector
    /\ UNCHANGED <<flash, cat, current, next, erased, phase, job, call>>

(* Faulty variant: the sector is not entered in the free map. *)
ForgetfulGcPrepared ==
    /\ phase = "gc" /\ step = "prepare" /\ con = PerSector
    /\ dirty' = [dirty EXCEPT ![sec] = 0]
    /\ step' = "choose" /\ sec' = 0 /\ con' = 0
    /\ UNCHANGED <<flash, cat, room, phase, count, job, call>>

(* The collector uses the sector itself if the one it has filled is full. *)
GcPrepared ==
    /\ phase = "gc" /\ step = "prepare" /\ con = PerSector
    /\ IF Full THEN TakeFreeSector(free \cup {sec})
               ELSE free' = free \cup {sec} /\ UNCHANGED <<current, next>>
    /\ dirty' = [dirty EXCEPT ![sec] = 0]
    /\ step' = "choose" /\ sec' = 0 /\ con' = 0
    /\ UNCHANGED <<flash, cat, erased, phase, count, job, call>>

----------------------------------------------------------------------------
(* ves_gc(ves, 1)                                                          *)

(* The collector looks at SectorCount - 1 sectors, from the one after the    *)
(* sector erased last.  Without a threshold it takes the first of the       *)
(* dirtiest; with one, the first that has as many dirty containers and is   *)
(* not being filled, or else the one it started from.                       *)
Victim ==
    LET seen == 0 .. SectorCount - 2
        sector(k) == IF erased + 1 + k < SectorCount THEN erased + 1 + k
                                                   ELSE erased + 1 + k - SectorCount
        best == IF GcThreshold < 0
                THEN {k \in seen : \A j \in seen : dirty[sector(j)] <= dirty[sector(k)]}
                ELSE {k \in seen : dirty[sector(k)] >= GcThreshold /\ sector(k) # current}
    IN  IF best = {} THEN sector(0) ELSE sector(Lowest(best))

ChooseVictim ==
    /\ phase = "gc" /\ step = "choose" /\ free = {}
    /\ sec' = Victim
    /\ step' = IF dirty[Victim] < PerSector THEN "look" ELSE "wipe"
    /\ UNCHANGED <<flashRam, room, phase, con, count, job, call>>

Collected ==
    /\ phase = "gc" /\ step = "choose" /\ free # {}
    /\ IF request = <<>> THEN phase' = "ready" /\ step' = "rest"
                         ELSE phase' = "write" /\ step' = "take"
    /\ UNCHANGED <<flashRam, room, scan, job, call>>

Rescuing == phase = "gc" /\ step = "look" /\ con < PerSector

(* Not a live container, or the flash is corrupted and there is no space. *)
RescueNothing ==
    /\ Rescuing /\ (Live(Cell) => Full /\ free = {})
    /\ con' = con + 1
    /\ UNCHANGED <<flashRam, room, at, sec, count, job, call>>

(* Faulty variant: the collector does not advance free_container. *)
InPlaceRescue ==
    /\ Rescuing /\ Live(Cell) /\ ~Full
    /\ ProgramData(<<current, next>>, Cell.data)
    /\ index' = Cell.ix /\ from' = <<sec, con>> /\ to' = <<current, next>>
    /\ step' = "retire"
    /\ UNCHANGED <<cat, dirty, room, phase, scan, call>>

(* The start of ves_move_container: the data. *)
Rescue ==
    LET fresh  == Full /\ free # {}
        target == IF fresh THEN Lowest(free) ELSE current
        place  == IF fresh THEN 0 ELSE next
    IN  /\ Rescuing /\ Live(Cell) /\ (Full => free # {})
        /\ ProgramData(<<target, place>>, Cell.data)
        /\ index' = Cell.ix /\ from' = <<sec, con>> /\ to' = <<target, place>>
        /\ current' = target /\ next' = place + 1
        /\ free' = IF fresh THEN free \ {target} ELSE free
        /\ step' = "retire"
        /\ UNCHANGED <<cat, dirty, erased, phase, scan, call>>

Rescued ==
    /\ phase = "gc" /\ step = "look" /\ con = PerSector
    /\ step' = "wipe"
    /\ UNCHANGED <<flashRam, room, phase, scan, job, call>>

----------------------------------------------------------------------------
(* The three index writes that move an address from one container to another, *)
(* in ves_move_container and in ves_container_write.                         *)

Retire ==
    /\ step = "retire"
    /\ ProgramIndex(from, "old", index)
    /\ step' = "store"
    /\ UNCHANGED <<cat, dirty, room, phase, scan, job, call>>

NoJob == index' = 0 /\ from' = NoEntry /\ to' = NoEntry

Store ==
    /\ step = "store"
    /\ ProgramIndex(to, "current", index)
    /\ IF from # NoEntry
       THEN step' = "clear" /\ UNCHANGED <<cat, job, nth>>
       ELSE cat' = [cat EXCEPT ![index] = to] /\ step' = "update" /\ nth' = nth + 1 /\ NoJob
    /\ UNCHANGED <<dirty, room, phase, scan, request>>

Clear ==
    /\ step = "clear"
    /\ ProgramIndex(from, "cleared", 0)
    /\ dirty' = [dirty EXCEPT ![from[1]] = @ + 1]
    /\ cat' = [cat EXCEPT ![index] = to]
    /\ NoJob
    /\ IF phase = "gc" THEN step' = "look" /\ con' = con + 1 /\ UNCHANGED nth
                       ELSE step' = "update" /\ nth' = nth + 1 /\ UNCHANGED con
    /\ UNCHANGED <<room, phase, sec, count, request>>

----------------------------------------------------------------------------
(* ad_nvms_ves_write: the containers from address lo to hi, in order.       *)
Write(lo, hi, d) ==
    /\ phase = "ready"
    /\ request' = [k \in 1 .. hi - lo + 1 |-> <<lo + k - 1, d[lo + k - 1]>>]
    /\ nth' = 1
    /\ phase' = "write" /\ step' = "update"
    /\ UNCHANGED <<flashRam, room, scan, job>>

Address == request[nth][1]
Payload == request[nth][2]

Updating == phase = "write" /\ step = "update" /\ nth \in DOMAIN request

(* ad_flash_update_possible *)
FitsInPlace == cat[Address] # NoEntry /\ Payload \subseteq At(cat[Address]).data

(* A payload that is there already is not written; programming it would     *)
(* change nothing either.                                                   *)
UpdateInPlace ==
    /\ Updating /\ FitsInPlace
    /\ ProgramData(cat[Address], Payload)
    /\ nth' = nth + 1
    /\ UNCHANGED <<cat, dirty, room, at, scan, job, request>>

(* Faulty variant: the last free sector is taken and nothing is collected. *)
LazyGetFreeContainer ==
    /\ Updating /\ ~FitsInPlace
    /\ IF Full THEN TakeFreeSector(free) ELSE UNCHANGED <<free, current, next>>
    /\ step' = "take"
    /\ UNCHANGED <<flashRam, erased, phase, scan, job, call>>

(* ves_get_free_container: the sector *)
GetFreeContainer ==
    /\ Updating /\ ~FitsInPlace
    /\ IF Full THEN TakeFreeSector(free) ELSE UNCHANGED <<free, current, next>>
    /\ IF Full /\ free' = {} THEN phase' = "gc" /\ step' = "choose"
                             ELSE phase' = phase /\ step' = "take"
    /\ UNCHANGED <<flashRam, erased, scan, job, call>>

(* ves_get_free_container: the container; ves_container_write: the data *)
WriteData ==
    LET place == <<current, next>>
        old   == cat[Address]
    IN  /\ step = "take" /\ next < PerSector
        /\ ProgramData(place, Payload)
        /\ next' = next + 1
        /\ index' = Address /\ from' = old /\ to' = place
        /\ step' = IF old = NoEntry THEN "store" ELSE "retire"
        /\ UNCHANGED <<cat, dirty, free, current, erased, phase, scan, call>>

Return ==
    /\ phase = "write" /\ step = "update" /\ nth \notin DOMAIN request
    /\ phase' = "ready" /\ step' = "rest"
    /\ request' = <<>> /\ nth' = 1
    /\ UNCHANGED <<flashRam, room, scan, job>>

----------------------------------------------------------------------------
(* A container whose data was programmed and whose index was not. *)
DataWithoutIndex == \E s \in Sectors, c \in Containers :
                        flash[s][c].kind = "unused" /\ flash[s][c].data # Bits

PowerLoss ==
    /\ phase # "off"
    /\ LosesAfterData \/ ~DataWithoutIndex
    /\ phase' = "off" /\ step' = "rest"
    /\ cat' = [ix \in Ixs |-> NoEntry]
    /\ dirty' = [s \in Sectors |-> 0]
    /\ free' = {} /\ current' = 0 /\ next' = PerSector /\ erased' = 0
    /\ sec' = 0 /\ con' = 0 /\ count' = NoCount
    /\ NoJob
    /\ request' = <<>> /\ nth' = 1
    /\ UNCHANGED flash

(* What the driver does until its operation is over. *)
Work ==
    \/ ScanUnused \/ ScanUninitialized \/ ScanCleared
    \/ ScanFirstCopy \/ ScanCurrentCopy \/ ScanOldCopy
    \/ FindFreeSector \/ RecycleSector \/ KeepSector \/ ScanDone
    \/ Wipe \/ Prepare \/ ScanPrepared \/ GcPrepared
    \/ ChooseVictim \/ RescueNothing \/ Rescue \/ Rescued \/ Collected
    \/ Retire \/ Store \/ Clear
    \/ UpdateInPlace \/ GetFreeContainer \/ WriteData \/ Return

Next ==
    \/ Boot
    \/ Work
    \/ \E lo \in Ixs : \E hi \in lo .. CatMax : \E d \in [lo .. hi -> Payloads] : Write(lo, hi, d)
    \/ PowerLoss

Spec == Init /\ [][Next]_vars /\ WF_vars(Work)

----------------------------------------------------------------------------
(* What the partition holds: for each address the payload that the next     *)
(* boot would find, the current copy or else the one it was replacing.      *)
Copies(ix, k) == {p \in Places : At(p).kind = k /\ At(p).ix = ix}

Contents ==
    [ix \in Ixs |->
        IF Copies(ix, "current") # {}
        THEN At(CHOOSE p \in Copies(ix, "current") : TRUE).data
        ELSE IF Copies(ix, "old") # {}
             THEN At(CHOOSE p \in Copies(ix, "old") : TRUE).data
             ELSE Bits]

(* ad_nvms_ves_read *)
Read(ix) == IF cat[ix] = NoEntry THEN Bits ELSE At(cat[ix]).data

Memory == INSTANCE VesStore WITH mem <- Contents, writing <- request,
                            alive <- phase = "ready" \/ request # <<>>

(* The driver implements a store whose addresses are written one at a time: *)
(* whatever is being collected, moved or recovered, and wherever power      *)
(* fails, an address changes only to the payload being written to it, and   *)
(* a write that returns has written all its addresses.                      *)
ImplementsStore == Memory!Spec

TypeOK ==
    /\ flash \in [Sectors -> [Containers -> Container]]
    /\ cat \in [Ixs -> Places \cup {NoEntry}]
    /\ dirty \in [Sectors -> 0 .. PerSector]
    /\ free \subseteq Sectors /\ current \in Sectors /\ next \in 0 .. PerSector
    /\ erased \in Sectors
    /\ phase \in {"off", "scan", "gc", "ready", "write"}
    /\ step \in {"rest", "look", "wipe", "prepare", "choose",
                "retire", "store", "clear", "update", "take"}
    /\ sec \in 0 .. SectorCount /\ con \in 0 .. PerSector
    /\ count \in [unused : 0 .. PerSector, uninit : 0 .. PerSector, dirty : 0 .. PerSector]
    /\ index \in 0 .. CatMax
    /\ from \in Places \cup {NoEntry} /\ to \in Places \cup {NoEntry}
    /\ request = <<>> \/ request \in Memory!Writes
    /\ nth \in 1 .. CatMax + 1

(* No OS_ASSERT of the driver fails: a free sector is found when one is     *)
(* taken (ves_get_free_sector), no container is used past the end of its    *)
(* sector, and no dirty count passes the size of a sector.                  *)
AssertsHold ==
    /\ Updating /\ ~FitsInPlace /\ Full => free # {}
    /\ step = "take" => next < PerSector
    /\ step = "clear" => dirty[from[1]] < PerSector
    /\ SectorScanned /\ ~NothingLive => count.dirty <= PerSector
    /\ Scanning /\ Cell.kind = "current" /\ cat[Cell.ix] # NoEntry /\ cat[Cell.ix][1] # sec
          => dirty[cat[Cell.ix][1]] < PerSector

(* Between operations the tables in RAM tell the truth about the flash: an  *)
(* address has one live copy, the one its entry names; the dirty counts are *)
(* the numbers of cleared containers; the free sectors are erased and ready, *)
(* there is at least one, and none of them is the sector being filled, whose *)
(* containers from free_container on are erased and ready.                  *)
TablesExact ==
    phase = "ready" =>
        /\ \A ix \in Ixs : Copies(ix, "current") \cup Copies(ix, "old") = {cat[ix]} \ {NoEntry}
        /\ \A s \in Sectors :
               dirty[s] = Cardinality({c \in Containers : flash[s][c].kind = "cleared"})
        /\ free # {} /\ current \notin free
        /\ \A s \in Sectors, c \in Containers :
               (s \in free \/ (s = current /\ c >= next))
                  => flash[s][c].kind = "unused" /\ flash[s][c].data = Bits

(* What programming may do to a container: data goes to an erased one or    *)
(* removes bits of a copy in use; an index goes from nothing to unused, from *)
(* unused to an address, from an address to the same without the current    *)
(* flag, and from anything to zero.                                         *)
Clears(a, b) ==
    \/ b = a
    \/ b.kind = "cleared"
    \/ /\ b.kind = a.kind /\ b.ix = a.ix
       /\ b.data \subseteq a.data
       /\ Live(a) \/ (a.kind = "unused" /\ a.data = Bits)
    \/ /\ b.data = a.data
       /\ \/ a.kind = "uninitialized" /\ b.kind = "unused"
          \/ a.kind = "unused" /\ b.kind = "current"
          \/ a.kind = "current" /\ b.kind = "old" /\ b.ix = a.ix

(* At sector s either everything is erased, or bits are cleared only. *)
BitsCleared ==
    \A s \in Sectors : \/ flash'[s] = [c \in Containers |-> Erased]
                       \/ \A c \in Containers : Clears(flash[s][c], flash'[s][c])

(* A program operation never needs a bit set again: only an erase, which is *)
(* one of a whole sector, turns zeros into ones.                            *)
OnlyClearsBits == [][BitsCleared]_vars

(* A collection ends, with a free sector: it does not go round for ever.    *)
CollectionEnds == phase = "gc" ~> phase # "gc"

(* A write that returns can be read back, and leaves every other address as *)
(* it was, whatever happened to the partition before.                       *)
WritesReadBack ==
    [][phase = "write" /\ phase' = "ready" =>
         \A k \in DOMAIN request : Read(request[k][1]) = request[k][2]]_vars
============================================================================
