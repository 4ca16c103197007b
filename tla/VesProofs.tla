------------------------------ MODULE VesProofs ------------------------------
(***************************************************************************)
(* What holds of the Virtual EEPROM driver for every number of sectors,    *)
(* containers, addresses and bits: the assertions, the tables in RAM, the  *)
(* bits of the flash, and that it implements the store of VesStore.        *)
(***************************************************************************)
EXTENDS Ves, FiniteSetTheorems, TLAPS

(* The configuration: garbage collection without a threshold (the default of *)
(* ad_nvms_ves.h:100), no loss of power between the data and the index of a  *)
(* container, and a partition with twice as many containers as addresses    *)
(* even without two of its sectors.  The driver makes the table of the      *)
(* addresses an eighth of the partition (AD_NVMS_VES_MULTIPLIER).           *)
Configured ==
    /\ GcThreshold < 0
    /\ ~LosesAfterData
    /\ 2 * CatMax < (SectorCount - 2) * PerSector

----------------------------------------------------------------------------
(* The invariant.  First what holds of the flash at any time, so that the   *)
(* next boot can rely on it.                                                *)

KindAt(s, c) == flash[s][c].kind

LiveAt(s, c) == KindAt(s, c) \in {"current", "old"}

BlankAt(s, c) == KindAt(s, c) \in {"unused", "uninitialized"}

(* A copy that counts: the current one, or the old one if no other is there. *)
KeptAt(s, c) ==
    \/ KindAt(s, c) = "current"
    \/ /\ KindAt(s, c) = "old"
       /\ ~ \E t \in Sectors, d \in Containers :
              KindAt(t, d) = "current" /\ flash[t][d].ix = flash[s][c].ix

KeptIn(s) == {c \in Containers : KeptAt(s, c)}

ClearedIn(s) == {c \in Containers : KindAt(s, c) = "cleared"}

InFlight == step \in {"retire", "store"}

(* An address in use is one of the table's; what is not written is erased.   *)
Cells ==
    \A s \in Sectors, c \in Containers :
        /\ LiveAt(s, c) => flash[s][c].ix \in Ixs
        /\ BlankAt(s, c) => /\ flash[s][c].ix = 0
                            /\ flash[s][c].data = Bits \/ (InFlight /\ to = <<s, c>>)

(* An address has one current copy at most, and one old copy at most. *)
OneEach ==
    \A s \in Sectors, c \in Containers, t \in Sectors, d \in Containers :
        LiveAt(s, c) /\ KindAt(t, d) = KindAt(s, c) /\ flash[t][d].ix = flash[s][c].ix
            => s = t /\ c = d

BlankSector(s) == \A c \in Containers : BlankAt(s, c)

UnusedSector(s) == \A c \in Containers : KindAt(s, c) = "unused"

UsedSector(s) == \A c \in Containers : ~BlankAt(s, c)

(* Containers are used from the first to the last. *)
LogSector(s) ==
    \A c \in Containers : /\ KindAt(s, c) # "uninitialized"
                          /\ KindAt(s, c) = "unused" =>
                                \A d \in Containers : d > c => KindAt(s, d) = "unused"

PartialSector(s) == ~BlankAt(s, 0) /\ KindAt(s, PerSector - 1) = "unused"

Shapes ==
    /\ \A s \in Sectors : BlankSector(s) \/ LogSector(s)
    /\ \A s, t \in Sectors : PartialSector(s) /\ PartialSector(t) => s = t

NothingIn(s) == \A c \in Containers : ~LiveAt(s, c)

(* The first k containers of sector s are copies that count, the others are  *)
(* unused.                                                                  *)
Rescues(s, k) ==
    \A c \in Containers : IF c < k THEN KindAt(s, c) = "current" ELSE KindAt(s, c) = "unused"

(* A collection that was interrupted can be done again from the start, though *)
(* the collector of the next boot does not look at sector 0: what is kept in  *)
(* another one fits behind what has been rescued.                            *)
CanResume ==
    \E s, w \in Sectors, k \in 0 .. PerSector :
        /\ w # 0 /\ w # s
        /\ Rescues(s, k)
        /\ k + Cardinality(KeptIn(w)) < PerSector

Recoverable == (\E s \in Sectors : NothingIn(s)) \/ CanResume

----------------------------------------------------------------------------
(* The scan                                                                *)

Seen(s, c) == s < sec \/ (s = sec /\ step = "look" /\ c < con)

CatSeen ==
    /\ \A ix \in Ixs : cat[ix] # NoEntry =>
          /\ Seen(cat[ix][1], cat[ix][2]) /\ LiveAt(cat[ix][1], cat[ix][2])
          /\ flash[cat[ix][1]][cat[ix][2]].ix = ix
    /\ \A s \in Sectors, c \in Containers :
          Seen(s, c) /\ LiveAt(s, c) => cat[flash[s][c].ix] = <<s, c>>

DirtySeen ==
    \A s \in Sectors : dirty[s] = IF s < sec THEN Cardinality(ClearedIn(s)) ELSE 0

FreeSeen ==
    /\ \A s \in free : s < sec /\ UnusedSector(s)
    /\ \A s \in Sectors : s < sec /\ BlankAt(s, 0) => s \in free

CurrentSeen ==
    IF next = PerSector
    THEN \A s \in Sectors : s < sec => ~PartialSector(s)
    ELSE /\ current < sec /\ 0 < next
         /\ \A c \in Containers : IF c < next THEN ~BlankAt(current, c)
                                           ELSE KindAt(current, c) = "unused"

LiveBefore == {c \in Containers : c < con /\ LiveAt(sec, c)}
ClearedBefore == {c \in Containers : c < con /\ KindAt(sec, c) = "cleared"}

Counts ==
    /\ count.unused + count.uninit + count.dirty + Cardinality(LiveBefore) = con
    /\ ~BlankAt(sec, 0) => count.uninit = 0 /\ count.dirty = Cardinality(ClearedBefore)
    /\ \A c \in Containers : con - count.unused <= c /\ c < con => KindAt(sec, c) = "unused"
    /\ con > count.unused => KindAt(sec, con - count.unused - 1) # "unused"

(* A sector that is being initialised *)
Preparing ==
    /\ NothingIn(sec)
    /\ step = "prepare" => /\ BlankSector(sec)
                           /\ \A c \in Containers : c < con => KindAt(sec, c) = "unused"

SpareLeft == (\E s \in Sectors : s >= sec /\ NothingIn(s)) \/ free # {} \/ CanResume

ScanInv ==
    phase = "scan" =>
        /\ step \in {"look", "wipe", "prepare"} /\ request = <<>> /\ erased = 0
        /\ Shapes /\ CatSeen /\ DirtySeen /\ FreeSeen /\ CurrentSeen /\ SpareLeft
        /\ step = "look" /\ sec < SectorCount => Counts
        /\ step = "look" /\ sec = SectorCount => con = 0
        /\ step # "look" => sec < SectorCount /\ Preparing

----------------------------------------------------------------------------
(* After the scan                                                          *)

Running == phase \in {"gc", "ready", "write"}

CatExact ==
    /\ \A ix \in Ixs : cat[ix] # NoEntry =>
          LiveAt(cat[ix][1], cat[ix][2]) /\ flash[cat[ix][1]][cat[ix][2]].ix = ix
    /\ \A s \in Sectors, c \in Containers :
          LiveAt(s, c) => cat[flash[s][c].ix] = <<s, c>> \/ (step = "clear" /\ to = <<s, c>>)

Unprepared(s) == step = "prepare" /\ s = sec

DirtyExact ==
    \A s \in Sectors : Unprepared(s) \/ dirty[s] = Cardinality(ClearedIn(s))

FreeExact ==
    /\ current \notin free
    /\ \A s \in free : UnusedSector(s)
    /\ \A s \in Sectors : s \in free \/ s = current \/ Unprepared(s) \/ UsedSector(s)

CurrentExact ==
    \A c \in Containers :
        IF c < next /\ ~(InFlight /\ to = <<current, c>>)
        THEN ~BlankAt(current, c)
        ELSE KindAt(current, c) = "unused"

Tables == Running => CatExact /\ DirtyExact /\ FreeExact /\ CurrentExact

(* The containers of the current sector that are stored *)
Stored == IF InFlight THEN next - 1 ELSE next

(* There is room for what the collector rescues from sector sec, and if that *)
(* is sector 0 for what is kept in another one too.                         *)
RescueRoom ==
    /\ Rescues(current, Stored)
    /\ Stored + Cardinality(KeptIn(sec)) < PerSector
    /\ \E w \in Sectors :
          /\ w # 0 /\ w # current
          /\ w # sec => Stored + Cardinality(KeptIn(sec)) + Cardinality(KeptIn(w)) < PerSector

(* A collection starts with an empty sector, or it goes on after a loss of   *)
(* power and finds a sector with little to rescue.                          *)
CollectorStarts ==
    free = {} =>
        \/ next = 0
        \/ /\ erased = 0
           /\ Rescues(current, next)
           /\ \E w \in Sectors : /\ w # 0 /\ w # current
                                 /\ next + Cardinality(KeptIn(w)) < PerSector

Moves ==
    /\ to = <<current, next - 1>> /\ 0 < next
    /\ index \in Ixs
    /\ IF from = NoEntry THEN cat[index] = NoEntry /\ step = "store"
       ELSE /\ cat[index] = from
            /\ step # "retire" => KindAt(from[1], from[2]) = "old"
    /\ step = "clear" =>
          KindAt(current, next - 1) = "current" /\ flash[current][next - 1].ix = index

GcInv ==
    phase = "gc" =>
        /\ step \in {"choose", "look", "retire", "store", "clear", "wipe", "prepare"}
        /\ request # <<>> => nth \in DOMAIN request
        /\ step = "choose" => next < PerSector /\ CollectorStarts /\ con = 0
        /\ step # "choose" =>
              /\ sec \in Sectors /\ sec # current /\ free = {}
              /\ step = "prepare" \/ UsedSector(sec)
        /\ step \in {"look", "retire", "store", "clear"} =>
              /\ RescueRoom
              /\ \A c \in Containers : c < con => ~LiveAt(sec, c)
        /\ step \in {"retire", "store", "clear"} =>
              /\ Moves /\ con < PerSector
              /\ from = <<sec, con>>
              /\ flash[current][next - 1].data = flash[sec][con].data
        /\ step \in {"wipe", "prepare"} => Preparing /\ next < PerSector

WriteInv ==
    phase = "write" =>
        /\ step \in {"update", "take", "retire", "store", "clear"}
        /\ request # <<>> /\ free # {} /\ con = 0
        /\ step # "update" => nth \in DOMAIN request
        /\ step = "take" => next < PerSector
        /\ step \in {"retire", "store", "clear"} =>
              /\ Moves /\ index = Address
              /\ flash[current][next - 1].data = Payload

ReadyInv == phase = "ready" => step = "rest" /\ con = 0 /\ request = <<>> /\ free # {}

OffInv == phase = "off" => step = "rest" /\ request = <<>> /\ Shapes /\ Recoverable

IInv ==
    /\ TypeOK /\ Cells /\ OneEach
    /\ OffInv /\ ScanInv /\ Tables /\ GcInv /\ WriteInv /\ ReadyInv

----------------------------------------------------------------------------
(* Numbers and sizes of sets                                               *)

(* A nonempty set of natural numbers has a least element. *)
LEMMA LowestIsLeast ==
  ASSUME NEW S \in SUBSET Nat, S # {}
  PROVE  Lowest(S) \in S /\ \A t \in S : Lowest(S) <= t
<1>1. \E s \in S : \A t \in S : ~ (<<t, s>> \in OpToRel(<, Nat))
  BY NatLessThanWellFounded, WFMin
<1>2. \E s \in S : \A t \in S : s <= t
  <2>1. PICK s \in S : \A t \in S : ~ (<<t, s>> \in OpToRel(<, Nat))
    BY <1>1
  <2>2. \A t \in S : ~ (t < s)
    BY <2>1 DEF OpToRel
  <2> QED BY <2>2
<1> QED BY <1>2 DEF Lowest

(* A function to a range of natural numbers takes its greatest value. *)
LEMMA GreatestValue ==
  ASSUME NEW S, S # {}, NEW n \in Nat, NEW f \in [S -> 0 .. n]
  PROVE  \E k \in S : \A j \in S : f[j] <= f[k]
<1> DEFINE T == {n - f[j] : j \in S}
<1>1. T \in SUBSET Nat /\ T # {}
  OBVIOUS
<1>2. Lowest(T) \in T /\ \A t \in T : Lowest(T) <= t
  BY <1>1, LowestIsLeast
<1>3. PICK k \in S : Lowest(T) = n - f[k]
  BY <1>2
<1>4. \A j \in S : n - f[k] <= n - f[j]
  BY <1>2, <1>3
<1>5. \A j \in S : f[j] <= f[k]
  BY <1>4
<1> QED BY <1>5

(* The containers of a sector are finitely many. *)
LEMMA ContainersFinite ==
  /\ IsFiniteSet(Containers) /\ Cardinality(Containers) = PerSector
  /\ \A S \in SUBSET Containers :
        IsFiniteSet(S) /\ Cardinality(S) \in 0 .. PerSector
        /\ (S # Containers => Cardinality(S) < PerSector)
        /\ (Cardinality(S) = 0 <=> S = {})
<1>1. IsFiniteSet(Containers) /\ Cardinality(Containers) = PerSector
  BY FS_Interval, VesAssumption DEF Containers
<1>2. ASSUME NEW S \in SUBSET Containers
      PROVE  /\ IsFiniteSet(S) /\ Cardinality(S) \in 0 .. PerSector
             /\ S # Containers => Cardinality(S) < PerSector
             /\ Cardinality(S) = 0 <=> S = {}
  <2>1. /\ IsFiniteSet(S) /\ Cardinality(S) <= Cardinality(Containers)
        /\ Cardinality(Containers) = Cardinality(S) => Containers = S
    BY <1>1, FS_Subset
  <2>2. Cardinality(S) \in Nat
    BY <2>1, FS_CardinalityType
  <2>3. Cardinality(S) = 0 <=> S = {}
    BY <2>1, FS_EmptySet
  <2> QED BY <1>1, <2>1, <2>2, <2>3, VesAssumption
<1> QED BY <1>1, <1>2

(* One container more, or one less. *)
LEMMA OneMore ==
  ASSUME NEW S \in SUBSET Containers, NEW c \in Containers
  PROVE  /\ c \notin S => Cardinality(S \cup {c}) = Cardinality(S) + 1
         /\ c \in S => Cardinality(S \ {c}) = Cardinality(S) - 1
<1>1. IsFiniteSet(S)
  BY ContainersFinite
<1> QED BY <1>1, FS_AddElement, FS_RemoveElement

(* Of two sets that share a sector's containers, each has what the other    *)
(* leaves.                                                                  *)
LEMMA TwoParts ==
  ASSUME NEW S \in SUBSET Containers, NEW T \in SUBSET Containers,
         S \cup T = Containers, S \cap T = {}
  PROVE  Cardinality(S) + Cardinality(T) = PerSector
<1>1. IsFiniteSet(S) /\ IsFiniteSet(T) /\ Cardinality(S) \in Nat /\ Cardinality(T) \in Nat
  BY ContainersFinite
<1>2. Cardinality(S \cup T) = Cardinality(S) + Cardinality(T) - Cardinality(S \cap T)
  BY <1>1, FS_Union
<1>3. Cardinality(S \cap T) = 0
  BY FS_EmptySet
<1>4. Cardinality(S \cup T) = PerSector
  BY ContainersFinite
<1> QED BY <1>1, <1>2, <1>3, <1>4

(* Products grow with their factors. *)
LEMMA ProductGrows ==
  ASSUME NEW a \in Nat, NEW b \in Nat, NEW n \in Nat, a <= b
  PROVE  a * n <= b * n
<1>1. b - a \in Nat /\ b = a + (b - a)
  OBVIOUS
<1>2. (b - a) * n >= 0
  BY <1>1
<1>3. b * n = a * n + (b - a) * n
  BY <1>1
<1> QED BY <1>2, <1>3

(* What sectors hold under different addresses cannot fill half of each of   *)
(* them, if all but two sectors are asked: there are too few addresses.     *)
LEMMA HalfEmpty ==
  ASSUME Configured, NEW S \in SUBSET Sectors, Cardinality(S) >= SectorCount - 2,
         NEW held \in [S -> SUBSET Containers], NEW name,
         \A s \in S : \A c \in held[s] : name[<<s, c>>] \in Ixs,
         \A s \in S, t \in S : \A c \in held[s], d \in held[t] :
            name[<<s, c>>] = name[<<t, d>>] => s = t /\ c = d
  PROVE  \E s \in S : 2 * Cardinality(held[s]) < PerSector
<1>1. SUFFICES ASSUME \A s \in S : ~ (2 * Cardinality(held[s]) < PerSector)
               PROVE  FALSE
  OBVIOUS
<1> DEFINE Two == {0} \cup {1}
           Slots == 1 .. PerSector
<1>2. /\ IsFiniteSet(Two) /\ Cardinality(Two) = 2
      /\ IsFiniteSet(Slots) /\ Cardinality(Slots) = PerSector
      /\ IsFiniteSet(Ixs) /\ Cardinality(Ixs) = CatMax
      /\ IsFiniteSet(S) /\ Cardinality(S) \in Nat
  <2>1. IsFiniteSet(Two) /\ Cardinality(Two) = 2
    <3>1. IsFiniteSet({0}) /\ Cardinality({0}) = 1
      BY FS_Singleton
    <3>2. 1 \notin {0}
      OBVIOUS
    <3>3. /\ IsFiniteSet(Two)
          /\ Cardinality(Two) = IF 1 \in {0} THEN Cardinality({0}) ELSE Cardinality({0}) + 1
      BY <3>1, FS_AddElement, Zenon
    <3> HIDE DEF Two
    <3> QED BY <3>1, <3>2, <3>3
  <2>2. IsFiniteSet(Slots) /\ Cardinality(Slots) = PerSector
    BY FS_Interval, VesAssumption
  <2>3. IsFiniteSet(Ixs) /\ Cardinality(Ixs) = CatMax
    BY FS_Interval, VesAssumption DEF Ixs
  <2>4. IsFiniteSet(Sectors)
    BY FS_Interval, VesAssumption DEF Sectors
  <2>5. IsFiniteSet(S) /\ Cardinality(S) \in Nat
    BY <2>4, FS_Subset, FS_CardinalityType
  <2> QED BY <2>1, <2>2, <2>3, <2>5
<1>3. ASSUME NEW s \in S
      PROVE  \E g \in [Slots -> held[s] \X Two] :
                \A j, k \in Slots : g[j] = g[k] => j = k
  <2>1. /\ IsFiniteSet(held[s]) /\ Cardinality(held[s]) \in Nat
        /\ 2 * Cardinality(held[s]) >= PerSector
    BY <1>1, ContainersFinite, VesAssumption
  <2>2. /\ IsFiniteSet(held[s] \X Two)
        /\ Cardinality(held[s] \X Two) = Cardinality(held[s]) * Cardinality(Two)
    BY <2>1, <1>2, FS_Product
  <2> DEFINE n == Cardinality(held[s] \X Two)
  <2>3. n \in Nat /\ n >= PerSector
    <3>1. Cardinality(held[s]) * Cardinality(Two) = 2 * Cardinality(held[s])
      BY <1>2, <2>1
    <3> QED BY <3>1, <2>1, <2>2
  <2>4. ExistsBijection(1 .. n, held[s] \X Two)
    BY <2>2, FS_CardinalityType
  <2>5. PICK h \in [1 .. n -> held[s] \X Two] : \A j, k \in 1 .. n : h[j] = h[k] => j = k
    <3>1. PICK h \in Bijection(1 .. n, held[s] \X Two) : TRUE
      BY <2>4 DEF ExistsBijection
    <3>2. h \in [1 .. n -> held[s] \X Two] /\ \A j, k \in 1 .. n : h[j] = h[k] => j = k
      BY <3>1 DEF Bijection, Injection, IsInjective
    <3> QED BY <3>2
  <2> HIDE DEF n
  <2>6. Slots \subseteq 1 .. n
    BY <2>3, VesAssumption
  <2> DEFINE g == [k \in Slots |-> h[k]]
  <2>7. g \in [Slots -> held[s] \X Two]
    BY <2>5, <2>6
  <2>8. \A j, k \in Slots : g[j] = g[k] => j = k
    BY <2>5, <2>6
  <2> QED BY <2>7, <2>8
<1> DEFINE pick(s) == CHOOSE g \in [Slots -> held[s] \X Two] :
                         \A j, k \in Slots : g[j] = g[k] => j = k
<1>4. \A s \in S : /\ pick(s) \in [Slots -> held[s] \X Two]
                   /\ \A j, k \in Slots : pick(s)[j] = pick(s)[k] => j = k
  BY <1>3
<1> HIDE DEF pick
<1> DEFINE f == [p \in S \X Slots |-> <<name[<<p[1], pick(p[1])[p[2]][1]>>], pick(p[1])[p[2]][2]>>]
<1>5. \A s \in S : \A k \in Slots : pick(s)[k] \in held[s] \X Two
  BY <1>4
<1>6. f \in [S \X Slots -> Ixs \X Two]
  <2>1. ASSUME NEW p \in S \X Slots
        PROVE  <<name[<<p[1], pick(p[1])[p[2]][1]>>], pick(p[1])[p[2]][2]>> \in Ixs \X Two
    <3>1. pick(p[1])[p[2]] \in held[p[1]] \X Two
      BY <1>5
    <3>2. pick(p[1])[p[2]][1] \in held[p[1]] /\ pick(p[1])[p[2]][2] \in Two
      BY <3>1
    <3> QED BY <3>2
  <2> QED BY <2>1
<1>7. f \in Injection(S \X Slots, Ixs \X Two)
  <2>1. ASSUME NEW p \in S \X Slots, NEW q \in S \X Slots, f[p] = f[q]
        PROVE  p = q
    <3>1. /\ pick(p[1])[p[2]] \in held[p[1]] \X Two
          /\ pick(q[1])[q[2]] \in held[q[1]] \X Two
      BY <1>5
    <3>2. /\ name[<<p[1], pick(p[1])[p[2]][1]>>] = name[<<q[1], pick(q[1])[q[2]][1]>>]
          /\ pick(p[1])[p[2]][2] = pick(q[1])[q[2]][2]
      BY <2>1
    <3>3. p[1] = q[1] /\ pick(p[1])[p[2]][1] = pick(q[1])[q[2]][1]
      BY <3>1, <3>2
    <3>4. pick(p[1])[p[2]] = pick(p[1])[q[2]]
      BY <3>1, <3>2, <3>3
    <3>5. p[2] = q[2]
      BY <3>4, <1>4
    <3> QED BY <3>3, <3>5
  <2> QED BY <2>1, <1>6 DEF Injection, IsInjective
<1> HIDE DEF f
<1>8. /\ IsFiniteSet(Ixs \X Two) /\ Cardinality(Ixs \X Two) = CatMax * 2
      /\ Cardinality(S \X Slots) = Cardinality(S) * PerSector
  <2>1. /\ IsFiniteSet(Ixs \X Two)
        /\ Cardinality(Ixs \X Two) = Cardinality(Ixs) * Cardinality(Two)
    BY <1>2, FS_Product
  <2>2. Cardinality(S \X Slots) = Cardinality(S) * Cardinality(Slots)
    BY <1>2, FS_Product
  <2> QED BY <2>1, <2>2, <1>2
<1>9. Cardinality(S) * PerSector <= CatMax * 2
  BY <1>7, <1>8, FS_Injection
<1>10. (SectorCount - 2) * PerSector <= Cardinality(S) * PerSector
  BY <1>2, VesAssumption, ProductGrows
<1> DEFINE a == (SectorCount - 2) * PerSector
           b == Cardinality(S) * PerSector
<1>11. a \in Int /\ b \in Int /\ CatMax \in Int
  BY <1>2, VesAssumption
<1> QED BY <1>9, <1>10, <1>11 DEF Configured

(* Some sector among all but two has less than half of its containers kept. *)
LEMMA SomeHalfKept ==
  ASSUME Configured, TypeOK, Cells, OneEach, NEW a \in Sectors, NEW b \in Sectors
  PROVE  \E s \in Sectors \ {a, b} : 2 * Cardinality(KeptIn(s)) < PerSector
<1> DEFINE S == (Sectors \ {a}) \ {b}
           held == [s \in S |-> KeptIn(s)]
           name == [p \in Places |-> flash[p[1]][p[2]].ix]
<1>1. S \in SUBSET Sectors /\ Cardinality(S) >= SectorCount - 2
  <2>1. IsFiniteSet(Sectors) /\ Cardinality(Sectors) = SectorCount
    BY FS_Interval, VesAssumption DEF Sectors
  <2>2. IsFiniteSet(Sectors \ {a}) /\ Cardinality(Sectors \ {a}) = SectorCount - 1
    BY <2>1, FS_RemoveElement
  <2>3. \/ Cardinality(S) = SectorCount - 1
        \/ Cardinality(S) = SectorCount - 1 - 1
    BY <2>2, FS_RemoveElement, Zenon
  <2> QED BY <2>3, VesAssumption
<1>2. held \in [S -> SUBSET Containers]
  BY DEF KeptIn
<1>3. \A s \in S : \A c \in held[s] : KeptAt(s, c) /\ c \in Containers
  BY DEF KeptIn
<1>4. \A s \in S : \A c \in Containers : name[<<s, c>>] = flash[s][c].ix
  BY DEF Places
<1>5. \A s \in S : \A c \in held[s] : name[<<s, c>>] \in Ixs
  <2>1. ASSUME NEW s \in S, NEW c \in held[s]
        PROVE  name[<<s, c>>] \in Ixs
    <3>1. s \in Sectors /\ c \in Containers /\ KeptAt(s, c)
      BY <1>3
    <3>2. flash[s][c].ix \in Ixs
      BY <3>1 DEF Cells, KeptAt, LiveAt
    <3> QED BY <3>1, <3>2, <1>4
  <2> QED BY <2>1
<1>6. ASSUME NEW s \in S, NEW t \in S, NEW c \in held[s], NEW d \in held[t],
             name[<<s, c>>] = name[<<t, d>>]
      PROVE  s = t /\ c = d
  <2>1. flash[s][c].ix = flash[t][d].ix /\ KeptAt(s, c) /\ KeptAt(t, d)
    BY <1>3, <1>4, <1>6
  <2>2. c \in Containers /\ d \in Containers /\ s \in Sectors /\ t \in Sectors
    BY <1>3
  <2>3. KindAt(s, c) = KindAt(t, d) /\ LiveAt(s, c)
    BY <2>1, <2>2 DEF KeptAt, LiveAt
  <2> QED BY <2>1, <2>2, <2>3 DEF OneEach
<1> HIDE DEF held, name, S
<1>7. PICK s \in S : 2 * Cardinality(held[s]) < PerSector
  BY <1>1, <1>2, <1>5, <1>6, HalfEmpty
<1> QED BY <1>7 DEF S, held

(* The victim is one of the dirtiest sectors but the one erased last. *)
LEMMA VictimIsDirtiest ==
  ASSUME TypeOK, GcThreshold < 0
  PROVE  /\ Victim \in Sectors /\ Victim # erased
         /\ \A s \in Sectors : s # erased => dirty[s] <= dirty[Victim]
<1> DEFINE seen == 0 .. SectorCount - 2
           sector(k) == IF erased + 1 + k < SectorCount THEN erased + 1 + k
                                                     ELSE erased + 1 + k - SectorCount
           best == {k \in seen : \A j \in seen : dirty[sector(j)] <= dirty[sector(k)]}
           f == [k \in seen |-> dirty[sector(k)]]
<1>1. erased \in Sectors /\ dirty \in [Sectors -> 0 .. PerSector]
  BY DEF TypeOK
<1>2. \A k \in seen : sector(k) \in Sectors /\ sector(k) # erased
  BY <1>1, VesAssumption DEF Sectors
<1>3. ASSUME NEW s \in Sectors, s # erased
      PROVE  \E k \in seen : sector(k) = s
  <2>1. CASE s > erased
    <3>1. s - erased - 1 \in seen /\ sector(s - erased - 1) = s
      BY <1>1, <1>3, <2>1, VesAssumption DEF Sectors
    <3> QED BY <3>1
  <2>2. CASE s < erased
    <3>1. s - erased - 1 + SectorCount \in seen /\ sector(s - erased - 1 + SectorCount) = s
      BY <1>1, <1>3, <2>2, VesAssumption DEF Sectors
    <3> QED BY <3>1
  <2> QED BY <2>1, <2>2, <1>1, <1>3 DEF Sectors
<1>4. f \in [seen -> 0 .. PerSector] /\ seen # {}
  <2>1. \A k \in seen : dirty[sector(k)] \in 0 .. PerSector
    BY <1>1, <1>2
  <2>2. 0 \in seen
    BY VesAssumption
  <2> QED BY <2>1, <2>2
<1>5. best # {}
  <2> HIDE DEF sector, seen
  <2>1. \E k \in seen : \A j \in seen : f[j] <= f[k]
    BY <1>4, GreatestValue, VesAssumption
  <2>2. \A k \in seen : f[k] = dirty[sector(k)]
    OBVIOUS
  <2> QED BY <2>1, <2>2
<1>6. best \in SUBSET Nat
  BY VesAssumption
<1>7. Lowest(best) \in best
  BY <1>5, <1>6, LowestIsLeast
<1>8. Victim = sector(Lowest(best))
  BY <1>5 DEF Victim
<1> DEFINE k == Lowest(best)
<1>9. k \in seen /\ \A j \in seen : dirty[sector(j)] <= dirty[sector(k)]
  BY <1>7
<1> HIDE DEF sector, seen, best, k
<1>10. Victim = sector(k)
  BY <1>8 DEF k
<1> QED BY <1>2, <1>3, <1>9, <1>10

(* When the collector chooses, a used sector holds cleared containers and   *)
(* kept ones only.                                                          *)
LEMMA UsedSectorParts ==
  ASSUME TypeOK, Cells, CatExact, step # "clear",
         NEW s \in Sectors, UsedSector(s)
  PROVE  Cardinality(ClearedIn(s)) + Cardinality(KeptIn(s)) = PerSector
<1>1. ASSUME NEW c \in Containers, KindAt(s, c) # "cleared"
      PROVE  KeptAt(s, c)
  <2>1. LiveAt(s, c)
    BY <1>1 DEF UsedSector, BlankAt, LiveAt, KindAt, TypeOK, Container, IndexKinds
  <2>2. flash[s][c].ix \in Ixs /\ cat[flash[s][c].ix] = <<s, c>>
    BY <2>1 DEF Cells, CatExact
  <2>3. ASSUME NEW t \in Sectors, NEW d \in Containers,
               KindAt(t, d) = "current", flash[t][d].ix = flash[s][c].ix
        PROVE  t = s /\ d = c
    BY <2>2, <2>3 DEF CatExact, LiveAt
  <2> QED BY <2>1, <2>3 DEF KeptAt, LiveAt
<1>2. \A c \in Containers : KeptAt(s, c) => KindAt(s, c) # "cleared"
  BY DEF KeptAt
<1>3. /\ ClearedIn(s) \in SUBSET Containers /\ KeptIn(s) \in SUBSET Containers
      /\ ClearedIn(s) \cup KeptIn(s) = Containers /\ ClearedIn(s) \cap KeptIn(s) = {}
  BY <1>1, <1>2 DEF ClearedIn, KeptIn
<1> QED BY <1>3, TwoParts

(* The collector finds a sector to collect that is not the one it moves to, *)
(* and room there for what it moves, now and after a loss of power.         *)
LEMMA VictimHasRoom ==
  ASSUME Configured, TypeOK, Cells, OneEach, CatExact, DirtyExact, FreeExact, CurrentExact,
         step = "choose", free = {}, next < PerSector, CollectorStarts
  PROVE  /\ Victim \in Sectors /\ Victim # current /\ UsedSector(Victim)
         /\ Rescues(current, next)
         /\ next + Cardinality(KeptIn(Victim)) < PerSector
         /\ \E w \in Sectors :
               /\ w # 0 /\ w # current
               /\ w # Victim => next + Cardinality(KeptIn(Victim))
                                     + Cardinality(KeptIn(w)) < PerSector
<1>1. /\ Victim \in Sectors /\ Victim # erased
      /\ \A s \in Sectors : s # erased => dirty[s] <= dirty[Victim]
  BY VictimIsDirtiest DEF Configured
<1>2. \A s \in Sectors : s # current => UsedSector(s)
  BY DEF FreeExact, Unprepared
<1>3. \A s \in Sectors : /\ Cardinality(KeptIn(s)) \in 0 .. PerSector
                         /\ Cardinality(ClearedIn(s)) \in 0 .. PerSector
                         /\ dirty[s] = Cardinality(ClearedIn(s))
  <2>1. \A s \in Sectors : dirty[s] = Cardinality(ClearedIn(s))
    BY DEF DirtyExact, Unprepared
  <2> QED BY <2>1, ContainersFinite DEF KeptIn, ClearedIn
<1>4. \A s \in Sectors : s # current =>
         Cardinality(KeptIn(s)) = PerSector - dirty[s]
  BY <1>2, <1>3, UsedSectorParts, VesAssumption
<1>5. current \in Sectors /\ 0 \in Sectors /\ erased \in Sectors /\ next \in 0 .. PerSector
  BY VesAssumption DEF TypeOK, Sectors
<1>6. ASSUME Rescues(current, next) PROVE dirty[current] = 0
  <2>1. ClearedIn(current) = {}
    BY <1>6 DEF Rescues, ClearedIn
  <2> QED BY <2>1, <1>3, <1>5, ContainersFinite
<1>7. CASE next = 0
  <2>1. Rescues(current, next)
    BY <1>7 DEF CurrentExact, Rescues, Containers, InFlight
  <2>2. PICK s \in Sectors \ {erased, current} : 2 * Cardinality(KeptIn(s)) < PerSector
    BY <1>5, SomeHalfKept
  <2>3. dirty[s] <= dirty[Victim] /\ Cardinality(KeptIn(s)) = PerSector - dirty[s]
    BY <1>1, <1>4, <2>2
  <2>4. Victim # current
    BY <2>1, <2>2, <2>3, <1>6, <1>3, VesAssumption
  <2>5. Cardinality(KeptIn(Victim)) = PerSector - dirty[Victim]
    BY <1>1, <1>4, <2>4
  <2>6. 2 * Cardinality(KeptIn(Victim)) < PerSector
    BY <2>2, <2>3, <2>5, <1>1, <1>3, VesAssumption
  <2>7. PICK w \in Sectors \ {0, current} : 2 * Cardinality(KeptIn(w)) < PerSector
    BY <1>5, SomeHalfKept
  <2>8. /\ Cardinality(KeptIn(Victim)) < PerSector
        /\ Cardinality(KeptIn(Victim)) + Cardinality(KeptIn(w)) < PerSector
    BY <2>6, <2>7, <1>1, <1>3, VesAssumption
  <2>9. /\ next + Cardinality(KeptIn(Victim)) < PerSector
        /\ next + Cardinality(KeptIn(Victim)) + Cardinality(KeptIn(w)) < PerSector
    BY <2>8, <1>1, <1>3, <1>7
  <2> QED BY <2>1, <2>4, <2>7, <2>9, <1>1, <1>2
<1>8. CASE next # 0
  <2>1. PICK w \in Sectors : w # 0 /\ w # current /\ next + Cardinality(KeptIn(w)) < PerSector
    BY <1>8 DEF CollectorStarts
  <2>2. Rescues(current, next) /\ erased = 0
    BY <1>8 DEF CollectorStarts
  <2>3. dirty[w] <= dirty[Victim] /\ Cardinality(KeptIn(w)) = PerSector - dirty[w]
    BY <2>1, <2>2, <1>1, <1>4
  <2>4. Victim # current
    BY <2>1, <2>2, <2>3, <1>3, <1>5, <1>6, VesAssumption
  <2>5. next + Cardinality(KeptIn(Victim)) < PerSector
    BY <2>1, <2>3, <2>4, <1>1, <1>3, <1>4, <1>5, VesAssumption
  <2> QED BY <2>2, <2>4, <2>5, <1>1, <1>2
<1> QED BY <1>7, <1>8

----------------------------------------------------------------------------
(* What the operations do to the flash                                     *)

Flash == [Sectors -> [Containers -> Container]]

(* Programming an index changes one container. *)
LEMMA IndexProgrammed ==
  ASSUME flash \in Flash, NEW p \in Places, NEW k \in IndexKinds, NEW i \in 0 .. CatMax,
         ProgramIndex(p, k, i)
  PROVE  /\ flash' \in Flash
         /\ \A s \in Sectors, c \in Containers :
               s # p[1] \/ c # p[2] => flash'[s][c] = flash[s][c]
         /\ flash'[p[1]][p[2]].kind = k /\ flash'[p[1]][p[2]].ix = i
         /\ k # "cleared" => flash'[p[1]][p[2]].data = flash[p[1]][p[2]].data
<1> DEFINE old == flash[p[1]][p[2]]
           new == [kind |-> k, ix |-> i, data |-> IF k = "cleared" THEN {} ELSE old.data]
<1>1. p[1] \in Sectors /\ p[2] \in Containers
  BY DEF Places
<1>2. old \in Container
  BY <1>1 DEF Flash
<1>3. new \in Container
  BY <1>2 DEF Container, Payloads
<1>4. flash' = [flash EXCEPT ![p[1]][p[2]] = new]
  BY DEF ProgramIndex
<1> HIDE DEF new
<1>5. flash' \in Flash
  BY <1>1, <1>3, <1>4 DEF Flash
<1>6. flash'[p[1]][p[2]] = new
  BY <1>1, <1>4 DEF Flash
<1>7. \A s \in Sectors, c \in Containers :
         s # p[1] \/ c # p[2] => flash'[s][c] = flash[s][c]
  BY <1>1, <1>4 DEF Flash
<1> QED BY <1>5, <1>6, <1>7 DEF new

(* Programming data removes bits of one container. *)
LEMMA DataProgrammed ==
  ASSUME flash \in Flash, NEW p \in Places, NEW d \in Payloads, ProgramData(p, d)
  PROVE  /\ flash' \in Flash
         /\ \A s \in Sectors, c \in Containers :
               /\ s # p[1] \/ c # p[2] => flash'[s][c] = flash[s][c]
               /\ flash'[s][c].kind = flash[s][c].kind
               /\ flash'[s][c].ix = flash[s][c].ix
         /\ flash'[p[1]][p[2]].data = flash[p[1]][p[2]].data \cap d
<1> DEFINE old == flash[p[1]][p[2]]
           new == [old EXCEPT !.data = @ \cap d]
<1>1. p[1] \in Sectors /\ p[2] \in Containers
  BY DEF Places
<1>2. old \in Container
  BY <1>1 DEF Flash
<1>3. new \in Container /\ new.kind = old.kind /\ new.ix = old.ix /\ new.data = old.data \cap d
  BY <1>2 DEF Container, Payloads
<1>4. flash' = [flash EXCEPT ![p[1]][p[2]] = new]
  BY DEF ProgramData
<1> HIDE DEF new
<1>5. flash' \in Flash
  BY <1>1, <1>3, <1>4 DEF Flash
<1>6. flash'[p[1]][p[2]] = new
  BY <1>1, <1>4 DEF Flash
<1>7. \A s \in Sectors, c \in Containers :
         s # p[1] \/ c # p[2] => flash'[s][c] = flash[s][c]
  BY <1>1, <1>4 DEF Flash
<1> QED BY <1>3, <1>5, <1>6, <1>7

(* An erase changes one sector. *)
LEMMA SectorErased ==
  ASSUME flash \in Flash, NEW s \in Sectors, EraseSector(s)
  PROVE  /\ flash' \in Flash
         /\ \A t \in Sectors : t # s => flash'[t] = flash[t]
         /\ \A c \in Containers : flash'[s][c] = Erased
<1>1. Erased \in Container
  BY VesAssumption DEF Erased, Container, IndexKinds, Payloads
<1> HIDE DEF Erased
<1>2. flash' = [flash EXCEPT ![s] = [c \in Containers |-> Erased]]
  BY DEF EraseSector
<1> QED BY <1>1, <1>2 DEF Flash

(* What depends on the kinds and the addresses of the containers only, and  *)
(* stays as it is when they do.                                             *)
SameKinds ==
    \A s \in Sectors, c \in Containers :
        flash'[s][c].kind = flash[s][c].kind /\ flash'[s][c].ix = flash[s][c].ix

(* What the kinds and the addresses decide, they keep. *)
LEMMA KindsDecide ==
  ASSUME SameKinds
  PROVE  /\ OneEach => OneEach'
         /\ Shapes => Shapes'
         /\ \A s \in Sectors, c \in Containers : /\ KindAt(s, c)' = KindAt(s, c)
                                                 /\ LiveAt(s, c)' = LiveAt(s, c)
                                                 /\ BlankAt(s, c)' = BlankAt(s, c)
         /\ \A s \in Sectors : /\ KeptIn(s)' = KeptIn(s)
                               /\ ClearedIn(s)' = ClearedIn(s)
                               /\ BlankSector(s)' = BlankSector(s)
                               /\ UnusedSector(s)' = UnusedSector(s)
                               /\ UsedSector(s)' = UsedSector(s)
                               /\ PartialSector(s)' = PartialSector(s)
                               /\ LogSector(s)' = LogSector(s)
                               /\ NothingIn(s)' = NothingIn(s)
                               /\ \A k \in 0 .. PerSector : Rescues(s, k)' = Rescues(s, k)
<1>1. \A s \in Sectors, c \in Containers : /\ KindAt(s, c)' = KindAt(s, c)
                                           /\ LiveAt(s, c)' = LiveAt(s, c)
                                           /\ BlankAt(s, c)' = BlankAt(s, c)
                                           /\ KeptAt(s, c)' = KeptAt(s, c)
  BY DEF SameKinds, KindAt, LiveAt, BlankAt, KeptAt
<1>2. 0 \in Containers /\ PerSector - 1 \in Containers
  BY VesAssumption DEF Containers
<1>3. OneEach => OneEach'
  BY <1>1 DEF SameKinds, OneEach
<1>4. \A s \in Sectors : /\ KeptIn(s)' = KeptIn(s)
                         /\ ClearedIn(s)' = ClearedIn(s)
  BY <1>1 DEF KeptIn, ClearedIn
<1>5. \A s \in Sectors : /\ BlankSector(s)' = BlankSector(s)
                         /\ UnusedSector(s)' = UnusedSector(s)
                         /\ UsedSector(s)' = UsedSector(s)
                         /\ NothingIn(s)' = NothingIn(s)
  BY <1>1 DEF BlankSector, UnusedSector, UsedSector, NothingIn
<1>6. \A s \in Sectors : PartialSector(s)' = PartialSector(s)
  BY <1>1, <1>2 DEF PartialSector
<1>7. \A s \in Sectors : LogSector(s)' = LogSector(s)
  BY <1>1 DEF LogSector
<1>8. \A s \in Sectors : \A k \in 0 .. PerSector : Rescues(s, k)' = Rescues(s, k)
  BY <1>1 DEF Rescues
<1>9. Shapes => Shapes'
  BY <1>5, <1>6, <1>7 DEF Shapes
<1> QED BY <1>1, <1>3, <1>4, <1>5, <1>6, <1>7, <1>8, <1>9

(* What clearing an old copy beside a current one leaves: nothing that counts *)
(* is lost, and no container becomes free.                                  *)
OldCleared(p) ==
    /\ flash' \in Flash
    /\ OneEach'
    /\ Shapes => Shapes'
    /\ \A s \in Sectors, c \in Containers :
          /\ BlankAt(s, c) => flash'[s][c] = flash[s][c]
          /\ BlankAt(s, c)' = BlankAt(s, c)
          /\ KindAt(s, c)' = "unused" <=> KindAt(s, c) = "unused"
          /\ s # p[1] \/ c # p[2] => flash'[s][c] = flash[s][c]
          /\ LiveAt(s, c)' <=> LiveAt(s, c) /\ ~ (s = p[1] /\ c = p[2])
          /\ LiveAt(s, c)' => flash'[s][c].ix = flash[s][c].ix
    /\ \A s \in Sectors : /\ KeptIn(s)' = KeptIn(s)
                          /\ ClearedIn(s)' = IF s = p[1] THEN ClearedIn(s) \cup {p[2]}
                                                         ELSE ClearedIn(s)
                          /\ UnusedSector(s)' = UnusedSector(s)
                          /\ UsedSector(s)' = UsedSector(s)
                          /\ PartialSector(s)' = PartialSector(s)
                          /\ NothingIn(s) => NothingIn(s)'
                          /\ \A k \in 0 .. PerSector : Rescues(s, k) => Rescues(s, k)'
    /\ p[2] \notin ClearedIn(p[1])

(* Clearing an old copy beside a current one is such a step. *)
LEMMA OldCopyCleared ==
  ASSUME TypeOK, Cells, OneEach, NEW p \in Places, KindAt(p[1], p[2]) = "old",
         NEW q \in Places, KindAt(q[1], q[2]) = "current",
         flash[q[1]][q[2]].ix = flash[p[1]][p[2]].ix,
         ProgramIndex(p, "cleared", 0)
  PROVE  OldCleared(p)
<1>1. p[1] \in Sectors /\ p[2] \in Containers /\ q[1] \in Sectors /\ q[2] \in Containers
  BY DEF Places
<1>2. /\ flash' \in Flash
      /\ \A s \in Sectors, c \in Containers :
            s # p[1] \/ c # p[2] => flash'[s][c] = flash[s][c]
      /\ flash'[p[1]][p[2]].kind = "cleared"
  <2>1. flash \in Flash /\ 0 \in 0 .. CatMax /\ "cleared" \in IndexKinds
    BY VesAssumption DEF TypeOK, Flash, IndexKinds
  <2> QED BY <2>1, IndexProgrammed
<1>3. \A s \in Sectors, c \in Containers :
         /\ BlankAt(s, c) => flash'[s][c] = flash[s][c]
         /\ BlankAt(s, c)' = BlankAt(s, c)
         /\ KindAt(s, c)' = "unused" <=> KindAt(s, c) = "unused"
         /\ KindAt(s, c)' = "uninitialized" <=> KindAt(s, c) = "uninitialized"
         /\ KindAt(s, c)' = "current" <=> KindAt(s, c) = "current"
         /\ KindAt(s, c)' = "old" <=> KindAt(s, c) = "old" /\ ~ (s = p[1] /\ c = p[2])
         /\ KindAt(s, c)' = "cleared" <=> KindAt(s, c) = "cleared" \/ (s = p[1] /\ c = p[2])
         /\ LiveAt(s, c)' <=> LiveAt(s, c) /\ ~ (s = p[1] /\ c = p[2])
         /\ LiveAt(s, c)' => flash'[s][c].ix = flash[s][c].ix
  BY <1>1, <1>2 DEF KindAt, BlankAt, LiveAt
<1>4. OneEach'
  BY <1>3 DEF OneEach, LiveAt
<1>5. ASSUME NEW s \in Sectors, NEW c \in Containers
      PROVE  KeptAt(s, c)' <=> KeptAt(s, c)
  <2>1. ~ KeptAt(p[1], p[2])
    BY <1>1 DEF KeptAt
  <2>2. CASE s = p[1] /\ c = p[2]
    BY <2>1, <2>2, <1>3 DEF KeptAt
  <2>3. CASE ~ (s = p[1] /\ c = p[2])
    <3>1. flash'[s][c] = flash[s][c]
      BY <2>3, <1>2
    <3>2. \A t \in Sectors, d \in Containers :
             /\ KindAt(t, d)' = "current" <=> KindAt(t, d) = "current"
             /\ KindAt(t, d) = "current" => flash'[t][d].ix = flash[t][d].ix
      BY <1>3 DEF LiveAt
    <3> QED BY <3>1, <3>2 DEF KeptAt, KindAt
  <2> QED BY <2>2, <2>3
<1>6. \A s \in Sectors : KeptIn(s)' = KeptIn(s)
  BY <1>5 DEF KeptIn
<1>7. \A s \in Sectors : ClearedIn(s)' = IF s = p[1] THEN ClearedIn(s) \cup {p[2]}
                                                    ELSE ClearedIn(s)
  BY <1>1, <1>3 DEF ClearedIn
<1>8. 0 \in Containers /\ PerSector - 1 \in Containers
  BY VesAssumption DEF Containers
<1>9. \A s \in Sectors : /\ UnusedSector(s)' = UnusedSector(s)
                         /\ UsedSector(s)' = UsedSector(s)
                         /\ PartialSector(s)' = PartialSector(s)
                         /\ BlankSector(s)' = BlankSector(s)
                         /\ NothingIn(s) => NothingIn(s)'
                         /\ LogSector(s) => LogSector(s)'
  BY <1>3, <1>8 DEF UnusedSector, UsedSector, PartialSector, BlankSector, NothingIn, LogSector
<1>10. Shapes => Shapes'
  BY <1>9 DEF Shapes
<1>11. \A s \in Sectors : \A k \in 0 .. PerSector : Rescues(s, k) => Rescues(s, k)'
  BY <1>3 DEF Rescues
<1>12. p[2] \notin ClearedIn(p[1])
  BY DEF ClearedIn
<1> QED BY <1>2, <1>3, <1>4, <1>6, <1>7, <1>9, <1>10, <1>11, <1>12 DEF OldCleared

----------------------------------------------------------------------------
(* The scan keeps the invariant                                            *)

(* A step within the scan has only the scan's part of the invariant to keep. *)
LEMMA ScanGoesOn ==
  ASSUME phase' = "scan", TypeOK', Cells', OneEach', ScanInv'
  PROVE  IInv'
BY DEF IInv, OffInv, Tables, GcInv, WriteInv, ReadyInv, Running

(* Where the scan looks at a container. *)
LEMMA ScanningSomewhere ==
  ASSUME IInv, phase = "scan", step = "look", sec < SectorCount
  PROVE  /\ TypeOK /\ Cells /\ OneEach
         /\ request = <<>> /\ erased = 0
         /\ Shapes /\ CatSeen /\ DirtySeen /\ FreeSeen /\ CurrentSeen /\ SpareLeft /\ Counts
         /\ sec \in Sectors /\ con \in 0 .. PerSector
         /\ LiveBefore \in SUBSET Containers /\ Cardinality(LiveBefore) \in 0 .. PerSector
         /\ ClearedBefore \in SUBSET Containers /\ Cardinality(ClearedBefore) \in 0 .. PerSector
         /\ count \in [unused : 0 .. PerSector, uninit : 0 .. PerSector, dirty : 0 .. PerSector]
         /\ BlankSector(sec) \/ LogSector(sec)
<1>1. sec \in Sectors /\ con \in 0 .. PerSector
  BY VesAssumption DEF IInv, TypeOK, Sectors
<1>2. /\ LiveBefore \in SUBSET Containers /\ Cardinality(LiveBefore) \in 0 .. PerSector
      /\ ClearedBefore \in SUBSET Containers /\ Cardinality(ClearedBefore) \in 0 .. PerSector
  BY ContainersFinite DEF LiveBefore, ClearedBefore
<1> QED BY <1>1, <1>2 DEF IInv, ScanInv, Shapes, TypeOK

(* Behind an unused container of a sector in use there are only unused ones, *)
(* and such a sector has no uninitialised one.                              *)
LEMMA NothingUnusedBefore ==
  ASSUME IInv, phase = "scan", step = "look", sec < SectorCount, con < PerSector,
         KindAt(sec, con) # "unused", ~ BlankAt(sec, 0)
  PROVE  count.unused = 0 /\ KindAt(sec, con) # "uninitialized"
<1>1. 0 \in Containers
  BY VesAssumption DEF Containers
<1>2. LogSector(sec)
  BY <1>1, ScanningSomewhere DEF BlankSector
<1>3. con \in Containers /\ con \in 0 .. PerSector /\ count.unused \in 0 .. PerSector
  BY ScanningSomewhere, VesAssumption DEF Containers
<1>4. ASSUME count.unused # 0 PROVE FALSE
  <2>1. Counts
    BY ScanningSomewhere
  <2>2. con - 1 \in Containers /\ KindAt(sec, con - 1) = "unused"
    <3>1. count.unused <= con
      BY <2>1, <1>3, ScanningSomewhere, VesAssumption DEF Counts
    <3>2. con - 1 \in Containers /\ con - count.unused <= con - 1 /\ con - 1 < con
      BY <3>1, <1>3, <1>4, VesAssumption DEF Containers
    <3> QED BY <3>2, <2>1 DEF Counts
  <2> QED BY <2>2, <1>2, <1>3 DEF LogSector
<1> QED BY <1>2, <1>3, <1>4 DEF LogSector

(* What stays true of the scan's tables when it has seen one more container *)
(* that holds no address.                                                   *)
LEMMA NothingSeen ==
  ASSUME IInv, phase = "scan", step = "look", sec < SectorCount, con < PerSector,
         ~ LiveAt(sec, con),
         flash' = flash, cat' = cat, dirty' = dirty, free' = free, current' = current,
         next' = next, erased' = erased, sec' = sec, con' = con + 1, step' = step
  PROVE  CatSeen' /\ DirtySeen' /\ FreeSeen' /\ CurrentSeen' /\ SpareLeft' /\ Shapes'
         /\ LiveBefore' = LiveBefore
<1>1. SameKinds
  BY DEF SameKinds
<1>2. sec \in Sectors /\ con \in Containers /\ CatSeen /\ DirtySeen /\ FreeSeen /\ CurrentSeen
      /\ SpareLeft /\ Shapes /\ con \in Nat
  BY ScanningSomewhere, VesAssumption DEF Containers
<1>3. \A s \in Sectors, c \in Containers : Seen(s, c)' <=> Seen(s, c) \/ (s = sec /\ c = con)
  BY <1>2 DEF Seen, Containers
<1>4. CatSeen'
  <2>1. ASSUME NEW ix \in Ixs, cat[ix] # NoEntry
        PROVE  /\ Seen(cat[ix][1], cat[ix][2])' /\ LiveAt(cat[ix][1], cat[ix][2])'
               /\ flash[cat[ix][1]][cat[ix][2]].ix = ix
    <3>1. /\ Seen(cat[ix][1], cat[ix][2]) /\ LiveAt(cat[ix][1], cat[ix][2])
          /\ flash[cat[ix][1]][cat[ix][2]].ix = ix
      BY <2>1, <1>2 DEF CatSeen
    <3>2. cat[ix][1] \in Sectors /\ cat[ix][2] \in Containers
      BY <2>1 DEF IInv, TypeOK, Places
    <3> QED BY <3>1, <3>2, <1>3 DEF LiveAt, KindAt
  <2>2. ASSUME NEW s \in Sectors, NEW c \in Containers, Seen(s, c)', LiveAt(s, c)
        PROVE  cat[flash[s][c].ix] = <<s, c>>
    BY <2>2, <1>2, <1>3 DEF CatSeen
  <2> QED BY <2>1, <2>2 DEF CatSeen, LiveAt, KindAt
<1>5. DirtySeen' /\ FreeSeen' /\ CurrentSeen'
  BY <1>2 DEF DirtySeen, FreeSeen, CurrentSeen, ClearedIn, UnusedSector, BlankAt, PartialSector,
              KindAt
<1>6. SpareLeft' /\ Shapes'
  <2>1. \A s \in Sectors : /\ NothingIn(s)' = NothingIn(s) /\ KeptIn(s)' = KeptIn(s)
                           /\ \A k \in 0 .. PerSector : Rescues(s, k)' = Rescues(s, k)
    BY <1>2 DEF NothingIn, Rescues, KeptIn, KeptAt, LiveAt, KindAt
  <2>2. SpareLeft'
    BY <2>1, <1>2 DEF SpareLeft, CanResume
  <2>3. Shapes'
    BY <1>2 DEF Shapes, KindAt, BlankSector, LogSector, PartialSector, BlankAt
  <2> QED BY <2>2, <2>3
<1>7. LiveBefore' = LiveBefore
  BY <1>2 DEF LiveBefore, LiveAt, KindAt, Containers
<1> QED BY <1>4, <1>5, <1>6, <1>7

(* A container has been looked at. *)
LEMMA OneCellSeen ==
  ASSUME IInv, phase = "scan", step = "look", sec < SectorCount, con < PerSector,
         sec' = sec, con' = con + 1, UNCHANGED <<room, at, job, call>>,
         flash' \in Flash, cat' \in [Ixs -> Places \cup {NoEntry}],
         dirty' \in [Sectors -> 0 .. PerSector],
         count' \in [unused : 0 .. PerSector, uninit : 0 .. PerSector, dirty : 0 .. PerSector],
         Cells', OneEach', Shapes', CatSeen', DirtySeen', FreeSeen', CurrentSeen', SpareLeft',
         Counts'
  PROVE  IInv'
<1>1. /\ free' = free /\ current' = current /\ next' = next /\ erased' = erased
      /\ phase' = phase /\ step' = step
      /\ index' = index /\ from' = from /\ to' = to /\ request' = request /\ nth' = nth
  BY DEF room, at, job, call
<1>2. TypeOK /\ request = <<>> /\ erased = 0 /\ sec \in Sectors /\ con \in 0 .. PerSector
  BY ScanningSomewhere
<1>3. con' \in 0 .. PerSector /\ sec' \in 0 .. SectorCount
  BY <1>2, VesAssumption DEF TypeOK
<1>4. request' = <<>> /\ flash' \in [Sectors -> [Containers -> Container]]
  BY <1>1, <1>2 DEF Flash
<1>5. TypeOK'
  BY <1>1, <1>2, <1>3, <1>4 DEF TypeOK
<1>6. ScanInv'
  <2>1. /\ step' = "look" /\ sec' < SectorCount /\ request' = <<>> /\ erased' = 0
        /\ phase' = "scan"
    BY <1>1, <1>2
  <2>2. sec' # SectorCount
    BY <2>1, <1>2 DEF Sectors
  <2> QED BY <2>1, <2>2 DEF ScanInv
<1> QED BY <1>1, <1>5, <1>6, ScanGoesOn

(* What the counts become when a container is not unused. *)
LEMMA SettledCounts ==
  ASSUME count \in [unused : 0 .. PerSector, uninit : 0 .. PerSector, dirty : 0 .. PerSector]
  PROVE  /\ Settled = [unused |-> 0, uninit |-> count.uninit,
                       dirty |-> count.dirty + count.unused]
         /\ [Settled EXCEPT !.dirty = @ + 1] = [unused |-> 0, uninit |-> count.uninit,
                                                dirty |-> count.dirty + count.unused + 1]
         /\ [Settled EXCEPT !.uninit = @ + 1] = [unused |-> 0, uninit |-> count.uninit + 1,
                                                 dirty |-> count.dirty + count.unused]
<1> DEFINE u == count.unused
           i == count.uninit
           d == count.dirty
<1>1. count = [unused |-> u, uninit |-> i, dirty |-> d]
  OBVIOUS
<1> HIDE DEF u, i, d
<1>2. Settled = [unused |-> 0, uninit |-> i, dirty |-> d + u]
  <2>1. [count EXCEPT !.dirty = @ + count.unused] = [unused |-> u, uninit |-> i, dirty |-> d + u]
    BY <1>1
  <2>2. Settled = [[count EXCEPT !.dirty = @ + count.unused] EXCEPT !.unused = 0]
    BY DEF Settled
  <2> QED BY <2>1, <2>2
<1>3. /\ [Settled EXCEPT !.dirty = @ + 1] = [unused |-> 0, uninit |-> i, dirty |-> d + u + 1]
      /\ [Settled EXCEPT !.uninit = @ + 1] = [unused |-> 0, uninit |-> i + 1, dirty |-> d + u]
  BY <1>2
<1> QED BY <1>2, <1>3 DEF u, i, d

(* When a container that is not unused has been looked at, the counts add up *)
(* again: what was unused before it counts as dirty, and is nothing in a     *)
(* sector in use.                                                           *)
LEMMA CountsSettled ==
  ASSUME IInv, phase = "scan", step = "look", sec < SectorCount, con < PerSector,
         KindAt(sec, con) # "unused",
         sec' = sec, con' = con + 1,
         NEW i \in 0 .. 1, NEW d \in 0 .. 1,
         count' = [unused |-> 0, uninit |-> count.uninit + i,
                   dirty |-> count.dirty + count.unused + d],
         flash'[sec][con].kind # "unused",
         i = 1 => KindAt(sec, con) = "uninitialized",
         BlankAt(sec, 0)' = BlankAt(sec, 0),
         d + i + Cardinality(LiveBefore') = Cardinality(LiveBefore) + 1,
         d + Cardinality(ClearedBefore) = Cardinality(ClearedBefore')
  PROVE  /\ Counts'
         /\ count' \in [unused : 0 .. PerSector, uninit : 0 .. PerSector, dirty : 0 .. PerSector]
<1> DEFINE u == count.unused
           n == count.uninit
           m == count.dirty
           L == Cardinality(LiveBefore)
           K == Cardinality(LiveBefore')
<1>1. /\ Counts /\ con \in 0 .. PerSector /\ con \in Nat /\ L \in Nat
      /\ u \in Nat /\ n \in Nat /\ m \in Nat /\ sec \in Sectors
      /\ LogSector(sec) \/ BlankSector(sec)
  BY ScanningSomewhere, VesAssumption
<1>2. K \in Nat
  <2>1. LiveBefore' \in SUBSET Containers
    BY DEF LiveBefore
  <2> QED BY <2>1, ContainersFinite, VesAssumption
<1>3. count'.unused = 0 /\ count'.uninit = n + i /\ count'.dirty = m + u + d
  OBVIOUS
<1>4. u + n + m + L = con
  BY <1>1 DEF Counts
<1> HIDE DEF u, n, m, L, K
<1>5. d + i + K = L + 1
  BY DEF K, L
<1>6. 0 + (n + i) + (m + u + d) + K = con + 1
  BY <1>1, <1>2, <1>4, <1>5
<1>7. n + i \in 0 .. PerSector /\ m + u + d \in 0 .. PerSector
  BY <1>1, <1>2, <1>6, VesAssumption
<1>8. count' \in [unused : 0 .. PerSector, uninit : 0 .. PerSector, dirty : 0 .. PerSector]
  <2>1. count' = [unused |-> 0, uninit |-> n + i, dirty |-> m + u + d]
    BY DEF n, m, u
  <2> QED BY <1>7, <2>1, VesAssumption
<1>9. count'.unused + count'.uninit + count'.dirty + Cardinality(LiveBefore') = con'
  BY <1>3, <1>6 DEF K
<1>10. (~ BlankAt(sec, 0))' => count'.uninit = 0 /\ count'.dirty = Cardinality(ClearedBefore')
  <2>1. SUFFICES ASSUME ~ BlankAt(sec, 0)
                 PROVE  n + i = 0 /\ m + u + d = Cardinality(ClearedBefore')
    BY <1>3
  <2>2. u = 0 /\ i = 0
    BY <2>1, NothingUnusedBefore DEF u
  <2>3. n = 0 /\ m = Cardinality(ClearedBefore)
    BY <2>1, <1>1 DEF Counts, n, m
  <2> QED BY <2>2, <2>3, <1>1
<1>11. \A c \in Containers : con' - count'.unused <= c /\ c < con' => KindAt(sec, c)' = "unused"
  BY <1>1, <1>3 DEF Containers
<1>12. con' > count'.unused => KindAt(sec, con - count.unused - 1)' # "unused"
  <2>1. con' - count'.unused - 1 = con
    BY <1>1, <1>3
  <2> QED BY <2>1 DEF KindAt
<1> QED BY <1>8, <1>9, <1>10, <1>11, <1>12 DEF Counts

(* A step of the scan that changes no flash: what looks at nothing live. *)
LEMMA RamKeepsFlash ==
  ASSUME TypeOK, Cells, OneEach, flash' = flash, ~ InFlight, step' = step
  PROVE  Cells' /\ OneEach' /\ flash' \in Flash /\ SameKinds
BY DEF Cells, OneEach, LiveAt, BlankAt, KindAt, InFlight, SameKinds, TypeOK, Flash

(* An unused container. *)
LEMMA ScanUnusedKeeps == ASSUME IInv, ScanUnused PROVE IInv'
<1>1. /\ phase = "scan" /\ step = "look" /\ sec < SectorCount /\ con < PerSector
      /\ KindAt(sec, con) = "unused"
  BY DEF ScanUnused, Scanning, Cell, KindAt
<1>2. /\ flash' = flash /\ cat' = cat /\ dirty' = dirty /\ UNCHANGED <<room, at, job, call>>
      /\ free' = free /\ current' = current /\ next' = next /\ erased' = erased
      /\ sec' = sec /\ con' = con + 1 /\ step' = step
      /\ count' = [count EXCEPT !.unused = @ + 1]
  BY DEF ScanUnused, flashRam, room, at
<1>3. /\ CatSeen' /\ DirtySeen' /\ FreeSeen' /\ CurrentSeen' /\ SpareLeft' /\ Shapes'
      /\ LiveBefore' = LiveBefore
  BY <1>1, <1>2, NothingSeen DEF LiveAt
<1> DEFINE u == count.unused
           n == count.uninit
           m == count.dirty
           L == Cardinality(LiveBefore)
<1>4. /\ TypeOK /\ Cells /\ OneEach /\ Counts /\ sec \in Sectors /\ con \in 0 .. PerSector
      /\ con \in Containers /\ con \in Nat /\ L \in Nat /\ u \in Nat /\ n \in Nat /\ m \in Nat
      /\ count = [unused |-> u, uninit |-> n, dirty |-> m]
      /\ n \in 0 .. PerSector /\ m \in 0 .. PerSector
  BY <1>1, ScanningSomewhere, VesAssumption DEF Containers
<1>5. /\ count' = [unused |-> u + 1, uninit |-> n, dirty |-> m]
      /\ count'.unused = u + 1 /\ count'.uninit = n /\ count'.dirty = m
  BY <1>2, <1>4
<1>6. u + n + m + L = con
  BY <1>4 DEF Counts
<1> HIDE DEF u, n, m, L
<1>7. (u + 1) + n + m + L = con + 1 /\ u + 1 \in 0 .. PerSector
  BY <1>1, <1>4, <1>6, VesAssumption
<1>8. count' \in [unused : 0 .. PerSector, uninit : 0 .. PerSector, dirty : 0 .. PerSector]
  BY <1>4, <1>5, <1>7
<1>9. Cells' /\ OneEach' /\ flash' \in Flash
  BY <1>1, <1>2, <1>4, RamKeepsFlash DEF InFlight
<1>10. ClearedBefore' = ClearedBefore
  BY <1>1, <1>2, <1>4 DEF ClearedBefore, KindAt, Containers
<1>11. Counts'
  <2>1. count'.unused + count'.uninit + count'.dirty + Cardinality(LiveBefore') = con'
    BY <1>2, <1>3, <1>5, <1>7 DEF L
  <2>2. (~ BlankAt(sec, 0))' => count'.uninit = 0 /\ count'.dirty = Cardinality(ClearedBefore')
    BY <1>2, <1>4, <1>5, <1>10 DEF Counts, BlankAt, KindAt, n, m
  <2>3. con' - count'.unused = con - u /\ con' - count'.unused - 1 = con - u - 1
    BY <1>2, <1>4, <1>5
  <2>4. \A c \in Containers : con' - count'.unused <= c /\ c < con' => KindAt(sec, c)' = "unused"
    <3>1. ASSUME NEW c \in Containers, con - u <= c, c < con + 1
          PROVE  KindAt(sec, c) = "unused"
      BY <3>1, <1>1, <1>4 DEF Counts, Containers, u
    <3> QED BY <3>1, <2>3, <1>2 DEF KindAt
  <2>5. con' > count'.unused => KindAt(sec, con - count.unused - 1)' # "unused"
    <3>1. con + 1 > u + 1 => KindAt(sec, con - u - 1) # "unused"
      BY <1>4 DEF Counts, u
    <3> QED BY <3>1, <2>3, <1>2, <1>5 DEF KindAt
  <2> QED BY <2>1, <2>2, <2>4, <2>5 DEF Counts
<1> QED BY <1>1, <1>2, <1>3, <1>4, <1>8, <1>9, <1>11, OneCellSeen DEF TypeOK

(* An uninitialised container. *)
LEMMA ScanUninitializedKeeps == ASSUME IInv, ScanUninitialized PROVE IInv'
<1>1. /\ phase = "scan" /\ step = "look" /\ sec < SectorCount /\ con < PerSector
      /\ KindAt(sec, con) = "uninitialized"
  BY DEF ScanUninitialized, Scanning, Cell, KindAt
<1>2. /\ flash' = flash /\ cat' = cat /\ dirty' = dirty /\ UNCHANGED <<room, at, job, call>>
      /\ free' = free /\ current' = current /\ next' = next /\ erased' = erased
      /\ sec' = sec /\ con' = con + 1 /\ step' = step
      /\ count' = [Settled EXCEPT !.uninit = @ + 1]
  BY DEF ScanUninitialized, flashRam, room, at
<1>3. /\ CatSeen' /\ DirtySeen' /\ FreeSeen' /\ CurrentSeen' /\ SpareLeft' /\ Shapes'
      /\ LiveBefore' = LiveBefore
  BY <1>1, <1>2, NothingSeen DEF LiveAt
<1>4. /\ TypeOK /\ Cells /\ OneEach /\ sec \in Sectors /\ con \in 0 .. PerSector
      /\ Cardinality(LiveBefore) \in Nat /\ Cardinality(ClearedBefore) \in Nat
      /\ count.dirty + count.unused + 0 = count.dirty + count.unused
      /\ count \in [unused : 0 .. PerSector, uninit : 0 .. PerSector, dirty : 0 .. PerSector]
  BY <1>1, ScanningSomewhere, VesAssumption
<1>5. count' = [unused |-> 0, uninit |-> count.uninit + 1,
                dirty |-> count.dirty + count.unused + 0]
  BY <1>2, <1>4, SettledCounts
<1>6. ClearedBefore' = ClearedBefore
  BY <1>1, <1>2, <1>4 DEF ClearedBefore, KindAt, Containers
<1>7. /\ 0 + 1 + Cardinality(LiveBefore') = Cardinality(LiveBefore) + 1
      /\ 0 + Cardinality(ClearedBefore) = Cardinality(ClearedBefore')
      /\ 0 \in 0 .. 1 /\ 1 \in 0 .. 1
      /\ flash'[sec][con].kind # "unused" /\ BlankAt(sec, 0)' = BlankAt(sec, 0)
  <2>1. flash'[sec][con].kind # "unused" /\ BlankAt(sec, 0)' = BlankAt(sec, 0)
    BY <1>1, <1>2 DEF KindAt, BlankAt
  <2> QED BY <2>1, <1>3, <1>4, <1>6
<1>8. /\ Counts'
      /\ count' \in [unused : 0 .. PerSector, uninit : 0 .. PerSector, dirty : 0 .. PerSector]
  BY <1>1, <1>2, <1>5, <1>7, CountsSettled
<1>9. Cells' /\ OneEach' /\ flash' \in Flash
  BY <1>1, <1>2, <1>4, RamKeepsFlash DEF InFlight
<1> QED BY <1>1, <1>2, <1>3, <1>4, <1>8, <1>9, OneCellSeen DEF TypeOK

(* A cleared container. *)
LEMMA ScanClearedKeeps == ASSUME IInv, ScanCleared PROVE IInv'
<1>1. /\ phase = "scan" /\ step = "look" /\ sec < SectorCount /\ con < PerSector
      /\ KindAt(sec, con) = "cleared"
  BY DEF ScanCleared, Scanning, Cell, KindAt
<1>2. /\ flash' = flash /\ cat' = cat /\ dirty' = dirty /\ UNCHANGED <<room, at, job, call>>
      /\ free' = free /\ current' = current /\ next' = next /\ erased' = erased
      /\ sec' = sec /\ con' = con + 1 /\ step' = step
      /\ count' = [Settled EXCEPT !.dirty = @ + 1]
  BY DEF ScanCleared, flashRam, room, at
<1>3. /\ CatSeen' /\ DirtySeen' /\ FreeSeen' /\ CurrentSeen' /\ SpareLeft' /\ Shapes'
      /\ LiveBefore' = LiveBefore
  BY <1>1, <1>2, NothingSeen DEF LiveAt
<1>4. /\ TypeOK /\ Cells /\ OneEach /\ sec \in Sectors /\ con \in 0 .. PerSector
      /\ con \in Containers
      /\ Cardinality(LiveBefore) \in Nat /\ Cardinality(ClearedBefore) \in Nat
      /\ count.uninit + 0 = count.uninit
      /\ count \in [unused : 0 .. PerSector, uninit : 0 .. PerSector, dirty : 0 .. PerSector]
  BY <1>1, ScanningSomewhere, VesAssumption DEF Containers
<1>5. count' = [unused |-> 0, uninit |-> count.uninit + 0,
                dirty |-> count.dirty + count.unused + 1]
  BY <1>2, <1>4, SettledCounts
<1>6. Cardinality(ClearedBefore') = Cardinality(ClearedBefore) + 1
  <2>1. ClearedBefore' = ClearedBefore \cup {con} /\ con \notin ClearedBefore
    BY <1>1, <1>2, <1>4 DEF ClearedBefore, KindAt, Containers
  <2> QED BY <2>1, <1>4, OneMore DEF ClearedBefore
<1>7. /\ 1 + 0 + Cardinality(LiveBefore') = Cardinality(LiveBefore) + 1
      /\ 1 + Cardinality(ClearedBefore) = Cardinality(ClearedBefore')
      /\ 0 \in 0 .. 1 /\ 1 \in 0 .. 1
      /\ flash'[sec][con].kind # "unused" /\ BlankAt(sec, 0)' = BlankAt(sec, 0)
  <2>1. flash'[sec][con].kind # "unused" /\ BlankAt(sec, 0)' = BlankAt(sec, 0)
    BY <1>1, <1>2 DEF KindAt, BlankAt
  <2> QED BY <2>1, <1>3, <1>4, <1>6
<1>8. /\ Counts'
      /\ count' \in [unused : 0 .. PerSector, uninit : 0 .. PerSector, dirty : 0 .. PerSector]
  <2>1. PICK i \in 0 .. 1, d \in 0 .. 1 : i = 0 /\ d = 1
    BY <1>7
  <2>2. count' = [unused |-> 0, uninit |-> count.uninit + i,
                  dirty |-> count.dirty + count.unused + d]
    BY <2>1, <1>5
  <2>3. /\ d + i + Cardinality(LiveBefore') = Cardinality(LiveBefore) + 1
        /\ d + Cardinality(ClearedBefore) = Cardinality(ClearedBefore')
        /\ i # 1
    BY <2>1, <1>7
  <2>4. KindAt(sec, con) # "unused"
    BY <1>1
  <2> QED BY <2>2, <2>3, <2>4, <1>1, <1>2, <1>7, CountsSettled
<1>9. Cells' /\ OneEach' /\ flash' \in Flash
  BY <1>1, <1>2, <1>4, RamKeepsFlash DEF InFlight
<1> QED BY <1>1, <1>2, <1>3, <1>4, <1>8, <1>9, OneCellSeen DEF TypeOK

(* The room that is left when an old copy beside a current one is cleared. *)
LEMMA SpareStays ==
  ASSUME SpareLeft, sec' = sec, free' = free,
         \A s \in Sectors : /\ KeptIn(s)' = KeptIn(s)
                            /\ NothingIn(s) => NothingIn(s)'
                            /\ \A k \in 0 .. PerSector : Rescues(s, k) => Rescues(s, k)'
  PROVE  SpareLeft'
BY DEF SpareLeft, CanResume

(* The first copy of an address. *)
LEMMA ScanFirstCopyKeeps == ASSUME IInv, ScanFirstCopy PROVE IInv'
<1> DEFINE ix == flash[sec][con].ix
<1>1. /\ phase = "scan" /\ step = "look" /\ sec < SectorCount /\ con < PerSector
      /\ LiveAt(sec, con) /\ cat[ix] = NoEntry
  BY DEF ScanFirstCopy, Scanning, Cell, KindAt, LiveAt, Live
<1>2. /\ flash' = flash /\ dirty' = dirty /\ UNCHANGED <<room, at, job, call>>
      /\ cat' = [cat EXCEPT ![ix] = <<sec, con>>]
      /\ free' = free /\ current' = current /\ next' = next /\ erased' = erased
      /\ sec' = sec /\ con' = con + 1 /\ step' = step
      /\ count' = Settled
  BY DEF ScanFirstCopy, Cell, room, at
<1>3. /\ TypeOK /\ Cells /\ OneEach /\ sec \in Sectors /\ con \in 0 .. PerSector
      /\ con \in Containers /\ con \in Nat
      /\ Cardinality(LiveBefore) \in Nat /\ Cardinality(ClearedBefore) \in Nat
      /\ CatSeen /\ DirtySeen /\ FreeSeen /\ CurrentSeen /\ SpareLeft /\ Shapes
      /\ count \in [unused : 0 .. PerSector, uninit : 0 .. PerSector, dirty : 0 .. PerSector]
  BY <1>1, ScanningSomewhere, VesAssumption DEF Containers
<1>4. ix \in Ixs /\ <<sec, con>> \in Places /\ <<sec, con>> # NoEntry
  BY <1>1, <1>3 DEF Cells, Places, NoEntry, Sectors
<1>5. /\ cat' \in [Ixs -> Places \cup {NoEntry}]
      /\ cat'[ix] = <<sec, con>> /\ \A x \in Ixs : x # ix => cat'[x] = cat[x]
  BY <1>2, <1>3, <1>4 DEF TypeOK
<1>6. \A s \in Sectors, c \in Containers : Seen(s, c)' <=> Seen(s, c) \/ (s = sec /\ c = con)
  BY <1>1, <1>2, <1>3 DEF Seen, Containers
<1>7. CatSeen'
  <2>1. ASSUME NEW x \in Ixs, cat'[x] # NoEntry
        PROVE  /\ Seen(cat[x][1], cat[x][2])' /\ LiveAt(cat[x][1], cat[x][2])'
               /\ flash'[cat'[x][1]][cat'[x][2]].ix = x
    <3>1. CASE x = ix
      <4>1. cat'[x][1] = sec /\ cat'[x][2] = con
        BY <3>1, <1>5
      <4> QED BY <4>1, <3>1, <1>1, <1>2, <1>3, <1>6 DEF Seen, LiveAt, KindAt
    <3>2. CASE x # ix
      <4>1. cat'[x] = cat[x] /\ cat[x] # NoEntry
        BY <3>2, <2>1, <1>5
      <4>2. cat[x][1] \in Sectors /\ cat[x][2] \in Containers
        BY <4>1, <1>3 DEF TypeOK, Places
      <4>3. /\ Seen(cat[x][1], cat[x][2]) /\ LiveAt(cat[x][1], cat[x][2])
            /\ flash[cat[x][1]][cat[x][2]].ix = x
        BY <4>1, <1>3 DEF CatSeen
      <4>4. Seen(cat[x][1], cat[x][2])'
        BY <4>1, <4>2, <4>3, <1>1, <1>2, <1>3 DEF Seen, Containers
      <4> QED BY <4>1, <4>3, <4>4, <1>2 DEF LiveAt, KindAt
    <3> QED BY <3>1, <3>2
  <2>2. ASSUME NEW s \in Sectors, NEW c \in Containers, Seen(s, c)', LiveAt(s, c)
        PROVE  cat'[flash[s][c].ix] = <<s, c>>
    <3>1. CASE Seen(s, c)
      <4>1. cat[flash[s][c].ix] = <<s, c>> /\ flash[s][c].ix \in Ixs
        BY <3>1, <2>2, <1>3 DEF CatSeen, Cells
      <4>2. cat[flash[s][c].ix] # NoEntry
        BY <4>1 DEF NoEntry, Sectors
      <4> QED BY <4>1, <4>2, <1>1, <1>5
    <3>2. CASE s = sec /\ c = con
      BY <3>2, <1>5
    <3> QED BY <3>1, <3>2, <2>2, <1>6
  <2> QED BY <2>1, <2>2, <1>2 DEF CatSeen, LiveAt, KindAt
<1>8. DirtySeen' /\ FreeSeen' /\ CurrentSeen'
  <2>1. DirtySeen'
    BY <1>2, <1>3 DEF DirtySeen, ClearedIn, KindAt
  <2>2. FreeSeen'
    BY <1>2, <1>3 DEF FreeSeen, UnusedSector, BlankAt, KindAt
  <2>3. CurrentSeen'
    BY <1>2, <1>3 DEF CurrentSeen, BlankAt, PartialSector, KindAt
  <2> QED BY <2>1, <2>2, <2>3
<1>9. SpareLeft' /\ Shapes'
  <2>1. SameKinds
    BY <1>2 DEF SameKinds
  <2> QED BY <2>1, <1>2, <1>3, KindsDecide, SpareStays
<1>10. /\ Counts'
       /\ count' \in [unused : 0 .. PerSector, uninit : 0 .. PerSector, dirty : 0 .. PerSector]
  <2>1. ClearedBefore' = ClearedBefore
    BY <1>1, <1>2, <1>3 DEF ClearedBefore, KindAt, LiveAt, Containers
  <2>2. Cardinality(LiveBefore') = Cardinality(LiveBefore) + 1
    <3>1. LiveBefore' = LiveBefore \cup {con} /\ con \notin LiveBefore
      BY <1>1, <1>2, <1>3 DEF LiveBefore, LiveAt, KindAt, Containers
    <3> QED BY <3>1, <1>3, OneMore DEF LiveBefore
  <2>3. PICK i \in 0 .. 1, d \in 0 .. 1 : i = 0 /\ d = 0
    BY 0 \in 0 .. 1
  <2>4. count' = [unused |-> 0, uninit |-> count.uninit + i,
                  dirty |-> count.dirty + count.unused + d]
    <3>1. /\ count.uninit + i = count.uninit
          /\ count.dirty + count.unused + d = count.dirty + count.unused
      BY <2>3, <1>3, VesAssumption
    <3> QED BY <3>1, <1>2, <1>3, SettledCounts
  <2>5. /\ d + i + Cardinality(LiveBefore') = Cardinality(LiveBefore) + 1
        /\ d + Cardinality(ClearedBefore) = Cardinality(ClearedBefore')
        /\ i # 1
    BY <2>1, <2>2, <2>3, <1>3
  <2>6. /\ KindAt(sec, con) # "unused" /\ flash'[sec][con].kind # "unused"
        /\ BlankAt(sec, 0)' = BlankAt(sec, 0)
    BY <1>1, <1>2 DEF LiveAt, KindAt, BlankAt
  <2> QED BY <2>4, <2>5, <2>6, <1>1, <1>2, CountsSettled
<1>11. Cells' /\ OneEach' /\ flash' \in Flash
  BY <1>1, <1>2, <1>3, RamKeepsFlash DEF InFlight
<1> QED BY <1>1, <1>2, <1>3, <1>5, <1>7, <1>8, <1>9, <1>10, <1>11, OneCellSeen DEF TypeOK

(* The scan's tables, but for the addresses and the dirty counts, when an    *)
(* old copy beside a current one is cleared.                                *)
LEMMA SeenStays ==
  ASSUME FreeSeen, CurrentSeen, current \in Sectors, sec' = sec, UNCHANGED room,
         free \subseteq Sectors,
         \A s \in Sectors, c \in Containers :
            /\ BlankAt(s, c)' = BlankAt(s, c)
            /\ KindAt(s, c)' = "unused" <=> KindAt(s, c) = "unused",
         \A s \in Sectors : /\ UnusedSector(s)' = UnusedSector(s)
                            /\ PartialSector(s)' = PartialSector(s)
  PROVE  FreeSeen' /\ CurrentSeen'
<1>1. free' = free /\ current' = current /\ next' = next /\ 0 \in Containers
  BY VesAssumption DEF room, Containers
<1>2. FreeSeen'
  BY <1>1 DEF FreeSeen
<1>3. CurrentSeen'
  BY <1>1 DEF CurrentSeen
<1> QED BY <1>2, <1>3

(* A current copy of an address found before: the one before is an old copy. *)
LEMMA ScanCurrentCopyKeeps == ASSUME IInv, ScanCurrentCopy
  PROVE IInv' /\ \E p \in Places : OldCleared(p)
<1> DEFINE q == <<sec, con>>
<1>1. /\ phase = "scan" /\ step = "look" /\ sec < SectorCount /\ con < PerSector
      /\ KindAt(sec, con) = "current" /\ cat[flash[sec][con].ix] # NoEntry
  BY DEF ScanCurrentCopy, Scanning, Cell, KindAt
<1>2. /\ TypeOK /\ Cells /\ OneEach /\ sec \in Sectors /\ con \in 0 .. PerSector
      /\ con \in Containers /\ con \in Nat /\ current \in Sectors /\ free \subseteq Sectors
      /\ Cardinality(LiveBefore) \in Nat /\ Cardinality(ClearedBefore) \in Nat
      /\ CatSeen /\ DirtySeen /\ FreeSeen /\ CurrentSeen /\ SpareLeft /\ Shapes /\ Counts
      /\ count \in [unused : 0 .. PerSector, uninit : 0 .. PerSector, dirty : 0 .. PerSector]
  <2>1. con \in Containers /\ con \in Nat
    BY <1>1, ScanningSomewhere, VesAssumption DEF Containers
  <2>2. current \in Sectors /\ free \subseteq Sectors
    BY DEF IInv, TypeOK
  <2> QED BY <2>1, <2>2, <1>1, ScanningSomewhere, VesAssumption
<1>3. PICK ix \in Ixs, p \in Places : ix = flash[sec][con].ix /\ p = cat[ix]
  <2>1. flash[sec][con].ix \in Ixs
    BY <1>1, <1>2 DEF Cells, LiveAt
  <2>2. cat[flash[sec][con].ix] \in Places
    BY <2>1, <1>1, <1>2 DEF TypeOK
  <2> QED BY <2>1, <2>2
<1>4. q \in Places /\ q # NoEntry /\ p # NoEntry /\ p[1] \in Sectors /\ p[2] \in Containers
  BY <1>2, <1>3 DEF Places, NoEntry, Sectors
<1>A. /\ ProgramIndex(p, "cleared", 0) /\ UNCHANGED <<room, at, job, call>>
      /\ cat' = [cat EXCEPT ![ix] = <<sec, con>>]
      /\ IF p[1] = sec
         THEN count' = [Settled EXCEPT !.dirty = @ + 1] /\ dirty' = dirty
         ELSE count' = Settled /\ dirty' = [dirty EXCEPT ![p[1]] = @ + 1]
      /\ free' = free /\ sec' = sec /\ con' = con + 1 /\ step' = step
      /\ UNCHANGED room
  BY <1>3 DEF ScanCurrentCopy, Cell, room, at
<1>5. /\ Seen(p[1], p[2]) /\ LiveAt(p[1], p[2]) /\ flash[p[1]][p[2]].ix = ix
  BY <1>1, <1>2, <1>4, <1>3 DEF CatSeen
<1>6. ~ (p[1] = sec /\ p[2] = con) /\ (p[1] = sec => p[2] < con) /\ p[1] <= sec
  <2>1. p[1] < sec \/ (p[1] = sec /\ p[2] < con)
    BY <1>1, <1>5 DEF Seen
  <2>2. p[1] \in Int /\ p[2] \in Int /\ sec \in Int /\ con \in Int
    BY <1>2, <1>4 DEF Sectors, Containers
  <2> QED BY <2>1, <2>2
<1>7. KindAt(p[1], p[2]) = "old"
  <2>1. ASSUME KindAt(p[1], p[2]) = "current"
        PROVE  FALSE
    <3>1. KindAt(p[1], p[2]) = KindAt(sec, con) /\ LiveAt(sec, con)
          /\ flash[p[1]][p[2]].ix = flash[sec][con].ix
      BY <2>1, <1>1, <1>3, <1>5 DEF LiveAt
    <3>2. \A t \in Sectors, d \in Containers :
             KindAt(t, d) = KindAt(sec, con) /\ flash[t][d].ix = flash[sec][con].ix
                => sec = t /\ con = d
      BY <3>1, <1>2 DEF OneEach
    <3> QED BY <3>1, <3>2, <1>4, <1>6
  <2> QED BY <2>1, <1>5 DEF LiveAt
<1>8. OldCleared(p)
  <2>1. q[1] = sec /\ q[2] = con
    OBVIOUS
  <2>2. KindAt(q[1], q[2]) = "current" /\ flash[q[1]][q[2]].ix = flash[p[1]][p[2]].ix
    BY <2>1, <1>1, <1>3, <1>5
  <2> QED BY <2>2, <1>A, <1>2, <1>4, <1>3, <1>7, OldCopyCleared
<1>9. FreeSeen' /\ CurrentSeen' /\ SpareLeft'
  BY <1>A, <1>2, <1>8, SeenStays, SpareStays DEF OldCleared
<1>10. /\ cat' \in [Ixs -> Places \cup {NoEntry}]
       /\ cat'[ix] = q /\ \A x \in Ixs : x # ix => cat'[x] = cat[x]
  BY <1>A, <1>2, <1>4, <1>3 DEF TypeOK
<1>11. \A s \in Sectors, c \in Containers : Seen(s, c)' <=> Seen(s, c) \/ (s = sec /\ c = con)
  BY <1>1, <1>A, <1>2 DEF Seen, Containers
<1>12. CatSeen'
  <2>1. ASSUME NEW x \in Ixs, cat'[x] # NoEntry
        PROVE  /\ Seen(cat[x][1], cat[x][2])' /\ LiveAt(cat[x][1], cat[x][2])'
               /\ flash'[cat'[x][1]][cat'[x][2]].ix = x
    <3>1. CASE x = ix
      <4>1. cat'[x][1] = sec /\ cat'[x][2] = con
        BY <3>1, <1>10
      <4>2. flash'[sec][con] = flash[sec][con]
        BY <1>2, <1>6, <1>8 DEF OldCleared
      <4> QED BY <4>1, <4>2, <3>1, <1>1, <1>A, <1>2, <1>3, <1>11 DEF Seen, LiveAt, KindAt
    <3>2. CASE x # ix
      <4>1. cat'[x] = cat[x] /\ cat[x] # NoEntry
        BY <3>2, <2>1, <1>10
      <4>2. cat[x][1] \in Sectors /\ cat[x][2] \in Containers
        BY <4>1, <1>2 DEF TypeOK, Places
      <4>3. /\ Seen(cat[x][1], cat[x][2]) /\ LiveAt(cat[x][1], cat[x][2])
            /\ flash[cat[x][1]][cat[x][2]].ix = x
        BY <4>1, <1>2 DEF CatSeen
      <4>4. Seen(cat[x][1], cat[x][2])'
        BY <4>1, <4>2, <4>3, <1>1, <1>A, <1>2 DEF Seen, Containers
      <4>5. flash'[cat[x][1]][cat[x][2]] = flash[cat[x][1]][cat[x][2]]
        BY <4>2, <4>3, <3>2, <1>5, <1>8 DEF OldCleared
      <4> QED BY <4>1, <4>3, <4>4, <4>5 DEF LiveAt, KindAt
    <3> QED BY <3>1, <3>2
  <2>2. ASSUME NEW s \in Sectors, NEW c \in Containers, Seen(s, c)', LiveAt(s, c)'
        PROVE  cat'[flash'[s][c].ix] = <<s, c>>
    <3>1. LiveAt(s, c) /\ ~ (s = p[1] /\ c = p[2]) /\ flash'[s][c].ix = flash[s][c].ix
      BY <2>2, <1>8 DEF OldCleared
    <3>2. CASE Seen(s, c)
      <4>1. cat[flash[s][c].ix] = <<s, c>> /\ flash[s][c].ix \in Ixs
        BY <3>1, <3>2, <1>2 DEF CatSeen, Cells
      <4>2. flash[s][c].ix # ix
        BY <3>1, <4>1, <1>3
      <4> QED BY <3>1, <4>1, <4>2, <1>10
    <3>3. CASE s = sec /\ c = con
      BY <3>1, <3>3, <1>3, <1>10
    <3> QED BY <3>2, <3>3, <2>2, <1>11
  <2> QED BY <2>1, <2>2 DEF CatSeen
<1>13. /\ dirty' \in [Sectors -> 0 .. PerSector] /\ DirtySeen'
  <2>1. CASE p[1] = sec
    <3>1. \A s \in Sectors : s < sec => ClearedIn(s)' = ClearedIn(s)
      BY <2>1, <1>2, <1>8 DEF OldCleared, Sectors
    <3> QED BY <2>1, <3>1, <1>A, <1>2 DEF TypeOK, DirtySeen
  <2>2. CASE p[1] # sec
    <3>1. p[1] < sec
      BY <2>2, <1>2, <1>4, <1>3, <1>6 DEF Sectors
    <3>2. dirty[p[1]] = Cardinality(ClearedIn(p[1])) /\ ClearedIn(p[1]) \in SUBSET Containers
      BY <3>1, <1>2, <1>4, <1>3 DEF DirtySeen, ClearedIn
    <3>3. /\ Cardinality(ClearedIn(p[1])') = dirty[p[1]] + 1
          /\ dirty[p[1]] + 1 \in 0 .. PerSector
      <4>1. ClearedIn(p[1]) # Containers
        BY <1>4, <1>3, <1>8 DEF OldCleared
      <4>2. Cardinality(ClearedIn(p[1])) < PerSector /\ Cardinality(ClearedIn(p[1])) \in 0 .. PerSector
        BY <3>2, <4>1, ContainersFinite
      <4>3. Cardinality(ClearedIn(p[1]) \cup {p[2]}) = Cardinality(ClearedIn(p[1])) + 1
        BY <3>2, <1>4, <1>3, <1>8, OneMore DEF OldCleared
      <4>4. \A s \in Sectors : s = p[1] => Cardinality(ClearedIn(s)') = dirty[p[1]] + 1
        <5>1. \A s \in Sectors : s = p[1] => ClearedIn(s)' = ClearedIn(p[1]) \cup {p[2]}
          BY <1>8 DEF OldCleared
        <5> QED BY <5>1, <4>3, <3>2
      <4> QED BY <4>2, <4>4, <3>2, <1>4, <1>3, VesAssumption
    <3>4. dirty' = [dirty EXCEPT ![p[1]] = @ + 1]
      BY <2>2, <1>A
    <3>5. dirty' \in [Sectors -> 0 .. PerSector]
      BY <3>3, <3>4, <1>2, <1>4, <1>3 DEF TypeOK
    <3>6. ASSUME NEW s \in Sectors
          PROVE  dirty'[s] = IF s < sec THEN Cardinality(ClearedIn(s)') ELSE 0
      <4>1. CASE s = p[1]
        <5>1. dirty'[s] = dirty[p[1]] + 1
          BY <4>1, <3>4, <1>2, <1>4, <1>3 DEF TypeOK
        <5>2. Cardinality(ClearedIn(s)') = dirty[p[1]] + 1
          <6>1. \A t \in Sectors : t = p[1] => ClearedIn(t)' = ClearedIn(p[1])'
            OBVIOUS
          <6> QED BY <6>1, <4>1, <3>3
        <5> QED BY <5>1, <5>2, <4>1, <3>1
      <4>2. CASE s # p[1]
        BY <4>2, <3>4, <1>2, <1>8 DEF OldCleared, TypeOK, DirtySeen
      <4> QED BY <4>1, <4>2
    <3> QED BY <3>5, <3>6, <1>A DEF DirtySeen
  <2> QED BY <2>1, <2>2
<1>14. Cells'
  <2>1. ~ InFlight' /\ ~ InFlight
    BY <1>1, <1>A DEF InFlight
  <2>2. ASSUME NEW s \in Sectors, NEW c \in Containers, LiveAt(s, c)'
        PROVE  flash'[s][c].ix \in Ixs
    <3>1. LiveAt(s, c) /\ flash'[s][c].ix = flash[s][c].ix
      BY <2>2, <1>8 DEF OldCleared
    <3> QED BY <3>1, <1>2 DEF Cells
  <2>3. ASSUME NEW s \in Sectors, NEW c \in Containers, BlankAt(s, c)'
        PROVE  flash'[s][c].ix = 0 /\ flash'[s][c].data = Bits
    <3>1. BlankAt(s, c) /\ flash'[s][c] = flash[s][c]
      BY <2>3, <1>8 DEF OldCleared
    <3>2. flash[s][c].ix = 0 /\ flash[s][c].data = Bits
      BY <3>1, <2>1, <1>2 DEF Cells
    <3> QED BY <3>1, <3>2
  <2> QED BY <2>2, <2>3 DEF Cells
<1>15. /\ Counts'
       /\ count' \in [unused : 0 .. PerSector, uninit : 0 .. PerSector, dirty : 0 .. PerSector]
  <2>1. LiveBefore' = (LiveBefore \cup {con}) \ (IF p[1] = sec THEN {p[2]} ELSE {})
    <3>1. \A c \in Containers : c < con + 1 <=> c < con \/ c = con
      BY <1>2 DEF Containers
    <3>2. \A c \in Containers : LiveAt(sec, c)' <=> LiveAt(sec, c) /\ ~ (sec = p[1] /\ c = p[2])
      BY <1>A, <1>2, <1>8 DEF OldCleared
    <3>3. LiveAt(sec, con)
      BY <1>1 DEF LiveAt
    <3> QED BY <3>1, <3>2, <3>3, <1>A, <1>2 DEF LiveBefore
  <2>2. /\ con \notin LiveBefore /\ LiveBefore \cup {con} \in SUBSET Containers
        /\ Cardinality(LiveBefore \cup {con}) = Cardinality(LiveBefore) + 1
    <3>1. con \notin LiveBefore /\ LiveBefore \in SUBSET Containers
      BY <1>2 DEF LiveBefore
    <3> QED BY <3>1, <1>2, OneMore
  <2>3. ClearedBefore' = ClearedBefore \cup (IF p[1] = sec THEN {p[2]} ELSE {})
    <3>1. \A c \in Containers : c < con + 1 <=> c < con \/ c = con
      BY <1>2 DEF Containers
    <3>2. \A c \in Containers : c \in ClearedIn(sec)' <=>
                                   c \in ClearedIn(sec) \/ (p[1] = sec /\ c = p[2])
      BY <1>A, <1>2, <1>8 DEF OldCleared
    <3>3. \A c \in Containers :
             /\ c \in ClearedIn(sec)' <=> KindAt(sec, c)' = "cleared"
             /\ c \in ClearedIn(sec) <=> KindAt(sec, c) = "cleared"
      BY DEF ClearedIn
    <3> QED BY <3>1, <3>2, <3>3, <1>1, <1>A, <1>2, <1>4, <1>3, <1>6 DEF ClearedBefore
  <2>4. /\ KindAt(sec, con) # "unused" /\ flash'[sec][con].kind # "unused"
        /\ BlankAt(sec, 0)' = BlankAt(sec, 0) /\ ClearedBefore \in SUBSET Containers
    <3>1. 0 \in Containers
      BY VesAssumption DEF Containers
    <3> QED BY <3>1, <1>1, <1>A, <1>2, <1>6, <1>8 DEF OldCleared, KindAt, ClearedBefore
  <2>5. CASE p[1] = sec
    <3>1. PICK i \in 0 .. 1, d \in 0 .. 1 : i = 0 /\ d = 1
      BY 0 \in 0 .. 1 /\ 1 \in 0 .. 1
    <3>2. count' = [unused |-> 0, uninit |-> count.uninit + i,
                    dirty |-> count.dirty + count.unused + d]
      <4>1. count.uninit + i = count.uninit
        BY <3>1, <1>2, VesAssumption
      <4> QED BY <4>1, <3>1, <2>5, <1>A, <1>2, SettledCounts
    <3>3. Cardinality(LiveBefore') = Cardinality(LiveBefore)
      <4>1. p[2] \in LiveBefore \cup {con}
        BY <2>5, <1>4, <1>3, <1>5, <1>6 DEF LiveBefore
      <4>2. Cardinality((LiveBefore \cup {con}) \ {p[2]}) = Cardinality(LiveBefore \cup {con}) - 1
        BY <4>1, <2>2, <1>4, <1>3, OneMore
      <4> QED BY <4>2, <2>1, <2>2, <2>5, <1>2
    <3>4. Cardinality(ClearedBefore') = Cardinality(ClearedBefore) + 1
      <4>1. p[2] \notin ClearedBefore
        BY <2>5, <1>8 DEF OldCleared, ClearedBefore, ClearedIn
      <4> QED BY <4>1, <2>3, <2>4, <2>5, <1>4, <1>3, OneMore
    <3>5. /\ d + i + Cardinality(LiveBefore') = Cardinality(LiveBefore) + 1
          /\ d + Cardinality(ClearedBefore) = Cardinality(ClearedBefore')
          /\ i # 1
      BY <3>1, <3>3, <3>4, <1>2
    <3> QED BY <3>2, <3>5, <2>4, <1>1, <1>A, CountsSettled
  <2>6. CASE p[1] # sec
    <3>1. PICK i \in 0 .. 1, d \in 0 .. 1 : i = 0 /\ d = 0
      BY 0 \in 0 .. 1
    <3>2. count' = [unused |-> 0, uninit |-> count.uninit + i,
                    dirty |-> count.dirty + count.unused + d]
      <4>1. /\ count.uninit + i = count.uninit
            /\ count.dirty + count.unused + d = count.dirty + count.unused
        BY <3>1, <1>2, VesAssumption
      <4> QED BY <4>1, <2>6, <1>A, <1>2, SettledCounts
    <3>3. /\ d + i + Cardinality(LiveBefore') = Cardinality(LiveBefore) + 1
          /\ d + Cardinality(ClearedBefore) = Cardinality(ClearedBefore')
          /\ i # 1
      <4>1. LiveBefore' = LiveBefore \cup {con} /\ ClearedBefore' = ClearedBefore
        BY <2>1, <2>3, <2>6
      <4> QED BY <4>1, <3>1, <2>2, <1>2
    <3> QED BY <3>2, <3>3, <2>4, <1>1, <1>A, CountsSettled
  <2> QED BY <2>5, <2>6
<1>16. Shapes' /\ OneEach' /\ flash' \in Flash
  BY <1>2, <1>8 DEF OldCleared
<1>17. IInv'
  BY <1>1, <1>A, <1>16, <1>9, <1>10, <1>12, <1>13, <1>14, <1>15, OneCellSeen
<1> QED BY <1>8, <1>17

(* An old copy of an address found before: the one before is the current copy. *)
LEMMA ScanOldCopyKeeps == ASSUME IInv, ScanOldCopy
  PROVE IInv' /\ \E p \in Places : OldCleared(p)
<1>1. /\ phase = "scan" /\ step = "look" /\ sec < SectorCount /\ con < PerSector
      /\ KindAt(sec, con) = "old" /\ cat[flash[sec][con].ix] # NoEntry
  BY DEF ScanOldCopy, Scanning, Cell, KindAt
<1>2. /\ TypeOK /\ Cells /\ OneEach /\ sec \in Sectors /\ con \in 0 .. PerSector
      /\ con \in Containers /\ con \in Nat /\ current \in Sectors /\ free \subseteq Sectors
      /\ Cardinality(LiveBefore) \in Nat /\ Cardinality(ClearedBefore) \in Nat
      /\ CatSeen /\ DirtySeen /\ FreeSeen /\ CurrentSeen /\ SpareLeft /\ Shapes /\ Counts
      /\ count \in [unused : 0 .. PerSector, uninit : 0 .. PerSector, dirty : 0 .. PerSector]
  <2>1. con \in Containers /\ con \in Nat
    BY <1>1, ScanningSomewhere, VesAssumption DEF Containers
  <2>2. current \in Sectors /\ free \subseteq Sectors
    BY DEF IInv, TypeOK
  <2> QED BY <2>1, <2>2, <1>1, ScanningSomewhere, VesAssumption
<1>3. PICK ix \in Ixs, q \in Places : ix = flash[sec][con].ix /\ q = cat[ix]
  <2>1. flash[sec][con].ix \in Ixs
    BY <1>1, <1>2 DEF Cells, LiveAt
  <2>2. cat[flash[sec][con].ix] \in Places
    BY <2>1, <1>1, <1>2 DEF TypeOK
  <2> QED BY <2>1, <2>2
<1>4. PICK p \in Places : p = <<sec, con>> /\ p[1] = sec /\ p[2] = con
  <2>1. <<sec, con>> \in Places /\ <<sec, con>>[1] = sec /\ <<sec, con>>[2] = con
    BY <1>2 DEF Places
  <2> QED BY <2>1, Zenon
<1>5. q # NoEntry /\ q[1] \in Sectors /\ q[2] \in Containers
  BY <1>2, <1>3 DEF Places, NoEntry, Sectors
<1>A. /\ ProgramIndex(p, "cleared", 0) /\ UNCHANGED <<room, at, job, call>>
      /\ cat' = cat /\ dirty' = dirty
      /\ count' = [Settled EXCEPT !.dirty = @ + 1]
      /\ free' = free /\ sec' = sec /\ con' = con + 1 /\ step' = step
      /\ UNCHANGED room
  BY <1>4 DEF ScanOldCopy, Cell, room, at
<1>6. Seen(q[1], q[2]) /\ LiveAt(q[1], q[2]) /\ flash[q[1]][q[2]].ix = ix
  BY <1>1, <1>2, <1>3, <1>5 DEF CatSeen
<1>7. KindAt(q[1], q[2]) = "current"
  <2>1. ~ (q[1] = sec /\ q[2] = con)
    <3>1. q[1] < sec \/ (q[1] = sec /\ q[2] < con)
      BY <1>1, <1>6 DEF Seen
    <3>2. q[1] \in Int /\ q[2] \in Int /\ sec \in Int /\ con \in Int
      BY <1>2, <1>5 DEF Sectors, Containers
    <3> QED BY <3>1, <3>2
  <2>2. ASSUME KindAt(q[1], q[2]) = "old"
        PROVE  FALSE
    <3>1. KindAt(q[1], q[2]) = KindAt(sec, con) /\ LiveAt(sec, con)
          /\ flash[q[1]][q[2]].ix = flash[sec][con].ix
      BY <2>2, <1>1, <1>3, <1>6 DEF LiveAt
    <3>2. \A t \in Sectors, d \in Containers :
             KindAt(t, d) = KindAt(sec, con) /\ flash[t][d].ix = flash[sec][con].ix
                => sec = t /\ con = d
      BY <3>1, <1>2 DEF OneEach
    <3> QED BY <3>1, <3>2, <1>5, <2>1
  <2> QED BY <2>2, <1>6 DEF LiveAt
<1>8. OldCleared(p)
  <2>1. KindAt(p[1], p[2]) = "old" /\ flash[q[1]][q[2]].ix = flash[p[1]][p[2]].ix
    BY <1>1, <1>3, <1>4, <1>6
  <2> QED BY <2>1, <1>A, <1>2, <1>3, <1>7, OldCopyCleared
<1>9. FreeSeen' /\ CurrentSeen' /\ SpareLeft'
  BY <1>A, <1>2, <1>8, SeenStays, SpareStays DEF OldCleared
<1>10. \A s \in Sectors, c \in Containers : Seen(s, c)' <=> Seen(s, c) \/ (s = sec /\ c = con)
  BY <1>1, <1>A, <1>2 DEF Seen, Containers
<1>11. CatSeen'
  <2>1. ASSUME NEW x \in Ixs, cat[x] # NoEntry
        PROVE  /\ Seen(cat[x][1], cat[x][2])' /\ LiveAt(cat[x][1], cat[x][2])'
               /\ flash'[cat[x][1]][cat[x][2]].ix = x
    <3>1. cat[x][1] \in Sectors /\ cat[x][2] \in Containers
      BY <2>1, <1>2 DEF TypeOK, Places
    <3>2. /\ Seen(cat[x][1], cat[x][2]) /\ LiveAt(cat[x][1], cat[x][2])
          /\ flash[cat[x][1]][cat[x][2]].ix = x
      BY <2>1, <1>2 DEF CatSeen
    <3>3. Seen(cat[x][1], cat[x][2])'
      BY <3>1, <3>2, <1>1, <1>A, <1>2 DEF Seen, Containers
    <3>4. ~ (cat[x][1] = sec /\ cat[x][2] = con)
      <4>1. cat[x][1] < sec \/ (cat[x][1] = sec /\ cat[x][2] < con)
        BY <3>2, <1>1 DEF Seen
      <4>2. cat[x][1] \in Int /\ cat[x][2] \in Int /\ sec \in Int /\ con \in Int
        BY <3>1, <1>2 DEF Sectors, Containers
      <4> QED BY <4>1, <4>2
    <3>5. flash'[cat[x][1]][cat[x][2]] = flash[cat[x][1]][cat[x][2]]
      BY <3>1, <3>4, <1>4, <1>8 DEF OldCleared
    <3> QED BY <3>2, <3>3, <3>5, <1>A DEF LiveAt, KindAt
  <2>2. ASSUME NEW s \in Sectors, NEW c \in Containers, Seen(s, c)', LiveAt(s, c)'
        PROVE  cat[flash'[s][c].ix] = <<s, c>>
    <3>1. LiveAt(s, c) /\ ~ (s = sec /\ c = con) /\ flash'[s][c].ix = flash[s][c].ix
      BY <2>2, <1>4, <1>8 DEF OldCleared
    <3>2. Seen(s, c)
      BY <3>1, <2>2, <1>10
    <3>3. cat[flash[s][c].ix] = <<s, c>>
      BY <3>1, <3>2, <1>2 DEF CatSeen
    <3> QED BY <3>1, <3>3
  <2> QED BY <2>1, <2>2, <1>A DEF CatSeen
<1>12. DirtySeen'
  <2>1. \A s \in Sectors : s < sec => ClearedIn(s)' = ClearedIn(s)
    BY <1>2, <1>4, <1>8 DEF OldCleared, Sectors
  <2> QED BY <2>1, <1>A, <1>2 DEF DirtySeen
<1>13. Cells'
  <2>1. ~ InFlight' /\ ~ InFlight
    BY <1>1, <1>A DEF InFlight
  <2>2. ASSUME NEW s \in Sectors, NEW c \in Containers, LiveAt(s, c)'
        PROVE  flash'[s][c].ix \in Ixs
    <3>1. LiveAt(s, c) /\ flash'[s][c].ix = flash[s][c].ix
      BY <2>2, <1>8 DEF OldCleared
    <3> QED BY <3>1, <1>2 DEF Cells
  <2>3. ASSUME NEW s \in Sectors, NEW c \in Containers, BlankAt(s, c)'
        PROVE  flash'[s][c].ix = 0 /\ flash'[s][c].data = Bits
    <3>1. BlankAt(s, c) /\ flash'[s][c] = flash[s][c]
      BY <2>3, <1>8 DEF OldCleared
    <3>2. flash[s][c].ix = 0 /\ flash[s][c].data = Bits
      BY <3>1, <2>1, <1>2 DEF Cells
    <3> QED BY <3>1, <3>2
  <2> QED BY <2>2, <2>3 DEF Cells
<1>14. /\ Counts'
       /\ count' \in [unused : 0 .. PerSector, uninit : 0 .. PerSector, dirty : 0 .. PerSector]
  <2>1. \A c \in Containers : c < con + 1 <=> c < con \/ c = con
    BY <1>2 DEF Containers
  <2>2. LiveBefore' = LiveBefore
    <3>1. \A c \in Containers : LiveAt(sec, c)' <=> LiveAt(sec, c) /\ c # con
      BY <1>A, <1>2, <1>4, <1>8 DEF OldCleared
    <3> QED BY <3>1, <2>1, <1>A, <1>2 DEF LiveBefore
  <2>3. ClearedBefore' = ClearedBefore \cup {con} /\ con \notin ClearedBefore
    <3>1. \A c \in Containers : c \in ClearedIn(sec)' <=> c \in ClearedIn(sec) \/ c = con
      BY <1>A, <1>2, <1>4, <1>8 DEF OldCleared
    <3>2. \A c \in Containers :
             /\ c \in ClearedIn(sec)' <=> KindAt(sec, c)' = "cleared"
             /\ c \in ClearedIn(sec) <=> KindAt(sec, c) = "cleared"
      BY DEF ClearedIn
    <3> QED BY <3>1, <3>2, <2>1, <1>1, <1>A, <1>2 DEF ClearedBefore
  <2>4. Cardinality(ClearedBefore') = Cardinality(ClearedBefore) + 1
    BY <2>3, <1>2, OneMore DEF ClearedBefore
  <2>5. /\ KindAt(sec, con) # "unused" /\ flash'[sec][con].kind # "unused"
        /\ BlankAt(sec, 0)' = BlankAt(sec, 0)
    <3>1. 0 \in Containers
      BY VesAssumption DEF Containers
    <3>2. BlankAt(sec, 0)' = BlankAt(sec, 0)
      BY <3>1, <1>A, <1>2, <1>8 DEF OldCleared
    <3>3. \A s \in Sectors, c \in Containers : KindAt(s, c)' = "unused" <=> KindAt(s, c) = "unused"
      BY <1>8 DEF OldCleared
    <3> QED BY <3>2, <3>3, <1>1, <1>2 DEF KindAt
  <2>6. PICK i \in 0 .. 1, d \in 0 .. 1 : i = 0 /\ d = 1
    BY 0 \in 0 .. 1 /\ 1 \in 0 .. 1
  <2>7. count' = [unused |-> 0, uninit |-> count.uninit + i,
                  dirty |-> count.dirty + count.unused + d]
    <3>1. count.uninit + i = count.uninit
      BY <2>6, <1>2, VesAssumption
    <3> QED BY <3>1, <2>6, <1>A, <1>2, SettledCounts
  <2>8. /\ d + i + Cardinality(LiveBefore') = Cardinality(LiveBefore) + 1
        /\ d + Cardinality(ClearedBefore) = Cardinality(ClearedBefore')
        /\ i # 1
    BY <2>2, <2>4, <2>6, <1>2
  <2> QED BY <2>5, <2>7, <2>8, <1>1, <1>A, CountsSettled
<1>15. Shapes' /\ OneEach' /\ flash' \in Flash
  BY <1>2, <1>8 DEF OldCleared
<1>16. cat' \in [Ixs -> Places \cup {NoEntry}] /\ dirty' \in [Sectors -> 0 .. PerSector]
  BY <1>A, <1>2 DEF TypeOK
<1>17. IInv'
  BY <1>1, <1>A, <1>9, <1>11, <1>12, <1>13, <1>14, <1>15, <1>16, OneCellSeen
<1> QED BY <1>8, <1>17

(* The scan of a sector is over, and its tables are right up to the next one. *)
LEMMA OneSectorSeen ==
  ASSUME IInv, phase = "scan", sec < SectorCount,
         NextSector, phase' = "scan", step' = "look", erased' = erased, UNCHANGED <<job, call>>,
         flash' \in Flash, cat' \in [Ixs -> Places \cup {NoEntry}],
         dirty' \in [Sectors -> 0 .. PerSector], free' \subseteq Sectors,
         current' \in Sectors, next' \in 0 .. PerSector,
         Cells', OneEach', Shapes', CatSeen', DirtySeen', FreeSeen', CurrentSeen', SpareLeft'
  PROVE  IInv'
<1>1. /\ index' = index /\ from' = from /\ to' = to /\ request' = request /\ nth' = nth
      /\ sec' = sec + 1 /\ con' = 0 /\ count' = NoCount
  BY DEF job, call, NextSector
<1>2. TypeOK /\ request = <<>> /\ erased = 0 /\ sec \in Nat
  BY VesAssumption DEF IInv, ScanInv, TypeOK
<1>3. sec' \in 0 .. SectorCount /\ con' \in 0 .. PerSector
  BY <1>1, <1>2, VesAssumption
<1>4. request' = <<>> /\ flash' \in [Sectors -> [Containers -> Container]] /\ erased' \in Sectors
  BY <1>1, <1>2 DEF Flash, TypeOK
<1>5. /\ count' \in [unused : 0 .. PerSector, uninit : 0 .. PerSector, dirty : 0 .. PerSector]
      /\ count'.unused = 0 /\ count'.uninit = 0 /\ count'.dirty = 0
  <2>1. 0 \in 0 .. PerSector
    BY VesAssumption
  <2> QED BY <2>1, <1>1 DEF NoCount
<1>6. TypeOK'
  BY <1>1, <1>2, <1>3, <1>4, <1>5 DEF TypeOK
<1>7. Counts'
  <2>1. LiveBefore' = {} /\ ClearedBefore' = {}
    BY <1>1 DEF LiveBefore, ClearedBefore, Containers
  <2>2. Cardinality(LiveBefore') = 0 /\ Cardinality(ClearedBefore') = 0
    BY <2>1, FS_EmptySet
  <2>3. \A c \in Containers : ~ (c < con')
    BY <1>1 DEF Containers
  <2> QED BY <2>2, <2>3, <1>1, <1>5 DEF Counts
<1>8. ScanInv'
  BY <1>1, <1>2, <1>4, <1>7 DEF ScanInv
<1> QED BY <1>6, <1>8, ScanGoesOn

(* The end of a sector: what is known of it from the counts. *)
LEMMA SectorCounted ==
  ASSUME IInv, SectorScanned
  PROVE  /\ count.unused = PerSector => UnusedSector(sec)
         /\ NothingLive <=> NothingIn(sec)
         /\ ~ NothingLive => /\ ~ BlankAt(sec, 0) /\ LogSector(sec)
                             /\ count.dirty = Cardinality(ClearedIn(sec))
                             /\ count.unused < PerSector
         /\ count.unused > 0 => KindAt(sec, PerSector - 1) = "unused"
         /\ \A c \in Containers : PerSector - count.unused <= c => KindAt(sec, c) = "unused"
         /\ count.unused < PerSector => KindAt(sec, PerSector - count.unused - 1) # "unused"
<1> DEFINE u == count.unused
           n == count.uninit
           m == count.dirty
           L == Cardinality(LiveBefore)
<1>1. phase = "scan" /\ step = "look" /\ sec < SectorCount /\ con = PerSector
  BY DEF SectorScanned
<1>2. /\ Counts /\ sec \in Sectors /\ L \in Nat /\ LiveBefore \in SUBSET Containers
      /\ u \in Nat /\ n \in Nat /\ m \in Nat
      /\ BlankSector(sec) \/ LogSector(sec)
  BY <1>1, ScanningSomewhere, VesAssumption
<1>3. \A c \in Containers : c \in Nat /\ c < PerSector
  BY VesAssumption DEF Containers
<1>4. u + n + m + L = PerSector
  BY <1>1, <1>2 DEF Counts
<1>5. \A c \in Containers : PerSector - u <= c => KindAt(sec, c) = "unused"
  BY <1>1, <1>2, <1>3 DEF Counts
<1>6. u < PerSector => KindAt(sec, PerSector - u - 1) # "unused"
  BY <1>1, <1>2, VesAssumption DEF Counts
<1>7. LiveBefore = {c \in Containers : LiveAt(sec, c)}
  BY <1>1, <1>3 DEF LiveBefore
<1>8. L = 0 <=> NothingIn(sec)
  <2>1. L = 0 <=> LiveBefore = {}
    BY <1>2, ContainersFinite
  <2> QED BY <2>1, <1>7 DEF NothingIn
<1>9. NothingLive <=> L = 0
  BY <1>2, <1>4, VesAssumption DEF NothingLive
<1>10. ASSUME ~ NothingIn(sec)
       PROVE  /\ ~ BlankAt(sec, 0) /\ LogSector(sec)
              /\ m = Cardinality(ClearedIn(sec))
              /\ u < PerSector
  <2>1. PICK c \in Containers : LiveAt(sec, c)
    BY <1>10 DEF NothingIn
  <2>2. LogSector(sec)
    BY <2>1, <1>2 DEF BlankSector, LiveAt, BlankAt
  <2>3. 0 \in Containers /\ (c > 0 \/ c = 0)
    BY <1>3, VesAssumption DEF Containers
  <2>4. ~ BlankAt(sec, 0)
    BY <2>1, <2>2, <2>3 DEF LogSector, BlankAt, LiveAt
  <2>5. ClearedBefore = ClearedIn(sec)
    BY <1>1, <1>3 DEF ClearedBefore, ClearedIn
  <2>6. m = Cardinality(ClearedIn(sec))
    BY <2>4, <2>5, <1>2 DEF Counts
  <2>7. u < PerSector
    BY <1>8, <1>10, <1>2, <1>4, VesAssumption
  <2> QED BY <2>2, <2>4, <2>6, <2>7
<1>11. u = PerSector => UnusedSector(sec)
  BY <1>2, <1>3, <1>5, VesAssumption DEF UnusedSector
<1>12. u > 0 => KindAt(sec, PerSector - 1) = "unused"
  <2>1. PerSector - 1 \in Containers
    BY VesAssumption DEF Containers
  <2> QED BY <2>1, <1>2, <1>5, VesAssumption
<1> QED BY <1>5, <1>6, <1>8, <1>9, <1>10, <1>11, <1>12

(* What the scan has seen when it goes on to the next sector *)
LEMMA SeenBelow ==
  ASSUME TypeOK, step' = "look", sec' = sec + 1, con' = 0, sec < SectorCount,
         step = "look" => con = PerSector
  PROVE  \A s \in Sectors, c \in Containers :
            /\ Seen(s, c)' <=> s < sec + 1
            /\ Seen(s, c) <=> s < sec \/ (s = sec /\ step = "look")
<1>1. sec \in Nat
  BY VesAssumption DEF TypeOK
<1> QED BY <1>1, VesAssumption DEF Seen, Sectors, Containers

(* The addresses found so far stay as they are. *)
LEMMA CatStays ==
  ASSUME TypeOK, CatSeen, flash' = flash, cat' = cat,
         \A s \in Sectors, c \in Containers : Seen(s, c) => Seen(s, c)',
         \A s \in Sectors, c \in Containers : Seen(s, c)' /\ LiveAt(s, c) => Seen(s, c)
  PROVE  CatSeen'
<1>1. ASSUME NEW ix \in Ixs, cat[ix] # NoEntry
      PROVE  /\ Seen(cat[ix][1], cat[ix][2])' /\ LiveAt(cat[ix][1], cat[ix][2])'
             /\ flash[cat[ix][1]][cat[ix][2]].ix = ix
  <2>1. /\ Seen(cat[ix][1], cat[ix][2]) /\ LiveAt(cat[ix][1], cat[ix][2])
        /\ flash[cat[ix][1]][cat[ix][2]].ix = ix
    BY <1>1 DEF CatSeen
  <2>2. cat[ix][1] \in Sectors /\ cat[ix][2] \in Containers
    BY <1>1 DEF TypeOK, Places
  <2>3. PICK s \in Sectors, c \in Containers : s = cat[ix][1] /\ c = cat[ix][2]
    BY <2>2
  <2>4. Seen(s, c)' /\ LiveAt(s, c)'
    BY <2>1, <2>3 DEF LiveAt, KindAt
  <2> QED BY <2>1, <2>3, <2>4
<1>2. ASSUME NEW s \in Sectors, NEW c \in Containers, Seen(s, c)', LiveAt(s, c)
      PROVE  cat[flash[s][c].ix] = <<s, c>>
  BY <1>2 DEF CatSeen
<1> QED BY <1>1, <1>2 DEF CatSeen, LiveAt, KindAt

(* A sector with unused containers only is free. *)
LEMMA FindFreeSectorKeeps == ASSUME IInv, FindFreeSector PROVE IInv'
<1>1. /\ SectorScanned /\ phase = "scan" /\ step = "look" /\ sec < SectorCount
      /\ con = PerSector /\ count.unused = PerSector
  BY DEF FindFreeSector, SectorScanned
<1>2. /\ flash' = flash /\ cat' = cat /\ dirty' = dirty /\ free' = free \cup {sec}
      /\ current' = current /\ next' = next /\ erased' = erased /\ phase' = phase /\ step' = step
      /\ NextSector /\ sec' = sec + 1 /\ con' = 0 /\ UNCHANGED <<job, call>>
  BY DEF FindFreeSector, flashRam, at, NextSector
<1>3. /\ TypeOK /\ Cells /\ OneEach /\ sec \in Sectors /\ Shapes
      /\ CatSeen /\ DirtySeen /\ FreeSeen /\ CurrentSeen /\ sec \in Nat
  BY <1>1, ScanningSomewhere DEF Sectors
<1>4. UnusedSector(sec) /\ 0 \in Containers
  BY <1>1, SectorCounted, VesAssumption DEF Containers
<1>5. Cells' /\ OneEach' /\ flash' \in Flash /\ SameKinds
  BY <1>1, <1>2, <1>3, RamKeepsFlash DEF InFlight
<1>6. \A s \in Sectors : s < sec + 1 <=> s < sec \/ s = sec
  BY <1>3 DEF Sectors
<1>7. CatSeen' /\ Shapes'
  <2>1. \A s \in Sectors, c \in Containers : Seen(s, c)' <=> Seen(s, c)
    BY <1>1, <1>2, <1>3, <1>6, SeenBelow
  <2> QED BY <2>1, <1>2, <1>3, <1>5, CatStays, KindsDecide
<1>8. DirtySeen'
  <2>1. Cardinality(ClearedIn(sec)) = 0 /\ dirty[sec] = 0
    <3>1. ClearedIn(sec) = {}
      BY <1>4 DEF ClearedIn, UnusedSector
    <3> QED BY <3>1, <1>3, FS_EmptySet DEF DirtySeen
  <2>2. \A s \in Sectors : ClearedIn(s)' = ClearedIn(s)
    BY <1>5, KindsDecide
  <2> QED BY <2>1, <2>2, <1>2, <1>3, <1>6 DEF DirtySeen
<1>9. FreeSeen' /\ CurrentSeen'
  <2>1. ~ PartialSector(sec)
    BY <1>4 DEF PartialSector, BlankAt, UnusedSector
  <2>2. \A s \in Sectors : s < sec + 1 /\ BlankAt(s, 0) => s \in free \cup {sec}
    BY <1>3, <1>6 DEF FreeSeen
  <2>3. \A s \in free \cup {sec} : s < sec + 1 /\ UnusedSector(s)
    BY <1>3, <1>4, <1>6 DEF FreeSeen, TypeOK
  <2>4. /\ \A s \in Sectors : /\ PartialSector(s)' = PartialSector(s)
                              /\ UnusedSector(s)' = UnusedSector(s)
                              /\ BlankAt(s, 0)' = BlankAt(s, 0)
        /\ \A s \in Sectors, c \in Containers : /\ BlankAt(s, c)' = BlankAt(s, c)
                                                /\ KindAt(s, c)' = KindAt(s, c)
    BY <1>4, <1>5, KindsDecide
  <2>5. FreeSeen'
    BY <2>2, <2>3, <2>4, <1>2, <1>3 DEF FreeSeen, TypeOK
  <2>6. CurrentSeen'
    BY <2>1, <2>4, <1>2, <1>3, <1>6 DEF CurrentSeen, TypeOK
  <2> QED BY <2>5, <2>6
<1>10. SpareLeft'
  BY <1>2 DEF SpareLeft
<1>11. /\ cat' \in [Ixs -> Places \cup {NoEntry}] /\ dirty' \in [Sectors -> 0 .. PerSector]
       /\ free' \subseteq Sectors /\ current' \in Sectors /\ next' \in 0 .. PerSector
  BY <1>2, <1>3 DEF TypeOK
<1> QED BY <1>1, <1>2, <1>5, <1>7, <1>8, <1>9, <1>10, <1>11, OneSectorSeen

(* A sector in use: its dirty containers are counted, and it is the current  *)
(* one if it has unused containers; no other sector is.                     *)
LEMMA KeepSectorKeeps == ASSUME IInv, KeepSector PROVE IInv' /\ flash' = flash
<1> DEFINE u == count.unused
<1>1. /\ SectorScanned /\ phase = "scan" /\ step = "look" /\ sec < SectorCount
      /\ con = PerSector /\ ~ NothingLive
  BY DEF KeepSector, SectorScanned
<1>2. /\ cat' = cat /\ dirty' = [dirty EXCEPT ![sec] = count.dirty]
      /\ free' = free /\ erased' = erased /\ phase' = phase /\ step' = step
      /\ NextSector /\ sec' = sec + 1 /\ con' = 0 /\ UNCHANGED <<job, call>>
      /\ IF u > 0 /\ Full THEN current' = sec /\ next' = PerSector - u
                          ELSE current' = current /\ next' = next
      /\ ~ (u > 0 /\ ~ Full) => flash' = flash
  BY DEF KeepSector, at, NextSector
<1>3. /\ TypeOK /\ Cells /\ OneEach /\ sec \in Sectors /\ Shapes /\ SpareLeft
      /\ CatSeen /\ DirtySeen /\ FreeSeen /\ CurrentSeen /\ sec \in Nat
      /\ u \in 0 .. PerSector /\ next \in 0 .. PerSector /\ current \in Sectors
      /\ count.dirty \in 0 .. PerSector
  <2>1. sec \in Sectors /\ count.dirty \in 0 .. PerSector /\ u \in 0 .. PerSector
    BY <1>1, ScanningSomewhere
  <2>2. next \in 0 .. PerSector /\ current \in Sectors
    BY DEF IInv, TypeOK
  <2> QED BY <1>1, <2>1, <2>2, ScanningSomewhere DEF Sectors
<1>4. /\ ~ BlankAt(sec, 0) /\ LogSector(sec) /\ ~ NothingIn(sec)
      /\ count.dirty = Cardinality(ClearedIn(sec)) /\ u < PerSector
      /\ u > 0 => KindAt(sec, PerSector - 1) = "unused"
      /\ \A c \in Containers : PerSector - u <= c => KindAt(sec, c) = "unused"
      /\ KindAt(sec, PerSector - u - 1) # "unused"
  BY <1>1, SectorCounted
<1>5. 0 \in Containers /\ PerSector - 1 \in Containers
  BY VesAssumption DEF Containers
<1>6. u > 0 => Full
  <2>1. SUFFICES ASSUME u > 0, next # PerSector PROVE FALSE
    BY <1>3, VesAssumption DEF Full
  <2>2. current < sec /\ 0 < next /\ next < PerSector
    BY <2>1, <1>3, VesAssumption DEF CurrentSeen
  <2>3. ~ BlankAt(current, 0) /\ KindAt(current, PerSector - 1) = "unused"
    BY <2>1, <2>2, <1>3, <1>5, VesAssumption DEF CurrentSeen
  <2>4. PartialSector(current) /\ PartialSector(sec)
    BY <2>1, <2>3, <1>4 DEF PartialSector
  <2>5. current = sec
    BY <2>4, <1>3 DEF Shapes
  <2> QED BY <2>2, <2>5, <1>3
<1>7. flash' = flash
  BY <1>2, <1>6
<1>8. Cells' /\ OneEach' /\ flash' \in Flash /\ SameKinds
  BY <1>1, <1>2, <1>3, <1>7, RamKeepsFlash DEF InFlight
<1>9. \A s \in Sectors : s < sec + 1 <=> s < sec \/ s = sec
  BY <1>3 DEF Sectors
<1>10. CatSeen' /\ Shapes'
  <2>1. \A s \in Sectors, c \in Containers : Seen(s, c)' <=> Seen(s, c)
    BY <1>1, <1>2, <1>3, <1>9, SeenBelow
  <2> QED BY <2>1, <1>2, <1>3, <1>7, <1>8, CatStays, KindsDecide
<1>11. DirtySeen' /\ dirty' \in [Sectors -> 0 .. PerSector]
  <2>1. dirty' \in [Sectors -> 0 .. PerSector] /\ dirty'[sec] = Cardinality(ClearedIn(sec))
        /\ \A s \in Sectors : s # sec => dirty'[s] = dirty[s]
    BY <1>2, <1>3, <1>4 DEF TypeOK
  <2>2. \A s \in Sectors : ClearedIn(s)' = ClearedIn(s)
    BY <1>8, KindsDecide
  <2>3. ASSUME NEW s \in Sectors
        PROVE  dirty'[s] = IF s < sec + 1 THEN Cardinality(ClearedIn(s)) ELSE 0
    <3>1. CASE s = sec
      BY <3>1, <2>1, <1>9
    <3>2. CASE s # sec
      BY <3>2, <2>1, <1>3, <1>9 DEF DirtySeen
    <3> QED BY <3>1, <3>2
  <2> QED BY <2>1, <2>2, <2>3, <1>2 DEF DirtySeen
<1>12. /\ \A s \in Sectors : /\ PartialSector(s)' = PartialSector(s)
                             /\ UnusedSector(s)' = UnusedSector(s)
                             /\ NothingIn(s)' = NothingIn(s)
                             /\ BlankAt(s, 0)' = BlankAt(s, 0)
       /\ \A s \in Sectors, c \in Containers : /\ BlankAt(s, c)' = BlankAt(s, c)
                                               /\ KindAt(s, c)' = KindAt(s, c)
  BY <1>5, <1>8, KindsDecide
<1>13. FreeSeen'
  <2>1. \A s \in free : s < sec + 1 /\ UnusedSector(s)
    BY <1>3, <1>9 DEF FreeSeen, TypeOK
  <2>2. \A s \in Sectors : s < sec + 1 /\ BlankAt(s, 0) => s \in free
    BY <1>3, <1>4, <1>9 DEF FreeSeen
  <2> QED BY <2>1, <2>2, <1>2, <1>3, <1>12 DEF FreeSeen, TypeOK
<1>14. CurrentSeen' /\ current' \in Sectors /\ next' \in 0 .. PerSector
  <2>1. CASE u = 0
    <3>1. ~ PartialSector(sec)
      <4>1. PerSector - u - 1 = PerSector - 1
        BY <2>1, VesAssumption
      <4> QED BY <4>1, <1>4 DEF PartialSector
    <3>2. current' = current /\ next' = next
      BY <2>1, <1>2
    <3>3. CASE next = PerSector
      BY <3>1, <3>2, <3>3, <1>2, <1>3, <1>9, <1>12 DEF CurrentSeen
    <3>4. CASE next # PerSector
      BY <3>2, <3>4, <1>2, <1>3, <1>9, <1>12 DEF CurrentSeen
    <3> QED BY <3>2, <3>3, <3>4, <1>3
  <2>2. CASE u > 0
    <3>1. current' = sec /\ next' = PerSector - u
      BY <2>2, <1>2, <1>6
    <3>2. next' # PerSector /\ 0 < next' /\ current' < sec' /\ next' \in 0 .. PerSector
      BY <2>2, <3>1, <1>2, <1>3, <1>4, VesAssumption
    <3>3. ASSUME NEW c \in Containers, c < PerSector - u, BlankAt(sec, c)
          PROVE  FALSE
      <4>1. KindAt(sec, c) = "unused"
        BY <3>3, <1>4 DEF BlankAt, LogSector
      <4>2. PerSector - u - 1 \in Containers /\ (PerSector - u - 1 > c \/ PerSector - u - 1 = c)
        BY <3>3, <1>3, <1>4, VesAssumption DEF Containers
      <4>3. KindAt(sec, PerSector - u - 1) = "unused"
        BY <4>1, <4>2, <1>4 DEF LogSector
      <4> QED BY <4>3, <1>4
    <3>4. \A c \in Containers : ~ (c < PerSector - u) => PerSector - u <= c
      BY <1>3, VesAssumption DEF Containers
    <3>5. \A c \in Containers : IF c < PerSector - u THEN ~ BlankAt(sec, c)
                                                   ELSE KindAt(sec, c) = "unused"
      BY <3>3, <3>4, <1>4
    <3>6. \A c \in Containers : IF c < next' THEN ~ BlankAt(current, c)'
                                             ELSE KindAt(current, c)' = "unused"
      BY <3>1, <3>5, <1>7 DEF BlankAt, KindAt
    <3> QED BY <3>1, <3>2, <3>6, <1>3 DEF CurrentSeen
  <2> QED BY <2>1, <2>2, <1>3
<1>15. SpareLeft'
  <2>1. CASE \E s \in Sectors : s >= sec /\ NothingIn(s)
    <3>1. PICK s \in Sectors : s >= sec /\ NothingIn(s)
      BY <2>1
    <3>2. s # sec
      BY <3>1, <1>4
    <3>3. s >= sec + 1
      BY <3>1, <3>2, <1>3 DEF Sectors
    <3> QED BY <3>1, <3>3, <1>2, <1>12 DEF SpareLeft
  <2>2. CASE free # {}
    BY <2>2, <1>2 DEF SpareLeft
  <2>3. CASE CanResume
    <3>1. CanResume'
      BY <2>3, <1>8, KindsDecide DEF CanResume
    <3> QED BY <3>1 DEF SpareLeft
  <2> QED BY <2>1, <2>2, <2>3, <1>3 DEF SpareLeft
<1>16. cat' \in [Ixs -> Places \cup {NoEntry}] /\ free' \subseteq Sectors
  BY <1>2, <1>3 DEF TypeOK
<1>17. phase' = "scan" /\ step' = "look"
  BY <1>1, <1>2
<1> QED BY <1>1, <1>2, <1>7, <1>8, <1>10, <1>11, <1>13, <1>14, <1>15, <1>16, <1>17, OneSectorSeen

(* Where the scan initialises a sector. *)
LEMMA ScanPreparing ==
  ASSUME IInv, phase = "scan", step # "look"
  PROVE  /\ TypeOK /\ Cells /\ OneEach
         /\ step \in {"wipe", "prepare"} /\ request = <<>> /\ erased = 0
         /\ Shapes /\ CatSeen /\ DirtySeen /\ FreeSeen /\ CurrentSeen /\ SpareLeft
         /\ sec < SectorCount /\ sec \in Sectors /\ sec \in Nat /\ con \in 0 .. PerSector
         /\ Preparing
         /\ current \in Sectors /\ free \subseteq Sectors /\ next \in 0 .. PerSector
<1>1. TypeOK /\ sec < SectorCount
  BY DEF IInv, ScanInv
<1>2. sec \in Sectors /\ sec \in Nat /\ con \in 0 .. PerSector
  BY <1>1, VesAssumption DEF TypeOK, Sectors
<1>3. current \in Sectors /\ free \subseteq Sectors /\ next \in 0 .. PerSector
  BY <1>1 DEF TypeOK
<1> QED BY <1>1, <1>2, <1>3 DEF IInv, ScanInv

(* A sector has been initialised. *)
LEMMA ScanPreparedKeeps == ASSUME IInv, ScanPrepared PROVE IInv'
<1>1. phase = "scan" /\ step = "prepare" /\ con = PerSector
  BY DEF ScanPrepared
<1>2. /\ flash' = flash /\ cat' = cat /\ dirty' = [dirty EXCEPT ![sec] = 0]
      /\ free' = free \cup {sec}
      /\ current' = current /\ next' = next /\ erased' = erased /\ phase' = phase
      /\ step' = "look" /\ NextSector /\ sec' = sec + 1 /\ con' = 0 /\ UNCHANGED <<job, call>>
  BY DEF ScanPrepared, NextSector
<1>3. /\ TypeOK /\ Cells /\ OneEach /\ sec \in Sectors /\ Shapes /\ sec < SectorCount
      /\ CatSeen /\ DirtySeen /\ FreeSeen /\ CurrentSeen /\ sec \in Nat
      /\ Preparing /\ free \subseteq Sectors /\ current \in Sectors /\ next \in 0 .. PerSector
  BY <1>1, ScanPreparing
<1>4. UnusedSector(sec) /\ 0 \in Containers
  <2>1. \A c \in Containers : c < PerSector
    BY VesAssumption DEF Containers
  <2>2. 0 \in Containers
    BY VesAssumption DEF Containers
  <2> QED BY <2>1, <2>2, <1>1, <1>3 DEF Preparing, UnusedSector
<1>5. flash' \in Flash /\ SameKinds
  BY <1>2, <1>3 DEF SameKinds, TypeOK, Flash
<1>6. Cells' /\ OneEach' /\ Shapes'
  <2>1. OneEach' /\ Shapes'
    BY <1>3, <1>5, KindsDecide
  <2>2. Cells'
    BY <1>1, <1>2, <1>3 DEF Cells, LiveAt, BlankAt, KindAt, InFlight
  <2> QED BY <2>1, <2>2
<1>7. \A s \in Sectors : s < sec + 1 <=> s < sec \/ s = sec
  BY <1>3 DEF Sectors
<1>8. CatSeen'
  <2>1. \A s \in Sectors, c \in Containers :
           Seen(s, c)' <=> Seen(s, c) \/ s = sec
    BY <1>1, <1>2, <1>3, <1>7, SeenBelow
  <2>2. \A c \in Containers : ~ LiveAt(sec, c)
    BY <1>3 DEF Preparing, NothingIn
  <2> QED BY <2>1, <2>2, <1>2, <1>3, CatStays
<1>9. DirtySeen' /\ dirty' \in [Sectors -> 0 .. PerSector]
  <2>1. Cardinality(ClearedIn(sec)) = 0
    <3>1. ClearedIn(sec) = {}
      BY <1>4 DEF ClearedIn, UnusedSector
    <3> QED BY <3>1, FS_EmptySet
  <2>2. \A s \in Sectors : ClearedIn(s)' = ClearedIn(s)
    BY <1>5, KindsDecide
  <2>3. dirty' \in [Sectors -> 0 .. PerSector] /\ dirty'[sec] = 0
        /\ \A s \in Sectors : s # sec => dirty'[s] = dirty[s]
    BY <1>2, <1>3, VesAssumption DEF TypeOK
  <2>4. ASSUME NEW s \in Sectors
        PROVE  dirty'[s] = IF s < sec + 1 THEN Cardinality(ClearedIn(s)) ELSE 0
    <3>1. CASE s = sec
      BY <3>1, <2>1, <2>3, <1>7
    <3>2. CASE s # sec
      BY <3>2, <2>3, <1>3, <1>7 DEF DirtySeen
    <3> QED BY <3>1, <3>2
  <2> QED BY <2>2, <2>3, <2>4, <1>2 DEF DirtySeen
<1>10. FreeSeen' /\ CurrentSeen'
  <2>1. ~ PartialSector(sec)
    BY <1>4 DEF PartialSector, BlankAt, UnusedSector
  <2>2. \A s \in Sectors : s < sec + 1 /\ BlankAt(s, 0) => s \in free \cup {sec}
    BY <1>3, <1>7 DEF FreeSeen
  <2>3. \A s \in free \cup {sec} : s < sec + 1 /\ UnusedSector(s)
    BY <1>3, <1>4, <1>7 DEF FreeSeen, TypeOK
  <2>4. /\ \A s \in Sectors : /\ PartialSector(s)' = PartialSector(s)
                              /\ UnusedSector(s)' = UnusedSector(s)
                              /\ BlankAt(s, 0)' = BlankAt(s, 0)
        /\ \A s \in Sectors, c \in Containers : /\ BlankAt(s, c)' = BlankAt(s, c)
                                                /\ KindAt(s, c)' = KindAt(s, c)
    BY <1>4, <1>5, KindsDecide
  <2>5. FreeSeen'
    BY <2>2, <2>3, <2>4, <1>2, <1>3 DEF FreeSeen, TypeOK
  <2>6. CurrentSeen'
    BY <2>1, <2>4, <1>2, <1>3, <1>7 DEF CurrentSeen, TypeOK
  <2> QED BY <2>5, <2>6
<1>11. SpareLeft'
  BY <1>2 DEF SpareLeft
<1>12. /\ cat' \in [Ixs -> Places \cup {NoEntry}]
       /\ free' \subseteq Sectors /\ current' \in Sectors /\ next' \in 0 .. PerSector
  BY <1>2, <1>3 DEF TypeOK
<1>13. phase' = "scan"
  BY <1>1, <1>2
<1> QED BY <1>1, <1>2, <1>3, <1>5, <1>6, <1>8, <1>9, <1>10, <1>11, <1>12, <1>13, OneSectorSeen

(* A sector with nothing live is initialised: what the scan has then. *)
LEMMA ScanPreparesOn ==
  ASSUME IInv, phase = "scan", sec < SectorCount,
         phase' = phase, sec' = sec, UNCHANGED <<cat, dirty, room, job, call>>,
         step' \in {"wipe", "prepare"}, con' \in 0 .. PerSector,
         flash' \in Flash,
         count' \in [unused : 0 .. PerSector, uninit : 0 .. PerSector, dirty : 0 .. PerSector],
         Cells', OneEach', Shapes', CatSeen', DirtySeen', FreeSeen', CurrentSeen', Preparing'
  PROVE  IInv'
<1>1. /\ index' = index /\ from' = from /\ to' = to /\ request' = request /\ nth' = nth
      /\ cat' = cat /\ dirty' = dirty /\ free' = free /\ current' = current /\ next' = next
      /\ erased' = erased
  BY DEF job, call, room
<1>2. TypeOK /\ request = <<>> /\ erased = 0 /\ sec \in Sectors /\ sec \in 0 .. SectorCount
  <2>1. TypeOK /\ request = <<>> /\ erased = 0
    BY DEF IInv, ScanInv
  <2>2. sec \in 0 .. SectorCount
    BY <2>1 DEF TypeOK
  <2> QED BY <2>1, <2>2, VesAssumption DEF Sectors
<1>3. request' = <<>> /\ flash' \in [Sectors -> [Containers -> Container]] /\ phase' = "scan"
  BY <1>1, <1>2 DEF Flash
<1>4. TypeOK'
  BY <1>1, <1>2, <1>3 DEF TypeOK
<1>5. SpareLeft'
  <2>1. NothingIn(sec)' /\ sec >= sec
    BY <1>2 DEF Preparing, Sectors
  <2>2. \E s \in Sectors : s >= sec' /\ NothingIn(s)'
    BY <2>1, <1>2
  <2> QED BY <2>2 DEF SpareLeft
<1>6. ScanInv'
  BY <1>1, <1>2, <1>3, <1>5 DEF ScanInv
<1> QED BY <1>3, <1>4, <1>6, ScanGoesOn

(* A sector with nothing live is erased if it has to be, and initialised. *)
LEMMA RecycleSectorKeeps == ASSUME IInv, RecycleSector PROVE IInv'
<1>1. /\ SectorScanned /\ phase = "scan" /\ step = "look" /\ sec < SectorCount
      /\ con = PerSector /\ NothingLive
  BY DEF RecycleSector, SectorScanned
<1>2. /\ flash' = flash /\ cat' = cat /\ dirty' = dirty /\ UNCHANGED room
      /\ free' = free /\ current' = current /\ next' = next
      /\ phase' = phase /\ sec' = sec /\ con' = 0 /\ count' = NoCount /\ UNCHANGED <<job, call>>
      /\ step' \in {"wipe", "prepare"}
      /\ step' = "prepare" => \A c \in Containers : BlankAt(sec, c)
  BY DEF RecycleSector, flashRam, room, BlankAt, KindAt
<1>3. /\ TypeOK /\ Cells /\ OneEach /\ sec \in Sectors /\ Shapes
      /\ CatSeen /\ DirtySeen /\ FreeSeen /\ CurrentSeen
  BY <1>1, ScanningSomewhere
<1>4. NothingIn(sec)
  BY <1>1, SectorCounted
<1>5. flash' \in Flash /\ SameKinds
  BY <1>2, <1>3 DEF SameKinds, TypeOK, Flash
<1>6. Cells' /\ OneEach' /\ Shapes'
  <2>1. OneEach' /\ Shapes'
    BY <1>3, <1>5, KindsDecide
  <2>2. Cells'
    BY <1>1, <1>2, <1>3 DEF Cells, LiveAt, BlankAt, KindAt, InFlight
  <2> QED BY <2>1, <2>2
<1>7. CatSeen'
  <2>1. \A s \in Sectors, c \in Containers : Seen(s, c)' <=> Seen(s, c) /\ s # sec
    BY <1>1, <1>2, <1>3 DEF Seen, Sectors, Containers
  <2>2. \A c \in Containers : ~ LiveAt(sec, c)
    BY <1>4 DEF NothingIn
  <2>3. ASSUME NEW ix \in Ixs, cat[ix] # NoEntry
        PROVE  /\ Seen(cat[ix][1], cat[ix][2])' /\ LiveAt(cat[ix][1], cat[ix][2])'
               /\ flash[cat[ix][1]][cat[ix][2]].ix = ix
    <3>1. /\ Seen(cat[ix][1], cat[ix][2]) /\ LiveAt(cat[ix][1], cat[ix][2])
          /\ flash[cat[ix][1]][cat[ix][2]].ix = ix
      BY <2>3, <1>3 DEF CatSeen
    <3>2. PICK s \in Sectors, c \in Containers : s = cat[ix][1] /\ c = cat[ix][2]
      BY <2>3, <1>3 DEF TypeOK, Places
    <3>3. s # sec
      BY <3>1, <3>2, <2>2
    <3>4. Seen(s, c)' /\ LiveAt(s, c)'
      BY <3>1, <3>2, <3>3, <2>1, <1>2 DEF LiveAt, KindAt
    <3> QED BY <3>1, <3>2, <3>4, <1>2
  <2>4. ASSUME NEW s \in Sectors, NEW c \in Containers, Seen(s, c)', LiveAt(s, c)
        PROVE  cat[flash[s][c].ix] = <<s, c>>
    BY <2>4, <2>1, <1>3 DEF CatSeen
  <2> QED BY <2>3, <2>4, <1>2 DEF CatSeen, LiveAt, KindAt
<1>8. DirtySeen' /\ FreeSeen' /\ CurrentSeen'
  <2>1. DirtySeen'
    BY <1>2, <1>3 DEF DirtySeen, ClearedIn, KindAt
  <2>2. FreeSeen'
    BY <1>2, <1>3 DEF FreeSeen, UnusedSector, BlankAt, KindAt
  <2>3. CurrentSeen'
    BY <1>2, <1>3 DEF CurrentSeen, BlankAt, PartialSector, KindAt
  <2> QED BY <2>1, <2>2, <2>3
<1>9. Preparing'
  <2>1. \A c \in Containers : ~ (c < 0)
    BY DEF Containers
  <2> QED BY <2>1, <1>2, <1>4 DEF Preparing, NothingIn, LiveAt, BlankSector, BlankAt, KindAt
<1>10. /\ con' \in 0 .. PerSector
       /\ count' \in [unused : 0 .. PerSector, uninit : 0 .. PerSector, dirty : 0 .. PerSector]
  <2>1. 0 \in 0 .. PerSector
    BY VesAssumption
  <2> QED BY <2>1, <1>2 DEF NoCount
<1> QED BY <1>1, <1>2, <1>5, <1>6, <1>7, <1>8, <1>9, <1>10, ScanPreparesOn

----------------------------------------------------------------------------
(* The other steps keep the invariant                                      *)

(* A new partition is erased. *)
LEMMA InitHolds == ASSUME Init PROVE IInv
<1>1. /\ \A s \in Sectors, c \in Containers : flash[s][c] = Erased
      /\ phase = "off" /\ step = "rest" /\ request = <<>>
  BY DEF Init
<1>2. \A s \in Sectors, c \in Containers :
         /\ KindAt(s, c) = "uninitialized" /\ flash[s][c].ix = 0 /\ flash[s][c].data = Bits
         /\ BlankAt(s, c) /\ ~ LiveAt(s, c)
  BY <1>1 DEF Erased, KindAt, BlankAt, LiveAt
<1>3. TypeOK
  <2>1. /\ 0 \in Sectors /\ 0 \in 0 .. PerSector /\ PerSector \in 0 .. PerSector
        /\ 0 \in 0 .. SectorCount /\ 0 \in 0 .. CatMax /\ 1 \in 1 .. CatMax + 1
    BY VesAssumption DEF Sectors
  <2>2. Erased \in Container
    BY VesAssumption DEF Erased, Container, IndexKinds, Payloads
  <2>3. flash \in [Sectors -> [Containers -> Container]]
    BY <2>2 DEF Init
  <2>4. count \in [unused : 0 .. PerSector, uninit : 0 .. PerSector, dirty : 0 .. PerSector]
    BY <2>1 DEF Init, NoCount
  <2> QED BY <2>1, <2>3, <2>4 DEF Init, TypeOK
<1>4. Cells /\ OneEach
  BY <1>2 DEF Cells, OneEach
<1>5. Shapes
  <2>1. 0 \in Containers
    BY VesAssumption DEF Containers
  <2> QED BY <1>2, <2>1 DEF Shapes, BlankSector, PartialSector
<1>6. Recoverable
  <2>1. 0 \in Sectors
    BY VesAssumption DEF Sectors
  <2> QED BY <1>2, <2>1 DEF Recoverable, NothingIn
<1> QED BY <1>1, <1>3, <1>4, <1>5, <1>6
        DEF IInv, OffInv, ScanInv, Tables, Running, GcInv, WriteInv, ReadyInv

(* The scan starts with empty tables. *)
LEMMA BootKeeps == ASSUME IInv, Boot PROVE IInv'
<1>1. /\ phase = "off" /\ phase' = "scan" /\ step' = "look" /\ flash' = flash
      /\ cat' = [ix \in Ixs |-> NoEntry] /\ dirty' = [s \in Sectors |-> 0]
      /\ free' = {} /\ current' = 0 /\ next' = PerSector /\ erased' = 0
      /\ sec' = 0 /\ con' = 0 /\ count' = NoCount
      /\ index' = index /\ from' = from /\ to' = to /\ request' = request /\ nth' = nth
  BY DEF Boot, job, call
<1>2. TypeOK /\ Cells /\ OneEach /\ step = "rest" /\ request = <<>> /\ Shapes /\ Recoverable
  BY <1>1 DEF IInv, OffInv
<1>3. /\ 0 \in Sectors /\ 0 \in 0 .. PerSector /\ PerSector \in 0 .. PerSector
      /\ 0 \in 0 .. SectorCount /\ 0 < SectorCount /\ 0 # PerSector
  BY VesAssumption DEF Sectors
<1>4. /\ count' \in [unused : 0 .. PerSector, uninit : 0 .. PerSector, dirty : 0 .. PerSector]
      /\ count'.unused = 0 /\ count'.uninit = 0 /\ count'.dirty = 0
  BY <1>1, <1>3 DEF NoCount
<1>5. request' = <<>> /\ flash' \in [Sectors -> [Containers -> Container]]
  BY <1>1, <1>2 DEF TypeOK
<1>6. TypeOK'
  BY <1>1, <1>2, <1>3, <1>4, <1>5 DEF TypeOK
<1>7. SameKinds /\ OneEach' /\ Shapes'
  <2>1. SameKinds
    BY <1>1 DEF SameKinds
  <2> QED BY <2>1, <1>2, KindsDecide
<1>8. Cells'
  BY <1>1, <1>2 DEF Cells, LiveAt, BlankAt, KindAt, InFlight
<1>9. \A s \in Sectors : ~ (s < 0) /\ \A c \in Containers : ~ (c < 0)
  BY DEF Sectors, Containers
<1>10. CatSeen'
  <2>1. \A s \in Sectors, c \in Containers : ~ Seen(s, c)'
    BY <1>1, <1>9 DEF Seen
  <2> QED BY <2>1, <1>1 DEF CatSeen
<1>11. DirtySeen' /\ FreeSeen' /\ CurrentSeen'
  BY <1>1, <1>9 DEF DirtySeen, FreeSeen, CurrentSeen
<1>12. SpareLeft'
  <2>1. CASE \E s \in Sectors : NothingIn(s)
    <3>1. PICK s \in Sectors : NothingIn(s)
      BY <2>1
    <3>2. s >= 0 /\ NothingIn(s)'
      BY <3>1, <1>7, KindsDecide DEF Sectors
    <3> QED BY <3>2, <1>1 DEF SpareLeft
  <2>2. CASE CanResume
    <3>1. CanResume'
      BY <2>2, <1>7, KindsDecide DEF CanResume
    <3> QED BY <3>1 DEF SpareLeft
  <2> QED BY <2>1, <2>2, <1>2 DEF Recoverable
<1>13. Counts'
  <2>1. LiveBefore' = {} /\ ClearedBefore' = {}
    BY <1>1 DEF LiveBefore, ClearedBefore, Containers
  <2>2. Cardinality(LiveBefore') = 0 /\ Cardinality(ClearedBefore') = 0
    BY <2>1, FS_EmptySet
  <2>3. \A c \in Containers : ~ (c < con')
    BY <1>1 DEF Containers
  <2> QED BY <2>2, <2>3, <1>1, <1>4 DEF Counts
<1>14. ScanInv'
  BY <1>1, <1>3, <1>5, <1>7, <1>10, <1>11, <1>12, <1>13 DEF ScanInv
<1> QED BY <1>1, <1>6, <1>7, <1>8, <1>14, ScanGoesOn

(* A sector without live containers, being initialised: what it holds after  *)
(* an erase or after one more index.                                        *)
Cleaned ==
    /\ flash' \in Flash
    /\ \A s \in Sectors, c \in Containers : s # sec => flash'[s][c] = flash[s][c]
    /\ \A c \in Containers : /\ flash'[sec][c].kind \in {"unused", "uninitialized"}
                             /\ flash'[sec][c].ix = 0 /\ flash'[sec][c].data = Bits

(* An initialised sector costs no other sector anything. *)
LEMMA OthersStay ==
  ASSUME sec \in Sectors, sec' = sec, Cleaned, Cells, OneEach, ~ InFlight
  PROVE  /\ Cells' /\ OneEach' /\ BlankSector(sec)' /\ NothingIn(sec)'
         /\ Shapes => Shapes'
         /\ \A s \in Sectors, c \in Containers :
               s # sec => /\ KindAt(s, c)' = KindAt(s, c)
                          /\ LiveAt(s, c)' = LiveAt(s, c)
                          /\ BlankAt(s, c)' = BlankAt(s, c)
         /\ \A s \in Sectors : s # sec => /\ ClearedIn(s)' = ClearedIn(s)
                                          /\ UnusedSector(s)' = UnusedSector(s)
                                          /\ UsedSector(s)' = UsedSector(s)
                                          /\ PartialSector(s)' = PartialSector(s)
         /\ ~ PartialSector(sec)'
<1>1. \A s \in Sectors, c \in Containers :
         s # sec => /\ KindAt(s, c)' = KindAt(s, c)
                    /\ LiveAt(s, c)' = LiveAt(s, c)
                    /\ BlankAt(s, c)' = BlankAt(s, c)
  BY DEF Cleaned, KindAt, LiveAt, BlankAt
<1>2. \A c \in Containers : BlankAt(sec, c)' /\ ~ LiveAt(sec, c)'
  BY DEF Cleaned, KindAt, LiveAt, BlankAt
<1>3. BlankSector(sec)' /\ NothingIn(sec)'
  BY <1>2 DEF BlankSector, NothingIn
<1>4. 0 \in Containers /\ PerSector - 1 \in Containers
  BY VesAssumption DEF Containers
<1>5. ~ PartialSector(sec)'
  BY <1>2, <1>4 DEF PartialSector
<1>6. \A s \in Sectors : s # sec => /\ ClearedIn(s)' = ClearedIn(s)
                                    /\ UnusedSector(s)' = UnusedSector(s)
                                    /\ UsedSector(s)' = UsedSector(s)
                                    /\ PartialSector(s)' = PartialSector(s)
                                    /\ BlankSector(s)' = BlankSector(s)
                                    /\ LogSector(s)' = LogSector(s)
  BY <1>1, <1>4 DEF ClearedIn, UnusedSector, UsedSector, PartialSector, BlankSector, LogSector
<1>7. Cells'
  <2>1. ASSUME NEW s \in Sectors, NEW c \in Containers
        PROVE  /\ LiveAt(s, c)' => flash'[s][c].ix \in Ixs
               /\ BlankAt(s, c)' => flash'[s][c].ix = 0 /\ flash'[s][c].data = Bits
    <3>1. CASE s = sec
      BY <3>1, <1>2 DEF Cleaned
    <3>2. CASE s # sec
      BY <3>2, <1>1 DEF Cleaned, Cells
    <3> QED BY <3>1, <3>2
  <2> QED BY <2>1 DEF Cells
<1>8. OneEach'
  <2>1. ASSUME NEW s \in Sectors, NEW c \in Containers, NEW t \in Sectors, NEW d \in Containers,
               LiveAt(s, c)', KindAt(t, d)' = KindAt(s, c)', flash'[t][d].ix = flash'[s][c].ix
        PROVE  s = t /\ c = d
    <3>1. LiveAt(t, d)'
      BY <2>1 DEF LiveAt
    <3>2. s # sec /\ t # sec
      BY <3>1, <2>1, <1>2
    <3> QED BY <3>2, <2>1, <1>1 DEF Cleaned, OneEach
  <2> QED BY <2>1 DEF OneEach
<1>9. Shapes => Shapes'
  <2>1. \A s \in Sectors : s # sec /\ Shapes => BlankSector(s)' \/ LogSector(s)'
    BY <1>6 DEF Shapes
  <2>2. \A s, t \in Sectors : Shapes /\ PartialSector(s)' /\ PartialSector(t)' => s = t
    BY <1>5, <1>6 DEF Shapes
  <2> QED BY <2>1, <2>2, <1>3 DEF Shapes
<1> QED BY <1>1, <1>3, <1>5, <1>6, <1>7, <1>8, <1>9

(* ... for the scan *)
LEMMA ScanCleans ==
  ASSUME IInv, phase = "scan", step # "look", Cleaned, Preparing',
         phase' = phase, step' = "prepare", sec' = sec, con' \in 0 .. PerSector,
         UNCHANGED <<cat, dirty, room, count, job, call>>
  PROVE  IInv'
<1>1. /\ TypeOK /\ Cells /\ OneEach /\ Shapes /\ CatSeen /\ DirtySeen /\ FreeSeen /\ CurrentSeen
      /\ sec < SectorCount /\ sec \in Sectors /\ sec \in Nat /\ NothingIn(sec) /\ ~ InFlight
      /\ current \in Sectors /\ free \subseteq Sectors
  BY ScanPreparing DEF Preparing, InFlight
<1>2. cat' = cat /\ dirty' = dirty /\ free' = free /\ current' = current /\ next' = next
  BY DEF room
<1>3. /\ Cells' /\ OneEach' /\ Shapes'
      /\ \A s \in Sectors, c \in Containers :
            s # sec => /\ KindAt(s, c)' = KindAt(s, c)
                       /\ LiveAt(s, c)' = LiveAt(s, c)
                       /\ BlankAt(s, c)' = BlankAt(s, c)
      /\ \A s \in Sectors : s # sec => /\ ClearedIn(s)' = ClearedIn(s)
                                       /\ UnusedSector(s)' = UnusedSector(s)
                                       /\ PartialSector(s)' = PartialSector(s)
  BY <1>1, OthersStay
<1>4. \A s \in Sectors : s < sec => s # sec
  BY <1>1 DEF Sectors
<1>5. \A s \in Sectors, c \in Containers : (Seen(s, c)' <=> s < sec) /\ (Seen(s, c) <=> s < sec)
  BY DEF Seen
<1>6. CatSeen'
  <2>1. ASSUME NEW ix \in Ixs, cat[ix] # NoEntry
        PROVE  /\ Seen(cat[ix][1], cat[ix][2])' /\ LiveAt(cat[ix][1], cat[ix][2])'
               /\ flash'[cat[ix][1]][cat[ix][2]].ix = ix
    <3>1. /\ Seen(cat[ix][1], cat[ix][2]) /\ LiveAt(cat[ix][1], cat[ix][2])
          /\ flash[cat[ix][1]][cat[ix][2]].ix = ix
      BY <2>1, <1>1 DEF CatSeen
    <3>2. PICK s \in Sectors, c \in Containers : s = cat[ix][1] /\ c = cat[ix][2]
      BY <2>1, <1>1 DEF TypeOK, Places
    <3>3. s < sec /\ s # sec
      BY <3>1, <3>2, <1>4, <1>5
    <3>4. Seen(s, c)' /\ LiveAt(s, c)' /\ flash'[s][c].ix = ix
      BY <3>1, <3>2, <3>3, <1>3, <1>5 DEF Cleaned
    <3>5. Seen(cat[ix][1], cat[ix][2])'
      BY <3>2, <3>3, <1>2 DEF Seen
    <3>6. LiveAt(cat[ix][1], cat[ix][2])'
      BY <3>2, <3>4, <1>2 DEF LiveAt, KindAt
    <3> QED BY <3>2, <3>4, <3>5, <3>6
  <2>2. ASSUME NEW s \in Sectors, NEW c \in Containers, Seen(s, c)', LiveAt(s, c)'
        PROVE  cat[flash'[s][c].ix] = <<s, c>>
    <3>1. s # sec /\ Seen(s, c) /\ LiveAt(s, c) /\ flash'[s][c] = flash[s][c]
      BY <2>2, <1>3, <1>4, <1>5 DEF Cleaned
    <3> QED BY <3>1, <1>1 DEF CatSeen
  <2> QED BY <2>1, <2>2, <1>2 DEF CatSeen
<1>7. DirtySeen'
  BY <1>1, <1>2, <1>3, <1>4 DEF DirtySeen
<1>8. FreeSeen'
  <2>1. 0 \in Containers
    BY VesAssumption DEF Containers
  <2>2. \A s \in free : s \in Sectors /\ s < sec /\ UnusedSector(s)'
    BY <1>1, <1>3, <1>4 DEF FreeSeen
  <2>3. \A s \in Sectors : s < sec /\ BlankAt(s, 0)' => s \in free
    BY <2>1, <1>1, <1>3, <1>4 DEF FreeSeen
  <2> QED BY <2>2, <2>3, <1>2 DEF FreeSeen
<1>9. CurrentSeen'
  <2>1. CASE next = PerSector
    BY <2>1, <1>1, <1>2, <1>3, <1>4 DEF CurrentSeen
  <2>2. CASE next # PerSector
    <3>1. current < sec /\ current # sec /\ 0 < next
      BY <2>2, <1>1, <1>4 DEF CurrentSeen
    <3>2. \A c \in Containers : IF c < next THEN ~ BlankAt(current, c)'
                                            ELSE KindAt(current, c)' = "unused"
      BY <2>2, <3>1, <1>1, <1>2, <1>3 DEF CurrentSeen
    <3> QED BY <2>2, <3>1, <3>2, <1>2 DEF CurrentSeen
  <2> QED BY <2>1, <2>2
<1>10. count' \in [unused : 0 .. PerSector, uninit : 0 .. PerSector, dirty : 0 .. PerSector]
  BY <1>1 DEF TypeOK
<1> QED BY <1>1, <1>3, <1>6, <1>7, <1>8, <1>9, <1>10, ScanPreparesOn DEF Cleaned

(* A step of the collector, or of a write, has the tables and its own part of *)
(* the invariant to keep.                                                    *)
LEMMA GcGoesOn ==
  ASSUME phase' = "gc", TypeOK', Cells', OneEach', CatExact', DirtyExact', FreeExact',
         CurrentExact', GcInv'
  PROVE  IInv'
BY DEF IInv, OffInv, ScanInv, Tables, WriteInv, ReadyInv, Running

(* The same for a write. *)
LEMMA WriteGoesOn ==
  ASSUME phase' = "write", TypeOK', Cells', OneEach', CatExact', DirtyExact', FreeExact',
         CurrentExact', WriteInv'
  PROVE  IInv'
BY DEF IInv, OffInv, ScanInv, Tables, GcInv, ReadyInv, Running

(* What holds while the collector runs. *)
LEMMA Collecting ==
  ASSUME IInv, phase = "gc"
  PROVE  /\ TypeOK /\ Cells /\ OneEach
         /\ CatExact /\ DirtyExact /\ FreeExact /\ CurrentExact /\ GcInv
         /\ current \in Sectors /\ next \in 0 .. PerSector /\ con \in 0 .. PerSector
         /\ free \subseteq Sectors
         /\ request # <<>> => nth \in DOMAIN request
         /\ step # "choose" => sec \in Sectors /\ sec # current /\ free = {}
BY DEF IInv, Tables, Running, GcInv, TypeOK

(* Erasing and preparing a sector, for the collector. *)
LEMMA GcCleans ==
  ASSUME IInv, phase = "gc", step \in {"wipe", "prepare"}, Cleaned, Preparing',
         phase' = phase, step' = "prepare", sec' = sec, con' \in 0 .. PerSector,
         erased' \in Sectors, UNCHANGED <<cat, dirty, free, current, next, count, job, call>>
  PROVE  IInv'
<1>1. /\ TypeOK /\ Cells /\ OneEach /\ CatExact /\ DirtyExact /\ FreeExact /\ CurrentExact
      /\ sec \in Sectors /\ sec # current /\ free = {} /\ NothingIn(sec) /\ next < PerSector
      /\ ~ InFlight /\ step # "clear" /\ current \in Sectors
      /\ request # <<>> => nth \in DOMAIN request
  BY Collecting DEF GcInv, Preparing, InFlight
<1>2. /\ cat' = cat /\ dirty' = dirty /\ free' = free /\ current' = current /\ next' = next
      /\ index' = index /\ from' = from /\ to' = to /\ request' = request /\ nth' = nth
  BY DEF job, call
<1>3. /\ Cells' /\ OneEach' /\ BlankSector(sec)' /\ NothingIn(sec)'
      /\ \A s \in Sectors, c \in Containers :
            s # sec => /\ KindAt(s, c)' = KindAt(s, c)
                       /\ LiveAt(s, c)' = LiveAt(s, c)
                       /\ BlankAt(s, c)' = BlankAt(s, c)
      /\ \A s \in Sectors : s # sec => /\ ClearedIn(s)' = ClearedIn(s)
                                       /\ UnusedSector(s)' = UnusedSector(s)
                                       /\ UsedSector(s)' = UsedSector(s)
  BY <1>1, OthersStay
<1>4. TypeOK'
  <2>1. request' = <<>> \/ request' \in Memory!Writes'
    BY <1>1, <1>2 DEF TypeOK, Memory!Writes, Memory!Ixs
  <2>2. flash' \in [Sectors -> [Containers -> Container]]
    BY DEF Cleaned, Flash
  <2> QED BY <2>1, <2>2, <1>1, <1>2 DEF TypeOK
<1>5. CatExact'
  <2>1. ASSUME NEW ix \in Ixs, cat[ix] # NoEntry
        PROVE  LiveAt(cat[ix][1], cat[ix][2])' /\ flash'[cat[ix][1]][cat[ix][2]].ix = ix
    <3>1. LiveAt(cat[ix][1], cat[ix][2]) /\ flash[cat[ix][1]][cat[ix][2]].ix = ix
      BY <2>1, <1>1 DEF CatExact
    <3>2. PICK s \in Sectors, c \in Containers : s = cat[ix][1] /\ c = cat[ix][2]
      BY <2>1, <1>1 DEF TypeOK, Places
    <3>3. s # sec
      BY <3>1, <3>2, <1>1 DEF NothingIn
    <3>4. LiveAt(s, c)' /\ flash'[s][c].ix = ix
      BY <3>1, <3>2, <3>3, <1>3 DEF Cleaned
    <3> QED BY <3>2, <3>4, <1>2 DEF LiveAt, KindAt
  <2>2. ASSUME NEW s \in Sectors, NEW c \in Containers, LiveAt(s, c)'
        PROVE  cat[flash'[s][c].ix] = <<s, c>>
    <3>1. s # sec
      BY <2>2, <1>3 DEF NothingIn
    <3>2. LiveAt(s, c) /\ flash'[s][c] = flash[s][c]
      BY <3>1, <2>2, <1>3 DEF Cleaned
    <3> QED BY <3>2, <1>1 DEF CatExact
  <2> QED BY <2>1, <2>2, <1>2 DEF CatExact
<1>6. DirtyExact' /\ FreeExact'
  BY <1>1, <1>2, <1>3 DEF DirtyExact, FreeExact, Unprepared
<1>7. CurrentExact'
  BY <1>1, <1>2, <1>3 DEF CurrentExact, InFlight
<1>8. GcInv'
  BY <1>1, <1>2 DEF GcInv
<1> QED BY <1>3, <1>4, <1>5, <1>6, <1>7, <1>8, GcGoesOn

(* The sector is erased if it has to be. *)
LEMMA WipeKeeps == ASSUME IInv, Wipe PROVE IInv'
<1>1. phase \in {"scan", "gc"} /\ step = "wipe"
  BY DEF IInv, TypeOK, OffInv, WriteInv, ReadyInv, Wipe
<1>2. sec \in Sectors /\ erased \in Sectors /\ TypeOK
  BY <1>1, ScanPreparing, Collecting DEF TypeOK
<1>3. /\ EraseSector(sec) /\ phase' = phase /\ step' = "prepare" /\ sec' = sec /\ con' = 0
      /\ UNCHANGED <<cat, dirty, free, current, next, count, job, call>>
      /\ erased' = IF phase = "gc" THEN sec ELSE erased
  BY DEF Wipe
<1>4. Cleaned
  <2>1. flash \in Flash
    BY <1>2 DEF TypeOK, Flash
  <2>2. /\ flash' \in Flash /\ \A t \in Sectors : t # sec => flash'[t] = flash[t]
        /\ \A c \in Containers : flash'[sec][c] = Erased
    BY <1>2, <1>3, <2>1, SectorErased
  <2> QED BY <2>2 DEF Cleaned, Erased
<1>5. Preparing'
  <2>1. \A c \in Containers : BlankAt(sec, c)' /\ ~ LiveAt(sec, c)'
    BY <1>3, <1>4 DEF Cleaned, BlankAt, LiveAt, KindAt
  <2>2. \A c \in Containers : ~ (c < con')
    BY <1>3 DEF Containers
  <2> QED BY <2>1, <2>2 DEF Preparing, NothingIn, BlankSector
<1>6. con' \in 0 .. PerSector /\ erased' \in Sectors
  BY <1>2, <1>3, VesAssumption
<1>7. CASE phase = "scan"
  <2>1. UNCHANGED room
    BY <1>3, <1>7 DEF room
  <2> QED BY <2>1, <1>1, <1>3, <1>4, <1>5, <1>6, <1>7, ScanCleans
<1>8. CASE phase = "gc"
  BY <1>1, <1>3, <1>4, <1>5, <1>6, <1>8, GcCleans
<1> QED BY <1>1, <1>7, <1>8

(* One more of its containers is marked unused. *)
LEMMA PrepareKeeps == ASSUME IInv, Prepare PROVE IInv'
<1>1. phase \in {"scan", "gc"} /\ step = "prepare" /\ con < PerSector
  BY DEF IInv, TypeOK, OffInv, WriteInv, ReadyInv, Prepare
<1>2. /\ sec \in Sectors /\ erased \in Sectors /\ TypeOK /\ Preparing /\ Cells
      /\ con \in Containers /\ ~ InFlight
  <2>1. sec \in Sectors /\ erased \in Sectors /\ TypeOK /\ Preparing /\ Cells
    BY <1>1, ScanPreparing, Collecting DEF GcInv, TypeOK
  <2> QED BY <2>1, <1>1, VesAssumption DEF TypeOK, Containers, InFlight
<1>3. /\ ProgramIndex(<<sec, con>>, "unused", 0)
      /\ phase' = phase /\ step' = "prepare" /\ sec' = sec /\ con' = con + 1
      /\ UNCHANGED <<cat, dirty, room, count, job, call>>
      /\ UNCHANGED <<cat, dirty, free, current, next, count, job, call>> /\ erased' = erased
  BY <1>1 DEF Prepare, at, room
<1>4. /\ flash' \in Flash
      /\ \A s \in Sectors, c \in Containers :
            s # sec \/ c # con => flash'[s][c] = flash[s][c]
      /\ flash'[sec][con].kind = "unused" /\ flash'[sec][con].ix = 0
      /\ flash'[sec][con].data = flash[sec][con].data
  <2>1. flash \in Flash /\ <<sec, con>> \in Places /\ "unused" \in IndexKinds /\ 0 \in 0 .. CatMax
    BY <1>2, VesAssumption DEF TypeOK, Flash, Places, IndexKinds
  <2> QED BY <2>1, <1>2, <1>3, IndexProgrammed
<1>5. \A c \in Containers : /\ KindAt(sec, c) \in {"unused", "uninitialized"}
                            /\ flash[sec][c].ix = 0 /\ flash[sec][c].data = Bits
  BY <1>1, <1>2 DEF Preparing, BlankSector, Cells, BlankAt
<1>6. Cleaned
  BY <1>2, <1>4, <1>5 DEF Cleaned, KindAt
<1>7. Preparing'
  <2>1. \A c \in Containers : BlankAt(sec, c)' /\ ~ LiveAt(sec, c)'
    BY <1>3, <1>6 DEF Cleaned, BlankAt, LiveAt, KindAt
  <2>2. \A c \in Containers : c < con + 1 => c < con \/ c = con
    BY <1>2 DEF Containers
  <2>3. \A c \in Containers : c < con + 1 => flash'[sec][c].kind = "unused"
    BY <2>2, <1>1, <1>2, <1>4 DEF Preparing, KindAt
  <2> QED BY <2>1, <2>3, <1>3 DEF Preparing, NothingIn, BlankSector, KindAt
<1>8. con' \in 0 .. PerSector /\ erased' \in Sectors
  BY <1>1, <1>2, <1>3, VesAssumption DEF Containers
<1>9. CASE phase = "scan"
  BY <1>1, <1>3, <1>6, <1>7, <1>8, <1>9, ScanCleans
<1>10. CASE phase = "gc"
  BY <1>1, <1>3, <1>6, <1>7, <1>8, <1>10, GcCleans
<1> QED BY <1>1, <1>9, <1>10

(* When the tables of the scan are complete: which sector is which. *)
LEMMA AllSectorsSeen ==
  ASSUME IInv, phase = "scan", step = "look", sec = SectorCount
  PROVE  /\ TypeOK /\ Cells /\ OneEach /\ CatSeen /\ request = <<>> /\ erased = 0 /\ con = 0
         /\ free \subseteq Sectors /\ current \in Sectors /\ next \in 0 .. PerSector
         /\ \A s \in free : UnusedSector(s)
         /\ \A s \in Sectors : dirty[s] = Cardinality(ClearedIn(s))
         /\ \A s \in Sectors : \/ s \in free
                               \/ next # PerSector /\ s = current
                               \/ UsedSector(s)
         /\ next # PerSector => /\ 0 < next /\ current \notin free
                                /\ \A c \in Containers :
                                      IF c < next THEN ~ BlankAt(current, c)
                                                  ELSE KindAt(current, c) = "unused"
         /\ free = {} => /\ next # PerSector /\ Rescues(current, next)
                         /\ \E w \in Sectors : /\ w # 0 /\ w # current
                                               /\ next + Cardinality(KeptIn(w)) < PerSector
<1>1. /\ TypeOK /\ Cells /\ OneEach /\ CatSeen /\ request = <<>> /\ erased = 0 /\ con = 0
      /\ DirtySeen /\ FreeSeen /\ CurrentSeen /\ SpareLeft /\ Shapes
      /\ free \subseteq Sectors /\ current \in Sectors /\ next \in 0 .. PerSector
  BY DEF IInv, ScanInv, TypeOK
<1>2. \A s \in Sectors : s < sec /\ ~ (s >= sec)
  BY VesAssumption DEF Sectors
<1>3. 0 \in Containers /\ PerSector - 1 \in Containers /\ \A c \in Containers : c < PerSector
  BY VesAssumption DEF Containers
<1>4. \A s \in free : UnusedSector(s)
  BY <1>1 DEF FreeSeen
<1>5. \A s \in Sectors : dirty[s] = Cardinality(ClearedIn(s))
  BY <1>1, <1>2 DEF DirtySeen
<1>6. ASSUME next # PerSector
      PROVE  /\ 0 < next /\ current \notin free /\ PartialSector(current)
             /\ \A c \in Containers : IF c < next THEN ~ BlankAt(current, c)
                                                  ELSE KindAt(current, c) = "unused"
  <2>1. /\ 0 < next
        /\ \A c \in Containers : IF c < next THEN ~ BlankAt(current, c)
                                             ELSE KindAt(current, c) = "unused"
    BY <1>1, <1>6 DEF CurrentSeen
  <2>2. ~ (PerSector - 1 < next)
    BY <1>1, <1>6, VesAssumption
  <2>3. ~ BlankAt(current, 0) /\ KindAt(current, PerSector - 1) = "unused"
    BY <2>1, <2>2, <1>3
  <2>4. current \notin free
    BY <2>3, <1>3, <1>4 DEF UnusedSector, BlankAt
  <2> QED BY <2>1, <2>3, <2>4 DEF PartialSector
<1>7. ASSUME NEW s \in Sectors, s \notin free
      PROVE  (next # PerSector /\ s = current) \/ UsedSector(s)
  <2>1. ~ BlankAt(s, 0)
    BY <1>1, <1>2, <1>7 DEF FreeSeen
  <2>2. LogSector(s)
    BY <2>1, <1>1, <1>3 DEF Shapes, BlankSector
  <2>3. CASE KindAt(s, PerSector - 1) = "unused"
    <3>1. PartialSector(s)
      BY <2>1, <2>3 DEF PartialSector
    <3>2. next # PerSector
      BY <3>1, <1>1, <1>2 DEF CurrentSeen
    <3>3. s = current
      BY <3>1, <3>2, <1>1, <1>6 DEF Shapes
    <3> QED BY <3>2, <3>3
  <2>4. CASE KindAt(s, PerSector - 1) # "unused"
    <3>1. \A c \in Containers : c = PerSector - 1 \/ PerSector - 1 > c
      BY VesAssumption DEF Containers
    <3>2. \A c \in Containers : KindAt(s, c) # "unused"
      BY <3>1, <2>2, <2>4, <1>3 DEF LogSector
    <3> QED BY <3>2, <2>2 DEF UsedSector, BlankAt, LogSector
  <2> QED BY <2>3, <2>4
<1>8. ASSUME free = {}
      PROVE  /\ next # PerSector /\ Rescues(current, next)
             /\ \E w \in Sectors : /\ w # 0 /\ w # current
                                   /\ next + Cardinality(KeptIn(w)) < PerSector
  <2>1. CanResume
    BY <1>1, <1>2, <1>8 DEF SpareLeft
  <2>2. PICK s \in Sectors, w \in Sectors, k \in 0 .. PerSector :
           /\ w # 0 /\ w # s /\ Rescues(s, k)
           /\ k + Cardinality(KeptIn(w)) < PerSector
    BY <2>1 DEF CanResume
  <2>3. ~ UsedSector(s)
    <3>1. Cardinality(KeptIn(w)) \in Nat
      <4>1. KeptIn(w) \in SUBSET Containers
        BY DEF KeptIn
      <4> QED BY <4>1, ContainersFinite
    <3>2. ~ (PerSector - 1 < k)
      BY <2>2, <3>1, VesAssumption
    <3>3. KindAt(s, PerSector - 1) = "unused"
      BY <2>2, <3>2, <1>3 DEF Rescues
    <3> QED BY <3>3, <1>3 DEF UsedSector, BlankAt
  <2>4. s = current /\ next # PerSector
    BY <2>3, <1>7, <1>8
  <2>5. \A c \in Containers : IF c < next THEN ~ BlankAt(current, c)
                                          ELSE KindAt(current, c) = "unused"
    BY <2>4, <1>6
  <2>6. ~ (k < next)
    <3>1. SUFFICES ASSUME k < next PROVE FALSE
      OBVIOUS
    <3>2. k \in Containers /\ ~ (k < k)
      BY <3>1, <1>1, VesAssumption DEF Containers
    <3>3. KindAt(s, k) = "unused"
      BY <3>2, <2>2 DEF Rescues
    <3> QED BY <3>1, <3>2, <3>3, <2>4, <2>5 DEF BlankAt
  <2>7. ~ (next < k)
    <3>1. SUFFICES ASSUME next < k PROVE FALSE
      OBVIOUS
    <3>2. next \in Containers /\ ~ (next < next)
      BY <3>1, <1>1, VesAssumption DEF Containers
    <3>3. KindAt(s, next) = "current"
      BY <3>1, <3>2, <2>2 DEF Rescues
    <3> QED BY <3>2, <3>3, <2>4, <2>5
  <2>8. k = next
    BY <2>6, <2>7, <1>1, VesAssumption
  <2> QED BY <2>2, <2>4, <2>8
<1> QED BY <1>1, <1>4, <1>5, <1>6, <1>7, <1>8

(* The scan is over: the tables are exact, and the collector has a sector to *)
(* fill.                                                                    *)
LEMMA ScanDoneKeeps == ASSUME IInv, ScanDone PROVE IInv'
<1>1. phase = "scan" /\ step = "look" /\ sec = SectorCount
  BY DEF ScanDone
<1>2. /\ flash' = flash /\ cat' = cat /\ dirty' = dirty /\ erased' = erased
      /\ phase' = "gc" /\ step' = "choose" /\ sec' = 0 /\ con' = con /\ count' = count
      /\ index' = index /\ from' = from /\ to' = to /\ request' = request /\ nth' = nth
      /\ IF Full /\ free # {} THEN TakeFreeSector(free)
                              ELSE free' = free /\ current' = current /\ next' = next
  BY DEF ScanDone, flashRam, job, call
<1>3. /\ TypeOK /\ Cells /\ OneEach /\ CatSeen /\ request = <<>> /\ erased = 0 /\ con = 0
      /\ free \subseteq Sectors /\ current \in Sectors /\ next \in 0 .. PerSector
      /\ \A s \in free : UnusedSector(s)
      /\ \A s \in Sectors : dirty[s] = Cardinality(ClearedIn(s))
      /\ \A s \in Sectors : \/ s \in free
                            \/ next # PerSector /\ s = current
                            \/ UsedSector(s)
      /\ next # PerSector => /\ 0 < next /\ current \notin free
                             /\ \A c \in Containers :
                                   IF c < next THEN ~ BlankAt(current, c)
                                               ELSE KindAt(current, c) = "unused"
      /\ free = {} => /\ next # PerSector /\ Rescues(current, next)
                      /\ \E w \in Sectors : /\ w # 0 /\ w # current
                                            /\ next + Cardinality(KeptIn(w)) < PerSector
  BY <1>1, AllSectorsSeen
<1>4. Full <=> next = PerSector
  BY <1>3, VesAssumption DEF Full
<1>5. /\ free' \subseteq Sectors /\ current' \in Sectors /\ next' \in 0 .. PerSector
      /\ current' \notin free' /\ next' < PerSector /\ free' \subseteq free
      /\ \A s \in Sectors : s \in free' \/ s = current' \/ UsedSector(s)
      /\ \A c \in Containers : IF c < next' THEN ~ BlankAt(current', c)
                                            ELSE KindAt(current', c) = "unused"
      /\ free' = {} => \/ next' = 0
                       \/ free = {} /\ current' = current /\ next' = next
  <2>1. CASE Full /\ free # {}
    <3>1. free \in SUBSET Nat
      BY <1>3 DEF Sectors
    <3>2. Lowest(free) \in free
      BY <2>1, <3>1, LowestIsLeast
    <3>3. free' = free \ {Lowest(free)} /\ current' = Lowest(free) /\ next' = 0
      BY <2>1, <1>2 DEF TakeFreeSector
    <3>4. \A c \in Containers : ~ (c < 0)
      BY DEF Containers
    <3> HIDE DEF Lowest
    <3>5. \A c \in Containers : KindAt(current', c) = "unused"
      BY <3>2, <3>3, <1>3 DEF UnusedSector
    <3>6. 0 \in 0 .. PerSector /\ 0 < PerSector
      BY VesAssumption
    <3>7. next # PerSector => FALSE
      BY <2>1, <1>4
    <3> QED BY <3>2, <3>3, <3>4, <3>5, <3>6, <3>7, <1>3
  <2>2. CASE ~ (Full /\ free # {})
    <3>1. free' = free /\ current' = current /\ next' = next /\ next # PerSector
      BY <2>2, <1>2, <1>3, <1>4
    <3>2. next < PerSector
      BY <3>1, <1>3, VesAssumption
    <3> QED BY <3>1, <3>2, <1>3
  <2> QED BY <2>1, <2>2
<1>6. SameKinds
  BY <1>2 DEF SameKinds
<1>7. /\ OneEach'
      /\ \A s \in Sectors, c \in Containers : /\ KindAt(s, c)' = KindAt(s, c)
                                              /\ LiveAt(s, c)' = LiveAt(s, c)
                                              /\ BlankAt(s, c)' = BlankAt(s, c)
      /\ \A s \in Sectors : /\ ClearedIn(s)' = ClearedIn(s)
                            /\ UnusedSector(s)' = UnusedSector(s)
                            /\ UsedSector(s)' = UsedSector(s)
                            /\ KeptIn(s)' = KeptIn(s)
                            /\ \A k \in 0 .. PerSector : Rescues(s, k)' = Rescues(s, k)
  BY <1>3, <1>6, KindsDecide
<1>8. Cells'
  BY <1>1, <1>2, <1>3 DEF Cells, LiveAt, BlankAt, KindAt, InFlight
<1>9. TypeOK'
  <2>1. request' = <<>> /\ 0 \in 0 .. SectorCount /\ flash' \in [Sectors -> [Containers -> Container]]
    BY <1>2, <1>3, VesAssumption DEF TypeOK
  <2> QED BY <2>1, <1>2, <1>3, <1>5 DEF TypeOK
<1>10. CatExact'
  <2>1. \A s \in Sectors, c \in Containers : Seen(s, c)
    BY <1>1, VesAssumption DEF Seen, Sectors
  <2>2. \A ix \in Ixs : cat[ix] # NoEntry => cat[ix][1] \in Sectors /\ cat[ix][2] \in Containers
    BY <1>3 DEF TypeOK, Places
  <2> QED BY <2>1, <2>2, <1>2, <1>3 DEF CatExact, CatSeen, LiveAt, KindAt
<1>11. DirtyExact'
  BY <1>2, <1>3, <1>7 DEF DirtyExact
<1>12. FreeExact' /\ CurrentExact'
  <2>1. PICK a \in Sectors : a = current'
    BY <1>5
  <2>2. FreeExact'
    BY <1>3, <1>5, <1>7 DEF FreeExact
  <2>3. \A c \in Containers : IF c < next' THEN ~ BlankAt(a, c)'
                                           ELSE KindAt(a, c)' = "unused"
    BY <2>1, <1>5, <1>7
  <2>4. CurrentExact'
    BY <2>1, <2>3, <1>2 DEF CurrentExact, InFlight, BlankAt, KindAt
  <2> QED BY <2>2, <2>4
<1>13. CollectorStarts'
  <2>1. SUFFICES ASSUME free' = {}, next' # 0 PROVE CollectorStarts'
    BY DEF CollectorStarts
  <2>2. free = {} /\ current' = current /\ next' = next
    BY <2>1, <1>5
  <2>3. PICK w \in Sectors : w # 0 /\ w # current /\ next + Cardinality(KeptIn(w)) < PerSector
    BY <2>2, <1>3
  <2>4. w # 0 /\ w # current' /\ next' + Cardinality(KeptIn(w)') < PerSector
    BY <2>2, <2>3, <1>7
  <2>5. Rescues(current, next)'
    <3>1. PICK a \in Sectors, k \in 0 .. PerSector : a = current /\ k = next
      BY <1>3
    <3>2. Rescues(a, k)'
      BY <3>1, <2>2, <1>3, <1>7
    <3> QED BY <3>1, <3>2, <2>2 DEF Rescues, KindAt
  <2> QED BY <2>2, <2>4, <2>5, <1>2, <1>3 DEF CollectorStarts
<1>14. GcInv'
  BY <1>2, <1>3, <1>5, <1>13 DEF GcInv
<1> QED BY <1>2, <1>7, <1>8, <1>9, <1>10, <1>11, <1>12, <1>13, <1>14, GcGoesOn

(* The numbers of containers that are counted. *)
LEMMA PartsFinite ==
  \A s \in Sectors : /\ KeptIn(s) \in SUBSET Containers /\ Cardinality(KeptIn(s)) \in 0 .. PerSector
                     /\ ClearedIn(s) \in SUBSET Containers
                     /\ Cardinality(ClearedIn(s)) \in 0 .. PerSector
<1>1. ASSUME NEW s \in Sectors
      PROVE  KeptIn(s) \in SUBSET Containers /\ ClearedIn(s) \in SUBSET Containers
  BY DEF KeptIn, ClearedIn
<1> QED BY <1>1, ContainersFinite

(* The tables stay exact when neither they nor the flash change. *)
LEMMA TablesStay ==
  ASSUME TypeOK, Cells, OneEach, CatExact, DirtyExact, FreeExact, CurrentExact,
         flash' = flash, cat' = cat, dirty' = dirty,
         free' = free, current' = current, next' = next,
         step \notin {"retire", "store", "clear", "prepare"},
         step' \notin {"retire", "store", "clear", "prepare"}
  PROVE  /\ Cells' /\ OneEach' /\ CatExact' /\ DirtyExact' /\ FreeExact' /\ CurrentExact'
         /\ SameKinds
<1>1. SameKinds
  BY DEF SameKinds
<1>2. OneEach' /\ \A s \in Sectors : ClearedIn(s)' = ClearedIn(s)
  BY <1>1, KindsDecide
<1>3. Cells'
  BY DEF Cells, LiveAt, BlankAt, KindAt, InFlight
<1>4. CatExact'
  BY DEF CatExact, LiveAt, KindAt
<1>5. DirtyExact'
  BY <1>2 DEF DirtyExact, Unprepared
<1>6. FreeExact' /\ CurrentExact'
  BY DEF FreeExact, CurrentExact, Unprepared, UnusedSector, UsedSector, BlankAt, KindAt, InFlight
<1> QED BY <1>1, <1>2, <1>3, <1>4, <1>5, <1>6

(* The collector has erased a sector, and enters it in the free map. *)
LEMMA GcPreparedKeeps == ASSUME IInv, GcPrepared PROVE IInv'
<1>1. phase = "gc" /\ step = "prepare" /\ con = PerSector
  BY DEF GcPrepared
<1>2. /\ TypeOK /\ Cells /\ OneEach /\ CatExact /\ DirtyExact /\ FreeExact /\ CurrentExact
      /\ sec \in Sectors /\ sec # current /\ free = {} /\ Preparing /\ next < PerSector
      /\ current \in Sectors /\ next \in 0 .. PerSector
      /\ request # <<>> => nth \in DOMAIN request
  BY <1>1, Collecting DEF GcInv
<1>3. ~ Full
  BY <1>2, VesAssumption DEF Full
<1>4. /\ flash' = flash /\ cat' = cat /\ dirty' = [dirty EXCEPT ![sec] = 0]
      /\ free' = {sec} /\ current' = current /\ next' = next /\ erased' = erased
      /\ phase' = "gc" /\ step' = "choose" /\ sec' = 0 /\ con' = 0 /\ count' = count
      /\ index' = index /\ from' = from /\ to' = to /\ request' = request /\ nth' = nth
  BY <1>1, <1>2, <1>3 DEF GcPrepared, job, call
<1>5. SameKinds
  BY <1>4 DEF SameKinds
<1>6. /\ OneEach'
      /\ \A s \in Sectors : /\ ClearedIn(s)' = ClearedIn(s)
                            /\ UnusedSector(s)' = UnusedSector(s)
                            /\ UsedSector(s)' = UsedSector(s)
  BY <1>2, <1>5, KindsDecide
<1>7. UnusedSector(sec) /\ Cardinality(ClearedIn(sec)) = 0
  <2>1. \A c \in Containers : c < con
    BY <1>1, VesAssumption DEF Containers
  <2>2. UnusedSector(sec)
    BY <2>1, <1>1, <1>2 DEF Preparing, UnusedSector
  <2>3. ClearedIn(sec) = {}
    BY <2>2 DEF ClearedIn, UnusedSector
  <2> QED BY <2>2, <2>3, FS_EmptySet
<1>8. TypeOK'
  <2>1. request' = <<>> \/ request' \in Memory!Writes'
    BY <1>2, <1>4 DEF TypeOK, Memory!Writes, Memory!Ixs
  <2>2. /\ flash' \in [Sectors -> [Containers -> Container]]
        /\ dirty' \in [Sectors -> 0 .. PerSector] /\ sec' \in 0 .. SectorCount
        /\ con' \in 0 .. PerSector /\ free' \subseteq Sectors
    BY <1>2, <1>4, VesAssumption DEF TypeOK
  <2> QED BY <2>1, <2>2, <1>2, <1>4 DEF TypeOK
<1>9. Cells'
  BY <1>1, <1>2, <1>4 DEF Cells, LiveAt, BlankAt, KindAt, InFlight
<1>10. CatExact'
  BY <1>1, <1>2, <1>4 DEF CatExact, LiveAt, KindAt
<1>11. DirtyExact'
  <2>1. dirty'[sec] = 0 /\ \A s \in Sectors : s # sec => dirty'[s] = dirty[s]
    BY <1>2, <1>4 DEF TypeOK
  <2>2. \A s \in Sectors : dirty'[s] = Cardinality(ClearedIn(s))
    BY <2>1, <1>2, <1>7 DEF DirtyExact, Unprepared
  <2> QED BY <2>2, <1>6 DEF DirtyExact
<1>12. FreeExact'
  BY <1>2, <1>4, <1>6, <1>7 DEF FreeExact, Unprepared
<1>13. CurrentExact'
  BY <1>1, <1>2, <1>4 DEF CurrentExact, InFlight, BlankAt, KindAt
<1>14. GcInv'
  BY <1>2, <1>4 DEF GcInv, CollectorStarts
<1> QED BY <1>4, <1>6, <1>8, <1>9, <1>10, <1>11, <1>12, <1>13, <1>14, GcGoesOn

(* The victim leaves room for what it holds, or holds nothing. *)
LEMMA ChooseVictimKeeps == ASSUME Configured, IInv, ChooseVictim PROVE IInv'
<1>1. phase = "gc" /\ step = "choose" /\ free = {}
  BY DEF ChooseVictim
<1>2. /\ TypeOK /\ Cells /\ OneEach /\ CatExact /\ DirtyExact /\ FreeExact /\ CurrentExact
      /\ current \in Sectors /\ next \in 0 .. PerSector /\ next < PerSector /\ CollectorStarts
      /\ con = 0
      /\ request # <<>> => nth \in DOMAIN request
  BY <1>1, Collecting DEF GcInv
<1>3. /\ Victim \in Sectors /\ Victim # current /\ UsedSector(Victim)
      /\ Rescues(current, next)
      /\ next + Cardinality(KeptIn(Victim)) < PerSector
      /\ \E w \in Sectors :
            /\ w # 0 /\ w # current
            /\ w # Victim => next + Cardinality(KeptIn(Victim))
                                  + Cardinality(KeptIn(w)) < PerSector
  BY <1>1, <1>2, VictimHasRoom
<1>4. PICK v \in Sectors : v = Victim
  BY <1>3
<1> HIDE DEF Victim
<1>5. /\ flash' = flash /\ cat' = cat /\ dirty' = dirty /\ free' = free /\ current' = current
      /\ next' = next /\ erased' = erased /\ phase' = "gc" /\ sec' = v /\ con' = con
      /\ step' = IF dirty[v] < PerSector THEN "look" ELSE "wipe"
      /\ count' = count /\ index' = index /\ from' = from /\ to' = to
      /\ request' = request /\ nth' = nth
  BY <1>1, <1>4 DEF ChooseVictim, flashRam, room, job, call
<1>6. /\ Cells' /\ OneEach' /\ CatExact' /\ DirtyExact' /\ FreeExact' /\ CurrentExact'
      /\ SameKinds
  <2>1. step \notin {"retire", "store", "clear", "prepare"}
    BY <1>1
  <2>2. step' \notin {"retire", "store", "clear", "prepare"}
    BY <1>5
  <2> QED BY <2>1, <2>2, <1>2, <1>5, TablesStay
<1>7. /\ \A s \in Sectors : /\ UsedSector(s)' = UsedSector(s)
                            /\ KeptIn(s)' = KeptIn(s)
                            /\ NothingIn(s)' = NothingIn(s)
                            /\ \A k \in 0 .. PerSector : Rescues(s, k)' = Rescues(s, k)
  BY <1>6, KindsDecide
<1>8. TypeOK'
  <2>1. request' = <<>> \/ request' \in Memory!Writes'
    BY <1>2, <1>5 DEF TypeOK, Memory!Writes, Memory!Ixs
  <2>2. flash' \in [Sectors -> [Containers -> Container]] /\ sec' \in 0 .. SectorCount
    BY <1>2, <1>5, VesAssumption DEF TypeOK, Sectors
  <2> QED BY <2>1, <2>2, <1>2, <1>5 DEF TypeOK
<1>9. UsedSector(sec)'
  BY <1>3, <1>4, <1>5, <1>7 DEF UsedSector, BlankAt, KindAt
<1>10. ASSUME step' = "look" PROVE RescueRoom'
  <2>1. Stored' = next
    BY <1>5, <1>10 DEF Stored, InFlight
  <2>2. PICK w \in Sectors :
            /\ w # 0 /\ w # current
            /\ w # v => next + Cardinality(KeptIn(v)) + Cardinality(KeptIn(w)) < PerSector
    BY <1>3, <1>4
  <2>3. KeptIn(w)' = KeptIn(w) /\ KeptIn(v)' = KeptIn(v)
    BY <1>7
  <2>4. PICK a \in Sectors, k \in 0 .. PerSector : a = current /\ k = next
    BY <1>2
  <2>5. Rescues(a, k)'
    BY <2>4, <1>3, <1>7
  <2>6. Rescues(current, Stored)'
    BY <2>1, <2>4, <2>5, <1>5 DEF Rescues, KindAt
  <2>7. KeptIn(sec)' = KeptIn(v)
    BY <2>3, <1>5 DEF KeptIn, KeptAt, KindAt
  <2> QED BY <2>1, <2>2, <2>3, <2>6, <2>7, <1>3, <1>4, <1>5 DEF RescueRoom
<1>11. ASSUME step' = "wipe" PROVE Preparing'
  <2>1. Cardinality(ClearedIn(v)) = dirty[v] /\ ~ (dirty[v] < PerSector)
    BY <1>1, <1>2, <1>5, <1>11 DEF DirtyExact, Unprepared
  <2>2. ClearedIn(v) = Containers
    BY <2>1, PartsFinite, ContainersFinite
  <2>3. NothingIn(v)
    BY <2>2 DEF NothingIn, LiveAt, ClearedIn
  <2> QED BY <2>3, <1>5, <1>11 DEF Preparing, NothingIn, LiveAt, KindAt
<1>12. /\ step' \in {"look", "wipe"} /\ \A c \in Containers : ~ (c < con')
       /\ sec' \in Sectors /\ sec' # current' /\ free' = {} /\ next' < PerSector
       /\ request' # <<>> => nth' \in DOMAIN request'
  <2>1. \A c \in Containers : ~ (c < 0)
    BY DEF Containers
  <2>2. sec' \in Sectors /\ sec' # current' /\ free' = {} /\ next' < PerSector
    BY <1>1, <1>2, <1>3, <1>4, <1>5
  <2>3. request' # <<>> => nth' \in DOMAIN request'
    BY <1>2, <1>5
  <2>4. step' \in {"look", "wipe"} /\ con' = 0
    BY <1>2, <1>5
  <2> QED BY <2>1, <2>2, <2>3, <2>4
<1>13. GcInv'
  BY <1>5, <1>9, <1>10, <1>11, <1>12 DEF GcInv
<1> QED BY <1>5, <1>6, <1>8, <1>13, GcGoesOn

(* The operation that needed the collection goes on. *)
LEMMA CollectedKeeps == ASSUME IInv, Collected PROVE IInv'
<1>1. phase = "gc" /\ step = "choose" /\ free # {}
  BY DEF Collected
<1>2. /\ TypeOK /\ Cells /\ OneEach /\ CatExact /\ DirtyExact /\ FreeExact /\ CurrentExact
      /\ next < PerSector /\ con = 0
      /\ request # <<>> => nth \in DOMAIN request
  BY <1>1, Collecting DEF GcInv
<1>3. /\ flash' = flash /\ cat' = cat /\ dirty' = dirty /\ free' = free /\ current' = current
      /\ next' = next /\ erased' = erased /\ sec' = sec /\ con' = con
      /\ count' = count /\ index' = index /\ from' = from /\ to' = to
      /\ request' = request /\ nth' = nth
      /\ IF request = <<>> THEN phase' = "ready" /\ step' = "rest"
                           ELSE phase' = "write" /\ step' = "take"
  BY DEF Collected, flashRam, room, scan, job, call
<1>4. /\ Cells' /\ OneEach' /\ CatExact' /\ DirtyExact' /\ FreeExact' /\ CurrentExact'
  <2>1. step \notin {"retire", "store", "clear", "prepare"}
    BY <1>1
  <2>2. step' \notin {"retire", "store", "clear", "prepare"}
    BY <1>3
  <2> QED BY <2>1, <2>2, <1>2, <1>3, TablesStay
<1>5. TypeOK'
  <2>1. request' = <<>> \/ request' \in Memory!Writes'
    BY <1>2, <1>3 DEF TypeOK, Memory!Writes, Memory!Ixs
  <2>2. flash' \in [Sectors -> [Containers -> Container]]
    BY <1>2, <1>3 DEF TypeOK
  <2> QED BY <2>1, <2>2, <1>2, <1>3 DEF TypeOK
<1>6. CASE request = <<>>
  <2>1. phase' = "ready" /\ ReadyInv'
    BY <1>1, <1>2, <1>3, <1>6 DEF ReadyInv
  <2> QED BY <2>1, <1>4, <1>5 DEF IInv, OffInv, ScanInv, Tables, GcInv, WriteInv
<1>7. CASE request # <<>>
  <2>1. phase' = "write" /\ step' = "take" /\ nth' \in DOMAIN request' /\ request' # <<>>
        /\ free' # {} /\ con' = 0 /\ next' < PerSector
    BY <1>1, <1>2, <1>3, <1>7
  <2>2. WriteInv'
    BY <2>1 DEF WriteInv
  <2> QED BY <2>1, <2>2, <1>4, <1>5, WriteGoesOn
<1> QED BY <1>6, <1>7

(* While the collector moves containers there is room. *)
LEMMA RescuingRoom ==
  ASSUME IInv, phase = "gc", step = "look"
  PROVE  /\ RescueRoom /\ Stored = next /\ next < PerSector /\ next \in 0 .. PerSector /\ ~ Full
         /\ UsedSector(sec) /\ sec \in Sectors /\ sec # current /\ free = {}
         /\ \A c \in Containers : c < con => ~ LiveAt(sec, c)
         /\ con < PerSector => con \in Containers
<1>1. /\ RescueRoom /\ UsedSector(sec) /\ sec \in Sectors /\ sec # current /\ free = {}
      /\ \A c \in Containers : c < con => ~ LiveAt(sec, c)
      /\ next \in 0 .. PerSector /\ con \in 0 .. PerSector
  BY Collecting DEF GcInv
<1>2. Stored = next
  BY DEF Stored, InFlight
<1>3. Cardinality(KeptIn(sec)) \in 0 .. PerSector
  BY <1>1, PartsFinite
<1>4. next < PerSector
  BY <1>1, <1>2, <1>3, VesAssumption DEF RescueRoom
<1>5. ~ Full
  BY <1>1, <1>4, VesAssumption DEF Full
<1>6. con < PerSector => con \in Containers
  BY <1>1, VesAssumption DEF Containers
<1> QED BY <1>1, <1>2, <1>4, <1>5, <1>6

(* A container that is not live is passed over. *)
LEMMA RescueNothingKeeps == ASSUME IInv, RescueNothing PROVE IInv'
<1>1. phase = "gc" /\ step = "look" /\ con < PerSector
  BY DEF RescueNothing, Rescuing
<1>2. /\ TypeOK /\ Cells /\ OneEach /\ CatExact /\ DirtyExact /\ FreeExact /\ CurrentExact
      /\ request # <<>> => nth \in DOMAIN request
      /\ con \in 0 .. PerSector
  BY <1>1, Collecting
<1>3. /\ RescueRoom /\ ~ Full /\ UsedSector(sec) /\ sec \in Sectors /\ sec # current /\ free = {}
      /\ \A c \in Containers : c < con => ~ LiveAt(sec, c)
      /\ con \in Containers
  BY <1>1, RescuingRoom
<1>4. ~ LiveAt(sec, con)
  BY <1>3 DEF RescueNothing, Live, LiveAt, KindAt, Cell
<1>5. /\ flash' = flash /\ cat' = cat /\ dirty' = dirty /\ free' = free /\ current' = current
      /\ next' = next /\ erased' = erased /\ sec' = sec /\ con' = con + 1
      /\ count' = count /\ index' = index /\ from' = from /\ to' = to
      /\ request' = request /\ nth' = nth /\ phase' = "gc" /\ step' = "look"
  BY <1>1 DEF RescueNothing, flashRam, room, at, job, call
<1>6. /\ Cells' /\ OneEach' /\ CatExact' /\ DirtyExact' /\ FreeExact' /\ CurrentExact'
  <2>1. step \notin {"retire", "store", "clear", "prepare"}
    BY <1>1
  <2>2. step' \notin {"retire", "store", "clear", "prepare"}
    BY <1>5
  <2> QED BY <2>1, <2>2, <1>2, <1>5, TablesStay
<1>7. TypeOK'
  <2>1. request' = <<>> \/ request' \in Memory!Writes'
    BY <1>2, <1>5 DEF TypeOK, Memory!Writes, Memory!Ixs
  <2>2. flash' \in [Sectors -> [Containers -> Container]] /\ con' \in 0 .. PerSector
    BY <1>1, <1>2, <1>5, VesAssumption DEF TypeOK
  <2> QED BY <2>1, <2>2, <1>2, <1>5 DEF TypeOK
<1>8. \A c \in Containers : c < con + 1 => ~ LiveAt(sec, c)
  <2>1. \A c \in Containers : c < con + 1 => c < con \/ c = con
    BY <1>2 DEF Containers
  <2> QED BY <2>1, <1>3, <1>4
<1>9. RescueRoom'
  <2>1. SameKinds
    BY <1>5 DEF SameKinds
  <2>2. \A s \in Sectors : KeptIn(s)' = KeptIn(s)
    BY <2>1, KindsDecide
  <2>3. KeptIn(sec)' = KeptIn(sec)
    BY <1>5 DEF KeptIn, KeptAt, KindAt
  <2>4. Stored' = Stored
    BY <1>1, <1>5 DEF Stored, InFlight
  <2>5. Rescues(current, Stored)'
    BY <2>4, <1>3, <1>5 DEF RescueRoom, Rescues, KindAt
  <2>6. PICK w \in Sectors :
           /\ w # 0 /\ w # current
           /\ w # sec => Stored + Cardinality(KeptIn(sec)) + Cardinality(KeptIn(w)) < PerSector
    BY <1>3 DEF RescueRoom
  <2> QED BY <2>2, <2>3, <2>4, <2>5, <2>6, <1>3, <1>5 DEF RescueRoom
<1>10. UsedSector(sec)' /\ \A c \in Containers : c < con' => ~ LiveAt(sec, c)'
  BY <1>3, <1>5, <1>8 DEF UsedSector, LiveAt, BlankAt, KindAt
<1>11. GcInv'
  BY <1>2, <1>3, <1>5, <1>9, <1>10 DEF GcInv
<1> QED BY <1>5, <1>6, <1>7, <1>11, GcGoesOn

(* Nothing live is left in the victim. *)
LEMMA RescuedKeeps == ASSUME IInv, Rescued PROVE IInv'
<1>1. phase = "gc" /\ step = "look" /\ con = PerSector
  BY DEF Rescued
<1>2. /\ TypeOK /\ Cells /\ OneEach /\ CatExact /\ DirtyExact /\ FreeExact /\ CurrentExact
      /\ request # <<>> => nth \in DOMAIN request
  BY <1>1, Collecting
<1>3. /\ next < PerSector /\ UsedSector(sec) /\ sec \in Sectors /\ sec # current /\ free = {}
      /\ \A c \in Containers : c < con => ~ LiveAt(sec, c)
  BY <1>1, RescuingRoom
<1>4. /\ flash' = flash /\ cat' = cat /\ dirty' = dirty /\ free' = free /\ current' = current
      /\ next' = next /\ erased' = erased /\ sec' = sec /\ con' = con
      /\ count' = count /\ index' = index /\ from' = from /\ to' = to
      /\ request' = request /\ nth' = nth /\ phase' = "gc" /\ step' = "wipe"
  BY <1>1 DEF Rescued, flashRam, room, scan, job, call
<1>5. /\ Cells' /\ OneEach' /\ CatExact' /\ DirtyExact' /\ FreeExact' /\ CurrentExact'
  <2>1. step \notin {"retire", "store", "clear", "prepare"}
    BY <1>1
  <2>2. step' \notin {"retire", "store", "clear", "prepare"}
    BY <1>4
  <2> QED BY <2>1, <2>2, <1>2, <1>4, TablesStay
<1>6. TypeOK'
  <2>1. request' = <<>> \/ request' \in Memory!Writes'
    BY <1>2, <1>4 DEF TypeOK, Memory!Writes, Memory!Ixs
  <2>2. flash' \in [Sectors -> [Containers -> Container]]
    BY <1>2, <1>4 DEF TypeOK
  <2> QED BY <2>1, <2>2, <1>2, <1>4 DEF TypeOK
<1>7. Preparing' /\ UsedSector(sec)'
  <2>1. \A c \in Containers : c < con
    BY <1>1, VesAssumption DEF Containers
  <2>2. NothingIn(sec)
    BY <2>1, <1>3 DEF NothingIn
  <2> QED BY <2>2, <1>3, <1>4 DEF Preparing, NothingIn, UsedSector, LiveAt, BlankAt, KindAt
<1>8. GcInv'
  BY <1>2, <1>3, <1>4, <1>7 DEF GcInv
<1> QED BY <1>4, <1>5, <1>6, <1>8, GcGoesOn

(* The data of a container that is used next. *)
LEMMA DataWritten ==
  ASSUME TypeOK, Cells, OneEach, CatExact, DirtyExact, FreeExact, CurrentExact,
         next < PerSector, NEW d \in Payloads, ProgramData(<<current, next>>, d),
         step \notin {"retire", "store", "clear", "prepare"},
         cat' = cat, dirty' = dirty, free' = free, current' = current, next' = next + 1,
         to' = <<current, next>>, step' \in {"retire", "store"}
  PROVE  /\ flash' \in Flash /\ SameKinds
         /\ Cells' /\ OneEach' /\ CatExact' /\ DirtyExact' /\ FreeExact' /\ CurrentExact'
         /\ flash'[current][next].data = d
         /\ \A s \in Sectors, c \in Containers :
               s # current \/ c # next => flash'[s][c] = flash[s][c]
         /\ <<current, next>> \in Places /\ KindAt(current, next) = "unused"
<1>1. /\ current \in Sectors /\ next \in Containers /\ next \in Nat
      /\ <<current, next>> \in Places
  <2>1. current \in Sectors /\ next \in Containers /\ next \in Nat
    BY VesAssumption DEF TypeOK, Containers
  <2> QED BY <2>1 DEF Places
<1>2. /\ flash' \in Flash
      /\ \A s \in Sectors, c \in Containers :
            /\ s # current \/ c # next => flash'[s][c] = flash[s][c]
            /\ flash'[s][c].kind = flash[s][c].kind
            /\ flash'[s][c].ix = flash[s][c].ix
      /\ flash'[current][next].data = flash[current][next].data \cap d
  <2>1. flash \in Flash
    BY DEF TypeOK, Flash
  <2> QED BY <2>1, <1>1, DataProgrammed
<1>3. KindAt(current, next) = "unused"
  <2>1. ~ (next < next)
    BY <1>1
  <2> QED BY <2>1, <1>1 DEF CurrentExact
<1>4. flash'[current][next].data = d
  <2>1. flash[current][next].data = Bits
    BY <1>1, <1>3 DEF Cells, BlankAt, InFlight
  <2> QED BY <2>1, <1>2 DEF Payloads
<1>5. SameKinds
  BY <1>2 DEF SameKinds
<1>6. /\ OneEach'
      /\ \A s \in Sectors, c \in Containers : /\ KindAt(s, c)' = KindAt(s, c)
                                              /\ LiveAt(s, c)' = LiveAt(s, c)
                                              /\ BlankAt(s, c)' = BlankAt(s, c)
      /\ \A s \in Sectors : /\ ClearedIn(s)' = ClearedIn(s)
                            /\ UnusedSector(s)' = UnusedSector(s)
                            /\ UsedSector(s)' = UsedSector(s)
  BY <1>5, KindsDecide
<1>7. Cells'
  <2>1. ASSUME NEW s \in Sectors, NEW c \in Containers
        PROVE  /\ LiveAt(s, c)' => flash'[s][c].ix \in Ixs
               /\ BlankAt(s, c)' => /\ flash'[s][c].ix = 0
                                    /\ flash'[s][c].data = Bits \/ to' = <<s, c>>
    <3>1. LiveAt(s, c)' => flash'[s][c].ix \in Ixs
      BY <1>2, <1>6 DEF Cells
    <3>2. BlankAt(s, c)' => flash'[s][c].ix = 0
      BY <1>2, <1>6 DEF Cells
    <3>3. CASE s = current /\ c = next
      BY <3>1, <3>2, <3>3
    <3>4. CASE s # current \/ c # next
      BY <3>1, <3>2, <3>4, <1>2, <1>6 DEF Cells, InFlight
    <3> QED BY <3>3, <3>4
  <2> QED BY <2>1 DEF Cells, InFlight
<1>8. CatExact'
  <2>1. ASSUME NEW ix \in Ixs, cat[ix] # NoEntry
        PROVE  LiveAt(cat[ix][1], cat[ix][2])' /\ flash'[cat[ix][1]][cat[ix][2]].ix = ix
    <3>1. LiveAt(cat[ix][1], cat[ix][2]) /\ flash[cat[ix][1]][cat[ix][2]].ix = ix
      BY <2>1 DEF CatExact
    <3>2. PICK s \in Sectors, c \in Containers : s = cat[ix][1] /\ c = cat[ix][2]
      BY <2>1 DEF TypeOK, Places
    <3>3. LiveAt(s, c)' /\ flash'[s][c].ix = ix
      BY <3>1, <3>2, <1>2, <1>6
    <3> QED BY <3>2, <3>3 DEF LiveAt, KindAt
  <2>2. ASSUME NEW s \in Sectors, NEW c \in Containers, LiveAt(s, c)'
        PROVE  cat[flash'[s][c].ix] = <<s, c>>
    BY <2>2, <1>2, <1>6 DEF CatExact
  <2> QED BY <2>1, <2>2 DEF CatExact
<1>9. DirtyExact' /\ FreeExact'
  BY <1>6 DEF DirtyExact, FreeExact, Unprepared, TypeOK
<1>10. CurrentExact'
  <2>1. ASSUME NEW c \in Containers
        PROVE  IF c < next + 1 /\ c # next THEN ~ BlankAt(current, c)'
                                           ELSE KindAt(current, c)' = "unused"
    <3>1. c < next + 1 /\ c # next <=> c < next
      BY <1>1 DEF Containers
    <3> QED BY <3>1, <1>1, <1>6 DEF CurrentExact, InFlight
  <2> QED BY <2>1 DEF CurrentExact, InFlight, BlankAt, KindAt
<1> QED BY <1>1, <1>2, <1>3, <1>4, <1>5, <1>6, <1>7, <1>8, <1>9, <1>10

(* The collector copies a live container of the victim. *)
LEMMA RescueKeeps == ASSUME IInv, Rescue PROVE IInv'
<1>1. phase = "gc" /\ step = "look" /\ con < PerSector
  BY DEF Rescue, Rescuing
<1>2. /\ TypeOK /\ Cells /\ OneEach /\ CatExact /\ DirtyExact /\ FreeExact /\ CurrentExact
      /\ request # <<>> => nth \in DOMAIN request
      /\ con \in 0 .. PerSector /\ current \in Sectors
  BY <1>1, Collecting
<1>3. /\ RescueRoom /\ ~ Full /\ UsedSector(sec) /\ sec \in Sectors /\ sec # current /\ free = {}
      /\ next < PerSector /\ next \in 0 .. PerSector /\ Stored = next
      /\ \A c \in Containers : c < con => ~ LiveAt(sec, c)
      /\ con \in Containers
  BY <1>1, RescuingRoom
<1> DEFINE d == flash[sec][con].data
<1>4. /\ LiveAt(sec, con) /\ ProgramData(<<current, next>>, d)
      /\ index' = flash[sec][con].ix /\ from' = <<sec, con>> /\ to' = <<current, next>>
      /\ current' = current /\ next' = next + 1 /\ free' = free /\ step' = "retire"
      /\ cat' = cat /\ dirty' = dirty /\ erased' = erased /\ phase' = "gc"
      /\ sec' = sec /\ con' = con /\ count' = count /\ request' = request /\ nth' = nth
  BY <1>1, <1>3 DEF Rescue, Live, LiveAt, KindAt, Cell, scan, call
<1>5. d \in Payloads
  BY <1>2, <1>3 DEF TypeOK, Container
<1> HIDE DEF d
<1>6. /\ flash' \in Flash /\ SameKinds
      /\ Cells' /\ OneEach' /\ CatExact' /\ DirtyExact' /\ FreeExact' /\ CurrentExact'
      /\ flash'[current][next].data = d
      /\ \A s \in Sectors, c \in Containers :
            s # current \/ c # next => flash'[s][c] = flash[s][c]
      /\ <<current, next>> \in Places
  BY <1>1, <1>2, <1>3, <1>4, <1>5, DataWritten
<1>7. /\ \A s \in Sectors, c \in Containers : LiveAt(s, c)' = LiveAt(s, c)
      /\ \A s \in Sectors : /\ KeptIn(s)' = KeptIn(s)
                            /\ UsedSector(s)' = UsedSector(s)
                            /\ \A k \in 0 .. PerSector : Rescues(s, k)' = Rescues(s, k)
  BY <1>6, KindsDecide
<1>8. /\ flash[sec][con].ix \in Ixs /\ cat[flash[sec][con].ix] = <<sec, con>>
      /\ <<sec, con>> # NoEntry /\ <<sec, con>> \in Places
  <2>1. <<sec, con>> # NoEntry /\ <<sec, con>> \in Places
    BY <1>3 DEF NoEntry, Sectors, Places
  <2> QED BY <2>1, <1>1, <1>2, <1>3, <1>4 DEF Cells, CatExact
<1>9. TypeOK'
  <2>1. request' = <<>> \/ request' \in Memory!Writes'
    BY <1>2, <1>4 DEF TypeOK, Memory!Writes, Memory!Ixs
  <2>2. flash' \in [Sectors -> [Containers -> Container]]
    BY <1>6 DEF Flash
  <2>3. next + 1 \in 0 .. PerSector /\ index' \in 0 .. CatMax
    BY <1>3, <1>4, <1>8, VesAssumption DEF Ixs
  <2> QED BY <2>1, <2>2, <2>3, <1>2, <1>4, <1>6, <1>8 DEF TypeOK
<1>10. /\ next' - 1 = next /\ 0 < next' /\ Stored' = next
  BY <1>3, <1>4 DEF Stored, InFlight
<1>11. RescueRoom'
  <2>1. KeptIn(sec)' = KeptIn(sec)
    BY <1>3, <1>4, <1>7 DEF KeptIn, KeptAt, KindAt
  <2>2. Rescues(current, Stored)'
    <3>1. PICK a \in Sectors, k \in 0 .. PerSector : a = current /\ k = next
      BY <1>2, <1>3
    <3>2. Rescues(a, k)'
      BY <3>1, <1>3, <1>7 DEF RescueRoom
    <3> QED BY <3>1, <3>2, <1>4, <1>10 DEF Rescues, KindAt
  <2>3. PICK w \in Sectors :
           /\ w # 0 /\ w # current
           /\ w # sec => next + Cardinality(KeptIn(sec)) + Cardinality(KeptIn(w)) < PerSector
    BY <1>3 DEF RescueRoom
  <2>4. next + Cardinality(KeptIn(sec)) < PerSector
    BY <1>3 DEF RescueRoom
  <2> QED BY <2>1, <2>2, <2>3, <2>4, <1>4, <1>7, <1>10 DEF RescueRoom
<1>12. Moves'
  BY <1>4, <1>8, <1>10 DEF Moves
<1>13. flash'[current][next].data = flash'[sec][con].data
  BY <1>3, <1>6 DEF d
<1>14. UsedSector(sec)' /\ \A c \in Containers : c < con' => ~ LiveAt(sec, c)'
  BY <1>3, <1>4, <1>7 DEF UsedSector, LiveAt, BlankAt, KindAt
<1>15. GcInv'
  BY <1>1, <1>2, <1>3, <1>4, <1>10, <1>11, <1>12, <1>13, <1>14 DEF GcInv
<1> QED BY <1>4, <1>6, <1>9, <1>15, GcGoesOn

(* The pair that is being written *)
LEMMA RequestTyped ==
  ASSUME TypeOK, nth \in DOMAIN request
  PROVE  Address \in Ixs /\ Payload \in Payloads /\ nth \in 1 .. CatMax /\ nth + 1 \in 1 .. CatMax + 1
<1>1. request # <<>>
  OBVIOUS
<1>2. request \in UNION {[1 .. n -> Ixs \X SUBSET Bits] : n \in 1 .. CatMax}
  BY <1>1 DEF TypeOK, Memory!Writes, Memory!Ixs, Ixs
<1>3. PICK n \in 1 .. CatMax : request \in [1 .. n -> Ixs \X SUBSET Bits]
  BY <1>2
<1>4. nth \in 1 .. n /\ request[nth] \in Ixs \X SUBSET Bits
  BY <1>3
<1>5. Address \in Ixs /\ Payload \in Payloads
  BY <1>4 DEF Address, Payload, Payloads
<1> QED BY <1>4, <1>5, VesAssumption

(* What holds while a write runs. *)
LEMMA Writing ==
  ASSUME IInv, phase = "write"
  PROVE  /\ TypeOK /\ Cells /\ OneEach
         /\ CatExact /\ DirtyExact /\ FreeExact /\ CurrentExact /\ WriteInv
         /\ current \in Sectors /\ next \in 0 .. PerSector /\ con = 0 /\ free # {}
         /\ free \subseteq Sectors /\ request # <<>>
         /\ step \in {"update", "take", "retire", "store", "clear"}
BY DEF IInv, Tables, Running, WriteInv, TypeOK

(* A write programs its payload. *)
LEMMA WriteDataKeeps == ASSUME IInv, WriteData PROVE IInv'
<1>1. step = "take" /\ next < PerSector /\ phase = "write"
  BY DEF IInv, TypeOK, OffInv, ScanInv, GcInv, ReadyInv, WriteData
<1>2. /\ TypeOK /\ Cells /\ OneEach /\ CatExact /\ DirtyExact /\ FreeExact /\ CurrentExact
      /\ current \in Sectors /\ next \in 0 .. PerSector /\ con = 0 /\ free # {}
      /\ request # <<>> /\ nth \in DOMAIN request
  BY <1>1, Writing DEF WriteInv
<1>3. Address \in Ixs /\ Payload \in Payloads
  BY <1>2, RequestTyped
<1>4. PICK a \in Ixs, d \in Payloads : a = Address /\ d = Payload
  BY <1>3
<1>5. /\ ProgramData(<<current, next>>, d) /\ next' = next + 1
      /\ index' = a /\ from' = cat[a] /\ to' = <<current, next>>
      /\ step' = IF cat[a] = NoEntry THEN "store" ELSE "retire"
      /\ cat' = cat /\ dirty' = dirty /\ free' = free /\ current' = current /\ erased' = erased
      /\ phase' = "write" /\ sec' = sec /\ con' = con /\ count' = count
      /\ request' = request /\ nth' = nth
  BY <1>1, <1>4 DEF WriteData, scan, call
<1>6. /\ flash' \in Flash /\ SameKinds
      /\ Cells' /\ OneEach' /\ CatExact' /\ DirtyExact' /\ FreeExact' /\ CurrentExact'
      /\ flash'[current][next].data = d /\ <<current, next>> \in Places
  <2>1. step' \in {"retire", "store"}
    BY <1>5
  <2> QED BY <2>1, <1>1, <1>2, <1>5, DataWritten
<1>7. TypeOK'
  <2>1. request' = <<>> \/ request' \in Memory!Writes'
    BY <1>2, <1>5 DEF TypeOK, Memory!Writes, Memory!Ixs
  <2>2. flash' \in [Sectors -> [Containers -> Container]]
    BY <1>6 DEF Flash
  <2>3. next + 1 \in 0 .. PerSector /\ index' \in 0 .. CatMax /\ from' \in Places \cup {NoEntry}
    BY <1>1, <1>2, <1>5, VesAssumption DEF Ixs, TypeOK
  <2> QED BY <2>1, <2>2, <2>3, <1>2, <1>5, <1>6 DEF TypeOK
<1>8. next' - 1 = next /\ 0 < next'
  BY <1>2, <1>5
<1>9. Moves'
  BY <1>5, <1>8 DEF Moves
<1>10. index' = Address' /\ flash'[current'][next' - 1].data = Payload'
  BY <1>4, <1>5, <1>6, <1>8 DEF Address, Payload
<1>11. step' \in {"retire", "store"}
  BY <1>5
<1>12. WriteInv'
  BY <1>2, <1>5, <1>9, <1>10, <1>11 DEF WriteInv
<1> QED BY <1>5, <1>6, <1>7, <1>12, WriteGoesOn

(* While a container is moved or written, its address has no other copies. *)
LEMMA Moving ==
  ASSUME IInv, step \in {"retire", "store", "clear"}
  PROVE  /\ phase \in {"gc", "write"}
         /\ TypeOK /\ Cells /\ OneEach
         /\ CatExact /\ DirtyExact /\ FreeExact /\ CurrentExact /\ Moves
         /\ current \in Sectors /\ next - 1 \in Containers /\ next \in 1 .. PerSector
         /\ to = <<current, next - 1>> /\ to \in Places /\ index \in Ixs
         /\ InFlight => KindAt(current, next - 1) = "unused"
         /\ from # NoEntry => /\ from \in Places /\ from[1] \in Sectors /\ from[2] \in Containers
                              /\ from = <<from[1], from[2]>> /\ cat[index] = from
                              /\ LiveAt(from[1], from[2])
                              /\ flash[from[1]][from[2]].ix = index
                              /\ from[1] # current \/ from[2] # next - 1
         /\ \A s \in Sectors, c \in Containers :
               LiveAt(s, c) /\ flash[s][c].ix = index =>
                  \/ from # NoEntry /\ s = from[1] /\ c = from[2]
                  \/ step = "clear" /\ s = current /\ c = next - 1
<1>1. phase \in {"gc", "write"}
  BY DEF IInv, TypeOK, OffInv, ScanInv, ReadyInv
<1>2. /\ TypeOK /\ Cells /\ OneEach /\ CatExact /\ DirtyExact /\ FreeExact /\ CurrentExact
      /\ Moves
  BY <1>1, Collecting, Writing DEF GcInv, WriteInv
<1>3. current \in Sectors /\ next - 1 \in Containers /\ next \in 1 .. PerSector
  BY <1>2, VesAssumption DEF Moves, TypeOK, Containers
<1>4. to = <<current, next - 1>> /\ to \in Places /\ index \in Ixs
  BY <1>2, <1>3 DEF Moves, Places
<1>5. ASSUME InFlight PROVE KindAt(current, next - 1) = "unused"
  BY <1>2, <1>3, <1>4, <1>5 DEF CurrentExact
<1>6. ASSUME from # NoEntry
      PROVE  /\ from \in Places /\ from[1] \in Sectors /\ from[2] \in Containers
             /\ from = <<from[1], from[2]>> /\ cat[index] = from
             /\ LiveAt(from[1], from[2])
             /\ flash[from[1]][from[2]].ix = index
             /\ from[1] # current \/ from[2] # next - 1
  <2>1. from \in Places /\ cat[index] = from
    BY <1>2, <1>6 DEF TypeOK, Moves
  <2>2. from[1] \in Sectors /\ from[2] \in Containers /\ from = <<from[1], from[2]>>
    BY <2>1 DEF Places
  <2>3. LiveAt(from[1], from[2]) /\ flash[from[1]][from[2]].ix = index
    BY <2>1, <1>2, <1>4, <1>6 DEF CatExact
  <2>4. from[1] # current \/ from[2] # next - 1
    <3>1. CASE InFlight
      BY <3>1, <2>3, <1>5 DEF LiveAt
    <3>2. CASE ~ InFlight
      <4>1. step = "clear"
        BY <3>2 DEF InFlight
      <4>2. KindAt(from[1], from[2]) = "old" /\ KindAt(current, next - 1) = "current"
        BY <4>1, <1>2, <1>6 DEF Moves
      <4> QED BY <4>2
    <3> QED BY <3>1, <3>2
  <2> QED BY <2>1, <2>2, <2>3, <2>4
<1>7. ASSUME NEW s \in Sectors, NEW c \in Containers, LiveAt(s, c), flash[s][c].ix = index
      PROVE  \/ from # NoEntry /\ s = from[1] /\ c = from[2]
             \/ step = "clear" /\ s = current /\ c = next - 1
  <2>1. cat[index] = <<s, c>> \/ (step = "clear" /\ to = <<s, c>>)
    BY <1>2, <1>7 DEF CatExact
  <2>2. ASSUME cat[index] = <<s, c>> PROVE from = <<s, c>>
    <3>1. <<s, c>> # NoEntry
      BY DEF NoEntry, Sectors
    <3> QED BY <3>1, <2>2, <1>2 DEF Moves
  <2>3. <<s, c>> # NoEntry
    BY DEF NoEntry, Sectors
  <2> QED BY <2>1, <2>2, <2>3, <1>4
<1> QED BY <1>1, <1>2, <1>3, <1>4, <1>5, <1>6, <1>7

(* A move goes on when an index has been written and the tables are still     *)
(* exact.                                                                     *)
LEMMA MoveGoesOn ==
  ASSUME IInv, step \in {"retire", "store"}, step' \in {"store", "clear"},
         UNCHANGED <<cat, dirty, room, phase, scan, job, call>>,
         flash' \in Flash, Cells', OneEach', CatExact', DirtyExact', FreeExact', CurrentExact',
         Moves',
         \A s \in Sectors, c \in Containers : flash'[s][c].data = flash[s][c].data,
         phase = "gc" => /\ RescueRoom' /\ UsedSector(sec)'
                         /\ \A c \in Containers : c < con => ~ LiveAt(sec, c)'
  PROVE  IInv'
<1>1. /\ phase \in {"gc", "write"} /\ TypeOK
      /\ current \in Sectors /\ next - 1 \in Containers
  BY Moving
<1>2. /\ cat' = cat /\ dirty' = dirty /\ free' = free /\ current' = current /\ next' = next
      /\ erased' = erased /\ phase' = phase /\ sec' = sec /\ con' = con /\ count' = count
      /\ index' = index /\ from' = from /\ to' = to /\ request' = request /\ nth' = nth
  BY DEF room, scan, job, call
<1>3. TypeOK'
  <2>1. request' = <<>> \/ request' \in Memory!Writes'
    BY <1>1, <1>2 DEF TypeOK, Memory!Writes, Memory!Ixs
  <2>2. flash' \in [Sectors -> [Containers -> Container]]
    BY DEF Flash
  <2> QED BY <2>1, <2>2, <1>1, <1>2 DEF TypeOK
<1>4. flash'[current][next - 1].data = flash[current][next - 1].data
  BY <1>1
<1>5. CASE phase = "gc"
  <2>1. /\ request # <<>> => nth \in DOMAIN request
        /\ sec \in Sectors /\ sec # current /\ free = {}
        /\ con < PerSector /\ from = <<sec, con>>
        /\ flash[current][next - 1].data = flash[sec][con].data
    BY <1>5 DEF IInv, GcInv
  <2>2. con \in Containers
    BY <2>1, <1>1, VesAssumption DEF TypeOK, Containers
  <2>3. flash'[current][next - 1].data = flash'[sec][con].data
    BY <2>1, <2>2, <1>4
  <2>4. GcInv'
    BY <2>1, <2>3, <1>2, <1>5 DEF GcInv
  <2> QED BY <2>4, <1>2, <1>3, <1>5, GcGoesOn
<1>6. CASE phase = "write"
  <2>1. /\ request # <<>> /\ free # {} /\ con = 0 /\ nth \in DOMAIN request
        /\ index = Address /\ flash[current][next - 1].data = Payload
    BY <1>6 DEF IInv, WriteInv
  <2>2. index' = Address' /\ flash'[current'][next' - 1].data = Payload'
    BY <2>1, <1>2, <1>4 DEF Address, Payload
  <2>3. WriteInv'
    BY <2>1, <2>2, <1>2, <1>6 DEF WriteInv
  <2> QED BY <2>3, <1>2, <1>3, <1>6, WriteGoesOn
<1> QED BY <1>1, <1>5, <1>6

(* The copy that is replaced loses its flag. *)
LEMMA RetireKeeps ==
  ASSUME IInv, Retire
  PROVE  /\ IInv'
         /\ \A s \in Sectors, c \in Containers :
               /\ KeptAt(s, c)' <=> KeptAt(s, c)
               /\ LiveAt(s, c)' <=> LiveAt(s, c)
               /\ flash'[s][c].data = flash[s][c].data
               /\ flash'[s][c].ix = flash[s][c].ix
<1>1. /\ step = "retire" /\ step' = "store" /\ ProgramIndex(from, "old", index)
      /\ UNCHANGED <<cat, dirty, room, phase, scan, job, call>>
      /\ cat' = cat /\ dirty' = dirty /\ free' = free /\ current' = current /\ next' = next
      /\ phase' = phase /\ sec' = sec /\ con' = con
      /\ index' = index /\ from' = from /\ to' = to
  BY DEF Retire, room, scan, job
<1>2. /\ phase \in {"gc", "write"} /\ TypeOK /\ Cells /\ OneEach
      /\ CatExact /\ DirtyExact /\ FreeExact /\ CurrentExact /\ Moves
      /\ current \in Sectors /\ next - 1 \in Containers /\ next \in 1 .. PerSector
      /\ to = <<current, next - 1>> /\ index \in Ixs /\ InFlight
      /\ KindAt(current, next - 1) = "unused"
  BY <1>1, Moving DEF InFlight
<1>3. from # NoEntry
  BY <1>1, <1>2 DEF Moves
<1>4. /\ from \in Places /\ cat[index] = from
      /\ \A s \in Sectors, c \in Containers :
            LiveAt(s, c) /\ flash[s][c].ix = index => s = from[1] /\ c = from[2]
  BY <1>1, <1>3, Moving
<1>5. PICK a \in Sectors, b \in Containers : from = <<a, b>> /\ a = from[1] /\ b = from[2]
  BY <1>4 DEF Places
<1>6. LiveAt(a, b) /\ flash[a][b].ix = index /\ (a # current \/ b # next - 1)
  BY <1>1, <1>3, <1>5, Moving
<1>7. /\ flash' \in Flash
      /\ \A s \in Sectors, c \in Containers : s # a \/ c # b => flash'[s][c] = flash[s][c]
      /\ flash'[a][b].kind = "old" /\ flash'[a][b].ix = index
      /\ flash'[a][b].data = flash[a][b].data
  <2>1. flash \in Flash /\ "old" \in IndexKinds /\ index \in 0 .. CatMax
    BY <1>2 DEF TypeOK, Flash, IndexKinds, Ixs
  <2> QED BY <2>1, <1>1, <1>4, <1>5, IndexProgrammed
<1>8. \A s \in Sectors, c \in Containers :
         /\ LiveAt(s, c)' <=> LiveAt(s, c)
         /\ BlankAt(s, c)' <=> BlankAt(s, c)
         /\ KindAt(s, c)' = "unused" <=> KindAt(s, c) = "unused"
         /\ KindAt(s, c)' = "cleared" <=> KindAt(s, c) = "cleared"
         /\ flash'[s][c].data = flash[s][c].data
         /\ flash'[s][c].ix = flash[s][c].ix
         /\ s # a \/ c # b => KindAt(s, c)' = KindAt(s, c)
  BY <1>6, <1>7 DEF LiveAt, BlankAt, KindAt
<1>9. Cells'
  BY <1>1, <1>2, <1>8 DEF Cells, InFlight
<1>10. OneEach'
  <2>1. ASSUME NEW s \in Sectors, NEW c \in Containers, NEW t \in Sectors, NEW d \in Containers,
               LiveAt(s, c)', KindAt(t, d)' = KindAt(s, c)', flash'[t][d].ix = flash'[s][c].ix
        PROVE  s = t /\ c = d
    <3>1. LiveAt(s, c) /\ LiveAt(t, d) /\ flash[t][d].ix = flash[s][c].ix
      BY <2>1, <1>8 DEF LiveAt
    <3>2. CASE flash[s][c].ix = index
      BY <3>1, <3>2, <1>4
    <3>3. CASE flash[s][c].ix # index
      <4>1. (s # a \/ c # b) /\ (t # a \/ d # b)
        BY <3>1, <3>3, <1>6
      <4> QED BY <4>1, <3>1, <2>1, <1>2, <1>8 DEF OneEach
    <3> QED BY <3>2, <3>3
  <2> QED BY <2>1 DEF OneEach
<1>11. \A s \in Sectors : /\ ClearedIn(s)' = ClearedIn(s)
                          /\ UnusedSector(s)' <=> UnusedSector(s)
                          /\ UsedSector(s)' <=> UsedSector(s)
  BY <1>8 DEF ClearedIn, UnusedSector, UsedSector
<1>12. CatExact'
  <2>1. ASSUME NEW ix \in Ixs, cat[ix] # NoEntry
        PROVE  LiveAt(cat[ix][1], cat[ix][2])' /\ flash'[cat[ix][1]][cat[ix][2]].ix = ix
    <3>1. LiveAt(cat[ix][1], cat[ix][2]) /\ flash[cat[ix][1]][cat[ix][2]].ix = ix
      BY <2>1, <1>2 DEF CatExact
    <3>2. PICK s \in Sectors, c \in Containers : s = cat[ix][1] /\ c = cat[ix][2]
      BY <2>1, <1>2 DEF TypeOK, Places
    <3>3. LiveAt(s, c)' /\ flash'[s][c].ix = ix
      BY <3>1, <3>2, <1>8
    <3> QED BY <3>2, <3>3, <1>1 DEF LiveAt, KindAt
  <2>2. ASSUME NEW s \in Sectors, NEW c \in Containers, LiveAt(s, c)'
        PROVE  cat[flash'[s][c].ix] = <<s, c>>
    <3>1. LiveAt(s, c) /\ flash'[s][c].ix = flash[s][c].ix
      BY <2>2, <1>8
    <3>2. step # "clear"
      BY <1>1
    <3> QED BY <3>1, <3>2, <1>2 DEF CatExact
  <2> QED BY <2>1, <2>2, <1>1 DEF CatExact
<1>13. DirtyExact' /\ FreeExact'
  BY <1>1, <1>2, <1>11 DEF DirtyExact, FreeExact, Unprepared, TypeOK
<1>14. CurrentExact'
  <2>1. PICK m \in Sectors : m = current
    BY <1>2
  <2>2. \A c \in Containers : IF c < next /\ ~ (to = <<m, c>>)
                              THEN ~ BlankAt(m, c) ELSE KindAt(m, c) = "unused"
    BY <2>1, <1>2 DEF CurrentExact
  <2>3. \A c \in Containers : IF c < next /\ ~ (to = <<m, c>>)
                              THEN ~ BlankAt(m, c)' ELSE KindAt(m, c)' = "unused"
    BY <2>2, <1>8
  <2>4. InFlight'
    BY <1>1 DEF InFlight
  <2> QED BY <2>1, <2>3, <2>4, <1>1 DEF CurrentExact, BlankAt, KindAt
<1>15. Moves'
  <2>1. KindAt(a, b)' = "old" /\ to = <<current, next - 1>> /\ 0 < next /\ cat[index] = from
    BY <1>2, <1>3, <1>4, <1>7 DEF Moves, KindAt
  <2>2. KindAt(from[1], from[2])' = "old"
    BY <2>1, <1>1, <1>5 DEF KindAt
  <2> QED BY <2>1, <2>2, <1>1, <1>2, <1>3 DEF Moves
<1>B. ASSUME NEW s \in Sectors, NEW c \in Containers
      PROVE  KeptAt(s, c)' <=> KeptAt(s, c)
  <2>1. CASE s = a /\ c = b
    <3>1. KindAt(a, b)' = "old" /\ flash'[a][b].ix = index
      BY <1>7 DEF KindAt
    <3>2. ~ \E t \in Sectors, d \in Containers :
               KindAt(t, d)' = "current" /\ flash'[t][d].ix = index
      <4>1. SUFFICES ASSUME NEW t \in Sectors, NEW d \in Containers,
                            KindAt(t, d)' = "current", flash'[t][d].ix = index
                     PROVE  FALSE
        OBVIOUS
      <4>2. LiveAt(t, d) /\ flash[t][d].ix = index
        BY <4>1, <1>8 DEF LiveAt
      <4>3. t = a /\ d = b
        BY <4>2, <1>4, <1>5
      <4> QED BY <4>1, <4>3, <3>1
    <3>3. KeptAt(a, b)'
      BY <3>1, <3>2 DEF KeptAt
    <3>4. KeptAt(a, b)
      <4>1. CASE KindAt(a, b) = "current"
        BY <4>1 DEF KeptAt
      <4>2. CASE KindAt(a, b) = "old"
        <5>1. \A t \in Sectors, d \in Containers :
                 ~ (KindAt(t, d) = "current" /\ flash[t][d].ix = flash[a][b].ix)
          BY <4>2, <1>4, <1>5, <1>6 DEF LiveAt
        <5> QED BY <4>2, <5>1 DEF KeptAt
      <4> QED BY <4>1, <4>2, <1>6 DEF LiveAt
    <3> QED BY <2>1, <3>3, <3>4
  <2>2. CASE ~ (s = a /\ c = b)
    <3>1. flash'[s][c] = flash[s][c] /\ KindAt(s, c)' = KindAt(s, c)
      BY <2>2, <1>7, <1>8
    <3>2. CASE ~ LiveAt(s, c)
      BY <3>1, <3>2 DEF KeptAt, LiveAt
    <3>3. CASE LiveAt(s, c)
      <4>1. flash[s][c].ix # index
        BY <3>3, <2>2, <1>4, <1>5
      <4>2. \A t \in Sectors, d \in Containers :
               KindAt(t, d)' = "current" /\ flash'[t][d].ix = flash[s][c].ix
               <=> KindAt(t, d) = "current" /\ flash[t][d].ix = flash[s][c].ix
        BY <4>1, <1>6, <1>8
      <4> QED BY <3>1, <4>2 DEF KeptAt
    <3> QED BY <3>2, <3>3
  <2> QED BY <2>1, <2>2
<1>16. ASSUME phase = "gc"
       PROVE  /\ RescueRoom' /\ UsedSector(sec)'
              /\ \A c \in Containers : c < con => ~ LiveAt(sec, c)'
  <2>1. /\ RescueRoom /\ UsedSector(sec) /\ sec \in Sectors /\ sec # current /\ from = <<sec, con>>
        /\ \A c \in Containers : c < con => ~ LiveAt(sec, c)
    BY <1>1, <1>16 DEF IInv, GcInv
  <2>3. \A s \in Sectors : KeptIn(s)' = KeptIn(s)
    BY <1>B DEF KeptIn
  <2>4. KeptIn(sec)' = KeptIn(sec)
    BY <2>1, <2>3, <1>1 DEF KeptIn, KeptAt, KindAt
  <2>5. Stored' = Stored /\ Stored = next - 1
    BY <1>1, <1>2 DEF Stored, InFlight
  <2>6. \A c \in Containers : flash'[current][c].kind = flash[current][c].kind
    <3>1. a # current
      BY <2>1, <1>5
    <3> QED BY <3>1, <1>2, <1>7
  <2>7. Rescues(current, Stored)'
    BY <2>1, <2>5, <2>6, <1>1 DEF RescueRoom, Rescues, KindAt
  <2>8. PICK w \in Sectors :
           /\ w # 0 /\ w # current
           /\ w # sec => Stored + Cardinality(KeptIn(sec)) + Cardinality(KeptIn(w)) < PerSector
    BY <2>1 DEF RescueRoom
  <2>9. RescueRoom'
    BY <2>1, <2>3, <2>4, <2>5, <2>7, <2>8, <1>1 DEF RescueRoom
  <2> QED BY <2>1, <2>9, <1>1, <1>8, <1>11 DEF UsedSector, LiveAt, BlankAt, KindAt
<1>17. step \in {"retire", "store"} /\ step' \in {"store", "clear"}
  BY <1>1
<1>18. \A s \in Sectors, c \in Containers : flash'[s][c].data = flash[s][c].data
  BY <1>8
<1>19. IInv'
  BY <1>1, <1>7, <1>9, <1>10, <1>12, <1>13, <1>14, <1>15, <1>16, <1>17, <1>18, MoveGoesOn
<1> QED BY <1>8, <1>19, <1>B

(* The index of the new copy is written: what the flash holds then. *)
LEMMA CopyStored ==
  ASSUME IInv, step = "store", ProgramIndex(to, "current", index), dirty' = dirty,
         free' = free, current' = current, next' = next, step' \in {"clear", "update"}
  PROVE  /\ flash' \in Flash /\ Cells' /\ OneEach' /\ DirtyExact' /\ FreeExact' /\ CurrentExact'
         /\ flash'[current][next - 1].kind = "current" /\ flash'[current][next - 1].ix = index
         /\ \A s \in Sectors, c \in Containers :
               /\ flash'[s][c].data = flash[s][c].data
               /\ s # current \/ c # next - 1 => flash'[s][c] = flash[s][c]
               /\ LiveAt(s, c)' <=> LiveAt(s, c) \/ (s = current /\ c = next - 1)
               /\ BlankAt(s, c)' => BlankAt(s, c)
         /\ \A s \in Sectors : UsedSector(s) => UsedSector(s)'
<1>1. /\ TypeOK /\ Cells /\ OneEach
      /\ CatExact /\ DirtyExact /\ FreeExact /\ CurrentExact /\ Moves
      /\ current \in Sectors /\ next - 1 \in Containers /\ next \in 1 .. PerSector
      /\ to = <<current, next - 1>> /\ to \in Places /\ index \in Ixs /\ InFlight
      /\ KindAt(current, next - 1) = "unused"
      /\ \A s \in Sectors, c \in Containers :
            LiveAt(s, c) /\ flash[s][c].ix = index =>
               from # NoEntry /\ s = from[1] /\ c = from[2]
  BY Moving DEF InFlight
<1>2. PICK m \in Sectors, n \in Containers : m = current /\ n = next - 1
  BY <1>1
<1>3. /\ flash' \in Flash
      /\ \A s \in Sectors, c \in Containers : s # m \/ c # n => flash'[s][c] = flash[s][c]
      /\ flash'[m][n].kind = "current" /\ flash'[m][n].ix = index
      /\ flash'[m][n].data = flash[m][n].data
  <2>1. flash \in Flash /\ "current" \in IndexKinds /\ index \in 0 .. CatMax
    BY <1>1 DEF TypeOK, Flash, IndexKinds, Ixs
  <2> QED BY <2>1, <1>1, <1>2, IndexProgrammed
<1>4. \A s \in Sectors, c \in Containers :
         /\ flash'[s][c].data = flash[s][c].data
         /\ LiveAt(s, c)' <=> LiveAt(s, c) \/ (s = m /\ c = n)
         /\ BlankAt(s, c)' <=> BlankAt(s, c) /\ ~ (s = m /\ c = n)
         /\ KindAt(s, c)' = "cleared" <=> KindAt(s, c) = "cleared"
         /\ KindAt(s, c)' = "unused" <=> KindAt(s, c) = "unused" /\ ~ (s = m /\ c = n)
  BY <1>1, <1>2, <1>3 DEF LiveAt, BlankAt, KindAt
<1>5. Cells'
  <2>1. ASSUME NEW s \in Sectors, NEW c \in Containers
        PROVE  /\ LiveAt(s, c)' => flash'[s][c].ix \in Ixs
               /\ BlankAt(s, c)' => flash'[s][c].ix = 0 /\ flash'[s][c].data = Bits
    <3>1. CASE s = m /\ c = n
      BY <3>1, <1>1, <1>3, <1>4
    <3>2. CASE s # m \/ c # n
      <4>1. to # <<s, c>>
        BY <3>2, <1>1, <1>2
      <4>2. flash'[s][c] = flash[s][c]
        BY <3>2, <1>3
      <4>3. /\ LiveAt(s, c) => flash[s][c].ix \in Ixs
            /\ BlankAt(s, c) => flash[s][c].ix = 0 /\ flash[s][c].data = Bits
        BY <4>1, <1>1 DEF Cells
      <4>4. (LiveAt(s, c)' => LiveAt(s, c)) /\ (BlankAt(s, c)' => BlankAt(s, c))
        BY <3>2, <1>4
      <4> QED BY <4>2, <4>3, <4>4
    <3> QED BY <3>1, <3>2
  <2> QED BY <2>1 DEF Cells
<1>6. OneEach'
  <2>1. ASSUME NEW s \in Sectors, NEW c \in Containers,
               LiveAt(s, c), KindAt(s, c) = "current", flash[s][c].ix = index
        PROVE  FALSE
    <3>1. from # NoEntry /\ s = from[1] /\ c = from[2]
      BY <2>1, <1>1
    <3>2. step # "retire"
      OBVIOUS
    <3>3. KindAt(from[1], from[2]) = "old"
      BY <3>1, <3>2, <1>1 DEF Moves
    <3> QED BY <3>1, <3>3, <2>1
  <2>2. ASSUME NEW s \in Sectors, NEW c \in Containers,
               KindAt(s, c)' = "current", flash'[s][c].ix = index
        PROVE  s = m /\ c = n
    <3>1. CASE s = m /\ c = n
      BY <3>1
    <3>2. CASE s # m \/ c # n
      BY <3>2, <2>1, <2>2, <1>3 DEF LiveAt, KindAt
    <3> QED BY <3>1, <3>2
  <2>3. ASSUME NEW s \in Sectors, NEW c \in Containers, NEW t \in Sectors, NEW d \in Containers,
               LiveAt(s, c)', KindAt(t, d)' = KindAt(s, c)', flash'[t][d].ix = flash'[s][c].ix
        PROVE  s = t /\ c = d
    <3>1. CASE (s = m /\ c = n) \/ (t = m /\ d = n)
      <4>1. KindAt(m, n)' = "current" /\ flash'[m][n].ix = index
        BY <1>3 DEF KindAt
      <4>2. /\ KindAt(s, c)' = "current" /\ flash'[s][c].ix = index
            /\ KindAt(t, d)' = "current" /\ flash'[t][d].ix = index
        BY <3>1, <4>1, <2>3
      <4> QED BY <4>2, <2>2
    <3>2. CASE ~ ((s = m /\ c = n) \/ (t = m /\ d = n))
      <4>1. flash'[s][c] = flash[s][c] /\ flash'[t][d] = flash[t][d]
        BY <3>2, <1>3
      <4> QED BY <4>1, <2>3, <1>1 DEF OneEach, LiveAt, KindAt
    <3> QED BY <3>1, <3>2
  <2> QED BY <2>3 DEF OneEach
<1>7. \A s \in Sectors : /\ ClearedIn(s)' = ClearedIn(s)
                         /\ s # m /\ UnusedSector(s) => UnusedSector(s)'
                         /\ UsedSector(s) => UsedSector(s)'
  BY <1>4 DEF ClearedIn, UnusedSector, UsedSector
<1>8. step # "prepare" /\ step' # "prepare"
  OBVIOUS
<1>9. DirtyExact'
  BY <1>1, <1>7, <1>8 DEF DirtyExact, Unprepared
<1>10. FreeExact'
  <2>1. \A s \in free : s \in Sectors /\ s # m /\ UnusedSector(s)
    BY <1>1, <1>2 DEF FreeExact, TypeOK
  <2> QED BY <2>1, <1>1, <1>7, <1>8 DEF FreeExact, Unprepared
<1>11. CurrentExact'
  <2>1. \A c \in Containers : IF c < next /\ ~ (to = <<m, c>>)
                              THEN ~ BlankAt(m, c) ELSE KindAt(m, c) = "unused"
    BY <1>1, <1>2 DEF CurrentExact
  <2>2. n < next
    BY <1>1, <1>2
  <2>3. \A c \in Containers : IF c < next THEN ~ BlankAt(m, c)' ELSE KindAt(m, c)' = "unused"
    BY <2>1, <2>2, <1>1, <1>2, <1>4
  <2>4. ~ InFlight'
    BY DEF InFlight
  <2> QED BY <2>3, <2>4, <1>2 DEF CurrentExact, BlankAt, KindAt
<1> QED BY <1>2, <1>3, <1>4, <1>5, <1>6, <1>7, <1>9, <1>10, <1>11

(* The new copy is beside the one that it replaces. *)
LEMMA CopyStoredKeeps == ASSUME IInv, Store, from # NoEntry PROVE IInv'
<1>1. /\ step = "store" /\ step' = "clear" /\ ProgramIndex(to, "current", index)
      /\ UNCHANGED <<cat, dirty, room, phase, scan, job, call>>
      /\ cat' = cat /\ dirty' = dirty /\ free' = free /\ current' = current /\ next' = next
      /\ phase' = phase /\ sec' = sec /\ con' = con
      /\ index' = index /\ from' = from /\ to' = to
  BY DEF Store, room, scan, job, call
<1>2. /\ TypeOK /\ CatExact /\ Moves /\ index \in Ixs
      /\ current \in Sectors /\ next - 1 \in Containers /\ next \in 1 .. PerSector
      /\ to = <<current, next - 1>> /\ InFlight
      /\ KindAt(current, next - 1) = "unused"
      /\ \A s \in Sectors, c \in Containers :
            LiveAt(s, c) /\ flash[s][c].ix = index => s = from[1] /\ c = from[2]
  BY <1>1, Moving DEF InFlight
<1>3. /\ from \in Places /\ cat[index] = from
      /\ from[1] # current \/ from[2] # next - 1
      /\ LiveAt(from[1], from[2]) /\ flash[from[1]][from[2]].ix = index
  BY <1>1, Moving
<1>4. PICK a \in Sectors, b \in Containers : from = <<a, b>> /\ a = from[1] /\ b = from[2]
  BY <1>3 DEF Places
<1>5. PICK m \in Sectors, n \in Containers : m = current /\ n = next - 1
  BY <1>2
<1>6. /\ flash' \in Flash /\ Cells' /\ OneEach' /\ DirtyExact' /\ FreeExact' /\ CurrentExact'
      /\ flash'[m][n].kind = "current" /\ flash'[m][n].ix = index
      /\ \A s \in Sectors, c \in Containers :
            /\ flash'[s][c].data = flash[s][c].data
            /\ s # m \/ c # n => flash'[s][c] = flash[s][c]
            /\ LiveAt(s, c)' <=> LiveAt(s, c) \/ (s = m /\ c = n)
      /\ \A s \in Sectors : UsedSector(s) => UsedSector(s)'
  BY <1>1, <1>5, CopyStored
<1>7. KindAt(a, b) = "old" /\ flash'[a][b] = flash[a][b]
  BY <1>1, <1>2, <1>3, <1>4, <1>5, <1>6 DEF Moves
<1>8. CatExact'
  <2>1. ASSUME NEW ix \in Ixs, cat[ix] # NoEntry
        PROVE  LiveAt(cat[ix][1], cat[ix][2])' /\ flash'[cat[ix][1]][cat[ix][2]].ix = ix
    <3>1. LiveAt(cat[ix][1], cat[ix][2]) /\ flash[cat[ix][1]][cat[ix][2]].ix = ix
      BY <2>1, <1>2 DEF CatExact
    <3>2. PICK s \in Sectors, c \in Containers : s = cat[ix][1] /\ c = cat[ix][2]
      BY <2>1, <1>2 DEF TypeOK, Places
    <3>3. s # m \/ c # n
      BY <3>1, <3>2, <1>2, <1>5 DEF LiveAt
    <3>4. LiveAt(s, c)' /\ flash'[s][c].ix = ix
      BY <3>1, <3>2, <3>3, <1>6
    <3> QED BY <3>2, <3>4, <1>1 DEF LiveAt, KindAt
  <2>2. ASSUME NEW s \in Sectors, NEW c \in Containers, LiveAt(s, c)'
        PROVE  cat[flash'[s][c].ix] = <<s, c>> \/ to = <<s, c>>
    <3>1. CASE s = m /\ c = n
      BY <3>1, <1>2, <1>5
    <3>2. CASE s # m \/ c # n
      <4>1. LiveAt(s, c) /\ flash'[s][c] = flash[s][c] /\ step # "clear"
        BY <3>2, <2>2, <1>1, <1>6
      <4> QED BY <4>1, <1>2 DEF CatExact
    <3> QED BY <3>1, <3>2
  <2> QED BY <2>1, <2>2, <1>1 DEF CatExact
<1>9. Moves'
  <2>1. KindAt(from[1], from[2])' = "old" /\ flash'[current][next - 1].kind = "current"
        /\ flash'[current][next - 1].ix = index
    BY <1>1, <1>4, <1>5, <1>6, <1>7 DEF KindAt
  <2> QED BY <2>1, <1>1, <1>2, <1>3 DEF Moves, KindAt
<1>10. ASSUME phase = "gc"
       PROVE  /\ RescueRoom' /\ UsedSector(sec)'
              /\ \A c \in Containers : c < con => ~ LiveAt(sec, c)'
  <2>1. /\ RescueRoom /\ UsedSector(sec) /\ sec \in Sectors /\ sec # current /\ from = <<sec, con>>
        /\ \A c \in Containers : c < con => ~ LiveAt(sec, c)
    BY <1>1, <1>10 DEF IInv, GcInv
  <2>2. a = sec /\ b = con /\ a # m
    BY <2>1, <1>4, <1>5
  <2>3. Stored = n /\ Stored' = n + 1 /\ next = n + 1 /\ n \in Nat
    BY <1>1, <1>2, <1>5 DEF Stored, InFlight, Containers
  <2>4. ~ KeptAt(a, b)'
    <3>1. KindAt(a, b)' = "old" /\ flash'[a][b].ix = index
      BY <1>3, <1>4, <1>7 DEF KindAt
    <3>2. KindAt(m, n)' = "current" /\ flash'[m][n].ix = flash'[a][b].ix
      BY <3>1, <1>6 DEF KindAt
    <3> QED BY <3>1, <3>2 DEF KeptAt
  <2>5. KeptAt(a, b)
    <3>1. \A t \in Sectors, d \in Containers :
             ~ (KindAt(t, d) = "current" /\ flash[t][d].ix = flash[a][b].ix)
      <4>1. flash[a][b].ix = index
        BY <1>3, <1>4
      <4>2. ASSUME NEW t \in Sectors, NEW d \in Containers,
                   KindAt(t, d) = "current", flash[t][d].ix = index
            PROVE  FALSE
        <5>1. LiveAt(t, d)
          BY <4>2 DEF LiveAt
        <5>2. t = a /\ d = b
          BY <5>1, <4>2, <1>2, <1>4
        <5> QED BY <5>2, <4>2, <1>7
      <4> QED BY <4>1, <4>2
    <3> QED BY <3>1, <1>7 DEF KeptAt
  <2>6. ASSUME NEW s \in Sectors, NEW c \in Containers, s # m
        PROVE  KeptAt(s, c)' <=> KeptAt(s, c) /\ ~ (s = a /\ c = b)
    <3>1. CASE s = a /\ c = b
      BY <3>1, <2>4
    <3>2. CASE ~ (s = a /\ c = b)
      <4>1. flash'[s][c] = flash[s][c] /\ KindAt(s, c)' = KindAt(s, c)
        BY <2>6, <1>6 DEF KindAt
      <4>2. CASE ~ LiveAt(s, c)
        BY <3>2, <4>1, <4>2 DEF KeptAt, LiveAt
      <4>3. CASE LiveAt(s, c)
        <5>1. flash[s][c].ix # index
          BY <4>3, <3>2, <1>2, <1>4
        <5>2. ASSUME NEW t \in Sectors, NEW d \in Containers
              PROVE  KindAt(t, d)' = "current" /\ flash'[t][d].ix = flash[s][c].ix
                     <=> KindAt(t, d) = "current" /\ flash[t][d].ix = flash[s][c].ix
          <6>1. CASE t = m /\ d = n
            BY <6>1, <5>1, <1>2, <1>5, <1>6
          <6>2. CASE t # m \/ d # n
            BY <6>2, <1>6 DEF KindAt
          <6> QED BY <6>1, <6>2
        <5> QED BY <3>2, <4>1, <5>2 DEF KeptAt
      <4> QED BY <4>2, <4>3
    <3> QED BY <3>1, <3>2
  <2>7. \A s \in Sectors : s # m /\ s # a => KeptIn(s)' = KeptIn(s)
    BY <2>6 DEF KeptIn
  <2>8. KeptIn(a)' = KeptIn(a) \ {b} /\ b \in KeptIn(a)
    BY <2>2, <2>5, <2>6 DEF KeptIn
  <2>9. /\ Cardinality(KeptIn(a)') = Cardinality(KeptIn(a)) - 1
        /\ Cardinality(KeptIn(a)) \in Nat
    <3>1. KeptIn(a) \in SUBSET Containers /\ Cardinality(KeptIn(a)) \in 0 .. PerSector
      BY PartsFinite
    <3> QED BY <3>1, <2>8, OneMore
  <2>10. KeptIn(sec)' = KeptIn(a)'
    BY <2>2, <1>1 DEF KeptIn, KeptAt, KindAt
  <2>11. Rescues(current, Stored)'
    <3>1. \A c \in Containers : IF c < n THEN KindAt(m, c) = "current"
                                         ELSE KindAt(m, c) = "unused"
      BY <2>1, <2>3, <1>5 DEF RescueRoom, Rescues
    <3>2. ASSUME NEW c \in Containers
          PROVE  IF c < n + 1 THEN flash'[m][c].kind = "current"
                              ELSE flash'[m][c].kind = "unused"
      <4>1. c < n + 1 <=> c < n \/ c = n
        BY <2>3 DEF Containers
      <4>2. c # n => flash'[m][c] = flash[m][c]
        BY <1>6
      <4>3. CASE c = n
        BY <4>3, <4>1, <1>6
      <4>4. CASE c # n
        BY <4>1, <4>2, <4>4, <3>1 DEF KindAt
      <4> QED BY <4>3, <4>4
    <3> QED BY <3>2, <2>3, <1>1, <1>5 DEF Rescues, KindAt
  <2>12. PICK w \in Sectors :
           /\ w # 0 /\ w # m
           /\ w # a => n + Cardinality(KeptIn(a)) + Cardinality(KeptIn(w)) < PerSector
    BY <2>1, <2>2, <2>3, <1>5 DEF RescueRoom
  <2>13. Cardinality(KeptIn(w)) \in Nat /\ PerSector \in Nat
    BY PartsFinite, VesAssumption
  <2>14. n + Cardinality(KeptIn(a)) < PerSector
    BY <2>1, <2>2, <2>3 DEF RescueRoom
  <2>15. Stored' + Cardinality(KeptIn(sec)') < PerSector
    BY <2>3, <2>9, <2>10, <2>13, <2>14
  <2>16. w # sec' => Stored' + Cardinality(KeptIn(sec)') + Cardinality(KeptIn(w)') < PerSector
    <3>1. w # a => n + 1 + (Cardinality(KeptIn(a)) - 1) + Cardinality(KeptIn(w)) < PerSector
      BY <2>3, <2>9, <2>12, <2>13
    <3>2. w # a => KeptIn(w)' = KeptIn(w)
      BY <2>7, <2>12
    <3> QED BY <3>1, <3>2, <2>2, <2>3, <2>9, <2>10, <1>1
  <2>17. RescueRoom'
    BY <2>11, <2>12, <2>15, <2>16, <1>1, <1>5 DEF RescueRoom
  <2>18. \A c \in Containers : ~ LiveAt(sec, c) => ~ LiveAt(sec, c)'
    <3>1. \A c \in Containers : ~ LiveAt(a, c) => ~ LiveAt(a, c)'
      BY <2>2, <1>6
    <3> QED BY <3>1, <2>2, <1>1 DEF LiveAt, KindAt
  <2>19. UsedSector(sec)'
    <3>1. UsedSector(a)'
      BY <2>1, <2>2, <1>6
    <3> QED BY <3>1, <2>2, <1>1 DEF UsedSector, BlankAt, KindAt
  <2> QED BY <2>1, <2>17, <2>18, <2>19
<1>11. step \in {"retire", "store"} /\ step' \in {"store", "clear"}
  BY <1>1
<1>12. \A s \in Sectors, c \in Containers : flash'[s][c].data = flash[s][c].data
  BY <1>6
<1> QED BY <1>1, <1>6, <1>8, <1>9, <1>10, <1>11, <1>12, MoveGoesOn

(* The first copy of an address is stored: nothing is replaced. *)
LEMMA FirstCopyStoredKeeps == ASSUME IInv, Store, from = NoEntry PROVE IInv'
<1>1. /\ step = "store" /\ step' = "update" /\ ProgramIndex(to, "current", index)
      /\ cat' = [cat EXCEPT ![index] = to] /\ nth' = nth + 1 /\ NoJob
      /\ dirty' = dirty /\ free' = free /\ current' = current /\ next' = next /\ erased' = erased
      /\ phase' = phase /\ sec' = sec /\ con' = con /\ count' = count /\ request' = request
  BY DEF Store, room, scan
<1>2. /\ TypeOK /\ CatExact /\ Moves /\ index \in Ixs
      /\ current \in Sectors /\ next - 1 \in Containers
      /\ to = <<current, next - 1>> /\ to \in Places /\ InFlight
      /\ KindAt(current, next - 1) = "unused"
      /\ \A s \in Sectors, c \in Containers :
            LiveAt(s, c) => flash[s][c].ix # index
      /\ phase \in {"gc", "write"}
  BY <1>1, Moving DEF InFlight
<1>3. phase = "write"
  <2>1. SUFFICES ASSUME phase = "gc" PROVE FALSE
    BY <1>2
  <2>2. sec \in Sectors /\ from = <<sec, con>>
    BY <2>1, <1>1 DEF IInv, GcInv
  <2> QED BY <2>2 DEF NoEntry, Sectors
<1>4. /\ con = 0 /\ free # {} /\ request # <<>> /\ nth \in DOMAIN request
  BY <1>1, <1>3 DEF IInv, WriteInv
<1>5. PICK m \in Sectors, n \in Containers : m = current /\ n = next - 1
  BY <1>2
<1>6. /\ flash' \in Flash /\ Cells' /\ OneEach' /\ DirtyExact' /\ FreeExact' /\ CurrentExact'
      /\ flash'[m][n].kind = "current" /\ flash'[m][n].ix = index
      /\ \A s \in Sectors, c \in Containers :
            /\ s # m \/ c # n => flash'[s][c] = flash[s][c]
            /\ LiveAt(s, c)' <=> LiveAt(s, c) \/ (s = m /\ c = n)
  BY <1>1, <1>5, CopyStored
<1>7. /\ cat' \in [Ixs -> Places \cup {NoEntry}] /\ cat'[index] = <<m, n>>
      /\ \A ix \in Ixs : ix # index => cat'[ix] = cat[ix]
  BY <1>1, <1>2, <1>5 DEF TypeOK
<1>8. CatExact'
  <2>1. ASSUME NEW ix \in Ixs, cat'[ix] # NoEntry
        PROVE  /\ flash'[cat'[ix][1]][cat'[ix][2]].kind \in {"current", "old"}
               /\ flash'[cat'[ix][1]][cat'[ix][2]].ix = ix
    <3>1. CASE ix = index
      <4>1. cat'[ix][1] = m /\ cat'[ix][2] = n
        BY <3>1, <1>7
      <4>2. LiveAt(m, n)' /\ flash'[m][n].ix = index
        BY <1>6
      <4> QED BY <3>1, <4>1, <4>2 DEF LiveAt, KindAt
    <3>2. CASE ix # index
      <4>1. cat[ix] # NoEntry /\ cat'[ix] = cat[ix]
        BY <3>2, <2>1, <1>7
      <4>2. LiveAt(cat[ix][1], cat[ix][2]) /\ flash[cat[ix][1]][cat[ix][2]].ix = ix
        BY <4>1, <1>2 DEF CatExact
      <4>3. PICK s \in Sectors, c \in Containers : s = cat[ix][1] /\ c = cat[ix][2]
        BY <4>1, <1>2 DEF TypeOK, Places
      <4>4. s # m \/ c # n
        BY <4>2, <4>3, <1>2, <1>5 DEF LiveAt
      <4>5. LiveAt(s, c)' /\ flash'[s][c].ix = ix
        BY <4>2, <4>3, <4>4, <1>6
      <4> QED BY <4>1, <4>3, <4>5 DEF LiveAt, KindAt
    <3> QED BY <3>1, <3>2
  <2>2. ASSUME NEW s \in Sectors, NEW c \in Containers, LiveAt(s, c)'
        PROVE  cat'[flash'[s][c].ix] = <<s, c>>
    <3>1. CASE s = m /\ c = n
      BY <3>1, <1>6, <1>7
    <3>2. CASE s # m \/ c # n
      <4>1. LiveAt(s, c) /\ flash'[s][c] = flash[s][c] /\ step # "clear"
        BY <3>2, <2>2, <1>1, <1>6
      <4>2. cat[flash[s][c].ix] = <<s, c>> /\ flash[s][c].ix # index /\ flash[s][c].ix \in Ixs
        BY <4>1, <1>2, Moving, <1>1 DEF CatExact, Cells
      <4> QED BY <4>1, <4>2, <1>7
    <3> QED BY <3>1, <3>2
  <2> QED BY <2>1, <2>2 DEF CatExact, LiveAt, KindAt
<1>9. TypeOK'
  <2>1. request' = <<>> \/ request' \in Memory!Writes'
    BY <1>1, <1>2 DEF TypeOK, Memory!Writes, Memory!Ixs
  <2>2. flash' \in [Sectors -> [Containers -> Container]]
    BY <1>6 DEF Flash
  <2>3. nth' \in 1 .. CatMax + 1
    BY <1>1, <1>2, <1>4, RequestTyped
  <2>4. index' \in 0 .. CatMax /\ from' \in Places \cup {NoEntry} /\ to' \in Places \cup {NoEntry}
    BY <1>1, VesAssumption DEF NoJob
  <2>5. step' \in {"rest", "look", "wipe", "prepare", "choose",
                   "retire", "store", "clear", "update", "take"}
    BY <1>1
  <2>6. /\ dirty' \in [Sectors -> 0 .. PerSector] /\ free' \subseteq Sectors /\ current' \in Sectors
        /\ next' \in 0 .. PerSector /\ erased' \in Sectors
        /\ phase' \in {"off", "scan", "gc", "ready", "write"}
        /\ sec' \in 0 .. SectorCount /\ con' \in 0 .. PerSector
        /\ count' \in [unused : 0 .. PerSector, uninit : 0 .. PerSector, dirty : 0 .. PerSector]
    BY <1>1, <1>2 DEF TypeOK
  <2> QED BY <2>1, <2>2, <2>3, <2>4, <2>5, <2>6, <1>7 DEF TypeOK
<1>10. WriteInv'
  BY <1>1, <1>4 DEF WriteInv
<1> QED BY <1>1, <1>3, <1>6, <1>8, <1>9, <1>10, WriteGoesOn

(* The copy that has been replaced is cleared and counted, and the table     *)
(* names the new one.                                                        *)
LEMMA ClearKeeps == ASSUME IInv, Clear PROVE IInv' /\ OldCleared(from)
<1>1. /\ step = "clear" /\ ProgramIndex(from, "cleared", 0)
      /\ dirty' = [dirty EXCEPT ![from[1]] = @ + 1]
      /\ cat' = [cat EXCEPT ![index] = to] /\ NoJob
      /\ free' = free /\ current' = current /\ next' = next /\ erased' = erased
      /\ phase' = phase /\ sec' = sec /\ count' = count /\ request' = request
      /\ IF phase = "gc" THEN step' = "look" /\ con' = con + 1 /\ nth' = nth
                         ELSE step' = "update" /\ nth' = nth + 1 /\ con' = con
  BY DEF Clear, room
<1>2. /\ TypeOK /\ Cells /\ OneEach /\ CatExact /\ DirtyExact /\ FreeExact /\ CurrentExact
      /\ Moves /\ index \in Ixs
      /\ current \in Sectors /\ next - 1 \in Containers
      /\ to = <<current, next - 1>> /\ to \in Places
      /\ phase \in {"gc", "write"} /\ ~ InFlight
  BY <1>1, Moving DEF InFlight
<1>3. /\ from # NoEntry /\ KindAt(from[1], from[2]) = "old"
      /\ KindAt(current, next - 1) = "current" /\ flash[current][next - 1].ix = index
  BY <1>1, <1>2 DEF Moves
<1>4. /\ from \in Places /\ cat[index] = from /\ flash[from[1]][from[2]].ix = index
  BY <1>1, <1>3, Moving
<1>5. PICK a \in Sectors, b \in Containers : from = <<a, b>> /\ a = from[1] /\ b = from[2]
  BY <1>4 DEF Places
<1>6. PICK m \in Sectors, n \in Containers : m = current /\ n = next - 1
  BY <1>2
<1>7. OldCleared(from)
  <2>1. to[1] = m /\ to[2] = n
    BY <1>2, <1>6
  <2>2. KindAt(to[1], to[2]) = "current" /\ flash[to[1]][to[2]].ix = flash[from[1]][from[2]].ix
    BY <2>1, <1>3, <1>4, <1>6
  <2> QED BY <2>2, <1>1, <1>2, <1>3, <1>4, OldCopyCleared
<1>8. /\ flash' \in Flash /\ OneEach'
      /\ \A s \in Sectors, c \in Containers :
            /\ BlankAt(s, c) => flash'[s][c] = flash[s][c]
            /\ BlankAt(s, c)' = BlankAt(s, c)
            /\ KindAt(s, c)' = "unused" <=> KindAt(s, c) = "unused"
            /\ s # a \/ c # b => flash'[s][c] = flash[s][c]
            /\ LiveAt(s, c)' <=> LiveAt(s, c) /\ ~ (s = a /\ c = b)
            /\ LiveAt(s, c)' => flash'[s][c].ix = flash[s][c].ix
      /\ \A s \in Sectors : /\ KeptIn(s)' = KeptIn(s)
                            /\ ClearedIn(s)' = IF s = a THEN ClearedIn(s) \cup {b}
                                                        ELSE ClearedIn(s)
                            /\ UnusedSector(s)' = UnusedSector(s)
                            /\ UsedSector(s)' = UsedSector(s)
                            /\ \A k \in 0 .. PerSector : Rescues(s, k) => Rescues(s, k)'
      /\ b \notin ClearedIn(a)
  BY <1>5, <1>7 DEF OldCleared
<1>9. Cells'
  <2>1. ASSUME NEW s \in Sectors, NEW c \in Containers
        PROVE  /\ LiveAt(s, c)' => flash'[s][c].ix \in Ixs
               /\ BlankAt(s, c)' => flash'[s][c].ix = 0 /\ flash'[s][c].data = Bits
    BY <1>2, <1>8 DEF Cells
  <2> QED BY <2>1 DEF Cells
<1>10. /\ cat' \in [Ixs -> Places \cup {NoEntry}] /\ cat'[index] = <<m, n>>
       /\ \A ix \in Ixs : ix # index => cat'[ix] = cat[ix]
  BY <1>1, <1>2, <1>6 DEF TypeOK
<1>11. /\ dirty'[a] = Cardinality(ClearedIn(a)') /\ dirty'[a] \in 0 .. PerSector
       /\ dirty' \in [Sectors -> 0 .. PerSector]
       /\ \A s \in Sectors : s # a => dirty'[s] = dirty[s]
  <2>1. dirty[a] = Cardinality(ClearedIn(a))
    BY <1>1, <1>2 DEF DirtyExact, Unprepared
  <2>2. Cardinality(ClearedIn(a) \cup {b}) = Cardinality(ClearedIn(a)) + 1
    BY <1>8, PartsFinite, OneMore
  <2>3. dirty \in [Sectors -> 0 .. PerSector] /\ dirty' = [dirty EXCEPT ![a] = dirty[a] + 1]
    BY <1>1, <1>2, <1>5 DEF TypeOK
  <2>4. dirty'[a] = dirty[a] + 1 /\ \A s \in Sectors : s # a => dirty'[s] = dirty[s]
    BY <2>3
  <2>5. ClearedIn(a) \cup {b} \in SUBSET Containers
    BY PartsFinite
  <2>6. Cardinality(ClearedIn(a) \cup {b}) \in 0 .. PerSector
    BY <2>5, ContainersFinite
  <2>7. dirty[a] + 1 \in 0 .. PerSector
    BY <2>1, <2>2, <2>6
  <2>8. dirty' \in [Sectors -> 0 .. PerSector]
    BY <2>3, <2>7
  <2> QED BY <2>1, <2>2, <2>4, <2>6, <2>8, <1>8
<1>12. step' # "prepare" /\ step # "prepare" /\ step' # "clear" /\ ~ InFlight'
  BY <1>1, <1>2 DEF InFlight
<1>13. DirtyExact'
  <2>1. ASSUME NEW s \in Sectors PROVE dirty'[s] = Cardinality(ClearedIn(s)')
    <3>1. CASE s = a
      BY <3>1, <1>11
    <3>2. CASE s # a
      BY <3>2, <1>2, <1>8, <1>11, <1>12 DEF DirtyExact, Unprepared
    <3> QED BY <3>1, <3>2
  <2> QED BY <2>1 DEF DirtyExact
<1>14. FreeExact'
  BY <1>1, <1>2, <1>8, <1>12 DEF FreeExact, Unprepared, TypeOK
<1>15. CurrentExact'
  <2>1. \A c \in Containers : IF c < next THEN ~ BlankAt(m, c) ELSE KindAt(m, c) = "unused"
    BY <1>2, <1>6 DEF CurrentExact
  <2>2. \A c \in Containers : IF c < next THEN ~ BlankAt(m, c)' ELSE KindAt(m, c)' = "unused"
    BY <2>1, <1>8
  <2> QED BY <2>2, <1>1, <1>6, <1>12 DEF CurrentExact, BlankAt, KindAt
<1>16. m # a \/ n # b
  BY <1>3, <1>5, <1>6
<1>17. CatExact'
  <2>1. ASSUME NEW ix \in Ixs, cat'[ix] # NoEntry
        PROVE  /\ flash'[cat'[ix][1]][cat'[ix][2]].kind \in {"current", "old"}
               /\ flash'[cat'[ix][1]][cat'[ix][2]].ix = ix
    <3>1. CASE ix = index
      <4>1. cat'[ix][1] = m /\ cat'[ix][2] = n
        BY <3>1, <1>10
      <4>2. LiveAt(m, n) /\ flash[m][n].ix = index
        BY <1>3, <1>6 DEF LiveAt
      <4>3. LiveAt(m, n)' /\ flash'[m][n].ix = index
        BY <4>2, <1>8, <1>16
      <4> QED BY <3>1, <4>1, <4>3 DEF LiveAt, KindAt
    <3>2. CASE ix # index
      <4>1. cat[ix] # NoEntry /\ cat'[ix] = cat[ix]
        BY <3>2, <2>1, <1>10
      <4>2. LiveAt(cat[ix][1], cat[ix][2]) /\ flash[cat[ix][1]][cat[ix][2]].ix = ix
        BY <4>1, <1>2 DEF CatExact
      <4>3. PICK s \in Sectors, c \in Containers : s = cat[ix][1] /\ c = cat[ix][2]
        BY <4>1, <1>2 DEF TypeOK, Places
      <4>4. s # a \/ c # b
        BY <4>2, <4>3, <3>2, <1>4, <1>5
      <4>5. LiveAt(s, c)' /\ flash'[s][c].ix = ix
        BY <4>2, <4>3, <4>4, <1>8
      <4> QED BY <4>1, <4>3, <4>5 DEF LiveAt, KindAt
    <3> QED BY <3>1, <3>2
  <2>2. ASSUME NEW s \in Sectors, NEW c \in Containers, LiveAt(s, c)'
        PROVE  cat'[flash'[s][c].ix] = <<s, c>>
    <3>1. /\ LiveAt(s, c) /\ ~ (s = a /\ c = b) /\ flash'[s][c].ix = flash[s][c].ix
          /\ flash[s][c].ix \in Ixs
      BY <2>2, <1>2, <1>8 DEF Cells
    <3>2. CASE s = m /\ c = n
      BY <3>1, <3>2, <1>3, <1>6, <1>10
    <3>3. CASE s # m \/ c # n
      <4>1. to # <<s, c>>
        BY <3>3, <1>2, <1>6
      <4>2. cat[flash[s][c].ix] = <<s, c>>
        BY <3>1, <4>1, <1>2 DEF CatExact
      <4>3. flash[s][c].ix # index
        BY <4>2, <3>1, <1>4, <1>5
      <4> QED BY <3>1, <4>2, <4>3, <1>10
    <3> QED BY <3>2, <3>3
  <2> QED BY <2>1, <2>2 DEF CatExact, LiveAt, KindAt
<1>18. phase = "write" => con = 0 /\ free # {} /\ request # <<>> /\ nth \in DOMAIN request
  BY <1>1 DEF IInv, WriteInv
<1>19. phase = "gc" => /\ request # <<>> => nth \in DOMAIN request
                       /\ sec \in Sectors /\ sec # current /\ free = {}
                       /\ UsedSector(sec) /\ RescueRoom
                       /\ \A c \in Containers : c < con => ~ LiveAt(sec, c)
                       /\ con < PerSector /\ from = <<sec, con>>
  BY <1>1 DEF IInv, GcInv
<1>20. TypeOK'
  <2>1. request' = <<>> \/ request' \in Memory!Writes'
    BY <1>1, <1>2 DEF TypeOK, Memory!Writes, Memory!Ixs
  <2>2. flash' \in [Sectors -> [Containers -> Container]]
    BY <1>8 DEF Flash
  <2>3. nth' \in 1 .. CatMax + 1
    <3>1. CASE phase = "gc"
      BY <3>1, <1>1, <1>2 DEF TypeOK
    <3>2. CASE phase = "write"
      <4>1. nth + 1 \in 1 .. CatMax + 1
        BY <3>2, <1>2, <1>18, RequestTyped
      <4> QED BY <4>1, <3>2, <1>1
    <3> QED BY <3>1, <3>2, <1>2
  <2>4. index' \in 0 .. CatMax /\ from' \in Places \cup {NoEntry} /\ to' \in Places \cup {NoEntry}
    BY <1>1, VesAssumption DEF NoJob
  <2>5. step' \in {"rest", "look", "wipe", "prepare", "choose",
                   "retire", "store", "clear", "update", "take"}
    BY <1>1
  <2>6. /\ free' \subseteq Sectors /\ current' \in Sectors
        /\ next' \in 0 .. PerSector /\ erased' \in Sectors
        /\ phase' \in {"off", "scan", "gc", "ready", "write"}
        /\ sec' \in 0 .. SectorCount
        /\ count' \in [unused : 0 .. PerSector, uninit : 0 .. PerSector, dirty : 0 .. PerSector]
    BY <1>1, <1>2 DEF TypeOK
  <2>7. con' \in 0 .. PerSector
    <3>1. con \in 0 .. PerSector
      BY <1>2 DEF TypeOK
    <3> QED BY <3>1, <1>1, <1>2, <1>19, VesAssumption
  <2> QED BY <2>1, <2>2, <2>3, <2>4, <2>5, <2>6, <2>7, <1>10, <1>11 DEF TypeOK
<1>21. CASE phase = "write"
  <2>1. WriteInv'
    BY <1>1, <1>18, <1>21 DEF WriteInv
  <2> QED BY <2>1, <1>1, <1>7, <1>8, <1>9, <1>13, <1>14, <1>15, <1>17, <1>20, <1>21, WriteGoesOn
<1>22. CASE phase = "gc"
  <2>1. /\ step' = "look" /\ con' = con + 1 /\ nth' = nth /\ a = sec /\ b = con
    BY <1>1, <1>5, <1>19, <1>22
  <2>2. Stored' = Stored
    BY <1>1, <1>12, <1>2 DEF Stored
  <2>3. KeptIn(sec)' = KeptIn(sec) /\ UsedSector(sec)'
    <3>1. KeptIn(a)' = KeptIn(a) /\ UsedSector(a)'
      BY <2>1, <1>8, <1>19, <1>22
    <3> QED BY <2>1, <3>1, <1>1 DEF KeptIn, KeptAt, UsedSector, BlankAt, KindAt
  <2>4. Rescues(current, Stored)'
    <3>1. Stored \in 0 .. PerSector
      BY <1>2 DEF Stored, TypeOK
    <3>2. PICK k \in 0 .. PerSector : k = Stored
      BY <3>1
    <3>3. Rescues(m, k)'
      BY <3>2, <1>6, <1>8, <1>19, <1>22 DEF RescueRoom
    <3> QED BY <2>2, <3>2, <3>3, <1>1, <1>6 DEF Rescues, KindAt
  <2>5. RescueRoom'
    <3>1. PICK w \in Sectors :
             /\ w # 0 /\ w # current
             /\ w # sec => Stored + Cardinality(KeptIn(sec)) + Cardinality(KeptIn(w)) < PerSector
      BY <1>19, <1>22 DEF RescueRoom
    <3>2. KeptIn(w)' = KeptIn(w)
      BY <1>8
    <3>3. Stored + Cardinality(KeptIn(sec)) < PerSector
      BY <1>19, <1>22 DEF RescueRoom
    <3> QED BY <2>2, <2>3, <2>4, <3>1, <3>2, <3>3, <1>1 DEF RescueRoom
  <2>6. \A c \in Containers : c < con' => ~ LiveAt(sec, c)'
    <3>1. con \in 0 .. PerSector
      BY <1>2 DEF TypeOK
    <3>2. \A c \in Containers : c < con + 1 => c < con \/ c = con
      BY <3>1 DEF Containers
    <3>3. \A c \in Containers : c < con + 1 => ~ LiveAt(a, c)'
      BY <2>1, <3>2, <1>8, <1>19, <1>22
    <3> QED BY <2>1, <3>3, <1>1 DEF LiveAt, KindAt
  <2>7. GcInv'
    BY <2>1, <2>3, <2>5, <2>6, <1>1, <1>19, <1>22 DEF GcInv
  <2> QED BY <2>7, <1>1, <1>7, <1>8, <1>9, <1>13, <1>14, <1>15, <1>17, <1>20, <1>22, GcGoesOn
<1> QED BY <1>2, <1>7, <1>21, <1>22

(* A write begins. *)
LEMMA WriteBegins ==
  ASSUME IInv, NEW lo \in Ixs, NEW hi \in lo .. CatMax, NEW d \in [lo .. hi -> Payloads],
         Write(lo, hi, d)
  PROVE  /\ IInv'
         /\ request' \in UNION {[1 .. n -> Ixs \X Payloads] : n \in 1 .. CatMax}
         /\ request' # <<>>
         /\ \A j, k \in DOMAIN request' : request'[j][1] = request'[k][1] => j = k
<1> DEFINE n == hi - lo + 1
<1>1. /\ phase = "ready" /\ phase' = "write" /\ step' = "update" /\ nth' = 1
      /\ request' = [k \in 1 .. n |-> <<lo + k - 1, d[lo + k - 1]>>]
      /\ flash' = flash /\ cat' = cat /\ dirty' = dirty /\ free' = free /\ current' = current
      /\ next' = next /\ erased' = erased /\ sec' = sec /\ con' = con /\ count' = count
      /\ index' = index /\ from' = from /\ to' = to
  BY DEF Write, flashRam, room, scan, job
<1>2. /\ TypeOK /\ Cells /\ OneEach /\ CatExact /\ DirtyExact /\ FreeExact /\ CurrentExact
      /\ step = "rest" /\ con = 0 /\ free # {}
  BY <1>1 DEF IInv, Tables, Running, ReadyInv
<1>3. n \in 1 .. CatMax /\ \A k \in 1 .. n : lo + k - 1 \in lo .. hi /\ lo + k - 1 \in Ixs
  BY VesAssumption DEF Ixs
<1>4. request' \in [1 .. n -> Ixs \X Payloads]
  <2>1. \A k \in 1 .. n : <<lo + k - 1, d[lo + k - 1]>> \in Ixs \X Payloads
    BY <1>3
  <2> QED BY <2>1, <1>1
<1>5. request' \in UNION {[1 .. k -> Ixs \X Payloads] : k \in 1 .. CatMax}
  BY <1>3, <1>4
<1>6. request' # <<>>
  <2>1. 1 \in DOMAIN request'
    BY <1>3, <1>4
  <2> QED BY <2>1
<1>7. /\ Cells' /\ OneEach' /\ CatExact' /\ DirtyExact' /\ FreeExact' /\ CurrentExact'
  <2>1. step \notin {"retire", "store", "clear", "prepare"}
    BY <1>2
  <2>2. step' \notin {"retire", "store", "clear", "prepare"}
    BY <1>1
  <2> QED BY <2>1, <2>2, <1>1, <1>2, TablesStay
<1>8. TypeOK'
  <2>1. request' \in Memory!Writes'
    BY <1>5 DEF Memory!Writes, Memory!Ixs, Ixs, Payloads
  <2>2. flash' \in [Sectors -> [Containers -> Container]] /\ 1 \in 1 .. CatMax + 1
    BY <1>1, <1>2, VesAssumption DEF TypeOK
  <2> QED BY <2>1, <2>2, <1>1, <1>2 DEF TypeOK
<1>9. WriteInv'
  BY <1>1, <1>2, <1>6 DEF WriteInv
<1>10. IInv'
  BY <1>1, <1>7, <1>8, <1>9, WriteGoesOn
<1>11. \A j, k \in DOMAIN request' : request'[j][1] = request'[k][1] => j = k
  <2>1. DOMAIN request' = 1 .. n /\ \A k \in 1 .. n : request'[k][1] = lo + k - 1
    BY <1>1
  <2>2. \A j, k \in 1 .. n : lo + j - 1 = lo + k - 1 => j = k
    BY DEF Ixs
  <2> QED BY <2>1, <2>2
<1> QED BY <1>5, <1>6, <1>10, <1>11

(* Where a write looks at its next pair. *)
LEMMA UpdatingSomewhere ==
  ASSUME IInv, Updating
  PROVE  /\ phase = "write" /\ step = "update" /\ nth \in DOMAIN request
         /\ TypeOK /\ Cells /\ OneEach
         /\ CatExact /\ DirtyExact /\ FreeExact /\ CurrentExact
         /\ current \in Sectors /\ next \in 0 .. PerSector /\ con = 0 /\ free # {}
         /\ free \subseteq Sectors /\ request # <<>>
         /\ Address \in Ixs /\ Payload \in Payloads /\ nth + 1 \in 1 .. CatMax + 1
<1>1. phase = "write" /\ step = "update" /\ nth \in DOMAIN request
  BY DEF Updating
<1> QED BY <1>1, Writing, RequestTyped

(* A payload that only clears bits is programmed over the old one. *)
LEMMA UpdateInPlaceKeeps ==
  ASSUME IInv, UpdateInPlace
  PROVE  /\ IInv' /\ SameKinds /\ flash' \in Flash
         /\ Address \in Ixs /\ cat[Address] \in Places
         /\ \A s \in Sectors, c \in Containers :
               /\ flash'[s][c] = flash[s][c] \/ cat[Address] = <<s, c>>
               /\ cat[Address] = <<s, c>> =>
                     flash'[s][c].data = Payload /\ Payload \subseteq flash[s][c].data
<1>1. /\ Updating /\ FitsInPlace /\ ProgramData(cat[Address], Payload)
      /\ cat' = cat /\ dirty' = dirty /\ free' = free /\ current' = current
      /\ next' = next /\ erased' = erased /\ phase' = phase /\ step' = step
      /\ sec' = sec /\ con' = con /\ count' = count
      /\ index' = index /\ from' = from /\ to' = to /\ request' = request /\ nth' = nth + 1
  BY DEF UpdateInPlace, room, at, scan, job
<1>2. /\ phase = "write" /\ step = "update"
      /\ TypeOK /\ Cells /\ OneEach /\ CatExact /\ DirtyExact /\ FreeExact /\ CurrentExact
      /\ current \in Sectors /\ con = 0 /\ free # {} /\ free \subseteq Sectors /\ request # <<>>
      /\ Address \in Ixs /\ Payload \in Payloads /\ nth + 1 \in 1 .. CatMax + 1
  BY <1>1, UpdatingSomewhere
<1>3. PICK x \in Ixs, d \in Payloads : x = Address /\ d = Payload
  BY <1>2
<1>4. cat[x] # NoEntry /\ cat[x] \in Places
  BY <1>1, <1>2, <1>3 DEF FitsInPlace, TypeOK
<1>5. PICK a \in Sectors, b \in Containers : cat[x] = <<a, b>> /\ a = cat[x][1] /\ b = cat[x][2]
  BY <1>4 DEF Places
<1>6. /\ flash' \in Flash
      /\ \A s \in Sectors, c \in Containers :
            /\ s # a \/ c # b => flash'[s][c] = flash[s][c]
            /\ flash'[s][c].kind = flash[s][c].kind
            /\ flash'[s][c].ix = flash[s][c].ix
      /\ flash'[a][b].data = flash[a][b].data \cap d
  <2>1. flash \in Flash
    BY <1>2 DEF TypeOK, Flash
  <2> QED BY <2>1, <1>1, <1>3, <1>4, <1>5, DataProgrammed
<1>7. LiveAt(a, b) /\ d \subseteq flash[a][b].data
  BY <1>1, <1>2, <1>3, <1>4, <1>5 DEF CatExact, FitsInPlace, At
<1>8. SameKinds
  BY <1>6 DEF SameKinds
<1>9. /\ OneEach'
      /\ \A s \in Sectors, c \in Containers : /\ KindAt(s, c)' = KindAt(s, c)
                                              /\ LiveAt(s, c)' = LiveAt(s, c)
                                              /\ BlankAt(s, c)' = BlankAt(s, c)
      /\ \A s \in Sectors : /\ ClearedIn(s)' = ClearedIn(s)
                            /\ UnusedSector(s)' = UnusedSector(s)
                            /\ UsedSector(s)' = UsedSector(s)
  BY <1>2, <1>8, KindsDecide
<1>10. Cells'
  <2>1. ASSUME NEW s \in Sectors, NEW c \in Containers
        PROVE  /\ LiveAt(s, c)' => flash'[s][c].ix \in Ixs
               /\ BlankAt(s, c)' => flash'[s][c].ix = 0 /\ flash'[s][c].data = Bits
    <3>1. ~ InFlight
      BY <1>2 DEF InFlight
    <3>2. BlankAt(s, c) => s # a \/ c # b
      BY <1>7 DEF LiveAt, BlankAt
    <3> QED BY <3>1, <3>2, <1>2, <1>6, <1>9 DEF Cells
  <2> QED BY <2>1 DEF Cells
<1>11. CatExact'
  <2>1. ASSUME NEW ix \in Ixs, cat[ix] # NoEntry
        PROVE  LiveAt(cat[ix][1], cat[ix][2])' /\ flash'[cat[ix][1]][cat[ix][2]].ix = ix
    <3>1. LiveAt(cat[ix][1], cat[ix][2]) /\ flash[cat[ix][1]][cat[ix][2]].ix = ix
      BY <2>1, <1>2 DEF CatExact
    <3>2. PICK s \in Sectors, c \in Containers : s = cat[ix][1] /\ c = cat[ix][2]
      BY <2>1, <1>2 DEF TypeOK, Places
    <3>3. LiveAt(s, c)' /\ flash'[s][c].ix = ix
      BY <3>1, <3>2, <1>6, <1>9
    <3> QED BY <3>2, <3>3, <1>1 DEF LiveAt, KindAt
  <2>2. ASSUME NEW s \in Sectors, NEW c \in Containers, LiveAt(s, c)'
        PROVE  cat[flash'[s][c].ix] = <<s, c>>
    <3>1. LiveAt(s, c) /\ flash'[s][c].ix = flash[s][c].ix /\ step # "clear"
      BY <2>2, <1>2, <1>6, <1>9
    <3> QED BY <3>1, <1>2 DEF CatExact
  <2> QED BY <2>1, <2>2, <1>1 DEF CatExact
<1>12. DirtyExact' /\ FreeExact'
  BY <1>1, <1>2, <1>9 DEF DirtyExact, FreeExact, Unprepared
<1>13. CurrentExact'
  <2>1. PICK m \in Sectors : m = current
    BY <1>2
  <2>2. ~ InFlight /\ ~ InFlight'
    BY <1>1, <1>2 DEF InFlight
  <2>3. \A c \in Containers : IF c < next THEN ~ BlankAt(m, c)' ELSE KindAt(m, c)' = "unused"
    BY <2>1, <2>2, <1>2, <1>9 DEF CurrentExact
  <2> QED BY <2>1, <2>2, <2>3, <1>1 DEF CurrentExact, BlankAt, KindAt
<1>14. TypeOK'
  <2>1. request' = <<>> \/ request' \in Memory!Writes'
    BY <1>1, <1>2 DEF TypeOK, Memory!Writes, Memory!Ixs
  <2>2. flash' \in [Sectors -> [Containers -> Container]]
    BY <1>6 DEF Flash
  <2> QED BY <2>1, <2>2, <1>1, <1>2 DEF TypeOK
<1>15. WriteInv' /\ phase' = "write"
  BY <1>1, <1>2 DEF WriteInv
<1>16. IInv'
  BY <1>9, <1>10, <1>11, <1>12, <1>13, <1>14, <1>15, WriteGoesOn
<1>17. ASSUME NEW s \in Sectors, NEW c \in Containers
       PROVE  /\ flash'[s][c] = flash[s][c] \/ cat[x] = <<s, c>>
              /\ cat[x] = <<s, c>> => flash'[s][c].data = d /\ d \subseteq flash[s][c].data
  <2>1. cat[x] = <<s, c>> <=> s = a /\ c = b
    BY <1>5
  <2>2. flash[a][b].data \cap d = d
    BY <1>7
  <2>3. CASE s = a /\ c = b
    BY <2>1, <2>2, <2>3, <1>6, <1>7
  <2>4. CASE s # a \/ c # b
    BY <2>1, <2>4, <1>6
  <2> QED BY <2>3, <2>4
<1> QED BY <1>3, <1>4, <1>6, <1>8, <1>16, <1>17

(* A free sector is taken when the current one is full, and a collection      *)
(* follows if it was the last.                                                *)
LEMMA GetFreeContainerKeeps == ASSUME IInv, GetFreeContainer PROVE IInv'
<1>1. /\ Updating
      /\ IF Full THEN TakeFreeSector(free) ELSE free' = free /\ current' = current /\ next' = next
      /\ IF Full /\ free' = {} THEN phase' = "gc" /\ step' = "choose"
                               ELSE phase' = phase /\ step' = "take"
      /\ flash' = flash /\ cat' = cat /\ dirty' = dirty /\ erased' = erased
      /\ sec' = sec /\ con' = con /\ count' = count
      /\ index' = index /\ from' = from /\ to' = to /\ request' = request /\ nth' = nth
  BY DEF GetFreeContainer, flashRam, scan, job, call
<1>2. /\ phase = "write" /\ step = "update" /\ nth \in DOMAIN request
      /\ TypeOK /\ Cells /\ OneEach /\ CatExact /\ DirtyExact /\ FreeExact /\ CurrentExact
      /\ current \in Sectors /\ next \in 0 .. PerSector
      /\ con = 0 /\ free # {} /\ free \subseteq Sectors /\ request # <<>>
  BY <1>1, UpdatingSomewhere
<1>3. TypeOK' <=> /\ free' \subseteq Sectors /\ current' \in Sectors /\ next' \in 0 .. PerSector
  <2>1. request' = <<>> \/ request' \in Memory!Writes'
    BY <1>1, <1>2 DEF TypeOK, Memory!Writes, Memory!Ixs
  <2>2. /\ flash' \in [Sectors -> [Containers -> Container]]
        /\ phase' \in {"off", "scan", "gc", "ready", "write"}
        /\ step' \in {"rest", "look", "wipe", "prepare", "choose",
                      "retire", "store", "clear", "update", "take"}
    BY <1>1, <1>2 DEF TypeOK
  <2> QED BY <2>1, <2>2, <1>1, <1>2 DEF TypeOK
<1>4. CASE ~ Full
  <2>1. /\ free' = free /\ current' = current /\ next' = next /\ phase' = "write"
        /\ step' = "take" /\ next < PerSector
    BY <1>1, <1>2, <1>4, VesAssumption DEF Full
  <2>2. TypeOK'
    BY <2>1, <1>2, <1>3
  <2>3. Cells' /\ OneEach' /\ CatExact' /\ DirtyExact' /\ FreeExact' /\ CurrentExact'
    <3>1. step \notin {"retire", "store", "clear", "prepare"}
      BY <1>2
    <3>2. step' \notin {"retire", "store", "clear", "prepare"}
      BY <2>1
    <3> QED BY <3>1, <3>2, <2>1, <1>1, <1>2, TablesStay
  <2>4. WriteInv'
    BY <2>1, <1>1, <1>2 DEF WriteInv
  <2> QED BY <2>1, <2>2, <2>3, <2>4, WriteGoesOn
<1>5. CASE Full
  <2>1. Lowest(free) \in free
    <3>1. free \in SUBSET Nat
      BY <1>2 DEF Sectors
    <3> QED BY <3>1, <1>2, LowestIsLeast
  <2>2. PICK m \in Sectors : m = Lowest(free)
    BY <2>1, <1>2
  <2> HIDE DEF Lowest
  <2>3. free' = free \ {m} /\ current' = m /\ next' = 0 /\ m \in free
    BY <2>1, <2>2, <1>1, <1>5 DEF TakeFreeSector
  <2>4. next = PerSector /\ 0 \in 0 .. PerSector /\ 0 < PerSector
    BY <1>2, <1>5, VesAssumption DEF Full
  <2>5. TypeOK'
    BY <2>3, <2>4, <1>2, <1>3
  <2>6. SameKinds
    BY <1>1 DEF SameKinds
  <2>7. /\ OneEach'
        /\ \A s \in Sectors : /\ ClearedIn(s)' = ClearedIn(s)
                              /\ UnusedSector(s)' = UnusedSector(s)
                              /\ UsedSector(s)' = UsedSector(s)
    BY <2>6, <1>2, KindsDecide
  <2>8. ~ InFlight /\ ~ InFlight' /\ step # "prepare" /\ step' # "prepare" /\ step # "clear"
    BY <1>1, <1>2 DEF InFlight
  <2>9. Cells'
    BY <2>8, <1>1, <1>2 DEF Cells, LiveAt, BlankAt, KindAt
  <2>10. CatExact'
    BY <2>8, <1>1, <1>2 DEF CatExact, LiveAt, KindAt
  <2>11. DirtyExact'
    BY <2>7, <2>8, <1>1, <1>2 DEF DirtyExact, Unprepared
  <2>12. UsedSector(current)
    <3>1. \A c \in Containers : c < next
      BY <2>4, VesAssumption DEF Containers
    <3> QED BY <3>1, <2>8, <1>2 DEF CurrentExact, UsedSector
  <2>13. FreeExact'
    <3>1. \A s \in Sectors : s \in free \/ UsedSector(s)
      BY <2>8, <2>12, <1>2 DEF FreeExact, Unprepared
    <3>2. \A s \in free : UnusedSector(s)
      BY <1>2 DEF FreeExact
    <3> QED BY <3>1, <3>2, <2>3, <2>7, <1>2 DEF FreeExact
  <2>14. CurrentExact'
    <3>1. \A c \in Containers : KindAt(m, c) = "unused" /\ ~ (c < 0)
      BY <2>3, <1>2 DEF FreeExact, UnusedSector, Containers
    <3> QED BY <3>1, <2>3, <1>1 DEF CurrentExact, KindAt
  <2>15. CASE free' = {}
    <3>1. phase' = "gc" /\ step' = "choose"
      BY <2>15, <1>1, <1>5
    <3>2. GcInv'
      BY <3>1, <2>3, <2>4, <1>1, <1>2 DEF GcInv, CollectorStarts
    <3> QED BY <3>1, <3>2, <2>5, <2>7, <2>9, <2>10, <2>11, <2>13, <2>14, GcGoesOn
  <2>16. CASE free' # {}
    <3>1. phase' = "write" /\ step' = "take"
      BY <2>16, <1>1, <1>2, <1>5
    <3>2. WriteInv'
      BY <3>1, <2>3, <2>4, <2>16, <1>1, <1>2 DEF WriteInv
    <3> QED BY <3>1, <3>2, <2>5, <2>7, <2>9, <2>10, <2>11, <2>13, <2>14, WriteGoesOn
  <2> QED BY <2>15, <2>16
<1> QED BY <1>4, <1>5

(* A write returns. *)
LEMMA ReturnKeeps == ASSUME IInv, Return PROVE IInv'
<1>1. /\ phase = "write" /\ step = "update" /\ phase' = "ready" /\ step' = "rest"
      /\ request' = <<>> /\ nth' = 1
      /\ flash' = flash /\ cat' = cat /\ dirty' = dirty /\ free' = free /\ current' = current
      /\ next' = next /\ erased' = erased /\ sec' = sec /\ con' = con /\ count' = count
      /\ index' = index /\ from' = from /\ to' = to
  BY DEF Return, flashRam, room, scan, job
<1>2. /\ TypeOK /\ Cells /\ OneEach /\ CatExact /\ DirtyExact /\ FreeExact /\ CurrentExact
      /\ con = 0 /\ free # {}
  BY <1>1, Writing
<1>3. /\ Cells' /\ OneEach' /\ CatExact' /\ DirtyExact' /\ FreeExact' /\ CurrentExact'
  <2>1. step \notin {"retire", "store", "clear", "prepare"}
    BY <1>1
  <2>2. step' \notin {"retire", "store", "clear", "prepare"}
    BY <1>1
  <2> QED BY <2>1, <2>2, <1>1, <1>2, TablesStay
<1>4. TypeOK'
  <2>1. flash' \in [Sectors -> [Containers -> Container]] /\ 1 \in 1 .. CatMax + 1
    BY <1>1, <1>2, VesAssumption DEF TypeOK
  <2> QED BY <2>1, <1>1, <1>2 DEF TypeOK
<1>5. ReadyInv'
  BY <1>1, <1>2 DEF ReadyInv
<1> QED BY <1>1, <1>3, <1>4, <1>5 DEF IInv, OffInv, ScanInv, Tables, GcInv, WriteInv

(* Whatever the driver does, a boot could start from the flash as it is.     *)
LEMMA ShapesAlways == ASSUME IInv, phase # "off" PROVE Shapes
<1>1. CASE phase = "scan"
  BY <1>1 DEF IInv, ScanInv
<1>2. CASE phase # "scan"
  <2>1. /\ TypeOK /\ FreeExact /\ CurrentExact /\ current \in Sectors /\ next \in 0 .. PerSector
    BY <1>2 DEF IInv, TypeOK, Tables, Running
  <2>2. 0 \in Containers /\ PerSector - 1 \in Containers
    BY VesAssumption DEF Containers
  <2>3. PICK m \in Sectors, n \in 0 .. PerSector :
           /\ m = current
           /\ \A c \in Containers : IF c < n THEN ~ BlankAt(m, c) ELSE KindAt(m, c) = "unused"
    <3>1. CASE ~ InFlight
      BY <3>1, <2>1 DEF CurrentExact
    <3>2. CASE InFlight
      <4>1. to = <<current, next - 1>> /\ next \in 1 .. PerSector
        BY <3>2, Moving DEF InFlight
      <4>2. next - 1 \in 0 .. PerSector
        BY <4>1, VesAssumption
      <4>3. \A c \in Containers : IF c < next - 1 THEN ~ BlankAt(current, c)
                                                  ELSE KindAt(current, c) = "unused"
        <5>1. \A c \in Containers : c < next /\ c # next - 1 <=> c < next - 1
          BY <4>1 DEF Containers
        <5>2. \A c \in Containers : to = <<current, c>> <=> c = next - 1
          BY <4>1
        <5> QED BY <5>1, <5>2, <3>2, <2>1 DEF CurrentExact
      <4> QED BY <4>2, <4>3, <2>1
    <3> QED BY <3>1, <3>2
  <2>4. LogSector(m)
    <3>1. \A c \in Containers : KindAt(m, c) # "uninitialized"
      BY <2>3 DEF BlankAt
    <3>2. ASSUME NEW c \in Containers, KindAt(m, c) = "unused", NEW d \in Containers, d > c
          PROVE  KindAt(m, d) = "unused"
      <4>1. ~ (c < n)
        BY <3>2, <2>3 DEF BlankAt
      <4>2. ~ (d < n)
        BY <4>1, <3>2, <2>3 DEF Containers
      <4> QED BY <4>2, <2>3
    <3> QED BY <3>1, <3>2 DEF LogSector
  <2>5. ASSUME NEW s \in Sectors, Unprepared(s) PROVE BlankSector(s)
    <3>1. step = "prepare" /\ s = sec
      BY <2>5 DEF Unprepared
    <3>2. phase = "gc"
      BY <3>1, <1>2 DEF IInv, TypeOK, WriteInv, ReadyInv
    <3> QED BY <3>1, <3>2 DEF IInv, GcInv, Preparing
  <2>6. \A s \in Sectors : UnusedSector(s) => BlankSector(s)
    BY DEF UnusedSector, BlankSector, BlankAt
  <2>7. \A s \in Sectors : UsedSector(s) => LogSector(s)
    BY DEF UsedSector, LogSector, BlankAt
  <2>8. ASSUME NEW s \in Sectors, PartialSector(s) PROVE s = m
    <3>1. ~ BlankSector(s)
      BY <2>8, <2>2 DEF PartialSector, BlankSector
    <3>2. ~ UsedSector(s)
      BY <2>8, <2>2 DEF PartialSector, UsedSector, BlankAt
    <3> QED BY <3>1, <3>2, <2>1, <2>3, <2>5, <2>6 DEF FreeExact
  <2>9. \A s \in Sectors : BlankSector(s) \/ LogSector(s)
    BY <2>1, <2>3, <2>4, <2>5, <2>6, <2>7 DEF FreeExact
  <2> QED BY <2>8, <2>9 DEF Shapes
<1> QED BY <1>1, <1>2

(* The next boot would find room to collect in, wherever power fails. *)
LEMMA RecoverableAlways == ASSUME IInv, phase # "off" PROVE Recoverable
<1>1. TypeOK /\ free \subseteq Sectors /\ current \in Sectors /\ next \in 0 .. PerSector
  BY DEF IInv, TypeOK
<1>2. ASSUME free # {}, \A s \in free : UnusedSector(s) PROVE Recoverable
  <2>1. PICK s \in Sectors : UnusedSector(s)
    BY <1>1, <1>2
  <2> QED BY <2>1 DEF Recoverable, NothingIn, UnusedSector, LiveAt
<1>3. CASE phase = "scan"
  <2>1. SpareLeft /\ \A s \in free : UnusedSector(s)
    BY <1>3 DEF IInv, ScanInv, FreeSeen
  <2> QED BY <2>1, <1>2 DEF SpareLeft, Recoverable
<1>4. ASSUME phase # "scan", free # {} PROVE Recoverable
  <2>1. FreeExact
    BY <1>4 DEF IInv, TypeOK, Tables, Running
  <2> QED BY <2>1, <1>2, <1>4 DEF FreeExact
<1>5. ASSUME phase = "gc", free = {} PROVE Recoverable
  <2>1. /\ step \in {"choose", "look", "retire", "store", "clear", "wipe", "prepare"}
        /\ CurrentExact /\ GcInv
    BY <1>5, Collecting DEF GcInv
  <2>2. CASE step = "choose"
    <3>1. CASE next = 0
      <4>1. \A c \in Containers : ~ (c < next)
        BY <3>1 DEF Containers
      <4>2. \A c \in Containers : KindAt(current, c) = "unused"
        BY <4>1, <2>1 DEF CurrentExact
      <4> QED BY <4>2, <1>1 DEF Recoverable, NothingIn, LiveAt
    <3>2. CASE next # 0
      <4>1. Rescues(current, next) /\ \E w \in Sectors :
               w # 0 /\ w # current /\ next + Cardinality(KeptIn(w)) < PerSector
        BY <3>2, <2>1, <2>2, <1>5 DEF GcInv, CollectorStarts
      <4>2. CanResume
        BY <4>1, <1>1 DEF CanResume
      <4> QED BY <4>2 DEF Recoverable
    <3> QED BY <3>1, <3>2
  <2>3. CASE step \in {"look", "retire", "store", "clear"}
    <3>1. RescueRoom /\ sec \in Sectors
      BY <2>1, <2>3, <1>5, Collecting DEF GcInv
    <3>2. Stored \in 0 .. PerSector
      <4>1. CASE InFlight
        <5>1. next \in 1 .. PerSector
          BY <4>1, Moving DEF InFlight
        <5> QED BY <4>1, <5>1, VesAssumption DEF Stored
      <4>2. CASE ~ InFlight
        BY <4>2, <1>1 DEF Stored
      <4> QED BY <4>1, <4>2
    <3>3. PICK w \in Sectors :
             /\ w # 0 /\ w # current
             /\ w # sec => Stored + Cardinality(KeptIn(sec)) + Cardinality(KeptIn(w)) < PerSector
      BY <3>1 DEF RescueRoom
    <3>4. Cardinality(KeptIn(sec)) \in 0 .. PerSector /\ Cardinality(KeptIn(w)) \in 0 .. PerSector
      BY <3>1, PartsFinite
    <3>5. Stored + Cardinality(KeptIn(w)) < PerSector
      <4>1. CASE w = sec
        BY <4>1, <3>1 DEF RescueRoom
      <4>2. CASE w # sec
        BY <4>2, <3>2, <3>3, <3>4, VesAssumption
      <4> QED BY <4>1, <4>2
    <3>6. CanResume
      BY <3>1, <3>2, <3>3, <3>5, <1>1 DEF CanResume, RescueRoom
    <3> QED BY <3>6 DEF Recoverable
  <2>4. CASE step \in {"wipe", "prepare"}
    <3>1. NothingIn(sec) /\ sec \in Sectors
      BY <2>1, <2>4, <1>5, Collecting DEF GcInv, Preparing
    <3> QED BY <3>1 DEF Recoverable
  <2> QED BY <2>1, <2>2, <2>3, <2>4
<1>6. phase \in {"ready", "write"} => free # {}
  BY DEF IInv, ReadyInv, WriteInv
<1> QED BY <1>1, <1>3, <1>4, <1>5, <1>6 DEF TypeOK

(* Power is lost. *)
LEMMA PowerLossKeeps == ASSUME Configured, IInv, PowerLoss PROVE IInv'
<1>1. /\ phase # "off" /\ ~ DataWithoutIndex
      /\ phase' = "off" /\ step' = "rest" /\ flash' = flash
      /\ cat' = [ix \in Ixs |-> NoEntry] /\ dirty' = [s \in Sectors |-> 0]
      /\ free' = {} /\ current' = 0 /\ next' = PerSector /\ erased' = 0
      /\ sec' = 0 /\ con' = 0 /\ count' = NoCount
      /\ index' = 0 /\ from' = NoEntry /\ to' = NoEntry
      /\ request' = <<>> /\ nth' = 1
  BY DEF PowerLoss, NoJob, Configured
<1>2. TypeOK /\ Cells /\ OneEach
  BY DEF IInv
<1>3. TypeOK'
  <2>1. /\ 0 \in Sectors /\ 0 \in 0 .. PerSector /\ PerSector \in 0 .. PerSector
        /\ 0 \in 0 .. SectorCount /\ 0 \in 0 .. CatMax /\ 1 \in 1 .. CatMax + 1
    BY VesAssumption DEF Sectors
  <2>2. flash' \in [Sectors -> [Containers -> Container]]
    BY <1>1, <1>2 DEF TypeOK
  <2>3. count' \in [unused : 0 .. PerSector, uninit : 0 .. PerSector, dirty : 0 .. PerSector]
    BY <1>1, <2>1 DEF NoCount
  <2> QED BY <2>1, <2>2, <2>3, <1>1 DEF TypeOK
<1>4. SameKinds
  BY <1>1 DEF SameKinds
<1>5. OneEach' /\ Shapes'
  BY <1>1, <1>2, <1>4, KindsDecide, ShapesAlways
<1>6. Recoverable'
  <2>1. Recoverable
    BY <1>1, RecoverableAlways
  <2>2. (\E s \in Sectors : NothingIn(s)) => \E s \in Sectors : NothingIn(s)'
    BY <1>4, KindsDecide
  <2>3. CanResume => CanResume'
    BY <1>4, KindsDecide DEF CanResume
  <2> QED BY <2>1, <2>2, <2>3 DEF Recoverable
<1>7. Cells'
  <2>1. ASSUME NEW s \in Sectors, NEW c \in Containers
        PROVE  /\ LiveAt(s, c) => flash[s][c].ix \in Ixs
               /\ BlankAt(s, c) => flash[s][c].ix = 0 /\ flash[s][c].data = Bits
    <3>1. KindAt(s, c) = "unused" => flash[s][c].data = Bits
      BY <1>1 DEF DataWithoutIndex, KindAt
    <3>2. InFlight /\ to = <<s, c>> => KindAt(s, c) = "unused"
      <4>1. SUFFICES ASSUME InFlight, to = <<s, c>> PROVE KindAt(s, c) = "unused"
        OBVIOUS
      <4>2. to = <<current, next - 1>> /\ KindAt(current, next - 1) = "unused"
        BY <4>1, Moving DEF InFlight
      <4>3. s = current /\ c = next - 1
        BY <4>1, <4>2
      <4> QED BY <4>2, <4>3
    <3> QED BY <3>1, <3>2, <1>2 DEF Cells
  <2> QED BY <2>1, <1>1 DEF Cells, LiveAt, BlankAt, KindAt
<1> QED BY <1>1, <1>3, <1>5, <1>6, <1>7
        DEF IInv, OffInv, ScanInv, Tables, Running, GcInv, WriteInv, ReadyInv

(* A step that changes nothing. *)
LEMMA NothingKeeps == ASSUME IInv, UNCHANGED vars PROVE IInv'
<1>1. /\ flash' = flash /\ cat' = cat /\ dirty' = dirty /\ free' = free /\ current' = current
      /\ next' = next /\ erased' = erased /\ phase' = phase /\ step' = step
      /\ sec' = sec /\ con' = con /\ count' = count
      /\ index' = index /\ from' = from /\ to' = to /\ request' = request /\ nth' = nth
  BY DEF vars, flashRam, room, at, scan, job, call
<1>2. TypeOK => TypeOK'
  BY <1>1 DEF TypeOK, Memory!Writes, Memory!Ixs
<1>3. Cells => Cells'
  BY <1>1 DEF Cells, LiveAt, BlankAt, KindAt, InFlight
<1>4. OneEach => OneEach'
  BY <1>1 DEF OneEach, LiveAt, KindAt
<1>5. Shapes => Shapes'
  BY <1>1 DEF Shapes, BlankSector, LogSector, PartialSector, BlankAt, KindAt
<1>6. \A s : /\ KeptIn(s)' = KeptIn(s) /\ ClearedIn(s)' = ClearedIn(s)
             /\ NothingIn(s)' = NothingIn(s) /\ UsedSector(s)' = UsedSector(s)
             /\ UnusedSector(s)' = UnusedSector(s)
  BY <1>1 DEF KeptIn, KeptAt, ClearedIn, NothingIn, UsedSector, UnusedSector, LiveAt, BlankAt,
              KindAt
<1>7. \A s, k : Rescues(s, k)' = Rescues(s, k)
  BY <1>1 DEF Rescues, KindAt
<1>8. CanResume => CanResume'
  BY <1>6, <1>7 DEF CanResume
<1>9. OffInv => OffInv'
  BY <1>1, <1>5, <1>6, <1>8 DEF OffInv, Recoverable
<1>10. Preparing => Preparing'
  BY <1>1 DEF Preparing, NothingIn, LiveAt, BlankSector, BlankAt, KindAt
<1>11. /\ CatSeen => CatSeen'
       /\ DirtySeen => DirtySeen'
       /\ FreeSeen => FreeSeen'
       /\ CurrentSeen => CurrentSeen'
       /\ SpareLeft => SpareLeft'
       /\ Counts => Counts'
  <2>1. CatSeen => CatSeen'
    BY <1>1 DEF CatSeen, Seen, LiveAt, KindAt
  <2>2. DirtySeen => DirtySeen'
    BY <1>1, <1>6 DEF DirtySeen
  <2>3. FreeSeen => FreeSeen'
    BY <1>1, <1>6 DEF FreeSeen, BlankAt, KindAt
  <2>4. CurrentSeen => CurrentSeen'
    BY <1>1 DEF CurrentSeen, PartialSector, BlankAt, KindAt
  <2>5. SpareLeft => SpareLeft'
    BY <1>1, <1>6, <1>8 DEF SpareLeft
  <2>6. LiveBefore' = LiveBefore /\ ClearedBefore' = ClearedBefore
    BY <1>1 DEF LiveBefore, ClearedBefore, LiveAt, KindAt
  <2>7. Counts => Counts'
    BY <2>6, <1>1 DEF Counts, BlankAt, KindAt
  <2> QED BY <2>1, <2>2, <2>3, <2>4, <2>5, <2>7
<1>12. ScanInv => ScanInv'
  BY <1>1, <1>5, <1>10, <1>11 DEF ScanInv
<1>13. CurrentExact => CurrentExact'
  BY <1>1 DEF CurrentExact, InFlight, BlankAt, KindAt
<1>14. CatExact => CatExact'
  BY <1>1 DEF CatExact, LiveAt, KindAt
<1>15. DirtyExact => DirtyExact'
  BY <1>1, <1>6 DEF DirtyExact, Unprepared
<1>16. FreeExact => FreeExact'
  BY <1>1, <1>6 DEF FreeExact, Unprepared
<1>17. Tables => Tables'
  BY <1>1, <1>13, <1>14, <1>15, <1>16 DEF Tables, Running
<1>18. Moves => Moves'
  BY <1>1 DEF Moves, KindAt
<1>19. RescueRoom => RescueRoom'
  <2>1. Stored' = Stored
    BY <1>1 DEF Stored, InFlight
  <2>2. KeptIn(sec)' = KeptIn(sec)
    BY <1>1 DEF KeptIn, KeptAt, KindAt
  <2>3. Rescues(current, Stored) => Rescues(current, Stored)'
    BY <2>1, <1>1 DEF Rescues, KindAt
  <2> QED BY <2>1, <2>2, <2>3, <1>1, <1>6 DEF RescueRoom
<1>20. CollectorStarts => CollectorStarts'
  <2>1. Rescues(current, next) => Rescues(current, next)'
    BY <1>1 DEF Rescues, KindAt
  <2> QED BY <2>1, <1>1, <1>6 DEF CollectorStarts
<1>21. GcInv => GcInv'
  <2>1. UsedSector(sec) => UsedSector(sec)'
    BY <1>1 DEF UsedSector, BlankAt, KindAt
  <2>2. \A c \in Containers : LiveAt(sec, c)' = LiveAt(sec, c)
    BY <1>1 DEF LiveAt, KindAt
  <2> QED BY <2>1, <2>2, <1>1, <1>10, <1>18, <1>19, <1>20 DEF GcInv
<1>22. WriteInv => WriteInv'
  BY <1>1, <1>18 DEF WriteInv, Address, Payload
<1>23. ReadyInv => ReadyInv'
  BY <1>1 DEF ReadyInv
<1> QED BY <1>2, <1>3, <1>4, <1>9, <1>12, <1>17, <1>21, <1>22, <1>23 DEF IInv

(* Every step of the driver keeps the invariant. *)
LEMMA StepKeeps == ASSUME Configured, IInv, [Next]_vars PROVE IInv'
<1>1. CASE Boot
  BY <1>1, BootKeeps
<1>2. CASE PowerLoss
  BY <1>2, PowerLossKeeps
<1>3. CASE \E lo \in Ixs : \E hi \in lo .. CatMax : \E d \in [lo .. hi -> Payloads] :
              Write(lo, hi, d)
  BY <1>3, WriteBegins
<1>4. CASE ScanUnused \/ ScanUninitialized \/ ScanCleared
  BY <1>4, ScanUnusedKeeps, ScanUninitializedKeeps, ScanClearedKeeps
<1>5. CASE ScanFirstCopy \/ ScanCurrentCopy \/ ScanOldCopy
  BY <1>5, ScanFirstCopyKeeps, ScanCurrentCopyKeeps, ScanOldCopyKeeps
<1>6. CASE FindFreeSector \/ RecycleSector \/ KeepSector \/ ScanDone
  BY <1>6, FindFreeSectorKeeps, RecycleSectorKeeps, KeepSectorKeeps, ScanDoneKeeps
<1>7. CASE Wipe \/ Prepare \/ ScanPrepared \/ GcPrepared
  BY <1>7, WipeKeeps, PrepareKeeps, ScanPreparedKeeps, GcPreparedKeeps
<1>8. CASE ChooseVictim \/ RescueNothing \/ Rescue \/ Rescued \/ Collected
  BY <1>8, ChooseVictimKeeps, RescueNothingKeeps, RescueKeeps, RescuedKeeps, CollectedKeeps
<1>9. CASE Retire \/ Store \/ Clear
  BY <1>9, RetireKeeps, CopyStoredKeeps, FirstCopyStoredKeeps, ClearKeeps
<1>10. CASE UpdateInPlace \/ GetFreeContainer \/ WriteData \/ Return
  BY <1>10, UpdateInPlaceKeeps, GetFreeContainerKeeps, WriteDataKeeps, ReturnKeeps
<1>11. CASE UNCHANGED vars
  BY <1>11, NothingKeeps
<1>12. Next => \/ Boot \/ PowerLoss
               \/ \E lo \in Ixs : \E hi \in lo .. CatMax : \E d \in [lo .. hi -> Payloads] :
                     Write(lo, hi, d)
               \/ ScanUnused \/ ScanUninitialized \/ ScanCleared
               \/ ScanFirstCopy \/ ScanCurrentCopy \/ ScanOldCopy
               \/ FindFreeSector \/ RecycleSector \/ KeepSector \/ ScanDone
               \/ Wipe \/ Prepare \/ ScanPrepared \/ GcPrepared
               \/ ChooseVictim \/ RescueNothing \/ Rescue \/ Rescued \/ Collected
               \/ Retire \/ Store \/ Clear
               \/ UpdateInPlace \/ GetFreeContainer \/ WriteData \/ Return
  BY Zenon DEF Next, Work
<1> QED BY <1>1, <1>2, <1>3, <1>4, <1>5, <1>6, <1>7, <1>8, <1>9, <1>10, <1>11, <1>12, Zenon

(* The driver keeps its invariant, through any sequence of writes,           *)
(* collections, losses of power and boots.                                   *)
THEOREM InvariantHolds == Configured => (Spec => []IInv)
<1> SUFFICES ASSUME Configured PROVE Spec => []IInv
  OBVIOUS
<1>1. Init => IInv
  BY InitHolds
<1>2. IInv /\ [Next]_vars => IInv'
  BY StepKeeps
<1> QED BY <1>1, <1>2, PTL DEF Spec

(* The variables of the driver keep their types: no dirty count passes the   *)
(* size of a sector, no table names a place outside the partition, and the   *)
(* loops stay within their bounds.                                           *)
THEOREM TypeCorrect == Configured => (Spec => []TypeOK)
<1> SUFFICES ASSUME Configured PROVE Spec => []TypeOK
  OBVIOUS
<1>1. IInv => TypeOK
  BY DEF IInv
<1>2. Spec => []IInv
  BY InvariantHolds
<1> QED BY <1>1, <1>2, PTL

(* A sector that holds a container that is not cleared has fewer cleared     *)
(* ones than containers.                                                     *)
LEMMA NotAllCleared ==
  ASSUME NEW s \in Sectors, NEW c \in Containers, KindAt(s, c) # "cleared"
  PROVE  Cardinality(ClearedIn(s)) < PerSector
<1>1. c \notin ClearedIn(s)
  BY DEF ClearedIn
<1> QED BY <1>1, PartsFinite, ContainersFinite

(* The invariant implies that no assertion fails. *)
LEMMA InvariantAsserts == ASSUME IInv PROVE AssertsHold
<1>1. ASSUME Updating, ~ FitsInPlace, Full PROVE free # {}
  BY <1>1 DEF IInv, WriteInv, Updating
<1>2. ASSUME step = "take" PROVE next < PerSector
  BY <1>2 DEF IInv, TypeOK, OffInv, ScanInv, GcInv, WriteInv, ReadyInv
<1>3. ASSUME step = "clear" PROVE dirty[from[1]] < PerSector
  <2>1. from # NoEntry /\ KindAt(from[1], from[2]) = "old" /\ DirtyExact
    BY <1>3, Moving DEF Moves
  <2>2. PICK a \in Sectors, b \in Containers : a = from[1] /\ b = from[2]
    BY <2>1, <1>3, Moving
  <2>3. dirty[a] = Cardinality(ClearedIn(a))
    BY <2>1, <1>3 DEF DirtyExact, Unprepared
  <2> QED BY <2>1, <2>2, <2>3, NotAllCleared
<1>4. ASSUME SectorScanned, ~ NothingLive PROVE count.dirty <= PerSector
  <2>1. count.dirty \in 0 .. PerSector
    BY DEF IInv, TypeOK
  <2> QED BY <2>1, VesAssumption
<1>5. ASSUME Scanning, Cell.kind = "current", cat[Cell.ix] # NoEntry, cat[Cell.ix][1] # sec
      PROVE  dirty[cat[Cell.ix][1]] < PerSector
  <2>1. /\ phase = "scan" /\ step = "look" /\ sec < SectorCount /\ con < PerSector
    BY <1>5 DEF Scanning
  <2>2. /\ TypeOK /\ Cells /\ CatSeen /\ DirtySeen /\ sec \in Sectors /\ con \in Containers
    BY <2>1, ScanningSomewhere, VesAssumption DEF Containers
  <2>3. flash[sec][con].ix \in Ixs
    BY <2>2, <1>5 DEF Cells, Cell, LiveAt, KindAt
  <2>4. PICK x \in Ixs : x = Cell.ix
    BY <2>3 DEF Cell
  <2>5. PICK a \in Sectors, b \in Containers : a = cat[x][1] /\ b = cat[x][2]
    BY <2>2, <2>4, <1>5 DEF TypeOK, Places
  <2>6. Seen(a, b) /\ LiveAt(a, b)
    BY <2>2, <2>4, <2>5, <1>5 DEF CatSeen
  <2>7. a < sec
    BY <2>4, <2>5, <2>6, <1>5 DEF Seen
  <2>8. dirty[a] = Cardinality(ClearedIn(a))
    BY <2>2, <2>7 DEF DirtySeen
  <2> QED BY <2>4, <2>5, <2>6, <2>8, NotAllCleared DEF LiveAt
<1> QED BY <1>1, <1>2, <1>3, <1>4, <1>5 DEF AssertsHold

(* No assertion of the driver fails (ad_nvms_ves.c): a write always finds a  *)
(* free sector and a free container, and no dirty count passes the size of a *)
(* sector, whatever was interrupted before.                                  *)
THEOREM AssertionsHold == Configured => (Spec => []AssertsHold)
<1> SUFFICES ASSUME Configured PROVE Spec => []AssertsHold
  OBVIOUS
<1>1. IInv => AssertsHold
  BY InvariantAsserts
<1>2. Spec => []IInv
  BY InvariantHolds
<1> QED BY <1>1, <1>2, PTL

(* The invariant implies that the tables are exact between operations. *)
LEMMA InvariantTables == ASSUME IInv PROVE TablesExact
<1>1. SUFFICES ASSUME phase = "ready"
               PROVE  /\ \A ix \in Ixs :
                            Copies(ix, "current") \cup Copies(ix, "old") = {cat[ix]} \ {NoEntry}
                      /\ \A s \in Sectors : dirty[s] = Cardinality(ClearedIn(s))
                      /\ free # {} /\ current \notin free
                      /\ \A s \in Sectors, c \in Containers :
                            s \in free \/ (s = current /\ c >= next)
                               => KindAt(s, c) = "unused" /\ flash[s][c].data = Bits
  BY DEF TablesExact, ClearedIn, KindAt
<1>2. /\ TypeOK /\ Cells /\ CatExact /\ DirtyExact /\ FreeExact /\ CurrentExact
      /\ step = "rest" /\ free # {} /\ next \in 0 .. PerSector /\ current \in Sectors
  BY <1>1 DEF IInv, Tables, Running, ReadyInv, TypeOK
<1>3. ASSUME NEW ix \in Ixs
      PROVE  Copies(ix, "current") \cup Copies(ix, "old") = {cat[ix]} \ {NoEntry}
  <2>1. ASSUME NEW p \in Copies(ix, "current") \cup Copies(ix, "old")
        PROVE  p = cat[ix] /\ p # NoEntry
    <3>1. PICK s \in Sectors, c \in Containers : p = <<s, c>>
      BY DEF Copies, Places
    <3>2. LiveAt(s, c) /\ flash[s][c].ix = ix
      BY <2>1, <3>1 DEF Copies, At, LiveAt, KindAt
    <3>3. cat[ix] = <<s, c>>
      BY <3>2, <1>2 DEF CatExact
    <3> QED BY <3>1, <3>3 DEF NoEntry, Sectors
  <2>2. ASSUME cat[ix] # NoEntry
        PROVE  cat[ix] \in Copies(ix, "current") \cup Copies(ix, "old")
    <3>1. cat[ix] \in Places /\ LiveAt(cat[ix][1], cat[ix][2])
          /\ flash[cat[ix][1]][cat[ix][2]].ix = ix
      BY <2>2, <1>2 DEF TypeOK, CatExact
    <3> QED BY <3>1 DEF Copies, At, LiveAt, KindAt
  <2> QED BY <2>1, <2>2
<1>4. \A s \in Sectors : dirty[s] = Cardinality(ClearedIn(s))
  BY <1>2 DEF DirtyExact, Unprepared
<1>5. ASSUME NEW s \in Sectors, NEW c \in Containers, s \in free \/ (s = current /\ c >= next)
      PROVE  KindAt(s, c) = "unused" /\ flash[s][c].data = Bits
  <2>1. ~ InFlight
    BY <1>2 DEF InFlight
  <2>2. KindAt(s, c) = "unused"
    <3>1. CASE s \in free
      BY <3>1, <1>2 DEF FreeExact, UnusedSector
    <3>2. CASE s = current /\ c >= next
      <4>1. ~ (c < next)
        BY <3>2, <1>2 DEF Containers
      <4> QED BY <2>1, <3>2, <4>1, <1>2 DEF CurrentExact
    <3> QED BY <3>1, <3>2, <1>5
  <2> QED BY <2>1, <2>2, <1>2 DEF Cells, BlankAt
<1>6. current \notin free
  BY <1>2 DEF FreeExact
<1> QED BY <1>2, <1>3, <1>4, <1>5, <1>6

(* Between operations the tables in RAM tell the truth about the flash: each *)
(* address has one live copy at most, the one its entry names, the dirty     *)
(* counts are right, and the free containers are erased.                     *)
THEOREM TablesTrue == Configured => (Spec => []TablesExact)
<1> SUFFICES ASSUME Configured PROVE Spec => []TablesExact
  OBVIOUS
<1>1. IInv => TablesExact
  BY InvariantTables
<1>2. Spec => []IInv
  BY InvariantHolds
<1> QED BY <1>1, <1>2, PTL

----------------------------------------------------------------------------
(* What a step may do to the flash                                          *)

(* A step that leaves the flash alone clears no bits. *)
LEMMA NothingProgrammed == ASSUME flash' = flash PROVE BitsCleared
BY DEF BitsCleared, Clears

(* One container is programmed, in a way that clears bits. *)
LEMMA OneProgrammed ==
  ASSUME NEW a \in Sectors, NEW b \in Containers, Clears(flash[a][b], flash'[a][b]),
         \A s \in Sectors, c \in Containers : s # a \/ c # b => flash'[s][c] = flash[s][c]
  PROVE  BitsCleared
<1>1. ASSUME NEW s \in Sectors, NEW c \in Containers PROVE Clears(flash[s][c], flash'[s][c])
  <2>1. CASE s = a /\ c = b
    BY <2>1
  <2>2. CASE s # a \/ c # b
    <3>1. flash'[s][c] = flash[s][c]
      BY <2>2
    <3> QED BY <3>1 DEF Clears
  <2> QED BY <2>1, <2>2
<1> QED BY <1>1 DEF BitsCleared

(* A container can be cleared at any time. *)
LEMMA ClearedProgrammed ==
  ASSUME TypeOK, NEW p \in Places, ProgramIndex(p, "cleared", 0)
  PROVE  BitsCleared
<1>1. PICK a \in Sectors, b \in Containers : a = p[1] /\ b = p[2]
  BY DEF Places
<1>2. flash \in Flash /\ "cleared" \in IndexKinds /\ 0 \in 0 .. CatMax
  BY VesAssumption DEF TypeOK, Flash, IndexKinds
<1>3. /\ flash'[a][b].kind = "cleared"
      /\ \A s \in Sectors, c \in Containers : s # a \/ c # b => flash'[s][c] = flash[s][c]
  BY <1>1, <1>2, IndexProgrammed
<1>4. Clears(flash[a][b], flash'[a][b])
  BY <1>3 DEF Clears
<1> QED BY <1>3, <1>4, OneProgrammed

(* The scan clears old copies. *)
LEMMA ScanClearsBits ==
  ASSUME IInv, ScanCurrentCopy \/ ScanOldCopy
  PROVE  BitsCleared
<1>1. phase = "scan" /\ step = "look" /\ sec < SectorCount /\ con < PerSector
  BY DEF ScanCurrentCopy, ScanOldCopy, Scanning
<1>2. TypeOK /\ Cells /\ sec \in Sectors /\ con \in Containers
  BY <1>1, ScanningSomewhere, VesAssumption DEF Containers
<1>3. CASE ScanOldCopy
  <2>1. <<sec, con>> \in Places /\ ProgramIndex(<<sec, con>>, "cleared", 0)
    BY <1>2, <1>3 DEF ScanOldCopy, Places
  <2> QED BY <2>1, <1>2, ClearedProgrammed
<1>4. CASE ScanCurrentCopy
  <2>1. Cell.kind = "current" /\ cat[Cell.ix] # NoEntry /\ ProgramIndex(cat[Cell.ix], "cleared", 0)
    BY <1>4 DEF ScanCurrentCopy
  <2>2. Cell.ix \in Ixs
    BY <2>1, <1>2 DEF Cells, Cell, LiveAt, KindAt
  <2>3. cat[Cell.ix] \in Places
    BY <2>1, <2>2, <1>2 DEF TypeOK
  <2> QED BY <2>1, <2>3, <1>2, ClearedProgrammed
<1> QED BY <1>3, <1>4

(* An erase is one of a whole sector. *)
LEMMA WipeErases == ASSUME IInv, Wipe PROVE BitsCleared
<1>1. phase \in {"scan", "gc"} /\ step = "wipe"
  BY DEF IInv, TypeOK, OffInv, WriteInv, ReadyInv, Wipe
<1>2. sec \in Sectors /\ TypeOK
  BY <1>1, ScanPreparing, Collecting
<1>3. flash' = [flash EXCEPT ![sec] = [c \in Containers |-> Erased]]
  BY DEF Wipe, EraseSector
<1>4. /\ flash'[sec] = [c \in Containers |-> Erased]
      /\ \A s \in Sectors : s # sec => flash'[s] = flash[s]
  BY <1>2, <1>3 DEF TypeOK
<1> QED BY <1>4 DEF BitsCleared, Clears

(* A prepared container was erased before. *)
LEMMA PrepareClearsBits == ASSUME IInv, Prepare PROVE BitsCleared
<1>1. phase \in {"scan", "gc"} /\ step = "prepare" /\ con < PerSector
  BY DEF IInv, TypeOK, OffInv, WriteInv, ReadyInv, Prepare
<1>2. /\ sec \in Sectors /\ TypeOK /\ Preparing /\ Cells
  BY <1>1, ScanPreparing, Collecting DEF GcInv
<1>3. con \in Containers /\ <<sec, con>> \in Places
  BY <1>1, <1>2, VesAssumption DEF TypeOK, Containers, Places
<1>4. /\ flash'[sec][con] \in Container
      /\ flash'[sec][con].kind = "unused" /\ flash'[sec][con].ix = 0
      /\ flash'[sec][con].data = flash[sec][con].data
      /\ \A s \in Sectors, c \in Containers : s # sec \/ c # con => flash'[s][c] = flash[s][c]
  <2>1. flash \in Flash /\ "unused" \in IndexKinds /\ 0 \in 0 .. CatMax
    BY <1>2, VesAssumption DEF TypeOK, Flash, IndexKinds
  <2>2. ProgramIndex(<<sec, con>>, "unused", 0)
    BY DEF Prepare
  <2> QED BY <2>1, <2>2, <1>2, <1>3, IndexProgrammed DEF Flash
<1>5. /\ flash[sec][con] \in Container
      /\ flash[sec][con].kind \in {"unused", "uninitialized"} /\ flash[sec][con].ix = 0
  BY <1>1, <1>2, <1>3 DEF TypeOK, Preparing, BlankSector, Cells, BlankAt, KindAt
<1>6. Clears(flash[sec][con], flash'[sec][con])
  <2>1. CASE flash[sec][con].kind = "uninitialized"
    BY <2>1, <1>4 DEF Clears
  <2>2. CASE flash[sec][con].kind = "unused"
    <3>1. flash'[sec][con] = flash[sec][con]
      BY <2>2, <1>4, <1>5 DEF Container
    <3> QED BY <3>1 DEF Clears
  <2> QED BY <2>1, <2>2, <1>5
<1> QED BY <1>2, <1>3, <1>4, <1>6, OneProgrammed

(* The data of a new container goes to an erased one. *)
LEMMA DataClearsBits ==
  ASSUME TypeOK, Cells, CurrentExact, next < PerSector, ~ InFlight,
         NEW d \in Payloads, ProgramData(<<current, next>>, d)
  PROVE  BitsCleared
<1>1. /\ current \in Sectors /\ next \in Containers /\ next \in Nat
      /\ <<current, next>> \in Places
  <2>1. current \in Sectors /\ next \in Containers /\ next \in Nat
    BY VesAssumption DEF TypeOK, Containers
  <2> QED BY <2>1 DEF Places
<1>2. /\ \A s \in Sectors, c \in Containers :
            /\ s # current \/ c # next => flash'[s][c] = flash[s][c]
            /\ flash'[s][c].kind = flash[s][c].kind
            /\ flash'[s][c].ix = flash[s][c].ix
      /\ flash'[current][next].data = flash[current][next].data \cap d
  <2>1. flash \in Flash
    BY DEF TypeOK, Flash
  <2> QED BY <2>1, <1>1, DataProgrammed
<1>3. flash[current][next].kind = "unused" /\ flash[current][next].data = Bits
  <2>1. ~ (next < next)
    BY <1>1
  <2> QED BY <2>1, <1>1 DEF CurrentExact, Cells, BlankAt, KindAt
<1>4. Clears(flash[current][next], flash'[current][next])
  BY <1>1, <1>2, <1>3 DEF Clears
<1> QED BY <1>1, <1>2, <1>4, OneProgrammed

(* The index of a new container was unused; that of an old one is cleared by steps. *)
LEMMA MoveClearsBits == ASSUME IInv, Retire \/ Store \/ Clear PROVE BitsCleared
<1>1. step \in {"retire", "store", "clear"}
  BY DEF Retire, Store, Clear
<1>2. /\ TypeOK /\ Moves /\ current \in Sectors /\ next - 1 \in Containers
      /\ to = <<current, next - 1>> /\ to \in Places /\ index \in Ixs
      /\ InFlight => KindAt(current, next - 1) = "unused"
  BY <1>1, Moving
<1>3. flash \in Flash /\ index \in 0 .. CatMax /\ {"old", "current", "cleared"} \subseteq IndexKinds
  BY <1>2 DEF TypeOK, Flash, IndexKinds, Ixs
<1>4. CASE Retire
  <2>1. from # NoEntry /\ ProgramIndex(from, "old", index)
    BY <1>2, <1>4 DEF Moves, Retire
  <2>2. from \in Places /\ LiveAt(from[1], from[2]) /\ flash[from[1]][from[2]].ix = index
    BY <2>1, <1>1, Moving
  <2>3. PICK a \in Sectors, b \in Containers : a = from[1] /\ b = from[2]
    BY <2>2 DEF Places
  <2>4. /\ flash' \in Flash
        /\ flash'[a][b].kind = "old" /\ flash'[a][b].ix = index
        /\ flash'[a][b].data = flash[a][b].data
        /\ \A s \in Sectors, c \in Containers : s # a \/ c # b => flash'[s][c] = flash[s][c]
    BY <2>1, <2>2, <2>3, <1>3, IndexProgrammed
  <2>5. Clears(flash[a][b], flash'[a][b])
    <3>1. CASE flash[a][b].kind = "current"
      BY <3>1, <2>2, <2>3, <2>4 DEF Clears
    <3>2. CASE flash[a][b].kind = "old"
      <4>1. flash[a][b] \in Container /\ flash'[a][b] \in Container
        BY <2>4, <1>3 DEF Flash
      <4>2. flash'[a][b] = flash[a][b]
        BY <4>1, <3>2, <2>2, <2>3, <2>4 DEF Container
      <4> QED BY <4>2 DEF Clears
    <3> QED BY <3>1, <3>2, <2>2, <2>3 DEF LiveAt, KindAt
  <2> QED BY <2>4, <2>5, OneProgrammed
<1>5. CASE Store
  <2>1. ProgramIndex(to, "current", index) /\ KindAt(current, next - 1) = "unused"
    BY <1>2, <1>5 DEF Store, InFlight
  <2>2. PICK a \in Sectors, b \in Containers : a = to[1] /\ b = to[2] /\ KindAt(a, b) = "unused"
    BY <2>1, <1>2
  <2>3. /\ flash'[a][b].kind = "current" /\ flash'[a][b].data = flash[a][b].data
        /\ \A s \in Sectors, c \in Containers : s # a \/ c # b => flash'[s][c] = flash[s][c]
    BY <2>1, <2>2, <1>2, <1>3, IndexProgrammed
  <2>4. Clears(flash[a][b], flash'[a][b])
    BY <2>2, <2>3 DEF Clears, KindAt
  <2> QED BY <2>3, <2>4, OneProgrammed
<1>6. CASE Clear
  <2>1. step = "clear" /\ ProgramIndex(from, "cleared", 0)
    BY <1>6 DEF Clear
  <2>2. from # NoEntry
    BY <2>1, <1>2 DEF Moves
  <2>3. from \in Places
    BY <2>1, <2>2, Moving
  <2> QED BY <2>1, <2>3, <1>2, ClearedProgrammed
<1> QED BY <1>4, <1>5, <1>6

(* An update in place removes bits of the copy in use. *)
LEMMA UpdateClearsBits == ASSUME IInv, UpdateInPlace PROVE BitsCleared
<1>1. /\ SameKinds /\ Address \in Ixs /\ cat[Address] \in Places
      /\ \A s \in Sectors, c \in Containers :
            /\ flash'[s][c] = flash[s][c] \/ cat[Address] = <<s, c>>
            /\ cat[Address] = <<s, c>> =>
                  flash'[s][c].data = Payload /\ Payload \subseteq flash[s][c].data
  BY UpdateInPlaceKeeps
<1>2. PICK a \in Sectors, b \in Containers : cat[Address] = <<a, b>>
  BY <1>1 DEF Places
<1>3. flash[a][b].kind \in {"current", "old"}
  <2>1. Updating /\ FitsInPlace
    BY DEF UpdateInPlace
  <2>2. CatExact
    BY <2>1, UpdatingSomewhere
  <2>3. LiveAt(cat[Address][1], cat[Address][2])
    BY <2>1, <2>2, <1>1 DEF CatExact, FitsInPlace
  <2> QED BY <2>3, <1>2 DEF LiveAt, KindAt
<1>4. Clears(flash[a][b], flash'[a][b])
  <2>1. /\ flash'[a][b].kind = flash[a][b].kind /\ flash'[a][b].ix = flash[a][b].ix
        /\ flash'[a][b].data \subseteq flash[a][b].data
    BY <1>1, <1>2 DEF SameKinds
  <2> QED BY <2>1, <1>3 DEF Clears, Live
<1>5. \A s \in Sectors, c \in Containers : s # a \/ c # b => flash'[s][c] = flash[s][c]
  BY <1>1, <1>2
<1> QED BY <1>4, <1>5, OneProgrammed

(* Every step erases whole sectors or clears bits. *)
LEMMA StepClearsBits == ASSUME IInv, [Next]_vars PROVE BitsCleared
<1>1. CASE \/ Boot \/ PowerLoss
           \/ \E lo \in Ixs : \E hi \in lo .. CatMax : \E d \in [lo .. hi -> Payloads] :
                 Write(lo, hi, d)
           \/ ScanUnused \/ ScanUninitialized \/ ScanCleared \/ ScanFirstCopy
           \/ FindFreeSector \/ RecycleSector \/ ScanDone \/ ScanPrepared \/ GcPrepared
           \/ ChooseVictim \/ RescueNothing \/ Rescued \/ Collected
           \/ GetFreeContainer \/ Return \/ UNCHANGED vars
  <2>1. flash' = flash
    BY <1>1 DEF Boot, PowerLoss, Write, ScanUnused, ScanUninitialized, ScanCleared,
                ScanFirstCopy, FindFreeSector, RecycleSector, ScanDone, ScanPrepared, GcPrepared,
                ChooseVictim, RescueNothing, Rescued, Collected, GetFreeContainer, Return,
                vars, flashRam
  <2> QED BY <2>1, NothingProgrammed
<1>2. CASE KeepSector
  BY <1>2, KeepSectorKeeps, NothingProgrammed
<1>3. CASE ScanCurrentCopy \/ ScanOldCopy
  BY <1>3, ScanClearsBits
<1>4. CASE Wipe \/ Prepare
  BY <1>4, WipeErases, PrepareClearsBits
<1>5. CASE Rescue
  <2>1. phase = "gc" /\ step = "look" /\ con < PerSector
    BY <1>5 DEF Rescue, Rescuing
  <2>2. /\ TypeOK /\ Cells /\ CurrentExact /\ ~ Full /\ next < PerSector
        /\ sec \in Sectors /\ con \in Containers /\ ~ InFlight
    BY <2>1, Collecting, RescuingRoom DEF InFlight
  <2>3. PICK d \in Payloads : d = Cell.data
    BY <2>2 DEF TypeOK, Container, Cell
  <2>4. ProgramData(<<current, next>>, d)
    BY <2>2, <2>3, <1>5 DEF Rescue
  <2> QED BY <2>2, <2>4, DataClearsBits
<1>6. CASE Retire \/ Store \/ Clear
  BY <1>6, MoveClearsBits
<1>7. CASE UpdateInPlace
  BY <1>7, UpdateClearsBits
<1>8. CASE WriteData
  <2>1. step = "take" /\ next < PerSector /\ phase = "write"
    BY <1>8 DEF IInv, TypeOK, OffInv, ScanInv, GcInv, ReadyInv, WriteData
  <2>2. TypeOK /\ Cells /\ CurrentExact /\ nth \in DOMAIN request /\ ~ InFlight
    BY <2>1, Writing DEF WriteInv, InFlight
  <2>3. PICK d \in Payloads : d = Payload
    BY <2>2, RequestTyped
  <2>4. ProgramData(<<current, next>>, d)
    BY <2>3, <1>8 DEF WriteData
  <2> QED BY <2>1, <2>2, <2>4, DataClearsBits
<1>9. Next => \/ Boot \/ PowerLoss
              \/ \E lo \in Ixs : \E hi \in lo .. CatMax : \E d \in [lo .. hi -> Payloads] :
                    Write(lo, hi, d)
              \/ ScanUnused \/ ScanUninitialized \/ ScanCleared
              \/ ScanFirstCopy \/ ScanCurrentCopy \/ ScanOldCopy
              \/ FindFreeSector \/ RecycleSector \/ KeepSector \/ ScanDone
              \/ Wipe \/ Prepare \/ ScanPrepared \/ GcPrepared
              \/ ChooseVictim \/ RescueNothing \/ Rescue \/ Rescued \/ Collected
              \/ Retire \/ Store \/ Clear
              \/ UpdateInPlace \/ GetFreeContainer \/ WriteData \/ Return
  BY Zenon DEF Next, Work
<1> QED BY <1>1, <1>2, <1>3, <1>4, <1>5, <1>6, <1>7, <1>8, <1>9, Zenon

(* A program operation of the driver never needs a bit set again, which a    *)
(* NOR flash cannot do: only the erase of a whole sector sets bits.          *)
THEOREM BitsAreOnlyCleared == Configured => (Spec => OnlyClearsBits)
<1> SUFFICES ASSUME Configured PROVE Spec => OnlyClearsBits
  OBVIOUS
<1>1. Spec => []IInv
  BY InvariantHolds
<1>2. IInv /\ [Next]_vars => [BitsCleared]_vars
  BY StepClearsBits
<1>3. Spec => [][BitsCleared]_vars
  BY <1>1, <1>2, PTL DEF Spec
<1> QED BY <1>3 DEF OnlyClearsBits
----------------------------------------------------------------------------
(* The driver implements the store                                          *)

(* The payload of an address: that of the copy that counts, or else all ones. *)
Holds(ix, v) ==
    \/ \E s \in Sectors, c \in Containers :
          KeptAt(s, c) /\ flash[s][c].ix = ix /\ flash[s][c].data = v
    \/ /\ ~ \E s \in Sectors, c \in Containers : LiveAt(s, c) /\ flash[s][c].ix = ix
       /\ v = Bits

(* The pairs of a write have different addresses, and those before the one it *)
(* is at are written.                                                         *)
Progress ==
    request # <<>> =>
        /\ \A j, k \in DOMAIN request : request[j][1] = request[k][1] => j = k
        /\ \A j \in DOMAIN request : j < nth => Contents[request[j][1]] = request[j][2]

(* Some payload is the one of an address. *)
LEMMA HoldsSome == ASSUME TypeOK, NEW ix \in Ixs PROVE \E v \in Payloads : Holds(ix, v)
<1>1. ASSUME NEW s \in Sectors, NEW c \in Containers, KeptAt(s, c), flash[s][c].ix = ix
      PROVE  \E v \in Payloads : Holds(ix, v)
  <2>1. flash[s][c].data \in Payloads
    BY DEF TypeOK, Container
  <2> QED BY <2>1, <1>1 DEF Holds
<1>2. CASE \E s \in Sectors, c \in Containers : KindAt(s, c) = "current" /\ flash[s][c].ix = ix
  BY <1>1, <1>2 DEF KeptAt
<1>3. CASE /\ ~ \E s \in Sectors, c \in Containers :
                   KindAt(s, c) = "current" /\ flash[s][c].ix = ix
           /\ \E s \in Sectors, c \in Containers : LiveAt(s, c) /\ flash[s][c].ix = ix
  <2>1. PICK s \in Sectors, c \in Containers : LiveAt(s, c) /\ flash[s][c].ix = ix
    BY <1>3
  <2>2. KindAt(s, c) = "old"
    BY <2>1, <1>3 DEF LiveAt
  <2>3. KeptAt(s, c)
    BY <2>1, <2>2, <1>3 DEF KeptAt
  <2> QED BY <2>1, <2>3, <1>1
<1>4. CASE ~ \E s \in Sectors, c \in Containers : LiveAt(s, c) /\ flash[s][c].ix = ix
  <2>1. Holds(ix, Bits) /\ Bits \in Payloads
    BY <1>4 DEF Holds, Payloads
  <2> QED BY <2>1
<1> QED BY <1>2, <1>3, <1>4

(* It is the one the next boot would find. *)
LEMMA HoldsContents == OneEach => \A ix \in Ixs : \A v : Holds(ix, v) => Contents[ix] = v
<1> SUFFICES ASSUME OneEach, NEW ix \in Ixs, NEW v, Holds(ix, v) PROVE Contents[ix] = v
  OBVIOUS
<1> DEFINE Cur == Copies(ix, "current")
<1> DEFINE Old == Copies(ix, "old")
<1>1. Contents[ix] = IF Cur # {} THEN At(CHOOSE p \in Cur : TRUE).data
                     ELSE IF Old # {} THEN At(CHOOSE p \in Old : TRUE).data ELSE Bits
  BY DEF Contents
<1>2. ASSUME NEW k \in {"current", "old"}, NEW s \in Sectors, NEW c \in Containers,
             KindAt(s, c) = k, flash[s][c].ix = ix
      PROVE  Copies(ix, k) = {<<s, c>>}
  <2>1. <<s, c>> \in Copies(ix, k)
    BY <1>2 DEF Copies, Places, At, KindAt
  <2>2. ASSUME NEW p \in Copies(ix, k) PROVE p = <<s, c>>
    <3>1. PICK t \in Sectors, d \in Containers : p = <<t, d>>
      BY DEF Copies, Places
    <3>2. KindAt(t, d) = k /\ flash[t][d].ix = ix
      BY <3>1 DEF Copies, At, KindAt
    <3>3. LiveAt(s, c)
      BY <1>2 DEF LiveAt
    <3> QED BY <3>1, <3>2, <3>3, <1>2 DEF OneEach
  <2> QED BY <2>1, <2>2
<1>3. ASSUME NEW k \in {"current", "old"}, Copies(ix, k) # {}
      PROVE  \E s \in Sectors, c \in Containers : KindAt(s, c) = k /\ flash[s][c].ix = ix
  BY <1>3 DEF Copies, Places, At, KindAt
<1>4. ASSUME NEW s \in Sectors, NEW c \in Containers, KeptAt(s, c), flash[s][c].ix = ix,
             flash[s][c].data = v
      PROVE  Contents[ix] = v
  <2>1. CASE KindAt(s, c) = "current"
    <3>1. Cur = {<<s, c>>}
      BY <2>1, <1>2, <1>4
    <3>2. PICK p \in Cur : Contents[ix] = At(p).data
      BY <3>1, <1>1, Zenon
    <3> QED BY <3>1, <3>2, <1>4 DEF At
  <2>2. CASE KindAt(s, c) # "current"
    <3>1. KindAt(s, c) = "old" /\ Cur = {}
      BY <2>2, <1>3, <1>4 DEF KeptAt
    <3>2. Old = {<<s, c>>}
      BY <3>1, <1>2, <1>4
    <3>3. PICK p \in Old : Contents[ix] = At(p).data
      BY <3>1, <3>2, <1>1, Zenon
    <3> QED BY <3>2, <3>3, <1>4 DEF At
  <2> QED BY <2>1, <2>2
<1>5. ASSUME ~ \E s \in Sectors, c \in Containers : LiveAt(s, c) /\ flash[s][c].ix = ix, v = Bits
      PROVE  Contents[ix] = v
  <2>1. Cur = {} /\ Old = {}
    BY <1>3, <1>5 DEF LiveAt
  <2> QED BY <2>1, <1>1, <1>5
<1> QED BY <1>4, <1>5 DEF Holds

(* So it is after a step. *)
LEMMA HoldsContentsNext ==
  OneEach' => \A ix \in Ixs : \A v : Holds(ix, v)' => Contents'[ix] = v
<1>1. (OneEach => \A ix \in Ixs : \A v : Holds(ix, v) => Contents[ix] = v)'
  BY HoldsContents, PTL
<1> QED BY <1>1

(* What a step keeps of every address it keeps of the contents. *)
LEMMA ContentsKept ==
  ASSUME TypeOK, OneEach, OneEach',
         \A ix \in Ixs, v \in Payloads : Holds(ix, v) => Holds(ix, v)'
  PROVE  Contents' = Contents
<1>1. ASSUME NEW ix \in Ixs PROVE Contents'[ix] = Contents[ix]
  <2>1. PICK v \in Payloads : Holds(ix, v)
    BY HoldsSome
  <2>2. Contents[ix] = v
    BY <2>1, HoldsContents
  <2>3. Holds(ix, v)'
    BY <2>1
  <2>4. Contents'[ix] = v
    BY <2>3, HoldsContentsNext
  <2> QED BY <2>2, <2>4
<1>2. /\ Contents = [ix \in Ixs |-> Contents[ix]]
      /\ Contents' = [ix \in Ixs |-> Contents'[ix]]
  BY DEF Contents
<1> QED BY <1>1, <1>2

(* If an address takes a payload, it is the only one that changes. *)
LEMMA ContentsWritten ==
  ASSUME TypeOK, OneEach, OneEach', NEW x \in Ixs, NEW w, Holds(x, w)',
         \A ix \in Ixs \ {x}, v \in Payloads : Holds(ix, v) => Holds(ix, v)'
  PROVE  Contents' = [Contents EXCEPT ![x] = w]
<1>1. ASSUME NEW ix \in Ixs PROVE Contents'[ix] = IF ix = x THEN w ELSE Contents[ix]
  <2>1. CASE ix = x
    BY <2>1, HoldsContentsNext
  <2>2. CASE ix # x
    <3>1. PICK v \in Payloads : Holds(ix, v)
      BY HoldsSome
    <3>2. Contents[ix] = v
      BY <3>1, HoldsContents
    <3>3. Holds(ix, v)'
      BY <3>1, <2>2
    <3>4. Contents'[ix] = v
      BY <3>3, HoldsContentsNext
    <3> QED BY <2>2, <3>2, <3>4
  <2> QED BY <2>1, <2>2
<1>2. /\ Contents = [ix \in Ixs |-> Contents[ix]]
      /\ Contents' = [ix \in Ixs |-> Contents'[ix]]
  BY DEF Contents
<1> QED BY <1>1, <1>2

(* Clearing an old copy beside a current one loses nothing. *)
LEMMA ClearingLosesNothing ==
  ASSUME TypeOK, OneEach, NEW p \in Places, OldCleared(p)
  PROVE  Contents' = Contents
<1>1. /\ OneEach'
      /\ \A s \in Sectors, c \in Containers :
            /\ KeptAt(s, c)' <=> KeptAt(s, c)
            /\ LiveAt(s, c)' => LiveAt(s, c) /\ flash'[s][c] = flash[s][c]
  BY DEF OldCleared, KeptIn
<1>2. ASSUME NEW ix \in Ixs, NEW v \in Payloads, Holds(ix, v) PROVE Holds(ix, v)'
  <2>1. CASE \E s \in Sectors, c \in Containers :
                KeptAt(s, c) /\ flash[s][c].ix = ix /\ flash[s][c].data = v
    <3>1. PICK s \in Sectors, c \in Containers :
             KeptAt(s, c) /\ flash[s][c].ix = ix /\ flash[s][c].data = v
      BY <2>1
    <3>2. KeptAt(s, c)' /\ LiveAt(s, c)'
      BY <3>1, <1>1 DEF KeptAt, LiveAt
    <3>3. flash'[s][c].ix = ix /\ flash'[s][c].data = v
      BY <3>1, <3>2, <1>1
    <3> QED BY <3>2, <3>3 DEF Holds
  <2>2. CASE /\ ~ \E s \in Sectors, c \in Containers : LiveAt(s, c) /\ flash[s][c].ix = ix
             /\ v = Bits
    <3>1. ~ \E s \in Sectors, c \in Containers : LiveAt(s, c)' /\ flash'[s][c].ix = ix
      BY <2>2, <1>1
    <3> QED BY <3>1, <2>2 DEF Holds
  <2> QED BY <1>2, <2>1, <2>2 DEF Holds
<1> QED BY <1>1, <1>2, ContentsKept

(* Neither does what is done to containers that hold no copy. *)
LEMMA SpareContainersTouched ==
  ASSUME TypeOK, OneEach, OneEach',
         \A s \in Sectors, c \in Containers :
            flash'[s][c] = flash[s][c] \/ (~ LiveAt(s, c) /\ ~ LiveAt(s, c)')
  PROVE  Contents' = Contents
<1>1. \A s \in Sectors, c \in Containers :
         /\ LiveAt(s, c)' <=> LiveAt(s, c)
         /\ LiveAt(s, c) => flash'[s][c] = flash[s][c]
         /\ KindAt(s, c)' = "current" <=> KindAt(s, c) = "current"
         /\ KindAt(s, c)' = "old" <=> KindAt(s, c) = "old"
  BY DEF LiveAt, KindAt
<1>2. ASSUME NEW s \in Sectors, NEW c \in Containers, KeptAt(s, c)
      PROVE  KeptAt(s, c)' /\ LiveAt(s, c)
  <2>1. LiveAt(s, c)
    BY <1>2 DEF KeptAt, LiveAt
  <2>2. CASE KindAt(s, c) = "current"
    BY <2>1, <2>2, <1>1 DEF KeptAt
  <2>3. CASE KindAt(s, c) # "current"
    <3>1. /\ KindAt(s, c)' = "old"
          /\ ~ \E t \in Sectors, d \in Containers :
                  KindAt(t, d) = "current" /\ flash[t][d].ix = flash[s][c].ix
      BY <2>3, <1>1, <1>2 DEF KeptAt
    <3>2. ASSUME NEW t \in Sectors, NEW d \in Containers, KindAt(t, d)' = "current",
                 flash'[t][d].ix = flash'[s][c].ix
          PROVE  FALSE
      <4>1. KindAt(t, d) = "current" /\ LiveAt(t, d)
        BY <3>2, <1>1 DEF LiveAt
      <4>2. flash'[t][d] = flash[t][d] /\ flash'[s][c] = flash[s][c]
        BY <4>1, <2>1, <1>1
      <4> QED BY <4>1, <4>2, <3>1, <3>2
    <3>3. ~ \E t \in Sectors, d \in Containers :
               KindAt(t, d)' = "current" /\ flash'[t][d].ix = flash'[s][c].ix
      BY <3>2
    <3> QED BY <2>1, <3>1, <3>3 DEF KeptAt
  <2> QED BY <2>1, <2>2, <2>3
<1>3. ASSUME NEW ix \in Ixs, NEW v \in Payloads, Holds(ix, v) PROVE Holds(ix, v)'
  <2>1. CASE \E s \in Sectors, c \in Containers :
                KeptAt(s, c) /\ flash[s][c].ix = ix /\ flash[s][c].data = v
    <3>1. PICK s \in Sectors, c \in Containers :
             KeptAt(s, c) /\ flash[s][c].ix = ix /\ flash[s][c].data = v
      BY <2>1
    <3>2. KeptAt(s, c)' /\ flash'[s][c] = flash[s][c]
      BY <3>1, <1>1, <1>2
    <3> QED BY <3>1, <3>2 DEF Holds
  <2>2. CASE /\ ~ \E s \in Sectors, c \in Containers : LiveAt(s, c) /\ flash[s][c].ix = ix
             /\ v = Bits
    <3>1. ~ \E s \in Sectors, c \in Containers : LiveAt(s, c)' /\ flash'[s][c].ix = ix
      BY <2>2, <1>1
    <3> QED BY <3>1, <2>2 DEF Holds
  <2> QED BY <1>3, <2>1, <2>2 DEF Holds
<1> QED BY <1>3, ContentsKept

(* Nor does a step that leaves the flash alone. *)
LEMMA NothingTouched == ASSUME flash' = flash PROVE Contents' = Contents
BY DEF Contents, Copies, At

(* If the copies that count and their payloads stay, the contents do. *)
LEMMA CopiesStay ==
  ASSUME TypeOK, OneEach, OneEach',
         \A s \in Sectors, c \in Containers :
            /\ KeptAt(s, c)' <=> KeptAt(s, c)
            /\ LiveAt(s, c)' <=> LiveAt(s, c)
            /\ flash'[s][c].data = flash[s][c].data
            /\ flash'[s][c].ix = flash[s][c].ix
  PROVE  Contents' = Contents
<1>1. ASSUME NEW ix \in Ixs, NEW v \in Payloads, Holds(ix, v) PROVE Holds(ix, v)'
  BY <1>1 DEF Holds
<1> QED BY <1>1, ContentsKept

(* Erasing and preparing a sector. *)
LEMMA WipeKeepsContents == ASSUME IInv, Wipe \/ Prepare, IInv' PROVE Contents' = Contents
<1>1. phase \in {"scan", "gc"} /\ step \in {"wipe", "prepare"}
  BY DEF IInv, TypeOK, OffInv, WriteInv, ReadyInv, Wipe, Prepare
<1>2. sec \in Sectors /\ TypeOK /\ OneEach /\ OneEach' /\ NothingIn(sec)
  BY <1>1, ScanPreparing, Collecting DEF IInv, GcInv, Preparing
<1>3. flash \in Flash
  BY <1>2 DEF TypeOK, Flash
<1>4. CASE Wipe
  <2>1. /\ \A t \in Sectors : t # sec => flash'[t] = flash[t]
        /\ \A c \in Containers : flash'[sec][c] = Erased
    BY <1>2, <1>3, <1>4, SectorErased DEF Wipe
  <2>2. \A c \in Containers : ~ LiveAt(sec, c) /\ flash'[sec][c].kind = "uninitialized"
    BY <2>1, <1>2 DEF NothingIn, Erased
  <2>3. ASSUME NEW s \in Sectors, NEW c \in Containers
        PROVE  flash'[s][c] = flash[s][c] \/ (~ LiveAt(s, c) /\ ~ LiveAt(s, c)')
    <3>1. CASE s # sec
      BY <3>1, <2>1
    <3>2. CASE s = sec
      BY <3>2, <2>2 DEF LiveAt, KindAt
    <3> QED BY <3>1, <3>2
  <2> QED BY <2>3, <1>2, SpareContainersTouched
<1>5. CASE Prepare
  <2>1. con \in Containers /\ <<sec, con>> \in Places /\ ProgramIndex(<<sec, con>>, "unused", 0)
    BY <1>2, <1>5, VesAssumption DEF Prepare, TypeOK, Containers, Places
  <2>2. "unused" \in IndexKinds /\ 0 \in 0 .. CatMax
    BY VesAssumption DEF IndexKinds
  <2>3. /\ flash'[sec][con].kind = "unused"
        /\ \A s \in Sectors, c \in Containers : s # sec \/ c # con => flash'[s][c] = flash[s][c]
    BY <2>1, <2>2, <1>3, IndexProgrammed
  <2>4. ASSUME NEW s \in Sectors, NEW c \in Containers
        PROVE  flash'[s][c] = flash[s][c] \/ (~ LiveAt(s, c) /\ ~ LiveAt(s, c)')
    <3>1. CASE s # sec \/ c # con
      BY <3>1, <2>3
    <3>2. CASE s = sec /\ c = con
      BY <3>2, <2>3, <1>2 DEF LiveAt, KindAt, NothingIn
    <3> QED BY <3>1, <3>2
  <2> QED BY <2>4, <1>2, SpareContainersTouched
<1> QED BY <1>4, <1>5

(* A payload that is programmed into a new container has no address yet. *)
LEMMA DataKeepsContents ==
  ASSUME TypeOK, OneEach, OneEach', CurrentExact, next < PerSector, ~ InFlight,
         NEW d \in Payloads, ProgramData(<<current, next>>, d)
  PROVE  Contents' = Contents
<1>1. /\ current \in Sectors /\ next \in Containers /\ next \in Nat
      /\ <<current, next>> \in Places
  <2>1. current \in Sectors /\ next \in Containers /\ next \in Nat
    BY VesAssumption DEF TypeOK, Containers
  <2> QED BY <2>1 DEF Places
<1>2. \A s \in Sectors, c \in Containers :
         /\ s # current \/ c # next => flash'[s][c] = flash[s][c]
         /\ flash'[s][c].kind = flash[s][c].kind
  <2>1. flash \in Flash
    BY DEF TypeOK, Flash
  <2> QED BY <2>1, <1>1, DataProgrammed
<1>3. KindAt(current, next) = "unused"
  <2>1. ~ (next < next)
    BY <1>1
  <2> QED BY <2>1, <1>1 DEF CurrentExact
<1>4. ASSUME NEW s \in Sectors, NEW c \in Containers
      PROVE  flash'[s][c] = flash[s][c] \/ (~ LiveAt(s, c) /\ ~ LiveAt(s, c)')
  <2>1. CASE s # current \/ c # next
    BY <2>1, <1>2
  <2>2. CASE s = current /\ c = next
    <3>1. flash[s][c].kind = "unused" /\ flash'[s][c].kind = "unused"
      BY <2>2, <1>2, <1>3 DEF KindAt
    <3> QED BY <3>1 DEF LiveAt, KindAt
  <2> QED BY <2>1, <2>2
<1> QED BY <1>4, SpareContainersTouched

(* A copy that gets its index gives its address its payload. *)
LEMMA StoreWrites ==
  ASSUME IInv, Store, IInv'
  PROVE  Contents' = [Contents EXCEPT ![index] = flash[current][next - 1].data]
<1>1. /\ step = "store" /\ ProgramIndex(to, "current", index) /\ dirty' = dirty
      /\ free' = free /\ current' = current /\ next' = next /\ step' \in {"clear", "update"}
  BY DEF Store, room
<1>2. /\ flash'[current][next - 1].kind = "current" /\ flash'[current][next - 1].ix = index
      /\ \A s \in Sectors, c \in Containers :
            /\ flash'[s][c].data = flash[s][c].data
            /\ s # current \/ c # next - 1 => flash'[s][c] = flash[s][c]
            /\ LiveAt(s, c)' <=> LiveAt(s, c) \/ (s = current /\ c = next - 1)
  BY <1>1, CopyStored
<1>3. /\ TypeOK /\ OneEach /\ OneEach' /\ index \in Ixs
      /\ current \in Sectors /\ next - 1 \in Containers
      /\ KindAt(current, next - 1) = "unused"
  BY <1>1, Moving DEF IInv, InFlight
<1>4. PICK m \in Sectors, n \in Containers : m = current /\ n = next - 1
  BY <1>3
<1>5. PICK x \in Ixs, w \in Payloads : x = index /\ w = flash[m][n].data
  BY <1>3 DEF TypeOK, Container
<1>6. Holds(x, w)'
  <2>1. KindAt(m, n)' = "current" /\ flash'[m][n].ix = x /\ flash'[m][n].data = w
    BY <1>2, <1>4, <1>5 DEF KindAt
  <2>2. KeptAt(m, n)'
    BY <2>1 DEF KeptAt
  <2> QED BY <2>1, <2>2 DEF Holds
<1>7. ASSUME NEW ix \in Ixs \ {x}, NEW v \in Payloads, Holds(ix, v) PROVE Holds(ix, v)'
  <2>1. \A s \in Sectors, c \in Containers :
           LiveAt(s, c)' /\ flash'[s][c].ix = ix => LiveAt(s, c) /\ flash'[s][c] = flash[s][c]
    BY <1>2, <1>4, <1>5
  <2>2. CASE \E s \in Sectors, c \in Containers :
                KeptAt(s, c) /\ flash[s][c].ix = ix /\ flash[s][c].data = v
    <3>1. PICK s \in Sectors, c \in Containers :
             KeptAt(s, c) /\ flash[s][c].ix = ix /\ flash[s][c].data = v
      BY <2>2
    <3>2. s # m \/ c # n
      BY <3>1, <1>3, <1>4 DEF KeptAt
    <3>3. flash'[s][c] = flash[s][c]
      BY <3>2, <1>2, <1>4
    <3>4. ASSUME NEW t \in Sectors, NEW d \in Containers, KindAt(t, d)' = "current",
                 flash'[t][d].ix = ix
          PROVE  KindAt(t, d) = "current" /\ flash[t][d].ix = ix
      <4>1. LiveAt(t, d)'
        BY <3>4 DEF LiveAt
      <4>2. flash'[t][d] = flash[t][d]
        BY <4>1, <3>4, <2>1
      <4> QED BY <4>2, <3>4 DEF KindAt
    <3>6. KeptAt(s, c)'
      <4>1. KindAt(s, c)' = KindAt(s, c) /\ flash'[s][c].ix = ix
        BY <3>1, <3>3 DEF KindAt
      <4>2. CASE KindAt(s, c) = "current"
        BY <4>1, <4>2 DEF KeptAt
      <4>3. CASE KindAt(s, c) # "current"
        <5>1. KindAt(s, c) = "old"
              /\ ~ \E t \in Sectors, d \in Containers :
                     KindAt(t, d) = "current" /\ flash[t][d].ix = ix
          BY <4>3, <3>1 DEF KeptAt
        <5>2. ~ \E t \in Sectors, d \in Containers :
                   KindAt(t, d)' = "current" /\ flash'[t][d].ix = ix
          BY <5>1, <3>4
        <5> QED BY <4>1, <5>1, <5>2 DEF KeptAt
      <4> QED BY <4>2, <4>3
    <3> QED BY <3>1, <3>3, <3>6 DEF Holds
  <2>3. CASE /\ ~ \E s \in Sectors, c \in Containers : LiveAt(s, c) /\ flash[s][c].ix = ix
             /\ v = Bits
    <3>1. ~ \E s \in Sectors, c \in Containers : LiveAt(s, c)' /\ flash'[s][c].ix = ix
      BY <2>3, <2>1
    <3> QED BY <3>1, <2>3 DEF Holds
  <2> QED BY <1>7, <2>2, <2>3 DEF Holds
<1>8. Contents' = [Contents EXCEPT ![x] = w]
  BY <1>3, <1>6, <1>7, ContentsWritten
<1> QED BY <1>4, <1>5, <1>8

(* The collector moves a payload and changes no address. *)
LEMMA StoreMoves == ASSUME IInv, Store, phase = "gc", IInv' PROVE Contents' = Contents
<1>1. step = "store"
  BY DEF Store
<1>2. /\ TypeOK /\ OneEach /\ Moves /\ index \in Ixs
      /\ sec \in Sectors /\ con \in 0 .. PerSector /\ con < PerSector /\ from = <<sec, con>>
      /\ flash[current][next - 1].data = flash[sec][con].data
  BY <1>1, Collecting, Moving DEF GcInv
<1>3. con \in Containers /\ from # NoEntry /\ from[1] = sec /\ from[2] = con
  BY <1>2, VesAssumption DEF Containers, NoEntry, Sectors
<1>4. /\ flash[sec][con].ix = index /\ KindAt(sec, con) = "old"
      /\ \A s \in Sectors, c \in Containers :
            LiveAt(s, c) /\ flash[s][c].ix = index => s = sec /\ c = con
  BY <1>1, <1>2, <1>3, Moving DEF Moves
<1>5. KeptAt(sec, con)
  <2>1. \A t \in Sectors, d \in Containers :
           ~ (KindAt(t, d) = "current" /\ flash[t][d].ix = flash[sec][con].ix)
    BY <1>4 DEF LiveAt
  <2> QED BY <2>1, <1>4 DEF KeptAt
<1>6. Contents[index] = flash[sec][con].data
  <2>1. Holds(index, flash[sec][con].data)
    BY <1>2, <1>3, <1>4, <1>5 DEF Holds
  <2> QED BY <2>1, <1>2, HoldsContents
<1>7. Contents' = [Contents EXCEPT ![index] = Contents[index]]
  BY <1>2, <1>6, StoreWrites
<1>8. Contents = [ix \in Ixs |-> Contents[ix]]
  BY DEF Contents
<1> QED BY <1>7, <1>8

(* A payload written in place. *)
LEMMA UpdateWrites ==
  ASSUME IInv, UpdateInPlace
  PROVE  Contents' = [Contents EXCEPT ![Address] = Payload]
<1>1. /\ IInv' /\ SameKinds /\ Address \in Ixs /\ cat[Address] \in Places
      /\ \A s \in Sectors, c \in Containers :
            /\ flash'[s][c] = flash[s][c] \/ cat[Address] = <<s, c>>
            /\ cat[Address] = <<s, c>> => flash'[s][c].data = Payload
  BY UpdateInPlaceKeeps
<1>2. /\ step = "update" /\ TypeOK /\ OneEach /\ CatExact /\ Payload \in Payloads
      /\ cat[Address] # NoEntry
  BY UpdatingSomewhere DEF UpdateInPlace, FitsInPlace
<1>3. PICK x \in Ixs, w \in Payloads : x = Address /\ w = Payload
  BY <1>1, <1>2
<1>4. PICK a \in Sectors, b \in Containers : cat[x] = <<a, b>>
  BY <1>1, <1>3 DEF Places
<1>5. LiveAt(a, b) /\ flash[a][b].ix = x
  <2>1. cat[x][1] = a /\ cat[x][2] = b /\ cat[x] # NoEntry
    BY <1>2, <1>3, <1>4
  <2> QED BY <2>1, <1>2 DEF CatExact
<1>6. \A s \in Sectors, c \in Containers :
         LiveAt(s, c) /\ flash[s][c].ix = x => s = a /\ c = b
  BY <1>2, <1>4 DEF CatExact
<1>7. /\ OneEach'
      /\ \A s \in Sectors, c \in Containers :
            /\ LiveAt(s, c)' <=> LiveAt(s, c)
            /\ flash'[s][c].ix = flash[s][c].ix
            /\ KeptAt(s, c)' <=> KeptAt(s, c)
            /\ s # a \/ c # b => flash'[s][c] = flash[s][c]
  <2>1. OneEach'
    BY <1>1 DEF IInv
  <2>2. \A s \in Sectors, c \in Containers : s # a \/ c # b => flash'[s][c] = flash[s][c]
    BY <1>1, <1>3, <1>4
  <2> QED BY <2>1, <2>2, <1>1 DEF SameKinds, LiveAt, KeptAt, KindAt
<1>8. Holds(x, w)'
  <2>1. KeptAt(a, b)
    <3>1. CASE KindAt(a, b) = "current"
      BY <3>1 DEF KeptAt
    <3>2. CASE KindAt(a, b) = "old"
      <4>1. \A t \in Sectors, d \in Containers :
               ~ (KindAt(t, d) = "current" /\ flash[t][d].ix = flash[a][b].ix)
        BY <3>2, <1>5, <1>6 DEF LiveAt
      <4> QED BY <3>2, <4>1 DEF KeptAt
    <3> QED BY <3>1, <3>2, <1>5 DEF LiveAt
  <2>2. KeptAt(a, b)' /\ flash'[a][b].ix = x /\ flash'[a][b].data = w
    BY <2>1, <1>1, <1>3, <1>4, <1>5, <1>7
  <2> QED BY <2>2 DEF Holds
<1>9. ASSUME NEW ix \in Ixs \ {x}, NEW v \in Payloads, Holds(ix, v) PROVE Holds(ix, v)'
  <2>1. \A s \in Sectors, c \in Containers :
           flash[s][c].ix = ix => flash'[s][c] = flash[s][c]
    BY <1>5, <1>7
  <2> QED BY <2>1, <1>7, <1>9 DEF Holds
<1>10. Contents' = [Contents EXCEPT ![x] = w]
  BY <1>2, <1>7, <1>8, <1>9, ContentsWritten
<1> QED BY <1>3, <1>10

(* A step of the store, or nothing that it shows. *)
StoreStep ==
    Memory!Next \/ UNCHANGED <<Contents, request, phase = "ready" \/ request # <<>>>>

(* A step that neither changes an address nor begins or ends an operation. *)
LEMMA NothingShown ==
  ASSUME Progress, Contents' = Contents, request' = request, nth' = nth,
         (phase' = "ready") <=> (phase = "ready")
  PROVE  Progress' /\ StoreStep
<1>1. Progress'
  BY DEF Progress
<1>2. (phase = "ready" \/ request # <<>>)' = (phase = "ready" \/ request # <<>>)
  OBVIOUS
<1> QED BY <1>1, <1>2 DEF StoreStep

(* A payload that arrives is the one of the pair the write is at. *)
LEMMA PairWritten ==
  ASSUME TypeOK, Progress, nth \in DOMAIN request, request' = request,
         Contents' = [Contents EXCEPT ![Address] = Payload],
         nth' \in {nth, nth + 1}
  PROVE  Progress' /\ StoreStep
<1>1. request # <<>>
  OBVIOUS
<1>2. Address \in Ixs /\ nth \in 1 .. CatMax
  BY RequestTyped
<1>3. PICK n \in 1 .. CatMax : request \in [1 .. n -> Ixs \X SUBSET Bits]
  BY <1>1 DEF TypeOK, Memory!Writes, Memory!Ixs, Ixs
<1>4. /\ \A j \in DOMAIN request : j \in 1 .. n /\ request[j][1] \in Ixs
      /\ \A j, k \in DOMAIN request : request[j][1] = request[k][1] => j = k
      /\ \A j \in DOMAIN request : j < nth => Contents[request[j][1]] = request[j][2]
  BY <1>1, <1>3 DEF Progress
<1>5. \A ix \in Ixs : Contents'[ix] = IF ix = Address THEN Payload ELSE Contents[ix]
  <2>1. DOMAIN Contents = Ixs
    BY DEF Contents
  <2> QED BY <2>1
<1>6. \A j \in DOMAIN request : j < nth + 1 => Contents'[request[j][1]] = request[j][2]
  <2>1. ASSUME NEW j \in DOMAIN request, j < nth + 1
        PROVE  Contents'[request[j][1]] = request[j][2]
    <3>1. CASE j = nth
      BY <3>1, <1>2, <1>5 DEF Address, Payload
    <3>2. CASE j # nth
      <4>1. j < nth
        BY <2>1, <3>2, <1>2, <1>4
      <4>2. request[j][1] # Address /\ request[j][1] \in Ixs
        BY <3>2, <1>4 DEF Address
      <4> QED BY <4>1, <4>2, <1>4, <1>5
    <3> QED BY <3>1, <3>2
  <2> QED BY <2>1
<1>7. Progress'
  <2>1. \A j \in DOMAIN request : j < nth' => j < nth + 1
    BY <1>2, <1>4
  <2> QED BY <2>1, <1>4, <1>6 DEF Progress
<1>8. Memory!Commit(nth)
  <2>1. \A j \in 1 .. nth - 1 : j \in DOMAIN request /\ j < nth
    BY <1>2, <1>3
  <2>2. \A j \in 1 .. nth - 1 : Contents[request[j][1]] = request[j][2]
    BY <2>1, <1>4
  <2>3. (phase = "ready" \/ request # <<>>)' = (phase = "ready" \/ request # <<>>)
    BY <1>1
  <2> QED BY <2>2, <2>3 DEF Memory!Commit, Memory!Done, Address, Payload
<1>9. Memory!Next
  BY <1>8 DEF Memory!Next
<1> QED BY <1>7, <1>9 DEF StoreStep

(* The scan, the preparation of a sector and most of the collector. *)
LEMMA QuietSteps ==
  ASSUME IInv, IInv', Progress, Configured,
         \/ Boot \/ ScanUnused \/ ScanUninitialized \/ ScanCleared
         \/ ScanFirstCopy \/ ScanCurrentCopy \/ ScanOldCopy
         \/ FindFreeSector \/ RecycleSector \/ KeepSector \/ ScanDone
         \/ Wipe \/ Prepare \/ ScanPrepared \/ GcPrepared
         \/ ChooseVictim \/ RescueNothing \/ Rescued \/ GetFreeContainer
  PROVE  Progress' /\ StoreStep
<1>1. request' = request /\ nth' = nth
  BY DEF Boot, ScanUnused, ScanUninitialized, ScanCleared, ScanFirstCopy, ScanCurrentCopy,
     ScanOldCopy, FindFreeSector, RecycleSector, KeepSector, ScanDone, Wipe, Prepare,
     ScanPrepared, GcPrepared, ChooseVictim, RescueNothing, Rescued, GetFreeContainer, call
<1>2. phase # "ready" /\ phase' # "ready"
  <2>1. CASE Wipe \/ Prepare
    <3>1. step \in {"wipe", "prepare"} /\ phase' = phase
      BY <2>1 DEF Wipe, Prepare, at
    <3> QED BY <3>1 DEF IInv, ReadyInv
  <2>2. CASE \/ Boot \/ ScanUnused \/ ScanUninitialized \/ ScanCleared
             \/ ScanFirstCopy \/ ScanCurrentCopy \/ ScanOldCopy
    BY <2>2 DEF Boot, ScanUnused, ScanUninitialized, ScanCleared, ScanFirstCopy,
       ScanCurrentCopy, ScanOldCopy, Scanning, at
  <2>3. CASE FindFreeSector \/ RecycleSector \/ KeepSector \/ ScanDone \/ ScanPrepared
    BY <2>3 DEF FindFreeSector, RecycleSector, KeepSector, SectorScanned, ScanDone, ScanPrepared, at
  <2>4. CASE GcPrepared \/ ChooseVictim \/ RescueNothing \/ Rescued \/ GetFreeContainer
    BY <2>4 DEF GcPrepared, ChooseVictim, RescueNothing, Rescuing, Rescued, GetFreeContainer,
       Updating, at
  <2> QED BY <2>1, <2>2, <2>3, <2>4
<1>3. Contents' = Contents
  <2>1. CASE ScanCurrentCopy \/ ScanOldCopy
    BY <2>1, ScanCurrentCopyKeeps, ScanOldCopyKeeps, ClearingLosesNothing DEF IInv
  <2>2. CASE Wipe \/ Prepare
    BY <2>2, WipeKeepsContents
  <2>3. CASE KeepSector
    BY <2>3, KeepSectorKeeps, NothingTouched
  <2>4. CASE \/ Boot \/ ScanUnused \/ ScanUninitialized \/ ScanCleared \/ ScanFirstCopy
             \/ FindFreeSector \/ RecycleSector \/ ScanDone
             \/ ScanPrepared \/ GcPrepared
             \/ ChooseVictim \/ RescueNothing \/ Rescued \/ GetFreeContainer
    <3>1. flash' = flash
      BY <2>4 DEF Boot, ScanUnused, ScanUninitialized, ScanCleared, ScanFirstCopy,
         FindFreeSector, RecycleSector, ScanDone, ScanPrepared, GcPrepared, ChooseVictim,
         RescueNothing, Rescued, GetFreeContainer, flashRam
    <3> QED BY <3>1, NothingTouched
  <2> QED BY <2>1, <2>2, <2>3, <2>4
<1> QED BY <1>1, <1>2, <1>3, NothingShown

(* A payload on its way to a new container, and the copy it replaces. *)
LEMMA DataSteps ==
  ASSUME IInv, IInv', Progress, Rescue \/ WriteData \/ Retire
  PROVE  Progress' /\ StoreStep
<1>1. request' = request /\ nth' = nth
  BY DEF Rescue, WriteData, Retire, call
<1>2. phase' = phase
  BY DEF Rescue, WriteData, Retire
<1>3. Contents' = Contents
  <2>1. CASE Rescue
    <3>1. phase = "gc" /\ step = "look" /\ con < PerSector
      BY <2>1 DEF Rescue, Rescuing
    <3>2. /\ TypeOK /\ OneEach /\ OneEach' /\ CurrentExact /\ ~ InFlight
          /\ ~ Full /\ next < PerSector /\ sec \in Sectors /\ con \in Containers
      BY <3>1, Collecting, RescuingRoom DEF IInv, InFlight
    <3>3. PICK d \in Payloads : d = flash[sec][con].data
      BY <3>2 DEF TypeOK, Container
    <3>4. ProgramData(<<current, next>>, d)
      BY <2>1, <3>2, <3>3 DEF Rescue, Cell
    <3> QED BY <3>2, <3>4, DataKeepsContents
  <2>2. CASE WriteData
    <3>1. step = "take" /\ next < PerSector /\ phase = "write"
      BY <2>2 DEF IInv, TypeOK, OffInv, ScanInv, GcInv, ReadyInv, WriteData
    <3>2. /\ TypeOK /\ OneEach /\ OneEach' /\ CurrentExact /\ ~ InFlight /\ nth \in DOMAIN request
      BY <3>1, Writing DEF IInv, WriteInv, InFlight
    <3>3. PICK d \in Payloads : d = Payload
      BY <3>2, RequestTyped
    <3>4. ProgramData(<<current, next>>, d)
      BY <2>2, <3>3 DEF WriteData
    <3> QED BY <3>1, <3>2, <3>4, DataKeepsContents
  <2>3. CASE Retire
    BY <2>3, RetireKeeps, CopiesStay DEF IInv
  <2> QED BY <2>1, <2>2, <2>3
<1> QED BY <1>1, <1>2, <1>3, NothingShown

(* The index of a new copy, and the end of the old one. *)
LEMMA MoveSteps ==
  ASSUME IInv, IInv', Progress, Store \/ Clear
  PROVE  Progress' /\ StoreStep
<1>1. /\ step \in {"store", "clear"} /\ request' = request
      /\ phase' = phase
  BY DEF Store, Clear
<1>2. /\ phase \in {"gc", "write"} /\ TypeOK /\ OneEach /\ Moves /\ index \in Ixs
      /\ current \in Sectors /\ next - 1 \in Containers
  BY <1>1, Moving
<1>3. ASSUME phase = "write"
      PROVE  /\ nth \in DOMAIN request /\ index = Address
             /\ flash[current][next - 1].data = Payload
  BY <1>1, <1>3 DEF IInv, WriteInv
<1>4. CASE Store /\ phase = "gc"
  <2>1. from # NoEntry
    BY <1>1, <1>4 DEF IInv, GcInv, Moves, NoEntry, Sectors
  <2>2. nth' = nth
    BY <2>1, <1>4 DEF Store
  <2>3. Contents' = Contents
    BY <1>4, StoreMoves
  <2> QED BY <2>2, <2>3, <1>1, NothingShown
<1>5. CASE Store /\ phase = "write"
  <2>1. nth' \in {nth, nth + 1}
    BY <1>5 DEF Store
  <2>2. Contents' = [Contents EXCEPT ![Address] = Payload]
    BY <1>3, <1>5, StoreWrites
  <2> QED BY <2>1, <2>2, <1>1, <1>2, <1>3, <1>5, PairWritten
<1>6. CASE Clear
  <2>1. Contents' = Contents
    <3>1. step = "clear"
      BY <1>6 DEF Clear
    <3>2. from # NoEntry
      BY <3>1, <1>2 DEF Moves
    <3>3. from \in Places
      BY <3>1, <3>2, Moving
    <3> QED BY <3>3, <1>2, <1>6, ClearKeeps, ClearingLosesNothing
  <2>2. CASE phase = "gc"
    <3>1. nth' = nth
      BY <2>2, <1>6 DEF Clear
    <3> QED BY <3>1, <2>1, <1>1, NothingShown
  <2>3. CASE phase = "write"
    <3>1. nth' = nth + 1 /\ step = "clear"
      BY <2>3, <1>6 DEF Clear
    <3>2. KindAt(current, next - 1) = "current" /\ flash[current][next - 1].ix = index
      BY <3>1, <1>2 DEF Moves
    <3>3. KeptAt(current, next - 1)
      BY <3>2 DEF KeptAt
    <3>4. Holds(index, flash[current][next - 1].data)
      BY <3>2, <3>3, <1>2 DEF Holds
    <3>5. Contents[Address] = Payload
      BY <3>4, <2>3, <1>2, <1>3, HoldsContents
    <3>6. Contents = [ix \in Ixs |-> Contents[ix]]
      BY DEF Contents
    <3>7. Contents' = [Contents EXCEPT ![Address] = Payload]
      BY <3>5, <3>6, <2>1
    <3> QED BY <3>1, <3>7, <2>3, <1>1, <1>2, <1>3, PairWritten
  <2> QED BY <2>2, <2>3, <1>2
<1> QED BY <1>2, <1>4, <1>5, <1>6

(* An update in place. *)
LEMMA UpdateSteps ==
  ASSUME IInv, Progress, UpdateInPlace
  PROVE  Progress' /\ StoreStep
<1>1. nth \in DOMAIN request /\ TypeOK /\ request' = request /\ nth' = nth + 1
  BY UpdatingSomewhere DEF UpdateInPlace
<1> QED BY <1>1, UpdateWrites, PairWritten

(* Where an operation begins and ends. *)
LEMMA WriteShown ==
  ASSUME IInv, NEW lo \in Ixs, NEW hi \in lo .. CatMax, NEW d \in [lo .. hi -> Payloads],
         Write(lo, hi, d)
  PROVE  Progress' /\ StoreStep
<1>1. /\ phase = "ready" /\ phase' = "write" /\ nth' = 1 /\ flash' = flash /\ request = <<>>
      /\ DOMAIN request' = 1 .. hi - lo + 1
  BY DEF Write, flashRam, IInv, ReadyInv
<1>2. /\ request' \in UNION {[1 .. n -> Ixs \X Payloads] : n \in 1 .. CatMax}
      /\ request' # <<>>
      /\ \A j, k \in DOMAIN request' : request'[j][1] = request'[k][1] => j = k
  BY WriteBegins
<1>3. Contents' = Contents
  BY <1>1, NothingTouched
<1>4. Progress'
  <2>1. \A j \in DOMAIN request' : ~ (j < 1)
    BY <1>1 DEF Ixs
  <2> QED BY <2>1, <1>1, <1>2 DEF Progress
<1>5. Memory!Begin
  <2>1. request' \in Memory!Writes
    BY <1>2 DEF Memory!Writes, Memory!Ixs, Ixs, Payloads
  <2>2. (phase = "ready" \/ request # <<>>)' = (phase = "ready" \/ request # <<>>)
    BY <1>1, <1>2
  <2> QED BY <2>1, <2>2, <1>1, <1>3 DEF Memory!Begin
<1> QED BY <1>4, <1>5 DEF StoreStep, Memory!Next

(* A write that returns has written all its pairs. *)
LEMMA ReturnShown ==
  ASSUME IInv, Progress, Return
  PROVE  Progress' /\ StoreStep
<1>1. /\ phase = "write" /\ nth \notin DOMAIN request /\ phase' = "ready"
      /\ request' = <<>> /\ flash' = flash
  BY DEF Return, flashRam
<1>2. TypeOK /\ request # <<>> /\ nth \in 1 .. CatMax + 1
  BY <1>1, Writing DEF TypeOK
<1>3. Contents' = Contents
  BY <1>1, NothingTouched
<1>4. PICK n \in 1 .. CatMax : request \in [1 .. n -> Ixs \X SUBSET Bits]
  BY <1>2 DEF TypeOK, Memory!Writes, Memory!Ixs, Ixs
<1>5. \A j \in DOMAIN request : j < nth
  BY <1>1, <1>2, <1>4, VesAssumption
<1>6. Memory!Finish
  <2>1. \A j \in DOMAIN request : Contents[request[j][1]] = request[j][2]
    BY <1>2, <1>5 DEF Progress
  <2>2. (phase = "ready" \/ request # <<>>)' = (phase = "ready" \/ request # <<>>)
    BY <1>1, <1>2
  <2> QED BY <2>1, <2>2, <1>1, <1>3 DEF Memory!Finish, Memory!Done
<1>7. Progress'
  BY <1>1 DEF Progress
<1> QED BY <1>6, <1>7 DEF StoreStep, Memory!Next

(* The driver is up when its first collection is over. *)
LEMMA CollectedShown ==
  ASSUME Progress, Collected
  PROVE  Progress' /\ StoreStep
<1>1. /\ phase = "gc" /\ flash' = flash /\ request' = request /\ nth' = nth
      /\ IF request = <<>> THEN phase' = "ready" ELSE phase' = "write"
  BY DEF Collected, flashRam, call
<1>2. Contents' = Contents
  BY <1>1, NothingTouched
<1>3. CASE request = <<>>
  <2>1. Memory!Recover
    <3>1. /\ ~ (phase = "ready" \/ request # <<>>)
          /\ (phase = "ready" \/ request # <<>>)' = TRUE
      BY <1>1, <1>3
    <3> QED BY <3>1, <1>1, <1>2 DEF Memory!Recover
  <2>2. Progress'
    BY <1>1, <1>3 DEF Progress
  <2> QED BY <2>1, <2>2 DEF StoreStep, Memory!Next
<1>4. CASE request # <<>>
  BY <1>1, <1>2, <1>4, NothingShown
<1> QED BY <1>3, <1>4

(* A loss of power drops the rest of a write. *)
LEMMA PowerLossShown == ASSUME PowerLoss PROVE Progress' /\ StoreStep
<1>1. phase' = "off" /\ request' = <<>> /\ flash' = flash
  BY DEF PowerLoss
<1>2. Contents' = Contents
  BY <1>1, NothingTouched
<1>3. Memory!PowerLoss
  <2>1. (phase = "ready" \/ request # <<>>)' = FALSE
    BY <1>1
  <2> QED BY <2>1, <1>1, <1>2 DEF Memory!PowerLoss
<1>4. Progress'
  BY <1>1 DEF Progress
<1> QED BY <1>3, <1>4 DEF StoreStep, Memory!Next

(* Every step of the driver is one of the store, or shows nothing. *)
LEMMA StepShown ==
  ASSUME Configured, IInv, Progress, [Next]_vars
  PROVE  Progress' /\ StoreStep
<1>1. IInv'
  BY StepKeeps
<1>2. CASE \E lo \in Ixs : \E hi \in lo .. CatMax : \E d \in [lo .. hi -> Payloads] :
              Write(lo, hi, d)
  BY <1>2, WriteShown
<1>3. CASE \/ Boot \/ ScanUnused \/ ScanUninitialized \/ ScanCleared
           \/ ScanFirstCopy \/ ScanCurrentCopy \/ ScanOldCopy
           \/ FindFreeSector \/ RecycleSector \/ KeepSector \/ ScanDone
           \/ Wipe \/ Prepare \/ ScanPrepared \/ GcPrepared
           \/ ChooseVictim \/ RescueNothing \/ Rescued \/ GetFreeContainer
  BY <1>1, <1>3, QuietSteps
<1>4. CASE Rescue \/ WriteData \/ Retire
  BY <1>1, <1>4, DataSteps
<1>5. CASE Store \/ Clear
  BY <1>1, <1>5, MoveSteps
<1>6. CASE UpdateInPlace \/ Return \/ Collected \/ PowerLoss
  BY <1>6, UpdateSteps, ReturnShown, CollectedShown, PowerLossShown
<1>7. CASE UNCHANGED vars
  <2>1. flash' = flash /\ request' = request /\ nth' = nth /\ phase' = phase
    BY <1>7 DEF vars, flashRam, at, call
  <2> QED BY <2>1, NothingTouched, NothingShown
<1>8. Next => \/ Boot \/ PowerLoss
              \/ \E lo \in Ixs : \E hi \in lo .. CatMax : \E d \in [lo .. hi -> Payloads] :
                    Write(lo, hi, d)
              \/ ScanUnused \/ ScanUninitialized \/ ScanCleared
              \/ ScanFirstCopy \/ ScanCurrentCopy \/ ScanOldCopy
              \/ FindFreeSector \/ RecycleSector \/ KeepSector \/ ScanDone
              \/ Wipe \/ Prepare \/ ScanPrepared \/ GcPrepared
              \/ ChooseVictim \/ RescueNothing \/ Rescue \/ Rescued \/ Collected
              \/ Retire \/ Store \/ Clear
              \/ UpdateInPlace \/ GetFreeContainer \/ WriteData \/ Return
  BY Zenon DEF Next, Work
<1> QED BY <1>2, <1>3, <1>4, <1>5, <1>6, <1>7, <1>8, Zenon

(* The partition starts empty. *)
LEMMA StartsEmpty == Init => Progress /\ Memory!Init
<1> SUFFICES ASSUME Init PROVE Progress /\ Memory!Init
  OBVIOUS
<1>1. /\ flash = [s \in Sectors |-> [c \in Containers |-> Erased]]
      /\ request = <<>> /\ phase = "off"
  BY DEF Init
<1>2. OneEach /\ TypeOK
  BY InitHolds DEF IInv
<1>3. ASSUME NEW ix \in Ixs PROVE Contents[ix] = Bits
  <2>1. \A s \in Sectors, c \in Containers : ~ LiveAt(s, c)
    BY <1>1 DEF LiveAt, KindAt, Erased
  <2>2. Holds(ix, Bits)
    BY <2>1 DEF Holds
  <2> QED BY <2>2, <1>2, HoldsContents
<1>4. Contents = [ix \in Ixs |-> Bits]
  <2>1. Contents = [ix \in Ixs |-> Contents[ix]]
    BY DEF Contents
  <2> QED BY <2>1, <1>3
<1>5. Progress
  BY <1>1 DEF Progress
<1> QED BY <1>1, <1>4, <1>5 DEF Memory!Init, Memory!Ixs, Ixs

(* The driver implements the store: whatever is collected, moved or recovered, *)
(* and wherever power fails, an address changes only to the payload that is   *)
(* being written to it, and a write that returns has written its addresses.   *)
THEOREM StoreImplemented == Configured => (Spec => ImplementsStore)
<1> SUFFICES ASSUME Configured PROVE Spec => ImplementsStore
  OBVIOUS
<1>1. Spec => []IInv
  BY InvariantHolds
<1>2. Init => Progress /\ Memory!Init
  BY StartsEmpty
<1>3. IInv /\ Progress /\ [Next]_vars => Progress'
  BY StepShown
<1>4. IInv /\ Progress /\ [Next]_vars =>
         [Memory!Next]_<<Contents, request, phase = "ready" \/ request # <<>>>>
  BY StepShown DEF StoreStep
<1> QED BY <1>1, <1>2, <1>3, <1>4, PTL DEF Spec, ImplementsStore, Memory!Spec

============================================================================
