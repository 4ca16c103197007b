---------------------------- MODULE GpadcAdapter ----------------------------
(***************************************************************************)
(* The converter adapter (ad_gpadc.c): one converter, owned by one task at *)
(* a time through the resource manager, with a time limit if the caller    *)
(* wants one; an asynchronous reading is released by the interrupt of the  *)
(* converter.  A task may acquire the converter itself around a reading,   *)
(* which then acquires it once more.                                       *)
(*                                                                         *)
(* The acquisition count is read and written in two steps, for the         *)
(* interrupt may come in between.                                          *)
(***************************************************************************)
EXTENDS ResourceManager

CONSTANTS
    Gpadc,      \* RES_ID_GPADC
    Sources,    \* what can be measured, among it
    TempSensor, \* the temperature, with a sensor to switch on and off
    NoSource,
    NoTask,
    Readings,   \* the readings the tasks do
    Nested      \* may a task call again while its asynchronous reading runs?

ASSUME GpadcAssumption ==
    /\ Gpadc \in Resources
    /\ TempSensor \in Sources /\ NoSource \notin Sources
    /\ NoTask \notin Tasks
    /\ Readings \subseteq [async : BOOLEAN, source : Sources, nest : {"none", "outer"}]
    /\ Nested \in BOOLEAN

VARIABLES
    gAt,        \* where each task is: idle, or a step of the functions below,
    gJob,       \* what it reads and how, and how its acquisitions are nested
    gSeen,      \* the count it has read
    gOwner, gCount, reading, source,    \* dynamic_data
    converting, \* the task the converter is converting for
    sensor      \* whether the temperature sensor is on

gData == <<gOwner, gCount, reading, source, converting, sensor>>
gpadcVars == <<gAt, gJob, gSeen, gData>>

NoReading == [async |-> FALSE, source |-> NoSource, nest |-> "none"]

GpadcInit ==
    /\ gAt = [t \in Tasks |-> "idle"]
    /\ gJob = [t \in Tasks |-> NoReading]
    /\ gSeen = [t \in Tasks |-> 0]
    /\ gOwner = NoTask /\ gCount = 0
    /\ reading = FALSE /\ source = NoSource
    /\ converting = NoTask /\ sensor = FALSE

GGo(t, place) == gAt' = [gAt EXCEPT ![t] = place]

GStep(t, place) == gAt[t] = place /\ call[t].pc = "run"

Nest(t, n) == gJob' = [gJob EXCEPT ![t].nest = n]

(* The call returns to the application. *)
GLeave(t) == GGo(t, "idle") /\ gJob' = [gJob EXCEPT ![t] = NoReading]

----------------------------------------------------------------------------
(* ad_gpadc_read_to or ad_gpadc_read_async, alone or after                  *)
(* ad_gpadc_acquire.  The code does not keep a task from calling while its  *)
(* own asynchronous reading runs, and looks for that case (204-207); but    *)
(* the interrupt may come between lines 136 and 137, and the call goes on   *)
(* with a converter that was given back.  Nested = FALSE leaves this out.   *)
GBegin(t, r) ==
    /\ GStep(t, "idle")
    /\ Nested \/ converting # t
    /\ gJob' = [gJob EXCEPT ![t] = r]
    /\ GGo(t, "check")
    /\ UNCHANGED <<rmVars, gSeen, gData>>

(* ad_gpadc_acquire_to *)
GCheck(t) ==
    /\ GStep(t, "check")
    /\ GGo(t, IF gOwner = t THEN "load" ELSE "ask")
    /\ UNCHANGED <<rmVars, gJob, gSeen, gData>>

(* Only ad_gpadc_read_to has a time limit, or none, or does not wait. *)
GAsk(t) ==
    LET limitable == ~gJob[t].async /\ gJob[t].nest = "none" IN
    /\ gAt[t] = "ask"
    /\ \/ AcquireNow(t, {Gpadc}) /\ GGo(t, "own") /\ UNCHANGED gJob
       \/ /\ \E limited \in {FALSE, limitable} : Enqueue(t, {Gpadc}, limited)
          /\ GGo(t, "wait") /\ UNCHANGED gJob
       \/ limitable /\ Refused(t, {Gpadc}) /\ GLeave(t)
    /\ UNCHANGED <<gSeen, gData>>

(* Faulty variant: when the time is up, the adapter asks again. *)
AskAgain(t) == GGo(t, "ask") /\ UNCHANGED gJob

Fails(t) == GLeave(t)

GGranted(t) ==
    /\ gAt[t] = "wait"
    /\ Return(t)
    /\ IF Succeeds(t) THEN GGo(t, "own") /\ UNCHANGED gJob ELSE Fails(t)
    /\ UNCHANGED <<gSeen, gData>>

GOwn(t) ==
    /\ GStep(t, "own")
    /\ gOwner' = t
    /\ GGo(t, "load")
    /\ UNCHANGED <<rmVars, gJob, gSeen, gCount, reading, source, converting, sensor>>

GLoad(t) ==
    /\ GStep(t, "load")
    /\ gSeen' = [gSeen EXCEPT ![t] = gCount]
    /\ GGo(t, "store")
    /\ UNCHANGED <<rmVars, gJob, gData>>

GStore(t) ==
    /\ GStep(t, "store")
    /\ gCount' = gSeen[t] + 1
    /\ gSeen' = [gSeen EXCEPT ![t] = 0]
    /\ IF gJob[t].nest = "outer"
         THEN GGo(t, "check") /\ Nest(t, "inner")
         ELSE GGo(t, "use") /\ UNCHANGED gJob
    /\ UNCHANGED <<rmVars, gOwner, reading, source, converting, sensor>>

(* Faulty variant: a source is set up only when there is none. *)
FirstSourceSetUp(t) ==
    /\ source' = IF source = NoSource THEN gJob[t].source ELSE source
    /\ sensor' = (sensor \/ (gCount = 1 /\ source' = TempSensor))

(* ad_gpadc_apply_config and ad_gpadc_input_initialize *)
SetUp(t) ==
    /\ source' = gJob[t].source
    /\ sensor' = (sensor \/ (gCount = 1 /\ source' = TempSensor))

(* The body of the two functions: an asynchronous reading is refused while   *)
(* one is in progress; a synchronous one takes the interrupt away.          *)
GUse(t) ==
    /\ GStep(t, "use")
    /\ IF gJob[t].async /\ reading
         THEN GGo(t, "relLoad") /\ UNCHANGED <<gJob, reading, source, converting, sensor>>
         ELSE /\ SetUp(t)
              /\ reading' = (reading \/ gJob[t].async)
              /\ converting' = IF gJob[t].async THEN t ELSE NoTask
              /\ IF gJob[t].async /\ gJob[t].nest = "none"
                   THEN GLeave(t)
                   ELSE /\ GGo(t, IF gJob[t].async THEN "callback" ELSE "measure")
                        /\ UNCHANGED gJob
    /\ UNCHANGED <<rmVars, gSeen, gOwner, gCount>>

GMeasured(t) ==
    /\ GStep(t, "measure")
    /\ GGo(t, "relLoad")
    /\ UNCHANGED <<rmVars, gJob, gSeen, gData>>

(* ad_gpadc_release.  When it was not the last one, the application goes on   *)
(* to release what it acquired itself.                                     *)
GRelLoad(t) ==
    /\ GStep(t, "relLoad")
    /\ gSeen' = [gSeen EXCEPT ![t] = gCount]
    /\ GGo(t, "relStore")
    /\ UNCHANGED <<rmVars, gJob, gData>>

(* Faulty variant: any release is the last. *)
AnyIsLast(n) == TRUE

CountDown(n) == n - 1
IsLast(n) == n = 1

GRelStore(t) ==
    /\ GStep(t, "relStore")
    /\ gCount' = CountDown(gSeen[t])
    /\ gSeen' = [gSeen EXCEPT ![t] = 0]
    /\ IF IsLast(gSeen[t]) THEN GGo(t, "relOwner") /\ UNCHANGED gJob
       ELSE IF gJob[t].nest = "inner" THEN GGo(t, "relLoad") /\ Nest(t, "outer")
       ELSE GLeave(t)
    /\ UNCHANGED <<rmVars, gOwner, reading, source, converting, sensor>>

(* Faulty variants: the owner, or the sensor, stays. *)
KeepsOwner ==
    /\ UNCHANGED gOwner
    /\ sensor' = (sensor /\ source # TempSensor)

KeepsSensor == gOwner' = NoTask /\ UNCHANGED sensor

(* ad_gpadc_source_finalize, and the owner is cleared. *)
Disown ==
    /\ gOwner' = NoTask
    /\ sensor' = (sensor /\ source # TempSensor)

GRelOwner(t) ==
    /\ GStep(t, "relOwner")
    /\ Disown
    /\ GGo(t, "relRes")
    /\ UNCHANGED <<rmVars, gJob, gSeen, gCount, reading, source, converting>>

GRelRes(t) ==
    /\ gAt[t] = "relRes"
    /\ Release({Gpadc})
    /\ GLeave(t)
    /\ UNCHANGED <<gSeen, gData>>

(* ad_gpadc_cb, the interrupt at the end of a conversion *)
GInterrupt ==
    LET waits == {t \in Tasks : gAt[t] = "callback"} IN
    /\ converting # NoTask
    /\ converting' = NoTask
    /\ reading' = FALSE
    /\ gCount' = CountDown(gCount)
    /\ IF IsLast(gCount)
         THEN Disown /\ Release({Gpadc})
         ELSE UNCHANGED <<gOwner, sensor, rmVars>>
    /\ gAt' = [t \in Tasks |-> IF t \in waits THEN "relLoad" ELSE gAt[t]]
    /\ gJob' = [t \in Tasks |-> IF t \in waits THEN [gJob[t] EXCEPT !.nest = "outer"] ELSE gJob[t]]
    /\ UNCHANGED <<gSeen, source>>

(* ad_gpadc_prepare_for_sleep, when no task can run *)
GSleep ==
    /\ \A t \in Tasks :
          gAt[t] = "idle" \/ gAt[t] = "callback" \/ (call[t].pc = "wait" /\ ~signalled[call[t].req])
    /\ source # NoSource /\ gCount = 0
    /\ source' = NoSource
    /\ UNCHANGED <<rmVars, gAt, gJob, gSeen, gOwner, gCount, reading, converting, sensor>>

GpadcTask(t) ==
    \/ GCheck(t) \/ GAsk(t) \/ GGranted(t) \/ GOwn(t) \/ GLoad(t) \/ GStore(t) \/ GUse(t)
    \/ GMeasured(t) \/ GRelLoad(t) \/ GRelStore(t) \/ GRelOwner(t) \/ GRelRes(t)

GWake(t) == Wake(t) /\ UNCHANGED gpadcVars

GTimeOut(t) == TimeOut(t) /\ UNCHANGED gpadcVars

vars == <<rmVars, gpadcVars>>

Init == RmInit /\ GpadcInit

Next ==
    \/ \E t \in Tasks :
          \/ \E r \in Readings : GBegin(t, r)
          \/ GpadcTask(t) \/ GWake(t) \/ GTimeOut(t)
    \/ GInterrupt
    \/ GSleep

(* Tasks that can run do, a semaphore that is given wakes its task, a time   *)
(* limit runs out, a conversion ends.                                      *)
Fairness ==
    /\ \A t \in Tasks : WF_vars(GpadcTask(t)) /\ WF_vars(GWake(t)) /\ WF_vars(GTimeOut(t))
    /\ WF_vars(GInterrupt)

Spec == Init /\ [][Next]_vars /\ Fairness

----------------------------------------------------------------------------
(* "This function waits for GPADC to become available, and locks it": a task *)
(* between acquisition and release, and the task the converter converts     *)
(* for, have the converter, so that no two have; and the assertions of      *)
(* ad_gpadc_release hold.                                                  *)
GpadcLocked ==
    /\ \A t \in Tasks : gAt[t] \in {"own", "use", "measure", "callback", "relLoad"} =>
           Gpadc \in held[t]
    /\ \A t \in Tasks : gAt[t] = "relLoad" => gCount > 0 /\ gOwner = t
    /\ converting # NoTask => Gpadc \in held[converting] /\ gCount > 0

(* A reading is of the source that was asked for, and a reading of the       *)
(* temperature has the sensor on: no release of another task and no sleep   *)
(* comes in between.  (Not if the task had acquired the converter itself.)  *)
ReadsOwnSource ==
    \A t \in Tasks : gAt[t] = "measure" =>
        /\ source = gJob[t].source
        /\ source = TempSensor /\ gJob[t].nest = "none" => sensor

(* The converter is free, and the sensor off, when nobody uses them. *)
GpadcFreed ==
    converting = NoTask /\ (\A t \in Tasks : gAt[t] = "idle")
        => gOwner = NoTask /\ gCount = 0 /\ Gpadc \notin acquired /\ ~reading /\ ~sensor

(* The adapter is a caller as the manager expects: a release, also one by    *)
(* the interrupt, gives back what one task holds.                          *)
UsesManager == RmSpec

(* A reading with a time limit returns, whatever the others do, also when    *)
(* its time is up as it is served; one without a limit may wait for ever,   *)
(* for the resource manager serves the newest request first.               *)
TimedReadsReturn ==
    \A t \in Tasks : gAt[t] = "wait" /\ call[t].limited ~> gAt[t] = "idle"
============================================================================
