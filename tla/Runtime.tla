------------------------------ MODULE Runtime ------------------------------
(***************************************************************************)
(* The life of one configured entry (runtime.py) and its water meter       *)
(* (meter.py): loading, observing the counter the proxy reports, setting   *)
(* the meter reading, stopping, and a crash of Home Assistant between any  *)
(* two steps.  The proxy is reduced to the counter it publishes and to the *)
(* outcome of a refresh (module Proxy has the rest).                       *)
(*                                                                         *)
(* Home Assistant's Store is external: a save marks the data as dirty and  *)
(* Write puts the data of that moment on disk atomically; a delayed save   *)
(* only marks it, and what is dirty at a crash is lost.                    *)
(***************************************************************************)
EXTENDS Integers

CONSTANTS
    Callers,     \* calls of set_meter_reading, each made once
    Readings,    \* the readings users enter
    MaxCounter,  \* bound: the highest value of the device's counter
    None

ASSUME RuntimeAssumption ==
    /\ Readings \subseteq Nat
    /\ MaxCounter \in Nat
    /\ None \notin Int /\ None \notin [offset : Int \cup {None}, last : Int \cup {None},
                                       reset : BOOLEAN]

VARIABLES
    phase,    \* of the entry, see Phases
    counter,  \* the device's own counter
    total,    \* Runtime.total_liters: the counter published and fresh, or None
    meter,    \* the Meter object
    dirty,    \* the Store has data to write
    disk,     \* the stored file
    calib,    \* the calls of set_meter_reading
    hist      \* history, see HistType

vars == <<phase, counter, total, meter, dirty, disk, calib, hist>>

\* stop() runs through "draining" (proxy and publisher), "closing" (it waits
\* for the calibration lock) and "saving"; "down" is a process not running.
Phases   == {"down", "loading", "up", "draining", "closing", "saving", "stopped"}
Counters == 0..MaxCounter

MeterType == [offset : Int \cup {None}, last : Counters \cup {None}, reset : BOOLEAN]
NewMeter  == [offset |-> None, last |-> None, reset |-> FALSE]

\* A call holds the calibration lock in the positions Inside.
Inside    == {"refresh", "answered", "save", "saved"}
CalibType == [at : {"idle", "lock", "ok", "unavailable", "cancelled"} \cup Inside,
              reading : Readings \cup {None}]

\* Since the reading was last set: offset, the offset it gave; acked, the call
\* returned normally; report, the last counter reported; fell, a report was
\* lower than the one before; shown, the highest reading shown; forgot, a crash
\* lost unsaved data.
HistType == [offset : Int \cup {None}, report : Counters \cup {None},
             shown : Int \cup {None}, acked : BOOLEAN, fell : BOOLEAN, forgot : BOOLEAN]

Init ==
    /\ phase = "down" /\ counter \in Counters /\ total = None
    /\ meter = NewMeter /\ dirty = FALSE /\ disk = None
    /\ calib = [c \in Callers |-> [at |-> "idle", reading |-> None]]
    /\ hist = [offset |-> None, report |-> None, shown |-> None, acked |-> FALSE,
               fell |-> FALSE, forgot |-> FALSE]

-----------------------------------------------------------------------------
(* The meter.  An operator named like another with a suffix, just before   *)
(* it, is the slip a run must notice if it took the other's place.         *)

Reading == IF total = None \/ meter.offset = None THEN None ELSE total + meter.offset

\* observe: a decrease ends the calibration; an unset meter observes nothing.
DecreaseTolerant(raw) == meter.last # None /\ raw + 1 < meter.last
Decrease(raw) == meter.last # None /\ raw < meter.last

SeenNothing(m, raw) == m
Seen(m, raw) == [m EXCEPT !.last = raw]

Unmoved(raw) == meter.offset = None \/ raw = meter.last
Observe(raw) ==
    IF Unmoved(raw) THEN meter
    ELSE Seen(IF Decrease(raw) THEN [meter EXCEPT !.offset = None, !.reset = TRUE]
              ELSE meter, raw)

-----------------------------------------------------------------------------
(* The device and the proxy.                                               *)

Flow  == /\ counter < MaxCounter /\ counter' = counter + 1
         /\ UNCHANGED <<phase, total, meter, dirty, disk, calib, hist>>
Reset == /\ counter > 0 /\ counter' = 0
         /\ UNCHANGED <<phase, total, meter, dirty, disk, calib, hist>>

\* The proxy observed a snapshot and notifies; `mine`: it is the one the
\* refresh of a waiting call asked for.
Snapshot(mine) ==
    /\ phase = "up"
    /\ mine => \E c \in Callers : calib[c].at = "refresh"
    /\ total' = counter
    /\ meter' = Observe(counter)
    /\ dirty' = (dirty \/ ~Unmoved(counter))
    /\ calib' = [c \in Callers |-> IF mine /\ calib[c].at = "refresh"
                                   THEN [calib[c] EXCEPT !.at = "answered"] ELSE calib[c]]
    /\ hist' = [hist EXCEPT
         !.report = IF hist.report = None THEN None ELSE counter,
         !.fell   = hist.fell \/ (hist.report # None /\ counter < hist.report),
         !.shown  = IF meter'.offset = None \/ counter + meter'.offset <= hist.shown
                    THEN hist.shown ELSE counter + meter'.offset]
    /\ UNCHANGED <<phase, counter, disk>>

\* The session was lost or replaced, or the counter got too old.
Lost == /\ total # None /\ total' = None
        /\ UNCHANGED <<phase, counter, meter, dirty, disk, calib, hist>>

-----------------------------------------------------------------------------
(* set_meter_reading.                                                      *)

Move(c, at) == calib' = [calib EXCEPT ![c].at = at]

FreeAlways == TRUE
Free == phase # "saving" /\ \A c \in Callers : calib[c].at \notin Inside

Calibrate(c, n) ==
    /\ phase \in {"up", "draining", "closing", "saving", "stopped"}
    /\ calib[c].at = "idle"
    /\ calib' = [calib EXCEPT ![c] = [at |-> "lock", reading |-> n]]
    /\ UNCHANGED <<phase, counter, total, meter, dirty, disk, hist>>

Acquire(c) ==
    /\ calib[c].at = "lock" /\ Free
    /\ Move(c, IF phase = "up" THEN "refresh" ELSE "unavailable")
    /\ UNCHANGED <<phase, counter, total, meter, dirty, disk, hist>>

\* The refresh is refused, rejected or takes 15 seconds.
DeadlineNone(c) == FALSE
Deadline(c) == calib[c].at = "refresh"

RefreshFails(c) ==
    /\ Deadline(c)
    /\ Move(c, "unavailable")
    /\ UNCHANGED <<phase, counter, total, meter, dirty, disk, hist>>

\* The counter is read again after the refresh; a stopped entry is not changed.
SetReading(c) ==
    /\ calib[c].at = "answered"
    /\ IF phase = "up" /\ total # None
       THEN LET offset == calib[c].reading - total IN
            /\ meter' = [offset |-> offset, last |-> total, reset |-> FALSE]
            /\ dirty' = TRUE
            /\ Move(c, "save")
            /\ hist' = [offset |-> offset, report |-> total, shown |-> calib[c].reading,
                        acked |-> FALSE, fell |-> FALSE, forgot |-> FALSE]
       ELSE Move(c, "unavailable") /\ UNCHANGED <<meter, dirty, hist>>
    /\ UNCHANGED <<phase, counter, total, disk>>

\* save() is awaited: the data has been written.
SavedAtOnce(c) == calib[c].at \in {"save", "saved"}
Saved(c) == calib[c].at = "saved"

CalibrateReturn(c) ==
    /\ Saved(c)
    /\ Move(c, "ok")
    /\ hist' = [hist EXCEPT !.acked = TRUE]
    /\ UNCHANGED <<phase, counter, total, meter, dirty, disk>>

\* The caller is cancelled; a save it awaited may still be written.
CalibrateCancel(c) ==
    /\ calib[c].at \in {"lock"} \cup Inside
    /\ Move(c, "cancelled")
    /\ UNCHANGED <<phase, counter, total, meter, dirty, disk, hist>>

-----------------------------------------------------------------------------
(* Start, stop, crash, and the Store.                                      *)

\* Setup makes new Runtime and Meter objects.
Start ==
    /\ phase \in {"down", "stopped"}
    /\ \A c \in Callers : calib[c].at \notin {"lock"} \cup Inside
    /\ phase' = "loading" /\ meter' = NewMeter
    /\ UNCHANGED <<counter, total, dirty, disk, calib, hist>>

\* The stored data is read, then the listener is bound, or setup fails.
Load(bound) ==
    /\ phase = "loading"
    /\ meter' = IF disk = None THEN meter ELSE disk
    /\ phase' = IF bound THEN "up" ELSE "down"
    /\ UNCHANGED <<counter, total, dirty, disk, calib, hist>>

StopBegin ==
    /\ phase = "up" /\ phase' = "draining"
    /\ UNCHANGED <<counter, total, meter, dirty, disk, calib, hist>>

StopDrained ==
    /\ phase = "draining" /\ phase' = "closing" /\ total' = None
    /\ UNCHANGED <<counter, meter, dirty, disk, calib, hist>>

StopSave ==
    /\ phase = "closing" /\ Free
    /\ phase' = "saving" /\ dirty' = TRUE
    /\ UNCHANGED <<counter, total, meter, disk, calib, hist>>

\* External: the delayed save is due, or a save that is awaited is done.
Write ==
    /\ dirty /\ dirty' = FALSE
    /\ disk' = meter
    /\ phase' = IF phase = "saving" THEN "stopped" ELSE phase
    /\ calib' = [c \in Callers |-> IF calib[c].at = "save"
                                   THEN [calib[c] EXCEPT !.at = "saved"] ELSE calib[c]]
    /\ UNCHANGED <<counter, total, meter, hist>>

\* The process ends at any point; only the disk remains.
Crash ==
    /\ phase # "down"
    /\ phase' = "down" /\ total' = None /\ meter' = NewMeter /\ dirty' = FALSE
    /\ calib' = [c \in Callers |-> IF calib[c].at \in {"lock"} \cup Inside
                                   THEN [calib[c] EXCEPT !.at = "cancelled"] ELSE calib[c]]
    /\ hist' = [hist EXCEPT !.forgot = hist.forgot \/ dirty]
    /\ UNCHANGED <<counter, disk>>

-----------------------------------------------------------------------------
Call(c) == \/ \E n \in Readings : Calibrate(c, n)
           \/ Acquire(c) \/ RefreshFails(c) \/ SetReading(c)
           \/ CalibrateReturn(c) \/ CalibrateCancel(c)

Next ==
    \/ Flow \/ Reset \/ Lost \/ \E mine \in BOOLEAN : Snapshot(mine)
    \/ \E c \in Callers : Call(c)
    \/ Start \/ (\E bound \in BOOLEAN : Load(bound))
    \/ StopBegin \/ StopDrained \/ StopSave \/ Write \/ Crash

Spec == Init /\ [][Next]_vars

\* Ready tasks run, the refresh has a deadline, the disk is written.
FairSpec ==
    /\ Spec
    /\ \A c \in Callers : /\ WF_vars(Acquire(c)) /\ WF_vars(RefreshFails(c))
                          /\ WF_vars(SetReading(c)) /\ WF_vars(CalibrateReturn(c))
    /\ WF_vars(StopDrained) /\ WF_vars(StopSave) /\ WF_vars(Write)

-----------------------------------------------------------------------------
(* Properties.                                                             *)

\* Types, and the calibration lock has one holder, stop() included.
TypeOK ==
    /\ phase \in Phases /\ counter \in Counters /\ total \in Counters \cup {None}
    /\ meter \in MeterType /\ dirty \in BOOLEAN /\ disk \in MeterType \cup {None}
    /\ calib \in [Callers -> CalibType] /\ hist \in HistType
    /\ \A c \in Callers : calib[c].at \in Inside =>
          phase # "saving" /\ \A d \in Callers \ {c} : calib[d].at \notin Inside

\* Between two settings the reading never goes down, over lost sessions,
\* counter resets, restarts and crashes that lose nothing unsaved (observe,
\* load).
NeverBackwards == ~hist.forgot /\ Reading # None => Reading >= hist.shown

\* Once the proxy reported a lower counter than before, the reading is unknown
\* until it is set again, whatever the counter does then and however often the
\* entry is restarted -- unless a crash lost data not yet saved.
DecreaseEndsReading == hist.fell /\ ~hist.forgot => Reading = None

\* What README.md says, without that exception.
DecreaseRemembered == hist.acked /\ hist.fell => Reading = None

\* Once set_meter_reading returned normally its setting survives a crash: the
\* disk holds the offset, or that the counter was reset since (save is awaited
\* before the return).
SettingDurable ==
    hist.acked => disk # None /\ (disk.offset = hist.offset \/ disk.reset)

\* When stop() returned, everything is on disk, and no call can change the
\* meter behind the saved data: none is between the lock and its return.
StoppedSaved ==
    phase = "stopped" =>
        disk = meter /\ \A c \in Callers : calib[c].at \notin Inside

\* Every call of set_meter_reading comes to an end.
CallsEnd == \A c \in Callers : calib[c].at = "lock" ~> calib[c].at \notin {"lock"} \cup Inside

\* stop() returns (unless the process ends): a calibration cannot hold it up.
StopEnds == phase = "draining" ~> phase \in {"stopped", "down"}
=============================================================================
