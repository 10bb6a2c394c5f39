--------------------------- MODULE RuntimeProofs ---------------------------
(***************************************************************************)
(* Proofs about Runtime, for every set of calls and readings and every     *)
(* range of the counter.                                                   *)
(***************************************************************************)
EXTENDS Runtime, TLAPS

Loaded == phase \notin {"down", "loading"}

\* What a meter, in memory or on disk, owes to the history since the reading
\* was set: the last report, no decrease, and nothing shown that is higher.
Agrees(m) ==
    m.offset # None =>
        /\ ~hist.fell /\ m.last # None /\ m.last = hist.report
        /\ hist.shown \in Int /\ hist.shown <= m.offset + m.last

\* What is left of a setting: its offset, or that the counter was reset.
Keeps(m) == m.offset = hist.offset \/ m.reset

\* The calibration lock is held only while the entry is up or stop() waits, and
\* every call was given a reading.
LockInv ==
    \A c \in Callers :
        /\ calib[c].at \in Inside => phase \in {"up", "draining", "closing"}
        /\ calib[c].at # "idle" => calib[c].reading \in Readings

\* Data to write, and data in step with the file.
StoreInv ==
    /\ ~Loaded \/ phase = "stopped" => ~dirty
    /\ phase = "stopped" => disk = meter
    /\ phase = "loading" => meter = NewMeter
    /\ Loaded /\ ~dirty => disk = meter \/ (disk = None /\ meter = NewMeter)

\* The published counter is the one the meter saw last.
CounterInv ==
    /\ phase \notin {"up", "draining"} => total = None
    /\ total # None /\ meter.offset # None => total = meter.last

\* Unless a crash lost data, meter and file agree with the history.
HistoryInv ==
    ~hist.forgot =>
        /\ Loaded => Agrees(meter)
        /\ ~dirty /\ disk # None => Agrees(disk)

\* A written setting is on disk, and the meter in memory keeps it.
SettingInv ==
    /\ hist.acked \/ (\E c \in Callers : calib[c].at = "saved")
          => disk # None /\ Keeps(disk)
    /\ Loaded /\ (hist.acked \/ \E c \in Callers : calib[c].at \in {"save", "saved"})
          => Keeps(meter)

IInv == TypeOK /\ LockInv /\ StoreInv /\ CounterInv /\ HistoryInv /\ SettingInv

USE RuntimeAssumption
USE DEF Counters, Inside

-----------------------------------------------------------------------------
(* Lemmas.                                                                 *)

LEMMA NewMeterType == NewMeter \in MeterType /\ NewMeter.offset = None
  BY DEF NewMeter, MeterType

\* What observing a counter does to a meter.
LEMMA ObserveFacts ==
    ASSUME meter \in MeterType, NEW raw \in Counters
    PROVE  /\ Observe(raw) \in MeterType
           /\ Unmoved(raw) => Observe(raw) = meter
           /\ ~Unmoved(raw) => /\ Observe(raw).last = raw
                               /\ Decrease(raw) => Observe(raw).offset = None /\ Observe(raw).reset
                               /\ ~Decrease(raw) => /\ Observe(raw).offset = meter.offset
                                                    /\ Observe(raw).reset = meter.reset
  BY DEF Observe, Seen, MeterType

\* A call that moves to a position outside the lock.
LEMMA MoveType ==
    ASSUME calib \in [Callers -> CalibType], NEW c \in Callers,
           NEW at \in {"idle", "lock", "ok", "unavailable", "cancelled"} \cup Inside,
           Move(c, at)
    PROVE  /\ calib' \in [Callers -> CalibType]
           /\ calib'[c].at = at /\ calib'[c].reading = calib[c].reading
           /\ \A d \in Callers \ {c} : calib'[d] = calib[d]
  BY DEF Move, CalibType

\* Steps of a call that change nothing but its position, and do not enter the
\* lock or its later positions.
LEMMA CallMoves ==
    ASSUME IInv, NEW c \in Callers, NEW at \in {"lock", "ok", "unavailable", "cancelled"},
           calib' \in [Callers -> CalibType], calib'[c].at = at,
           calib'[c].reading \in Readings,
           \A d \in Callers \ {c} : calib'[d] = calib[d],
           UNCHANGED <<phase, counter, total, meter, dirty, disk, hist>>
    PROVE  IInv'
<1>1. \A d \in Callers : calib'[d].at \in Inside \cup {"saved", "save"} => calib'[d] = calib[d]
  OBVIOUS
<1>2. TypeOK'
  BY <1>1 DEF IInv, TypeOK
<1>3. LockInv'
  BY <1>1 DEF IInv, LockInv
<1>4. (StoreInv /\ CounterInv /\ HistoryInv)'
  BY DEF IInv, StoreInv, CounterInv, HistoryInv, Loaded, Agrees
<1>5. SettingInv'
  BY <1>1 DEF IInv, SettingInv, Keeps, Loaded
<1> QED
  BY <1>2, <1>3, <1>4, <1>5 DEF IInv

-----------------------------------------------------------------------------
(* IInv is inductive.                                                      *)

LEMMA InitI == Init => IInv
<1> SUFFICES ASSUME Init PROVE IInv
  OBVIOUS
<1>1. calib \in [Callers -> CalibType] /\ hist \in HistType
  BY DEF Init, CalibType, HistType
<1>2. TypeOK
  BY <1>1, NewMeterType DEF Init, TypeOK, Phases
<1>3. LockInv /\ StoreInv /\ CounterInv /\ HistoryInv /\ SettingInv
  BY DEF Init, LockInv, StoreInv, CounterInv, HistoryInv, SettingInv, Loaded
<1> QED
  BY <1>2, <1>3 DEF IInv

LEMMA EnvironmentI == ASSUME IInv, Flow \/ Reset \/ Lost PROVE IInv'
<1>1. counter' \in Counters /\ total' \in {total, None}
  BY DEF Flow, Reset, Lost, IInv, TypeOK
<1>2. UNCHANGED <<phase, meter, dirty, disk, calib, hist>>
  BY DEF Flow, Reset, Lost
<1>3. TypeOK'
  BY <1>1, <1>2 DEF IInv, TypeOK
<1>4. CounterInv'
  BY <1>1, <1>2 DEF IInv, CounterInv
<1>5. (LockInv /\ StoreInv)'
  BY <1>2 DEF IInv, LockInv, StoreInv, Loaded
<1>6. (HistoryInv /\ SettingInv)'
  BY <1>2 DEF IInv, HistoryInv, SettingInv, Loaded, Agrees, Keeps
<1> QED
  BY <1>3, <1>4, <1>5, <1>6 DEF IInv

LEMMA SnapshotI == ASSUME IInv, NEW mine \in BOOLEAN, Snapshot(mine) PROVE IInv'
<1> DEFINE raw == counter
<1>1. /\ phase = "up" /\ total' = raw /\ meter' = Observe(raw)
      /\ dirty' = (dirty \/ ~Unmoved(raw)) /\ UNCHANGED <<phase, counter, disk>>
  BY DEF Snapshot
<1>2. raw \in Counters /\ meter \in MeterType /\ hist \in HistType
  BY DEF IInv, TypeOK
<1>3. meter' \in MeterType
  BY <1>1, <1>2, ObserveFacts
<1>4. /\ hist'.report = IF hist.report = None THEN None ELSE raw
      /\ hist'.fell = (hist.fell \/ (hist.report # None /\ raw < hist.report))
      /\ hist'.shown = IF meter'.offset = None \/ raw + meter'.offset <= hist.shown
                       THEN hist.shown ELSE raw + meter'.offset
      /\ hist'.offset = hist.offset /\ hist'.acked = hist.acked /\ hist'.forgot = hist.forgot
  BY <1>2 DEF Snapshot, HistType
<1>5. hist' \in HistType
  <2>1. raw + meter'.offset \in Int \/ meter'.offset = None
    BY <1>2, <1>3 DEF MeterType
  <2>2. hist'.shown \in Int \cup {None}
    BY <1>2, <1>4, <2>1 DEF HistType
  <2>3. hist' = [hist EXCEPT !.report = hist'.report, !.fell = hist'.fell, !.shown = hist'.shown]
    BY <1>2 DEF Snapshot, HistType
  <2>4. hist'.report \in Counters \cup {None} /\ hist'.fell \in BOOLEAN
    BY <1>2, <1>4 DEF HistType
  <2> QED
    BY <1>2, <2>2, <2>3, <2>4 DEF HistType
<1>6. /\ calib' \in [Callers -> CalibType]
      /\ \A c \in Callers : /\ calib'[c].at \in Inside <=> calib[c].at \in Inside
                            /\ calib'[c].at \in {"save", "saved"} => calib'[c] = calib[c]
                            /\ calib'[c].reading = calib[c].reading
                            /\ calib'[c].at = "idle" <=> calib[c].at = "idle"
  BY DEF Snapshot, IInv, TypeOK, CalibType
<1>7. TypeOK'
  BY <1>1, <1>3, <1>5, <1>6 DEF IInv, TypeOK
<1>8. LockInv'
  BY <1>1, <1>6 DEF IInv, LockInv
<1>9. StoreInv'
  BY <1>1, <1>2, ObserveFacts DEF IInv, StoreInv, Loaded
<1>10. CounterInv'
  BY <1>1, <1>2, ObserveFacts DEF IInv, CounterInv, Unmoved
<1>11. SettingInv'
  <2>1. Keeps(meter) => Keeps(meter)'
    BY <1>1, <1>2, <1>4, ObserveFacts DEF Keeps
  <2>2. Keeps(disk) => Keeps(disk)'
    BY <1>1, <1>4 DEF Keeps
  <2> QED
    BY <1>1, <1>4, <1>6, <2>1, <2>2 DEF IInv, SettingInv, Loaded
<1>12. HistoryInv'
  <2> SUFFICES ASSUME ~hist.forgot PROVE Agrees(meter)' /\ (~dirty' /\ disk # None => Agrees(disk)')
    BY <1>1, <1>4 DEF HistoryInv
  <2>1. Agrees(meter)
    BY <1>1 DEF IInv, HistoryInv, Loaded
  <2>2. Agrees(meter)'
    <3> SUFFICES ASSUME meter'.offset # None
                 PROVE  /\ ~hist'.fell /\ meter'.last # None /\ meter'.last = hist'.report
                        /\ hist'.shown \in Int /\ hist'.shown <= meter'.offset + meter'.last
      BY DEF Agrees
    <3>1. meter'.offset = meter.offset /\ meter'.last = raw
      BY <1>1, <1>2, ObserveFacts DEF Unmoved
    <3>2. /\ ~hist.fell /\ meter.last # None /\ meter.last = hist.report
          /\ hist.shown \in Int /\ hist.shown <= meter.offset + meter.last
      BY <2>1, <3>1 DEF Agrees
    <3>3. ~(raw < meter.last)
      BY <1>1, <1>2, <3>1, <3>2, ObserveFacts DEF Decrease, Unmoved, MeterType
    <3>4. meter'.offset \in Int
      BY <1>3 DEF MeterType
    <3>5. meter.last \in Int /\ raw \in Int /\ raw >= meter.last
      BY <1>2, <3>2, <3>3 DEF MeterType
    <3>6. ~hist'.fell /\ hist'.report = raw
      BY <1>4, <3>2, <3>3
    <3>7. hist'.shown \in Int /\ hist'.shown <= raw + meter'.offset
      BY <1>4, <3>1, <3>2, <3>4, <3>5
    <3> QED
      BY <3>1, <3>2, <3>4, <3>5, <3>6, <3>7
  <2>3. ASSUME ~dirty', disk # None PROVE Agrees(disk)'
    <3>1. ~dirty /\ meter' = meter /\ disk = meter /\ disk' = disk
      BY <1>1, <1>2, <2>3, ObserveFacts DEF IInv, StoreInv, Loaded
    <3> QED
      BY <2>2, <3>1 DEF Agrees
  <2> QED
    BY <2>2, <2>3
<1> QED
  BY <1>7, <1>8, <1>9, <1>10, <1>11, <1>12 DEF IInv

LEMMA CalibrateI ==
    ASSUME IInv, NEW c \in Callers, NEW n \in Readings, Calibrate(c, n) PROVE IInv'
<1>1. calib' \in [Callers -> CalibType] /\ calib'[c].at = "lock" /\ calib'[c].reading \in Readings
  BY DEF Calibrate, CalibType, IInv, TypeOK
<1>2. \A d \in Callers \ {c} : calib'[d] = calib[d]
  BY DEF Calibrate, IInv, TypeOK
<1> QED
  BY <1>1, <1>2, CallMoves DEF Calibrate

LEMMA AcquireI == ASSUME IInv, NEW c \in Callers, Acquire(c) PROVE IInv'
<1>1. /\ \A d \in Callers : calib[d].at \notin Inside
      /\ phase # "saving"
      /\ UNCHANGED <<phase, counter, total, meter, dirty, disk, hist>>
  BY DEF Acquire, Free
<1>2. CASE phase = "up"
  <2>1. Move(c, "refresh")
    BY <1>2 DEF Acquire
  <2>2. /\ calib' \in [Callers -> CalibType] /\ calib'[c].at = "refresh"
        /\ calib'[c].reading = calib[c].reading
        /\ \A d \in Callers \ {c} : calib'[d] = calib[d]
    BY <2>1, MoveType DEF IInv, TypeOK
  <2>3. TypeOK'
    BY <1>1, <2>2 DEF IInv, TypeOK
  <2>4. LockInv'
    BY <1>1, <1>2, <2>2 DEF IInv, LockInv, Acquire
  <2>5. (StoreInv /\ CounterInv /\ HistoryInv)'
    BY <1>1 DEF IInv, StoreInv, CounterInv, HistoryInv, Loaded, Agrees
  <2>6. SettingInv'
    BY <1>1, <2>2 DEF IInv, SettingInv, Keeps, Loaded
  <2> QED
    BY <2>3, <2>4, <2>5, <2>6 DEF IInv
<1>3. CASE phase # "up"
  <2>1. Move(c, "unavailable") /\ calib[c].reading \in Readings
    BY <1>3 DEF Acquire, IInv, LockInv
  <2> QED
    BY <1>1, <2>1, MoveType, CallMoves DEF IInv, TypeOK
<1> QED
  BY <1>2, <1>3

LEMMA GivesUpI ==
    ASSUME IInv, NEW c \in Callers, RefreshFails(c) \/ CalibrateCancel(c) PROVE IInv'
<1>1. PICK at \in {"unavailable", "cancelled"} : Move(c, at)
  BY DEF RefreshFails, CalibrateCancel
<1>2. UNCHANGED <<phase, counter, total, meter, dirty, disk, hist>>
  BY DEF RefreshFails, CalibrateCancel
<1>3. calib[c].reading \in Readings
  BY DEF RefreshFails, Deadline, CalibrateCancel, IInv, LockInv
<1> QED
  BY <1>1, <1>2, <1>3, MoveType, CallMoves DEF IInv, TypeOK

LEMMA SetReadingI == ASSUME IInv, NEW c \in Callers, SetReading(c) PROVE IInv'
<1>1. calib[c].at = "answered" /\ UNCHANGED <<phase, counter, total, disk>>
  BY DEF SetReading
<1>2. calib[c].reading \in Readings /\ \A d \in Callers \ {c} : calib[d].at \notin Inside
  BY <1>1 DEF IInv, LockInv, TypeOK
<1>3. CASE ~(phase = "up" /\ total # None)
  <2>1. Move(c, "unavailable") /\ UNCHANGED <<phase, counter, total, meter, dirty, disk, hist>>
    BY <1>3 DEF SetReading
  <2> QED
    BY <1>2, <2>1, MoveType, CallMoves DEF IInv, TypeOK
<1>4. CASE phase = "up" /\ total # None
  <2> DEFINE n == calib[c].reading
             offset == n - total
  <2>1. /\ meter' = [offset |-> offset, last |-> total, reset |-> FALSE]
        /\ dirty' = TRUE /\ Move(c, "save")
        /\ hist' = [offset |-> offset, report |-> total, shown |-> n,
                    acked |-> FALSE, fell |-> FALSE, forgot |-> FALSE]
    BY <1>4 DEF SetReading
  <2>2. n \in Int /\ total \in Counters /\ offset \in Int /\ n <= offset + total
    <3>1. n \in Nat /\ total \in 0..MaxCounter
      BY <1>2, <1>4 DEF IInv, TypeOK
    <3> HIDE DEF n
    <3> QED
      BY <3>1
  <2>3. /\ calib' \in [Callers -> CalibType] /\ calib'[c].at = "save"
        /\ calib'[c].reading = n /\ \A d \in Callers \ {c} : calib'[d] = calib[d]
    BY <2>1, MoveType DEF IInv, TypeOK
  <2> HIDE DEF n, offset
  <2>4. meter' \in MeterType /\ hist' \in HistType
    BY <2>1, <2>2 DEF MeterType, HistType
  <2>5. TypeOK'
    BY <1>1, <1>2, <1>4, <2>1, <2>3, <2>4 DEF IInv, TypeOK
  <2>6. LockInv'
    BY <1>1, <1>2, <1>4, <2>3 DEF IInv, LockInv, n
  <2>7. StoreInv'
    BY <1>1, <1>4, <2>1 DEF IInv, StoreInv, Loaded
  <2>8. CounterInv'
    BY <1>1, <1>4, <2>1 DEF CounterInv
  <2>9. HistoryInv'
    BY <2>1, <2>2 DEF HistoryInv, Agrees
  <2>10. SettingInv'
    BY <1>2, <2>1, <2>3 DEF SettingInv, Keeps
  <2> QED
    BY <2>5, <2>6, <2>7, <2>8, <2>9, <2>10 DEF IInv
<1> QED
  BY <1>3, <1>4

LEMMA ReturnI == ASSUME IInv, NEW c \in Callers, CalibrateReturn(c) PROVE IInv'
<1>1. /\ calib[c].at = "saved" /\ Move(c, "ok") /\ hist' = [hist EXCEPT !.acked = TRUE]
      /\ UNCHANGED <<phase, counter, total, meter, dirty, disk>>
  BY DEF CalibrateReturn, Saved
<1>2. /\ calib' \in [Callers -> CalibType] /\ calib'[c].at = "ok"
      /\ calib'[c].reading = calib[c].reading
      /\ \A d \in Callers \ {c} : calib'[d] = calib[d]
  BY <1>1, MoveType DEF IInv, TypeOK
<1>3. /\ hist' \in HistType /\ hist'.offset = hist.offset /\ hist'.report = hist.report
      /\ hist'.shown = hist.shown /\ hist'.fell = hist.fell /\ hist'.forgot = hist.forgot
  BY <1>1 DEF IInv, TypeOK, HistType
<1>4. TypeOK'
  BY <1>1, <1>2, <1>3 DEF IInv, TypeOK
<1>5. LockInv'
  BY <1>1, <1>2 DEF IInv, LockInv
<1>6. (StoreInv /\ CounterInv)'
  BY <1>1 DEF IInv, StoreInv, CounterInv, Loaded
<1>7. HistoryInv'
  BY <1>1, <1>3 DEF IInv, HistoryInv, Loaded, Agrees
<1>8. SettingInv'
  BY <1>1, <1>2, <1>3 DEF IInv, SettingInv, Keeps, Loaded
<1> QED
  BY <1>4, <1>5, <1>6, <1>7, <1>8 DEF IInv

LEMMA StartI == ASSUME IInv, Start PROVE IInv'
<1>1. /\ phase \in {"down", "stopped"} /\ phase' = "loading" /\ meter' = NewMeter
      /\ \A c \in Callers : calib[c].at \notin Inside
      /\ UNCHANGED <<counter, total, dirty, disk, calib, hist>>
  BY DEF Start
<1>2. TypeOK'
  BY <1>1, NewMeterType DEF IInv, TypeOK, Phases
<1>3. (LockInv /\ StoreInv /\ CounterInv)'
  BY <1>1 DEF IInv, LockInv, StoreInv, CounterInv, Loaded
<1>4. (HistoryInv /\ SettingInv)'
  BY <1>1 DEF IInv, HistoryInv, SettingInv, Loaded, Agrees, Keeps
<1> QED
  BY <1>2, <1>3, <1>4 DEF IInv

LEMMA LoadI == ASSUME IInv, NEW bound \in BOOLEAN, Load(bound) PROVE IInv'
<1>1. /\ phase = "loading" /\ meter' = IF disk = None THEN meter ELSE disk
      /\ phase' \in {"up", "down"}
      /\ UNCHANGED <<counter, total, dirty, disk, calib, hist>>
  BY DEF Load
<1>2. ~dirty /\ total = None /\ meter = NewMeter /\ \A c \in Callers : calib[c].at \notin Inside
  BY <1>1 DEF IInv, StoreInv, CounterInv, LockInv, Loaded
<1>3. TypeOK'
  BY <1>1, <1>2 DEF IInv, TypeOK, Phases
<1>4. (LockInv /\ StoreInv /\ CounterInv)'
  BY <1>1, <1>2 DEF IInv, LockInv, StoreInv, CounterInv, Loaded
<1>5. HistoryInv'
  BY <1>1, <1>2, NewMeterType DEF IInv, HistoryInv, Agrees
<1>6. SettingInv'
  BY <1>1, <1>2 DEF IInv, SettingInv, Keeps
<1> QED
  BY <1>3, <1>4, <1>5, <1>6 DEF IInv

LEMMA StopI == ASSUME IInv, StopBegin \/ StopDrained \/ StopSave PROVE IInv'
<1>1. /\ Loaded /\ phase # "stopped" /\ Loaded'
      /\ phase' \in {"draining", "closing", "saving"}
      /\ phase' = "draining" => phase = "up"
      /\ phase' # "draining" => total' = None
      /\ total' \in {total, None} /\ (~dirty' => ~dirty) /\ dirty' \in BOOLEAN
      /\ UNCHANGED <<counter, meter, disk, calib, hist>>
  BY DEF StopBegin, StopDrained, StopSave, Loaded, IInv, TypeOK, CounterInv
<1>2. phase' = "saving" => \A c \in Callers : calib[c].at \notin Inside
  BY DEF StopBegin, StopDrained, StopSave, Free
<1>3. TypeOK'
  BY <1>1, <1>2 DEF IInv, TypeOK, Phases
<1>4. LockInv'
  BY <1>1, <1>2 DEF IInv, LockInv
<1>5. StoreInv'
  BY <1>1 DEF IInv, StoreInv
<1>6. CounterInv'
  BY <1>1 DEF IInv, CounterInv
<1>7. HistoryInv'
  BY <1>1 DEF IInv, HistoryInv, Agrees
<1>8. SettingInv'
  BY <1>1 DEF IInv, SettingInv, Keeps
<1> QED
  BY <1>3, <1>4, <1>5, <1>6, <1>7, <1>8 DEF IInv

LEMMA WriteI == ASSUME IInv, Write PROVE IInv'
<1>1. /\ dirty /\ dirty' = FALSE /\ disk' = meter
      /\ phase' = IF phase = "saving" THEN "stopped" ELSE phase
      /\ UNCHANGED <<counter, total, meter, hist>>
  BY DEF Write
<1>2. /\ calib' \in [Callers -> CalibType]
      /\ \A c \in Callers : /\ calib'[c].reading = calib[c].reading
                            /\ calib'[c].at = "idle" <=> calib[c].at = "idle"
                            /\ calib'[c].at \in Inside <=> calib[c].at \in Inside
                            /\ calib'[c].at = "saved" => calib[c].at \in {"save", "saved"}
                            /\ calib'[c].at = "save" => calib[c].at = "save"
  BY DEF Write, IInv, TypeOK, CalibType
<1>3. Loaded /\ phase # "stopped" /\ Loaded' /\ meter # None
  BY <1>1 DEF IInv, StoreInv, Loaded, TypeOK, MeterType
<1>4. TypeOK'
  BY <1>1, <1>2 DEF IInv, TypeOK, Phases
<1>5. LockInv'
  BY <1>1, <1>2 DEF IInv, LockInv
<1>6. StoreInv'
  BY <1>1, <1>3 DEF IInv, StoreInv, Loaded
<1>7. CounterInv'
  BY <1>1 DEF IInv, CounterInv
<1>8. HistoryInv'
  BY <1>1, <1>3 DEF IInv, HistoryInv, Agrees
<1>9. SettingInv'
  BY <1>1, <1>2, <1>3 DEF IInv, SettingInv, Keeps
<1> QED
  BY <1>4, <1>5, <1>6, <1>7, <1>8, <1>9 DEF IInv

LEMMA CrashI == ASSUME IInv, Crash PROVE IInv'
<1>1. /\ phase' = "down" /\ total' = None /\ meter' = NewMeter /\ dirty' = FALSE
      /\ hist' = [hist EXCEPT !.forgot = hist.forgot \/ dirty]
      /\ UNCHANGED <<counter, disk>>
  BY DEF Crash
<1>2. /\ calib' \in [Callers -> CalibType]
      /\ \A c \in Callers : /\ calib'[c].at \notin Inside
                            /\ calib'[c].reading = calib[c].reading
                            /\ calib'[c].at = "idle" => calib[c].at = "idle"
                            /\ calib[c].at = "idle" => calib'[c].at = "idle"
  BY DEF Crash, IInv, TypeOK, CalibType
<1>3. /\ hist' \in HistType /\ hist'.offset = hist.offset /\ hist'.report = hist.report
      /\ hist'.shown = hist.shown /\ hist'.fell = hist.fell /\ hist'.acked = hist.acked
      /\ hist'.forgot = (hist.forgot \/ dirty)
  BY <1>1 DEF IInv, TypeOK, HistType
<1>4. TypeOK'
  BY <1>1, <1>2, <1>3, NewMeterType DEF IInv, TypeOK, Phases
<1>5. (LockInv /\ StoreInv /\ CounterInv)'
  BY <1>1, <1>2 DEF IInv, LockInv, StoreInv, CounterInv, Loaded
<1>6. HistoryInv'
  BY <1>1, <1>3 DEF IInv, HistoryInv, Loaded, Agrees
<1>7. SettingInv'
  BY <1>1, <1>2, <1>3 DEF IInv, SettingInv, Loaded, Keeps
<1> QED
  BY <1>4, <1>5, <1>6, <1>7 DEF IInv

LEMMA NextI == ASSUME IInv, [Next]_vars PROVE IInv'
<1>1. CASE Next
  BY <1>1, EnvironmentI, SnapshotI, CalibrateI, AcquireI, GivesUpI, SetReadingI, ReturnI,
     StartI, LoadI, StopI, WriteI, CrashI DEF Next, Call
<1>2. CASE UNCHANGED vars
  <2>1. TypeOK' /\ LockInv'
    BY <1>2 DEF IInv, TypeOK, LockInv, vars
  <2>2. (StoreInv /\ CounterInv)'
    BY <1>2 DEF IInv, StoreInv, CounterInv, Loaded, vars
  <2>3. (HistoryInv /\ SettingInv)'
    BY <1>2 DEF IInv, HistoryInv, SettingInv, Loaded, Agrees, Keeps, vars
  <2> QED
    BY <2>1, <2>2, <2>3 DEF IInv
<1> QED
  BY <1>1, <1>2

LEMMA Invariance == Spec => []IInv
  BY InitI, NextI, PTL DEF Spec

-----------------------------------------------------------------------------
(* The theorems.                                                           *)

\* Every reachable state is well typed, and the calibration lock has one holder
\* (Runtime.set_meter_reading, Runtime.stop).
THEOREM TypeCorrect == Spec => []TypeOK
<1>1. IInv => TypeOK
  BY DEF IInv
<1> QED
  BY <1>1, Invariance, PTL

\* A setting that set_meter_reading returned normally for survives any crash
\* (it awaits Meter.save).
THEOREM SettingsSurvive == Spec => []SettingDurable
<1>1. IInv => SettingDurable
  BY DEF IInv, SettingInv, SettingDurable, Keeps
<1> QED
  BY <1>1, Invariance, PTL

\* A decrease of the counter ends the reading until it is set again
\* (Meter.observe, Meter.load), unless a crash lost unsaved data.
THEOREM DecreasesEnd == Spec => []DecreaseEndsReading
<1>1. IInv => DecreaseEndsReading
  BY DEF IInv, HistoryInv, CounterInv, Agrees, Loaded, DecreaseEndsReading, Reading
<1> QED
  BY <1>1, Invariance, PTL

\* Between two settings the reading never goes down, with the same exception
\* (Meter.observe, Meter.load).
THEOREM ReadingGrows == Spec => []NeverBackwards
<1>1. IInv => NeverBackwards
  <2> SUFFICES ASSUME IInv, ~hist.forgot, Reading # None PROVE Reading >= hist.shown
    BY DEF NeverBackwards
  <2>1. total # None /\ meter.offset # None /\ Reading = total + meter.offset
    BY DEF Reading
  <2>2. Loaded /\ total = meter.last
    BY <2>1 DEF IInv, CounterInv, Loaded
  <2>3. hist.shown \in Int /\ hist.shown <= meter.offset + meter.last
    BY <2>1, <2>2 DEF IInv, HistoryInv, Agrees
  <2>4. total \in Int /\ meter.offset \in Int
    BY <2>1 DEF IInv, TypeOK, MeterType
  <2> QED
    BY <2>1, <2>2, <2>3, <2>4
<1> QED
  BY <1>1, Invariance, PTL

\* When stop() has returned, the file holds what the meter holds, and no call
\* can change it any more (Runtime.stop).
THEOREM StopSaves == Spec => []StoppedSaved
<1>1. IInv => StoppedSaved
  BY DEF IInv, StoreInv, LockInv, StoppedSaved
<1> QED
  BY <1>1, Invariance, PTL
=============================================================================
