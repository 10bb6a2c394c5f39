-------------------------- MODULE DiscoveryProofs --------------------------
(***************************************************************************)
(* Proofs about Discovery: no discovery message is forgotten, and none is  *)
(* removed that its entry owns; for any entries, prefixes, changes and     *)
(* restarts.                                                               *)
(***************************************************************************)
EXTENDS Discovery, TLAPS

Holding == {"save", "pick", "sent", "cleared", "resave"}
Called  == Holding \cup {"flush", "discovery"}

\* A discovery topic belongs to its own entry only, and is owned or to be
\* removed, never both; in memory and in the file.
Apart(m) == \A e \in Entries :
               /\ \A d \in Entries : e \in m.owned[d] => d = e
               /\ e \in m.owned[e] => e \notin m.pending

Separate == Apart(Memory) /\ Apart(disk) /\ \A f \in late : Apart(f)

\* Only a save that was cut off leaves a thread behind, and only a loaded
\* registry saves.
CutInv == (cut => loaded) /\ (late # {} => cut)

\* A call runs on a loaded registry; once set_topics has begun, a publisher's
\* entry owns its discovery topic, and the file says so once it is saved and
\* unless a save was cut off.
CallInv ==
    /\ \A k \in Tasks : at[k] \in Called \cup {"ask"} => loaded
    /\ at[Sweeper] # "out" => loaded
    /\ \A e \in Entries : at[e] \in Called /\ publisher[e] # None => e \in owned[e]
    /\ \A e \in Entries : at[e] = "discovery" => publisher[e] # None
    /\ \A e \in Entries : e \in owned[e] /\ at[e] # "save" => e \in OnDisk \/ cut

\* The topic under removal is still to be removed; after the broker cleared
\* it, it is not retained.
FlushInv ==
    \A k \in Tasks :
        /\ at[k] \in {"sent", "cleared"} => removing \in pending
        /\ at[k] = "cleared" /\ removing \in Entries => removing \notin retained

\* What the broker retains is on disk, and known once the registry is loaded,
\* but for the cases DiscoveryRecorded excepts; what is known does not depend on
\* saves that were cut off since the start.
RecordInv ==
    \A e \in Entries : e \in retained =>
        /\ e \in OnDisk \/ cut \/ e \in forgotten
        /\ loaded => e \in Known \/ e \in forgotten

Rest == Separate /\ CutInv /\ CallInv /\ FlushInv /\ RecordInv
IInv == TypeOK /\ Rest

USE ConstantsAssumption, NamesAssumption

-----------------------------------------------------------------------------
(* The types.                                                              *)

LEMMA OneLock ==
    ASSUME TypeOK, NEW j \in Tasks, NEW k \in Tasks, at[j] \in Holding, at[k] \in Holding
    PROVE  j = k /\ lock = k
  BY DEF TypeOK, Holding

LEMMA InitInv == Init => IInv
<1> SUFFICES ASSUME Init PROVE IInv
  OBVIOUS
<1>1. TypeOK
  <2>1. config \in [Entries -> Configs] /\ plan \in [Entries -> {"none", "reload", "remove"}]
    BY DEF Init, Configs
  <2>2. publisher \in [Entries -> Maybe(Prefixes)] /\ Memory \in FileType /\ disk \in FileType
    BY DEF Init, Maybe, Memory, FileType, Nothing
  <2>3. at \in [Tasks -> Positions] /\ \A k \in Tasks : at[k] \notin Holding /\ lock # k
    BY DEF Init, Positions, Holding, Maybe
  <2>4. lock \in Maybe(Tasks) /\ removing \in Maybe(Topics) /\ retained \in SUBSET Topics
    BY DEF Init, Maybe
  <2>5. loaded \in BOOLEAN /\ connected \in BOOLEAN /\ cut \in BOOLEAN
    BY Zenon DEF Init
  <2>7. flow \in [Entries -> Maybe(Configs)] /\ late \in SUBSET FileType /\ forgotten \in SUBSET Entries
    BY DEF Init, Maybe
  <2>6. changes \in 0..MaxChanges /\ restarts \in 0..MaxRestarts
    BY DEF Init
  <2> QED
    BY <2>1, <2>2, <2>3, <2>4, <2>5, <2>6, <2>7, Zenon DEF TypeOK, Holding
<1>2. Separate /\ CutInv /\ CallInv /\ FlushInv /\ RecordInv
  BY DEF Init, Separate, CutInv, Apart, CallInv, FlushInv, RecordInv, Memory, Nothing, Called, Holding, Tasks
<1> QED
  BY <1>1, <1>2 DEF IInv, Rest

\* What the end of a write and a cancellation make of the file.
FileOK == /\ disk \in FileType /\ late \in SUBSET FileType
          /\ cut \in BOOLEAN /\ forgotten \in SUBSET Entries

LEMMA WriteType ==
    ASSUME TypeOK, NEW m \in FileType, NEW r \in SUBSET FileType, Write(m, r)
    PROVE  FileOK'
<1>1. cut' \in BOOLEAN
  BY Zenon DEF TypeOK, Write
<1> QED
  BY <1>1 DEF TypeOK, Write, FileOK

LEMMA InterruptType ==
    ASSUME TypeOK, NEW k \in Tasks, Interrupt(k)
    PROVE  FileOK'
<1>1. cut' \in BOOLEAN
  BY Zenon DEF TypeOK, Interrupt
<1> QED
  BY <1>1 DEF TypeOK, Interrupt, FileOK

LEMMA ManageType ==
    ASSUME TypeOK, NEW e \in Entries,
           Configure(e) \/ Manage(e)
    PROVE  TypeOK'
<1>1. e \in Tasks
  BY DEF Tasks
<1>2. CASE Configure(e)
  <2>1. flow[e] \in Maybe(Configs) /\ config[e] \in Configs
    BY DEF TypeOK
  <2>2. CASE Remove(e) \/ Reconfigure(e)
    BY <2>1, <2>2 DEF TypeOK, Remove, Reconfigure, Maybe, memory, mutex, file, broker, bounds,
       FileType, Memory
  <2>3. ASSUME NEW c \in Prefixes \cup {"off"}, Validate(e, c) PROVE TypeOK'
    BY <2>3 DEF TypeOK, Validate, Maybe, Configs, memory, mutex, file, broker, FileType, Memory
  <2> QED
    BY <1>2, <2>2, <2>3 DEF Configure
<1>3. CASE Setup(e)
  BY <1>1, <1>3 DEF TypeOK, Setup, Configs, Maybe, Move, memory, mutex, file, broker, bounds,
     FileType, Memory, Positions
<1>4. CASE Unload(e) \/ RemoveCall(e)
  BY <1>1, <1>4 DEF TypeOK, Unload, RemoveCall, Move, ha, memory, mutex, file, broker, bounds,
     FileType, Memory, Positions
<1>5. CASE Removed(e)
  BY <1>1, <1>5 DEF TypeOK, Removed, Move, ha, memory, mutex, file, broker, bounds,
     FileType, Memory, Positions, Configs
<1>6. CASE Stopped(e)
  BY <1>1, <1>6 DEF TypeOK, Stopped, Move, memory, mutex, file, broker, bounds,
     FileType, Memory, Positions, Maybe, Topics
<1>7. CASE StopPublisher(e)
  BY <1>1, <1>7, InterruptType DEF FileOK, TypeOK, StopPublisher, Interrupt, Move, ha, memory, bounds,
     FileType, Memory, Positions, Maybe
<1> QED
  BY <1>2, <1>3, <1>4, <1>5, <1>6, <1>7 DEF Manage

LEMMA RegistryType ==
    ASSUME TypeOK, NEW e \in Entries, Publish(e) \/ Registry(e)
    PROVE  TypeOK'
<1>1. e \in Tasks /\ After(e) \in {"discovery", "removed", "off"}
  BY DEF Tasks, After
<1>2. CASE Report(e)
  BY <1>1, <1>2 DEF TypeOK, Report, Move, ha, memory, mutex, file, bounds,
     FileType, Memory, Positions, Topics, Maybe
<1>3. CASE Announce(e)
  BY <1>1, <1>3 DEF TypeOK, Announce, Move, ha, memory, mutex, file, bounds,
     FileType, Memory, Positions, Topics
<1>4. CASE Load(e)
  BY <1>1, <1>4 DEF TypeOK, Load, ha, mutex, file, broker, bounds, FileType, Memory, Positions, Tasks
<1>5. CASE SetTopics(e)
  BY <1>1, <1>5 DEF TypeOK, SetTopics, Enters, Retired, Wanted, Move, ha, file, broker, bounds,
     FileType, Memory, Positions, Topics, Maybe
<1>6. CASE SameTopics(e)
  BY <1>1, <1>6 DEF TypeOK, SameTopics, Enters, Move, ha, memory, mutex, file, broker, bounds,
     FileType, Memory, Positions
<1>7. CASE TopicsSaved(e)
  BY <1>1, <1>7, WriteType DEF FileOK, TypeOK, TopicsSaved, Saved, Move, ha, memory, file, broker, bounds,
     FileType, Memory, Positions, Maybe
<1> QED
  BY <1>2, <1>3, <1>4, <1>5, <1>6, <1>7 DEF Publish, Registry

LEMMA FlushType ==
    ASSUME TypeOK, NEW k \in Tasks, Flush(k)
    PROVE  TypeOK'
<1>1. After(k) \in {"idle", "discovery", "removed", "off"}
  BY DEF After
<1>2. CASE FlushBegin(k)
  BY <1>2 DEF TypeOK, FlushBegin, Move, ha, memory, file, broker, bounds,
     FileType, Memory, Positions, Maybe
<1>3. ASSUME NEW t \in Topics, FlushSend(k, t) PROVE TypeOK'
  BY <1>3 DEF TypeOK, FlushSend, Move, ha, memory, file, broker, bounds,
     FileType, Memory, Positions, Maybe
<1>4. CASE BrokerClears(k)
  BY <1>4 DEF TypeOK, BrokerClears, Move, ha, memory, mutex, file, bounds,
     FileType, Memory, Positions
<1>5. CASE FlushCleared(k)
  BY <1>5 DEF TypeOK, FlushCleared, Move, ha, file, broker, bounds,
     FileType, Memory, Positions, Maybe
<1>6. CASE FlushSaved(k)
  BY <1>6, WriteType DEF FileOK, TypeOK, FlushSaved, Move, ha, memory, mutex, file, broker, bounds,
     FileType, Memory, Positions
<1>7. CASE FlushEnd(k)
  BY <1>1, <1>7, InterruptType DEF FileOK, TypeOK, FlushEnd, Interrupt, Move, ha, memory, bounds,
     FileType, Memory, Positions, Maybe
<1> QED
  BY <1>2, <1>3, <1>4, <1>5, <1>6, <1>7 DEF Flush

LEMMA OtherType ==
    ASSUME TypeOK, Sweep \/ LateWrite \/ Connection \/ Restart \/ UNCHANGED vars
    PROVE  TypeOK'
<1>1. CASE Sweep
  BY <1>1 DEF TypeOK, Sweep, Move, ha, memory, mutex, file, broker, bounds,
     FileType, Memory, Positions, Tasks
<1>2. CASE Connection
  BY <1>2 DEF TypeOK, Connection, ha, memory, mutex, file, bounds, FileType, Memory
<1>3. CASE Restart
  <2>1. Memory' \in FileType /\ publisher' \in [Entries -> Maybe(Prefixes)]
        /\ plan' \in [Entries -> {"none", "reload", "remove"}]
    BY <1>3 DEF TypeOK, Restart, FileType, Memory, Maybe, Nothing
  <2>2. /\ config' \in [Entries -> Configs] /\ retained' \in SUBSET Topics
        /\ disk' \in FileType /\ late' \in SUBSET FileType /\ forgotten' \in SUBSET Entries
        /\ flow' \in [Entries -> Maybe(Configs)]
    BY <1>3 DEF TypeOK, Restart, Maybe
  <2>3. at' \in [Tasks -> Positions] /\ \A k \in Tasks : at'[k] \notin Holding /\ lock' # k
    BY <1>3 DEF Restart, Positions, Holding, Maybe
  <2>4. lock' \in Maybe(Tasks) /\ removing' \in Maybe(Topics)
    BY <1>3 DEF Restart, Maybe
  <2>5. loaded' \in BOOLEAN /\ connected' \in BOOLEAN /\ cut' \in BOOLEAN
    BY <1>3, Zenon DEF Restart
  <2>6. changes' \in 0..MaxChanges /\ restarts' \in 0..MaxRestarts
    BY <1>3 DEF TypeOK, Restart
  <2> QED
    BY <2>1, <2>2, <2>3, <2>4, <2>5, <2>6, Zenon DEF TypeOK, Holding
<1>4. CASE LateWrite
  <2>1. PICK m \in late : Write(m, late \ {m})
    BY <1>4 DEF LateWrite
  <2>2. FileOK'
    BY <2>1, WriteType DEF TypeOK
  <2> QED
    BY <1>4, <2>2 DEF FileOK, TypeOK, LateWrite, ha, memory, mutex, broker, bounds, FileType, Memory
<1>5. CASE UNCHANGED vars
  BY <1>5 DEF TypeOK, vars, ha, memory, mutex, file, broker, bounds, FileType, Memory
<1> QED
  BY <1>1, <1>2, <1>3, <1>4, <1>5

-----------------------------------------------------------------------------
(* Steps that keep the registry's memory.                                  *)

\* The file stays, a save is cut off, or a write ends: that of the registry's
\* memory, or a late one.
FileStep ==
    \/ UNCHANGED file
    \/ cut' /\ loaded /\ late' \in {late, late \cup {Memory}} /\ UNCHANGED <<disk, forgotten>>
    \/ loaded /\ Write(Memory, late)
    \/ \E m \in late : Write(m, late \ {m})

\* A cancelled or timed out task makes one of these steps.
LEMMA InterruptFile ==
    ASSUME TypeOK, CallInv, NEW k \in Tasks, Interrupt(k)
    PROVE  FileStep
<1>1. CASE at[k] \in {"save", "resave"}
  <2>1. loaded
    BY <1>1 DEF CallInv, Called, Holding
  <2> QED
    BY <1>1, <2>1 DEF Interrupt, FileStep
<1>2. CASE at[k] \notin {"save", "resave"}
  <2>1. cut' = cut
    BY <1>2, Zenon DEF Interrupt, TypeOK
  <2> QED
    BY <1>2, <2>1 DEF Interrupt, FileStep, file
<1> QED
  BY <1>1, <1>2

\* What a write records is what memory knows; only then does it end the
\* exception.
LEMMA Written ==
    ASSUME TypeOK, CutInv, NEW m, NEW r \in SUBSET late, Write(m, r), m = Memory \/ m \in late,
           UNCHANGED loaded
    PROVE  /\ CutInv'
           /\ m = Memory => OnDisk' = Known /\ forgotten' = forgotten \ Known
           /\ m # Memory => cut' /\ forgotten' = forgotten
<1>1. m = Memory => OnDisk' = Known
  BY DEF Write, OnDisk, Known, InUse, Memory
<1>2. m # Memory => cut
  BY DEF CutInv
<1> QED
  BY <1>1, <1>2 DEF Write, CutInv

LEMMA KeptMemory ==
    ASSUME TypeOK, Rest, UNCHANGED memory, FileStep,
           retained' \subseteq retained \cup Prefixes
    PROVE  /\ Separate' /\ CutInv' /\ RecordInv'
           /\ \A e \in Entries : e \in owned[e] /\ (e \in OnDisk \/ cut) => e \in OnDisk' \/ cut'
<1>1. Known' = Known /\ loaded' = loaded /\ Memory' = Memory
  BY DEF Known, InUse, memory, Memory
<1>2. \A e \in Entries : e \in retained' => e \in retained
  OBVIOUS
<1>3. CASE UNCHANGED file
  BY <1>1, <1>2, <1>3 DEF Rest, Separate, CutInv, RecordInv, OnDisk, file
<1>4. CASE cut' /\ loaded /\ late' \in {late, late \cup {Memory}} /\ UNCHANGED <<disk, forgotten>>
  BY <1>1, <1>2, <1>4 DEF Rest, Separate, CutInv, RecordInv
<1>5. ASSUME NEW m, NEW r \in SUBSET late, Write(m, r), loaded, m = Memory \/ m \in late
      PROVE  /\ Separate' /\ CutInv' /\ RecordInv'
             /\ \A e \in Entries : e \in owned[e] => e \in OnDisk' \/ cut'
  <2>1. /\ CutInv'
        /\ m = Memory => OnDisk' = Known /\ forgotten' = forgotten \ Known
        /\ m # Memory => cut' /\ forgotten' = forgotten
    BY <1>1, <1>5, Written DEF Rest
  <2>2. Separate'
    BY <1>1, <1>5 DEF Rest, Separate, Write
  <2>3. RecordInv'
    BY <1>1, <1>2, <1>5, <2>1 DEF Rest, RecordInv
  <2>4. \A e \in Entries : e \in owned[e] => e \in Known
    BY DEF Known, InUse
  <2> QED
    BY <2>1, <2>2, <2>3, <2>4
<1>6. late # {} => loaded
  BY DEF Rest, CutInv
<1> QED
  BY <1>3, <1>4, <1>5, <1>6 DEF FileStep

\* The removal of a task that another may do is not under way.
LEMMA OneFlush ==
    ASSUME TypeOK, NEW j \in Tasks, NEW k \in Tasks, lock = k, at[j] \in {"sent", "cleared"}
    PROVE  j = k
  BY DEF TypeOK

LEMMA KeptFlush ==
    ASSUME TypeOK, FlushInv, UNCHANGED memory,
           \A k \in Tasks : at'[k] \in {"sent", "cleared"} => at'[k] = at[k] /\ removing' = removing,
           retained' \subseteq retained \cup Prefixes
    PROVE  FlushInv'
  BY DEF FlushInv, memory

LEMMA ManageRest ==
    ASSUME TypeOK, Rest, NEW e \in Entries,
           Configure(e) \/ Manage(e)
    PROVE  Rest'
<1>1. e \in Tasks
  BY DEF Tasks
<1>2. CASE Configure(e)
  <2>1. UNCHANGED <<publisher, memory, mutex, at, file, broker>>
    BY <1>2 DEF Configure, Remove, Reconfigure, Validate
  <2> QED
    BY <2>1 DEF Rest, Separate, CutInv, Apart, CallInv, FlushInv, RecordInv, memory, mutex, file,
       broker, Memory, OnDisk, Known, InUse
<1>3. CASE Setup(e) \/ Unload(e) \/ RemoveCall(e) \/ Removed(e) \/ Stopped(e)
  <2>1. UNCHANGED <<memory, mutex, file>> /\ retained' \subseteq retained \cup Prefixes
    BY <1>3 DEF Setup, Unload, RemoveCall, Removed, Stopped, broker, TypeOK, Maybe
  <2>2. /\ at'[e] \notin Called \cup {"ask"} /\ at[e] # "save"
        /\ \A k \in Tasks : k # e => at'[k] = at[k]
        /\ \A d \in Entries : d # e => publisher'[d] = publisher[d]
    BY <1>1, <1>3 DEF Setup, Unload, RemoveCall, Removed, Stopped, ha, Move, TypeOK, Called, Holding
  <2>3. Separate' /\ CutInv' /\ RecordInv'
    BY <2>1, KeptMemory DEF FileStep
  <2>4. FlushInv'
    BY <2>1, <2>2, KeptFlush DEF Rest, mutex, Called, Holding
  <2>5. CallInv'
    BY <2>1, <2>2 DEF Rest, CallInv, memory, file, OnDisk, Called, Holding, Tasks
  <2> QED
    BY <2>3, <2>4, <2>5 DEF Rest
<1>4. CASE StopPublisher(e)
  <2>1. UNCHANGED <<ha, memory>> /\ retained' \subseteq retained
    BY <1>4 DEF StopPublisher, Interrupt
  <2>2. at'[e] = "stopping" /\ \A k \in Tasks : k # e => at'[k] = at[k]
    BY <1>1, <1>4 DEF StopPublisher, Move, TypeOK
  <2>3. FileStep /\ (at[e] = "save" => cut')
    BY <1>1, <1>4, InterruptFile DEF StopPublisher, Interrupt, Rest
  <2>4. /\ Separate' /\ CutInv' /\ RecordInv'
        /\ \A d \in Entries : d \in owned[d] /\ (d \in OnDisk \/ cut) => d \in OnDisk' \/ cut'
    BY <2>1, <2>3, KeptMemory
  <2>5. FlushInv'
    <3>1. \A k \in Tasks : at'[k] \in {"sent", "cleared"} => at'[k] = at[k] /\ removing' = removing
      BY <1>1, <1>4, <2>2, OneFlush DEF StopPublisher, Interrupt
    <3> QED
      BY <2>1, <3>1, KeptFlush DEF Rest
  <2>6. CallInv'
    <3>1. \A d \in Entries : d \in owned[d] /\ at'[d] # "save" => d \in OnDisk' \/ cut'
      BY <2>2, <2>3, <2>4 DEF Rest, CallInv, Tasks
    <3> QED
      BY <2>1, <2>2, <3>1 DEF Rest, CallInv, memory, ha, Called, Holding, Tasks
  <2> QED
    BY <2>4, <2>5, <2>6 DEF Rest
<1> QED
  BY <1>2, <1>3, <1>4 DEF Manage

LEMMA PublishRest ==
    ASSUME TypeOK, Rest, NEW e \in Entries, Publish(e)
    PROVE  Rest'
<1>1. e \in Tasks /\ publisher[e] \in Maybe(Prefixes)
  BY DEF Tasks, TypeOK
<1>2. CASE Report(e)
  <2>1. UNCHANGED <<publisher, memory, mutex, file>> /\ retained' \subseteq retained \cup Prefixes
    BY <1>1, <1>2 DEF Report, ha, Maybe
  <2>2. at'[e] \in {"idle", "call"} /\ at[e] = "idle" /\ \A k \in Tasks : k # e => at'[k] = at[k]
    BY <1>1, <1>2 DEF Report, Move, TypeOK
  <2>3. Separate' /\ CutInv' /\ RecordInv'
    BY <2>1, KeptMemory DEF FileStep
  <2>4. FlushInv'
    BY <2>1, <2>2, KeptFlush DEF Rest, mutex
  <2>5. CallInv'
    BY <2>1, <2>2 DEF Rest, CallInv, memory, file, OnDisk, Called, Holding, Tasks
  <2> QED
    BY <2>3, <2>4, <2>5 DEF Rest
<1>3. CASE Announce(e)
  <2>1. UNCHANGED <<publisher, memory, mutex, file>> /\ retained' \subseteq retained \cup {e}
    BY <1>3 DEF Announce, ha
  <2>2. at'[e] = "idle" /\ at[e] = "discovery" /\ \A k \in Tasks : k # e => at'[k] = at[k]
    BY <1>1, <1>3 DEF Announce, Move, TypeOK
  <2>3. e \in owned[e] /\ loaded /\ (e \in OnDisk \/ cut) /\ e \in Known /\ e \notin pending
    BY <1>1, <2>2 DEF Rest, Separate, Apart, CallInv, Called, Known, InUse, Memory
  <2>4. Separate' /\ CutInv'
    BY <2>1 DEF Rest, Separate, CutInv, Apart, Memory, memory, file
  <2>5. RecordInv'
    BY <2>1, <2>3 DEF Rest, RecordInv, memory, file, OnDisk, Known, InUse
  <2>6. FlushInv'
    BY <2>1, <2>2, <2>3 DEF Rest, FlushInv, memory, mutex
  <2>7. CallInv'
    BY <2>1, <2>2 DEF Rest, CallInv, memory, file, OnDisk, Called, Holding, Tasks
  <2> QED
    BY <2>4, <2>5, <2>6, <2>7 DEF Rest
<1> QED
  BY <1>2, <1>3 DEF Publish

-----------------------------------------------------------------------------
(* The registry.                                                           *)

\* Before the registry is loaded no task is in a call.
LEMMA LoadRest ==
    ASSUME TypeOK, Rest, NEW e \in Entries, Load(e)
    PROVE  Rest'
<1>1. e \in Tasks /\ ~loaded /\ loaded' /\ UNCHANGED <<publisher, removing, file, retained>>
  BY DEF Load, Tasks, ha, mutex, broker
<1>2. \A k \in Tasks : at[k] \notin Called \cup {"ask"} /\ at'[k] \notin Called
  BY <1>1 DEF Rest, CallInv, Load, TypeOK, Called, Holding
<1>3. /\ \A d \in Entries : owned'[d] \subseteq disk.owned[d]
      /\ \A d, t : t \in owned'[d] /\ d \in Entries => config[d] \notin {"off", "deleted"}
      /\ pending' = disk.pending \cup
                    UNION {disk.owned[d] : d \in {d \in Entries : config[d] \in {"off", "deleted"}}}
  BY DEF Load
<1>4. Separate' /\ CutInv'
  BY <1>1, <1>3 DEF Rest, Separate, CutInv, Apart, Memory, file
<1>5. OnDisk \subseteq Known'
  BY DEF Load, OnDisk, Known, InUse
<1>6. RecordInv'
  BY <1>1, <1>5 DEF Rest, CutInv, RecordInv, OnDisk, file
<1>7. \A d \in Entries : d \in owned'[d] => d \in OnDisk'
  BY <1>1, <1>3 DEF OnDisk, file
<1>8. CallInv'
  BY <1>1, <1>2, <1>7 DEF CallInv, Called, Tasks
<1>9. FlushInv'
  BY <1>2 DEF FlushInv, Called, Holding
<1> QED
  BY <1>4, <1>6, <1>8, <1>9 DEF Rest

\* What set_topics takes from an entry is to be removed, unless it asks for it.
LEMMA SetTopicsRest ==
    ASSUME TypeOK, Rest, NEW e \in Entries, SetTopics(e)
    PROVE  Rest'
<1>1. e \in Tasks /\ UNCHANGED <<publisher, loaded, removing, file, retained>> /\ lock = None
  BY DEF SetTopics, Tasks, ha, broker, Enters
<1>2. loaded /\ at[e] # "save" /\ \A k \in Tasks : at[k] \notin Holding
  BY <1>1 DEF Rest, CallInv, SetTopics, Enters, TypeOK, Holding
<1>3. at'[e] = "save" /\ \A k \in Tasks : k # e => at'[k] = at[k]
  BY <1>1 DEF SetTopics, Move, TypeOK
<1>4. /\ owned'[e] = Wanted(e)
      /\ \A d \in Entries : d # e => owned'[d] = owned[d]
      /\ pending' = (pending \cup (owned[e] \ Wanted(e))) \ Wanted(e)
  BY DEF SetTopics, Retired, TypeOK, FileType, Memory
<1>5. Wanted(e) \cap Entries \subseteq {e} /\ (publisher[e] # None => e \in Wanted(e))
  BY DEF Wanted, TypeOK, Maybe
<1>6. Apart(Memory)'
  <2>1. \A c, d \in Entries : c \in owned'[d] => d = c
    BY <1>4, <1>5 DEF Rest, Separate, Apart, Memory
  <2>2. ASSUME NEW d \in Entries, d \in owned'[d] PROVE d \notin pending'
    BY <1>4, <2>2 DEF Rest, Separate, Apart, Memory
  <2> QED
    BY <2>1, <2>2 DEF Apart, Memory
<1>7. Known \subseteq Known'
  <2> SUFFICES ASSUME NEW t \in Known PROVE t \in Known'
    OBVIOUS
  <2>1. CASE t \in Wanted(e)
    BY <1>4, <2>1 DEF Known, InUse
  <2>2. CASE t \notin Wanted(e)
    BY <1>4, <2>2 DEF Known, InUse
  <2> QED
    BY <2>1, <2>2
<1>8. Separate' /\ CutInv' /\ RecordInv'
  BY <1>1, <1>6, <1>7 DEF Rest, Separate, CutInv, Apart, RecordInv, OnDisk, file
<1>9. FlushInv'
  BY <1>1, <1>2, <1>3 DEF FlushInv, Holding
<1>10. CallInv'
  BY <1>1, <1>2, <1>3, <1>4, <1>5 DEF Rest, CallInv, file, OnDisk, Called, Holding, Tasks
<1> QED
  BY <1>8, <1>9, <1>10 DEF Rest

LEMMA RegistryRest ==
    ASSUME TypeOK, Rest, NEW e \in Entries, Registry(e)
    PROVE  Rest'
<1>1. e \in Tasks /\ e # Sweeper
  BY DEF Tasks
<1>2. CASE SameTopics(e)
  <2>1. UNCHANGED <<publisher, memory, mutex, file, retained>> /\ loaded
    BY <1>1, <1>2 DEF SameTopics, ha, broker, Rest, CallInv, Enters
  <2>2. /\ at[e] \in {"ask", "call"} /\ at'[e] = After(e)
        /\ \A k \in Tasks : k # e => at'[k] = at[k]
    BY <1>1, <1>2 DEF SameTopics, Enters, Move, TypeOK
  <2>3. After(e) \in {"discovery", "removed", "off"} /\ (After(e) = "discovery" <=> publisher[e] # None)
    BY <1>1 DEF After
  <2>4. publisher[e] # None => e \in owned[e]
    BY <1>2 DEF SameTopics, Wanted
  <2>5. Separate' /\ CutInv' /\ RecordInv'
    BY <2>1, KeptMemory DEF FileStep
  <2>6. FlushInv'
    BY <2>1, <2>2, <2>3, KeptFlush DEF Rest, mutex
  <2>7. CallInv'
    BY <2>1, <2>2, <2>3, <2>4 DEF Rest, CallInv, memory, file, OnDisk, Called, Holding, Tasks
  <2> QED
    BY <2>5, <2>6, <2>7 DEF Rest
<1>3. CASE TopicsSaved(e)
  <2>1. UNCHANGED <<publisher, memory, removing, retained>> /\ loaded /\ Write(Memory, late)
    BY <1>1, <1>3 DEF TopicsSaved, Saved, ha, broker, Rest, CallInv, Called, Holding
  <2>2. at[e] = "save" /\ at'[e] = "flush" /\ \A k \in Tasks : k # e => at'[k] = at[k]
    BY <1>1, <1>3 DEF TopicsSaved, Move, TypeOK
  <2>3. Separate' /\ CutInv' /\ RecordInv'
    BY <2>1, KeptMemory DEF FileStep
  <2>4. FlushInv'
    BY <2>1, <2>2, KeptFlush DEF Rest
  <2>5. \A d \in Entries : d \in owned[d] => d \in OnDisk'
    BY <2>1 DEF Write, OnDisk, Memory
  <2>6. CallInv'
    BY <2>1, <2>2, <2>5 DEF Rest, CallInv, memory, Called, Holding, Tasks
  <2> QED
    BY <2>3, <2>4, <2>6 DEF Rest
<1> QED
  BY <1>2, <1>3, LoadRest, SetTopicsRest DEF Registry

\* A removal that is acknowledged is forgotten; its topic is not retained.
LEMMA FlushClearedRest ==
    ASSUME TypeOK, Rest, NEW k \in Tasks, FlushCleared(k)
    PROVE  Rest'
<1>1. /\ UNCHANGED <<publisher, owned, loaded, file, retained>>
      /\ pending' = pending \ {removing} /\ at[k] = "cleared"
  BY DEF FlushCleared, ha, broker
<1>2. at'[k] = "resave" /\ \A j \in Tasks : j # k => at'[j] = at[j]
  BY DEF FlushCleared, Move, TypeOK
<1>3. \A j \in Tasks : j # k => at[j] \notin Holding
  BY <1>1, OneLock DEF Holding
<1>4. removing \in Entries => removing \notin retained
  BY <1>1 DEF Rest, FlushInv
<1>5. Separate' /\ CutInv'
  BY <1>1 DEF Rest, Separate, CutInv, Apart, Memory, file
<1>6. RecordInv'
  BY <1>1, <1>4 DEF Rest, RecordInv, file, OnDisk, Known, InUse
<1>7. FlushInv'
  BY <1>2, <1>3 DEF FlushInv, Holding
<1>8. CallInv'
  BY <1>1, <1>2 DEF Rest, CallInv, file, OnDisk, Called, Holding, Tasks
<1> QED
  BY <1>5, <1>6, <1>7, <1>8 DEF Rest

LEMMA FlushRest ==
    ASSUME TypeOK, Rest, NEW k \in Tasks, Flush(k)
    PROVE  Rest'
<1>1. CASE FlushBegin(k) \/ \E t \in Topics : FlushSend(k, t)
  <2>1. UNCHANGED <<publisher, memory, file, retained>>
    BY <1>1 DEF FlushBegin, FlushSend, ha, broker
  <2>2. /\ at[k] \in {"flush", "pick"} /\ at'[k] \in {"pick", "sent"}
        /\ \A j \in Tasks : j # k => at'[j] = at[j]
    BY <1>1 DEF FlushBegin, FlushSend, Move, TypeOK
  <2>3. Separate' /\ CutInv' /\ RecordInv'
    BY <2>1, KeptMemory DEF FileStep
  <2>4. FlushInv'
    <3>1. CASE FlushBegin(k)
      BY <2>1, <2>2, <3>1, KeptFlush DEF Rest, FlushBegin, Move, TypeOK
    <3>2. ASSUME NEW t \in Topics, FlushSend(k, t) PROVE FlushInv'
      <4>1. at'[k] = "sent" /\ removing' \in pending'
        BY <2>1, <3>2 DEF FlushSend, Move, TypeOK, memory
      <4>2. \A j \in Tasks : j # k => at'[j] \notin Holding
        BY <2>2, <3>2, OneLock DEF FlushSend, Holding
      <4> QED
        BY <4>1, <4>2 DEF FlushInv, Holding
    <3> QED
      BY <1>1, <3>1, <3>2
  <2>5. CallInv'
    BY <2>1, <2>2 DEF Rest, CallInv, memory, file, OnDisk, Called, Holding, Tasks
  <2> QED
    BY <2>3, <2>4, <2>5 DEF Rest
<1>2. CASE BrokerClears(k)
  <2>1. UNCHANGED <<publisher, memory, mutex, file>> /\ retained' = retained \ {removing}
    BY <1>2 DEF BrokerClears, ha
  <2>2. /\ at[k] = "sent" /\ at'[k] = "cleared"
        /\ \A j \in Tasks : j # k => at'[j] = at[j]
    BY <1>2 DEF BrokerClears, Move, TypeOK
  <2>3. Separate' /\ CutInv' /\ RecordInv'
    BY <2>1, KeptMemory DEF FileStep
  <2>4. FlushInv'
    BY <2>1, <2>2 DEF Rest, FlushInv, memory, mutex
  <2>5. CallInv'
    BY <2>1, <2>2 DEF Rest, CallInv, memory, file, OnDisk, Called, Holding, Tasks
  <2> QED
    BY <2>3, <2>4, <2>5 DEF Rest
<1>3. CASE FlushSaved(k)
  <2>1. UNCHANGED <<publisher, memory, mutex, retained>> /\ Write(Memory, late)
    BY <1>3 DEF FlushSaved, ha, broker
  <2>2. /\ at[k] = "resave" /\ at'[k] = "pick"
        /\ \A j \in Tasks : j # k => at'[j] = at[j]
    BY <1>3 DEF FlushSaved, Move, TypeOK
  <2>3. loaded
    BY <2>2 DEF Rest, CallInv, Called, Holding
  <2>4. Separate' /\ CutInv' /\ RecordInv'
    BY <2>1, <2>3, KeptMemory DEF FileStep
  <2>5. FlushInv'
    BY <2>1, <2>2, KeptFlush DEF Rest, mutex
  <2>6. \A d \in Entries : d \in owned[d] => d \in OnDisk'
    BY <2>1 DEF Write, OnDisk, Memory
  <2>7. CallInv'
    BY <2>1, <2>2, <2>6 DEF Rest, CallInv, memory, Called, Holding, Tasks
  <2> QED
    BY <2>4, <2>5, <2>7 DEF Rest
<1>4. CASE FlushEnd(k)
  <2>1. UNCHANGED <<publisher, memory>> /\ retained' \subseteq retained /\ FileStep
    BY <1>4, InterruptFile DEF FlushEnd, Interrupt, ha, Rest
  <2>2. /\ at[k] \in Holding \ {"save"} /\ at'[k] = After(k)
        /\ \A j \in Tasks : j # k => at'[j] = at[j]
    BY <1>4 DEF FlushEnd, Move, TypeOK, Holding
  <2>3. loaded
    BY <2>2 DEF Rest, CallInv, Called
  <2>4. /\ Separate' /\ CutInv' /\ RecordInv'
        /\ \A d \in Entries : d \in owned[d] /\ (d \in OnDisk \/ cut) => d \in OnDisk' \/ cut'
    BY <2>1, KeptMemory
  <2>5. \A j \in Tasks : j # k => at'[j] \notin Holding
    BY <2>2, OneLock DEF Holding
  <2>6. /\ at'[k] \in {"idle", "discovery", "removed", "off"}
        /\ k \in Entries /\ at'[k] = "discovery" => publisher[k] # None
    BY <2>2 DEF After
  <2>7. FlushInv'
    BY <2>5, <2>6 DEF FlushInv, Holding
  <2>8. \A d \in Entries : d \in owned[d] /\ at'[d] # "save" => d \in OnDisk' \/ cut'
    BY <2>2, <2>4 DEF Rest, CallInv, Tasks
  <2>9. CallInv'
    BY <2>1, <2>2, <2>3, <2>6, <2>8 DEF Rest, CallInv, memory, Called, Holding, Tasks
  <2> QED
    BY <2>4, <2>7, <2>9 DEF Rest
<1> QED
  BY <1>1, <1>2, <1>3, <1>4, FlushClearedRest DEF Flush

-----------------------------------------------------------------------------
(* The remaining steps; a restart reads back what the file kept.           *)

LEMMA OtherRest ==
    ASSUME TypeOK, Rest, Sweep \/ LateWrite \/ Connection \/ Restart \/ UNCHANGED vars
    PROVE  Rest'
<1>1. CASE Sweep
  <2>1. UNCHANGED <<publisher, memory, mutex, file, retained>>
    BY <1>1 DEF Sweep, ha, broker
  <2>2. /\ Sweeper \in Tasks /\ at[Sweeper] = "idle" /\ at'[Sweeper] = "flush"
        /\ \A k \in Tasks : k # Sweeper => at'[k] = at[k]
    BY <1>1 DEF Sweep, Move, TypeOK, Tasks
  <2>3. Separate' /\ CutInv' /\ RecordInv'
    BY <2>1, KeptMemory DEF FileStep
  <2>4. FlushInv'
    BY <2>1, <2>2, KeptFlush DEF Rest, mutex
  <2>5. CallInv'
    BY <2>1, <2>2 DEF Rest, CallInv, memory, file, OnDisk, Called, Holding, Tasks
  <2> QED
    BY <2>3, <2>4, <2>5 DEF Rest
<1>2. CASE Connection \/ UNCHANGED vars
  <2>1. UNCHANGED <<publisher, memory, mutex, at, file, retained>>
    BY <1>2 DEF Connection, vars, ha, broker
  <2> QED
    BY <2>1 DEF Rest, Separate, CutInv, Apart, CallInv, FlushInv, RecordInv, memory, mutex, file,
       Memory, OnDisk, Known, InUse
<1>3. CASE Restart
  <2>1. /\ owned' = Nothing /\ pending' = {} /\ ~loaded'
        /\ \A k \in Tasks : at'[k] = "out"
        /\ retained' \subseteq retained
    BY <1>3 DEF Restart
  <2>2. /\ disk' = disk \/ disk' \in late \/ (loaded /\ disk' = Memory)
        /\ late' = {} /\ ~cut'
    BY <1>3 DEF Restart, Rest, CallInv, Called, Holding
  <2>3. Separate' /\ CutInv'
    BY <2>1, <2>2 DEF Rest, Separate, CutInv, Apart, Memory, Nothing
  <2>4. ASSUME NEW e \in Entries, e \in retained', e \notin OnDisk' PROVE e \in forgotten'
    <3>1. CASE cut
      BY <1>3, <2>4, <3>1 DEF Restart
    <3>2. CASE ~cut
      <4>1. forgotten' = forgotten /\ late = {}
        BY <1>3, <3>2 DEF Restart, Rest, CutInv
      <4>2. OnDisk' = OnDisk \/ (loaded /\ OnDisk' = Known)
        BY <2>2, <4>1 DEF OnDisk, Known, InUse, Memory
      <4> QED
        BY <2>1, <2>4, <3>2, <4>1, <4>2 DEF Rest, RecordInv
    <3> QED
      BY <3>1, <3>2
  <2>5. RecordInv'
    BY <2>1, <2>4 DEF RecordInv
  <2>6. CallInv' /\ FlushInv'
    BY <2>1 DEF CallInv, FlushInv, Called, Holding, Nothing, Tasks
  <2> QED
    BY <2>3, <2>5, <2>6 DEF Rest
<1>4. CASE LateWrite
  <2>1. UNCHANGED <<publisher, memory, mutex, at, retained>> /\ FileStep
    BY <1>4 DEF LateWrite, FileStep, ha, broker
  <2>2. /\ Separate' /\ CutInv' /\ RecordInv'
        /\ \A d \in Entries : d \in owned[d] /\ (d \in OnDisk \/ cut) => d \in OnDisk' \/ cut'
    BY <2>1, KeptMemory
  <2>3. FlushInv' /\ CallInv'
    BY <2>1, <2>2 DEF Rest, FlushInv, CallInv, memory, mutex
  <2> QED
    BY <2>2, <2>3 DEF Rest
<1> QED
  BY <1>1, <1>2, <1>3, <1>4

-----------------------------------------------------------------------------
(* The theorems.                                                           *)

LEMMA NextInv == IInv /\ [Next]_vars => IInv'
<1> SUFFICES ASSUME TypeOK, Rest, [Next]_vars PROVE TypeOK' /\ Rest'
  BY DEF IInv
<1>1. ASSUME NEW e \in Entries, Configure(e) \/ Manage(e)
      PROVE  TypeOK' /\ Rest'
  BY <1>1, ManageType, ManageRest
<1>2. ASSUME NEW e \in Entries, Publish(e) \/ Registry(e)
      PROVE  TypeOK' /\ Rest'
  BY <1>2, RegistryType, PublishRest, RegistryRest
<1>3. ASSUME NEW k \in Tasks, Flush(k) PROVE TypeOK' /\ Rest'
  BY <1>3, FlushType, FlushRest
<1>4. CASE Sweep \/ LateWrite \/ Connection \/ Restart \/ UNCHANGED vars
  BY <1>4, OtherType, OtherRest
<1> QED
  BY <1>1, <1>2, <1>3, <1>4 DEF Next

LEMMA Inductive == Spec => []IInv
  BY InitInv, NextInv, PTL DEF Spec

\* The variables of Discovery have their types, and only the holder of the
\* registry's lock is between the awaits it protects (DiscoveryRegistry).
THEOREM TypeCorrect == Spec => []TypeOK
  BY Inductive, PTL DEF IInv

\* The registry's file names every discovery message the broker retains,
\* whatever reconfigurations, removals, failures and restarts there are, with
\* one exception: a save was cut off and the file not brought up to date since,
\* or a restart found it so (set_topics, flush).
THEOREM DiscoveryIsRecorded == Spec => []DiscoveryRecorded
<1>1. IInv => DiscoveryRecorded
  BY DEF IInv, Rest, RecordInv, DiscoveryRecorded
<1> QED
  BY <1>1, Inductive, PTL

\* Only a topic that is to be removed is removed, and that is never one its
\* entry owns.
LEMMA OnlyPendingCleared ==
    ASSUME IInv, [Next]_vars, NEW e \in Entries, e \in retained, e \notin retained'
    PROVE  e \in pending
<1> USE DEF IInv, Rest
<1>1. e = removing /\ \E k \in Tasks : at[k] = "sent"
  <2>1. ASSUME NEW k \in Tasks, Interrupt(k)
        PROVE  e = removing /\ at[k] = "sent"
    BY <2>1 DEF Interrupt
  <2>2. ASSUME NEW d \in Entries, Configure(d) \/ Manage(d) \/ Publish(d) \/ Registry(d)
        PROVE  e = removing /\ \E k \in Tasks : at[k] = "sent"
    <3>1. CASE StopPublisher(d)
      BY <2>1, <3>1 DEF StopPublisher, Tasks
    <3> QED
      BY <2>2, <3>1 DEF Configure, Manage, Publish, Registry, Setup, Unload, Stopped, RemoveCall,
         Removed, Remove, Reconfigure, Validate, Report, Announce, Load, SetTopics,
         SameTopics, TopicsSaved, broker
  <2>3. ASSUME NEW k \in Tasks, Flush(k)
        PROVE  e = removing /\ at[k] = "sent"
    BY <2>1, <2>3 DEF Flush, FlushBegin, FlushSend, BrokerClears, FlushCleared, FlushSaved,
       FlushEnd, broker
  <2>4. CASE Sweep \/ LateWrite \/ Connection \/ Restart \/ UNCHANGED vars
    BY <2>4 DEF Sweep, LateWrite, Connection, Restart, vars, broker
  <2> QED
    BY <2>2, <2>3, <2>4 DEF Next
<1> QED
  BY <1>1 DEF FlushInv

\* Nothing removes the discovery message of an entry that owns it, whatever
\* removal was pending or under way when the entry enabled MQTT again
\* (set_topics, flush).
THEOREM DiscoveryIsKept == Spec => DiscoveryKept
<1>1. IInv /\ [Next]_vars =>
        [\A e \in Entries : e \in retained /\ e \notin retained' => e \notin owned[e]]_vars
  BY OnlyPendingCleared DEF IInv, Rest, Separate, Apart, Memory
<1> QED
  BY <1>1, Inductive, PTL DEF Spec, DiscoveryKept

-----------------------------------------------------------------------------
(* A quiet registry.                                                       *)

\* Which topics a task still has to give up.  A publisher runs for an entry
\* configured with MQTT, or the entry is about to be reloaded or removed; its
\* topics are owned for one of the two reasons, or the call of set_topics that
\* gives them up is still to come.  A call without a publisher that has begun
\* has given them up.
QuietInv ==
    \A e \in Entries :
        /\ publisher[e] # None /\ plan[e] = "none" => config[e] \in Prefixes
        /\ at[e] = "removed" => publisher[e] = None /\ loaded
        /\ at[e] \in Holding \cup {"flush", "removed"} /\ publisher[e] = None => e \notin owned[e]
        /\ loaded /\ e \in owned[e] /\ plan[e] = "none" =>
              config[e] \in Prefixes \/ (publisher[e] = None /\ at[e] \in {"call", "ask"})

LEMMA QuietInit == Init => QuietInv
  BY DEF Init, QuietInv, Nothing, Tasks, Holding

LEMMA QuietEntry ==
    ASSUME IInv, QuietInv, NEW e \in Entries,
           Configure(e) \/ Manage(e) \/ Publish(e) \/ Registry(e)
    PROVE  QuietInv'
<1> USE DEF QuietInv, Holding
<1>1. e \in Tasks /\ \A d \in Entries : d \in Tasks
  BY DEF Tasks
<1>0. TypeOK
  BY DEF IInv
<1>2. CASE Configure(e)
  BY <1>0, <1>1, <1>2 DEF TypeOK, Configure, Remove, Reconfigure, Validate, memory
<1>3. CASE Setup(e)
  BY <1>0, <1>1, <1>3 DEF TypeOK, Setup, Configs, Move, memory
<1>4. CASE Unload(e) \/ RemoveCall(e)
  BY <1>0, <1>1, <1>4 DEF TypeOK, Unload, RemoveCall, Move, ha, memory
<1>5. CASE Removed(e)
  BY <1>0, <1>1, <1>5 DEF TypeOK, Removed, Move, memory
<1>6. CASE Stopped(e)
  BY <1>0, <1>1, <1>6 DEF TypeOK, Stopped, Move, memory
<1>7. CASE StopPublisher(e)
  BY <1>0, <1>1, <1>7 DEF TypeOK, StopPublisher, Move, ha, memory
<1>8. CASE Publish(e)
  BY <1>0, <1>1, <1>8 DEF TypeOK, Publish, Report, Announce, Move, ha, memory
<1>9. CASE Load(e)
  <2>1. \A d \in Entries : d \in owned'[d] => config[d] \in Prefixes /\ d \in disk.owned[d]
    BY <1>0, <1>9 DEF TypeOK, Load, Configs
  <2>2. \A d \in Entries : at[d] \notin Holding \cup {"flush"}
    BY <1>9, <1>1 DEF Load, IInv, Rest, CallInv, Called
  <2>3. \A d \in Entries : at'[d] = "ask" \/ at'[d] = at[d]
    BY <1>0, <1>1, <1>9 DEF TypeOK, Load, Tasks
  <2> QED
    BY <1>0, <1>9, <2>1, <2>2, <2>3 DEF Load, ha
<1>10. CASE SetTopics(e)
  <2>1. UNCHANGED <<config, plan, publisher, loaded>> /\ at'[e] = "save"
    BY <1>0, <1>1, <1>10 DEF TypeOK, SetTopics, Move, ha
  <2>2. owned'[e] = IF publisher[e] = None THEN {} ELSE {e, publisher[e]}
    BY <1>0, <1>10 DEF TypeOK, Memory, FileType, SetTopics, Wanted
  <2>3. \A d \in Entries : d # e => at'[d] = at[d] /\ owned'[d] = owned[d]
    BY <1>0, <1>1, <1>10 DEF TypeOK, Memory, FileType, SetTopics, Move
  <2> QED
    BY <2>1, <2>2, <2>3
<1>11. CASE SameTopics(e)
  <2>1. loaded /\ owned[e] = Wanted(e)
    BY <1>1, <1>11 DEF SameTopics, Enters, IInv, Rest, CallInv
  <2> QED
    BY <1>0, <1>1, <1>11, <2>1 DEF TypeOK, SameTopics, Wanted, After, Move, ha, memory
<1>12. CASE TopicsSaved(e)
  BY <1>0, <1>1, <1>12 DEF TypeOK, TopicsSaved, Move, ha, memory
<1> QED
  BY <1>2, <1>3, <1>4, <1>5, <1>6, <1>7, <1>8, <1>9, <1>10, <1>11, <1>12 DEF Manage, Registry

LEMMA QuietFlush ==
    ASSUME IInv, QuietInv, NEW k \in Tasks, Flush(k)
    PROVE  QuietInv'
<1>1. UNCHANGED <<config, plan, publisher, owned, loaded>>
  BY DEF Flush, FlushBegin, FlushSend, BrokerClears, FlushCleared, FlushSaved, FlushEnd,
     ha, memory
<1>2. \A j \in Tasks : j # k => at'[j] = at[j]
  BY DEF Flush, FlushBegin, FlushSend, BrokerClears, FlushCleared, FlushSaved, FlushEnd, Move,
     IInv, TypeOK
<1>3. at[k] \in Holding \cup {"flush"} /\ at'[k] \in Holding \cup {After(k)}
  BY DEF Flush, FlushBegin, FlushSend, BrokerClears, FlushCleared, FlushSaved,
     FlushEnd, Move, IInv, TypeOK, Holding
<1>4. loaded
  BY <1>3 DEF IInv, Rest, CallInv, Called
<1> QED
  BY <1>1, <1>2, <1>3, <1>4 DEF QuietInv, After, Holding, Tasks

LEMMA QuietNext == IInv /\ QuietInv /\ [Next]_vars => QuietInv'
<1> SUFFICES ASSUME IInv, QuietInv, [Next]_vars PROVE QuietInv'
  OBVIOUS
<1>1. CASE Sweep
  BY <1>1 DEF QuietInv, Sweep, Move, ha, memory, IInv, TypeOK, Tasks
<1>2. CASE LateWrite \/ Connection \/ UNCHANGED vars
  BY <1>2 DEF QuietInv, LateWrite, Connection, vars, ha, memory
<1>3. CASE Restart
  BY <1>3 DEF QuietInv, Restart, Holding, Tasks
<1> QED
  BY <1>1, <1>2, <1>3, QuietEntry, QuietFlush DEF Next

\* Once all is done, the discovery messages left are those of entries with
\* MQTT, in whatever order reconfigurations, removals, failures and restarts
\* come: load() and set_topics together have retired all others, but for those
\* whose record a save cut off before a restart lost.
THEOREM QuietIsClean == Spec => []QuietDiscovery
<1>1. IInv /\ QuietInv => QuietDiscovery
  <2> SUFFICES ASSUME IInv, QuietInv, Quiet, NEW e \in Entries, e \in retained, e \notin forgotten
               PROVE  config[e] \in Prefixes
    BY DEF QuietDiscovery
  <2>1. e \in InUse
    BY DEF IInv, Rest, RecordInv, Known, Quiet
  <2>2. e \in owned[e]
    BY <2>1 DEF IInv, Rest, Separate, Apart, Memory, InUse
  <2> QED
    BY <2>2 DEF QuietInv, Quiet
<1> QED
  BY <1>1, Inductive, QuietInit, QuietNext, PTL DEF Spec

=============================================================================
