----------------------------- MODULE Discovery -----------------------------
(***************************************************************************)
(* Retained MQTT topics of the eVodnik integration: the shared registry    *)
(* of mqtt_discovery.py, the config entries that use it (__init__.py), the *)
(* part of their publishers that retains topics (mqtt.py), the registry's  *)
(* file, the broker, reloads and restarts of Home Assistant.               *)
(*                                                                         *)
(* An entry's name stands for its discovery topics, a prefix for its state *)
(* topics; payloads, the discovery prefix and the order of removals are    *)
(* left out.  A call of set_topics is the position of the task that makes  *)
(* it: a publisher, the setup of an entry without MQTT, or its removal.    *)
(* The registry's lock is held over the awaits of a call, so other tasks   *)
(* run in between.  An operator named like another with a suffix, just     *)
(* before it, is the slip a run must notice if it took the other's place.  *)
(***************************************************************************)
EXTENDS Naturals, FiniteSets

CONSTANTS
    Entries,     \* config entries, by their unique ids
    Prefixes,    \* the topic prefixes an entry may be configured with
    Sweeper,     \* the registry's background task
    None,        \* Python's None
    MaxChanges,  \* bound: reconfigurations and removals
    MaxLate,     \* bound: saves cut off whose threads still write
    MaxRestarts  \* bound: restarts of Home Assistant

Topics == Entries \cup Prefixes
Tasks  == Entries \cup {Sweeper}
Maybe(S) == S \cup {None}

\* data of a config entry: MQTT is disabled, or enabled with a prefix.
Configs == Prefixes \cup {"off", "deleted"}

ASSUME ConstantsAssumption ==
    /\ IsFiniteSet(Entries) /\ IsFiniteSet(Prefixes)
    /\ MaxChanges \in Nat /\ MaxLate \in Nat /\ MaxRestarts \in Nat

ASSUME NamesAssumption ==
    /\ Entries \cap Prefixes = {}
    /\ Sweeper \notin Entries /\ None \notin Topics \cup Tasks
    /\ "off" \notin Prefixes /\ "deleted" \notin Prefixes

VARIABLES
    config,     \* the config entries, as Home Assistant has them
    flow,       \* data of a reconfiguration that was validated, or None
    plan,       \* what Home Assistant is about to do with an entry
    publisher,  \* the prefix of the entry's running Publisher, or None
    owned,      \* DiscoveryRegistry.entries
    pending,    \* DiscoveryRegistry.pending
    loaded,     \* DiscoveryRegistry._loaded
    lock,       \* the task that holds DiscoveryRegistry._lock
    at,         \* the position of every task
    removing,   \* the topic a flush is about to clear
    disk,       \* the registry's file
    late,       \* contents that threads of saves cut off will still write
    cut,        \* history: a save was cut off, the file not brought up to date since
    forgotten,  \* history: entries whose message a restart found in no file
    connected,  \* MQTT is connected
    retained,   \* the topics the broker retains a message of
    changes, restarts  \* count the bounded steps

ha     == <<config, flow, plan, publisher>>
memory == <<owned, pending, loaded>>
mutex  == <<lock, removing>>
file   == <<disk, late, cut, forgotten>>
broker == <<connected, retained>>
bounds == <<changes, restarts>>
vars   == <<ha, memory, mutex, at, file, broker, bounds>>

\* "out": not set up; "off": set up without MQTT; "idle": waits for its event.
\* "call": a call of the registry is due, the awaits of its caller before it
\* included; "ask" .. "resave": the awaits of the call; "discovery": those of
\* the publisher after it; "stopping": those of its stop().
Positions == {"out", "off", "idle", "call", "ask", "save", "flush", "pick", "sent",
              "cleared", "resave", "discovery", "stopping", "removed"}

Nothing == [e \in Entries |-> {}]

\* Entries configured one after the other have different prefixes (_validate).
Init ==
    /\ config \in [Entries -> Prefixes \cup {"off"}]
    /\ \A d, e \in Entries : config[d] = config[e] => d = e \/ config[d] = "off"
    /\ flow = [e \in Entries |-> None]
    /\ plan = [e \in Entries |-> "none"] /\ publisher = [e \in Entries |-> None]
    /\ owned = Nothing /\ pending = {} /\ loaded = FALSE
    /\ lock = None /\ at = [k \in Tasks |-> "out"] /\ removing = None
    /\ disk = [owned |-> Nothing, pending |-> {}]
    /\ late = {} /\ cut = FALSE /\ forgotten = {}
    /\ connected \in BOOLEAN /\ retained = {}
    /\ changes = 0 /\ restarts = 0

-----------------------------------------------------------------------------
(* Shared helpers.                                                         *)

\* The topics the caller of set_topics asks for; none in setup and removal.
WantedKept(e) == IF publisher[e] = None THEN owned[e] ELSE {e, publisher[e]}
Wanted(e) == IF publisher[e] = None THEN {} ELSE {e, publisher[e]}

Memory == [owned |-> owned, pending |-> pending]

InUse == UNION {owned[e] : e \in Entries}
Known == pending \cup InUse
OnDisk == disk.pending \cup UNION {disk.owned[e] : e \in Entries}

Move(k, p) == at' = [at EXCEPT ![k] = p]

\* Where a task goes on after its call of the registry.  A removal that waited
\* for the setup of an entry without MQTT would find its topics given up.
AfterOnce(k) == IF k = Sweeper THEN "out" ELSE "idle"
After(k) == IF k = Sweeper THEN "idle"
            ELSE IF publisher[k] # None THEN "discovery"
            ELSE IF plan[k] = "remove" THEN "removed" ELSE "off"

-----------------------------------------------------------------------------
(* Home Assistant: the config entries.                                     *)

\* _validate: no other enabled entry has the prefix now.  If the listener
\* changes as well, its port is probed next, which takes a while, or ends the
\* flow here: then nothing is stored.
Validate(e, c) ==
    /\ changes < MaxChanges
    /\ plan[e] # "remove" /\ config[e] # "deleted"
    /\ c \in Prefixes => \A d \in Entries \ {e} : config[d] # c
    /\ flow' = [flow EXCEPT ![e] = c]
    /\ changes' = changes + 1
    /\ UNCHANGED <<config, plan, publisher, memory, mutex, at, file, broker, restarts>>

\* _step after _validate: the new data is stored, a reload is scheduled; one
\* that was scheduled already uses the new data as well.
Reconfigure(e) ==
    /\ flow[e] # None /\ plan[e] # "remove" /\ config[e] # "deleted"
    /\ config' = [config EXCEPT ![e] = flow[e]]
    /\ flow' = [flow EXCEPT ![e] = None]
    /\ plan' = [plan EXCEPT ![e] = "reload"]
    /\ UNCHANGED <<publisher, memory, mutex, at, file, broker, bounds>>

Remove(e) ==
    /\ changes < MaxChanges
    /\ plan[e] # "remove" /\ config[e] # "deleted"
    /\ plan' = [plan EXCEPT ![e] = "remove"]
    /\ changes' = changes + 1
    /\ UNCHANGED <<config, flow, publisher, memory, mutex, at, file, broker, restarts>>

\* async_setup_entry: a publisher, or a call of set_topics with no topics.
Setup(e) ==
    /\ at[e] = "out" /\ config[e] # "deleted" /\ plan[e] # "remove"
    /\ plan' = [plan EXCEPT ![e] = "none"]
    /\ publisher' = [publisher EXCEPT ![e] = IF config[e] = "off" THEN None ELSE config[e]]
    /\ Move(e, IF config[e] = "off" THEN "call" ELSE "idle")
    /\ UNCHANGED <<config, flow, memory, mutex, file, broker, bounds>>

\* async_unload_entry of an entry without a publisher.
Unload(e) ==
    /\ plan[e] # "none" /\ at[e] = "off"
    /\ Move(e, "out")
    /\ UNCHANGED <<ha, memory, mutex, file, broker, bounds>>

\* The write of a file ends.
Write(contents, rest) ==
    /\ disk' = contents /\ late' = rest
    /\ cut' = (cut /\ (rest # {} \/ contents # Memory))
    /\ forgotten' = IF contents = Memory THEN forgotten \ Known ELSE forgotten

\* A task that is cancelled releases the lock; a message under way may be
\* delivered.  A save it waits for is dropped, if no thread has begun with it,
\* or goes on in its thread with the contents it was given.
Interrupt(k) ==
    /\ cut' = (cut \/ at[k] \in {"save", "resave"})
    /\ \/ UNCHANGED late
       \/ /\ at[k] \in {"save", "resave"} /\ Cardinality(late) < MaxLate
          /\ late' = late \cup {Memory}
    /\ UNCHANGED <<disk, forgotten>>
    /\ retained' \in {retained, IF at[k] = "sent" THEN retained \ {removing} ELSE retained}
    /\ lock' = IF lock = k THEN None ELSE lock
    /\ removing' = IF lock = k THEN None ELSE removing

\* The thread of a save that was cut off replaces the file at last, if a newer
\* save has finished as well.
LateWrite ==
    /\ \E contents \in late : Write(contents, late \ {contents})
    /\ UNCHANGED <<ha, memory, mutex, at, broker, bounds>>

\* async_unload_entry of a running publisher: stop() cancels its task,
\* wherever that waits.
StopPublisher(e) ==
    /\ plan[e] # "none" /\ publisher[e] # None /\ at[e] # "stopping"
    /\ Interrupt(e)
    /\ Move(e, "stopping")
    /\ UNCHANGED <<ha, memory, connected, bounds>>

\* The rest of stop(): the reports of the prefix are published as offline, if
\* MQTT is connected; that may fail.
Stopped(e) ==
    /\ publisher[e] # None /\ at[e] = "stopping"
    /\ retained' \in {retained, IF connected THEN retained \cup {publisher[e]} ELSE retained}
    /\ publisher' = [publisher EXCEPT ![e] = None]
    /\ Move(e, "out")
    /\ UNCHANGED <<config, flow, plan, memory, mutex, file, connected, bounds>>

\* async_remove_entry, called while the entry is still listed.
RemoveCall(e) ==
    /\ at[e] = "out" /\ plan[e] = "remove"
    /\ Move(e, "call")
    /\ UNCHANGED <<ha, memory, mutex, file, broker, bounds>>

Removed(e) ==
    /\ at[e] = "removed"
    /\ config' = [config EXCEPT ![e] = "deleted"]
    /\ plan' = [plan EXCEPT ![e] = "none"]
    /\ Move(e, "out")
    /\ UNCHANGED <<flow, publisher, memory, mutex, file, broker, bounds>>

-----------------------------------------------------------------------------
(* The publisher of an entry.                                              *)

\* A round of Publisher._run: the three reports of the prefix are published;
\* that may fail.  Discovery is due after the start, a connection or a birth
\* message, so at any time.
Report(e) ==
    /\ publisher[e] # None /\ at[e] = "idle" /\ connected
    /\ \E ok \in BOOLEAN, due \in BOOLEAN :
          /\ retained' \in {r \in {retained, retained \cup {publisher[e]}} :
                              ok => publisher[e] \in r}
          /\ Move(e, IF ok /\ due THEN "call" ELSE "idle")
    /\ UNCHANGED <<ha, memory, mutex, file, connected, bounds>>

\* _publish_discovery after set_topics.
Announce(e) ==
    /\ at[e] = "discovery"
    /\ retained' \in {retained, IF connected THEN retained \cup {e} ELSE retained}
    /\ Move(e, "idle")
    /\ UNCHANGED <<ha, memory, mutex, file, connected, bounds>>

-----------------------------------------------------------------------------
(* The registry.                                                           *)

\* load() of the first caller reads the file, retires the topics of entries
\* that are gone or have no MQTT and starts the background task.
Load(e) ==
    /\ at[e] = "call" /\ ~loaded /\ lock = None
    /\ LET gone == {d \in Entries : config[d] \in {"off", "deleted"}} IN
       /\ owned' = [d \in Entries |-> IF d \in gone THEN {} ELSE disk.owned[d]]
       /\ pending' = disk.pending \cup UNION {disk.owned[d] : d \in gone}
    /\ loaded' = TRUE
    /\ at' = [at EXCEPT ![e] = "ask", ![Sweeper] = "idle"]
    /\ UNCHANGED <<ha, mutex, file, broker, bounds>>

\* The caller gets the lock for set_topics; load() of a later caller returns
\* at once.
EntersUnlocked(e) == at[e] = "ask" \/ (at[e] = "call" /\ loaded)
Enters(e) == lock = None /\ (at[e] = "ask" \/ (at[e] = "call" /\ loaded))

\* set_topics up to its save.
RetiredOnly(previous, topics) == pending \cup (previous \ topics)
Retired(previous, topics) == (pending \cup (previous \ topics)) \ topics

SetTopics(e) ==
    /\ Enters(e) /\ owned[e] # Wanted(e)
    /\ pending' = Retired(owned[e], Wanted(e))
    /\ owned' = [owned EXCEPT ![e] = Wanted(e)]
    /\ lock' = e
    /\ Move(e, "save")
    /\ UNCHANGED <<ha, loaded, removing, file, broker, bounds>>

\* The entry has these topics already: no flush.
SameTopics(e) ==
    /\ Enters(e) /\ owned[e] = Wanted(e)
    /\ Move(e, After(e))
    /\ UNCHANGED <<ha, memory, mutex, file, broker, bounds>>

\* The file is written, the lock released.
SavedNot == disk
Saved == Memory

TopicsSaved(e) ==
    /\ at[e] = "save"
    /\ Write(Saved, late)
    /\ lock' = None
    /\ Move(e, "flush")
    /\ UNCHANGED <<ha, memory, removing, broker, bounds>>

\* The background task: its event, or 15 s.
Sweep ==
    /\ at[Sweeper] = "idle"
    /\ Move(Sweeper, "flush")
    /\ UNCHANGED <<ha, memory, mutex, file, broker, bounds>>

FlushBegin(k) ==
    /\ at[k] = "flush" /\ lock = None
    /\ lock' = k
    /\ Move(k, "pick")
    /\ UNCHANGED <<ha, memory, removing, file, broker, bounds>>

\* One round of the loop over the pending topics: an empty message is sent.
FlushSend(k, t) ==
    /\ at[k] = "pick" /\ connected /\ t \in pending
    /\ removing' = t
    /\ Move(k, "sent")
    /\ UNCHANGED <<ha, memory, lock, file, broker, bounds>>

\* The broker removes the retained message; its acknowledgment is on its way.
BrokerClears(k) ==
    /\ at[k] = "sent" /\ connected
    /\ retained' = retained \ {removing}
    /\ Move(k, "cleared")
    /\ UNCHANGED <<ha, memory, mutex, file, connected, bounds>>

FlushCleared(k) ==
    /\ at[k] = "cleared"
    /\ pending' = pending \ {removing}
    /\ removing' = None
    /\ Move(k, "resave")
    /\ UNCHANGED <<ha, owned, loaded, lock, file, broker, bounds>>

FlushSaved(k) ==
    /\ at[k] = "resave"
    /\ Write(Memory, late)
    /\ Move(k, "pick")
    /\ UNCHANGED <<ha, memory, mutex, broker, bounds>>

\* Nothing is left, MQTT is not connected, or publishing failed or timed out.
FlushEnd(k) ==
    /\ lock = k
    /\ \/ at[k] = "pick" /\ (pending = {} \/ ~connected)
       \/ at[k] \in {"sent", "cleared", "resave"}
    /\ Interrupt(k)
    /\ Move(k, After(k))
    /\ UNCHANGED <<ha, memory, connected, bounds>>

-----------------------------------------------------------------------------
(* The connection, and a crash or restart of Home Assistant.               *)

Connection ==
    /\ connected' = ~connected
    /\ UNCHANGED <<ha, memory, mutex, at, file, retained, bounds>>

\* Memory is lost; a write of the file that was begun is done or not, never
\* half (atomic_writes).  The reload or removal that was due is forgotten.  If
\* a save had been cut off, the file may lack topics that are retained.
Restart ==
    /\ restarts < MaxRestarts
    /\ restarts' = restarts + 1
    /\ disk' \in {disk} \cup late \cup {Memory : k \in {k \in Tasks : at[k] \in {"save", "resave"}}}
    /\ late' = {} /\ cut' = FALSE
    /\ retained' \in {retained, IF \E k \in Tasks : at[k] = "sent"
                                THEN retained \ {removing} ELSE retained}
    /\ forgotten' = IF cut THEN forgotten \cup ((Entries \cap retained') \ OnDisk') ELSE forgotten
    /\ flow' = [e \in Entries |-> None]
    /\ plan' = [e \in Entries |-> "none"] /\ publisher' = [e \in Entries |-> None]
    /\ owned' = Nothing /\ pending' = {} /\ loaded' = FALSE
    /\ lock' = None /\ at' = [k \in Tasks |-> "out"] /\ removing' = None
    /\ connected' = FALSE
    /\ UNCHANGED <<config, changes>>

-----------------------------------------------------------------------------
(* The specification.                                                      *)

Configure(e) == \/ Remove(e) \/ Reconfigure(e)
                \/ \E c \in Prefixes \cup {"off"} : Validate(e, c)
Manage(e) == \/ Setup(e) \/ Unload(e) \/ StopPublisher(e) \/ Stopped(e)
             \/ RemoveCall(e) \/ Removed(e)
Publish(e) == Report(e) \/ Announce(e)
Flush(k) == \/ FlushBegin(k) \/ (\E t \in Topics : FlushSend(k, t)) \/ BrokerClears(k)
            \/ FlushCleared(k) \/ FlushSaved(k) \/ FlushEnd(k)
Registry(e) == Load(e) \/ SetTopics(e) \/ SameTopics(e) \/ TopicsSaved(e)

Next ==
    \/ \E e \in Entries : Configure(e) \/ Manage(e) \/ Publish(e) \/ Registry(e)
    \/ Sweep \/ \E k \in Tasks : Flush(k)
    \/ LateWrite \/ Connection \/ Restart

Spec == Init /\ [][Next]_vars

\* The event loop runs every ready task, the background task wakes up at least
\* every 15 s, and a broker that is connected often enough acknowledges some
\* message.
FairSpec ==
    /\ Spec
    /\ WF_vars(Sweep)
    /\ \A e \in Entries : WF_vars(Registry(e))
    /\ \A k \in Tasks : WF_vars(Flush(k))
    /\ SF_vars(BrokerClears(Sweeper)) /\ SF_vars(FlushCleared(Sweeper))

-----------------------------------------------------------------------------
(* Properties.                                                             *)

FileType == [owned : [Entries -> SUBSET Topics], pending : SUBSET Topics]

\* Types; only the holder of the registry's lock is between the awaits the
\* lock protects.
TypeOK ==
    /\ config \in [Entries -> Configs] /\ flow \in [Entries -> Maybe(Configs)]
    /\ plan \in [Entries -> {"none", "reload", "remove"}]
    /\ publisher \in [Entries -> Maybe(Prefixes)]
    /\ Memory \in FileType /\ loaded \in BOOLEAN /\ disk \in FileType
    /\ late \in SUBSET FileType /\ cut \in BOOLEAN /\ forgotten \in SUBSET Entries
    /\ lock \in Maybe(Tasks) /\ at \in [Tasks -> Positions]
    /\ removing \in Maybe(Topics) /\ connected \in BOOLEAN
    /\ retained \in SUBSET Topics
    /\ changes \in 0..MaxChanges /\ restarts \in 0..MaxRestarts
    /\ \A k \in Tasks :
          at[k] \in {"save", "pick", "sent", "cleared", "resave"} <=> lock = k

\* While the broker retains the discovery message of an entry, the file names
\* it as owned or as to be removed, so that a crash at any point leaves the
\* removal to the next start (DiscoveryRegistry: "Persist topic ownership
\* before publication").  The exception is a save that an unload or the timeout
\* of flush cut off: the next set_topics finds its topics in memory, does not
\* save again, and the message is published without a record.  It lasts until
\* a save finishes while no thread is left over, or a restart makes it final.
DiscoveryRecorded ==
    \A e \in Entries : e \in retained => e \in OnDisk \/ cut \/ e \in forgotten

\* Nothing removes the discovery message of an entry that owns it: a removal
\* that was pending or under way when the entry enabled MQTT again does not
\* reach the message published after that (set_topics, flush).
DiscoveryKept ==
    [][\A e \in Entries : e \in retained /\ e \notin retained' => e \notin owned[e]]_vars

\* Nothing is left to do: every entry is set up as configured or deleted, the
\* registry has no removal left.
Quiet ==
    /\ loaded /\ pending = {} /\ at[Sweeper] = "idle"
    /\ \A e \in Entries :
          /\ plan[e] = "none"
          /\ at[e] \in {"idle", "off"} \/ (at[e] = "out" /\ config[e] = "deleted")

\* Once all is done, the discovery messages left are those of entries with
\* MQTT, for every order of reconfigurations, removals, failures and restarts;
\* except for messages whose record a save cut off before a restart lost.
QuietDiscovery ==
    Quiet => \A e \in (retained \cap Entries) \ forgotten : config[e] \in Prefixes

\* The same of all topics: "Turning MQTT publication off or deleting the
\* integration removes discovery and retained state" (README.md).
QuietState ==
    Quiet => \A t \in retained : \E e \in Entries : t \in {e, config[e]} /\ config[e] \in Prefixes

\* What is to be removed is obsolete: no entry owns it now (v0.3.0.md:
\* "removes obsolete retained state").
OnlyObsoleteRetired == InUse \cap pending = {}

\* While MQTT stays connected, the removals that are due get done: once entries
\* are no longer changed, none is left.
CleanupEnds == <>[]connected => []<>(pending = {})
=============================================================================
