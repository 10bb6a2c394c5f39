----------------------------- MODULE Publisher -----------------------------
(***************************************************************************)
(* The MQTT publisher of one config entry (mqtt.py): its run loop, the     *)
(* callbacks Home Assistant makes between two awaits of the loop, the one  *)
(* valve command it may have under way, and stop().                        *)
(*                                                                         *)
(* An action is the code a task runs between two awaits.  `at` is the      *)
(* await a task is in: "offline", "state", "bridge" and "final" are the    *)
(* publications of _publish, which the broker acknowledges (Acked) or      *)
(* which fail, time out or are cancelled with the message delivered or not.*)
(* Messages of one client stay in order, so a message that is not          *)
(* acknowledged is settled when its task goes on.  The 15 s wait of the    *)
(* loop may end at any time, so its event is left out, as are the payloads *)
(* but for what availability depends on.                                   *)
(* An operator named like another with a suffix, just before it, is the    *)
(* slip a run must notice if it took the other's place.                    *)
(***************************************************************************)
EXTENDS Integers

CONSTANTS
    MaxEvents,    \* bound: connections, disconnections and birth messages, and
                  \* the calls that fail while MQTT is connected
    MaxSettings   \* bound: different settings the MQTT integration may have

ASSUME ConstantsAssumption == MaxEvents \in Nat /\ MaxSettings \in Nat \ {0}

VARIABLES
    connected,    \* MQTT is connected
    settings,     \* the MQTT integration's settings, numbered
    report,       \* the proxy's valve report: none, or composed before ("old")
                  \* or after ("new") _connected_at
    generation,   \* _generation
    connectedAt,  \* _connected_at is set
    needed,       \* _refresh_needed and _discovery_needed
    recorded,     \* _subscription_settings; 0 is None
    asked,        \* the settings the last _subscribe has read, or 0
    subscribed,   \* the topics subscribed at the client
    command,      \* _command_task
    at,           \* the positions of the run loop and of stop()
    publishing,   \* the payload of the _publish that is under way
    announced,    \* generation of the _publish_discovery under way or done
    retained,     \* what the broker retains
    events       \* counts the bounded steps

mqtt  == <<connected, settings>>
self  == <<generation, connectedAt, needed>>
links == <<recorded, asked, subscribed>>
vars  == <<mqtt, report, self, links, command, at, publishing, announced, retained, events>>

Topics == {"command", "birth"}
Publications == {"offline", "state", "bridge", "final"}
RunPositions == {"wait", "subscribe", "registry", "announce", "refresh", "ended"}
StopPositions == {"idle", "command", "left", "failed"}

\* Generations tag what was made of a valve report: `state` is that of a
\* report with a verified valve, `online` that in which "online" was sent.
\* 0 stands for an unavailable report and for "offline", 1 for what an
\* earlier run of Home Assistant left behind; start() begins with 2.
NoPayload == [state |-> 0, online |-> 0]

Init ==
    /\ connected \in BOOLEAN /\ settings = 1
    /\ report \in {"none", "old"}
    /\ generation = 2 /\ connectedAt = connected
    /\ needed = IF connected THEN {"discovery", "refresh"} ELSE {"discovery"}
    /\ recorded = 0 /\ asked = 0 /\ subscribed = {} /\ command = "none"
    /\ at = [run |-> "wait", stop |-> "idle"]
    /\ publishing = NoPayload /\ announced = 0
    /\ retained \in {[online |-> g, state |-> g, bridge |-> "online"] : g \in {0, 1}}
    /\ events = 0

-----------------------------------------------------------------------------
(* Shared helpers.                                                         *)

Stopping == at.stop # "idle"
Move(k, p) == at' = [at EXCEPT ![k] = p]
\* A call fails or meets its deadline, as it must while MQTT is not connected.
CanFailNoDeadline == connected /\ events < MaxEvents
CanFail == ~connected \/ events < MaxEvents

Fails ==
    /\ CanFail
    /\ events' = IF connected THEN events + 1 ELSE events


\* _payload()["available"].
Available == connectedAt /\ report = "new"

\* _connection_changed: a report observed before is not current any more, and
\* a command of a lost connection is cancelled.
CancelledBy(up) == IF ~up /\ command = "running" THEN "cancelling" ELSE command

ConnectionChanged(up) ==
    /\ generation' = generation + 1
    /\ connectedAt' = up
    /\ report' = IF up /\ report = "new" THEN "old" ELSE report
    /\ needed' = IF up THEN {"discovery", "refresh"} ELSE {"discovery"}
    /\ command' = CancelledBy(up)

\* _publish up to its first await; "offline" precedes an unavailable payload.
\* A connection that is noticed in this step leaves no current report.
FirstMessageIfAny == IF Available THEN "state" ELSE "wait"
FirstMessage == IF Available THEN "state" ELSE "offline"

BeginPublish ==
    /\ publishing' = [state |-> IF Available THEN generation ELSE 0, online |-> 0]
    /\ Move("run", FirstMessage)

\* bridge_availability; stop() publishes as offline.
BridgeAlways(k) == "online"
Bridge(k) == IF k = "run" THEN "online" ELSE "offline"

\* What the broker retains once the message of task k has reached it.
Delivered(k) ==
    LET p == IF k = "run" THEN publishing ELSE NoPayload
        m == at[k]
    IN [online |-> IF m = "offline" THEN 0 ELSE IF m = "final" THEN p.online ELSE retained.online,
        state  |-> IF m = "state" THEN p.state ELSE retained.state,
        bridge |-> IF m = "bridge" THEN Bridge(k) ELSE retained.bridge]

-----------------------------------------------------------------------------
(* Home Assistant: the connection, the settings, messages, the proxy.      *)

\* The client calls back while the publisher is subscribed to it.  A client
\* that is absent does not (_run, line 294).
Connection(up, notified) ==
    /\ events < MaxEvents /\ connected # up
    /\ connected' = up
    /\ events' = events + 1
    /\ IF notified /\ ~Stopping THEN ConnectionChanged(up)
       ELSE UNCHANGED <<report, self, command>>
    /\ UNCHANGED <<settings, links, at, publishing, announced, retained>>

\* Changed settings come with a reload, so while MQTT is not connected; earlier
\* ones may come back.
Reconfigured ==
    /\ ~connected
    /\ settings' \in (1..MaxSettings) \ {settings}
    /\ UNCHANGED <<connected, report, self, links, command, at, publishing, announced,
                   retained, events>>

BirthReceived ==
    /\ events < MaxEvents /\ connected /\ "birth" \in subscribed
    /\ events' = events + 1
    /\ ConnectionChanged(TRUE)
    /\ UNCHANGED <<mqtt, links, at, publishing, announced, retained>>

\* A plain OPEN or CLOSE arrives; all others are ignored.
Accepts == ~Stopping /\ connected /\ Available /\ command = "none"

CommandReceived ==
    /\ "command" \in subscribed /\ connected
    /\ Accepts
    /\ command' = "running"
    /\ UNCHANGED <<mqtt, report, self, links, at, publishing, announced, retained, events>>

\* _set_valve returns: confirmed, failed, timed out or cancelled.
CommandEnds ==
    /\ command # "none"
    /\ command' = "none"
    /\ UNCHANGED <<mqtt, report, self, links, at, publishing, announced, retained, events>>

\* The proxy observes the valve; or forgets it for a command, a lost session
\* or its age.
Reported(r) ==
    /\ report' = r
    /\ UNCHANGED <<mqtt, self, links, command, at, publishing, announced, retained, events>>

-----------------------------------------------------------------------------
(* The run loop.                                                           *)

\* MQTT is not connected: wait again.
WakeOffline ==
    /\ at.run = "wait" /\ ~connected /\ connectedAt
    /\ connectedAt' = FALSE
    /\ UNCHANGED <<mqtt, report, generation, needed, links, command, at, publishing,
                   announced, retained, events>>

\* A connection the client did not announce was noticed before.
NoticedNever == FALSE
Noticed == connectedAt

\* A round up to its first await; _subscribe gives up the subscriptions it made
\* for other settings.
Wake ==
    /\ at.run = "wait" /\ connected
    /\ IF Noticed THEN UNCHANGED <<report, self, command>> ELSE ConnectionChanged(TRUE)
    /\ IF recorded = settings
       THEN /\ BeginPublish
            /\ UNCHANGED <<asked, subscribed>>
       ELSE /\ asked' = settings /\ subscribed' = {}
            /\ Move("run", "subscribe")
            /\ UNCHANGED publishing
    /\ UNCHANGED <<mqtt, recorded, announced, retained, events>>

\* Both subscriptions are made, for the settings that were read before them.
RecordedAlways(ok) == asked
Recorded(ok) == IF ok THEN asked ELSE recorded

Subscribed ==
    /\ at.run = "subscribe"
    /\ subscribed' = Topics
    /\ recorded' = Recorded(TRUE)
    /\ BeginPublish
    /\ UNCHANGED <<mqtt, report, self, asked, command, announced, retained, events>>

\* The first or the second fails: the round ends.
SubscribeFailed ==
    /\ at.run = "subscribe" /\ Fails
    /\ subscribed' \in {{}, {"command"}}
    /\ recorded' = Recorded(FALSE)
    /\ Move("run", "wait")
    /\ UNCHANGED <<mqtt, report, self, asked, command, publishing, announced, retained>>

\* The rest of a round: discovery if it is due, then a refresh if it is.
AfterPublish ==
    IF "discovery" \in needed THEN "registry"
    ELSE IF "refresh" \in needed THEN "refresh" ELSE "wait"

\* The message that ends _publish: an unavailable payload has no "final".
LastMessage(k) == IF k = "run" /\ publishing.state # 0 THEN "final" ELSE "bridge"

\* "online" only if nothing has changed since the payload was made.
VerdictUnchecked == IF Available THEN generation ELSE 0
Verdict == IF generation = publishing.state /\ Available THEN generation ELSE 0

\* The broker acknowledges a message, the next one is sent.
Acked(k) ==
    /\ at[k] \in Publications \ {LastMessage(k)} /\ connected
    /\ retained' = Delivered(k)
    /\ Move(k, [offline |-> "state", state |-> "bridge", bridge |-> "final"][at[k]])
    /\ publishing' = IF k = "run" /\ at.run = "bridge"
                     THEN [state |-> publishing.state, online |-> Verdict] ELSE publishing
    /\ UNCHANGED <<mqtt, report, self, links, command, announced, events>>

\* The last message is acknowledged: the round goes on.
Published ==
    /\ at.run = LastMessage("run") /\ connected
    /\ retained' = Delivered("run")
    /\ Move("run", AfterPublish)
    /\ announced' = IF AfterPublish = "registry" THEN generation ELSE announced
    /\ needed' = IF AfterPublish = "refresh" THEN {} ELSE needed
    /\ publishing' = NoPayload
    /\ UNCHANGED <<mqtt, report, generation, connectedAt, links, command, events>>

\* The task leaves its await without an acknowledgment.
Unacknowledged(k) == retained' \in {retained, IF connected THEN Delivered(k) ELSE retained}

\* A message fails or times out: the round ends.
PublishFailed ==
    /\ at.run \in Publications /\ Fails
    /\ Unacknowledged("run")
    /\ publishing' = NoPayload
    /\ Move("run", "wait")
    /\ UNCHANGED <<mqtt, report, self, links, command, announced>>

\* The registry has recorded the topics (Discovery models set_topics).
Registered ==
    /\ at.run = "registry"
    /\ Move("run", "announce")
    /\ UNCHANGED <<mqtt, report, self, links, command, publishing, announced, retained, events>>

\* The discovery messages are published; or MQTT is found disconnected before
\* one of them, and the flag is kept.  A refresh follows if it is due.
AnnouncedKept == needed
AnnouncedUnchecked == needed \ {"discovery"}
Announced == IF announced = generation THEN needed \ {"discovery"} ELSE needed

AnnounceDone ==
    /\ at.run = "announce"
    /\ needed' = (IF connected THEN Announced ELSE needed) \ {"refresh"}
    /\ Move("run", IF "refresh" \in needed THEN "refresh" ELSE "wait")
    /\ UNCHANGED <<mqtt, report, generation, connectedAt, links, command, publishing,
                   announced, retained, events>>

\* The registry or a discovery message fails: the round ends, no refresh.
DiscoveryFailed ==
    /\ at.run \in {"registry", "announce"} /\ Fails
    /\ Move("run", "wait")
    /\ UNCHANGED <<mqtt, report, self, links, command, publishing, announced, retained>>

\* The refresh is done or has failed; it is not repeated.
Refreshed ==
    /\ at.run = "refresh"
    /\ Move("run", "wait")
    /\ UNCHANGED <<mqtt, report, self, links, command, publishing, announced, retained, events>>

-----------------------------------------------------------------------------
(* stop().                                                                 *)

\* Up to its first await: all subscriptions are given up, the command is
\* cancelled.
StopBegin ==
    /\ at.stop = "idle"
    /\ subscribed' = {}
    /\ command' = CancelledBy(FALSE)
    /\ Move("stop", "command")
    /\ UNCHANGED <<mqtt, report, self, recorded, asked, publishing, announced, retained, events>>

\* The command has ended.  The run loop is cancelled and awaited: it ends at
\* its await, which may have made a subscription nobody holds.  The farewell
\* is published if MQTT is connected.
StopLoop ==
    /\ at.stop = "command" /\ command = "none"
    /\ Unacknowledged("run")
    /\ subscribed' \in {subscribed} \cup (IF at.run = "subscribe" THEN {{"command"}, Topics} ELSE {})
    /\ at' = [run |-> "ended", stop |-> IF connected THEN "offline" ELSE "failed"]
    /\ UNCHANGED <<mqtt, report, self, recorded, asked, command, publishing, announced, events>>

\* The last message of the farewell is acknowledged, or one of them fails.
FarewellDone ==
    /\ at.stop = "bridge" /\ connected
    /\ retained' = Delivered("stop")
    /\ Move("stop", "left")
    /\ UNCHANGED <<mqtt, report, self, links, command, publishing, announced, events>>

FarewellFailed ==
    /\ at.stop \in Publications /\ Fails
    /\ Unacknowledged("stop")
    /\ Move("stop", "failed")
    /\ UNCHANGED <<mqtt, report, self, links, command, publishing, announced>>

-----------------------------------------------------------------------------
(* The specification.                                                      *)

HomeAssistant ==
    \/ \E up, notified \in BOOLEAN : Connection(up, notified)
    \/ Reconfigured \/ BirthReceived \/ CommandReceived
    \/ \E r \in {"none", "new"} : Reported(r)

Loop == \/ WakeOffline \/ Wake \/ Subscribed \/ SubscribeFailed
        \/ Acked("run") \/ Published \/ PublishFailed
        \/ Registered \/ AnnounceDone \/ DiscoveryFailed \/ Refreshed

Stop == StopLoop \/ Acked("stop") \/ FarewellDone \/ FarewellFailed

\* After stop() Home Assistant may go on for ever without a step of ours.
Next == HomeAssistant \/ CommandEnds \/ Loop \/ StopBegin \/ Stop

Spec == Init /\ [][Next]_vars

\* The event loop runs every ready task and every await has a deadline; of the
\* broker, the registry and the device only that they fail MaxEvents times.
FairSpec == Spec /\ WF_vars(Loop) /\ WF_vars(Stop) /\ WF_vars(CommandEnds)

-----------------------------------------------------------------------------
(* Properties.                                                             *)

Generation == 0..(3 + 2 * MaxEvents)
Payload == [state : Generation, online : Generation]

\* Types; a generation begins with an event or when an absent client's
\* connection is noticed, so at most twice for an event (_run, line 297).
TypeOK ==
    /\ connected \in BOOLEAN /\ settings \in 1..MaxSettings
    /\ report \in {"none", "old", "new"}
    /\ generation \in Generation \ {0} /\ connectedAt \in BOOLEAN
    /\ needed \in SUBSET {"discovery", "refresh"}
    /\ recorded \in 0..MaxSettings /\ asked \in 0..MaxSettings /\ subscribed \in SUBSET Topics
    /\ command \in {"none", "running", "cancelling"}
    /\ at \in [run : Publications \cup RunPositions, stop : Publications \cup StopPositions]
    /\ publishing \in Payload /\ announced \in Generation
    /\ retained \in [online : Generation, state : Generation, bridge : {"online", "offline"}]
    /\ events \in 0..MaxEvents

\* "online" is retained only next to an available state report, one that was
\* made no earlier than the connection or birth "online" belongs to, however
\* publications fail, time out or are overtaken by a reconnection (_publish:
\* "Offline first invalidates any retained report from an earlier session").
OnlineVerified == retained.online <= retained.state

\* The publisher takes discovery for done only if every message of it was
\* sent since the last connection or birth (_publish_discovery, line 218).
DiscoveryCurrent == "discovery" \notin needed => announced = generation

\* A round that gets past _subscribe has both subscriptions, so that a failure
\* to subscribe is made good before the next publication.  The exception: the
\* last _subscribe failed for other settings than those of the subscriptions it
\* had given up, and these came back; then _subscribe takes the subscriptions
\* for current, and the publisher stays deaf to commands and births.
Listening ==
    ~Stopping /\ at.run \notin {"wait", "subscribe"} =>
        subscribed = Topics \/ asked # recorded

\* No valve command runs once stop() has seen its command end, even if the
\* run loop subscribes again while stop() waits (_command_received, line 67),
\* and a stop() that published its farewell leaves the entry offline for good:
\* no message of the run loop follows it (stop, line 335).
StoppedQuietly ==
    /\ at.stop \notin {"idle", "command"} => command = "none"
    /\ at.stop = "left" => retained = [online |-> 0, state |-> 0, bridge |-> "offline"]

\* While the connection and a current valve report stay, the entry becomes
\* and stays available, after whatever failures and reconnections; while the
\* connection stays and the report does not, it does not.
AvailabilityFollows ==
    /\ <>[](connected /\ Available /\ ~Stopping) => <>[](retained.online # 0)
    /\ <>[](connected /\ ~Available /\ ~Stopping) => <>[](retained.online = 0)

\* Discovery, interrupted by reconnections and failures, gets done.
DiscoveryEnds == <>[](connected /\ ~Stopping) => <>[]("discovery" \notin needed)

\* stop() ends, whatever the command, the loop and the broker do.
StopEnds == at.stop = "command" ~> at.stop \in {"left", "failed"}
=============================================================================
