-------------------------- MODULE PublisherProofs --------------------------
(***************************************************************************)
(* Proofs about Publisher, for every bound on events and settings.         *)
(***************************************************************************)
EXTENDS Publisher, TLAPS

\* Types without the bound of the generation.
Plain ==
    /\ connected \in BOOLEAN /\ settings \in 1..MaxSettings
    /\ report \in {"none", "old", "new"}
    /\ generation \in Nat \ {0} /\ connectedAt \in BOOLEAN
    /\ needed \in SUBSET {"discovery", "refresh"}
    /\ recorded \in 0..MaxSettings /\ asked \in 0..MaxSettings /\ subscribed \in SUBSET Topics
    /\ command \in {"none", "running", "cancelling"}
    /\ announced \in 0..generation /\ events \in 0..MaxEvents

Shapes ==
    /\ at \in [run : Publications \cup RunPositions, stop : Publications \cup StopPositions]
    /\ publishing \in [state : Nat, online : Nat]
    /\ retained \in [online : Nat, state : Nat, bridge : {"online", "offline"}]

Types == Plain /\ Shapes

\* A generation is paid for by an event; one that is to come, because a lost
\* connection was not yet noticed or has not yet returned, is paid already.
Counted ==
    generation + (IF connectedAt /\ connected THEN 0 ELSE 1) <= 3 + 2 * events

\* The loop has ended once stop() has published anything.
Positions ==
    /\ at.stop \in {"idle", "command"} <=> at.run # "ended"
    /\ at.stop # "final"

\* The tags of the payload under way and of the retained reports.
Tags ==
    /\ retained.state <= generation /\ publishing.state <= generation
    /\ publishing.online <= generation
    /\ at.run = "offline" => publishing.state = 0
    /\ at.run = "state" => retained.online <= publishing.state
    /\ at.run \in {"bridge", "final"} => retained.state = publishing.state
    /\ at.run = "final" => publishing.state # 0 /\ publishing.online \in {0, publishing.state}

\* What stop() has published stays.
Farewell ==
    /\ at.stop \in {"state", "bridge", "left"} => retained.online = 0
    /\ at.stop \in {"bridge", "left"} => retained.state = 0
    /\ at.stop = "left" => retained.bridge = "offline"

\* The settings recorded are those of the subscriptions, unless these were
\* given up for others.
Recording ==
    /\ ~Stopping /\ at.run # "subscribe" /\ recorded = asked /\ asked # 0 => subscribed = Topics
    /\ at.run = "subscribe" => recorded # asked /\ asked # 0

\* The command has ended before stop() goes on.
CommandGone == at.stop \notin {"idle", "command"} => command = "none"

IInv == /\ Types /\ Counted /\ Positions /\ Tags /\ Farewell /\ Recording
        /\ OnlineVerified /\ DiscoveryCurrent /\ Listening /\ CommandGone

Report(o, s, b) == [online |-> o, state |-> s, bridge |-> b]

USE ConstantsAssumption
USE DEF NoPayload, Report, Topics, Publications, RunPositions, StopPositions, Stopping, Available

-----------------------------------------------------------------------------
(* Every action preserves the invariant.                                   *)

\* A step of one task leaves the other where it is.
LEMMA MoveRun ==
    ASSUME Types, NEW p, Move("run", p) PROVE at' = [run |-> p, stop |-> at.stop]
  BY DEF Types, Shapes, Move

LEMMA MoveStop ==
    ASSUME Types, NEW p, Move("stop", p) PROVE at' = [run |-> at.run, stop |-> p]
  BY DEF Types, Shapes, Move

LEMMA InitIInv == Init => IInv
  <1> SUFFICES ASSUME Init PROVE IInv
    OBVIOUS
  <1>1. PICK g \in {0, 1} : retained = [online |-> g, state |-> g, bridge |-> "online"]
    BY DEF Init
  <1> QED BY <1>1 DEF Init, IInv, Types, Plain, Shapes, Counted, Positions, Tags, Farewell, Recording,
         OnlineVerified, DiscoveryCurrent, Listening, CommandGone

LEMMA HomeAssistantIInv == ASSUME IInv, HomeAssistant PROVE IInv'
  <1> USE DEF IInv, Types, Plain, Shapes, Counted, Positions, Tags, Farewell, Recording,
         OnlineVerified, DiscoveryCurrent, Listening, CommandGone
  <1> USE DEF mqtt, self, links, ConnectionChanged, CancelledBy
  <1>1. ASSUME NEW up \in BOOLEAN, NEW notified \in BOOLEAN, Connection(up, notified)
        PROVE IInv'
    <2> USE <1>1 DEF Connection
    <2>1. Types'
      <3>1. /\ generation' \in {generation, generation + 1} /\ connectedAt' \in BOOLEAN
            /\ needed' \in SUBSET {"discovery", "refresh"}
            /\ report' \in {"none", "old", "new"}
            /\ command' \in {"none", "running", "cancelling"}
        OBVIOUS
      <3>2. connected' \in BOOLEAN /\ events' \in 0..MaxEvents
        OBVIOUS
      <3>3. UNCHANGED <<settings, links, at, publishing, announced, retained>>
        OBVIOUS
      <3> QED BY ONLY ConstantsAssumption, IInv, <3>1, <3>2, <3>3 DEF IInv, Types, links
    <2>2. Counted'
      <3>1. connected' = up /\ connected = ~up /\ events' = events + 1
        OBVIOUS
      <3>2. \/ generation' = generation + 1 /\ connectedAt' = up
            \/ generation' = generation /\ connectedAt' = connectedAt
        OBVIOUS
      <3>3. generation \in Nat /\ events \in Nat /\ connectedAt \in BOOLEAN /\ Counted
        OBVIOUS
      <3> QED BY ONLY <3>1, <3>2, <3>3, up \in BOOLEAN DEF Counted
    <2>3. (Positions /\ Tags /\ Farewell)'
      OBVIOUS
    <2>4. (Recording /\ Listening)'
      OBVIOUS
    <2>5. (OnlineVerified /\ DiscoveryCurrent /\ CommandGone)'
      OBVIOUS
    <2> QED BY <2>1, <2>2, <2>3, <2>4, <2>5
  <1>2. CASE Reconfigured
    BY <1>2 DEF Reconfigured
  <1>3. CASE BirthReceived
    BY <1>3 DEF BirthReceived
  <1>4. CASE CommandReceived
    BY <1>4 DEF CommandReceived, Accepts
  <1>5. ASSUME NEW r \in {"none", "new"}, Reported(r) PROVE IInv'
    BY <1>5 DEF Reported
  <1> QED BY <1>1, <1>2, <1>3, <1>4, <1>5 DEF HomeAssistant

LEMMA RoundIInv ==
    ASSUME IInv, WakeOffline \/ Wake \/ Subscribed \/ SubscribeFailed
    PROVE  IInv'
  <1> USE DEF IInv, Types, Plain, Shapes, Counted, Positions, Tags, Farewell, Recording,
         OnlineVerified, DiscoveryCurrent, Listening, CommandGone
  <1> USE MoveRun, MoveStop DEF mqtt, self, links, BeginPublish, FirstMessage, Recorded, Fails, CanFail
  <1>1. CASE WakeOffline
    BY <1>1 DEF WakeOffline
  <1>2. CASE Wake
    <2> USE <1>2 DEF Wake
    <2>1. /\ \/ UNCHANGED <<report, self, command>>
             \/ /\ generation' = generation + 1 /\ connectedAt' = TRUE /\ ~connectedAt
                /\ report' \in {"none", "old", "new"} /\ command' = command
                /\ needed' = {"discovery", "refresh"}
          /\ UNCHANGED <<mqtt, recorded, announced, retained, events>>
      BY DEF Noticed, ConnectionChanged, CancelledBy
    <2>2. \/ /\ recorded = settings /\ at' = [run |-> FirstMessage, stop |-> at.stop]
             /\ publishing' = [state |-> IF Available THEN generation ELSE 0, online |-> 0]
             /\ UNCHANGED <<asked, subscribed>>
          \/ /\ recorded # settings /\ at' = [run |-> "subscribe", stop |-> at.stop]
             /\ asked' = settings /\ subscribed' = {} /\ UNCHANGED publishing
      OBVIOUS
    <2>3. at.run = "wait" /\ connected
      OBVIOUS
    <2>4. Plain'
      <3>1. /\ generation' \in {generation, generation + 1} /\ connectedAt' \in BOOLEAN
            /\ needed' \in SUBSET {"discovery", "refresh"}
            /\ report' \in {"none", "old", "new"}
            /\ command' \in {"none", "running", "cancelling"}
        BY ONLY IInv, <2>1 DEF IInv, Types, Plain, self
      <3>2. asked' \in 0..MaxSettings /\ subscribed' \in SUBSET Topics
        <4>1. settings \in 1..MaxSettings /\ asked \in 0..MaxSettings /\ subscribed \in SUBSET Topics
          BY DEF IInv, Types, Plain
        <4>2. asked' = asked \/ asked' = settings
          BY ONLY <2>2
        <4>3. subscribed' = subscribed \/ subscribed' = {}
          BY ONLY <2>2
        <4>4. asked' \in 0..MaxSettings
          BY ONLY <4>1, <4>2, ConstantsAssumption
        <4> QED BY ONLY <4>1, <4>3, <4>4
      <3> QED BY ONLY ConstantsAssumption, IInv, <2>1, <3>1, <3>2 DEF IInv, Types, Plain, mqtt
    <2>9. Shapes'
      BY ONLY ConstantsAssumption, IInv, <2>1, <2>2, <2>3 DEF IInv, Types, Plain, Shapes,
        Publications, RunPositions, StopPositions, FirstMessage, self
    <2>5. Counted'
      BY ONLY ConstantsAssumption, IInv, <2>1, <2>2, <2>3 DEF IInv, Types, Plain, Shapes, Counted, Positions, Tags, Farewell, Recording, OnlineVerified,
              DiscoveryCurrent, Listening, CommandGone, Topics, Publications,
              RunPositions, StopPositions, Stopping, Available, FirstMessage, mqtt, self
    <2>6. (Positions /\ Farewell)'
      BY ONLY ConstantsAssumption, IInv, <2>1, <2>2, <2>3 DEF IInv, Types, Plain, Shapes, Counted, Positions, Tags, Farewell, Recording, OnlineVerified,
              DiscoveryCurrent, Listening, CommandGone, Topics, Publications,
              RunPositions, StopPositions, Stopping, Available, FirstMessage, mqtt, self
    <2>7. (Tags /\ OnlineVerified /\ DiscoveryCurrent)'
      BY ONLY ConstantsAssumption, IInv, <2>1, <2>2, <2>3 DEF IInv, Types, Plain, Shapes, Counted, Positions, Tags, Farewell, Recording, OnlineVerified,
              DiscoveryCurrent, Listening, CommandGone, Topics, Publications,
              RunPositions, StopPositions, Stopping, Available, FirstMessage, mqtt, self
    <2>8. (Recording /\ Listening /\ CommandGone)'
      BY ONLY ConstantsAssumption, IInv, <2>1, <2>2, <2>3 DEF IInv, Types, Plain, Shapes, Counted, Positions, Tags, Farewell, Recording, OnlineVerified,
              DiscoveryCurrent, Listening, CommandGone, Topics, Publications,
              RunPositions, StopPositions, Stopping, Available, FirstMessage, mqtt, self
    <2> QED BY <2>4, <2>5, <2>6, <2>7, <2>8, <2>9
  <1>3. CASE Subscribed
    BY <1>3 DEF Subscribed
  <1>4. CASE SubscribeFailed
    BY <1>4 DEF SubscribeFailed
  <1> QED BY <1>1, <1>2, <1>3, <1>4

LEMMA PublicationIInv ==
    ASSUME IInv, (\E k \in {"run", "stop"} : Acked(k)) \/ Published \/ PublishFailed
                   \/ FarewellDone \/ FarewellFailed
    PROVE  IInv'
  <1> USE DEF IInv, Types, Plain, Shapes, Counted, Positions, Tags, Farewell, Recording,
         OnlineVerified, DiscoveryCurrent, Listening, CommandGone
  <1> USE MoveRun, MoveStop DEF mqtt, self, links, Fails, CanFail, LastMessage, Delivered,
         Unacknowledged, Bridge, Verdict
  <1>1. CASE Acked("run")
    <2> USE <1>1 DEF Acked
    <2>1. UNCHANGED <<mqtt, report, self, links, command, announced, events>> /\ connected
      OBVIOUS
    <2>2. CASE at.run = "offline"
      <3>1. /\ at' = [run |-> "state", stop |-> at.stop] /\ UNCHANGED publishing
            /\ retained' = Report(0, retained.state, retained.bridge)
        BY <2>2
      <3> QED BY ONLY ConstantsAssumption, IInv, <2>1, <2>2, <3>1 DEF IInv, Types, Plain, Shapes, Counted, Positions, Tags, Farewell, Recording,
           OnlineVerified, DiscoveryCurrent, Listening, CommandGone, Topics, Publications,
           RunPositions, StopPositions, Stopping, Available, mqtt, self, links, Report
    <2>3. CASE at.run = "state"
      <3>1. /\ at' = [run |-> "bridge", stop |-> at.stop] /\ UNCHANGED publishing
            /\ retained' = Report(retained.online, publishing.state, retained.bridge)
        BY <2>3
      <3> QED BY ONLY ConstantsAssumption, IInv, <2>1, <2>3, <3>1 DEF IInv, Types, Plain, Shapes, Counted, Positions, Tags, Farewell, Recording,
           OnlineVerified, DiscoveryCurrent, Listening, CommandGone, Topics, Publications,
           RunPositions, StopPositions, Stopping, Available, mqtt, self, links, Report
    <2>4. CASE at.run = "bridge"
      <3>1. /\ at' = [run |-> "final", stop |-> at.stop]
            /\ publishing' = [state |-> publishing.state, online |-> Verdict]
            /\ publishing.state # 0
            /\ retained' = Report(retained.online, retained.state, "online")
        BY <2>4
      <3>2. publishing' = [state |-> publishing.state, online |-> 0]
              \/ publishing' = [state |-> publishing.state, online |-> publishing.state]
        BY <3>1
      <3> HIDE DEF Verdict
      <3>19. Plain'
        BY ONLY ConstantsAssumption, IInv, <2>1, <2>4, <3>1, <3>2 DEF IInv, Types, Plain, mqtt, self, links
      <3>20. Shapes'
        BY ONLY ConstantsAssumption, IInv, <2>1, <2>4, <3>1, <3>2 DEF IInv, Types, Shapes, Publications,
            RunPositions, StopPositions, Report
      <3>21. Counted'
        BY ONLY ConstantsAssumption, IInv, <2>1, <2>4, <3>1, <3>2 DEF IInv, Types, Plain, Counted, mqtt, self
      <3>22. (Positions /\ Farewell)'
        BY ONLY ConstantsAssumption, IInv, <2>1, <2>4, <3>1, <3>2 DEF IInv, Types, Plain, Shapes, Counted, Positions, Tags, Farewell, Recording,
           OnlineVerified, DiscoveryCurrent, Listening, CommandGone, Topics, Publications,
           RunPositions, StopPositions, Stopping, Available, mqtt, self, links, Report
      <3>23. (Tags /\ OnlineVerified)'
        BY ONLY ConstantsAssumption, IInv, <2>1, <2>4, <3>1, <3>2 DEF IInv, Types, Plain, Shapes, Counted, Positions, Tags, Farewell, Recording,
           OnlineVerified, DiscoveryCurrent, Listening, CommandGone, Topics, Publications,
           RunPositions, StopPositions, Stopping, Available, mqtt, self, links, Report
      <3>24. (DiscoveryCurrent /\ CommandGone)'
        BY ONLY ConstantsAssumption, IInv, <2>1, <2>4, <3>1, <3>2 DEF IInv, Types, Plain, Shapes, Counted, Positions, Tags, Farewell, Recording,
           OnlineVerified, DiscoveryCurrent, Listening, CommandGone, Topics, Publications,
           RunPositions, StopPositions, Stopping, Available, mqtt, self, links, Report
      <3>25. (Recording /\ Listening)'
        BY ONLY ConstantsAssumption, IInv, <2>1, <2>4, <3>1, <3>2 DEF IInv, Types, Plain, Shapes, Counted, Positions, Tags, Farewell, Recording,
           OnlineVerified, DiscoveryCurrent, Listening, CommandGone, Topics, Publications,
           RunPositions, StopPositions, Stopping, Available, mqtt, self, links, Report
      <3> QED BY <3>19, <3>20, <3>21, <3>22, <3>23, <3>24, <3>25 DEF IInv, Types
    <2>5. at.run \in {"offline", "state", "bridge"}
      OBVIOUS
    <2> QED BY <2>2, <2>3, <2>4, <2>5
  <1>2. CASE Acked("stop")
    BY <1>2 DEF Acked
  <1>3. CASE Published
    <2> USE <1>3 DEF Published
    <2>1. UNCHANGED <<mqtt, report, generation, connectedAt, links, command, events>> /\ connected
      OBVIOUS
    <2>2. at' = [run |-> AfterPublish, stop |-> at.stop] /\ publishing' = [state |-> 0, online |-> 0]
      OBVIOUS
    <2>3. \/ at.run = "bridge" /\ retained' = Report(retained.online, retained.state, "online")
          \/ at.run = "final" /\ retained' = Report(publishing.online, retained.state, retained.bridge)
      OBVIOUS
    <2>4. \/ "discovery" \in needed /\ announced' = generation /\ needed' = needed
          \/ "discovery" \notin needed /\ announced' = announced /\ needed' \in {needed, {}}
      BY DEF AfterPublish
    <2>5. AfterPublish \in {"registry", "refresh", "wait"}
      BY DEF AfterPublish
    <2>6. needed' \in SUBSET {"discovery", "refresh"} /\ announced' \in 0..generation
      <3>1. needed \in SUBSET {"discovery", "refresh"} /\ generation \in Nat
            /\ announced \in 0..generation
        BY DEF IInv, Types, Plain
      <3>2. announced' \in 0..generation
        BY ONLY <2>4, <3>1
      <3>3. needed' = needed \/ needed' = {}
        BY ONLY <2>4
      <3> QED BY ONLY <3>1, <3>2, <3>3
    <2>19. Plain'
      BY ONLY ConstantsAssumption, IInv, <2>1, <2>6 DEF IInv, Types, Plain, mqtt, self, links
    <2>20. Shapes'
      BY ONLY ConstantsAssumption, IInv, <2>1, <2>2, <2>3, <2>4, <2>5 DEF IInv, Types, Shapes, Publications,
          RunPositions, StopPositions, Report
    <2>21. Counted'
      BY ONLY ConstantsAssumption, IInv, <2>1, <2>2, <2>3, <2>4, <2>5 DEF IInv, Types, Plain, Counted, mqtt, self
    <2>22. (Positions /\ Farewell)'
      BY ONLY ConstantsAssumption, IInv, <2>1, <2>2, <2>3, <2>4, <2>5 DEF IInv, Types, Plain, Shapes, Counted, Positions, Tags, Farewell, Recording,
           OnlineVerified, DiscoveryCurrent, Listening, CommandGone, Topics, Publications,
           RunPositions, StopPositions, Stopping, Available, mqtt, self, links, Report
    <2>23. (Tags /\ OnlineVerified)'
      BY ONLY ConstantsAssumption, IInv, <2>1, <2>2, <2>3, <2>4, <2>5 DEF IInv, Types, Plain, Shapes, Counted, Positions, Tags, Farewell, Recording,
           OnlineVerified, DiscoveryCurrent, Listening, CommandGone, Topics, Publications,
           RunPositions, StopPositions, Stopping, Available, mqtt, self, links, Report
    <2>24. (DiscoveryCurrent /\ CommandGone)'
      BY ONLY ConstantsAssumption, IInv, <2>1, <2>2, <2>3, <2>4, <2>5 DEF IInv, Types, Plain, Shapes, Counted, Positions, Tags, Farewell, Recording,
           OnlineVerified, DiscoveryCurrent, Listening, CommandGone, Topics, Publications,
           RunPositions, StopPositions, Stopping, Available, mqtt, self, links, Report
    <2>25. (Recording /\ Listening)'
      BY ONLY ConstantsAssumption, IInv, <2>1, <2>2, <2>3, <2>4, <2>5 DEF IInv, Types, Plain, Shapes, Counted, Positions, Tags, Farewell, Recording,
           OnlineVerified, DiscoveryCurrent, Listening, CommandGone, Topics, Publications,
           RunPositions, StopPositions, Stopping, Available, mqtt, self, links, Report
    <2> QED BY <2>19, <2>20, <2>21, <2>22, <2>23, <2>24, <2>25 DEF IInv, Types
  <1>4. CASE PublishFailed
    <2> USE <1>4 DEF PublishFailed
    <2>1. /\ UNCHANGED <<mqtt, report, self, links, command, announced>>
          /\ events' \in {events, events + 1} /\ events' \in 0..MaxEvents
      OBVIOUS
    <2>2. at' = [run |-> "wait", stop |-> at.stop] /\ publishing' = [state |-> 0, online |-> 0]
      OBVIOUS
    <2>3. \/ retained' = retained
          \/ at.run = "offline" /\ retained' = Report(0, retained.state, retained.bridge)
          \/ at.run = "state" /\ retained' = Report(retained.online, publishing.state, retained.bridge)
          \/ at.run = "bridge" /\ retained' = Report(retained.online, retained.state, "online")
          \/ at.run = "final" /\ retained' = Report(publishing.online, retained.state, retained.bridge)
      OBVIOUS
    <2>4. at.run \in Publications
      OBVIOUS
    <2>19. Plain'
      BY ONLY ConstantsAssumption, IInv, <2>1, <2>2, <2>3, <2>4 DEF IInv, Types, Plain, mqtt, self, links
    <2>20. Shapes'
      BY ONLY ConstantsAssumption, IInv, <2>1, <2>2, <2>3, <2>4 DEF IInv, Types, Shapes, Publications,
          RunPositions, StopPositions, Report
    <2>5. generation' = generation /\ connectedAt' = connectedAt /\ connected' = connected
      BY ONLY <2>1 DEF mqtt, self
    <2>6. /\ generation \in Nat /\ events \in Nat /\ Counted
          /\ connectedAt \in BOOLEAN /\ connected \in BOOLEAN
      BY DEF IInv, Types, Plain
    <2>21. Counted'
      <3>1. CASE events' = events
        BY ONLY <3>1, <2>5, <2>6 DEF Counted
      <3>2. CASE events' = events + 1
        BY ONLY <3>2, <2>5, <2>6 DEF Counted
      <3> QED BY ONLY <2>1, <3>1, <3>2
    <2>22. (Positions /\ Farewell)'
      BY ONLY ConstantsAssumption, IInv, <2>1, <2>2, <2>3, <2>4 DEF IInv, Types, Plain, Shapes, Counted, Positions, Tags, Farewell, Recording,
           OnlineVerified, DiscoveryCurrent, Listening, CommandGone, Topics, Publications,
           RunPositions, StopPositions, Stopping, Available, mqtt, self, links, Report
    <2>23. (Tags /\ OnlineVerified)'
      BY ONLY ConstantsAssumption, IInv, <2>1, <2>2, <2>3, <2>4 DEF IInv, Types, Plain, Shapes, Counted, Positions, Tags, Farewell, Recording,
           OnlineVerified, DiscoveryCurrent, Listening, CommandGone, Topics, Publications,
           RunPositions, StopPositions, Stopping, Available, mqtt, self, links, Report
    <2>24. (DiscoveryCurrent /\ CommandGone)'
      BY ONLY ConstantsAssumption, IInv, <2>1, <2>2, <2>3, <2>4 DEF IInv, Types, Plain, Shapes, Counted, Positions, Tags, Farewell, Recording,
           OnlineVerified, DiscoveryCurrent, Listening, CommandGone, Topics, Publications,
           RunPositions, StopPositions, Stopping, Available, mqtt, self, links, Report
    <2>25. (Recording /\ Listening)'
      BY ONLY ConstantsAssumption, IInv, <2>1, <2>2, <2>3, <2>4 DEF IInv, Types, Plain, Shapes, Counted, Positions, Tags, Farewell, Recording,
           OnlineVerified, DiscoveryCurrent, Listening, CommandGone, Topics, Publications,
           RunPositions, StopPositions, Stopping, Available, mqtt, self, links, Report
    <2> QED BY <2>19, <2>20, <2>21, <2>22, <2>23, <2>24, <2>25 DEF IInv, Types
  <1>5. CASE FarewellDone
    BY <1>5 DEF FarewellDone
  <1>6. CASE FarewellFailed
    BY <1>6 DEF FarewellFailed
  <1> QED BY <1>1, <1>2, <1>3, <1>4, <1>5, <1>6

LEMMA OtherIInv ==
    ASSUME IInv, Registered \/ AnnounceDone \/ DiscoveryFailed \/ Refreshed
                   \/ CommandEnds \/ StopBegin \/ StopLoop \/ UNCHANGED vars
    PROVE  IInv'
  <1> USE DEF IInv, Types, Plain, Shapes, Counted, Positions, Tags, Farewell, Recording,
         OnlineVerified, DiscoveryCurrent, Listening, CommandGone
  <1> USE MoveRun, MoveStop DEF mqtt, self, links, Fails, CanFail
  <1>1. CASE Registered
    BY <1>1 DEF Registered
  <1>2. CASE AnnounceDone
    BY <1>2 DEF AnnounceDone, Announced
  <1>3. CASE DiscoveryFailed
    BY <1>3 DEF DiscoveryFailed
  <1>4. CASE Refreshed
    BY <1>4 DEF Refreshed
  <1>5. CASE CommandEnds
    BY <1>5 DEF CommandEnds
  <1>6. CASE StopBegin
    BY <1>6 DEF StopBegin, CancelledBy
  <1>7. CASE StopLoop
    BY <1>7 DEF StopLoop, Unacknowledged, Delivered, Bridge
  <1>8. CASE UNCHANGED vars
    BY <1>8 DEF vars
  <1> QED BY <1>1, <1>2, <1>3, <1>4, <1>5, <1>6, <1>7, <1>8

LEMMA NextIInv == ASSUME IInv, [Next]_vars PROVE IInv'
  BY HomeAssistantIInv, RoundIInv, PublicationIInv, OtherIInv DEF Next, Loop, Stop

THEOREM Inductive == Spec => []IInv
  BY InitIInv, NextIInv, PTL DEF Spec

-----------------------------------------------------------------------------
(* The theorems.                                                           *)

\* The values of all variables; and no more generations than two for each event
\* and the first: the loop never takes an announced connection for a new one.
THEOREM TypeCorrect == Spec => []TypeOK
  <1>1. ASSUME IInv PROVE TypeOK
    <2>1. generation \in Nat /\ events \in 0..MaxEvents /\ Counted
      BY <1>1 DEF IInv, Types, Plain
    <2>2. generation <= 3 + 2 * MaxEvents
      BY <2>1 DEF Counted
    <2>3. Generation = 0..(3 + 2 * MaxEvents)
      BY DEF Generation
    <2>4. /\ publishing.state \in Generation /\ publishing.online \in Generation
          /\ retained.state \in Generation /\ retained.online \in Generation
          /\ generation \in Generation \ {0} /\ announced \in Generation
      BY <1>1, <2>2, <2>3 DEF IInv, Types, Plain, Shapes, Tags, OnlineVerified
    <2>5. Plain /\ Shapes
      BY <1>1 DEF IInv, Types
    <2> HIDE DEF Generation
    <2> QED BY <2>4, <2>5 DEF TypeOK, Plain, Shapes, Payload
  <1> QED BY Inductive, <1>1, PTL

\* "online" is only retained next to a state report of the same connection or a
\* later one (_publish).
THEOREM Verified == Spec => []OnlineVerified
  BY Inductive, PTL DEF IInv

\* Discovery is marked done only for the generation it was published in
\* (_publish_discovery).
THEOREM Rediscovered == Spec => []DiscoveryCurrent
  BY Inductive, PTL DEF IInv

\* A round publishes only with both subscriptions in place, however often
\* subscribing failed before; with the one exception that the settings
\* recorded came back after _subscribe had failed for others (_subscribe).
THEOREM NeverDeaf == Spec => []Listening
  BY Inductive, PTL DEF IInv

\* stop() leaves no valve command running, and its farewell is the last word
\* on availability (stop, _command_received).
THEOREM StopsQuietly == Spec => []StoppedQuietly
  <1>1. IInv => StoppedQuietly
    BY DEF IInv, Types, Shapes, Farewell, CommandGone, StoppedQuietly
  <1> QED BY Inductive, <1>1, PTL

=============================================================================
