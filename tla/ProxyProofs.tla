---------------------------- MODULE ProxyProofs ----------------------------
(***************************************************************************)
(* Proofs about Proxy, for every set of sessions, calls and vendor         *)
(* connections, every queue limit and every number of vendor frames.       *)
(***************************************************************************)
EXTENDS Proxy, FiniteSetTheorems, TLAPS

\* While the worker is between the awaits of a request, Session.active_request
\* is that request: what _worker reads after an await is there.
Busy ==
    \A s \in Sessions :
        sess[s].worker \in {"exchange", "forward", "readback"} => sess[s].active # None

TInv == TypeOK /\ Busy

\* What TypeOK and Busy say of one Session object.
Fits(x) ==
    /\ x \in SessionType
    /\ Len(x.queue) <= QueueLimit
    /\ x.worker \in {"exchange", "forward", "readback"} => x.active # None

FutureType == [Callers -> {"none", "pending", "set", "rejected", "cancelled"}]

USE ConstantsAssumption, NamesAssumption
USE DEF Valves, Reads, Ops

-----------------------------------------------------------------------------
(* Lemmas about the operators the actions are built from.                  *)

LEMMA MaybeFacts ==
    /\ \A S : None \in Maybe(S)
    /\ \A S : \A v \in S : v \in Maybe(S)
    /\ \A S : \A v \in Maybe(S) : v # None => v \in S
  BY DEF Maybe

\* TypeOK and Busy, session by session.
LEMMA TInvFits == ASSUME TInv, NEW s \in Sessions PROVE Fits(sess[s])
  BY DEF TInv, TypeOK, Busy, Fits

\* A step that replaces one session object by one that fits keeps them all so.
LEMMA FitsOne ==
    ASSUME TInv, NEW s \in Sessions, NEW x, Fits(x), sess' = [sess EXCEPT ![s] = x]
    PROVE  /\ sess' \in [Sessions -> SessionType]
           /\ \A t \in Sessions : Len(sess'[t].queue) <= QueueLimit
           /\ Busy'
  BY DEF TInv, TypeOK, Busy, Fits

LEMMA FitsAll ==
    ASSUME NEW f, sess' = [s \in Sessions |-> f[s]], \A s \in Sessions : Fits(f[s])
    PROVE  /\ sess' \in [Sessions -> SessionType]
           /\ \A t \in Sessions : Len(sess'[t].queue) <= QueueLimit
           /\ Busy'
  BY DEF Busy, Fits

\* The number of vendor requests left in a queue is a natural number.
LEMMA LeftoverNat ==
    ASSUME TypeOK, NEW s \in Sessions
    PROVE  Leftover(s) \in Nat
<1> DEFINE D == {i \in DOMAIN sess[s].queue : sess[s].queue[i].from \in Clouds}
<1>1. sess[s].queue \in Seq(Request)
  BY DEF TypeOK, SessionType
<1>2. DOMAIN sess[s].queue = 1..Len(sess[s].queue) /\ Len(sess[s].queue) \in Nat
  BY <1>1
<1>3. IsFiniteSet(1..Len(sess[s].queue))
  BY <1>2, FS_Interval
<1>4. IsFiniteSet(D)
  BY <1>2, <1>3, FS_Subset
<1> QED
  BY <1>4, FS_CardinalityType DEF Leftover

LEMMA HeadTail ==
    ASSUME NEW S, NEW q \in Seq(S), q # <<>>
    PROVE  Head(q) \in S /\ Tail(q) \in Seq(S) /\ Len(Tail(q)) = Len(q) - 1 /\ Len(q) \in Nat
  OBVIOUS

\* Closing a vendor connection keeps the types.
LEMMA ClosedType ==
    ASSUME TypeOK, NEW k \in Maybe(Clouds)
    PROVE  Closed(k) \in [Clouds -> CloudType]
<1>1. cloud \in [Clouds -> CloudType]
  BY DEF TypeOK
<1>2. CASE k = None
  BY <1>1, <1>2 DEF Closed
<1>3. CASE k # None
  <2>1. k \in Clouds
    BY <1>3, MaybeFacts
  <2>2. [cloud[k] EXCEPT !.alive = FALSE] \in CloudType
    BY <1>1, <2>1 DEF CloudType
  <2>3. Closed(k) = [cloud EXCEPT ![k] = [cloud[k] EXCEPT !.alive = FALSE]]
    BY <1>3 DEF Closed
  <2> QED
    BY <1>1, <2>1, <2>2, <2>3
<1> QED
  BY <1>2, <1>3

\* Writing to the device keeps the types.
LEMMA WrittenType ==
    ASSUME TypeOK, NEW s, NEW r \in Request
    PROVE  Written(s, r) \in DeviceType
<1>1. Append(device.inbox, r) \in Seq(Request)
  BY DEF TypeOK, DeviceType
<1> QED
  BY <1>1 DEF TypeOK, Written, DeviceType

\* Observing a response keeps the types of the published state.
LEMMA ObservedType ==
    ASSUME TypeOK, NEW reply \in Reply
    PROVE  Observed(reply) \in StateType
<1> DEFINE v == IF reply.op \in Reads THEN reply.report ELSE state.valve
           b == state.counter \/ reply.op = "snapshot"
<1>1. v \in Maybe(Valves)
  BY DEF TypeOK, StateType, Reply
<1>2. b \in BOOLEAN
  OBVIOUS
<1>3. Observed(reply) = [state EXCEPT !.device = TRUE, !.valve = v, !.counter = b]
  BY DEF Observed
<1> HIDE DEF v, b
<1> QED
  BY <1>1, <1>2, <1>3 DEF TypeOK, StateType

LEMMA RaisedFits ==
    ASSUME NEW x, Fits(x), NEW r \in Maybe(Request)
    PROVE  Fits(WorkerRaised(x, r))
<1>1. Released(r) \in Maybe(Request)
  BY DEF Maybe, Released
<1> QED
  BY <1>1, MaybeFacts DEF Fits, WorkerRaised, SessionType

LEMMA SampledFits ==
    ASSUME NEW x, Fits(x), NEW reply
    PROVE  Fits(Sampled(x, reply)) /\ Sampled(x, reply).active = x.active
<1> DEFINE b == x.sampled \/ reply.op = "snapshot"
<1>1. b \in BOOLEAN
  OBVIOUS
<1>2. Sampled(x, reply) = [x EXCEPT !.sampled = b]
  BY DEF Sampled
<1> HIDE DEF b
<1> QED
  BY <1>1, <1>2 DEF Fits, SessionType

LEMMA EnqueueFits ==
    ASSUME NEW x, Fits(x), Len(x.queue) < QueueLimit, NEW r \in Request
    PROVE  Fits(Enqueue(x, r))
<1> DEFINE q == Append(x.queue, r)
<1>1. q \in Seq(Request) /\ Len(q) <= QueueLimit
  BY DEF Fits, SessionType
<1>2. Enqueue(x, r) = [x EXCEPT !.queue = q]
  BY DEF Enqueue
<1> HIDE DEF q
<1> QED
  BY <1>1, <1>2, SMTT(30) DEF Fits, SessionType

\* The request at the head of the queue leaves it.
LEMMA TakeFits ==
    ASSUME TInv, NEW s \in Sessions, Takes(s)
    PROVE  /\ Fits([sess[s] EXCEPT !.queue = Tail(@)])
           /\ Head(sess[s].queue) \in Request
<1>1. Fits(sess[s])
  BY TInvFits
<1>2. sess[s].queue \in Seq(Request) /\ sess[s].queue # <<>>
  BY <1>1 DEF Fits, SessionType, Takes
<1>3. /\ Tail(sess[s].queue) \in Seq(Request)
      /\ Len(Tail(sess[s].queue)) <= QueueLimit
      /\ Head(sess[s].queue) \in Request
  BY <1>1, <1>2, HeadTail DEF Fits
<1> QED
  BY <1>1, <1>3 DEF Fits, SessionType

\* Completing a request keeps the types.
LEMMA CompleteType ==
    ASSUME TInv, NEW s \in Sessions, NEW x, Fits(x), NEW reply \in Maybe(Reply),
           Complete(s, x, reply)
    PROVE  /\ future' \in FutureType
           /\ call' \in [Calls -> CallType]
           /\ sess' \in [Sessions -> SessionType]
           /\ \A t \in Sessions : Len(sess'[t].queue) <= QueueLimit
           /\ Busy'
<1> DEFINE y == [x EXCEPT !.worker = Loop(s, "get"), !.active = None,
                          !.current = None, !.response = None]
           o == x.active.from
<1>1. Loop(s, "get") \in {"get", "done"}
  BY DEF Loop
<1>2. Fits(y)
  BY <1>1, MaybeFacts DEF Fits, SessionType
<1>3. sess' = [sess EXCEPT ![s] = y]
  BY DEF Complete
<1>4. future' \in FutureType
  BY DEF Complete, TInv, TypeOK, FutureType
<1>5. ASSUME o \in Calls
      PROVE  [call[o] EXCEPT !.answer = reply] \in CallType
  BY <1>5, ZenonT(60) DEF TInv, TypeOK, CallType
<1>6. call' = call \/ (o \in Calls /\ call' = [call EXCEPT ![o] = [call[o] EXCEPT !.answer = reply]])
  BY DEF Complete
<1>7. call' \in [Calls -> CallType]
  <2> HIDE DEF o
  <2> QED BY <1>5, <1>6 DEF TInv, TypeOK
<1> HIDE DEF y
<1> QED
  BY <1>2, <1>3, <1>4, <1>7, FitsOne

\* The part of a round that follows the response keeps the types.
LEMMA AfterResponseType ==
    ASSUME TInv, NEW s \in Sessions, NEW x, Fits(x), x.active \in Request,
           NEW reply \in Maybe(Reply), AfterResponse(s, x, reply)
    PROVE  /\ future' \in FutureType
           /\ call' \in [Calls -> CallType]
           /\ sess' \in [Sessions -> SessionType]
           /\ \A t \in Sessions : Len(sess'[t].queue) <= QueueLimit
           /\ Busy'
           /\ device' \in DeviceType
<1>0. future \in FutureType /\ call \in [Calls -> CallType] /\ device \in DeviceType
  BY DEF TInv, TypeOK, FutureType
<1>1. CASE x.active.op \notin Valves
  <2>1. Complete(s, x, reply) /\ device' = device
    BY <1>1 DEF AfterResponse
  <2> QED
    BY <1>0, <2>1, CompleteType
<1>2. CASE x.active.op \in Valves /\ (reply.bad \/ ~IsCurrent(s))
  <2>1. Fits(WorkerRaised(x, x.active))
    BY RaisedFits, MaybeFacts
  <2>2. /\ sess' = [sess EXCEPT ![s] = WorkerRaised(x, x.active)]
        /\ UNCHANGED <<future, call, device>>
    BY <1>2 DEF AfterResponse
  <2> QED
    BY <1>0, <2>1, <2>2, FitsOne
<1>3. CASE x.active.op \in Valves /\ ~(reply.bad \/ ~IsCurrent(s))
  <2> DEFINE y == [x EXCEPT !.worker = "readback", !.response = None,
                            !.current = [op |-> "status", reply |-> None]]
             r == [op |-> "status", from |-> x.active.from, n |-> 0]
  <2>1. [op |-> "status", reply |-> None] \in Maybe(Exchange)
    BY MaybeFacts DEF Exchange
  <2>2. Fits(y)
    BY <2>1, MaybeFacts DEF Fits, SessionType
  <2>3. r \in Request
    BY DEF Request
  <2>4. /\ sess' = [sess EXCEPT ![s] = y] /\ device' = Written(s, r)
        /\ UNCHANGED <<future, call>>
    BY <1>3 DEF AfterResponse
  <2> HIDE DEF y, r
  <2>5. device' \in DeviceType
    BY <2>3, <2>4, WrittenType DEF TInv
  <2> QED
    BY <1>0, <2>2, <2>4, <2>5, FitsOne
<1> QED
  BY <1>1, <1>2, <1>3

-----------------------------------------------------------------------------
(* The initial states.                                                     *)

LEMMA InitTInv == Init => TInv
<1> SUFFICES ASSUME Init PROVE TInv
  OBVIOUS
<1>1. NewSession \in SessionType
  BY MaybeFacts DEF NewSession, SessionType
<1>2. state \in StateType
  BY MaybeFacts DEF Init, Cleared, StateType
<1>3. device \in DeviceType
  <2>1. PICK v \in FirstValves : device = [on |-> None, inbox |-> <<>>, outbox |-> <<>>,
                                           valve |-> v, obeyed |-> None]
    BY DEF Init
  <2>2. v \in Valves
    BY DEF Valves
  <2> QED
    BY <2>1, <2>2, MaybeFacts DEF DeviceType
<1>4. cloud \in [Clouds -> CloudType]
  BY DEF Init, CloudType
<1>5. call \in [Calls -> CallType]
  BY MaybeFacts DEF Init, CallType
<1>6. \A s \in Sessions : Len(sess[s].queue) <= QueueLimit
  BY DEF Init, NewSession
<1>7. TypeOK
  BY <1>1, <1>2, <1>3, <1>4, <1>5, <1>6, MaybeFacts DEF Init, TypeOK
<1>8. Busy
  BY DEF Init, Busy, NewSession
<1> QED
  BY <1>7, <1>8 DEF TInv

-----------------------------------------------------------------------------
(* Every step keeps TInv.                                                  *)

\* The components a step leaves alone keep their types.
LEMMA Unchanged ==
    ASSUME TInv
    PROVE  /\ phase \in {"up", "stopping", "stopped"} /\ session \in Maybe(Sessions)
           /\ state \in StateType /\ dropped \in Nat
           /\ sess \in [Sessions -> SessionType]
           /\ \A s \in Sessions : Len(sess[s].queue) <= QueueLimit
           /\ future \in FutureType /\ call \in [Calls -> CallType]
           /\ cloud \in [Clouds -> CloudType] /\ device \in DeviceType
  BY DEF TInv, TypeOK, FutureType

LEMMA NextTypes ==
    ASSUME phase' \in {"up", "stopping", "stopped"}, session' \in Maybe(Sessions),
           state' \in StateType, dropped' \in Nat,
           sess' \in [Sessions -> SessionType],
           \A s \in Sessions : Len(sess'[s].queue) <= QueueLimit, Busy',
           future' \in FutureType, call' \in [Calls -> CallType],
           cloud' \in [Clouds -> CloudType], device' \in DeviceType
    PROVE  TInv'
  BY DEF TInv, TypeOK, FutureType

\* One record of cloud or call replaced by another of its type.
LEMMA CloudOne ==
    ASSUME TInv, NEW k \in Clouds, NEW c \in CloudType, cloud' = [cloud EXCEPT ![k] = c]
    PROVE  cloud' \in [Clouds -> CloudType]
  BY Unchanged

LEMMA CallOne ==
    ASSUME TInv, NEW k \in Calls, NEW c \in CallType, call' = [call EXCEPT ![k] = c]
    PROVE  call' \in [Calls -> CallType]
  BY Unchanged

\* The device's connection is closed or another one opened.
LEMMA DeviceMoved ==
    ASSUME TInv, NEW on \in Maybe(Sessions)
    PROVE  /\ [device EXCEPT !.on = on, !.inbox = <<>>] \in DeviceType
           /\ [device EXCEPT !.on = on, !.inbox = <<>>, !.outbox = <<>>] \in DeviceType
<1> DEFINE in == Seq(Request)
           out == Seq(Reply)
<1>1. device \in [on : Maybe(Sessions), inbox : in, outbox : out,
                  valve : Valves, obeyed : Maybe(Origins)]
  BY Unchanged DEF DeviceType
<1>2. <<>> \in in /\ <<>> \in out
  OBVIOUS
<1>3. DeviceType = [on : Maybe(Sessions), inbox : in, outbox : out,
                    valve : Valves, obeyed : Maybe(Origins)]
  BY DEF DeviceType
<1> HIDE DEF in, out
<1>4. [device EXCEPT !.on = on, !.inbox = <<>>] \in DeviceType
  BY <1>1, <1>2, <1>3
<1>5. [device EXCEPT !.on = on, !.inbox = <<>>, !.outbox = <<>>] \in DeviceType
  BY <1>1, <1>2, <1>3
<1> QED
  BY <1>4, <1>5

LEMMA NewSessionType == NewSession \in SessionType /\ NewSession.queue = <<>>
                        /\ NewSession.worker = "idle"
  BY MaybeFacts DEF NewSession, SessionType

LEMMA AcceptT == ASSUME TInv, NEW s \in Sessions, Accept(s) PROVE TInv'
<1> DEFINE f == [t \in Sessions |->
         IF t = s THEN [NewSession EXCEPT !.task = "created", !.alive = TRUE]
         ELSE IF t = session THEN [sess[t] EXCEPT !.alive = FALSE, !.cancelled = TRUE]
         ELSE sess[t]]
<1>1. Fits([NewSession EXCEPT !.task = "created", !.alive = TRUE])
  <2> DEFINE n == [NewSession EXCEPT !.task = "created", !.alive = TRUE]
  <2>1. n \in SessionType
    BY NewSessionType DEF SessionType
  <2>2. n.queue = <<>> /\ n.worker = "idle"
    BY DEF NewSession
  <2>3. Len(<<>>) <= QueueLimit
    OBVIOUS
  <2> HIDE DEF n
  <2>4. Fits(n)
    BY <2>1, <2>2, <2>3 DEF Fits
  <2> QED
    BY <2>4 DEF n
<1>2. ASSUME NEW t \in Sessions
      PROVE  /\ Fits(sess[t])
             /\ Fits([sess[t] EXCEPT !.alive = FALSE, !.cancelled = TRUE])
  <2>1. Fits(sess[t])
    BY TInvFits
  <2> QED
    BY <2>1 DEF Fits, SessionType
<1>3. \A t \in Sessions : Fits(f[t])
  BY <1>1, <1>2
<1>4. sess' = [t \in Sessions |-> f[t]]
  BY DEF Accept
<1>5. cloud' \in [Clouds -> CloudType]
  <2>1. CASE session = None
    BY <2>1, Unchanged DEF Accept
  <2>2. CASE session # None
    <3>1. sess[session].cloud \in Maybe(Clouds)
      BY <2>2, Unchanged, MaybeFacts DEF SessionType
    <3> QED
      BY <2>2, <3>1, ClosedType DEF Accept, TInv
  <2> QED
    BY <2>1, <2>2
<1>6. device' \in DeviceType
  BY DeviceMoved, MaybeFacts DEF Accept
<1>8. state' \in StateType /\ session' \in Maybe(Sessions)
  BY MaybeFacts DEF Accept, StateType, Cleared
<1>7. UNCHANGED <<phase, dropped, future, call>>
  BY DEF Accept
<1> HIDE DEF f
<1> QED
  BY <1>3, <1>4, <1>5, <1>6, <1>7, <1>8, FitsAll, Unchanged, NextTypes

LEMMA RunStartT == ASSUME TInv, NEW s \in Sessions, RunStart(s) PROVE TInv'
<1> DEFINE y == IF sess[s].cancelled THEN [sess[s] EXCEPT !.task = "lost"]
                ELSE [sess[s] EXCEPT !.task = "running", !.worker = "get",
                        !.reader = "read", !.vendor = "connect", !.poller = "sleep"]
<1>1. Fits(y)
  <2>1. Fits(sess[s])
    BY TInvFits
  <2>2. Fits([sess[s] EXCEPT !.task = "lost"])
    BY <2>1 DEF Fits, SessionType
  <2>3. Fits([sess[s] EXCEPT !.task = "running", !.worker = "get",
                !.reader = "read", !.vendor = "connect", !.poller = "sleep"])
    BY <2>1 DEF Fits, SessionType
  <2> QED
    BY <2>2, <2>3
<1>2. sess' = [sess EXCEPT ![s] = y] /\ UNCHANGED <<proxy, future, call, cloud, device>>
  BY DEF RunStart
<1> HIDE DEF y
<1> QED
  BY <1>1, <1>2, FitsOne, Unchanged, NextTypes DEF proxy

LEMMA AbortT == ASSUME TInv, NEW s \in Sessions, Abort(s) PROVE TInv'
<1> DEFINE a == Released(sess[s].active)
           v == IF sess[s].vendor \in {"serve", "unwind"} THEN "unwind" ELSE "done"
           y == [sess[s] EXCEPT !.reader = "done", !.poller = "done", !.worker = "done",
                   !.vendor = v, !.current = None, !.response = None, !.active = a]
<1>1. Fits(sess[s])
  BY TInvFits
<1>2. a \in Maybe(Request) /\ v \in {"unwind", "done"}
  BY <1>1 DEF Fits, SessionType, Released, Maybe
<1>3. sess' = [sess EXCEPT ![s] = y]
  BY DEF Abort
<1>4. Fits(y)
  <2> HIDE DEF a, v
  <2> QED BY <1>1, <1>2, MaybeFacts, ZenonT(60) DEF Fits, SessionType
<1>5. future' \in FutureType
  BY Unchanged DEF Abort, FutureType
<1>6. sess[s].cloud \in Maybe(Clouds)
  BY <1>1 DEF Fits, SessionType
<1>7. cloud' \in [Clouds -> CloudType]
  BY <1>6, ClosedType, Unchanged DEF Abort, TInv
<1>8. UNCHANGED <<proxy, call, device>>
  BY DEF Abort
<1> HIDE DEF y
<1> QED
  BY <1>3, <1>4, <1>5, <1>7, <1>8, FitsOne, Unchanged, NextTypes DEF proxy

LEMMA RunCleanupT == ASSUME TInv, NEW s \in Sessions, RunCleanup(s) PROVE TInv'
<1> DEFINE y == [sess[s] EXCEPT !.task = "closing", !.alive = FALSE, !.current = None,
                   !.queue = <<>>, !.active = None, !.cloud = None,
                   !.sampled = FALSE, !.failed = FALSE]
<1>1. Fits(sess[s]) /\ sess[s].worker = "done"
  BY TInvFits DEF RunCleanup, GroupDone
<1>2. <<>> \in Seq(Request) /\ Len(<<>>) <= QueueLimit
  OBVIOUS
<1>3. Fits(y)
  <2>1. sess[s] \in SessionType
    BY <1>1 DEF Fits
  <2>2. y \in SessionType
    BY <1>2, <2>1, MaybeFacts DEF SessionType
  <2>3. y.queue = <<>> /\ y.worker = "done"
    BY <1>1, <2>1 DEF SessionType
  <2> HIDE DEF y
  <2> QED BY <1>2, <2>2, <2>3 DEF Fits
<1>4. sess' = [sess EXCEPT ![s] = y] /\ UNCHANGED <<phase, call, device>>
  BY DEF RunCleanup
<1>5. dropped' \in Nat
  BY Unchanged, LeftoverNat DEF RunCleanup, TInv
<1>6. future' \in FutureType
  BY Unchanged DEF RunCleanup, FutureType
<1>7. cloud' \in [Clouds -> CloudType]
  BY <1>1, ClosedType DEF Fits, SessionType, RunCleanup, TInv
<1>8. session' \in Maybe(Sessions) /\ state' \in StateType
  BY Unchanged, MaybeFacts DEF RunCleanup, CleanupSession, StateType, Cleared
<1> HIDE DEF y
<1> QED
  BY <1>3, <1>4, <1>5, <1>6, <1>7, <1>8, FitsOne, Unchanged, NextTypes

LEMMA RunDoneT == ASSUME TInv, NEW s \in Sessions, RunDone(s) PROVE TInv'
<1> DEFINE y == [sess[s] EXCEPT !.task = "done"]
<1>1. Fits(y)
  BY TInvFits DEF Fits, SessionType
<1>2. sess' = [sess EXCEPT ![s] = y] /\ UNCHANGED <<proxy, future, call, cloud>>
  BY DEF RunDone
<1>3. device' \in DeviceType
  BY DeviceMoved, Unchanged, MaybeFacts DEF RunDone
<1> HIDE DEF y
<1> QED
  BY <1>1, <1>2, <1>3, FitsOne, Unchanged, NextTypes DEF proxy

LEMMA WorkerDiscardT == ASSUME TInv, NEW s \in Sessions, WorkerDiscard(s) PROVE TInv'
<1> DEFINE x == [sess[s] EXCEPT !.queue = Tail(@)]
           w == Loop(s, "get")
           y == [x EXCEPT !.worker = w]
<1>1. Fits(x) /\ w \in {"get", "done"}
  BY TakeFits DEF WorkerDiscard, Loop
<1>2. sess' = [sess EXCEPT ![s] = y]
  BY DEF WorkerDiscard
<1>3. Fits(y)
  <2> HIDE DEF x, w
  <2> QED BY <1>1 DEF Fits, SessionType
<1>4. dropped' \in Nat /\ UNCHANGED <<phase, session, state, future, call, cloud, device>>
  BY Unchanged DEF WorkerDiscard
<1> HIDE DEF y
<1> QED
  BY <1>2, <1>3, <1>4, FitsOne, Unchanged, NextTypes

LEMMA WorkerSendT == ASSUME TInv, NEW s \in Sessions, WorkerSend(s) PROVE TInv'
<1> DEFINE r == Head(sess[s].queue)
           x == [sess[s] EXCEPT !.queue = Tail(@)]
           e == [op |-> r.op, reply |-> None]
           y == [x EXCEPT !.active = r, !.worker = "exchange", !.current = e]
<1>1. Fits(x) /\ r \in Request
  BY TakeFits DEF WorkerSend
<1>2. e \in Maybe(Exchange) /\ r # None /\ r \in Maybe(Request)
  BY <1>1, MaybeFacts DEF Exchange, Request
<1>3. state' \in StateType
  <2>1. state' = state \/ state' = [state EXCEPT !.valve = None]
    BY DEF WorkerSend, Invalidated
  <2> QED
    BY <2>1, Unchanged, MaybeFacts DEF StateType
<1>4. UNCHANGED <<phase, session, dropped, future>>
  BY DEF WorkerSend
<1>5. CASE IsCurrent(s)
  <2>1. /\ sess' = [sess EXCEPT ![s] = y]
        /\ device' = Written(s, r)
        /\ call' = IF r.from \in Calls THEN [call EXCEPT ![r.from].writes = @ + 1] ELSE call
        /\ cloud' = IF r.from \in Clouds THEN [cloud EXCEPT ![r.from].passed = @ + 1]
                    ELSE cloud
    BY <1>5 DEF WorkerSend
  <2>2. Fits(y)
    <3> HIDE DEF x, e, r
    <3> QED BY <1>1, <1>2 DEF Fits, SessionType
  <2> HIDE DEF y, r
  <2>3. device' \in DeviceType
    BY <1>1, <2>1, WrittenType DEF TInv
  <2>4. call' \in [Calls -> CallType]
    <3>1. ASSUME r.from \in Calls
          PROVE  [call[r.from] EXCEPT !.writes = @ + 1] \in CallType
      <4> DEFINE n == call[r.from].writes + 1
      <4>1. call[r.from] \in CallType
        BY <3>1, Unchanged
      <4>2. n \in Nat
        BY <4>1 DEF CallType
      <4> HIDE DEF n
      <4>3. [call[r.from] EXCEPT !.writes = n] \in CallType
        BY <4>1, <4>2 DEF CallType
      <4> QED
        BY <4>3 DEF n
    <3>2. ASSUME r.from \in Calls
          PROVE  call' = [call EXCEPT ![r.from] = [call[r.from] EXCEPT !.writes = @ + 1]]
      BY <2>1, <3>2
    <3> QED
      BY <2>1, <3>1, <3>2, CallOne, Unchanged
  <2>5. cloud' \in [Clouds -> CloudType]
    <3>1. ASSUME NEW k \in Clouds
          PROVE  [cloud[k] EXCEPT !.passed = @ + 1] \in CloudType
      <4> DEFINE n == cloud[k].passed + 1
                 answers == Seq(0..MaxFrames)
      <4>1. cloud[k] \in [used : BOOLEAN, alive : BOOLEAN, asked : 0..MaxFrames,
                          passed : Nat, answered : answers]
        BY Unchanged DEF CloudType
      <4>2. n \in Nat
        BY <4>1
      <4> HIDE DEF n, answers
      <4>3. [cloud[k] EXCEPT !.passed = n] \in [used : BOOLEAN, alive : BOOLEAN,
              asked : 0..MaxFrames, passed : Nat, answered : answers]
        BY <4>1, <4>2
      <4> QED
        BY <4>3 DEF n, answers, CloudType
    <3>2. ASSUME r.from \in Clouds
          PROVE  cloud' = [cloud EXCEPT ![r.from] = [cloud[r.from] EXCEPT !.passed = @ + 1]]
      BY <2>1, <3>2
    <3> QED
      BY <2>1, <3>1, <3>2, CloudOne, Unchanged
  <2> QED
    BY <1>3, <1>4, <2>1, <2>2, <2>3, <2>4, <2>5, FitsOne, Unchanged, NextTypes
<1>6. CASE ~IsCurrent(s)
  <2>1. sess' = [sess EXCEPT ![s] = WorkerRaised(x, r)] /\ UNCHANGED <<device, call, cloud>>
    BY <1>6 DEF WorkerSend
  <2> HIDE DEF x, r
  <2>2. Fits(WorkerRaised(x, r))
    BY <1>1, <1>2, RaisedFits
  <2> QED
    BY <1>3, <1>4, <2>1, <2>2, FitsOne, Unchanged, NextTypes
<1> QED
  BY <1>5, <1>6

\* A worker that resumes has its request and the response.
LEMMA AnsweredFacts ==
    ASSUME TInv, NEW s \in Sessions, NEW where \in {"exchange", "readback"},
           Answered(s, where)
    PROVE  /\ Fits(sess[s])
           /\ sess[s].active \in Request
           /\ sess[s].current.reply \in Reply
<1>1. Fits(sess[s])
  BY TInvFits
<1>2. sess[s].active \in Maybe(Request) /\ sess[s].active # None
  BY <1>1 DEF Fits, SessionType, Answered
<1>3. sess[s].current \in Exchange
  BY <1>1, MaybeFacts DEF Fits, SessionType, Answered
<1>4. sess[s].current.reply \in Reply
  BY <1>3, MaybeFacts DEF Exchange, Answered
<1> QED
  BY <1>1, <1>2, <1>4, MaybeFacts

LEMMA ResumeForwardT == ASSUME TInv, NEW s \in Sessions, ResumeForward(s) PROVE TInv'
<1> DEFINE reply == sess[s].current.reply
           r == sess[s].active
           x == Sampled(sess[s], reply)
           y == [x EXCEPT !.worker = "forward", !.response = reply, !.current = None]
<1>1. Fits(sess[s]) /\ r \in Request /\ reply \in Reply
  BY AnsweredFacts DEF ResumeForward
<1>2. r.from \in Clouds /\ r.n \in 0..MaxFrames
  BY <1>1 DEF ResumeForward, Attached, Request
<1>3. /\ state' = Observed(reply)
      /\ cloud' = [cloud EXCEPT ![r.from].answered = Append(@, r.n)]
      /\ sess' = [sess EXCEPT ![s] = y]
      /\ UNCHANGED <<phase, session, dropped, future, call, device>>
  BY DEF ResumeForward
<1>4. state' \in StateType
  BY <1>1, <1>3, ObservedType DEF TInv
<1>5. cloud' \in [Clouds -> CloudType]
  <2> DEFINE q == Append(cloud[r.from].answered, r.n)
  <2>1. q \in Seq(0..MaxFrames)
    BY <1>2, Unchanged DEF CloudType
  <2>2. cloud' = [cloud EXCEPT ![r.from] = [cloud[r.from] EXCEPT !.answered = q]]
    BY <1>3
  <2> HIDE DEF q, r
  <2>3. [cloud[r.from] EXCEPT !.answered = q] \in CloudType
    BY <1>2, <2>1, Unchanged, ZenonT(60) DEF CloudType
  <2> QED
    BY <1>2, <2>2, <2>3, CloudOne
<1>6. Fits(y)
  <2>1. Fits(x) /\ x.active # None /\ reply \in Maybe(Reply)
    BY <1>1, SampledFits, MaybeFacts
  <2> HIDE DEF x, reply
  <2> QED
    BY <2>1, MaybeFacts DEF Fits, SessionType
<1> HIDE DEF y, r, reply
<1> QED
  BY <1>3, <1>4, <1>5, <1>6, FitsOne, Unchanged, NextTypes

LEMMA ResumeT == ASSUME TInv, NEW s \in Sessions, Resume(s) PROVE TInv'
<1> DEFINE reply == sess[s].current.reply
           x == Sampled(sess[s], reply)
<1>1. Fits(sess[s]) /\ sess[s].active \in Request /\ reply \in Reply
  BY AnsweredFacts DEF Resume
<1>2. Fits(x) /\ x.active \in Request /\ reply \in Maybe(Reply)
  BY <1>1, SampledFits, MaybeFacts
<1>3. /\ state' = Observed(reply) /\ AfterResponse(s, x, reply)
      /\ UNCHANGED <<phase, session, dropped, cloud>>
  BY DEF Resume
<1> HIDE DEF reply, x
<1>4. state' \in StateType
  BY <1>1, <1>3, ObservedType DEF TInv
<1> QED
  BY <1>2, <1>3, <1>4, AfterResponseType, Unchanged, NextTypes

LEMMA ForwardDoneT ==
    ASSUME TInv, NEW s \in Sessions, NEW ok \in BOOLEAN, ForwardDone(s, ok) PROVE TInv'
<1>1. Fits(sess[s]) /\ sess[s].active # None
  BY TInvFits DEF Fits, ForwardDone
<1>2. sess[s].active \in Request /\ sess[s].response \in Maybe(Reply)
  BY <1>1, MaybeFacts DEF Fits, SessionType
<1>3. cloud' \in [Clouds -> CloudType]
  <2>1. CASE sess[s].active.from \in Clouds
    BY <2>1, ClosedType, MaybeFacts, Unchanged DEF ForwardDone, TInv
  <2>2. CASE sess[s].active.from \notin Clouds
    <3>1. Closed(sess[s].active.from) \in [Clouds -> CloudType]
      BY <1>2, <2>2, Unchanged DEF Closed
    <3> QED
      BY <3>1, Unchanged DEF ForwardDone
  <2> QED
    BY <2>1, <2>2
<1>4. AfterResponse(s, sess[s], sess[s].response) /\ UNCHANGED proxy
  BY DEF ForwardDone
<1> QED
  BY <1>1, <1>2, <1>3, <1>4, AfterResponseType, Unchanged, NextTypes DEF proxy

LEMMA ResumeReadbackT == ASSUME TInv, NEW s \in Sessions, ResumeReadback(s) PROVE TInv'
<1> DEFINE reply == sess[s].current.reply
           x == Sampled(sess[s], reply)
<1>1. Fits(sess[s]) /\ reply \in Reply
  BY AnsweredFacts DEF ResumeReadback
<1>2. Fits(x) /\ reply \in Maybe(Reply)
  BY <1>1, SampledFits, MaybeFacts
<1>3. /\ state' = Observed(reply) /\ Complete(s, x, reply)
      /\ UNCHANGED <<phase, session, dropped, cloud, device>>
  BY DEF ResumeReadback
<1> HIDE DEF reply, x
<1>4. state' \in StateType
  BY <1>1, <1>3, ObservedType DEF TInv
<1> QED
  BY <1>2, <1>3, <1>4, CompleteType, Unchanged, NextTypes

LEMMA WorkerEndsT ==
    ASSUME TInv, NEW s \in Sessions, ResumeStale(s) \/ ExchangeTimeout(s) PROVE TInv'
<1>1. Fits(WorkerRaised(sess[s], sess[s].active))
  BY TInvFits, RaisedFits DEF Fits, SessionType
<1>2. /\ sess' = [sess EXCEPT ![s] = WorkerRaised(sess[s], sess[s].active)]
      /\ UNCHANGED <<proxy, future, call, cloud, device>>
  BY DEF ResumeStale, ExchangeTimeout, TimedOut
<1> QED
  BY <1>1, <1>2, FitsOne, Unchanged, NextTypes DEF proxy

LEMMA ReaderFrameT == ASSUME TInv, NEW s \in Sessions, ReaderFrame(s) PROVE TInv'
<1> DEFINE reply == Head(device.outbox)
           x == sess[s]
           e == [op |-> x.current.op, reply |-> reply]
           m == x.current # None /\ x.current.reply = None /\ reply.op = x.current.op
           y == IF m THEN [x EXCEPT !.current = e]
                ELSE [x EXCEPT !.reader = "done", !.failed = TRUE]
<1>1. Fits(x) /\ device.outbox \in Seq(Reply) /\ device.outbox # <<>>
  BY TInvFits, Unchanged DEF ReaderFrame, DeviceType
<1>2. reply \in Reply /\ Tail(device.outbox) \in Seq(Reply)
  BY <1>1, HeadTail
<1>3. m => e \in Maybe(Exchange)
  <2>1. SUFFICES ASSUME m PROVE e \in Exchange
    BY MaybeFacts
  <2>2. x.current \in Exchange
    BY <1>1, <2>1, MaybeFacts DEF Fits, SessionType
  <2> QED
    BY <1>2, <2>2, MaybeFacts DEF Exchange
<1>4. Fits(y)
  <2>1. ASSUME m PROVE Fits([x EXCEPT !.current = e])
    <3> HIDE DEF e, m, x
    <3> QED BY <1>1, <1>3, <2>1 DEF Fits, SessionType
  <2>2. Fits([x EXCEPT !.reader = "done", !.failed = TRUE])
    BY <1>1 DEF Fits, SessionType
  <2> HIDE DEF e, m, x
  <2> QED
    BY <2>1, <2>2
<1>5. /\ sess' = [sess EXCEPT ![s] = y]
      /\ device' = [device EXCEPT !.outbox = Tail(@)]
      /\ UNCHANGED <<proxy, future, call, cloud>>
  BY DEF ReaderFrame
<1>6. device' \in DeviceType
  BY <1>2, <1>5, Unchanged DEF DeviceType
<1> HIDE DEF y
<1> QED
  BY <1>4, <1>5, <1>6, FitsOne, Unchanged, NextTypes DEF proxy

LEMMA ReaderLostT == ASSUME TInv, NEW s \in Sessions, ReaderLost(s) PROVE TInv'
<1>0. Fits(sess[s])
  BY TInvFits
<1>1. Fits([sess[s] EXCEPT !.reader = "done", !.failed = TRUE])
  BY <1>0 DEF Fits, SessionType
<1>2. /\ sess' = [sess EXCEPT ![s] = [sess[s] EXCEPT !.reader = "done", !.failed = TRUE]]
      /\ UNCHANGED <<proxy, future, call, cloud, device>>
  BY DEF ReaderLost
<1> QED
  BY <1>1, <1>2, FitsOne, Unchanged, NextTypes DEF proxy

LEMMA VendorConnectT ==
    ASSUME TInv, NEW s \in Sessions, NEW k \in Clouds, VendorConnect(s, k) PROVE TInv'
<1> DEFINE y == [sess[s] EXCEPT !.vendor = "serve", !.cloud = k]
           c == [cloud[k] EXCEPT !.used = TRUE, !.alive = TRUE]
<1>1. Fits(sess[s]) /\ k \in Maybe(Clouds)
  BY TInvFits, MaybeFacts
<1>2. Fits(y)
  BY <1>1 DEF Fits, SessionType
<1>0. cloud[k] \in CloudType
  BY Unchanged
<1>3. c \in CloudType
  BY <1>0 DEF CloudType
<1>4. /\ sess' = [sess EXCEPT ![s] = y] /\ cloud' = [cloud EXCEPT ![k] = c]
      /\ state' = [state EXCEPT !.cloud = TRUE]
      /\ UNCHANGED <<phase, session, dropped, future, call, device>>
  BY DEF VendorConnect
<1>5. state' \in StateType
  BY <1>4, Unchanged DEF StateType
<1> HIDE DEF y, c
<1> QED
  BY <1>2, <1>3, <1>4, <1>5, CloudOne, FitsOne, Unchanged, NextTypes

LEMMA VendorFrameT ==
    ASSUME TInv, NEW s \in Sessions, NEW k \in Clouds, NEW op \in VendorOps,
           VendorFrame(s, k, op)
    PROVE  TInv'
<1> DEFINE wanted == IsCurrent(s) /\ Attached(s, k)
           r == [op |-> op, from |-> k, n |-> cloud[k].asked + 1]
           b == cloud[k].alive /\ (wanted => HasRoom(s))
           c == [cloud[k] EXCEPT !.asked = @ + 1, !.alive = b]
           y == IF ~wanted THEN sess[s]
                ELSE IF HasRoom(s) THEN Enqueue(sess[s], r)
                ELSE [sess[s] EXCEPT !.vendor = "close"]
<1>1. cloud[k] \in CloudType /\ cloud[k].asked \in Nat /\ cloud[k].asked < MaxFrames
  BY Unchanged DEF VendorFrame, CloudType
<1>2. r \in Request
  BY <1>1 DEF Request, Origins
<1>3. c \in CloudType
  <2> DEFINE n == cloud[k].asked + 1
             answers == Seq(0..MaxFrames)
  <2>1. b \in BOOLEAN /\ n \in 0..MaxFrames
    BY <1>1
  <2>2. cloud[k] \in [used : BOOLEAN, alive : BOOLEAN, asked : 0..MaxFrames,
                      passed : Nat, answered : answers]
    BY <1>1 DEF CloudType
  <2> HIDE DEF b, n, answers
  <2>3. [cloud[k] EXCEPT !.asked = n, !.alive = b] \in [used : BOOLEAN, alive : BOOLEAN,
          asked : 0..MaxFrames, passed : Nat, answered : answers]
    BY <2>1, <2>2
  <2> QED
    BY <2>3 DEF n, answers, CloudType
<1>4. Fits(y)
  <2>1. Fits(sess[s])
    BY TInvFits
  <2>2. Fits([sess[s] EXCEPT !.vendor = "close"])
    BY <2>1 DEF Fits, SessionType
  <2>3. HasRoom(s) => Fits(Enqueue(sess[s], r))
    BY <1>2, <2>1, EnqueueFits DEF HasRoom
  <2> HIDE DEF wanted, r
  <2> QED
    BY <2>1, <2>2, <2>3
<1>5. sess' = [sess EXCEPT ![s] = y]
  BY DEF VendorFrame
<1>6. cloud' = [cloud EXCEPT ![k] = c]
  BY DEF VendorFrame
<1>7. dropped' \in Nat /\ UNCHANGED <<phase, session, state, future, call, device>>
  BY Unchanged DEF VendorFrame
<1> HIDE DEF y, c
<1> QED
  BY <1>3, <1>4, <1>5, <1>6, <1>7, CloudOne, FitsOne, Unchanged, NextTypes

LEMMA VendorLostT == ASSUME TInv, NEW s \in Sessions, VendorLost(s) PROVE TInv'
<1>1. Fits(sess[s])
  BY TInvFits
<1>2. Fits([sess[s] EXCEPT !.vendor = "close"]) /\ sess[s].cloud \in Maybe(Clouds)
  BY <1>1 DEF Fits, SessionType
<1>3. /\ sess' = [sess EXCEPT ![s] = [sess[s] EXCEPT !.vendor = "close"]]
      /\ cloud' = Closed(sess[s].cloud)
      /\ UNCHANGED <<proxy, future, call, device>>
  BY DEF VendorLost
<1>4. cloud' \in [Clouds -> CloudType]
  BY <1>2, <1>3, ClosedType DEF TInv
<1> QED
  BY <1>2, <1>3, <1>4, FitsOne, Unchanged, NextTypes DEF proxy

LEMMA VendorClosedT == ASSUME TInv, NEW s \in Sessions, VendorClosed(s) PROVE TInv'
<1> DEFINE v == IF sess[s].vendor = "close" THEN Loop(s, "connect") ELSE "done"
           y == [sess[s] EXCEPT !.cloud = None, !.vendor = v]
<1>1. Fits(sess[s]) /\ v \in {"connect", "done"}
  BY TInvFits DEF Loop
<1>2. Fits(y)
  <2> HIDE DEF v
  <2> QED BY <1>1, MaybeFacts DEF Fits, SessionType
<1>3. /\ sess' = [sess EXCEPT ![s] = y]
      /\ UNCHANGED <<phase, session, dropped, future, call, cloud, device>>
  BY DEF VendorClosed
<1>4. state' \in StateType
  <2>1. state' = state \/ state' = [state EXCEPT !.cloud = FALSE]
    BY DEF VendorClosed, CloudGone
  <2> QED
    BY <2>1, Unchanged DEF StateType
<1> HIDE DEF y
<1> QED
  BY <1>2, <1>3, <1>4, FitsOne, Unchanged, NextTypes

LEMMA PollSubmitT ==
    ASSUME TInv, NEW s \in Sessions, NEW op \in Reads, PollSubmit(s, op) PROVE TInv'
<1> DEFINE r == [op |-> op, from |-> s, n |-> 0]
           x == [sess[s] EXCEPT !.poller = "wait"]
<1>1. r \in Request
  BY DEF Request, Origins, Callers
<1>2. Fits(sess[s])
  BY TInvFits
<1>3. Fits(x) /\ Len(x.queue) < QueueLimit
  BY <1>2 DEF PollSubmit, HasRoom, Fits, SessionType
<1>4. /\ sess' = [sess EXCEPT ![s] = Enqueue(x, r)]
      /\ UNCHANGED <<proxy, call, cloud, device>>
  BY DEF PollSubmit
<1>5. future' \in FutureType
  BY Unchanged DEF PollSubmit, FutureType
<1> HIDE DEF x, r
<1>6. Fits(Enqueue(x, r))
  BY <1>1, <1>3, EnqueueFits
<1> QED
  BY <1>4, <1>5, <1>6, FitsOne, Unchanged, NextTypes DEF proxy

LEMMA PollResumeT == ASSUME TInv, NEW s \in Sessions, PollResume(s) PROVE TInv'
<1>1. Fits([sess[s] EXCEPT !.poller = "sleep"])
  BY TInvFits DEF Fits, SessionType
<1>2. /\ sess' = [sess EXCEPT ![s] = [sess[s] EXCEPT !.poller = "sleep"]]
      /\ UNCHANGED <<proxy, call, cloud, device>>
  BY DEF PollResume
<1>3. future' \in FutureType
  BY Unchanged DEF PollResume, FutureType
<1> QED
  BY <1>1, <1>2, <1>3, FitsOne, Unchanged, NextTypes DEF proxy

LEMMA CallSubmitT ==
    ASSUME TInv, NEW c \in Calls, NEW op \in CallOps, CallSubmit(c, op) PROVE TInv'
<1> DEFINE r == [op |-> op, from |-> c, n |-> 0]
           z == [call[c] EXCEPT !.op = op, !.home = session, !.outcome = "waiting"]
<1>1. session \in Sessions /\ op \in Maybe(Ops) /\ r \in Request
  BY Unchanged, MaybeFacts DEF CallSubmit, Request, Origins, Callers
<1>2. Fits(Enqueue(sess[session], r))
  BY <1>1, TInvFits, EnqueueFits DEF CallSubmit, HasRoom
<1>3. z \in CallType
  BY <1>1, Unchanged, ZenonT(60) DEF CallType
<1>4. /\ sess' = [sess EXCEPT ![session] = Enqueue(sess[session], r)]
      /\ call' = [call EXCEPT ![c] = z]
      /\ UNCHANGED <<proxy, cloud, device>>
  BY DEF CallSubmit
<1>5. future' \in FutureType
  BY Unchanged DEF CallSubmit, FutureType
<1> HIDE DEF r, z
<1> QED
  BY <1>1, <1>2, <1>3, <1>4, <1>5, CallOne, FitsOne, Unchanged, NextTypes DEF proxy

\* The steps of a caller that leave the sessions alone.
LEMMA CallStepT ==
    ASSUME TInv, NEW c \in Calls, NEW o \in {"ok", "unconfirmed", "unavailable", "full", "cancelled"},
           \/ \E op \in CallOps : call' = [call EXCEPT ![c].op = op, ![c].outcome = o]
           \/ call' = [call EXCEPT ![c].outcome = o],
           future' \in FutureType, UNCHANGED <<proxy, sess, cloud, device>>
    PROVE  TInv'
<1>0. call[c] \in CallType
  BY Unchanged
<1>1. ASSUME NEW op \in CallOps, call' = [call EXCEPT ![c].op = op, ![c].outcome = o]
      PROVE  call' \in [Calls -> CallType]
  <2>1. op \in Maybe(Ops)
    BY MaybeFacts
  <2>2. [call[c] EXCEPT !.op = op, !.outcome = o] \in CallType
    BY <1>0, <2>1 DEF CallType
  <2>3. call' = [call EXCEPT ![c] = [call[c] EXCEPT !.op = op, !.outcome = o]]
    BY <1>1
  <2> QED
    BY <2>2, <2>3, CallOne
<1>2. ASSUME call' = [call EXCEPT ![c].outcome = o]
      PROVE  call' \in [Calls -> CallType]
  <2>1. [call[c] EXCEPT !.outcome = o] \in CallType
    BY <1>0 DEF CallType
  <2>2. call' = [call EXCEPT ![c] = [call[c] EXCEPT !.outcome = o]]
    BY <1>2
  <2> QED
    BY <2>1, <2>2, CallOne
<1>3. Busy'
  BY DEF TInv, Busy
<1> QED
  BY <1>1, <1>2, <1>3, Unchanged, NextTypes DEF proxy

LEMMA CallRefusedT ==
    ASSUME TInv, NEW c \in Calls, NEW op \in CallOps, CallRefused(c, op) PROVE TInv'
<1>1. PICK o \in {"full", "unavailable"} :
         call' = [call EXCEPT ![c].op = op, ![c].outcome = o]
  BY DEF CallRefused
<1>2. future' \in FutureType /\ UNCHANGED <<proxy, sess, cloud, device>>
  BY Unchanged DEF CallRefused
<1> QED
  BY <1>1, <1>2, CallStepT

LEMMA CallReturnT == ASSUME TInv, NEW c \in Calls, CallReturn(c) PROVE TInv'
<1>1. PICK o \in {"ok", "unavailable", "unconfirmed"} :
         call' = [call EXCEPT ![c].outcome = o]
  BY DEF CallReturn
<1>2. future' \in FutureType /\ UNCHANGED <<proxy, sess, cloud, device>>
  BY Unchanged DEF CallReturn
<1> QED
  BY <1>1, <1>2, CallStepT

LEMMA CallCancelT == ASSUME TInv, NEW c \in Calls, CallCancel(c) PROVE TInv'
<1>1. call' = [call EXCEPT ![c].outcome = "cancelled"]
  BY DEF CallCancel
<1>2. future' \in FutureType /\ UNCHANGED <<proxy, sess, cloud, device>>
  BY Unchanged DEF CallCancel, FutureType
<1> QED
  BY <1>1, <1>2, CallStepT

LEMMA StopBeginT == ASSUME TInv, StopBegin PROVE TInv'
<1> DEFINE f == [s \in Sessions |-> Cancelled(s)]
<1>1. ASSUME NEW s \in Sessions PROVE Fits(Cancelled(s))
  <2> DEFINE b == sess[s].cancelled \/ Unfinished(s)
  <2>1. b \in BOOLEAN
    OBVIOUS
  <2>2. Cancelled(s) = [sess[s] EXCEPT !.cancelled = b]
    BY DEF Cancelled
  <2> HIDE DEF b
  <2> QED
    BY <2>1, <2>2, TInvFits DEF Fits, SessionType
<1>2. sess' = [s \in Sessions |-> f[s]] /\ \A s \in Sessions : Fits(f[s])
  BY <1>1 DEF StopBegin
<1>3. /\ phase' \in {"up", "stopping", "stopped"} /\ device' \in DeviceType
      /\ UNCHANGED <<session, state, dropped, future, call, cloud>>
  BY DeviceMoved, MaybeFacts DEF StopBegin
<1> HIDE DEF f
<1> QED
  BY <1>2, <1>3, FitsAll, Unchanged, NextTypes

LEMMA StopEndT == ASSUME TInv, StopEnd PROVE TInv'
<1>1. state' \in StateType /\ session' \in Maybe(Sessions)
  BY MaybeFacts DEF StopEnd, StateType, Cleared
<1>2. /\ phase' \in {"up", "stopping", "stopped"}
      /\ UNCHANGED <<dropped, sess, future, call, cloud, device>>
  BY DEF StopEnd
<1>3. Busy'
  BY <1>2 DEF TInv, Busy
<1> QED
  BY <1>1, <1>2, <1>3, Unchanged, NextTypes

LEMMA DeviceT == ASSUME TInv, Device PROVE TInv'
<1>1. UNCHANGED <<proxy, sess, future, call, cloud>>
  BY DEF Device, DeviceDrop, DeviceReply
<1>2. ASSUME DeviceDrop PROVE device' \in DeviceType
  BY <1>2, DeviceMoved, MaybeFacts DEF DeviceDrop
<1>3. ASSUME NEW obeys \in BOOLEAN, NEW known \in BOOLEAN, NEW bad \in BOOLEAN,
             DeviceReply(obeys, known, bad)
      PROVE  device' \in DeviceType
  <2> DEFINE r == Head(device.inbox)
             position == IF r.op \in Valves /\ obeys THEN r.op ELSE device.valve
             last == IF r.op \in Valves THEN r.from ELSE device.obeyed
             report == IF r.op \in Reads /\ known THEN position ELSE None
             m == [op |-> r.op, bad |-> bad, after |-> last, report |-> report]
             out == Append(device.outbox, m)
  <2>1. /\ device.inbox \in Seq(Request) /\ device.outbox \in Seq(Reply)
        /\ device.valve \in Valves /\ device.obeyed \in Maybe(Origins)
        /\ device.inbox # <<>>
    BY <1>3, Unchanged DEF DeviceType, DeviceReply
  <2>2. r \in Request /\ Tail(device.inbox) \in Seq(Request)
    BY <2>1, HeadTail
  <2>3. position \in Valves /\ last \in Maybe(Origins)
    BY <2>1, <2>2, MaybeFacts DEF Request
  <2>4. report \in Maybe(Valves)
    BY <2>3, MaybeFacts
  <2>5. m \in Reply
    BY <2>2, <2>3, <2>4 DEF Reply, Request
  <2>6. out \in Seq(Reply)
    BY <2>1, <2>5
  <2>7. device' = [device EXCEPT !.inbox = Tail(@), !.valve = position,
                                 !.obeyed = last, !.outbox = out]
    BY <1>3 DEF DeviceReply
  <2> HIDE DEF position, last, out
  <2> QED
    BY <2>2, <2>3, <2>6, <2>7, Unchanged DEF DeviceType
<1>4. device' \in DeviceType
  BY <1>2, <1>3 DEF Device
<1>5. Busy'
  BY <1>1 DEF TInv, Busy
<1> QED
  BY <1>1, <1>4, <1>5, Unchanged, NextTypes DEF proxy

LEMMA StutterT == ASSUME TInv, UNCHANGED vars PROVE TInv'
<1>1. UNCHANGED <<phase, session, state, dropped, sess, future, call, cloud, device>>
  BY DEF vars, proxy
<1>2. Busy'
  BY <1>1 DEF TInv, Busy
<1> QED
  BY <1>1, <1>2, Unchanged, NextTypes

LEMMA NextTInv == TInv /\ [Next]_vars => TInv'
<1> SUFFICES ASSUME TInv, [Next]_vars PROVE TInv'
  OBVIOUS
<1>1. ASSUME NEW s \in Sessions, Accept(s) \/ Run(s) PROVE TInv'
  BY <1>1, AcceptT, RunStartT, AbortT, RunCleanupT, RunDoneT DEF Run
<1>2. ASSUME NEW s \in Sessions, Worker(s) PROVE TInv'
  BY <1>2, WorkerDiscardT, WorkerSendT, ResumeForwardT, ResumeT, ResumeReadbackT,
     WorkerEndsT, ForwardDoneT DEF Worker
<1>3. ASSUME NEW s \in Sessions, ReaderFrame(s) \/ ReaderLost(s) PROVE TInv'
  BY <1>3, ReaderFrameT, ReaderLostT
<1>4. ASSUME NEW s \in Sessions, Vendor(s) \/ Poller(s) PROVE TInv'
  BY <1>4, VendorLostT, VendorClosedT, VendorConnectT, VendorFrameT, PollResumeT,
     PollSubmitT DEF Vendor, Poller
<1>5. ASSUME NEW c \in Calls, Caller(c) PROVE TInv'
  BY <1>5, CallReturnT, CallCancelT, CallSubmitT, CallRefusedT DEF Caller
<1>6. ASSUME Terminating \/ UNCHANGED vars PROVE TInv'
  BY <1>6, StutterT DEF Terminating
<1> QED
  BY <1>1, <1>2, <1>3, <1>4, <1>5, <1>6, StopBeginT, StopEndT, DeviceT DEF Next

\* The state always has its type and no queue exceeds the configured limit:
\* overload is refused (_submit) or costs the vendor connection
\* (_enqueue_cloud), it never grows the queue.
THEOREM TypeCorrect == Spec => []TypeOK
<1>1. TInv => TypeOK
  BY DEF TInv
<1> QED
  BY <1>1, InitTInv, NextTInv, PTL DEF Spec

-----------------------------------------------------------------------------
(* Calls are routed to the live session, and a caller that waits is held by *)
(* a session that still has its cleanup to do.                              *)

Queued(q) == {q[i] : i \in DOMAIN q}

\* The requests a Session object holds, and whether it holds one of caller c.
HeldIn(x)   == Queued(x.queue) \cup ({x.active} \ {None})
Waits(x, c) == \E r \in HeldIn(x) : r.from = c

\* A session task whose cleanup is not done, and is to come unless lost.
Open == {"created", "running", "lost"}

\* A worker that fetches a request has none left over and starts with its
\* session, a session that is alive has its cleanup still to come (or lost
\* it), and a waiter has a session.
Placed ==
    /\ \A s \in Sessions :
          /\ sess[s].worker \in {"idle", "get"} => sess[s].active = None
          /\ sess[s].task = "created" => sess[s].worker = "idle"
          /\ sess[s].alive => sess[s].task \in Open
    /\ \A c \in Calls : future[c] = "pending" => call[c].home \in Sessions

WInv == LiveSessionRouted /\ WaiterHeld /\ Placed

USE ConstantsAssumption, NamesAssumption
USE DEF Valves, Reads, Ops

-----------------------------------------------------------------------------
(* Lemmas.                                                                 *)

LEMMA QueueFacts ==
    ASSUME NEW S, NEW q \in Seq(S)
    PROVE  /\ \A r : Queued(Append(q, r)) = Queued(q) \cup {r}
           /\ q # <<>> => Queued(q) = {Head(q)} \cup Queued(Tail(q))
<1>1. DOMAIN q = 1..Len(q) /\ Len(q) \in Nat
  OBVIOUS
<1>2. ASSUME NEW r PROVE Queued(Append(q, r)) = Queued(q) \cup {r}
  <2>1. DOMAIN Append(q, r) = 1..(Len(q) + 1)
    BY <1>1
  <2>2. \A i \in 1..Len(q) : Append(q, r)[i] = q[i]
    OBVIOUS
  <2>3. Append(q, r)[Len(q) + 1] = r
    OBVIOUS
  <2>4. \A i : i \in 1..(Len(q) + 1) <=> i \in 1..Len(q) \/ i = Len(q) + 1
    BY <1>1
  <2> QED
    BY <1>1, <2>1, <2>2, <2>3, <2>4 DEF Queued
<1>3. ASSUME q # <<>> PROVE Queued(q) = {Head(q)} \cup Queued(Tail(q))
  <2>1. /\ Len(q) >= 1 /\ Head(q) = q[1] /\ DOMAIN Tail(q) = 1..(Len(q) - 1)
        /\ \A i \in 1..(Len(q) - 1) : Tail(q)[i] = q[i + 1]
    BY <1>3
  <2>2. ASSUME NEW i \in 1..Len(q), i # 1
        PROVE  i - 1 \in 1..(Len(q) - 1) /\ Tail(q)[i - 1] = q[i]
    <3>1. i - 1 \in 1..(Len(q) - 1) /\ (i - 1) + 1 = i
      BY <1>1, <2>2
    <3> QED
      BY <2>1, <3>1
  <2>3. Queued(q) \subseteq {Head(q)} \cup Queued(Tail(q))
    <3> SUFFICES ASSUME NEW r \in Queued(q) PROVE r \in {Head(q)} \cup Queued(Tail(q))
      OBVIOUS
    <3>1. PICK i \in 1..Len(q) : r = q[i]
      BY <1>1 DEF Queued
    <3>2. CASE i = 1
      BY <2>1, <3>1, <3>2
    <3>3. CASE i # 1
      BY <2>1, <2>2, <3>1, <3>3, ZenonT(60) DEF Queued
    <3> QED
      BY <3>2, <3>3
  <2>4. {Head(q)} \cup Queued(Tail(q)) \subseteq Queued(q)
    BY <1>1, <2>1 DEF Queued
  <2> QED
    BY <2>3, <2>4
<1> QED
  BY <1>2, <1>3

LEMMA HeldWaits == \A s : Held(s) = HeldIn(sess[s])
  BY DEF Held, HeldIn, Queued

\* A step of session s, which becomes x, that does not revive it ...
Steady(s, x) ==
    /\ x.alive => sess[s].alive
    /\ sess[s].task \in Open => x.task \in Open
    /\ x.task \in {"created", "running"} => sess[s].task \in {"created", "running"}
    /\ x.worker \in {"idle", "get"} => x.active = None
    /\ x.task = "created" => x.worker = "idle"

\* ... and a step that starts no wait and one that forgets no waiter.
NoNewWait ==
    \A c \in Calls : /\ call'[c].home = call[c].home
                     /\ future'[c] = "pending" => future[c] = "pending"
Keeps(s, x) ==
    \A c \in Calls : future'[c] = "pending" /\ Waits(sess[s], c) => Waits(x, c)

LEMMA AllSessions ==
    ASSUME WInv, NoNewWait, LiveSessionRouted',
           \A s \in Sessions : Steady(s, sess'[s]) /\ Keeps(s, sess'[s])
    PROVE  WInv'
<1>1. Placed'
  BY DEF WInv, Placed, Steady, NoNewWait
<1>2. WaiterHeld'
  <2> SUFFICES ASSUME NEW c \in Calls, future'[c] = "pending"
               PROVE  /\ \E r \in Held(call[c].home)' : r.from = c
                      /\ sess'[call'[c].home].task \in {"created", "running", "lost"}
    BY DEF WaiterHeld
  <2>1. /\ Waits(sess[call[c].home], c) /\ sess[call[c].home].task \in Open
        /\ call[c].home \in Sessions /\ call'[c].home = call[c].home
    BY HeldWaits DEF WInv, WaiterHeld, Placed, NoNewWait, Waits, Open
  <2>2. Waits(sess'[call[c].home], c)
    BY <2>1 DEF Keeps
  <2>3. sess'[call[c].home].task \in Open
    BY <2>1 DEF Steady
  <2>4. Held(call[c].home)' = HeldIn(sess'[call'[c].home])
    BY DEF Held, HeldIn, Queued
  <2> QED
    BY <2>1, <2>2, <2>3, <2>4 DEF Waits, Open
<1> QED
  BY <1>1, <1>2 DEF WInv

LEMMA OneSession ==
    ASSUME TInv, WInv, NEW s \in Sessions, NEW x, sess' = [sess EXCEPT ![s] = x],
           Steady(s, x), NoNewWait, Keeps(s, x), UNCHANGED <<phase, session>>
    PROVE  WInv'
<1>1. sess'[s] = x /\ \A t \in Sessions \ {s} : sess'[t] = sess[t]
  BY DEF TInv, TypeOK
<1>2. LiveSessionRouted'
  BY <1>1 DEF WInv, LiveSessionRouted, Steady
<1>3. ASSUME NEW t \in Sessions \ {s} PROVE Steady(t, sess[t]) /\ Keeps(t, sess[t])
  BY DEF WInv, Placed, Steady, Keeps
<1>4. ASSUME NEW t \in Sessions PROVE Steady(t, sess'[t]) /\ Keeps(t, sess'[t])
  <2>1. CASE t = s
    BY <1>1, <2>1
  <2>2. CASE t # s
    BY <1>1, <1>3, <2>2
  <2> QED
    BY <2>1, <2>2
<1> QED
  BY <1>2, <1>4, AllSessions

LEMMA NoSession ==
    ASSUME WInv, NoNewWait, UNCHANGED <<phase, session, sess>>
    PROVE  WInv'
<1>1. LiveSessionRouted'
  BY DEF WInv, LiveSessionRouted
<1>2. \A s \in Sessions : Steady(s, sess'[s]) /\ Keeps(s, sess'[s])
  BY DEF WInv, Placed, Steady, Keeps
<1> QED
  BY <1>1, <1>2, AllSessions

\* What a session holds stays if its queue stays and its active request does
\* or is released: Released keeps a request whose caller waits.
LEMMA KeepsHeld ==
    ASSUME NEW s \in Sessions, NEW x, NoNewWait, x.queue = sess[s].queue,
           x.active \in {sess[s].active, Released(sess[s].active)}
    PROVE  Keeps(s, x)
<1> SUFFICES ASSUME NEW c \in Calls, future'[c] = "pending", Waits(sess[s], c)
             PROVE  Waits(x, c)
  BY DEF Keeps
<1>1. future[c] = "pending" /\ c \notin Clouds
  BY DEF NoNewWait
<1>2. PICK r \in HeldIn(sess[s]) : r.from = c
  BY DEF Waits
<1>3. ~Settled(r)
  BY <1>1, <1>2 DEF Settled
<1>4. r \in HeldIn(x)
  BY <1>3 DEF HeldIn, Released
<1> QED
  BY <1>2, <1>4 DEF Waits

LEMMA SameWait == UNCHANGED <<future, call>> => NoNewWait
  BY DEF NoNewWait

LEMMA KeepsMore ==
    ASSUME NEW s \in Sessions, NEW x, NoNewWait, NEW S, sess[s].queue \in Seq(S),
           NEW r, x.queue = Append(sess[s].queue, r), x.active = sess[s].active
    PROVE  Keeps(s, x)
<1>1. HeldIn(sess[s]) \subseteq HeldIn(x)
  BY QueueFacts DEF HeldIn
<1> QED
  BY <1>1 DEF Keeps, Waits

-----------------------------------------------------------------------------
(* The steps of the session task.                                          *)

LEMMA InitWInv == Init => WInv
<1> SUFFICES ASSUME Init PROVE WInv
  OBVIOUS
<1>1. \A s \in Sessions : sess[s] = NewSession
  BY DEF Init
<1>2. \A c \in Calls : future[c] = "none"
  BY DEF Init, Callers
<1> QED
  BY <1>1, <1>2 DEF WInv, LiveSessionRouted, WaiterHeld, Placed, NewSession

LEMMA AcceptW == ASSUME TInv, WInv, NEW s \in Sessions, Accept(s) PROVE WInv'
<1> DEFINE old(t) == [sess[t] EXCEPT !.alive = FALSE, !.cancelled = TRUE]
           new == [NewSession EXCEPT !.task = "created", !.alive = TRUE]
<1>1. /\ phase' = phase /\ session' = s /\ sess[s].task = "none"
      /\ UNCHANGED <<future, call>>
  BY DEF Accept
<1>2. sess' = [t \in Sessions |-> IF t = s THEN new ELSE IF t = session THEN old(t) ELSE sess[t]]
  BY DEF Accept
<1>3. new.task = "created" /\ new.worker = "idle" /\ new.active = None
  <2>1. [NewSession EXCEPT !.task = "created"].active = None
    BY DEF NewSession
  <2> QED
    BY DEF NewSession
<1>4. ASSUME NEW t \in Sessions
      PROVE  /\ old(t).task = sess[t].task /\ old(t).worker = sess[t].worker
             /\ old(t).active = sess[t].active /\ old(t).queue = sess[t].queue
             /\ ~old(t).alive
  BY TInvFits DEF Fits, SessionType
<1> HIDE DEF old, new
<1>5. LiveSessionRouted'
  <2> SUFFICES ASSUME NEW t \in Sessions, phase = "up", sess'[t].alive,
                      sess'[t].task \in {"created", "running"}, t # s
               PROVE  FALSE
    BY <1>1 DEF LiveSessionRouted
  <2>1. t # session /\ sess'[t] = sess[t]
    BY <1>2, <1>4
  <2> QED
    BY <2>1 DEF WInv, LiveSessionRouted
<1>6. Placed'
  BY <1>1, <1>2, <1>3, <1>4 DEF WInv, Placed, Open
<1>7. WaiterHeld'
  <2> SUFFICES ASSUME NEW c \in Calls, future[c] = "pending"
               PROVE  /\ \E r \in Held(call[c].home)' : r.from = c
                      /\ sess'[call[c].home].task \in {"created", "running", "lost"}
    BY <1>1 DEF WaiterHeld
  <2> DEFINE h == call[c].home
  <2>1. /\ h \in Sessions /\ sess[h].task \in {"created", "running", "lost"}
        /\ \E r \in Held(h) : r.from = c
    BY DEF WInv, WaiterHeld, Placed
  <2>2. sess'[h] = sess[h] \/ sess'[h] = old(h)
    BY <1>1, <1>2, <2>1
  <2>3. sess'[h].task = sess[h].task /\ HeldIn(sess'[h]) = HeldIn(sess[h])
    BY <1>4, <2>1, <2>2 DEF HeldIn
  <2>4. Held(h)' = HeldIn(sess'[h])
    BY <1>1 DEF Held, HeldIn, Queued
  <2> QED
    BY <2>1, <2>3, <2>4, HeldWaits
<1> QED
  BY <1>5, <1>6, <1>7 DEF WInv

LEMMA RunStartW == ASSUME TInv, WInv, NEW s \in Sessions, RunStart(s) PROVE WInv'
<1> DEFINE x == IF sess[s].cancelled THEN [sess[s] EXCEPT !.task = "lost"]
                ELSE [sess[s] EXCEPT !.task = "running", !.worker = "get",
                        !.reader = "read", !.vendor = "connect", !.poller = "sleep"]
<1>1. /\ sess' = [sess EXCEPT ![s] = x] /\ sess[s].task = "created"
      /\ UNCHANGED <<phase, session, future, call>>
  BY DEF RunStart, proxy
<1>2. sess[s].active = None
  BY <1>1 DEF WInv, Placed
<1>3. /\ x.queue = sess[s].queue /\ x.active = sess[s].active /\ x.alive = sess[s].alive
      /\ x.task \in {"running", "lost"}
  BY TInvFits DEF Fits, SessionType
<1>4. NoNewWait
  BY <1>1, SameWait
<1> HIDE DEF x
<1>5. Steady(s, x) /\ Keeps(s, x)
  BY <1>1, <1>2, <1>3, <1>4, KeepsHeld DEF Steady, Open
<1> QED
  BY <1>1, <1>4, <1>5, OneSession

\* x is session s but for parts that no property of this module looks at, its
\* worker and its active request.
Like(s, x) ==
    x.queue = sess[s].queue /\ x.alive = sess[s].alive /\ x.task = sess[s].task

\* A session whose worker goes on with its request, or ends and releases it.
LEMMA GoesOn ==
    ASSUME TInv, WInv, NEW s \in Sessions, NEW x, sess' = [sess EXCEPT ![s] = x],
           NoNewWait, UNCHANGED <<phase, session>>, Like(s, x),
           \/ x.worker = sess[s].worker /\ x.active = sess[s].active
           \/ /\ sess[s].task # "created" /\ x.worker \notin {"idle", "get"}
              /\ x.active \in {sess[s].active, Released(sess[s].active)}
    PROVE  WInv'
<1>1. x.active \in {sess[s].active, Released(sess[s].active)}
  OBVIOUS
<1>2. Keeps(s, x)
  BY <1>1, KeepsHeld DEF Like
<1>3. Steady(s, x)
  BY DEF Steady, Like, WInv, Placed
<1> QED
  BY <1>2, <1>3, OneSession

LEMMA AbortW == ASSUME TInv, WInv, NEW s \in Sessions, Abort(s) PROVE WInv'
<1> DEFINE v == IF sess[s].vendor \in {"serve", "unwind"} THEN "unwind" ELSE "done"
           a == Released(sess[s].active)
           x == [sess[s] EXCEPT !.reader = "done", !.poller = "done", !.worker = "done",
                   !.vendor = v, !.current = None, !.response = None, !.active = a]
<1>1. sess' = [sess EXCEPT ![s] = x] /\ sess[s].task = "running"
  BY DEF Abort
<1>2. NoNewWait /\ UNCHANGED <<phase, session>>
  BY DEF Abort, proxy, NoNewWait
<1>3. sess[s] \in SessionType
  BY TInvFits DEF Fits
<1> HIDE DEF v, a
<1>4. Like(s, x) /\ x.worker = "done" /\ x.active = a
  BY <1>3 DEF Like, SessionType
<1> HIDE DEF x
<1> QED
  BY <1>1, <1>2, <1>4, GoesOn DEF a

LEMMA RunCleanupW == ASSUME TInv, WInv, NEW s \in Sessions, RunCleanup(s) PROVE WInv'
<1> DEFINE x == [sess[s] EXCEPT !.task = "closing", !.alive = FALSE, !.current = None,
                   !.queue = <<>>, !.active = None, !.cloud = None,
                   !.sampled = FALSE, !.failed = FALSE]
<1>1. /\ session' = CleanupSession(s) /\ sess' = [sess EXCEPT ![s] = x]
      /\ sess[s].worker = "done" /\ UNCHANGED <<phase, call>>
  BY DEF RunCleanup, GroupDone
<1>2. sess[s] \in SessionType
  BY TInvFits DEF Fits
<1>3. /\ x.task = "closing" /\ ~x.alive /\ x.worker = sess[s].worker
  BY <1>2 DEF SessionType
<1> HIDE DEF x
<1>4. sess'[s] = x /\ \A t \in Sessions \ {s} : sess'[t] = sess[t]
  BY <1>1 DEF TInv, TypeOK
<1>5. LiveSessionRouted'
  BY <1>1, <1>3, <1>4 DEF WInv, LiveSessionRouted, CleanupSession
<1>6. ASSUME NEW c \in Calls, future'[c] = "pending"
      PROVE  future[c] = "pending" /\ call[c].home \in Sessions \ {s}
  <2>1. future[c] = "pending" /\ ~(\E r \in Held(s) : r.from = c)
    BY <1>6 DEF RunCleanup, Callers
  <2> QED
    BY <2>1 DEF WInv, WaiterHeld, Placed
<1>7. Placed'
  BY <1>1, <1>3, <1>4, <1>6 DEF WInv, Placed
<1>8. WaiterHeld'
  <2> SUFFICES ASSUME NEW c \in Calls, future'[c] = "pending"
               PROVE  /\ \E r \in Held(call[c].home)' : r.from = c
                      /\ sess'[call[c].home].task \in {"created", "running", "lost"}
    BY <1>1 DEF WaiterHeld
  <2>1. sess'[call[c].home] = sess[call[c].home]
    BY <1>4, <1>6
  <2>2. Held(call[c].home)' = HeldIn(sess'[call[c].home])
    BY <1>1 DEF Held, HeldIn, Queued
  <2> QED
    BY <1>6, <2>1, <2>2, HeldWaits DEF WInv, WaiterHeld
<1> QED
  BY <1>5, <1>7, <1>8 DEF WInv

LEMMA RunDoneW == ASSUME TInv, WInv, NEW s \in Sessions, RunDone(s) PROVE WInv'
<1> DEFINE x == [sess[s] EXCEPT !.task = "done"]
<1>1. /\ sess' = [sess EXCEPT ![s] = x] /\ sess[s].task = "closing"
      /\ UNCHANGED <<phase, session, future, call>>
  BY DEF RunDone, proxy
<1>2. /\ x.queue = sess[s].queue /\ x.active = sess[s].active
      /\ x.worker = sess[s].worker /\ x.alive = sess[s].alive /\ x.task = "done"
  BY TInvFits DEF Fits, SessionType
<1> HIDE DEF x
<1>3. NoNewWait
  BY <1>1, SameWait
<1>4. Steady(s, x) /\ Keeps(s, x)
  BY <1>1, <1>2, <1>3, KeepsHeld DEF Steady, WInv, Placed, Open
<1> QED
  BY <1>1, <1>3, <1>4, OneSession

-----------------------------------------------------------------------------
(* The steps of the worker.                                                *)

\* Of what a session holds, taking the head of the queue leaves the rest.
LEMMA TakeWaits ==
    ASSUME TInv, WInv, NEW s \in Sessions, Takes(s), NEW x,
           x.queue = Tail(sess[s].queue), NEW c \in Calls, Waits(sess[s], c)
    PROVE  Waits(x, c) \/ Head(sess[s].queue).from = c
<1>1. sess[s].active = None /\ sess[s].queue # <<>> /\ sess[s].queue \in Seq(Request)
  BY TInvFits DEF WInv, Placed, Takes, Fits, SessionType
<1>2. HeldIn(sess[s]) = {Head(sess[s].queue)} \cup Queued(Tail(sess[s].queue))
  BY <1>1, QueueFacts DEF HeldIn
<1> QED
  BY <1>2 DEF Waits, HeldIn

LEMMA WorkerDiscardW == ASSUME TInv, WInv, NEW s \in Sessions, WorkerDiscard(s) PROVE WInv'
<1> DEFINE w == Loop(s, "get")
           x == [sess[s] EXCEPT !.queue = Tail(@), !.worker = w]
           r == Head(sess[s].queue)
<1>1. /\ sess' = [sess EXCEPT ![s] = x] /\ Takes(s) /\ (Skipped(r) \/ Orphaned(s, r))
      /\ UNCHANGED <<phase, session, future, call>>
  BY DEF WorkerDiscard
<1>2. sess[s] \in SessionType /\ sess[s].active = None /\ sess[s].task # "created"
  BY <1>1, TInvFits DEF Fits, WInv, Placed, Takes
<1> HIDE DEF w
<1>3. /\ x.queue = Tail(sess[s].queue) /\ x.active = None
      /\ x.alive = sess[s].alive /\ x.task = sess[s].task
  BY <1>2 DEF SessionType
<1> HIDE DEF x
<1>4. ASSUME NEW c \in Calls, future[c] = "pending" PROVE r.from # c
  BY <1>1, <1>4 DEF Skipped, Orphaned
<1> HIDE DEF r
<1>5. Keeps(s, x)
  BY <1>1, <1>3, <1>4, TakeWaits DEF Keeps, r
<1>6. Steady(s, x)
  BY <1>2, <1>3 DEF Steady
<1> QED
  BY <1>1, <1>5, <1>6, SameWait, OneSession

LEMMA WorkerSendW == ASSUME TInv, WInv, NEW s \in Sessions, WorkerSend(s) PROVE WInv'
<1> DEFINE r == Head(sess[s].queue)
           e == [op |-> r.op, reply |-> None]
           a == Released(r)
           q == Tail(sess[s].queue)
           x1 == [sess[s] EXCEPT !.queue = q, !.active = r, !.worker = "exchange",
                                 !.current = e]
           x2 == [sess[s] EXCEPT !.queue = q, !.worker = "done", !.failed = TRUE,
                                 !.current = None, !.response = None, !.active = a]
           x == IF IsCurrent(s) THEN x1 ELSE x2
<1>1. Takes(s) /\ UNCHANGED <<phase, session, future>>
  BY DEF WorkerSend
<1>2. sess' = [sess EXCEPT ![s] = x]
  <2>1. CASE IsCurrent(s)
    BY <2>1 DEF WorkerSend
  <2>2. CASE ~IsCurrent(s)
    BY <2>2 DEF WorkerSend, WorkerRaised
  <2> QED
    BY <2>1, <2>2
<1>3. NoNewWait
  <2>1. \/ call' = call
        \/ r.from \in Calls /\ call' = [call EXCEPT ![r.from].writes = @ + 1]
    BY DEF WorkerSend
  <2>2. call \in [Calls -> CallType]
    BY DEF TInv, TypeOK
  <2> HIDE DEF r
  <2>3. ASSUME NEW c \in Calls PROVE call'[c].home = call[c].home
    <3>1. CASE r.from = c /\ call' = [call EXCEPT ![r.from].writes = @ + 1]
      <4>1. call'[c] = [call[c] EXCEPT !.writes = @ + 1]
        BY <2>2, <3>1
      <4> QED
        BY <2>2, <4>1 DEF CallType
    <3>2. CASE r.from # c /\ call' = [call EXCEPT ![r.from].writes = @ + 1]
      BY <2>2, <3>2
    <3> QED
      BY <2>1, <3>1, <3>2
  <2> QED
    BY <1>1, <2>3 DEF NoNewWait
<1>4. sess[s] \in SessionType /\ sess[s].task # "created" /\ r # None
  BY <1>1, TInvFits, TakeFits DEF Fits, WInv, Placed, Takes
<1>5. ASSUME NEW c \in Calls, future[c] = "pending", r.from = c PROVE a = r
  BY <1>5 DEF Released, Settled
<1> HIDE DEF r, e, a, q
<1>6. /\ x.queue = q /\ x.alive = sess[s].alive /\ x.task = sess[s].task
      /\ x.worker \notin {"idle", "get"} /\ x.active \in {r, a}
  BY <1>4 DEF SessionType
<1> HIDE DEF x
<1>7. Steady(s, x)
  BY <1>4, <1>6 DEF Steady
<1>8. Keeps(s, x)
  <2> SUFFICES ASSUME NEW c \in Calls, future[c] = "pending", Waits(sess[s], c)
               PROVE  Waits(x, c)
    BY <1>1 DEF Keeps
  <2>1. Waits(x, c) \/ r.from = c
    BY <1>1, <1>6, TakeWaits DEF r, q
  <2>2. r.from = c => r \in HeldIn(x)
    BY <1>4, <1>5, <1>6 DEF HeldIn
  <2> QED
    BY <2>1, <2>2 DEF Waits
<1> QED
  BY <1>1, <1>2, <1>3, <1>7, <1>8, OneSession

\* The request of a worker that completes it waits no longer.
LEMMA CompleteW ==
    ASSUME TInv, WInv, NEW s \in Sessions, NEW x \in SessionType, NEW reply,
           Complete(s, x, reply), Like(s, x), x.active = sess[s].active,
           sess[s].task # "created", x.active \in Request, UNCHANGED <<phase, session>>
    PROVE  WInv'
<1> DEFINE w == Loop(s, "get")
           y == [x EXCEPT !.worker = w, !.active = None, !.current = None, !.response = None]
           o == x.active.from
<1>1. /\ sess' = [sess EXCEPT ![s] = y]
      /\ future' = IF Settled(x.active) THEN future ELSE [future EXCEPT ![o] = "set"]
  BY DEF Complete
<1>2. NoNewWait
  <2>1. \A c \in Calls : call'[c].home = call[c].home
    <3>1. call' = call \/ (o \in Calls /\ call' = [call EXCEPT ![o].answer = reply])
      BY DEF Complete
    <3>2. call \in [Calls -> CallType]
      BY DEF TInv, TypeOK
    <3> HIDE DEF o
    <3> QED
      BY <3>1, <3>2 DEF CallType
  <2>2. future \in FutureType
    BY DEF TInv, TypeOK, FutureType
  <2>3. \A c \in Calls : future'[c] = "pending" => future[c] = "pending"
    BY <1>1, <2>2 DEF FutureType, Callers
  <2> QED
    BY <2>1, <2>3 DEF NoNewWait
<1>3. ASSUME NEW c \in Calls, future'[c] = "pending" PROVE x.active.from # c
  <2>1. future[c] = "pending" /\ c \in Callers /\ c \notin Clouds
    BY <1>2, <1>3 DEF NoNewWait, Callers
  <2>2. o = c => future'[c] = "set"
    BY <1>1, <2>1 DEF Settled, TInv, TypeOK
  <2> QED
    BY <1>3, <2>2
<1> HIDE DEF w
<1>4. y.queue = sess[s].queue /\ y.active = None /\ Like(s, y)
  BY DEF Like, SessionType
<1> HIDE DEF y, o
<1>5. Keeps(s, y)
  BY <1>3, <1>4 DEF Keeps, Waits, HeldIn
<1>6. Steady(s, y)
  BY <1>4 DEF Steady, Like
<1> QED
  BY <1>1, <1>2, <1>5, <1>6, OneSession

LEMMA AfterResponseW ==
    ASSUME TInv, WInv, NEW s \in Sessions, NEW x \in SessionType, NEW reply,
           AfterResponse(s, x, reply), Like(s, x), x.active = sess[s].active,
           sess[s].task # "created", x.active \in Request, UNCHANGED <<phase, session>>
    PROVE  WInv'
<1>1. CASE x.active.op \notin Valves
  BY <1>1, CompleteW DEF AfterResponse
<1>2. CASE x.active.op \in Valves
  <2> DEFINE a == Released(x.active)
             e == [op |-> "status", reply |-> None]
             y1 == [x EXCEPT !.worker = "done", !.failed = TRUE, !.current = None,
                             !.response = None, !.active = a]
             y2 == [x EXCEPT !.worker = "readback", !.response = None, !.current = e]
             y == IF reply.bad \/ ~IsCurrent(s) THEN y1 ELSE y2
  <2>1. sess' = [sess EXCEPT ![s] = y] /\ UNCHANGED <<future, call>>
    BY <1>2 DEF AfterResponse, WorkerRaised
  <2>2. y.active \in {x.active, a} /\ y.worker \notin {"idle", "get"} /\ Like(s, y)
    <3> HIDE DEF a, e
    <3> QED BY DEF Like, SessionType
  <2> HIDE DEF y
  <2> QED
    BY <2>1, <2>2, GoesOn, SameWait
<1> QED
  BY <1>1, <1>2

\* A worker at work has its request, and its session has started.
LEMMA WorkingFacts ==
    ASSUME TInv, WInv, NEW s \in Sessions,
           sess[s].worker \in {"exchange", "forward", "readback"}
    PROVE  /\ sess[s] \in SessionType /\ sess[s].active \in Request
           /\ sess[s].task # "created"
<1>1. Fits(sess[s])
  BY TInvFits
<1>2. sess[s].active \in Request
  BY <1>1, MaybeFacts DEF Fits, SessionType
<1> QED
  BY <1>1, <1>2 DEF Fits, WInv, Placed

LEMMA SampledLike ==
    ASSUME TInv, NEW s \in Sessions, NEW reply
    PROVE  LET x == Sampled(sess[s], reply) IN
           x \in SessionType /\ Like(s, x) /\ x.active = sess[s].active
<1> DEFINE b == sess[s].sampled \/ reply.op = "snapshot"
           x == [sess[s] EXCEPT !.sampled = b]
<1>1. sess[s] \in SessionType /\ b \in BOOLEAN
  BY TInvFits DEF Fits
<1>2. Sampled(sess[s], reply) = x
  BY DEF Sampled
<1> HIDE DEF b
<1>3. x \in SessionType /\ Like(s, x) /\ x.active = sess[s].active
  BY <1>1 DEF SessionType, Like
<1> QED
  BY <1>2, <1>3

LEMMA ResumeForwardW == ASSUME TInv, WInv, NEW s \in Sessions, ResumeForward(s) PROVE WInv'
<1> DEFINE reply == sess[s].current.reply
           x == Sampled(sess[s], reply)
           y == [x EXCEPT !.worker = "forward", !.response = reply, !.current = None]
<1>1. /\ sess' = [sess EXCEPT ![s] = y]
      /\ UNCHANGED <<phase, session, future, call>>
  BY DEF ResumeForward
<1>2. sess[s].task # "created"
  BY WorkingFacts DEF ResumeForward, Answered
<1>3. x \in SessionType /\ Like(s, x) /\ x.active = sess[s].active
  BY SampledLike
<1> HIDE DEF x, reply
<1>4. Like(s, y) /\ y.active = sess[s].active /\ y.worker = "forward"
  BY <1>3 DEF Like, SessionType
<1> HIDE DEF y
<1> QED
  BY <1>1, <1>2, <1>4, GoesOn, SameWait

LEMMA WorkerResumesW ==
    ASSUME TInv, WInv, NEW s \in Sessions,
           \/ Resume(s) \/ ResumeReadback(s)
           \/ \E ok \in BOOLEAN : ForwardDone(s, ok)
    PROVE  WInv'
<1> DEFINE reply == sess[s].current.reply
           x == Sampled(sess[s], reply)
<1>1. x \in SessionType /\ Like(s, x) /\ x.active = sess[s].active
  BY SampledLike
<1>2. /\ sess[s] \in SessionType /\ sess[s].active \in Request
      /\ sess[s].task # "created"
  BY WorkingFacts DEF Resume, ResumeReadback, ForwardDone, Answered
<1>3. UNCHANGED <<phase, session>>
  BY DEF Resume, ResumeReadback, ForwardDone, proxy
<1>4. \/ AfterResponse(s, x, reply) \/ Complete(s, x, reply)
      \/ AfterResponse(s, sess[s], sess[s].response)
  BY DEF Resume, ResumeReadback, ForwardDone
<1>5. Like(s, sess[s])
  BY DEF Like
<1> HIDE DEF x, reply
<1> QED
  BY <1>1, <1>2, <1>3, <1>4, <1>5, AfterResponseW, CompleteW

LEMMA WorkerEndsW ==
    ASSUME TInv, WInv, NEW s \in Sessions, ResumeStale(s) \/ ExchangeTimeout(s)
    PROVE  WInv'
<1> DEFINE a == Released(sess[s].active)
           x == [sess[s] EXCEPT !.worker = "done", !.failed = TRUE, !.current = None,
                                !.response = None, !.active = a]
<1>1. /\ sess' = [sess EXCEPT ![s] = x]
      /\ UNCHANGED <<phase, session, future, call>>
  BY DEF ResumeStale, ExchangeTimeout, TimedOut, WorkerRaised, proxy
<1>2. sess[s] \in SessionType /\ sess[s].task # "created"
  BY WorkingFacts DEF ResumeStale, ExchangeTimeout, Answered
<1> HIDE DEF a
<1>3. Like(s, x) /\ x.active = a /\ x.worker = "done"
  BY <1>2 DEF Like, SessionType
<1> HIDE DEF x
<1> QED
  BY <1>1, <1>2, <1>3, GoesOn, SameWait DEF a

-----------------------------------------------------------------------------
(* The other steps.                                                        *)

LEMMA ReaderW ==
    ASSUME TInv, WInv, NEW s \in Sessions, ReaderFrame(s) \/ ReaderLost(s)
    PROVE  WInv'
<1> DEFINE e == [op |-> sess[s].current.op, reply |-> Head(device.outbox)]
           y1 == [sess[s] EXCEPT !.current = e]
           y2 == [sess[s] EXCEPT !.reader = "done", !.failed = TRUE]
<1>1. PICK y \in {y1, y2} : sess' = [sess EXCEPT ![s] = y]
  BY ZenonT(60) DEF ReaderFrame, ReaderLost
<1>2. UNCHANGED <<phase, session, future, call>>
  BY DEF ReaderFrame, ReaderLost, proxy
<1>3. sess[s] \in SessionType
  BY TInvFits DEF Fits
<1> HIDE DEF e
<1>4. Like(s, y) /\ y.active = sess[s].active /\ y.worker = sess[s].worker
  <2>1. Like(s, y1) /\ y1.active = sess[s].active /\ y1.worker = sess[s].worker
    BY <1>3 DEF Like, SessionType
  <2>2. Like(s, y2) /\ y2.active = sess[s].active /\ y2.worker = sess[s].worker
    BY <1>3 DEF Like, SessionType
  <2> HIDE DEF y1, y2
  <2> QED
    BY <1>1, <2>1, <2>2
<1> HIDE DEF y1, y2
<1> QED
  BY <1>1, <1>2, <1>4, GoesOn, SameWait

\* A request that joins a queue disturbs no waiter.
LEMMA EnqueueW ==
    ASSUME TInv, WInv, NEW s \in Sessions, NEW x \in SessionType, NEW r, NoNewWait,
           UNCHANGED <<phase, session>>, Like(s, x), x.active = sess[s].active,
           x.worker = sess[s].worker, sess' = [sess EXCEPT ![s] = Enqueue(x, r)]
    PROVE  WInv'
<1> DEFINE q == Append(sess[s].queue, r)
           y == [x EXCEPT !.queue = q]
<1>1. Enqueue(x, r) = y
  BY DEF Enqueue, Like
<1>2. sess[s].queue \in Seq(Request)
  BY TInvFits DEF Fits, SessionType
<1> HIDE DEF q
<1>3. /\ y.queue = q /\ y.active = sess[s].active /\ y.worker = sess[s].worker
      /\ y.alive = sess[s].alive /\ y.task = sess[s].task
  BY DEF SessionType, Like
<1> HIDE DEF y
<1>4. Keeps(s, y)
  BY <1>2, <1>3, KeepsMore DEF q
<1>5. Steady(s, y)
  BY <1>3 DEF Steady, WInv, Placed
<1> QED
  BY <1>1, <1>4, <1>5, OneSession

LEMMA VendorW == ASSUME TInv, WInv, NEW s \in Sessions, Vendor(s) PROVE WInv'
<1>0. sess[s] \in SessionType /\ Like(s, sess[s])
  BY TInvFits DEF Fits, Like
<1>1. UNCHANGED <<phase, session, future, call>>
  BY DEF Vendor, VendorLost, VendorClosed, VendorConnect, VendorFrame, proxy
<1>2. ASSUME NEW v, NEW k,
             \/ sess' = [sess EXCEPT ![s] = [sess[s] EXCEPT !.vendor = v]]
             \/ sess' = [sess EXCEPT ![s] = [sess[s] EXCEPT !.vendor = v, !.cloud = k]]
             \/ sess' = [sess EXCEPT ![s] = [sess[s] EXCEPT !.cloud = k, !.vendor = v]]
             \/ sess' = [sess EXCEPT ![s] = sess[s]]
      PROVE  WInv'
  <2> DEFINE y1 == [sess[s] EXCEPT !.vendor = v]
             y2 == [sess[s] EXCEPT !.vendor = v, !.cloud = k]
             y3 == [sess[s] EXCEPT !.cloud = k, !.vendor = v]
  <2>1. PICK y \in {y1, y2, y3, sess[s]} : sess' = [sess EXCEPT ![s] = y]
    BY <1>2
  <2>2. Like(s, y) /\ y.active = sess[s].active /\ y.worker = sess[s].worker
    <3> DEFINE Kept(z) == Like(s, z) /\ z.active = sess[s].active
                            /\ z.worker = sess[s].worker
    <3>1. Kept(y1)
      BY <1>0 DEF Like, SessionType
    <3>2. Kept(y2)
      BY <1>0 DEF Like, SessionType
    <3>3. Kept(y3)
      BY <1>0 DEF Like, SessionType
    <3>4. Kept(sess[s])
      BY DEF Like
    <3> HIDE DEF y1, y2, y3, Kept
    <3>5. Kept(y)
      BY <2>1, <3>1, <3>2, <3>3, <3>4
    <3> QED
      BY <3>5 DEF Kept
  <2> HIDE DEF y1, y2, y3
  <2> QED
    BY <1>1, <2>1, <2>2, GoesOn, SameWait
<1>3. CASE VendorLost(s)
  BY <1>2, <1>3 DEF VendorLost
<1>4. CASE VendorClosed(s)
  <2> DEFINE v == IF sess[s].vendor = "close" THEN Loop(s, "connect") ELSE "done"
  <2>1. sess' = [sess EXCEPT ![s] = [sess[s] EXCEPT !.cloud = None, !.vendor = v]]
    BY <1>4 DEF VendorClosed
  <2> HIDE DEF v
  <2> QED
    BY <1>2, <2>1
<1>5. ASSUME NEW k \in Clouds, VendorConnect(s, k) PROVE WInv'
  BY <1>2, <1>5, ZenonT(60) DEF VendorConnect
<1>6. ASSUME NEW k \in Clouds, NEW op \in VendorOps, VendorFrame(s, k, op) PROVE WInv'
  <2> DEFINE r == [op |-> op, from |-> k, n |-> cloud[k].asked + 1]
  <2>1. \/ sess' = [sess EXCEPT ![s] = sess[s]]
        \/ sess' = [sess EXCEPT ![s] = Enqueue(sess[s], r)]
        \/ sess' = [sess EXCEPT ![s] = [sess[s] EXCEPT !.vendor = "close"]]
    BY <1>6 DEF VendorFrame
  <2>2. CASE sess' = [sess EXCEPT ![s] = Enqueue(sess[s], r)]
    <3> HIDE DEF r
    <3> QED BY <1>0, <1>1, <2>2, EnqueueW, SameWait
  <2> HIDE DEF r
  <2> QED
    BY <1>2, <2>1, <2>2
<1> QED
  BY <1>3, <1>4, <1>5, <1>6 DEF Vendor

LEMMA PollerW == ASSUME TInv, WInv, NEW s \in Sessions, Poller(s) PROVE WInv'
<1>1. sess[s] \in SessionType
  BY TInvFits DEF Fits
<1>2. NoNewWait
  <2>1. \A c \in Calls : c # s
    OBVIOUS
  <2>2. UNCHANGED call /\ \A c \in Calls : future'[c] = future[c]
    BY <2>1 DEF Poller, PollResume, PollSubmit, TInv, TypeOK, Callers
  <2> QED
    BY <2>2 DEF NoNewWait
<1>3. UNCHANGED <<phase, session>>
  BY DEF Poller, PollResume, PollSubmit, proxy
<1>4. ASSUME NEW w
      PROVE  LET x == [sess[s] EXCEPT !.poller = w] IN
             Like(s, x) /\ x.active = sess[s].active /\ x.worker = sess[s].worker
  BY <1>1 DEF SessionType, Like
<1>5. CASE PollResume(s)
  <2> DEFINE x == [sess[s] EXCEPT !.poller = "sleep"]
  <2>1. sess' = [sess EXCEPT ![s] = x]
    BY <1>5 DEF PollResume
  <2>2. Like(s, x) /\ x.active = sess[s].active /\ x.worker = sess[s].worker
    BY <1>4
  <2> HIDE DEF x
  <2> QED
    BY <1>2, <1>3, <2>1, <2>2, GoesOn
<1>6. ASSUME NEW op \in Reads, PollSubmit(s, op) PROVE WInv'
  <2> DEFINE x == [sess[s] EXCEPT !.poller = "wait"]
             r == [op |-> op, from |-> s, n |-> 0]
  <2>1. sess' = [sess EXCEPT ![s] = Enqueue(x, r)]
    BY <1>6 DEF PollSubmit
  <2>2. x \in SessionType /\ Like(s, x) /\ x.active = sess[s].active
        /\ x.worker = sess[s].worker
    BY <1>1, <1>4 DEF SessionType
  <2> HIDE DEF x, r
  <2> QED
    BY <1>2, <1>3, <2>1, <2>2, EnqueueW
<1> QED
  BY <1>5, <1>6 DEF Poller

\* The new waiter is in the queue of the session it was routed to.
LEMMA CallSubmitW ==
    ASSUME TInv, WInv, NEW c \in Calls, NEW op \in CallOps, CallSubmit(c, op)
    PROVE  WInv'
<1> DEFINE s == session
           r == [op |-> op, from |-> c, n |-> 0]
           q == Append(sess[s].queue, r)
           x == [sess[s] EXCEPT !.queue = q]
<1>1. /\ s \in Sessions /\ sess[s].alive /\ sess[s] \in SessionType
      /\ sess[s].queue \in Seq(Request)
  BY TInvFits, MaybeFacts DEF CallSubmit, IsCurrent, TInv, TypeOK, Fits, SessionType
<1>2. sess[s].task \in Open
  BY <1>1 DEF WInv, Placed
<1>3. sess' = [sess EXCEPT ![s] = x] /\ UNCHANGED <<phase, session>>
  BY DEF CallSubmit, Enqueue, proxy
<1>4. call'[c].home = s /\ \A d \in Calls \ {c} : call'[d] = call[d]
  BY DEF CallSubmit, TInv, TypeOK, CallType
<1>5. \A d \in Calls \ {c} : future'[d] = future[d]
  BY DEF CallSubmit, TInv, TypeOK, Callers
<1>6. r # None /\ r.from = c
  <2>1. op \in Ops /\ c \in Origins /\ 0 \in 0..MaxFrames
    BY DEF Origins, Callers
  <2>2. r \in Request
    BY <2>1 DEF Request
  <2> QED
    BY <2>2
<1> HIDE DEF q
<1>7. /\ x.queue = q /\ x.active = sess[s].active /\ x.worker = sess[s].worker
      /\ x.alive = sess[s].alive /\ x.task = sess[s].task
  BY <1>1 DEF SessionType
<1>8. HeldIn(x) = HeldIn(sess[s]) \cup {r}
  BY <1>1, <1>7, QueueFacts DEF HeldIn, q
<1> HIDE DEF s, r, x
<1>9. sess'[s] = x /\ \A t \in Sessions \ {s} : sess'[t] = sess[t]
  BY <1>1, <1>3 DEF TInv, TypeOK
<1>10. LiveSessionRouted'
  BY <1>3, <1>7, <1>9 DEF WInv, LiveSessionRouted
<1>11. Placed'
  BY <1>1, <1>4, <1>5, <1>7, <1>9 DEF WInv, Placed
<1>12. WaiterHeld'
  <2> SUFFICES ASSUME NEW d \in Calls, future'[d] = "pending"
               PROVE  /\ \E m \in Held(call[d].home)' : m.from = d
                      /\ sess'[call'[d].home].task \in {"created", "running", "lost"}
    BY DEF WaiterHeld
  <2>1. Held(call[d].home)' = HeldIn(sess'[call'[d].home])
    BY DEF Held, HeldIn, Queued
  <2>2. CASE d = c
    BY <1>2, <1>4, <1>6, <1>7, <1>8, <1>9, <2>1, <2>2 DEF Open
  <2>3. CASE d # c
    <3> DEFINE h == call[d].home
    <3>1. /\ h \in Sessions /\ call'[d].home = h
          /\ sess[h].task \in {"created", "running", "lost"}
          /\ \E m \in HeldIn(sess[h]) : m.from = d
      BY <1>4, <1>5, <2>3, HeldWaits DEF WInv, WaiterHeld, Placed
    <3> HIDE DEF h
    <3>2. HeldIn(sess[h]) \subseteq HeldIn(sess'[h]) /\ sess'[h].task = sess[h].task
      BY <1>7, <1>8, <1>9, <3>1
    <3> QED
      BY <2>1, <3>1, <3>2
  <2> QED
    BY <2>2, <2>3
<1> QED
  BY <1>10, <1>11, <1>12 DEF WInv

LEMMA CallerW == ASSUME TInv, WInv, NEW c \in Calls, Caller(c) PROVE WInv'
<1>1. ASSUME \/ CallReturn(c) \/ CallCancel(c)
             \/ \E op \in CallOps : CallRefused(c, op)
      PROVE  WInv'
  <2>1. UNCHANGED <<phase, session, sess>>
    BY <1>1 DEF CallReturn, CallCancel, CallRefused, proxy
  <2>2. \A d \in Calls : call'[d].home = call[d].home
    <3>1. ASSUME NEW o, call' = [call EXCEPT ![c].outcome = o]
          PROVE  \A d \in Calls : call'[d].home = call[d].home
      BY <3>1 DEF TInv, TypeOK, CallType
    <3>2. ASSUME NEW o, NEW op, call' = [call EXCEPT ![c].op = op, ![c].outcome = o]
          PROVE  \A d \in Calls : call'[d].home = call[d].home
      BY <3>2 DEF TInv, TypeOK, CallType
    <3>3. CASE CallReturn(c) \/ CallCancel(c)
      <4>1. \E o : call' = [call EXCEPT ![c].outcome = o]
        BY <3>3 DEF CallReturn, CallCancel
      <4> QED
        BY <3>1, <4>1
    <3>4. ASSUME NEW op \in CallOps, CallRefused(c, op)
          PROVE  \A d \in Calls : call'[d].home = call[d].home
      <4>1. \E o : call' = [call EXCEPT ![c].op = op, ![c].outcome = o]
        BY <3>4 DEF CallRefused
      <4> QED
        BY <3>2, <4>1
    <3> QED
      BY <1>1, <3>3, <3>4
  <2>3. \A d \in Calls : future'[d] = "pending" => future[d] = "pending"
    BY <1>1 DEF CallReturn, CallCancel, CallRefused, TInv, TypeOK, Callers
  <2> QED
    BY <2>1, <2>2, <2>3, NoSession DEF NoNewWait
<1> QED
  BY <1>1, CallSubmitW DEF Caller

LEMMA StopW == ASSUME TInv, WInv, StopBegin \/ StopEnd PROVE WInv'
<1>1. LiveSessionRouted'
  BY DEF StopBegin, StopEnd, LiveSessionRouted
<1>2. NoNewWait
  BY SameWait DEF StopBegin, StopEnd
<1>3. ASSUME NEW s \in Sessions PROVE Steady(s, sess'[s]) /\ Keeps(s, sess'[s])
  <2> DEFINE b == sess[s].cancelled \/ Unfinished(s)
             x == [sess[s] EXCEPT !.cancelled = b]
  <2>1. sess'[s] = x \/ sess'[s] = sess[s]
    BY DEF StopBegin, StopEnd, Cancelled
  <2>2. sess[s] \in SessionType
    BY TInvFits DEF Fits
  <2> HIDE DEF b
  <2>3. Like(s, x) /\ x.active = sess[s].active /\ x.worker = sess[s].worker
    BY <2>2 DEF Like, SessionType
  <2> HIDE DEF x
  <2>4. Like(s, sess'[s]) /\ sess'[s].active = sess[s].active
        /\ sess'[s].worker = sess[s].worker
    BY <2>1, <2>3 DEF Like
  <2>5. Keeps(s, sess'[s])
    BY <1>2, <2>4 DEF Keeps, Waits, HeldIn, Like
  <2>6. Steady(s, sess'[s])
    BY <2>4 DEF Steady, Like, WInv, Placed
  <2> QED
    BY <2>5, <2>6
<1> QED
  BY <1>1, <1>2, <1>3, AllSessions

LEMMA NextWInv == TInv /\ WInv /\ [Next]_vars => WInv'
<1> SUFFICES ASSUME TInv, WInv, [Next]_vars PROVE WInv'
  OBVIOUS
<1>1. ASSUME NEW s \in Sessions, Accept(s) \/ Run(s) PROVE WInv'
  BY <1>1, AcceptW, RunStartW, AbortW, RunCleanupW, RunDoneW DEF Run
<1>2. ASSUME NEW s \in Sessions, Worker(s) PROVE WInv'
  BY <1>2, WorkerDiscardW, WorkerSendW, ResumeForwardW, WorkerResumesW, WorkerEndsW
  DEF Worker
<1>3. ASSUME NEW s \in Sessions, ReaderFrame(s) \/ ReaderLost(s) \/ Vendor(s) \/ Poller(s)
      PROVE  WInv'
  BY <1>3, ReaderW, VendorW, PollerW
<1>4. ASSUME NEW c \in Calls, Caller(c) PROVE WInv'
  BY <1>4, CallerW
<1>5. ASSUME Device \/ Terminating \/ UNCHANGED vars PROVE WInv'
  <2>1. UNCHANGED <<phase, session, sess, future, call>>
    BY <1>5 DEF Device, DeviceDrop, DeviceReply, Terminating, vars, proxy
  <2> QED
    BY <2>1, NoSession, SameWait
<1> QED
  BY <1>1, <1>2, <1>3, <1>4, <1>5, StopW DEF Next

LEMMA Invariant == Spec => [](TInv /\ WInv)
  BY InitTInv, NextTInv, InitWInv, NextWInv, PTL DEF Spec

\* A live session with a task is always the one calls are routed to: the
\* cleanup of an older session (_run_session) never evicts its successor.
THEOREM LiveSessionIsRouted == Spec => []LiveSessionRouted
<1>1. WInv => LiveSessionRouted
  BY DEF WInv
<1> QED
  BY <1>1, Invariant, PTL

\* A caller that waits is always held by a session whose cleanup is to come,
\* unless it was cancelled before its first step: the worker's finally block
\* keeps a failed operation, and _run_session rejects all it holds.
THEOREM WaitersHeld == Spec => []WaiterHeld
<1>1. WInv => WaiterHeld
  BY DEF WInv
<1> QED
  BY <1>1, Invariant, PTL
=============================================================================
