---------------------------- MODULE ProxyTraffic ----------------------------
(***************************************************************************)
(* Proofs about Proxy: one transaction is in flight on the device's        *)
(* connection, the reported valve position is true, and the report that    *)
(* confirms a command was composed after it; what is published about the   *)
(* connections belongs to the current session, and when stop() has         *)
(* returned nothing is left of any session.                                *)
(***************************************************************************)
EXTENDS ProxyProofs

\* Of the device d: nothing is in flight, or one request, or one response; and
\* what a response in flight reports is still so.
Quiet(d) == d.inbox = <<>> /\ d.outbox = <<>>
Asked(d, r) == d.inbox = <<r>> /\ d.outbox = <<>>
Replied(d, m) == d.inbox = <<>> /\ d.outbox = <<m>>
Tells(m, d) == m.op \in Reads /\ m.report # None => m.report = d.valve
Flight(d) ==
    \/ Quiet(d)
    \/ \E r \in Request : Asked(d, r)
    \/ \E m \in Reply : Replied(d, m) /\ Tells(m, d)

\* The published position v is that of the valve, and no command can make it
\* wrong.
Known(v, d) == v # None => v = d.valve /\ \A r : Asked(d, r) => r.op \notin Valves

\* The worker of session object x awaits a response; it has one; it has
\* nothing to wait for.
Working(x) == x.worker \in {"exchange", "readback"}
Awaits(x) == Working(x) /\ x.current.reply = None
Served(x) == Working(x) /\ x.current.reply # None
Rests(x) == x.worker \in {"idle", "get", "forward"} \/ Served(x)

\* A response to a command is one to the active request; so is a read-back,
\* composed after the device had handled the command.
Exchanges(x, d) ==
    /\ x.current # None /\ x.current.op = x.active.op
    /\ \A r : Asked(d, r) => r = x.active
    /\ \A m : Replied(d, m) /\ m.op \in Valves => d.obeyed = x.active.from
ReadsBack(x, d) ==
    /\ x.current # None /\ d.obeyed = x.active.from /\ x.active.op \in Valves
    /\ \A r : Asked(d, r) => r.op = "status"
    /\ \A m : Replied(d, m) => m.after = x.active.from
    /\ Served(x) => x.current.reply.after = x.active.from

\* What holds of the session that is current.
Good(x, d) ==
    /\ Rests(x) => Quiet(d)
    /\ Served(x) => Tells(x.current.reply, d)
    /\ x.worker = "exchange" => Exchanges(x, d)
    /\ x.worker = "forward" \/ (x.worker = "exchange" /\ Served(x)) =>
          (x.active.op \in Valves => d.obeyed = x.active.from)
    /\ x.worker = "readback" => ReadsBack(x, d)

Flow ==
    /\ Flight(device) /\ Known(state.valve, device)
    /\ phase # "up" => Quiet(device)
    /\ \A s \in Sessions : IsCurrent(s) => Good(sess[s], device)

USE ConstantsAssumption, NamesAssumption
USE DEF Valves, Reads, Ops

-----------------------------------------------------------------------------
(* Lemmas.                                                                 *)

LEMMA InitFlow == Init => Flow
<1> SUFFICES ASSUME Init PROVE Flow
  OBVIOUS
<1>1. Quiet(device) /\ state.valve = None /\ phase = "up"
  BY DEF Init, Quiet, Cleared
<1>2. \A s \in Sessions : ~IsCurrent(s)
  BY DEF Init, IsCurrent, Origins, Callers
<1> QED
  BY <1>1, <1>2 DEF Flow, Flight, Known

LEMMA SingleFacts ==
    \A m : Append(<<>>, m) = <<m>> /\ Tail(<<m>>) = <<>> /\ Head(<<m>>) = m
  OBVIOUS

LEMMA Apart ==
    /\ \A d, r, m : Asked(d, r) => ~Replied(d, m) /\ ~Quiet(d)
    /\ \A d, m : Replied(d, m) => ~Quiet(d)
    /\ \A d, r, q : Asked(d, r) /\ Asked(d, q) => r = q
    /\ \A d, m, q : Replied(d, m) /\ Replied(d, q) => m = q
<1>1. \A r : <<r>> # <<>> /\ <<r>>[1] = r
  OBVIOUS
<1> QED
  BY <1>1 DEF Asked, Replied, Quiet

\* A session object y that becomes x goes on as before or ends its work.
Calm(y, x) ==
    /\ x.alive => y.alive
    /\ \/ x.worker = "done"
       \/ x.worker = "get" /\ y.worker \in {"idle", "get"}
       \/ x.worker = y.worker /\ x.current = y.current /\ x.active = y.active

LEMMA CalmGood ==
    ASSUME NEW x, NEW y, NEW d, Good(y, d), Calm(y, x) PROVE Good(x, d)
<1>1. CASE x.worker = "done" \/ (x.worker = "get" /\ y.worker \in {"idle", "get"})
  BY <1>1 DEF Good, Calm, Rests, Working, Served
<1>2. CASE x.worker = y.worker /\ x.current = y.current /\ x.active = y.active
  BY <1>2 DEF Good, Rests, Working, Served, Exchanges, ReadsBack
<1> QED
  BY <1>1, <1>2 DEF Calm

\* Fewer messages in flight disturb nothing.
LEMMA FewerGood ==
    ASSUME NEW x, NEW d, NEW e, Good(x, d), e.valve = d.valve, e.obeyed = d.obeyed,
           Quiet(e) \/ \E m : Replied(d, m) /\ Replied(e, m)
    PROVE  Good(x, e)
<1>1. CASE Quiet(e)
  <2>1. \A r : ~Asked(e, r) /\ ~Replied(e, r)
    BY <1>1, Apart
  <2> QED
    BY <1>1, <2>1 DEF Good, Exchanges, ReadsBack, Tells
<1>2. ASSUME NEW m, Replied(d, m), Replied(e, m) PROVE Good(x, e)
  <2>1. ~Quiet(d) /\ (\A r : ~Asked(e, r)) /\ \A q : Replied(e, q) => q = m
    BY <1>2, Apart
  <2> QED
    BY <1>2, <2>1 DEF Good, Exchanges, ReadsBack, Tells
<1> QED
  BY <1>1, <1>2

\* Steps that do not touch the device.
LEMMA CalmAll ==
    ASSUME Flow, UNCHANGED <<phase, session, device>>,
           state'.valve = state.valve \/ state'.valve = None,
           \A s \in Sessions : Calm(sess[s], sess'[s])
    PROVE  Flow'
<1>1. ASSUME NEW s \in Sessions, IsCurrent(s)' PROVE Good(sess'[s], device)
  <2>1. IsCurrent(s)
    BY <1>1 DEF IsCurrent, Calm
  <2> QED
    BY <2>1, CalmGood DEF Flow
<1> QED
  BY <1>1 DEF Flow, Known

LEMMA CalmOne ==
    ASSUME TInv, Flow, NEW s \in Sessions, NEW x, sess' = [sess EXCEPT ![s] = x],
           UNCHANGED <<phase, session, device>>,
           state'.valve = state.valve \/ state'.valve = None, Calm(sess[s], x)
    PROVE  Flow'
<1>1. ASSUME NEW t \in Sessions PROVE Calm(sess[t], sess'[t])
  <2>1. sess'[t] = IF t = s THEN x ELSE sess[t]
    BY DEF TInv, TypeOK
  <2>2. Calm(sess[t], sess[t])
    BY DEF Calm
  <2> QED
    BY <2>1, <2>2
<1> QED
  BY <1>1, CalmAll

\* A step of one session: what it does to the device matters only if the
\* session is current, and then nothing need be known of the others.
LEMMA CurrentOne ==
    ASSUME TInv, Flow, NEW s \in Sessions, NEW x, sess' = [sess EXCEPT ![s] = x],
           UNCHANGED <<phase, session>>, x.alive = sess[s].alive,
           Flight(device'), Known(state'.valve, device'),
           IsCurrent(s) \/ UNCHANGED device, IsCurrent(s) => Good(x, device')
    PROVE  Flow'
<1>1. ASSUME NEW t \in Sessions, IsCurrent(t)' PROVE Good(sess'[t], device')
  <2>1. CASE t = s
    <3>1. sess'[t] = x /\ IsCurrent(s)
      BY <1>1, <2>1 DEF IsCurrent, TInv, TypeOK
    <3> QED
      BY <3>1
  <2>2. CASE t # s
    <3>1. sess'[t] = sess[t] /\ IsCurrent(t)
      BY <1>1, <2>2 DEF IsCurrent, TInv, TypeOK
    <3>2. ~IsCurrent(s)
      BY <2>2, <3>1 DEF IsCurrent
    <3> QED
      BY <3>1, <3>2 DEF Flow
  <2> QED
    BY <2>1, <2>2
<1>2. phase' # "up" => Quiet(device')
  BY DEF Flow, IsCurrent
<1> QED
  BY <1>1, <1>2 DEF Flow

\* A request is written when nothing is in flight.
LEMMA WrittenFacts ==
    ASSUME TInv, Quiet(device), NEW s, NEW r \in Request
    PROVE  /\ Asked(Written(s, r), r) \/ Quiet(Written(s, r))
           /\ Written(s, r).valve = device.valve /\ Written(s, r).obeyed = device.obeyed
<1>1. Append(device.inbox, r) = <<r>>
  BY DEF Quiet
<1> DEFINE q == <<r>>
<1>2. Written(s, r) = [device EXCEPT !.inbox = q] \/ Written(s, r) = device
  BY <1>1, Zenon DEF Written
<1>3. device \in DeviceType
  BY DEF TInv, TypeOK
<1> HIDE DEF q
<1>4. \/ Written(s, r).inbox = q /\ Written(s, r).outbox = <<>>
      \/ Quiet(Written(s, r))
  BY <1>2, <1>3 DEF Quiet, DeviceType
<1>5. Written(s, r).valve = device.valve /\ Written(s, r).obeyed = device.obeyed
  BY <1>2, <1>3 DEF DeviceType
<1> QED
  BY <1>4, <1>5 DEF Asked, q

-----------------------------------------------------------------------------
(* Connection generations.                                                 *)

LEMMA AcceptF == ASSUME TInv, Flow, NEW s \in Sessions, Accept(s) PROVE Flow'
<1> DEFINE new == [NewSession EXCEPT !.task = "created", !.alive = TRUE]
<1>1. phase' = phase /\ session' = s /\ state' = Cleared /\ phase = "up"
  BY DEF Accept
<1>2. sess'[s] = new
  BY DEF Accept
<1>3. new.worker = "idle"
  BY DEF NewSession
<1>4. Quiet(device')
  BY DEF Accept, TInv, TypeOK, DeviceType, Quiet
<1> HIDE DEF new
<1>5. Good(sess'[s], device')
  BY <1>2, <1>3, <1>4 DEF Good, Rests, Served, Working
<1>6. Known(state'.valve, device')
  BY <1>1 DEF Known, Cleared
<1> QED
  BY <1>1, <1>4, <1>5, <1>6 DEF Flow, Flight, IsCurrent

LEMMA RunCleanupF == ASSUME TInv, Flow, NEW s \in Sessions, RunCleanup(s) PROVE Flow'
<1>1. /\ session' = CleanupSession(s) /\ UNCHANGED <<phase, device>>
      /\ state' = IF session = s THEN Cleared ELSE state
  BY DEF RunCleanup
<1>2. \A t \in Sessions \ {s} : sess'[t] = sess[t]
  BY DEF RunCleanup, TInv, TypeOK
<1>3. None \notin Sessions
  BY DEF Origins, Callers
<1>4. ASSUME NEW t \in Sessions, IsCurrent(t)' PROVE Good(sess'[t], device)
  <2>1. session' = t /\ session' = session /\ t # s
    BY <1>1, <1>3, <1>4 DEF IsCurrent, CleanupSession
  <2>2. IsCurrent(t)
    BY <1>1, <1>2, <1>4, <2>1 DEF IsCurrent
  <2> QED
    BY <1>2, <2>1, <2>2 DEF Flow
<1>5. Known(state'.valve, device')
  BY <1>1 DEF Flow, Known, Cleared
<1> QED
  BY <1>1, <1>4, <1>5 DEF Flow

\* The connection is gone; a response under way may still arrive.
LEMMA GoneF ==
    ASSUME TInv, Flow, UNCHANGED <<phase, session, state>>,
           \A t \in Sessions : Calm(sess[t], sess'[t]),
           \/ UNCHANGED device
           \/ device' = [device EXCEPT !.on = None, !.inbox = <<>>]
    PROVE  Flow'
<1>1. CASE UNCHANGED device
  BY <1>1, CalmAll
<1>2. CASE device' = [device EXCEPT !.on = None, !.inbox = <<>>]
  <2>1. /\ device'.inbox = <<>> /\ device'.outbox = device.outbox
        /\ device'.valve = device.valve /\ device'.obeyed = device.obeyed
    BY <1>2 DEF TInv, TypeOK, DeviceType
  <2>2. Quiet(device') \/ \E m \in Reply : Replied(device, m) /\ Replied(device', m) /\ Tells(m, device)
    BY <2>1 DEF Flow, Flight, Quiet, Asked, Replied
  <2>3. Flight(device')
    BY <2>1, <2>2 DEF Flight, Tells
  <2>4. Known(state'.valve, device')
    BY <2>1, <2>2, Apart DEF Flow, Known
  <2>5. ASSUME NEW t \in Sessions, IsCurrent(t)' PROVE Good(sess'[t], device')
    <3>1. IsCurrent(t)
      BY <2>5 DEF IsCurrent, Calm
    <3>2. Good(sess'[t], device)
      BY <3>1, CalmGood DEF Flow
    <3> QED
      BY <2>1, <2>2, <3>2, FewerGood
  <2>6. phase' # "up" => Quiet(device')
    BY <2>1 DEF Flow, Quiet
  <2> QED
    BY <2>3, <2>4, <2>5, <2>6 DEF Flow
<1> QED
  BY <1>1, <1>2

LEMMA RunDoneF == ASSUME TInv, Flow, NEW s \in Sessions, RunDone(s) PROVE Flow'
<1> DEFINE x == [sess[s] EXCEPT !.task = "done"]
<1>1. sess' = [sess EXCEPT ![s] = x] /\ UNCHANGED <<phase, session, state>>
  BY DEF RunDone, proxy
<1>2. device' = device \/ device' = [device EXCEPT !.on = None, !.inbox = <<>>]
  BY DEF RunDone
<1>3. Calm(sess[s], x)
  BY TInvFits DEF Fits, SessionType, Calm
<1> HIDE DEF x
<1>4. \A t \in Sessions : Calm(sess[t], sess'[t])
  BY <1>1, <1>3 DEF TInv, TypeOK, Calm
<1> QED
  BY <1>1, <1>2, <1>4, GoneF

LEMMA StopF == ASSUME TInv, Flow, StopBegin \/ StopEnd PROVE Flow'
<1>1. phase' # "up"
  BY DEF StopBegin, StopEnd
<1>2. \/ device' = [device EXCEPT !.on = None, !.inbox = <<>>, !.outbox = <<>>] /\ state' = state
      \/ device' = device /\ phase # "up" /\ state' = Cleared
  BY DEF StopBegin, StopEnd
<1>3. Quiet(device') /\ device'.valve = device.valve
  BY <1>2 DEF Flow, Quiet, TInv, TypeOK, DeviceType
<1>4. Known(state'.valve, device')
  BY <1>2, <1>3, Apart DEF Known, Flow, Cleared
<1> QED
  BY <1>1, <1>3, <1>4 DEF Flow, Flight, IsCurrent

-----------------------------------------------------------------------------
(* The device.                                                             *)

LEMMA DeviceF == ASSUME TInv, Flow, Device PROVE Flow'
<1>1. UNCHANGED <<phase, session, state, sess>>
  BY DEF Device, DeviceDrop, DeviceReply, proxy
<1>2. CASE DeviceDrop
  <2>1. \A t \in Sessions : Calm(sess[t], sess'[t])
    BY <1>1 DEF Calm
  <2> QED
    BY <1>1, <1>2, <2>1, GoneF DEF DeviceDrop
<1>3. ASSUME NEW obeys \in BOOLEAN, NEW known \in BOOLEAN, NEW bad \in BOOLEAN,
             DeviceReply(obeys, known, bad)
      PROVE  Flow'
  <2> DEFINE r == Head(device.inbox)
             position == IF r.op \in Valves /\ obeys THEN r.op ELSE device.valve
             last == IF r.op \in Valves THEN r.from ELSE device.obeyed
             report == IF r.op \in Reads /\ known THEN position ELSE None
             m == [op |-> r.op, bad |-> bad, after |-> last, report |-> report]
             out == Append(device.outbox, m)
  <2>1. device.inbox # <<>> /\ device \in DeviceType
    BY <1>3 DEF DeviceReply, TInv, TypeOK
  <2>2. r \in Request /\ Asked(device, r)
    BY <2>1 DEF Flow, Flight, Quiet, Asked, Replied
  <2>3. out = <<m>> /\ Tail(device.inbox) = <<>>
    <3> HIDE DEF m, r
    <3>1. device.inbox = <<r>> /\ device.outbox = <<>>
      BY <2>2 DEF Asked
    <3> QED
      BY <3>1, SingleFacts
  <2>4. device' = [device EXCEPT !.inbox = <<>>, !.valve = position, !.obeyed = last, !.outbox = <<m>>]
    <3>1. device' = [device EXCEPT !.inbox = Tail(device.inbox), !.valve = position,
                                   !.obeyed = last, !.outbox = out]
      BY <1>3, Zenon DEF DeviceReply
    <3> HIDE DEF position, last, m, out, r
    <3> QED
      BY <2>3, <3>1
  <2>5. m.op = r.op /\ m.after = last /\ (m.op \in Reads /\ m.report # None => m.report = position)
    OBVIOUS
  <2>6. m \in Reply
    <3>1. position \in Valves /\ last \in Maybe(Origins)
      BY <2>1, <2>2, MaybeFacts DEF Request, DeviceType
    <3>2. report \in Maybe(Valves)
      BY <3>1, MaybeFacts
    <3> QED
      BY <2>2, <3>1, <3>2 DEF Reply, Request
  <2>7. (r.op \notin Valves => position = device.valve /\ last = device.obeyed)
        /\ (r.op \in Valves => last = r.from)
    OBVIOUS
  <2> HIDE DEF r, position, last, m, out, report
  <2>8. Replied(device', m) /\ device'.valve = position /\ device'.obeyed = last
    BY <2>1, <2>4 DEF Replied, DeviceType
  <2>9. Flight(device')
    BY <2>5, <2>6, <2>8 DEF Flight, Tells
  <2>10. Known(state'.valve, device')
    BY <1>1, <2>2, <2>7, <2>8, Apart DEF Flow, Known
  <2>11. \A q : ~Asked(device', q)
    BY <2>8, Apart
  <2>12. \A q : Replied(device', q) => q = m
    BY <2>8, Apart
  <2>13. ASSUME NEW t \in Sessions, IsCurrent(t)' PROVE Good(sess[t], device')
    <3>1. Good(sess[t], device) /\ ~Rests(sess[t])
      BY <1>1, <2>2, <2>13, Apart DEF IsCurrent, Flow, Good
    <3>2. ~Served(sess[t]) /\ sess[t].worker # "forward"
      BY <3>1 DEF Rests
    <3>3. ASSUME sess[t].worker = "exchange" PROVE Exchanges(sess[t], device')
      <4>1. Exchanges(sess[t], device) /\ r = sess[t].active
        BY <2>2, <3>1, <3>3 DEF Good, Exchanges
      <4> QED
        BY <2>5, <2>7, <2>8, <2>11, <2>12, <4>1 DEF Exchanges
    <3>4. ASSUME sess[t].worker = "readback" PROVE ReadsBack(sess[t], device')
      <4>1. ReadsBack(sess[t], device) /\ r.op = "status"
        BY <2>2, <3>1, <3>4 DEF Good, ReadsBack
      <4> QED
        BY <2>5, <2>7, <2>8, <2>11, <2>12, <3>2, <4>1 DEF ReadsBack
    <3> QED
      BY <3>1, <3>2, <3>3, <3>4 DEF Good
  <2>14. phase' = "up"
    BY <1>1, <2>2, Apart DEF Flow
  <2> QED
    BY <1>1, <2>9, <2>10, <2>13, <2>14 DEF Flow
<1> QED
  BY <1>2, <1>3 DEF Device

-----------------------------------------------------------------------------
(* What the steps of the worker do.                                        *)

\* x after the request of y is completed.
Finished(s, y, x) ==
    /\ x.worker \in {"get", "done"} /\ x.active = None /\ x.current = None
    /\ x.queue = y.queue /\ x.alive = y.alive /\ x.task = y.task
    /\ x.cloud = y.cloud /\ x.sampled = y.sampled

LEMMA CompleteE ==
    ASSUME NEW s \in Sessions, NEW y \in SessionType, NEW reply, Complete(s, y, reply)
    PROVE  \E x : sess' = [sess EXCEPT ![s] = x] /\ Finished(s, y, x)
<1> DEFINE w == Loop(s, "get")
           x == [y EXCEPT !.worker = w, !.active = None, !.current = None,
                          !.response = None]
<1>1. sess' = [sess EXCEPT ![s] = x]
  BY Zenon DEF Complete
<1>2. w \in {"get", "done"}
  BY DEF Loop
<1> HIDE DEF w
<1>3. Finished(s, y, x)
  BY <1>2 DEF Finished, SessionType
<1> HIDE DEF x
<1> QED
  BY <1>1, <1>3

\* x after the worker of y raised, and after it began the read-back.
Raised(y, x) ==
    /\ x.worker = "done" /\ x.current = None /\ x.active = Released(y.active)
    /\ x.queue = y.queue /\ x.alive = y.alive /\ x.task = y.task
    /\ x.cloud = y.cloud /\ x.sampled = y.sampled
Confirms(y, x) ==
    /\ x.worker = "readback" /\ x.current = [op |-> "status", reply |-> None]
    /\ x.active = y.active
    /\ x.queue = y.queue /\ x.alive = y.alive /\ x.task = y.task
    /\ x.cloud = y.cloud /\ x.sampled = y.sampled

LEMMA RaisedE ==
    ASSUME NEW y \in SessionType
    PROVE  Raised(y, WorkerRaised(y, y.active))
<1> DEFINE a == Released(y.active)
           x == [y EXCEPT !.worker = "done", !.failed = TRUE, !.current = None,
                          !.response = None, !.active = a]
<1>1. WorkerRaised(y, y.active) = x
  BY Zenon DEF WorkerRaised
<1> HIDE DEF a
<1>2. /\ x.worker = "done" /\ x.current = None /\ x.active = a
      /\ x.queue = y.queue /\ x.alive = y.alive /\ x.task = y.task
      /\ x.cloud = y.cloud /\ x.sampled = y.sampled
  BY DEF SessionType
<1> HIDE DEF x
<1> QED
  BY <1>1, <1>2 DEF Raised, a

LEMMA AfterResponseE ==
    ASSUME NEW s \in Sessions, NEW y \in SessionType, NEW reply, AfterResponse(s, y, reply)
    PROVE  \E x :
             /\ sess' = [sess EXCEPT ![s] = x]
             /\ \/ /\ y.active.op \notin Valves /\ Complete(s, y, reply)
                   /\ UNCHANGED device /\ Finished(s, y, x)
                \/ UNCHANGED <<future, call, device>> /\ Raised(y, x)
                \/ /\ y.active.op \in Valves /\ IsCurrent(s) /\ Confirms(y, x)
                   /\ UNCHANGED <<future, call>>
                   /\ device' = Written(s, [op |-> "status", from |-> y.active.from, n |-> 0])
<1>1. CASE y.active.op \notin Valves
  <2>1. Complete(s, y, reply) /\ UNCHANGED device
    BY <1>1 DEF AfterResponse
  <2> QED
    BY <1>1, <2>1, CompleteE
<1>2. CASE y.active.op \in Valves /\ (reply.bad \/ ~IsCurrent(s))
  <2>1. /\ sess' = [sess EXCEPT ![s] = WorkerRaised(y, y.active)]
        /\ UNCHANGED <<future, call, device>>
    BY <1>2 DEF AfterResponse
  <2> QED
    BY <2>1, RaisedE
<1>3. CASE y.active.op \in Valves /\ ~(reply.bad \/ ~IsCurrent(s))
  <2> DEFINE e == [op |-> "status", reply |-> None]
             x == [y EXCEPT !.worker = "readback", !.response = None, !.current = e]
             d == Written(s, [op |-> "status", from |-> y.active.from, n |-> 0])
  <2>1. sess' = [sess EXCEPT ![s] = x] /\ UNCHANGED <<future, call>> /\ device' = d
    BY <1>3 DEF AfterResponse
  <2> HIDE DEF e, d
  <2>2. /\ x.worker = "readback" /\ x.current = e /\ x.active = y.active
        /\ x.queue = y.queue /\ x.alive = y.alive /\ x.task = y.task
        /\ x.cloud = y.cloud /\ x.sampled = y.sampled
    BY DEF SessionType
  <2> HIDE DEF x
  <2>3. Confirms(y, x)
    BY <2>2 DEF Confirms, e
  <2> QED
    BY <1>3, <2>1, <2>3 DEF d
<1> QED
  BY <1>1, <1>2, <1>3

\* The worker takes a request and writes it, or finds its session replaced.
Sends(s, y, x) ==
    /\ x.worker = "exchange" /\ x.active = Head(y.queue)
    /\ x.current = [op |-> Head(y.queue).op, reply |-> None]
    /\ x.queue = Tail(y.queue) /\ x.alive = y.alive /\ x.task = y.task
    /\ x.cloud = y.cloud /\ x.sampled = y.sampled
SendsNot(s, y, x) ==
    /\ x.worker = "done" /\ x.active = Released(Head(y.queue))
    /\ x.queue = Tail(y.queue) /\ x.alive = y.alive /\ x.task = y.task
    /\ x.cloud = y.cloud /\ x.sampled = y.sampled

LEMMA WorkerSendE ==
    ASSUME TInv, NEW s \in Sessions, WorkerSend(s)
    PROVE  \E x :
             /\ sess' = [sess EXCEPT ![s] = x]
             /\ \/ IsCurrent(s) /\ Sends(s, sess[s], x) /\ device' = Written(s, Head(sess[s].queue))
                \/ ~IsCurrent(s) /\ SendsNot(s, sess[s], x) /\ UNCHANGED <<device, call>>
<1> DEFINE r == Head(sess[s].queue)
           e == [op |-> r.op, reply |-> None]
           a == Released(r)
           q == Tail(sess[s].queue)
           x1 == [sess[s] EXCEPT !.queue = q, !.active = r, !.worker = "exchange",
                                 !.current = e]
           x2 == [sess[s] EXCEPT !.queue = q, !.worker = "done", !.failed = TRUE,
                                 !.current = None, !.response = None, !.active = a]
<1>0. sess[s] \in SessionType
  BY TInvFits DEF Fits
<1>1. CASE IsCurrent(s)
  <2>1. sess' = [sess EXCEPT ![s] = x1] /\ device' = Written(s, r)
    BY <1>1 DEF WorkerSend
  <2> HIDE DEF r, e, q
  <2>2. /\ x1.worker = "exchange" /\ x1.active = r /\ x1.current = e
        /\ x1.queue = q /\ x1.alive = sess[s].alive /\ x1.task = sess[s].task
        /\ x1.cloud = sess[s].cloud /\ x1.sampled = sess[s].sampled
    BY <1>0 DEF SessionType
  <2> HIDE DEF x1
  <2>3. Sends(s, sess[s], x1)
    BY <2>2 DEF Sends, r, e, q
  <2> QED
    BY <1>1, <2>1, <2>3 DEF r
<1>2. CASE ~IsCurrent(s)
  <2>1. sess' = [sess EXCEPT ![s] = x2] /\ UNCHANGED <<device, call>>
    BY <1>2 DEF WorkerSend, WorkerRaised
  <2> HIDE DEF r, a, q
  <2>2. /\ x2.worker = "done" /\ x2.active = a
        /\ x2.queue = q /\ x2.alive = sess[s].alive /\ x2.task = sess[s].task
        /\ x2.cloud = sess[s].cloud /\ x2.sampled = sess[s].sampled
    BY <1>0 DEF SessionType
  <2> HIDE DEF x2
  <2>3. SendsNot(s, sess[s], x2)
    BY <2>2 DEF SendsNot, r, a, q
  <2> QED
    BY <1>2, <2>1, <2>3
<1> QED
  BY <1>1, <1>2

\* What a response shows is published.
LEMMA ObservedE ==
    ASSUME TInv, NEW reply
    PROVE  Observed(reply).valve = IF reply.op \in Reads THEN reply.report ELSE state.valve
<1> DEFINE v == IF reply.op \in Reads THEN reply.report ELSE state.valve
           b == state.counter \/ reply.op = "snapshot"
<1>1. Observed(reply) = [state EXCEPT !.device = TRUE, !.valve = v, !.counter = b]
  BY DEF Observed
<1> HIDE DEF v, b
<1>2. Observed(reply).valve = v
  BY <1>1 DEF TInv, TypeOK, StateType
<1> QED
  BY <1>2 DEF v

-----------------------------------------------------------------------------
(* The worker keeps the flow.                                              *)

LEMMA WorkerSendF == ASSUME TInv, Flow, NEW s \in Sessions, WorkerSend(s) PROVE Flow'
<1> DEFINE r == Head(sess[s].queue)
<1>1. r \in Request /\ sess[s].worker = "get" /\ UNCHANGED <<phase, session>>
  BY TakeFits DEF WorkerSend, Takes
<1>2. state'.valve = IF r.op \in Valves THEN None ELSE state.valve
  BY DEF WorkerSend, Invalidated, TInv, TypeOK, StateType
<1>3. CASE IsCurrent(s)
  <2>1. PICK x : /\ sess' = [sess EXCEPT ![s] = x] /\ Sends(s, sess[s], x)
                 /\ device' = Written(s, r)
    BY <1>3, WorkerSendE
  <2>2. Quiet(device)
    BY <1>1, <1>3 DEF Flow, Good, Rests
  <2>3. /\ Asked(device', r) \/ Quiet(device')
        /\ device'.valve = device.valve /\ device'.obeyed = device.obeyed
    <3> HIDE DEF r
    <3> QED BY <1>1, <2>1, <2>2, WrittenFacts
  <2>4. x.active = r /\ x.worker = "exchange" /\ x.current = [op |-> r.op, reply |-> None]
        /\ x.alive = sess[s].alive
    BY <2>1 DEF Sends
  <2> HIDE DEF r
  <2>5. Flight(device')
    BY <1>1, <2>3 DEF Flight
  <2>6. Known(state'.valve, device')
    BY <1>2, <2>3, Apart DEF Flow, Known
  <2>7. \A m : ~Replied(device', m)
    BY <2>3, Apart
  <2>8. None # x.current /\ x.current.op = r.op /\ x.current.reply = None
    <3>1. [op |-> r.op, reply |-> None] \in Exchange
      BY <1>1, MaybeFacts DEF Exchange, Request
    <3> QED
      BY <2>4, <3>1
  <2>9. Good(x, device')
    BY <2>3, <2>4, <2>7, <2>8, Apart DEF Good, Rests, Working, Served, Exchanges
  <2> QED
    BY <1>1, <1>3, <2>1, <2>4, <2>5, <2>6, <2>9, CurrentOne
<1>4. CASE ~IsCurrent(s)
  <2>1. PICK x : /\ sess' = [sess EXCEPT ![s] = x] /\ SendsNot(s, sess[s], x)
                 /\ UNCHANGED device
    BY <1>4, WorkerSendE
  <2>2. Calm(sess[s], x)
    BY <2>1 DEF SendsNot, Calm
  <2> QED
    BY <1>1, <1>2, <2>1, <2>2, CalmOne
<1> QED
  BY <1>3, <1>4

\* The response is there and, if it was for the current session, published.
LEMMA AfterResponseF ==
    ASSUME TInv, Flow, NEW s \in Sessions, NEW y \in SessionType, NEW reply,
           AfterResponse(s, y, reply), UNCHANGED <<phase, session>>,
           y.alive = sess[s].alive, y.active = sess[s].active, y.active \in Request,
           IsCurrent(s) => /\ Quiet(device) /\ state'.valve \in {None, device.valve}
                           /\ y.active.op \in Valves => device.obeyed = y.active.from,
           ~IsCurrent(s) => state'.valve = state.valve
    PROVE  Flow'
<1> DEFINE r == [op |-> "status", from |-> y.active.from, n |-> 0]
<1>1. PICK x :
        /\ sess' = [sess EXCEPT ![s] = x]
        /\ \/ Finished(s, y, x) /\ UNCHANGED device
           \/ Raised(y, x) /\ UNCHANGED device
           \/ /\ Confirms(y, x) /\ device' = Written(s, r)
              /\ y.active.op \in Valves /\ IsCurrent(s)
  BY AfterResponseE
<1>2. x.alive = sess[s].alive
  BY <1>1 DEF Finished, Raised, Confirms
<1>3. CASE ~IsCurrent(s)
  BY <1>1, <1>2, <1>3, CurrentOne DEF Flow
<1>4. CASE IsCurrent(s) /\ UNCHANGED device /\ (Finished(s, y, x) \/ Raised(y, x))
  <2>1. Known(state'.valve, device')
    BY <1>4, Apart DEF Known
  <2>2. Good(x, device')
    BY <1>4 DEF Good, Finished, Raised, Rests, Working, Served
  <2> QED
    BY <1>1, <1>2, <1>4, <2>1, <2>2, CurrentOne DEF Flow
<1>5. CASE /\ IsCurrent(s) /\ Confirms(y, x) /\ device' = Written(s, r)
           /\ y.active.op \in Valves
  <2>1. r \in Request /\ r.op = "status"
    BY DEF Request
  <2> HIDE DEF r
  <2>2. /\ Asked(device', r) \/ Quiet(device')
        /\ device'.valve = device.valve /\ device'.obeyed = device.obeyed
    BY <1>5, <2>1, WrittenFacts
  <2>3. Flight(device')
    BY <2>1, <2>2 DEF Flight
  <2>4. Known(state'.valve, device')
    BY <1>5, <2>1, <2>2, Apart DEF Known
  <2>5. \A m : ~Replied(device', m)
    BY <2>2, Apart
  <2>6. x.current # None /\ x.current.reply = None
    <3>1. [op |-> "status", reply |-> None] \in Exchange
      BY MaybeFacts DEF Exchange
    <3> QED
      BY <1>5, <3>1 DEF Confirms
  <2>7. Good(x, device')
    BY <1>5, <2>1, <2>2, <2>5, <2>6, Apart
    DEF Good, Confirms, Rests, Working, Served, ReadsBack
  <2> QED
    BY <1>1, <1>2, <1>5, <2>3, <2>4, <2>7, CurrentOne
<1> QED
  BY <1>1, <1>3, <1>4, <1>5

\* The response that was awaited is there.
LEMMA AnsweredF ==
    ASSUME TInv, Flow, NEW s \in Sessions, NEW where \in {"exchange", "readback"},
           Answered(s, where), StillCurrent(s)
    PROVE  /\ IsCurrent(s) /\ Quiet(device) /\ sess[s].active \in Request
           /\ Served(sess[s]) /\ Good(sess[s], device)
           /\ Observed(sess[s].current.reply).valve \in {None, device.valve}
<1>1. IsCurrent(s) /\ Served(sess[s]) /\ sess[s].active \in Request
  BY AnsweredFacts DEF StillCurrent, Answered, Served, Working
<1>2. Good(sess[s], device) /\ Quiet(device) /\ Tells(sess[s].current.reply, device)
  BY <1>1 DEF Flow, Good, Rests
<1> DEFINE reply == sess[s].current.reply
<1>3. Observed(reply).valve = IF reply.op \in Reads THEN reply.report ELSE state.valve
  BY ObservedE
<1> HIDE DEF reply
<1>4. Observed(reply).valve \in {None, device.valve}
  BY <1>2, <1>3 DEF Tells, Flow, Known, reply
<1> QED
  BY <1>1, <1>2, <1>4 DEF reply

LEMMA ResumeForwardF == ASSUME TInv, Flow, NEW s \in Sessions, ResumeForward(s) PROVE Flow'
<1> DEFINE reply == sess[s].current.reply
           y == Sampled(sess[s], reply)
           x == [y EXCEPT !.worker = "forward", !.response = reply, !.current = None]
<1>1. /\ sess' = [sess EXCEPT ![s] = x] /\ state' = Observed(reply)
      /\ UNCHANGED <<phase, session, device>>
  BY DEF ResumeForward
<1>2. /\ IsCurrent(s) /\ Quiet(device) /\ Served(sess[s]) /\ Good(sess[s], device)
      /\ state'.valve \in {None, device.valve} /\ sess[s].worker = "exchange"
  BY <1>1, AnsweredF DEF ResumeForward, Answered
<1>3. y \in SessionType /\ Like(s, y) /\ y.active = sess[s].active
  BY SampledLike
<1> HIDE DEF y, reply
<1>4. x.worker = "forward" /\ x.active = sess[s].active /\ x.alive = sess[s].alive
  BY <1>3 DEF SessionType, Like
<1> HIDE DEF x
<1>5. Good(x, device)
  BY <1>2, <1>4 DEF Good, Served, Working
<1>6. Known(state'.valve, device)
  BY <1>2, Apart DEF Known
<1> QED
  BY <1>1, <1>2, <1>4, <1>5, <1>6, CurrentOne DEF Flow

LEMMA ResumeF == ASSUME TInv, Flow, NEW s \in Sessions, Resume(s) PROVE Flow'
<1> DEFINE reply == sess[s].current.reply
           y == Sampled(sess[s], reply)
<1>1. /\ AfterResponse(s, y, reply) /\ state' = Observed(reply)
      /\ UNCHANGED <<phase, session>>
  BY DEF Resume
<1>2. /\ IsCurrent(s) /\ Quiet(device) /\ Served(sess[s]) /\ Good(sess[s], device)
      /\ state'.valve \in {None, device.valve} /\ sess[s].worker = "exchange"
      /\ sess[s].active \in Request
  BY <1>1, AnsweredF DEF Resume, Answered
<1>3. y \in SessionType /\ Like(s, y) /\ y.active = sess[s].active
  BY SampledLike
<1>4. y.active.op \in Valves => device.obeyed = y.active.from
  BY <1>2, <1>3 DEF Good
<1> HIDE DEF y, reply
<1> QED
  BY <1>1, <1>2, <1>3, <1>4, AfterResponseF DEF Like

LEMMA ForwardDoneF ==
    ASSUME TInv, Flow, NEW s \in Sessions, NEW ok \in BOOLEAN, ForwardDone(s, ok)
    PROVE  Flow'
<1>1. /\ AfterResponse(s, sess[s], sess[s].response) /\ sess[s].worker = "forward"
      /\ UNCHANGED <<phase, session, state>>
  BY DEF ForwardDone, proxy
<1>2. sess[s] \in SessionType /\ sess[s].active \in Request
  BY <1>1, TInvFits, MaybeFacts DEF Fits, SessionType
<1>3. IsCurrent(s) => /\ Quiet(device) /\ state.valve \in {None, device.valve}
                      /\ sess[s].active.op \in Valves => device.obeyed = sess[s].active.from
  BY <1>1 DEF Flow, Known, Good, Rests
<1> QED
  BY <1>1, <1>2, <1>3, AfterResponseF

LEMMA ResumeReadbackF == ASSUME TInv, Flow, NEW s \in Sessions, ResumeReadback(s) PROVE Flow'
<1> DEFINE reply == sess[s].current.reply
           y == Sampled(sess[s], reply)
<1>1. /\ Complete(s, y, reply) /\ state' = Observed(reply)
      /\ UNCHANGED <<phase, session, device>>
  BY DEF ResumeReadback
<1>2. IsCurrent(s) /\ Quiet(device) /\ state'.valve \in {None, device.valve}
  BY <1>1, AnsweredF DEF ResumeReadback
<1>3. y \in SessionType /\ Like(s, y)
  BY SampledLike
<1> HIDE DEF y, reply
<1>4. PICK x : sess' = [sess EXCEPT ![s] = x] /\ Finished(s, y, x)
  BY <1>1, <1>3, CompleteE
<1>5. Good(x, device') /\ x.alive = sess[s].alive
  BY <1>1, <1>2, <1>3, <1>4 DEF Finished, Like, Good, Rests, Working, Served
<1>6. Known(state'.valve, device')
  BY <1>1, <1>2, Apart DEF Known
<1> QED
  BY <1>1, <1>2, <1>4, <1>5, <1>6, CurrentOne DEF Flow

LEMMA WorkerEndsF ==
    ASSUME TInv, Flow, NEW s \in Sessions, ResumeStale(s) \/ ExchangeTimeout(s)
    PROVE  Flow'
<1> DEFINE x == WorkerRaised(sess[s], sess[s].active)
<1>1. sess' = [sess EXCEPT ![s] = x] /\ UNCHANGED <<phase, session, state, device>>
  BY DEF ResumeStale, ExchangeTimeout, TimedOut, proxy
<1>2. sess[s] \in SessionType
  BY TInvFits DEF Fits
<1>3. Calm(sess[s], x)
  BY <1>2, RaisedE DEF Raised, Calm
<1> HIDE DEF x
<1> QED
  BY <1>1, <1>3, CalmOne

LEMMA WorkerDiscardF == ASSUME TInv, Flow, NEW s \in Sessions, WorkerDiscard(s) PROVE Flow'
<1> DEFINE w == Loop(s, "get")
           q == Tail(sess[s].queue)
           x == [sess[s] EXCEPT !.queue = q, !.worker = w]
<1>1. /\ sess' = [sess EXCEPT ![s] = x] /\ UNCHANGED <<phase, session, state, device>>
      /\ sess[s].worker = "get"
  BY DEF WorkerDiscard, Takes
<1>2. w \in {"get", "done"} /\ sess[s] \in SessionType
  BY TInvFits DEF Loop, Fits
<1> HIDE DEF w, q
<1>3. x.worker = w /\ x.alive = sess[s].alive
  BY <1>2 DEF SessionType
<1> HIDE DEF x
<1>4. Calm(sess[s], x)
  BY <1>1, <1>2, <1>3 DEF Calm
<1> QED
  BY <1>1, <1>4, CalmOne

-----------------------------------------------------------------------------
(* The other steps.                                                        *)

LEMMA RunStartF == ASSUME TInv, Flow, NEW s \in Sessions, WInv, RunStart(s) PROVE Flow'
<1> DEFINE x == IF sess[s].cancelled THEN [sess[s] EXCEPT !.task = "lost"]
                ELSE [sess[s] EXCEPT !.task = "running", !.worker = "get",
                        !.reader = "read", !.vendor = "connect", !.poller = "sleep"]
<1>1. sess' = [sess EXCEPT ![s] = x] /\ UNCHANGED <<phase, session, state, device>>
  BY DEF RunStart, proxy
<1>2. sess[s].worker = "idle"
  BY DEF RunStart, WInv, Placed
<1>3. Calm(sess[s], x)
  BY <1>2, TInvFits DEF Fits, SessionType, Calm
<1> HIDE DEF x
<1> QED
  BY <1>1, <1>3, CalmOne

LEMMA AbortF == ASSUME TInv, Flow, NEW s \in Sessions, Abort(s) PROVE Flow'
<1> DEFINE v == IF sess[s].vendor \in {"serve", "unwind"} THEN "unwind" ELSE "done"
           a == Released(sess[s].active)
           x == [sess[s] EXCEPT !.reader = "done", !.poller = "done", !.worker = "done",
                   !.vendor = v, !.current = None, !.response = None, !.active = a]
<1>1. sess' = [sess EXCEPT ![s] = x] /\ UNCHANGED <<phase, session, state, device>>
  BY DEF Abort, proxy
<1>2. sess[s] \in SessionType
  BY TInvFits DEF Fits
<1> HIDE DEF v, a
<1>3. x.worker = "done" /\ x.alive = sess[s].alive
  BY <1>2 DEF SessionType
<1> HIDE DEF x
<1> QED
  BY <1>1, <1>3, CalmOne DEF Calm

\* A session object that differs from y only in what the flow does not look at.
Same(y, x) == /\ x.alive = y.alive /\ x.worker = y.worker
              /\ x.current = y.current /\ x.active = y.active

LEMMA SameOne ==
    ASSUME TInv, Flow, NEW s \in Sessions, NEW x, sess' = [sess EXCEPT ![s] = x],
           UNCHANGED <<phase, session, device>>, state'.valve = state.valve,
           Same(sess[s], x)
    PROVE  Flow'
  BY CalmOne DEF Same, Calm

LEMMA EnqueueF ==
    ASSUME TInv, Flow, NEW s \in Sessions, NEW x \in SessionType, NEW r,
           UNCHANGED <<phase, session, device>>, state'.valve = state.valve,
           Same(sess[s], x), sess' = [sess EXCEPT ![s] = Enqueue(x, r)]
    PROVE  Flow'
<1> DEFINE q == Append(x.queue, r)
           y == [x EXCEPT !.queue = q]
<1>1. Enqueue(x, r) = y
  BY DEF Enqueue
<1> HIDE DEF q
<1>2. Same(sess[s], y)
  BY DEF SessionType, Same
<1> HIDE DEF y
<1> QED
  BY <1>1, <1>2, SameOne

LEMMA ReaderF ==
    ASSUME TInv, Flow, NEW s \in Sessions, ReaderFrame(s) \/ ReaderLost(s)
    PROVE  Flow'
<1> DEFINE y == [sess[s] EXCEPT !.reader = "done", !.failed = TRUE]
           m == Head(device.outbox)
<1>0. sess[s] \in SessionType /\ IsCurrent(s) /\ UNCHANGED <<phase, session, state>>
  BY TInvFits DEF Fits, ReaderFrame, ReaderLost, proxy
<1>1. Same(sess[s], y)
  BY <1>0 DEF SessionType, Same
<1>2. CASE ReaderLost(s)
  <2>1. sess' = [sess EXCEPT ![s] = y] /\ UNCHANGED <<phase, session, device, state>>
    BY <1>2 DEF ReaderLost, proxy
  <2> HIDE DEF y
  <2> QED
    BY <1>1, <2>1, SameOne
<1>3. CASE ReaderFrame(s)
  <2>1. device.outbox # <<>>
    BY <1>3 DEF ReaderFrame
  <2>2. m \in Reply /\ Replied(device, m) /\ Tells(m, device)
    BY <2>1 DEF Flow, Flight, Quiet, Asked, Replied
  <2>3. Tail(device.outbox) = <<>>
    BY <2>2, SingleFacts DEF Replied
  <2>4. device' = [device EXCEPT !.outbox = <<>>]
    BY <1>3, <2>3 DEF ReaderFrame
  <2>5. Quiet(device') /\ device'.valve = device.valve /\ device'.obeyed = device.obeyed
    BY <2>2, <2>4 DEF TInv, TypeOK, DeviceType, Quiet, Replied
  <2>6. Flight(device') /\ Known(state'.valve, device')
    BY <1>0, <2>5, Apart DEF Flow, Flight, Known
  <2>7. Good(sess[s], device) /\ ~Rests(sess[s])
    BY <1>0, <2>2, Apart DEF Flow, Good
  <2> DEFINE e == [op |-> sess[s].current.op, reply |-> m]
             x == [sess[s] EXCEPT !.current = e]
  <2>8. \/ sess' = [sess EXCEPT ![s] = y]
        \/ /\ sess' = [sess EXCEPT ![s] = x] /\ sess[s].current # None
           /\ m.op = sess[s].current.op
    BY <1>3, Zenon DEF ReaderFrame
  <2>9. CASE sess' = [sess EXCEPT ![s] = y]
    <3> HIDE DEF y
    <3>1. Good(y, device')
      <4>1. Good(y, device)
        BY <1>1, <2>7, CalmGood DEF Same, Calm
      <4> QED
        BY <2>5, <4>1, FewerGood
    <3> QED
      BY <1>0, <1>1, <2>6, <2>9, <3>1, CurrentOne DEF Same
  <2>10. CASE /\ sess' = [sess EXCEPT ![s] = x] /\ sess[s].current # None
              /\ m.op = sess[s].current.op
    <3>1. e.op = sess[s].current.op /\ e.reply = m /\ e # None
      <4>1. sess[s].current \in Exchange
        BY <1>0, <2>10, MaybeFacts DEF SessionType
      <4>2. m \in Maybe(Reply)
        BY <2>2, MaybeFacts
      <4>3. e \in Exchange
        BY <4>1, <4>2 DEF Exchange
      <4> QED
        BY <4>3
    <3> HIDE DEF e, m
    <3>2. /\ x.current = e /\ x.worker = sess[s].worker /\ x.alive = sess[s].alive
          /\ x.active = sess[s].active
      BY <1>0 DEF SessionType
    <3> HIDE DEF x
    <3>3. Tells(m, device')
      BY <2>2, <2>5 DEF Tells
    <3>4. \A r : ~Asked(device', r) /\ ~Replied(device', r)
      BY <2>5, Apart
    <3>5. ASSUME sess[s].worker = "exchange"
          PROVE  /\ Exchanges(x, device')
                 /\ x.active.op \in Valves => device'.obeyed = x.active.from
      <4>1. Exchanges(sess[s], device)
        BY <2>7, <3>5 DEF Good
      <4> QED
        BY <2>2, <2>5, <2>10, <3>1, <3>2, <3>4, <4>1 DEF Exchanges
    <3>6. ASSUME sess[s].worker = "readback" PROVE ReadsBack(x, device')
      <4>1. ReadsBack(sess[s], device)
        BY <2>7, <3>6 DEF Good
      <4>2. m.after = sess[s].active.from
        BY <2>2, <4>1 DEF ReadsBack
      <4> QED
        BY <2>5, <3>1, <3>2, <3>4, <4>1, <4>2 DEF ReadsBack
    <3>7. sess[s].worker # "forward"
      BY <2>7 DEF Rests
    <3>8. Good(x, device')
      BY <2>5, <3>1, <3>2, <3>3, <3>5, <3>6, <3>7 DEF Good
    <3> QED
      BY <1>0, <2>6, <2>10, <3>2, <3>8, CurrentOne
  <2> QED
    BY <2>8, <2>9, <2>10
<1> QED
  BY <1>2, <1>3

LEMMA VendorF == ASSUME TInv, Flow, NEW s \in Sessions, Vendor(s) PROVE Flow'
<1>0. sess[s] \in SessionType
  BY TInvFits DEF Fits
<1>1. UNCHANGED <<phase, session, device>> /\ state'.valve = state.valve
  BY DEF Vendor, VendorLost, VendorClosed, VendorConnect, VendorFrame, proxy, CloudGone,
         TInv, TypeOK, StateType
<1>2. ASSUME NEW v, NEW k,
             \/ sess' = [sess EXCEPT ![s] = [sess[s] EXCEPT !.vendor = v]]
             \/ sess' = [sess EXCEPT ![s] = [sess[s] EXCEPT !.vendor = v, !.cloud = k]]
             \/ sess' = [sess EXCEPT ![s] = [sess[s] EXCEPT !.cloud = k, !.vendor = v]]
             \/ sess' = [sess EXCEPT ![s] = sess[s]]
      PROVE  Flow'
  <2> DEFINE y1 == [sess[s] EXCEPT !.vendor = v]
             y2 == [sess[s] EXCEPT !.vendor = v, !.cloud = k]
             y3 == [sess[s] EXCEPT !.cloud = k, !.vendor = v]
  <2>1. PICK y \in {y1, y2, y3, sess[s]} : sess' = [sess EXCEPT ![s] = y]
    BY <1>2
  <2>2. Same(sess[s], y1)
    BY <1>0 DEF Same, SessionType
  <2>3. Same(sess[s], y2)
    BY <1>0 DEF Same, SessionType
  <2>4. Same(sess[s], y3)
    BY <1>0 DEF Same, SessionType
  <2>5. Same(sess[s], sess[s])
    BY DEF Same
  <2> HIDE DEF y1, y2, y3
  <2>6. Same(sess[s], y)
    BY <2>1, <2>2, <2>3, <2>4, <2>5
  <2> QED
    BY <1>1, <2>1, <2>6, SameOne
<1>3. CASE VendorLost(s)
  BY <1>2, <1>3 DEF VendorLost
<1>4. CASE VendorClosed(s)
  <2> DEFINE v == IF sess[s].vendor = "close" THEN Loop(s, "connect") ELSE "done"
  <2>1. sess' = [sess EXCEPT ![s] = [sess[s] EXCEPT !.cloud = None, !.vendor = v]]
    BY <1>4 DEF VendorClosed
  <2> HIDE DEF v
  <2> QED
    BY <1>2, <2>1
<1>5. ASSUME NEW k \in Clouds, VendorConnect(s, k) PROVE Flow'
  BY <1>2, <1>5, ZenonT(60) DEF VendorConnect
<1>6. ASSUME NEW k \in Clouds, NEW op \in VendorOps, VendorFrame(s, k, op) PROVE Flow'
  <2> DEFINE r == [op |-> op, from |-> k, n |-> cloud[k].asked + 1]
  <2>1. \/ sess' = [sess EXCEPT ![s] = sess[s]]
        \/ sess' = [sess EXCEPT ![s] = Enqueue(sess[s], r)]
        \/ sess' = [sess EXCEPT ![s] = [sess[s] EXCEPT !.vendor = "close"]]
    BY <1>6 DEF VendorFrame
  <2> HIDE DEF r
  <2>2. CASE sess' = [sess EXCEPT ![s] = Enqueue(sess[s], r)]
    BY <1>0, <1>1, <2>2, EnqueueF DEF Same
  <2> QED
    BY <1>2, <2>1, <2>2
<1> QED
  BY <1>3, <1>4, <1>5, <1>6 DEF Vendor

LEMMA PollerF == ASSUME TInv, Flow, NEW s \in Sessions, Poller(s) PROVE Flow'
<1>1. sess[s] \in SessionType
  BY TInvFits DEF Fits
<1>2. UNCHANGED <<phase, session, device, state>>
  BY DEF Poller, PollResume, PollSubmit, proxy
<1>3. ASSUME NEW w PROVE Same(sess[s], [sess[s] EXCEPT !.poller = w])
  BY <1>1 DEF SessionType, Same
<1>4. CASE PollResume(s)
  <2> DEFINE x == [sess[s] EXCEPT !.poller = "sleep"]
  <2>1. sess' = [sess EXCEPT ![s] = x]
    BY <1>4 DEF PollResume
  <2>2. Same(sess[s], x)
    BY <1>3
  <2> HIDE DEF x
  <2> QED
    BY <1>2, <2>1, <2>2, SameOne
<1>5. ASSUME NEW op \in Reads, PollSubmit(s, op) PROVE Flow'
  <2> DEFINE x == [sess[s] EXCEPT !.poller = "wait"]
             r == [op |-> op, from |-> s, n |-> 0]
  <2>1. sess' = [sess EXCEPT ![s] = Enqueue(x, r)]
    BY <1>5 DEF PollSubmit
  <2>2. x \in SessionType /\ Same(sess[s], x)
    BY <1>1, <1>3 DEF SessionType
  <2> HIDE DEF x, r
  <2> QED
    BY <1>2, <2>1, <2>2, EnqueueF
<1> QED
  BY <1>4, <1>5 DEF Poller

LEMMA CallerF == ASSUME TInv, Flow, NEW c \in Calls, Caller(c) PROVE Flow'
<1>1. UNCHANGED <<phase, session, device, state>>
  BY DEF Caller, CallReturn, CallCancel, CallSubmit, CallRefused, proxy
<1>2. ASSUME UNCHANGED sess PROVE Flow'
  <2>1. \A s \in Sessions : Calm(sess[s], sess'[s])
    BY <1>2 DEF Calm
  <2> QED
    BY <1>1, <2>1, CalmAll
<1>3. ASSUME NEW op \in CallOps, CallSubmit(c, op) PROVE Flow'
  <2> DEFINE r == [op |-> op, from |-> c, n |-> 0]
  <2>1. /\ session \in Sessions
        /\ sess' = [sess EXCEPT ![session] = Enqueue(sess[session], r)]
    BY <1>3, MaybeFacts DEF CallSubmit, TInv, TypeOK
  <2>2. sess[session] \in SessionType /\ Same(sess[session], sess[session])
    BY <2>1, TInvFits DEF Fits, Same
  <2> HIDE DEF r
  <2> QED
    BY <1>1, <2>1, <2>2, EnqueueF
<1> QED
  BY <1>2, <1>3 DEF Caller, CallReturn, CallCancel, CallRefused

LEMMA NextFlow == TInv /\ WInv /\ Flow /\ [Next]_vars => Flow'
<1> SUFFICES ASSUME TInv, WInv, Flow, [Next]_vars PROVE Flow'
  OBVIOUS
<1>1. ASSUME NEW s \in Sessions, Accept(s) \/ Run(s) PROVE Flow'
  BY <1>1, AcceptF, RunStartF, AbortF, RunCleanupF, RunDoneF DEF Run
<1>2. ASSUME NEW s \in Sessions, Worker(s) PROVE Flow'
  BY <1>2, WorkerDiscardF, WorkerSendF, ResumeForwardF, ResumeF, ForwardDoneF,
     ResumeReadbackF, WorkerEndsF DEF Worker
<1>3. ASSUME NEW s \in Sessions, ReaderFrame(s) \/ ReaderLost(s) \/ Vendor(s) \/ Poller(s)
      PROVE  Flow'
  BY <1>3, ReaderF, VendorF, PollerF
<1>4. ASSUME NEW c \in Calls, Caller(c) PROVE Flow'
  BY <1>4, CallerF
<1>5. ASSUME Terminating \/ UNCHANGED vars PROVE Flow'
  <2>1. UNCHANGED <<phase, session, sess, state, device>>
    BY <1>5 DEF Terminating, vars, proxy
  <2>2. \A s \in Sessions : Calm(sess[s], sess'[s])
    BY <2>1 DEF Calm
  <2> QED
    BY <2>1, <2>2, CalmAll
<1> QED
  BY <1>1, <1>2, <1>3, <1>4, <1>5, StopF, DeviceF DEF Next

LEMMA TrafficInvariant == Spec => [](TInv /\ WInv /\ Flow)
  BY InitTInv, NextTInv, InitWInv, NextWInv, InitFlow, NextFlow, PTL DEF Spec

\* One transaction is in flight on the device's connection: _exchange writes a
\* request only when nothing is left to come for an earlier one.
THEOREM OneTransaction == Spec => []OneInFlight
<1>1. Flow => OneInFlight
  <2>1. Len(<<>>) = 0 /\ \A m : Len(<<m>>) = 1
    OBVIOUS
  <2>2. \A d : Flight(d) => Len(d.inbox) + Len(d.outbox) <= 1
    <3> SUFFICES ASSUME NEW d, Flight(d) PROVE Len(d.inbox) + Len(d.outbox) <= 1
      OBVIOUS
    <3>1. ASSUME Quiet(d)
          PROVE  Len(d.inbox) + Len(d.outbox) <= 1
      <4>1. Len(d.inbox) = 0 /\ Len(d.outbox) = 0
        BY <2>1, <3>1, Zenon DEF Quiet
      <4> QED
        BY <4>1
    <3>2. ASSUME NEW r, Asked(d, r)
          PROVE  Len(d.inbox) + Len(d.outbox) <= 1
      <4>1. Len(d.inbox) = 1 /\ Len(d.outbox) = 0
        BY <2>1, <3>2, Zenon DEF Asked
      <4> QED
        BY <4>1
    <3>3. ASSUME NEW m, Replied(d, m)
          PROVE  Len(d.inbox) + Len(d.outbox) <= 1
      <4>1. Len(d.inbox) = 0 /\ Len(d.outbox) = 1
        BY <2>1, <3>3, Zenon DEF Replied
      <4> QED
        BY <4>1
    <3>4. Quiet(d) \/ (\E r : Asked(d, r)) \/ (\E m : Replied(d, m))
      BY Zenon DEF Flight
    <3> QED
      BY <3>1, <3>2, <3>3, <3>4, Zenon
  <2> QED
    BY <2>2 DEF Flow, OneInFlight
<1> QED
  BY <1>1, TrafficInvariant, PTL

\* The reported valve position is the position of the valve: _worker withdraws
\* a report before a command can make it wrong, and _exchange observes no
\* response of a session that was replaced.
THEOREM ValveIsTrue == Spec => []ValveTruth
<1>1. Flow => ValveTruth
  BY DEF Flow, Known, ValveTruth
<1> QED
  BY <1>1, TrafficInvariant, PTL

-----------------------------------------------------------------------------
(* What is published belongs to the current session, and stop() leaves     *)
(* nothing of any session.                                                 *)

\* The four tasks of session object x: before its group exists, and after.
Unborn(x) == /\ x.worker = "idle" /\ x.reader = "idle"
             /\ x.vendor = "idle" /\ x.poller = "idle"
Ended(x)  == /\ x.worker = "done" /\ x.reader = "done"
             /\ x.vendor = "done" /\ x.poller = "done"

\* Tasks of a group run only while its session task awaits the group.
Grouped(x) == /\ x.task \in {"none", "created", "lost"} => Unborn(x)
              /\ x.task \in {"closing", "done"} => Ended(x)

Over ==
    phase = "stopped" =>
        /\ session = None /\ state = Cleared
        /\ \A s \in Sessions : sess[s].task \in {"none", "done", "lost"}

SInv ==
    /\ phase = "up" /\ session # None => sess[session].alive
    /\ CloudFlag /\ CounterOfSession /\ Over
    /\ \A s \in Sessions : Grouped(sess[s])

-----------------------------------------------------------------------------
(* Lemmas.                                                                 *)

LEMMA NoneFacts == \A s \in Sessions : s # None
  BY DEF Origins, Callers

LEMMA InitSInv == Init => SInv
<1> SUFFICES ASSUME Init PROVE SInv
  OBVIOUS
<1>1. phase = "up" /\ session = None /\ ~state.counter
  BY DEF Init, Cleared
<1>2. \A s \in Sessions : Grouped(sess[s])
  BY DEF Init, NewSession, Grouped, Unborn
<1> QED
  BY <1>1, <1>2 DEF SInv, CloudFlag, CounterOfSession, Over

\* A task of a group that is at work: its session runs, and stop() waits.
LEMMA Runs ==
    ASSUME TInv, SInv, NEW s \in Sessions,
           \/ sess[s].worker \notin {"idle", "done"} \/ sess[s].reader \notin {"idle", "done"}
           \/ sess[s].vendor \notin {"idle", "done"} \/ sess[s].poller \notin {"idle", "done"}
    PROVE  sess[s].task = "running" /\ phase # "stopped"
<1>1. sess[s] \in SessionType /\ Grouped(sess[s])
  BY TInvFits DEF Fits, SInv
<1>2. sess[s].task = "running"
  BY <1>1 DEF Grouped, Unborn, Ended, SessionType
<1> QED
  BY <1>2 DEF SInv, Over

\* What is published stays, or is of the current session s, which becomes x.
Publishes(s, x) ==
    /\ \/ state'.cloud = state.cloud /\ x.cloud = sess[s].cloud
       \/ IsCurrent(s) /\ (state'.cloud <=> x.cloud # None)
       \/ ~IsCurrent(s) /\ state'.cloud = state.cloud
    /\ \/ state'.counter = state.counter /\ x.sampled = sess[s].sampled
       \/ session = s /\ (state'.counter => x.sampled)

LEMMA RunsOne ==
    ASSUME TInv, SInv, NEW s \in Sessions, NEW x, sess' = [sess EXCEPT ![s] = x],
           phase # "stopped", Grouped(x),
           x.alive = sess[s].alive, UNCHANGED <<phase, session>>, Publishes(s, x)
    PROVE  SInv'
<1>1. sess'[s] = x /\ \A t \in Sessions \ {s} : sess'[t] = sess[t]
  BY DEF TInv, TypeOK
<1>2. phase' = "up" /\ session' # None => session' \in Sessions /\ sess'[session'].alive
  BY <1>1, MaybeFacts DEF SInv, TInv, TypeOK
<1>3. CloudFlag'
  BY <1>1, <1>2, NoneFacts DEF SInv, CloudFlag, Publishes, IsCurrent
<1>4. CounterOfSession'
  BY <1>1, NoneFacts, MaybeFacts DEF SInv, CounterOfSession, Publishes, TInv, TypeOK
<1>5. \A t \in Sessions : Grouped(sess'[t])
  BY <1>1 DEF SInv
<1> QED
  BY <1>2, <1>3, <1>4, <1>5 DEF SInv, Over

\* Nothing is published and only what no property here looks at changes.
Idles(y, x) ==
    /\ x.alive = y.alive /\ x.task = y.task /\ x.cloud = y.cloud /\ x.sampled = y.sampled
    /\ x.worker = y.worker /\ x.reader = y.reader /\ x.vendor = y.vendor /\ x.poller = y.poller

LEMMA IdlesAll ==
    ASSUME TInv, SInv, \A s \in Sessions : Idles(sess[s], sess'[s]),
           UNCHANGED <<phase, session, state>>
    PROVE  SInv'
<1>1. session \in Maybe(Sessions)
  BY DEF TInv, TypeOK
<1>2. session # None => session \in Sessions
  BY <1>1, MaybeFacts
<1>3. CloudFlag' /\ CounterOfSession' /\ Over'
  BY <1>2 DEF SInv, Idles, CloudFlag, CounterOfSession, Over
<1>4. \A s \in Sessions : Grouped(sess'[s])
  BY DEF SInv, Idles, Grouped, Unborn, Ended
<1> QED
  BY <1>2, <1>3, <1>4 DEF SInv, Idles

\* A session that runs and goes on.
LEMMA GoesOnS ==
    ASSUME TInv, SInv, NEW s \in Sessions, NEW x, sess' = [sess EXCEPT ![s] = x],
           sess[s].task = "running", phase # "stopped", x.task = "running",
           x.alive = sess[s].alive, UNCHANGED <<phase, session>>, Publishes(s, x)
    PROVE  SInv'
<1>1. Grouped(x)
  BY DEF Grouped
<1> QED
  BY <1>1, RunsOne

-----------------------------------------------------------------------------
(* The steps of the session task.                                          *)

LEMMA AcceptS == ASSUME TInv, SInv, NEW s \in Sessions, Accept(s) PROVE SInv'
<1> DEFINE old(t) == [sess[t] EXCEPT !.alive = FALSE, !.cancelled = TRUE]
           new == [NewSession EXCEPT !.task = "created", !.alive = TRUE]
<1>1. phase = "up" /\ phase' = "up" /\ session' = s /\ state' = Cleared
  BY DEF Accept
<1>2. sess' = [t \in Sessions |-> IF t = s THEN new ELSE IF t = session THEN old(t) ELSE sess[t]]
  BY DEF Accept
<1>3. /\ new.alive /\ new.cloud = None /\ new.task = "created" /\ Unborn(new)
  <2>1. [NewSession EXCEPT !.task = "created"].cloud = None
    BY DEF NewSession
  <2> QED
    BY DEF NewSession, Unborn
<1>4. ASSUME NEW t \in Sessions PROVE Grouped(old(t))
  <2>1. /\ old(t).task = sess[t].task /\ old(t).worker = sess[t].worker
        /\ old(t).reader = sess[t].reader /\ old(t).vendor = sess[t].vendor
        /\ old(t).poller = sess[t].poller
    BY TInvFits DEF Fits, SessionType
  <2> HIDE DEF old
  <2> QED
    BY <2>1 DEF SInv, Grouped, Unborn, Ended
<1> HIDE DEF old, new
<1>5. Grouped(new)
  BY <1>3 DEF Grouped
<1>6. \A t \in Sessions : Grouped(sess'[t])
  BY <1>2, <1>4, <1>5 DEF SInv
<1>7. CloudFlag' /\ CounterOfSession' /\ Over'
  BY <1>1, <1>2, <1>3 DEF CloudFlag, CounterOfSession, Over, Cleared
<1> QED
  BY <1>1, <1>2, <1>3, <1>6, <1>7 DEF SInv

LEMMA RunStartS == ASSUME TInv, SInv, NEW s \in Sessions, RunStart(s) PROVE SInv'
<1> DEFINE x == IF sess[s].cancelled THEN [sess[s] EXCEPT !.task = "lost"]
                ELSE [sess[s] EXCEPT !.task = "running", !.worker = "get",
                        !.reader = "read", !.vendor = "connect", !.poller = "sleep"]
<1>1. /\ sess' = [sess EXCEPT ![s] = x] /\ sess[s].task = "created"
      /\ UNCHANGED <<phase, session, state>>
  BY DEF RunStart, proxy
<1>2. sess[s] \in SessionType /\ Unborn(sess[s])
  BY <1>1, TInvFits DEF Fits, SInv, Grouped
<1>3. x.alive = sess[s].alive /\ x.cloud = sess[s].cloud /\ x.sampled = sess[s].sampled
  BY <1>2 DEF SessionType
<1>4. Grouped(x)
  BY <1>2 DEF SessionType, Grouped, Unborn
<1> HIDE DEF x
<1>5. Publishes(s, x) /\ phase # "stopped"
  BY <1>1, <1>3 DEF Publishes, SInv, Over
<1> QED
  BY <1>1, <1>3, <1>4, <1>5, RunsOne

LEMMA AbortS == ASSUME TInv, SInv, NEW s \in Sessions, Abort(s) PROVE SInv'
<1> DEFINE v == IF sess[s].vendor \in {"serve", "unwind"} THEN "unwind" ELSE "done"
           a == Released(sess[s].active)
           x == [sess[s] EXCEPT !.reader = "done", !.poller = "done", !.worker = "done",
                   !.vendor = v, !.current = None, !.response = None, !.active = a]
<1>1. /\ sess' = [sess EXCEPT ![s] = x] /\ sess[s].task = "running"
      /\ UNCHANGED <<phase, session, state>>
  BY DEF Abort, proxy
<1>2. sess[s] \in SessionType
  BY TInvFits DEF Fits
<1> HIDE DEF v, a
<1>3. /\ x.alive = sess[s].alive /\ x.cloud = sess[s].cloud /\ x.sampled = sess[s].sampled
      /\ x.task = sess[s].task
  BY <1>2 DEF SessionType
<1> HIDE DEF x
<1>4. Publishes(s, x) /\ phase # "stopped"
  BY <1>1, <1>3 DEF Publishes, SInv, Over
<1> QED
  BY <1>1, <1>3, <1>4, GoesOnS

LEMMA RunCleanupS == ASSUME TInv, SInv, NEW s \in Sessions, RunCleanup(s) PROVE SInv'
<1> DEFINE x == [sess[s] EXCEPT !.task = "closing", !.alive = FALSE, !.current = None,
                   !.queue = <<>>, !.active = None, !.cloud = None,
                   !.sampled = FALSE, !.failed = FALSE]
<1>1. /\ sess' = [sess EXCEPT ![s] = x] /\ sess[s].task = "running" /\ GroupDone(s)
      /\ session' = CleanupSession(s) /\ phase' = phase
      /\ state' = IF session = s THEN Cleared ELSE state
  BY DEF RunCleanup
<1>2. sess[s] \in SessionType /\ session \in Maybe(Sessions)
  BY TInvFits DEF Fits, TInv, TypeOK
<1>3. /\ x.task = "closing" /\ x.worker = "done" /\ x.reader = "done"
      /\ x.vendor = "done" /\ x.poller = "done"
  BY <1>1, <1>2 DEF SessionType, GroupDone
<1> HIDE DEF x
<1>4. Grouped(x)
  BY <1>3 DEF Grouped, Ended
<1>5. sess'[s] = x /\ \A t \in Sessions \ {s} : sess'[t] = sess[t]
  BY <1>1 DEF TInv, TypeOK
<1>6. \A t \in Sessions : Grouped(sess'[t])
  BY <1>4, <1>5 DEF SInv
<1>7. phase # "stopped"
  BY <1>1 DEF SInv, Over
<1>8. CASE session = s
  <2>1. session' = None /\ ~state'.counter
    BY <1>1, <1>8 DEF CleanupSession, Cleared
  <2> QED
    BY <1>1, <1>6, <1>7, <2>1 DEF SInv, CloudFlag, CounterOfSession, Over
<1>9. CASE session # s
  <2>1. session' = session /\ state' = state
    BY <1>1, <1>9 DEF CleanupSession
  <2>2. session # None => session \in Sessions \ {s}
    BY <1>2, <1>9, MaybeFacts
  <2> QED
    BY <1>1, <1>5, <1>6, <1>7, <2>1, <2>2 DEF SInv, CloudFlag, CounterOfSession, Over
<1> QED
  BY <1>8, <1>9

LEMMA RunDoneS == ASSUME TInv, SInv, NEW s \in Sessions, RunDone(s) PROVE SInv'
<1> DEFINE x == [sess[s] EXCEPT !.task = "done"]
<1>1. /\ sess' = [sess EXCEPT ![s] = x] /\ sess[s].task = "closing"
      /\ UNCHANGED <<phase, session, state>>
  BY DEF RunDone, proxy
<1>2. sess[s] \in SessionType /\ Ended(sess[s])
  BY <1>1, TInvFits DEF Fits, SInv, Grouped
<1>3. /\ x.alive = sess[s].alive /\ x.cloud = sess[s].cloud /\ x.sampled = sess[s].sampled
      /\ x.task = "done" /\ Ended(x)
  BY <1>2 DEF SessionType, Ended
<1> HIDE DEF x
<1>4. Publishes(s, x) /\ phase # "stopped" /\ Grouped(x)
  BY <1>1, <1>3 DEF Publishes, SInv, Over, Grouped
<1> QED
  BY <1>1, <1>3, <1>4, RunsOne

LEMMA StopBeginS == ASSUME TInv, SInv, StopBegin PROVE SInv'
<1>1. phase' = "stopping" /\ UNCHANGED <<session, state>> /\ session \in Maybe(Sessions)
  BY DEF StopBegin, TInv, TypeOK
<1>2. ASSUME NEW s \in Sessions PROVE Idles(sess[s], sess'[s])
  <2> DEFINE b == sess[s].cancelled \/ Unfinished(s)
             x == [sess[s] EXCEPT !.cancelled = b]
  <2>1. sess'[s] = x
    BY DEF StopBegin, Cancelled
  <2>2. sess[s] \in SessionType
    BY TInvFits DEF Fits
  <2> HIDE DEF b
  <2>3. Idles(sess[s], x)
    BY <2>2 DEF Idles, SessionType
  <2> HIDE DEF x
  <2> QED
    BY <2>1, <2>3
<1>3. CounterOfSession'
  BY <1>1, <1>2, MaybeFacts DEF SInv, CounterOfSession, Idles
<1>4. \A s \in Sessions : Grouped(sess'[s])
  BY <1>2 DEF SInv, Idles, Grouped, Unborn, Ended
<1> QED
  BY <1>1, <1>3, <1>4 DEF SInv, CloudFlag, Over

LEMMA StopEndS == ASSUME TInv, SInv, StopEnd PROVE SInv'
<1>1. /\ phase' = "stopped" /\ session' = None /\ state' = Cleared /\ sess' = sess /\ Gathered
  BY DEF StopEnd
<1>2. \A s \in Sessions : sess[s].task \in {"none", "done", "lost"}
  BY <1>1, TInvFits DEF Gathered, Unfinished, Fits, SessionType
<1> QED
  BY <1>1, <1>2 DEF SInv, CloudFlag, CounterOfSession, Over, Cleared

-----------------------------------------------------------------------------
(* The steps of the worker.                                                *)

\* Of session object y, only the worker and its request change.
Works(y, x) ==
    /\ x.alive = y.alive /\ x.task = y.task /\ x.cloud = y.cloud /\ x.sampled = y.sampled

LEMMA WorksOne ==
    ASSUME TInv, SInv, NEW s \in Sessions, NEW x, sess' = [sess EXCEPT ![s] = x],
           sess[s].worker \notin {"idle", "done"}, Works(sess[s], x),
           UNCHANGED <<phase, session>>,
           state'.cloud = state.cloud, state'.counter = state.counter
    PROVE  SInv'
  BY Runs, GoesOnS DEF Works, Publishes

LEMMA WorkerDiscardS == ASSUME TInv, SInv, NEW s \in Sessions, WorkerDiscard(s) PROVE SInv'
<1> DEFINE w == Loop(s, "get")
           q == Tail(sess[s].queue)
           x == [sess[s] EXCEPT !.queue = q, !.worker = w]
<1>1. /\ sess' = [sess EXCEPT ![s] = x] /\ UNCHANGED <<phase, session, state>>
      /\ sess[s].worker = "get"
  BY DEF WorkerDiscard, Takes
<1>2. sess[s] \in SessionType
  BY TInvFits DEF Fits
<1> HIDE DEF w, q
<1>3. Works(sess[s], x)
  BY <1>2 DEF Works, SessionType
<1> HIDE DEF x
<1> QED
  BY <1>1, <1>3, WorksOne

LEMMA WorkerSendS == ASSUME TInv, SInv, NEW s \in Sessions, WorkerSend(s) PROVE SInv'
<1>1. PICK x : sess' = [sess EXCEPT ![s] = x] /\ (Sends(s, sess[s], x) \/ SendsNot(s, sess[s], x))
  BY WorkerSendE
<1>2. sess[s].worker = "get" /\ UNCHANGED <<phase, session>>
  BY DEF WorkerSend, Takes
<1>3. state'.cloud = state.cloud /\ state'.counter = state.counter
  BY DEF WorkerSend, Invalidated, TInv, TypeOK, StateType
<1>4. Works(sess[s], x)
  BY <1>1 DEF Works, Sends, SendsNot
<1> QED
  BY <1>1, <1>2, <1>3, <1>4, WorksOne

\* A response is observed by the current session.
LEMMA ObservesS ==
    ASSUME TInv, SInv, NEW s \in Sessions, NEW where \in {"exchange", "readback"},
           Answered(s, where), StillCurrent(s), NEW x, sess' = [sess EXCEPT ![s] = x],
           Works(Sampled(sess[s], sess[s].current.reply), x),
           UNCHANGED <<phase, session>>, state' = Observed(sess[s].current.reply)
    PROVE  SInv'
<1> DEFINE reply == sess[s].current.reply
           b == sess[s].sampled \/ reply.op = "snapshot"
           y == [sess[s] EXCEPT !.sampled = b]
           v == IF reply.op \in Reads THEN reply.report ELSE state.valve
           n == state.counter \/ reply.op = "snapshot"
<1>1. sess[s] \in SessionType /\ sess[s].worker = where /\ session = s
  BY TInvFits DEF Fits, Answered, StillCurrent, IsCurrent
<1>2. Sampled(sess[s], reply) = y
  BY DEF Sampled
<1>3. state' = [state EXCEPT !.device = TRUE, !.valve = v, !.counter = n]
  BY DEF Observed
<1>4. n => b
  BY <1>1, NoneFacts DEF SInv, CounterOfSession
<1>5. b \in BOOLEAN /\ n \in BOOLEAN
  OBVIOUS
<1> HIDE DEF reply, b, v, n
<1>6. state'.cloud = state.cloud /\ state'.counter = n
  BY <1>3, <1>5 DEF TInv, TypeOK, StateType
<1>7. /\ y.alive = sess[s].alive /\ y.task = sess[s].task /\ y.cloud = sess[s].cloud
      /\ y.sampled = b
  BY <1>1, <1>5 DEF SessionType
<1>8. Works(y, x)
  BY <1>2 DEF reply
<1> HIDE DEF y
<1>9. Publishes(s, x)
  BY <1>1, <1>4, <1>6, <1>7, <1>8 DEF Publishes, Works
<1> QED
  BY <1>1, <1>7, <1>8, <1>9, Runs, GoesOnS DEF Works

LEMMA AfterResponseS ==
    ASSUME NEW s \in Sessions, NEW y \in SessionType, NEW reply, AfterResponse(s, y, reply)
    PROVE  \E x : sess' = [sess EXCEPT ![s] = x] /\ Works(y, x)
<1>1. PICK x : /\ sess' = [sess EXCEPT ![s] = x]
               /\ Finished(s, y, x) \/ Raised(y, x) \/ Confirms(y, x)
  BY AfterResponseE
<1>2. Works(y, x)
  BY <1>1 DEF Finished, Raised, Confirms, Works
<1> QED
  BY <1>1, <1>2

LEMMA WorkerResumesS ==
    ASSUME TInv, SInv, NEW s \in Sessions,
           ResumeForward(s) \/ Resume(s) \/ ResumeReadback(s)
    PROVE  SInv'
<1> DEFINE reply == sess[s].current.reply
           y == Sampled(sess[s], reply)
<1>0. UNCHANGED <<phase, session>> /\ state' = Observed(reply) /\ StillCurrent(s)
  BY DEF ResumeForward, Resume, ResumeReadback
<1>1. y \in SessionType
  BY SampledLike
<1>2. PICK where \in {"exchange", "readback"} : Answered(s, where)
  BY DEF ResumeForward, Resume, ResumeReadback
<1>3. \E x : sess' = [sess EXCEPT ![s] = x] /\ Works(y, x)
  <2>1. CASE ResumeForward(s)
    <3> DEFINE x == [y EXCEPT !.worker = "forward", !.response = reply, !.current = None]
    <3>1. sess' = [sess EXCEPT ![s] = x]
      BY <2>1 DEF ResumeForward
    <3> HIDE DEF y, reply
    <3>2. Works(y, x)
      BY <1>1 DEF Works, SessionType
    <3> HIDE DEF x
    <3> QED
      BY <3>1, <3>2
  <2>2. CASE Resume(s)
    <3>1. AfterResponse(s, y, reply)
      BY <2>2 DEF Resume
    <3> HIDE DEF y, reply
    <3> QED
      BY <1>1, <3>1, AfterResponseS
  <2>3. CASE ResumeReadback(s)
    <3>1. Complete(s, y, reply)
      BY <2>3 DEF ResumeReadback
    <3> HIDE DEF y, reply
    <3> QED
      BY <1>1, <3>1, CompleteE DEF Finished, Works
  <2> QED
    BY <2>1, <2>2, <2>3
<1> QED
  BY <1>0, <1>2, <1>3, ObservesS

LEMMA ForwardDoneS ==
    ASSUME TInv, SInv, NEW s \in Sessions, NEW ok \in BOOLEAN, ForwardDone(s, ok)
    PROVE  SInv'
<1>1. /\ AfterResponse(s, sess[s], sess[s].response) /\ sess[s].worker = "forward"
      /\ UNCHANGED <<phase, session, state>>
  BY DEF ForwardDone, proxy
<1>2. sess[s] \in SessionType
  BY TInvFits DEF Fits
<1> QED
  BY <1>1, <1>2, AfterResponseS, WorksOne

LEMMA WorkerEndsS ==
    ASSUME TInv, SInv, NEW s \in Sessions, ResumeStale(s) \/ ExchangeTimeout(s)
    PROVE  SInv'
<1> DEFINE x == WorkerRaised(sess[s], sess[s].active)
<1>1. /\ sess' = [sess EXCEPT ![s] = x] /\ UNCHANGED <<phase, session, state>>
      /\ sess[s].worker \in {"exchange", "readback"}
  BY DEF ResumeStale, ExchangeTimeout, TimedOut, proxy, Answered
<1>2. sess[s] \in SessionType
  BY TInvFits DEF Fits
<1>3. Works(sess[s], x)
  BY <1>2, RaisedE DEF Raised, Works
<1> HIDE DEF x
<1> QED
  BY <1>1, <1>3, WorksOne

-----------------------------------------------------------------------------
(* The other steps.                                                        *)

LEMMA ReaderS ==
    ASSUME TInv, SInv, NEW s \in Sessions, ReaderFrame(s) \/ ReaderLost(s)
    PROVE  SInv'
<1> DEFINE e == [op |-> sess[s].current.op, reply |-> Head(device.outbox)]
           y1 == [sess[s] EXCEPT !.current = e]
           y2 == [sess[s] EXCEPT !.reader = "done", !.failed = TRUE]
<1>1. PICK y \in {y1, y2} : sess' = [sess EXCEPT ![s] = y]
  BY ZenonT(60) DEF ReaderFrame, ReaderLost
<1>2. UNCHANGED <<phase, session, state>> /\ sess[s].reader = "read"
  BY DEF ReaderFrame, ReaderLost, proxy
<1>3. sess[s] \in SessionType
  BY TInvFits DEF Fits
<1> HIDE DEF e
<1>4. Works(sess[s], y1)
  BY <1>3 DEF Works, SessionType
<1>5. Works(sess[s], y2)
  BY <1>3 DEF Works, SessionType
<1> HIDE DEF y1, y2
<1>6. Works(sess[s], y)
  BY <1>1, <1>4, <1>5
<1> QED
  BY <1>1, <1>2, <1>6, Runs, GoesOnS DEF Works, Publishes

LEMMA VendorS == ASSUME TInv, SInv, NEW s \in Sessions, Vendor(s) PROVE SInv'
<1>0. sess[s] \in SessionType /\ UNCHANGED <<phase, session>>
  BY TInvFits DEF Fits, Vendor, VendorLost, VendorClosed, VendorConnect, VendorFrame, proxy
<1>1. sess[s].vendor \notin {"idle", "done"}
  BY DEF Vendor, VendorLost, VendorClosed, VendorConnect, VendorFrame
<1>2. ASSUME NEW x, sess' = [sess EXCEPT ![s] = x], Works(sess[s], x),
             state'.cloud = state.cloud, state'.counter = state.counter
      PROVE  SInv'
  BY <1>0, <1>1, <1>2, Runs, GoesOnS DEF Works, Publishes
<1>3. CASE VendorLost(s)
  <2> DEFINE x == [sess[s] EXCEPT !.vendor = "close"]
  <2>1. sess' = [sess EXCEPT ![s] = x] /\ UNCHANGED state
    BY <1>3 DEF VendorLost, proxy
  <2>2. Works(sess[s], x)
    BY <1>0 DEF Works, SessionType
  <2> HIDE DEF x
  <2> QED
    BY <1>2, <2>1, <2>2
<1>4. CASE VendorClosed(s)
  <2> DEFINE v == IF sess[s].vendor = "close" THEN Loop(s, "connect") ELSE "done"
             x == [sess[s] EXCEPT !.cloud = None, !.vendor = v]
  <2>1. sess' = [sess EXCEPT ![s] = x]
    BY <1>4 DEF VendorClosed
  <2> HIDE DEF v
  <2>2. /\ x.alive = sess[s].alive /\ x.task = sess[s].task /\ x.cloud = None
        /\ x.sampled = sess[s].sampled
    BY <1>0 DEF SessionType
  <2>3. state'.counter = state.counter /\ state'.cloud = IF IsCurrent(s) THEN FALSE ELSE state.cloud
    BY <1>4 DEF VendorClosed, CloudGone, TInv, TypeOK, StateType
  <2> HIDE DEF x
  <2>4. Publishes(s, x)
    BY <2>2, <2>3 DEF Publishes
  <2> QED
    BY <1>0, <1>1, <2>1, <2>2, <2>4, Runs, GoesOnS
<1>5. ASSUME NEW k \in Clouds, VendorConnect(s, k) PROVE SInv'
  <2> DEFINE x == [sess[s] EXCEPT !.vendor = "serve", !.cloud = k]
  <2>1. sess' = [sess EXCEPT ![s] = x] /\ IsCurrent(s)
    BY <1>5 DEF VendorConnect
  <2>2. /\ x.alive = sess[s].alive /\ x.task = sess[s].task /\ x.cloud = k
        /\ x.sampled = sess[s].sampled
    BY <1>0 DEF SessionType
  <2>3. state'.counter = state.counter /\ state'.cloud
    BY <1>5 DEF VendorConnect, TInv, TypeOK, StateType
  <2>4. k # None
    BY DEF Origins
  <2> HIDE DEF x
  <2>5. Publishes(s, x)
    BY <2>1, <2>2, <2>3, <2>4 DEF Publishes
  <2> QED
    BY <1>0, <1>1, <2>1, <2>2, <2>5, Runs, GoesOnS
<1>6. ASSUME NEW k \in Clouds, NEW op \in VendorOps, VendorFrame(s, k, op) PROVE SInv'
  <2> DEFINE r == [op |-> op, from |-> k, n |-> cloud[k].asked + 1]
             q == Append(sess[s].queue, r)
             y1 == [sess[s] EXCEPT !.queue = q]
             y2 == [sess[s] EXCEPT !.vendor = "close"]
  <2>1. /\ UNCHANGED state
        /\ \/ sess' = [sess EXCEPT ![s] = sess[s]]
           \/ sess' = [sess EXCEPT ![s] = y1]
           \/ sess' = [sess EXCEPT ![s] = y2]
    BY <1>6 DEF VendorFrame, Enqueue
  <2> HIDE DEF q
  <2>2. Works(sess[s], y1)
    BY <1>0 DEF Works, SessionType
  <2>3. Works(sess[s], y2)
    BY <1>0 DEF Works, SessionType
  <2>4. Works(sess[s], sess[s])
    BY DEF Works
  <2> HIDE DEF y1, y2
  <2> QED
    BY <1>2, <2>1, <2>2, <2>3, <2>4
<1> QED
  BY <1>3, <1>4, <1>5, <1>6 DEF Vendor

LEMMA PollerS == ASSUME TInv, SInv, NEW s \in Sessions, Poller(s) PROVE SInv'
<1>0. sess[s] \in SessionType /\ UNCHANGED <<phase, session, state>>
  BY TInvFits DEF Fits, Poller, PollResume, PollSubmit, proxy
<1>1. sess[s].poller \notin {"idle", "done"}
  BY DEF Poller, PollResume, PollSubmit
<1>2. \E x : sess' = [sess EXCEPT ![s] = x] /\ Works(sess[s], x)
  <2>1. CASE PollResume(s)
    <3> DEFINE x == [sess[s] EXCEPT !.poller = "sleep"]
    <3>1. sess' = [sess EXCEPT ![s] = x]
      BY <2>1 DEF PollResume
    <3>2. Works(sess[s], x)
      BY <1>0 DEF Works, SessionType
    <3> HIDE DEF x
    <3> QED
      BY <3>1, <3>2
  <2>2. ASSUME NEW op \in Reads, PollSubmit(s, op)
        PROVE  \E x : sess' = [sess EXCEPT ![s] = x] /\ Works(sess[s], x)
    <3> DEFINE r == [op |-> op, from |-> s, n |-> 0]
               y == [sess[s] EXCEPT !.poller = "wait"]
               q == Append(y.queue, r)
               x == [y EXCEPT !.queue = q]
    <3>1. sess' = [sess EXCEPT ![s] = x]
      BY <2>2 DEF PollSubmit, Enqueue
    <3>2. y \in SessionType /\ Works(sess[s], y)
      BY <1>0 DEF Works, SessionType
    <3> HIDE DEF q, y
    <3>3. Works(y, x)
      BY <3>2 DEF Works, SessionType
    <3> HIDE DEF x
    <3> QED
      BY <3>1, <3>2, <3>3 DEF Works
  <2> QED
    BY <2>1, <2>2 DEF Poller
<1> QED
  BY <1>0, <1>1, <1>2, Runs, GoesOnS DEF Works, Publishes

LEMMA CallerS == ASSUME TInv, SInv, NEW c \in Calls, Caller(c) PROVE SInv'
<1>1. UNCHANGED <<phase, session, state>>
  BY DEF Caller, CallReturn, CallCancel, CallSubmit, CallRefused, proxy
<1>2. ASSUME UNCHANGED sess PROVE SInv'
  BY <1>1, <1>2, IdlesAll DEF Idles
<1>3. ASSUME NEW op \in CallOps, CallSubmit(c, op) PROVE SInv'
  <2> DEFINE r == [op |-> op, from |-> c, n |-> 0]
             q == Append(sess[session].queue, r)
             x == [sess[session] EXCEPT !.queue = q]
  <2>1. session \in Sessions /\ sess' = [sess EXCEPT ![session] = x]
    BY <1>3, MaybeFacts DEF CallSubmit, Enqueue, TInv, TypeOK
  <2>2. sess[session] \in SessionType
    BY <2>1, TInvFits DEF Fits
  <2> HIDE DEF q
  <2>3. Idles(sess[session], x)
    BY <2>2 DEF Idles, SessionType
  <2> HIDE DEF x
  <2>4. \A s \in Sessions : Idles(sess[s], sess'[s])
    BY <2>1, <2>3 DEF TInv, TypeOK, Idles
  <2> QED
    BY <1>1, <2>4, IdlesAll
<1> QED
  BY <1>2, <1>3 DEF Caller, CallReturn, CallCancel, CallRefused

LEMMA NextSInv == TInv /\ SInv /\ [Next]_vars => SInv'
<1> SUFFICES ASSUME TInv, SInv, [Next]_vars PROVE SInv'
  OBVIOUS
<1>1. ASSUME NEW s \in Sessions, Accept(s) \/ Run(s) PROVE SInv'
  BY <1>1, AcceptS, RunStartS, AbortS, RunCleanupS, RunDoneS DEF Run
<1>2. ASSUME NEW s \in Sessions, Worker(s) PROVE SInv'
  BY <1>2, WorkerDiscardS, WorkerSendS, WorkerResumesS, ForwardDoneS, WorkerEndsS DEF Worker
<1>3. ASSUME NEW s \in Sessions, ReaderFrame(s) \/ ReaderLost(s) \/ Vendor(s) \/ Poller(s)
      PROVE  SInv'
  BY <1>3, ReaderS, VendorS, PollerS
<1>4. ASSUME NEW c \in Calls, Caller(c) PROVE SInv'
  BY <1>4, CallerS
<1>5. ASSUME Device \/ Terminating \/ UNCHANGED vars PROVE SInv'
  <2>1. UNCHANGED <<phase, session, state, sess>>
    BY <1>5 DEF Device, DeviceDrop, DeviceReply, Terminating, vars, proxy
  <2> QED
    BY <2>1, IdlesAll DEF Idles
<1> QED
  BY <1>1, <1>2, <1>3, <1>4, <1>5, StopBeginS, StopEndS DEF Next

LEMMA StateInvariant == Spec => [](TInv /\ WInv /\ SInv)
  BY InitTInv, NextTInv, InitWInv, NextWInv, InitSInv, NextSInv, PTL DEF Spec

\* cloud_connected is true exactly while the current session holds a vendor
\* connection, whatever loops of older sessions still do (_cloud_loop).
THEOREM CloudFlagTrue == Spec => []CloudFlag
<1>1. SInv => CloudFlag
  BY DEF SInv
<1> QED
  BY <1>1, StateInvariant, PTL

\* The published counter was read from the connection that is current now:
\* _accept clears the state and _exchange observes nothing of an older session.
THEOREM CounterIsCurrent == Spec => []CounterOfSession
<1>1. SInv => CounterOfSession
  BY DEF SInv
<1> QED
  BY <1>1, StateInvariant, PTL

\* When stop() has returned, no task of any session is left, nothing is shown as
\* connected and no caller of a session that ended is still waiting.
THEOREM StopLeavesNothing == Spec => []StoppedIsQuiet
<1>1. TInv /\ WInv /\ SInv => StoppedIsQuiet
  <2> SUFFICES ASSUME TInv, WInv, SInv, phase = "stopped" PROVE StoppedIsQuiet
    BY DEF StoppedIsQuiet
  <2>1. \A s \in Sessions : sess[s].task = "done" => GroupDone(s)
    BY DEF SInv, Grouped, Ended, GroupDone
  <2>2. ASSUME NEW s \in Sessions, sess[s].task = "done", NEW c \in Calls, call[c].home = s
        PROVE  future[c] # "pending"
    BY <2>2 DEF WInv, WaiterHeld
  <2> QED
    BY <2>1, <2>2 DEF SInv, Over, StoppedIsQuiet
<1> QED
  BY <1>1, StateInvariant, PTL

=============================================================================
