------------------------------- MODULE Proxy -------------------------------
(***************************************************************************)
(* The local TCP proxy of the eVodnik integration (proxy.py).  The device  *)
(* keeps one connection to the proxy; every accepted connection becomes a  *)
(* Session with four asyncio tasks: a reader of device frames, a worker    *)
(* that runs one request at a time, a loop that keeps a vendor connection  *)
(* and forwards its frames, and a poller.  Native and MQTT callers submit  *)
(* requests to the same bounded queue and await a future.                  *)
(*                                                                         *)
(* An action is the code a task runs between two awaits.  Left out: bytes  *)
(* and tags of frames (a reply carries the operation it matches), time     *)
(* stamps, the error text, and delays, which only fix when a step is due.  *)
(* An operator named like another with a suffix, just before it, is the    *)
(* slip a run must notice if it took the other's place.                    *)
(***************************************************************************)
EXTENDS Naturals, Sequences, FiniteSets

CONSTANTS
    Sessions,     \* device connections, each accepted at most once
    Calls,        \* local API calls: set_valve or refresh, each made once
    Clouds,       \* vendor connections, each opened at most once
    CallOps,      \* the operations local callers ask for
    VendorOps,    \* the operations the vendor asks for
    QueueLimit,   \* Settings.queue_limit
    FirstValves,  \* bound: the positions the valve may have at the start
    MaxFrames,    \* bound: frames sent on one vendor connection
    None          \* Python's None

Maybe(S) == S \cup {None}

Valves  == {"open", "closed"}
Reads   == {"status", "snapshot"}
Ops     == Valves \cup Reads \cup {"other"}
Callers == Calls \cup Sessions       \* a poll request is its session's
Origins == Callers \cup Clouds

\* n numbers the frames of one vendor connection, 0 for local requests.
Request  == [op : Ops, from : Origins, n : 0..MaxFrames]

\* `report` is the valve position a read contains, `bad` an acknowledgment
\* with unexpected content, `after` (history) the origin of the last valve
\* command the device had handled.
Reply    == [op : Ops, report : Maybe(Valves), bad : BOOLEAN,
             after : Maybe(Origins)]
Exchange == [op : Ops, reply : Maybe(Reply)]

ASSUME ConstantsAssumption ==
    /\ CallOps \subseteq Valves \cup {"snapshot"}
    /\ VendorOps \subseteq Ops
    /\ FirstValves \subseteq Valves
    /\ QueueLimit \in Nat \ {0}
    /\ MaxFrames \in Nat

ASSUME NamesAssumption ==
    /\ Sessions \cap Calls = {} /\ Sessions \cap Clouds = {} /\ Calls \cap Clouds = {}
    /\ None \notin Origins \cup Valves
    /\ None \notin Request /\ None \notin Reply /\ None \notin Exchange

VARIABLES
    phase,     \* "up", then "stopping" (_closing is set) and "stopped"
    session,   \* Proxy._session
    state,     \* Proxy.state; `counter`: total_liters is known
    dropped,   \* Proxy.dropped_messages
    sess,      \* the Session objects and the positions of their tasks
    future,    \* Request.result of every caller
    call,      \* set_valve and refresh calls; `writes` is history
    cloud,     \* the Cloud objects; asked, passed, answered are history
    device     \* the device: its connection, traffic in flight, valve

proxy == <<phase, session, state, dropped>>
vars  == <<proxy, sess, future, call, cloud, device>>

-----------------------------------------------------------------------------
StateType == [device : BOOLEAN, cloud : BOOLEAN,
              valve : Maybe(Valves), counter : BOOLEAN]
Cleared   == [device |-> FALSE, cloud |-> FALSE, valve |-> None, counter |-> FALSE]

\* `task` is the session task: "lost" if it was cancelled before its first
\* step, "closing" while its finally block awaits close_writer.
SessionType ==
    [task      : {"none", "created", "running", "closing", "done", "lost"},
     worker    : {"idle", "get", "exchange", "forward", "readback", "done"},
     reader    : {"idle", "read", "done"},
     vendor    : {"idle", "connect", "serve", "close", "unwind", "done"},
     poller    : {"idle", "sleep", "wait", "done"},
     alive     : BOOLEAN, cancelled : BOOLEAN, failed : BOOLEAN, sampled : BOOLEAN,
     queue     : Seq(Request),
     active    : Maybe(Request),
     current   : Maybe(Exchange),
     response  : Maybe(Reply),
     cloud     : Maybe(Clouds)]

NewSession ==
    [task |-> "none", worker |-> "idle", reader |-> "idle", vendor |-> "idle",
     poller |-> "idle", alive |-> FALSE, cancelled |-> FALSE, failed |-> FALSE,
     sampled |-> FALSE, queue |-> <<>>, active |-> None, current |-> None,
     response |-> None, cloud |-> None]

CallType   == [op : Maybe(Ops), home : Maybe(Sessions),
               outcome : {"idle", "waiting", "ok", "unconfirmed", "unavailable",
                          "full", "cancelled"},
               answer : Maybe(Reply), writes : Nat]
CloudType  == [used : BOOLEAN, alive : BOOLEAN, asked : 0..MaxFrames,
               passed : Nat, answered : Seq(0..MaxFrames)]
DeviceType == [on : Maybe(Sessions), inbox : Seq(Request), outbox : Seq(Reply),
               valve : Valves, obeyed : Maybe(Origins)]

Init ==
    /\ phase = "up" /\ session = None /\ state = Cleared /\ dropped = 0
    /\ sess = [s \in Sessions |-> NewSession]
    /\ future = [o \in Callers |-> "none"]
    /\ call = [c \in Calls |-> [op |-> None, home |-> None, outcome |-> "idle",
                                answer |-> None, writes |-> 0]]
    /\ cloud = [k \in Clouds |-> [used |-> FALSE, alive |-> FALSE, asked |-> 0,
                                  passed |-> 0, answered |-> <<>>]]
    /\ \E v \in FirstValves : device = [on |-> None, inbox |-> <<>>, outbox |-> <<>>,
                                        valve |-> v, obeyed |-> None]

-----------------------------------------------------------------------------
(* Shared helpers.                                                         *)

IsCurrent(s) == phase = "up" /\ sess[s].alive /\ session = s

\* The loop condition of a task that finished one round.
Loop(s, again) == IF IsCurrent(s) THEN again ELSE "done"

\* The check _exchange makes after its awaits.
StillCurrentUnchecked(s) == TRUE
StillCurrent(s) == IsCurrent(s)

\* asyncio.Queue(queue_limit): otherwise put_nowait raises QueueFull.
HasRoomOffByOne(s) == Len(sess[s].queue) <= QueueLimit
HasRoom(s) == Len(sess[s].queue) < QueueLimit

EnqueueFront(x, r) == [x EXCEPT !.queue = <<r>> \o @]
Enqueue(x, r) == [x EXCEPT !.queue = Append(@, r)]

\* The connection is open and still the one the session forwards to.
Attached(s, k) == k \in Clouds /\ cloud[k].alive /\ sess[s].cloud = k

\* `request.result is None or request.result.done()`.
Settled(r) == r.from \in Clouds \/ future[r.from] # "pending"

\* The worker's finally block keeps a failed operation of a waiting caller.
ReleasedAlways(r) == None
Released(r) == IF r = None \/ Settled(r) THEN None ELSE r

\* The worker leaves with an exception while it handles request r.
WorkerRaised(x, r) ==
    [x EXCEPT !.worker = "done", !.failed = TRUE, !.current = None,
              !.response = None, !.active = Released(r)]

\* Any response proves the device is there; a status or snapshot carries the
\* valve position, a snapshot the counter too.
Observed(reply) ==
    [state EXCEPT !.device = TRUE,
                  !.valve = IF reply.op \in Reads THEN reply.report ELSE @,
                  !.counter = @ \/ reply.op = "snapshot"]
Sampled(x, reply) == [x EXCEPT !.sampled = @ \/ reply.op = "snapshot"]

\* A frame written on session s reaches the device only if it is still there.
Written(s, r) ==
    IF device.on = s THEN [device EXCEPT !.inbox = Append(@, r)] ELSE device

Closed(k) == IF k = None THEN cloud ELSE [cloud EXCEPT ![k].alive = FALSE]

-----------------------------------------------------------------------------
(* Connection generations.                                                 *)

\* The previous session's task is cancelled and its sockets are closed.
Accept(s) ==
    /\ phase = "up"
    /\ sess[s].task = "none"
    /\ sess' = [t \in Sessions |->
         IF t = s THEN [NewSession EXCEPT !.task = "created", !.alive = TRUE]
         ELSE IF t = session THEN [sess[t] EXCEPT !.alive = FALSE, !.cancelled = TRUE]
         ELSE sess[t]]
    /\ cloud' = IF session = None THEN cloud ELSE Closed(sess[session].cloud)
    /\ session' = s
    /\ state' = Cleared
    /\ device' = [device EXCEPT !.on = s, !.inbox = <<>>, !.outbox = <<>>]
    /\ UNCHANGED <<phase, dropped, future, call>>

\* The first step of the session task creates the four tasks of its group.  If
\* it was cancelled before, it never enters the try statement of _run_session,
\* and its finally block does not run.
RunStart(s) ==
    /\ sess[s].task = "created"
    /\ sess' = [sess EXCEPT ![s] =
         IF @.cancelled THEN [@ EXCEPT !.task = "lost"]
         ELSE [@ EXCEPT !.task = "running", !.worker = "get", !.reader = "read",
                        !.vendor = "connect", !.poller = "sleep"]]
    /\ UNCHANGED <<proxy, future, call, cloud, device>>

\* The task group cancels its tasks when one raised or the session task was
\* cancelled.  Their CancelledErrors are delivered back to back in the event
\* loop's queue, so they are one step here; the failure and this step are two,
\* and other tasks may run between.  The vendor loop still closes a connection
\* it serves and awaits that; cancelled while closing, it leaves Session.cloud.
\* In a session that is not current (then it is cancelled too) the reader,
\* poller or vendor loop may notice first and return, to the same effect.
Abort(s) ==
    /\ sess[s].task = "running"
    /\ sess[s].failed \/ sess[s].cancelled
    /\ \/ sess[s].reader # "done" \/ sess[s].poller # "done"
       \/ sess[s].worker # "done" \/ sess[s].vendor \notin {"unwind", "done"}
    /\ future' = [future EXCEPT ![s] = IF @ = "pending" THEN "cancelled" ELSE @]
    /\ sess' = [sess EXCEPT ![s] =
         [@ EXCEPT !.reader = "done", !.poller = "done", !.worker = "done",
                   !.vendor = IF sess[s].vendor \in {"serve", "unwind"}
                              THEN "unwind" ELSE "done",
                   !.current = None, !.response = None,
                   !.active = Released(sess[s].active)]]
    /\ cloud' = IF sess[s].vendor = "serve" THEN Closed(sess[s].cloud) ELSE cloud
    /\ UNCHANGED <<proxy, call, device>>

GroupDone(s) == /\ sess[s].worker = "done" /\ sess[s].reader = "done"
                /\ sess[s].vendor = "done" /\ sess[s].poller = "done"

\* An older session must not evict its successor.
CleanupSessionAlways(s) == None
CleanupSession(s) == IF session = s THEN None ELSE session

\* The requests a session still holds: its queue and the active one.
HeldActiveOnly(s) == {sess[s].active} \ {None}
Held(s) == {sess[s].queue[i] : i \in DOMAIN sess[s].queue}
             \cup ({sess[s].active} \ {None})

LeftoverNone(s) == 0
Leftover(s) == Cardinality({i \in DOMAIN sess[s].queue :
                              sess[s].queue[i].from \in Clouds})

\* The finally block of _run_session up to its first await.  Nothing reads the
\* remaining fields of the object again; they are reset to keep states few.
RunCleanup(s) ==
    /\ sess[s].task = "running"
    /\ GroupDone(s)
    /\ session' = CleanupSession(s)
    /\ state' = IF session = s THEN Cleared ELSE state
    /\ dropped' = dropped + Leftover(s)
    /\ future' = [o \in Callers |->
         IF future[o] = "pending" /\ \E r \in Held(s) : r.from = o
         THEN "rejected" ELSE future[o]]
    /\ cloud' = Closed(sess[s].cloud)
    /\ sess' = [sess EXCEPT ![s] =
         [@ EXCEPT !.task = "closing", !.alive = FALSE, !.current = None,
                   !.queue = <<>>, !.active = None, !.cloud = None,
                   !.sampled = FALSE, !.failed = FALSE]]
    /\ UNCHANGED <<phase, call, device>>

\* close_writer returned (or was cancelled): the socket is closed.
RunDone(s) ==
    /\ sess[s].task = "closing"
    /\ sess' = [sess EXCEPT ![s].task = "done"]
    /\ device' = IF device.on = s THEN [device EXCEPT !.on = None, !.inbox = <<>>]
                 ELSE device
    /\ UNCHANGED <<proxy, future, call, cloud>>

-----------------------------------------------------------------------------
(* The worker: one request at a time.                                      *)

Takes(s) == sess[s].worker = "get" /\ sess[s].queue # <<>>

\* The caller went away (cancelled or timed out) while its request waited, or
\* the vendor connection of the request did.
SkippedNever(r) == FALSE
Skipped(r) == r.from \in Callers /\ future[r.from] = "cancelled"
OrphanedNever(s, r) == FALSE
Orphaned(s, r) == r.from \in Clouds /\ ~Attached(s, r.from)

WorkerDiscard(s) ==
    /\ Takes(s)
    /\ LET r == Head(sess[s].queue) IN
       /\ Skipped(r) \/ Orphaned(s, r)
       /\ dropped' = IF Orphaned(s, r) THEN dropped + 1 ELSE dropped
    /\ sess' = [sess EXCEPT ![s].queue = Tail(@), ![s].worker = Loop(s, "get")]
    /\ UNCHANGED <<phase, session, state, future, call, cloud, device>>

\* A valve command about to be sent makes the last report worthless.
InvalidatedNever(op) == state
Invalidated(op) == IF op \in Valves THEN [state EXCEPT !.valve = None] ELSE state

\* The first exchange of a request.  The valve is marked unknown even if the
\* exchange then finds the session replaced and raises.
WorkerSend(s) ==
    /\ Takes(s)
    /\ LET r == Head(sess[s].queue)
           x == [sess[s] EXCEPT !.queue = Tail(@)]
       IN
       /\ ~Skipped(r) /\ ~Orphaned(s, r)
       /\ state' = Invalidated(r.op)
       /\ IF IsCurrent(s)
          THEN /\ sess' = [sess EXCEPT ![s] =
                    [x EXCEPT !.active = r, !.worker = "exchange",
                              !.current = [op |-> r.op, reply |-> None]]]
               /\ device' = Written(s, r)
               /\ call' = IF r.from \in Calls
                          THEN [call EXCEPT ![r.from].writes = @ + 1] ELSE call
               /\ cloud' = IF r.from \in Clouds
                           THEN [cloud EXCEPT ![r.from].passed = @ + 1] ELSE cloud
          ELSE /\ sess' = [sess EXCEPT ![s] = WorkerRaised(x, r)]
               /\ UNCHANGED <<device, call, cloud>>
    /\ UNCHANGED <<phase, session, dropped, future>>

\* The request is over: its future is set unless the caller went away.
Complete(s, x, reply) ==
    LET o == x.active.from IN
    /\ future' = IF Settled(x.active) THEN future ELSE [future EXCEPT ![o] = "set"]
    /\ call' = IF Settled(x.active) \/ o \notin Calls THEN call
               ELSE [call EXCEPT ![o].answer = reply]
    /\ sess' = [sess EXCEPT ![s] =
         [x EXCEPT !.worker = Loop(s, "get"), !.active = None,
                   !.current = None, !.response = None]]

\* After the response, and its forwarding if any: a valve command must have a
\* plain acknowledgment and is followed by a status read on the same session.
AfterResponse(s, x, reply) ==
    IF x.active.op \notin Valves
    THEN Complete(s, x, reply) /\ UNCHANGED device
    ELSE /\ UNCHANGED <<future, call>>
         /\ IF reply.bad \/ ~IsCurrent(s)
            THEN /\ sess' = [sess EXCEPT ![s] = WorkerRaised(x, x.active)]
                 /\ UNCHANGED device
            ELSE /\ sess' = [sess EXCEPT ![s] =
                      [x EXCEPT !.worker = "readback", !.response = None,
                                !.current = [op |-> "status", reply |-> None]]]
                 /\ device' = Written(s, [op |-> "status", from |-> x.active.from,
                                          n |-> 0])

\* _exchange resumes with the response it awaited.
Answered(s, where) ==
    /\ sess[s].worker = where
    /\ sess[s].current # None /\ sess[s].current.reply # None

\* The vendor is still attached: write the response to it and await drain().
ResumeForward(s) ==
    /\ Answered(s, "exchange") /\ StillCurrent(s)
    /\ Attached(s, sess[s].active.from)
    /\ LET reply == sess[s].current.reply
           r     == sess[s].active
       IN
       /\ state' = Observed(reply)
       /\ cloud' = [cloud EXCEPT ![r.from].answered = Append(@, r.n)]
       /\ sess' = [sess EXCEPT ![s] =
            [Sampled(@, reply) EXCEPT !.worker = "forward", !.response = reply,
                                      !.current = None]]
    /\ UNCHANGED <<phase, session, dropped, future, call, device>>

Resume(s) ==
    /\ Answered(s, "exchange") /\ StillCurrent(s)
    /\ ~Attached(s, sess[s].active.from)
    /\ LET reply == sess[s].current.reply IN
       /\ state' = Observed(reply)
       /\ AfterResponse(s, Sampled(sess[s], reply), reply)
    /\ UNCHANGED <<phase, session, dropped, cloud>>

\* drain() ended, or failed or timed out: then the vendor socket is closed.
ForwardDone(s, ok) ==
    /\ sess[s].worker = "forward"
    /\ cloud' = IF ok THEN cloud ELSE Closed(sess[s].active.from)
    /\ AfterResponse(s, sess[s], sess[s].response)
    /\ UNCHANGED proxy

\* The response to the status read that follows a valve command.
ResumeReadback(s) ==
    /\ Answered(s, "readback") /\ StillCurrent(s)
    /\ LET reply == sess[s].current.reply IN
       /\ state' = Observed(reply)
       /\ Complete(s, Sampled(sess[s], reply), reply)
    /\ UNCHANGED <<phase, session, dropped, cloud, device>>

\* A late response of a session that was replaced or stopped is not observed;
\* a write or response deadline may fire even if the response is set already
\* but the worker has not resumed.  Both retire the session.
TimedOutGoesOn(x) == [x EXCEPT !.worker = "get", !.current = None, !.active = None]
TimedOut(x) == WorkerRaised(x, x.active)

ResumeStale(s) ==
    /\ Answered(s, "exchange") \/ Answered(s, "readback")
    /\ ~StillCurrent(s)
    /\ sess' = [sess EXCEPT ![s] = WorkerRaised(@, @.active)]
    /\ UNCHANGED <<proxy, future, call, cloud, device>>

ExchangeTimeout(s) ==
    /\ sess[s].worker \in {"exchange", "readback"}
    /\ sess' = [sess EXCEPT ![s] = TimedOut(@)]
    /\ UNCHANGED <<proxy, future, call, cloud, device>>

-----------------------------------------------------------------------------
(* The reader of device frames.                                            *)

\* A response goes to the exchange that awaits it; anything else is ambiguous
\* and ends the session.
ReaderFrame(s) ==
    /\ sess[s].reader = "read" /\ IsCurrent(s) /\ device.outbox # <<>>
    /\ LET reply == Head(device.outbox)
           x     == sess[s]
       IN sess' = [sess EXCEPT ![s] =
            IF x.current # None /\ x.current.reply = None /\ reply.op = x.current.op
            THEN [x EXCEPT !.current = [op |-> x.current.op, reply |-> reply]]
            ELSE [x EXCEPT !.reader = "done", !.failed = TRUE]]
    /\ device' = [device EXCEPT !.outbox = Tail(@)]
    /\ UNCHANGED <<proxy, future, call, cloud>>

\* End of stream, invalid bytes, the deadline of a partial frame, or a frame
\* the device was not asked for.
ReaderLost(s) ==
    /\ sess[s].reader = "read" /\ IsCurrent(s)
    /\ sess' = [sess EXCEPT ![s].reader = "done", ![s].failed = TRUE]
    /\ UNCHANGED <<proxy, future, call, cloud, device>>

-----------------------------------------------------------------------------
(* The vendor loop.                                                        *)

\* A refused attempt and the wait before the next one change nothing:
\* "connect" stands for all of them.
VendorConnect(s, k) ==
    /\ sess[s].vendor = "connect" /\ IsCurrent(s) /\ ~cloud[k].used
    /\ sess' = [sess EXCEPT ![s].vendor = "serve", ![s].cloud = k]
    /\ cloud' = [cloud EXCEPT ![k].used = TRUE, ![k].alive = TRUE]
    /\ state' = [state EXCEPT !.cloud = TRUE]
    /\ UNCHANGED <<phase, session, dropped, future, call, device>>

\* A frame arrives.  It is queued; or counted as dropped if the session or the
\* connection was given up; or it meets a full queue, and the connection with
\* its gap is closed.
VendorFrame(s, k, op) ==
    /\ sess[s].vendor = "serve" /\ sess[s].cloud = k /\ cloud[k].asked < MaxFrames
    /\ LET wanted == IsCurrent(s) /\ Attached(s, k)
           r      == [op |-> op, from |-> k, n |-> cloud[k].asked + 1]
       IN
       /\ dropped' = IF wanted /\ HasRoom(s) THEN dropped ELSE dropped + 1
       /\ cloud' = [cloud EXCEPT ![k].asked = @ + 1,
                                 ![k].alive = @ /\ (wanted => HasRoom(s))]
       /\ sess' = [sess EXCEPT ![s] =
            IF ~wanted THEN @
            ELSE IF HasRoom(s) THEN Enqueue(@, r) ELSE [@ EXCEPT !.vendor = "close"]]
    /\ UNCHANGED <<phase, session, state, future, call, device>>

\* End of stream, a reset, invalid bytes or a late partial frame: the vendor
\* loop closes its side and awaits close_writer.
VendorLost(s) ==
    /\ sess[s].vendor = "serve"
    /\ cloud' = Closed(sess[s].cloud)
    /\ sess' = [sess EXCEPT ![s].vendor = "close"]
    /\ UNCHANGED <<proxy, future, call, device>>

CloudGoneNever(s) == state
CloudGone(s) == IF IsCurrent(s) THEN [state EXCEPT !.cloud = FALSE] ELSE state

\* close_writer returned; "unwind" is the same wait of a cancelled task.
VendorClosed(s) ==
    /\ sess[s].vendor \in {"close", "unwind"}
    /\ state' = CloudGone(s)
    /\ sess' = [sess EXCEPT ![s].cloud = None,
         ![s].vendor = IF @ = "close" THEN Loop(s, "connect") ELSE "done"]
    /\ UNCHANGED <<phase, session, dropped, future, call, cloud, device>>

-----------------------------------------------------------------------------
(* The poller: a snapshot is due first and then again, between them a      *)
(* status read.  A full queue is ignored until the next round.             *)

PollSubmit(s, op) ==
    /\ sess[s].poller = "sleep" /\ IsCurrent(s) /\ HasRoom(s)
    /\ op = "snapshot" \/ sess[s].sampled
    /\ future' = [future EXCEPT ![s] = "pending"]
    /\ sess' = [sess EXCEPT ![s] = Enqueue([@ EXCEPT !.poller = "wait"],
                                           [op |-> op, from |-> s, n |-> 0])]
    /\ UNCHANGED <<proxy, call, cloud, device>>

PollResume(s) ==
    /\ sess[s].poller = "wait" /\ future[s] = "set"
    /\ future' = [future EXCEPT ![s] = "none"]
    /\ sess' = [sess EXCEPT ![s].poller = "sleep"]
    /\ UNCHANGED <<proxy, call, cloud, device>>

-----------------------------------------------------------------------------
(* Local callers: set_valve (a valve operation) and refresh (a snapshot).  *)

CallSubmit(c, op) ==
    /\ call[c].outcome = "idle"
    /\ session # None /\ IsCurrent(session) /\ HasRoom(session)
    /\ call' = [call EXCEPT ![c].op = op, ![c].home = session,
                            ![c].outcome = "waiting"]
    /\ future' = [future EXCEPT ![c] = "pending"]
    /\ sess' = [sess EXCEPT ![session] =
         Enqueue(@, [op |-> op, from |-> c, n |-> 0])]
    /\ UNCHANGED <<proxy, cloud, device>>

\* DeviceUnavailable, or QueueFull if a session is current.
CallRefused(c, op) ==
    LET current == IF session = None THEN FALSE ELSE IsCurrent(session) IN
    /\ call[c].outcome = "idle"
    /\ current => ~HasRoom(session)
    /\ call' = [call EXCEPT ![c].op = op,
                  ![c].outcome = IF current THEN "full" ELSE "unavailable"]
    /\ UNCHANGED <<proxy, sess, future, cloud, device>>

\* set_valve succeeds only if the status read shows what was asked for.
ConfirmedByAck(c) == TRUE
Confirmed(c) == call[c].answer.report = call[c].op

\* The caller resumes after its future was completed.
CallReturn(c) ==
    /\ call[c].outcome = "waiting"
    /\ future[c] \in {"set", "rejected"}
    /\ call' = [call EXCEPT ![c].outcome =
         CASE future[c] = "rejected" -> "unavailable"
           [] future[c] = "set" /\ call[c].op \notin Valves -> "ok"
           [] OTHER -> IF ~IsCurrent(call[c].home) THEN "unavailable"
                       ELSE IF Confirmed(c) THEN "ok" ELSE "unconfirmed"]
    /\ UNCHANGED <<proxy, sess, future, cloud, device>>

\* The caller is cancelled or its own deadline ends: cancelling its task
\* cancels the future it awaits at once.
CallCancel(c) ==
    /\ call[c].outcome = "waiting"
    /\ call' = [call EXCEPT ![c].outcome = "cancelled"]
    /\ future' = [future EXCEPT ![c] = IF @ = "pending" THEN "cancelled" ELSE @]
    /\ UNCHANGED <<proxy, sess, cloud, device>>

-----------------------------------------------------------------------------
(* Stopping.                                                               *)

Unfinished(s) == sess[s].task \in {"created", "running", "closing"}

CancelledNone(s) == sess[s]
Cancelled(s) == [sess[s] EXCEPT !.cancelled = @ \/ Unfinished(s)]

\* stop() up to its await: no new session, all tasks cancelled, all device
\* connections closed.
StopBegin ==
    /\ phase = "up"
    /\ phase' = "stopping"
    /\ sess' = [s \in Sessions |-> Cancelled(s)]
    /\ device' = [device EXCEPT !.on = None, !.inbox = <<>>, !.outbox = <<>>]
    /\ UNCHANGED <<session, state, dropped, future, call, cloud>>

\* The gather of stop(): every session task has ended.
GatheredUnchecked == TRUE
Gathered == \A s \in Sessions : ~Unfinished(s)

StopEnd ==
    /\ phase = "stopping" /\ Gathered
    /\ phase' = "stopped"
    /\ session' = None
    /\ state' = Cleared
    /\ UNCHANGED <<dropped, sess, future, call, cloud, device>>

-----------------------------------------------------------------------------
(* The device, not under src/: it serves one connection, in order, answers *)
(* each request at most once, and moves its valve only on command.  It may *)
(* ignore a command, report an unknown position, or acknowledge with       *)
(* content the proxy does not know.                                        *)

DeviceReply(obeys, known, bad) ==
    /\ device.inbox # <<>>
    /\ LET r        == Head(device.inbox)
           isValve  == r.op \in Valves
           position == IF isValve /\ obeys THEN r.op ELSE device.valve
           last     == IF isValve THEN r.from ELSE device.obeyed
       IN
       /\ isValve \/ (obeys /\ ~bad)
       /\ r.op \in Reads \/ known
       /\ device' =
            [device EXCEPT !.inbox = Tail(@), !.valve = position, !.obeyed = last,
               !.outbox = Append(@, [op |-> r.op, bad |-> bad, after |-> last,
                 report |-> IF r.op \in Reads /\ known THEN position ELSE None])]
    /\ UNCHANGED <<proxy, sess, future, call, cloud>>

\* The device vanishes; what it sent may still arrive.
DeviceDrop ==
    /\ device.on # None
    /\ device' = [device EXCEPT !.on = None, !.inbox = <<>>]
    /\ UNCHANGED <<proxy, sess, future, call, cloud>>

-----------------------------------------------------------------------------
(* The specification.                                                      *)

Run(s)    == RunStart(s) \/ Abort(s) \/ RunCleanup(s) \/ RunDone(s)
Worker(s) == \/ WorkerDiscard(s) \/ WorkerSend(s)
             \/ ResumeForward(s) \/ Resume(s) \/ ResumeReadback(s)
             \/ ResumeStale(s) \/ ExchangeTimeout(s)
             \/ \E ok \in BOOLEAN : ForwardDone(s, ok)
Vendor(s) == \/ VendorLost(s) \/ VendorClosed(s)
             \/ \E k \in Clouds : \/ VendorConnect(s, k)
                                  \/ \E op \in VendorOps : VendorFrame(s, k, op)
Poller(s) == PollResume(s) \/ \E op \in Reads : PollSubmit(s, op)
Caller(c) == \/ CallReturn(c) \/ CallCancel(c)
             \/ \E op \in CallOps : CallSubmit(c, op) \/ CallRefused(c, op)
Device    == DeviceDrop \/ \E obeys, known, bad \in BOOLEAN : DeviceReply(obeys, known, bad)

\* Once stop() was called no step is due but those of Fairness (StopEnds).
Terminating == phase # "up" /\ UNCHANGED vars

Next ==
    \/ \E s \in Sessions : \/ Accept(s) \/ Run(s) \/ Worker(s)
                           \/ ReaderFrame(s) \/ ReaderLost(s)
                           \/ Vendor(s) \/ Poller(s)
    \/ \E c \in Calls : Caller(c)
    \/ StopBegin \/ StopEnd \/ Device \/ Terminating

Spec == Init /\ [][Next]_vars

\* The event loop runs every ready task and every wait of the proxy has a
\* deadline; nothing is assumed of the device, the vendor or the callers.
FairSpec ==
    /\ Spec
    /\ \A s \in Sessions : WF_vars(Run(s)) /\ WF_vars(Worker(s)) /\ WF_vars(VendorClosed(s))
    /\ \A c \in Calls : WF_vars(CallReturn(c))
    /\ WF_vars(StopEnd)

-----------------------------------------------------------------------------
(* Properties.                                                             *)

\* Types, and no queue ever exceeds the configured limit (asyncio.Queue of
\* _accept, put_nowait of _submit and _enqueue_cloud).
TypeOK ==
    /\ phase \in {"up", "stopping", "stopped"}
    /\ session \in Maybe(Sessions)
    /\ state \in StateType
    /\ dropped \in Nat
    /\ sess \in [Sessions -> SessionType]
    /\ future \in [Callers -> {"none", "pending", "set", "rejected", "cancelled"}]
    /\ call \in [Calls -> CallType]
    /\ cloud \in [Clouds -> CloudType]
    /\ device \in DeviceType
    /\ \A s \in Sessions : Len(sess[s].queue) <= QueueLimit

\* The reported valve position is the position of the valve, for every order
\* of local and vendor commands, timeouts, late responses and replaced
\* connections: a report is withdrawn before a command can make it wrong
\* (_worker), and a response of a replaced session is not observed (_exchange).
ValveTruth == state.valve # None => state.valve = device.valve

\* set_valve returns normally only on a report of the requested position that
\* the device composed after it had handled this very command, and no other
\* one in between (_worker reads the status back, set_valve checks it).
ConfirmedByReadback ==
    \A c \in Calls :
        call[c].outcome = "ok" /\ call[c].op \in Valves =>
            call[c].answer.after = c /\ call[c].answer.report = call[c].op

\* One transaction is in flight on the device's connection: a request is
\* written only when nothing is left to come for an earlier one, so a late
\* response never meets a later request (docs/protocol.md; _exchange retires
\* the session on a timeout).
OneInFlight == Len(device.inbox) + Len(device.outbox) <= 1

\* A caller that waits is never forgotten: its request is in the queue or
\* active in the session it was submitted to, and that session's cleanup is
\* still to come -- unless the session was cancelled before its first step.
WaiterHeld ==
    \A c \in Calls : future[c] = "pending" =>
        /\ \E r \in Held(call[c].home) : r.from = c
        /\ sess[call[c].home].task \in {"created", "running", "lost"}

\* What stop() and a lost session promise in docs/protocol.md, without that
\* exception: every pending call will be answered or rejected.
WaiterReleased ==
    \A c \in Calls : future[c] = "pending" =>
        sess[call[c].home].task \in {"created", "running"}

\* A live session with a task is the one calls are routed to: the cleanup of
\* an older session never evicts its successor (_run_session, line 262).
LiveSessionRouted ==
    \A s \in Sessions :
        phase = "up" /\ sess[s].alive /\ sess[s].task \in {"created", "running"}
            => session = s

\* The published counter was read from the connection that is current now:
\* nothing of an older generation survives _accept or is published late.
CounterOfSession == state.counter => session # None /\ sess[session].sampled

\* cloud_connected is true exactly while the current session holds a vendor
\* connection; loops of older sessions do not disturb it (_cloud_loop).
CloudFlag ==
    phase = "up" /\ session # None =>
        (state.cloud <=> sess[session].cloud # None)

\* On every vendor connection the answered requests are the first ones asked,
\* in order and without a gap: once a frame is dropped, no later one of that
\* connection is answered (_enqueue_cloud, _cloud_loop).
VendorReplyOrder ==
    \A k \in Clouds : \A i \in DOMAIN cloud[k].answered : cloud[k].answered[i] = i

\* A vendor connection is never owed more than one answer, and in the session
\* in service an open one is owed an answer exactly while the worker waits for
\* it: what was written to the device for it is forwarded before the worker
\* goes on, and nothing is written for a connection that is gone, whose
\* requests would never be answered (_worker, _cloud_loop).
VendorAnswered ==
    \A k \in Clouds :
        LET owed == cloud[k].passed - Len(cloud[k].answered) IN
        /\ owed \in {0, 1}
        /\ \A s \in Sessions :
              IsCurrent(s) /\ Attached(s, k) /\ sess[s].worker # "done" =>
                  (owed = 1 <=> sess[s].worker = "exchange" /\ sess[s].active.from = k)

\* Every vendor request is accounted for once: written to the device, counted
\* in dropped_messages or still queued, except that a session may lose the one
\* request its worker had just taken when the session ended.
DropAccounting ==
    LET asked   == Cardinality({p \in Clouds \X (1..MaxFrames) : p[2] <= cloud[p[1]].asked})
        passed  == Cardinality({p \in Clouds \X (1..MaxFrames) : p[2] <= cloud[p[1]].passed})
        waiting == Cardinality({p \in Sessions \X (1..QueueLimit) :
                                  /\ p[2] \in DOMAIN sess[p[1]].queue
                                  /\ sess[p[1]].queue[p[2]].from \in Clouds})
        known   == passed + dropped + waiting
    IN /\ known <= asked
       /\ asked - known <= Cardinality({s \in Sessions : sess[s].worker = "done"})

\* When stop() returns, nothing of the proxy runs or is shown as connected,
\* and every caller was answered, except those of a lost session.
StoppedIsQuiet ==
    phase = "stopped" =>
        /\ session = None /\ state = Cleared
        /\ \A s \in Sessions :
              /\ sess[s].task \in {"none", "done", "lost"}
              /\ sess[s].task = "done" =>
                    /\ GroupDone(s)
                    /\ \A c \in Calls : call[c].home = s => future[c] # "pending"

\* Every call of set_valve and refresh comes to an end, whatever the device
\* and the vendor do, unless its session was lost before its first step.
CallsEnd ==
    \A c \in Calls :
        call[c].outcome = "waiting" ~>
            call[c].outcome # "waiting" \/ sess[call[c].home].task = "lost"

\* stop() returns: no session task and no socket can hold it up.
StopEnds == phase = "stopping" ~> phase = "stopped"

=============================================================================
