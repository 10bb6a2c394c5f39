# TLA+ models of the eVodnik integration

These modules describe the eVodnik integration for Home Assistant
(`src/custom_components/evodnik`): a local TCP proxy between a water controller
and its vendor's server, a meter derived from the device's counter, and an
optional MQTT mirror. TLC checks the modules on small instances; TLAPS proves
the theorems for every value of the constants.

Run inside this directory: `tlc -config MCProxy_calls.cfg MCProxy.tla` (and the
other configurations; `PROJECT.json` names the module of each), and `tlapm M.tla`
for `ProxyProofs`, `ProxyTraffic`, `ProxyPromise`, `ProxyVendor`, `ProtocolProofs`,
`RuntimeProofs`, `DiscoveryProofs` and `PublisherProofs`.

## 1. The system

Everything runs in one asyncio event loop: between two `await`s a task is
atomic, and every await is a point where other tasks, callbacks, cancellation
and connections arriving or ending may come in between.

| component | state | operations | what makes it correct |
|---|---|---|---|
| Local proxy, `proxy.py` | `Proxy.state`, `_session`, `_closing`, `dropped_messages`; per connection a `Session` (queue, active request, exchange, vendor connection, four tasks) | `_accept`, `set_valve`, `refresh`, `stop`; tasks `_device_reader`, `_worker`, `_cloud_loop`, `_poll`; cleanup in `_run_session` | one transaction in flight; reported valve and counter are true and of the current connection; a command is confirmed by its read-back and never repeated; every waiter gets an answer; replies go, in order, to the vendor connection that asked; old generations disturb nothing; `stop()` ends and leaves nothing running |
| Wire protocol, `protocol.py`, `read_stream` of `proxy.py` | `Parser` buffer, the deadline of a partial frame | `decode`, `encode`, `crc16`, `matches`, `valve_command`, `status_values`, `Parser.feed`, `finish` | frames come out as they were sent, however the stream is split; a damaged one never does; a partial frame has one deadline; an answer is told from any other frame |
| Runtime and meter, `runtime.py`, `meter.py` | offset, last counter, reset flag, stored file, calibration lock | observe, set reading, load, save, start, stop | the reading never goes backwards and is unknown after a decrease; a confirmed setting survives a crash |
| MQTT publisher, `mqtt.py` | connection generation, needs (refresh, discovery), subscriptions, command task, retained messages at the broker | callbacks for connection, birth and command messages; `_run`; `_publish`; `stop` | `online` is retained only with a report verified since the last (re)connection; at most one command; no command kept for later |
| Discovery registry, `mqtt_discovery.py` | owned topics, pending removals, file | `load`, `set_topics`, `flush`, `_run` | every retained topic is recorded as owned or as to be removed; an owned topic is never removed; removals are carried out in the end |
| Life cycle, `__init__.py` | the entry's Runtime | setup, unload, remove | a failed or stopped entry leaves nothing behind |
| Configuration, `config_flow.py` | none of its own | validation, listener probe, meter option | no two entries share a port or a prefix |
| Entities, diagnostics | none | views of the above | - |

The proxy calls back into the runtime on every change (`_proxy_changed`), which
lets the meter observe the counter and notifies entities and the publisher.
Entities and the publisher call `Proxy.set_valve` and `refresh`; the options
flow calls `Runtime.set_meter_reading`, which calls `refresh`. Setup and unload
start and stop all of them. What is hard to test here is listed, line by line,
under `hazards` in `PROJECT.json`, with the properties that watch it.

## 2. Modules

| module | content |
|---|---|
| `Proxy` | the local proxy: sessions, worker, reader, vendor loop, poller, local callers, stop; the device as environment; properties |
| `LocalCall` | abstract specification: what a local caller is promised |
| `ProxyCalls` | the refinement mapping under which `Proxy` implements `LocalCall` |
| `MCProxy`, `MCProxy_*.cfg` | TLC instances of `ProxyCalls` and `Proxy` |
| `ProxyProofs` | type correctness, routing and waiting invariants of `Proxy`, proved |
| `ProxyTraffic` | `OneInFlight` and `ValveTruth`, what the proxy publishes of its connections and what `stop()` leaves, proved |
| `ProxyPromise` | `ConfirmedByReadback` and the refinement of `LocalCall`, proved |
| `ProxyVendor` | what a vendor connection gets, and that every vendor request is accounted for, proved |
| `Protocol` | the codec, the parser and `read_stream` on the bytes; the peer as environment; properties |
| `MCProtocol`, `MCProtocol_stream.cfg` | its TLC instance |
| `ProtocolProofs` | the codec's round trip, the invariants of the parser and its reader, what the checksum detects, and what they make of whole, cut off and changed streams, proved |
| `Runtime` | runtime and meter with Store, crash and restart; properties |
| `MCRuntime`, `MCRuntime_*.cfg` | its TLC instances |
| `RuntimeProofs` | all safety properties of `Runtime`, proved |
| `Publisher`, `Publisher_reports.cfg` | the MQTT publisher of one entry with the broker's retained reports; properties; its instance needs no MC module |
| `PublisherProofs` | all safety properties of `Publisher`, proved |
| `Discovery` | the MQTT discovery registry with its file, the entries and the topics their publishers retain, broker, cancellation and restart; properties |
| `MCDiscovery`, `MCDiscovery_*.cfg` | its TLC instances |
| `DiscoveryProofs` | type correctness, `DiscoveryRecorded`, `DiscoveryKept` and `QuietDiscovery`, proved |

`Proxy`, `Protocol`, `Runtime`, `Publisher` and `Discovery` are separate
specifications, cut where the code has narrow interfaces: `Proxy` takes from
`Protocol` which frames arrive and which one answers which, the runtime sees of the
proxy only the counter it publishes, the publisher only the valve report and the
end of a command, and the registry sees of a publisher only which topics it
retains.

An operator whose name is that of the next one plus a suffix (`ReleasedAlways`
before `Released`) is a plausible slip; `PROJECT.json` lists which property
notices it if it replaces the original. No run uses these operators.

### Proxy

State. `session`, `state`, `dropped` and `phase` (`_closing`) are the fields of
`Proxy`; `sess[s]` is the `Session` object of a connection and the position of
each of its tasks at an await; `future[o]` is the `Request.result` of a caller;
`cloud[k]` a `Cloud` object; `device` is the device's side: which session it is
connected to, requests on their way to it, responses on their way back, its
valve. `call` holds the outcome of each `set_valve` or `refresh`.

Actions are the code between two awaits:

| code | actions |
|---|---|
| `_accept` | `Accept` |
| `_run_session` | `RunStart`, `Abort` (task group cancels its tasks), `RunCleanup`, `RunDone` |
| `_worker`, `_exchange`, `_observe` | `WorkerDiscard`, `WorkerSend`, `Resume`, `ResumeForward`, `ForwardDone`, `ResumeReadback`, `ResumeStale`, `ExchangeTimeout` |
| `_device_reader` | `ReaderFrame`, `ReaderLost` |
| `_cloud_loop`, `_enqueue_cloud` | `VendorConnect`, `VendorFrame`, `VendorLost`, `VendorClosed` |
| `_poll` | `PollSubmit`, `PollResume` |
| `_submit`, `set_valve`, `refresh` | `CallSubmit`, `CallRefused`, `CallReturn`, `CallCancel` |
| `stop` | `StopBegin`, `StopEnd` |
| the device (external) | `DeviceReply`, `DeviceDrop` |

Abstractions.

- Frames carry an operation instead of bytes. The four operations the proxy
  tells apart are commands to open and close, status reads and snapshots;
  `"other"` is any other vendor request. `Frame.matches` and tags are reduced
  to "the response is to the operation awaited", which `Protocol!Recognized`
  shows of the bytes.
- Time stamps, delays, the `error` text and connection attempts that fail are
  left out. A deadline may end at any time; a wait may be over at any time.
- Cancellation of a task group reaches its tasks in consecutive turns of the
  event loop and is one step, `Abort`; the failure that caused it is an earlier
  step, and everything else may run in between. A reader, poller or vendor loop
  that returns because the session is no longer current does so only in a
  session that is cancelled as well, to the same effect.
- A `Session` object that is done is reset where nothing reads it again.
- The device serves one connection, answers a request at most once and in
  order, and moves its valve only on command. It may ignore a command, report
  an unknown position, answer with an unexpected acknowledgment, answer late or
  never, vanish, or send garbage (`ReaderLost`).
- Each session, call and vendor connection is used once: their number bounds
  the instance.

### LocalCall and ProxyCalls

`LocalCall` is what an entity, the MQTT publisher or the options flow may rely on
when it calls `set_valve` or `refresh`: the call is refused at once, or waits; its
request is written at most once, and only while the caller waits; it is answered
after it was written, rejected with all others of a lost session, or given up;
it returns "ok" only when answered, and a command only on a report of what it
asked for. Sessions, queue, worker, device and vendor are not in it. `ProxyCalls`
maps a call's operation and outcome to `call`, its answer to the future of the
`Request` and the number of writes to the history variable of `Proxy`; the steps
of everyone else are stutters of `LocalCall`. The run `proxy_calls` checks the
refinement on an instance, `ProxyPromise!CallsKept` proves it.

### Protocol

State. `stream` is what a connection delivers (`sent` the frames it was made
of, whole, cut off anywhere or with one byte changed), `taken` how far the parser
was fed; `parser` and `left` are the `Parser` object and the deadline of
`read_stream`, `delivered` the frames it has yielded. Actions: `Receive` (one
`read` and the `feed` of its chunk), `EndOfStream` (`finish`), `Tick` (time, and
the timeout). The peer (external) sends reads, valve commands, unknown
messages, and the device's answers, made from a `memory` of 128 bytes; the
longest frame allowed and one two bytes longer are among them.

`decode`, `encode`, the CRC, the escapes, `matches`, `valve_command` and
`status_values` are translated byte for byte: an error there is in the bits. A
loop over bytes is the fold of a function that is its body, so that it can be
proved about as well as evaluated. If `feed` raises, the frames it had completed
in that chunk are lost with the rest of it, as in the code, which builds the list
before it returns. Left out: the texts of the errors.

### Runtime

`phase` follows `start` and `stop` of one entry; `meter` is the `Meter` object;
`dirty` and `disk` are Home Assistant's `Store` (external): a save marks the data
as dirty, `Write` puts the meter of that moment on disk atomically (that covers
both an awaited save and the one-second delayed save, which calls `_data` when
it is due), and a crash loses what is dirty. `calib[c]` is a call of
`set_meter_reading`: waiting for the lock, refreshing, answered, saving. The
proxy is reduced to what the meter sees of it: `Snapshot` (a counter observed,
perhaps the one a calibration asked for) and `Lost`. Status reports notify the
meter with the counter it has seen already, which changes nothing, and are left
out. Disk errors, which the Store logs and swallows, are not modelled.

### Publisher

State. `generation`, `connectedAt`, `needed` (`_refresh_needed`,
`_discovery_needed`), `recorded` (`_subscription_settings`) and `command` are
fields of `Publisher`; `asked` the settings its last
`_subscribe` has read (history); `at` the awaits of the run loop and of `stop()`;
`publishing` the payload a `_publish` under way has computed; `subscribed` what the
MQTT client holds, `retained` what the broker does. A generation number tags
every retained report, 0 an unavailable one, 1 one of an earlier run of Home
Assistant.

| code | actions |
|---|---|
| `_connection_changed`, `_birth_received` | `Connection`, `BirthReceived`; `Reconfigured` (Home Assistant) |
| `_command_received`, `_set_valve` | `CommandReceived`, `CommandEnds` |
| `_run` | `WakeOffline`, `Wake`, `AnnounceDone`, `Refreshed` |
| `_subscribe` | `Wake`, `Subscribed`, `SubscribeFailed` |
| `_publish` | `Acked`, `Published`, `PublishFailed` |
| `_publish_discovery` | `Registered`, `AnnounceDone`, `DiscoveryFailed` |
| `stop` | `StopBegin`, `StopLoop`, `Acked`, `FarewellDone`, `FarewellFailed` |
| the proxy's callback | `Reported` |

Abstractions.

- The event that wakes the loop is left out, since its 15-second wait may end at
  any time. Of a payload only availability is kept; the command topic carries
  plain OPEN and CLOSE, other messages are ignored by the code.
- A message that fails, times out or is cancelled has reached the broker or not;
  without a connection it has not. MQTT keeps the order of one client's messages,
  so what was sent before does not arrive after what is sent next.
- Changed MQTT settings come with a reload of the MQTT integration, so while it
  is not connected. Any of `MaxSettings` different ones may come, and come back,
  any number of times: `_subscribe` compares them with the ones it remembers.
- A connection may come or go unnoticed while the client is absent
  (`mqtt.py:294-298`): `Connection` without the callback.
- `set_topics` is one await here; `Discovery` has it in detail.

### Discovery

State. `config[e]` is the data of a config entry (MQTT off, on with a prefix, or
the entry deleted) and `plan[e]` the reload or removal Home Assistant has
scheduled; `publisher[e]` is the prefix of the running `Publisher`. `owned`,
`pending`, `loaded` and `lock` are the registry's fields, `disk` its file, `late`
what the threads of saves that were cut off will still write to it, `retained`
the topics the broker retains. `at[k]` is the await at which a task
is: an entry's publisher, its setup or its removal (one position per entry, since
Home Assistant runs at most one of them at a time), and the background task.
`flow[e]` is the data of a reconfiguration between its check and its storing.
`cut` and `forgotten` are history, for the exception of two properties: a save
was cut off and no later one has brought the file up to date; and a restart found
it so, with messages at the broker that the file does not name.

| code | actions |
|---|---|
| `_validate`, `_step` of the config flow | `Validate`, `Reconfigure` |
| `async_setup_entry`, `async_unload_entry`, `async_remove_entry` | `Setup`, `Unload`, `RemoveCall`, `Removed`; Home Assistant: `Remove` |
| `Publisher._run`, `_publish`, `_publish_discovery`, `stop` | `Report`, `Announce`, `StopPublisher`, `Stopped` |
| `load` | `Load` |
| `set_topics` | `SetTopics`, `SameTopics`, `TopicsSaved`; its save cut off: `Interrupt`, `LateWrite` |
| `flush` | `FlushBegin`, `FlushSend`, `FlushCleared`, `FlushSaved`, `FlushEnd`; the broker: `BrokerClears` |
| `_run` | `Sweep` |
| connection, restart | `Connection`, `Restart` |

Abstractions.

- An entry's name stands for all of its discovery topics, a prefix for its three
  state topics: `set_topics` treats them alike. Payloads are empty or not.
- A round of the publisher publishes its three reports in one step that may fail
  with or without a report retained; module `Publisher` has it in detail. Whether
  discovery is due is left open, since a connection or birth message may make it
  due at any time.
- `flush` takes the pending topics in any order instead of the sorted one.
- A cancelled task leaves its await at once and releases the lock. A save it
  awaits is dropped, or left to a thread that writes what it was given at any
  later time, over newer saves too (at most `MaxLate` such threads at once). An
  empty message under way is delivered or not. MQTT keeps the order of messages,
  so nothing older arrives after a later publication. A restart may happen at any
  await; writes that were begun are then done or not (`atomic_writes`).
- A reconfiguration checks the prefix in one step and stores the data in
  another: the probe of the listener lies between them. If only MQTT settings
  change nothing can come in between; the model allows it all the same.
- The config entries survive a restart, the scheduled reload or removal does not.
  A save of the registry that fails is not modelled, nor is Home Assistant's own
  delayed write of its config entries.

## 3. What the runs check

| run | question | instance |
|---|---|---|
| `proxy_calls` | `TypeOK` (queue bound), `ConfirmedByReadback`, `OneInFlight`, and the refinement `CallsArePromised` | 1 session, 2 calls of any operation, poller, queue of 2 |
| `proxy_sessions` | `ValveTruth`, `WaiterHeld`, `LiveSessionRouted`, `CounterOfSession`, `StoppedIsQuiet` | 2 sessions, 1 call, queue of 1 |
| `proxy_vendor` | `VendorReplyOrder`, `VendorAnswered`, `DropAccounting`, `CloudFlag` | 1 session, 2 vendor connections with 2 frames each, queue of 2 |
| `proxy_live` | `CallsEnd`, `StopEnds` under fairness | 1 session, 1 call, 1 vendor connection |
| `proxy_lost` | expected violation of `WaiterReleased` | 2 sessions, 1 call |
| `protocol_stream` | `TypeOK` (buffer bound), `OnlySent`, `Lossless`, `AbsoluteDeadline`, `Recognized` | every answer of three memories, the longest frame, and every sequence of up to 2 commands and unknown messages; streams up to 24 bytes also damaged at any byte; chunks of 1, of 13 bytes or of the rest |
| `runtime_meter` | `TypeOK` (lock), `NeverBackwards`, `DecreaseEndsReading`, `SettingDurable`, `StoppedSaved`; `CallsEnd`, `StopEnds` under fairness | 2 calibrations, counter up to 2, a reading of 1 |
| `runtime_crash` | expected violation of `DecreaseRemembered` | 1 calibration, counter up to 1 |
| `publisher_reports` | `TypeOK` (bound of the generations), `OnlineVerified`, `DiscoveryCurrent`, `Listening`, `StoppedQuietly`; `AvailabilityFollows`, `DiscoveryEnds`, `StopEnds` under fairness | 4 connection changes, births or failures, 2 settings |
| `discovery_topics` | `TypeOK` (lock), `DiscoveryRecorded`, `DiscoveryKept`, `QuietDiscovery`; `CleanupEnds` under fairness | 1 entry, 2 prefixes, 2 changes, 1 thread of a save cut off, 1 restart |
| `discovery_state` | expected violation of `QuietState` | 2 entries, 2 prefixes, 2 changes, 1 thread, 1 restart |
| `discovery_swap` | expected violation of `OnlyObsoleteRetired` | as `discovery_state`, no restart |

Bounds. Two sessions give a replaced one and its successor, the only relation
the code knows (`self._session`). Two calls give one in service and one waiting,
with the poller as a third; a queue of two is filled by them. Two frames on a
vendor connection make order and gaps visible, two connections make a successor.
A counter up to two can rise, fall, and catch up. A reading of one set at
counters 0, 1 and 2 gives three different offsets, a negative one included. The
registry treats entries alike except where two want one prefix, which the two
findings about it show with two entries; the passing run has one entry that
gives up a prefix, returns to it or is deleted, and `DiscoveryProofs` covers any
number. Two changes (reconfigurations or deletions) let an entry turn MQTT off
and on again while its removals are still pending; one restart can come between
any two steps of these. One thread of a save that was cut off suffices to write
old contents over new ones; saves that are dropped are not bounded. Four events
of the publisher are two lost connections and their returns, or births and
failures in place of some, at any awaits: that is what it takes to fail to
subscribe with other settings between two rounds with the same ones. Two
settings, each of which may come back, are all that a comparison with the
remembered ones can tell. The parser's limit is 144 bytes instead of 4096, just
above a snapshot with its escapes: the code compares with the constant and
nothing else depends on it. Two ticks distinguish a deadline that is kept from
one that starts anew. Every passing run is exhaustive. Symmetry is used only in
runs without liveness: sessions, calls, vendor connections, entries and prefixes
are interchangeable.

Deadlock is checked in every run but `protocol_stream`, where a stream ends and
its reader with it. Once `stop()` was called nothing more need
happen in `Proxy`, and `Terminating` says so; that it does come to its end is
`StopEnds`. After the publisher's `stop()` the proxy may still report for ever.
In `Runtime` a process that is down may start again, so no state is
terminal.

Fairness. `Proxy!FairSpec` assumes weak fairness of what the event loop and
the deadlines guarantee: ready tasks run (`RunStart`, `RunCleanup`, `WorkerSend`,
resumptions), an exchange and a forwarded write end by their timeouts,
`close_writer` returns within a second. Nothing is assumed of the device, the
vendor or callers: they may be silent for ever. `Runtime!FairSpec` adds that the
refresh of a calibration ends within its 15 seconds and that a file is written;
`StopDrained` is `StopEnds` of the proxy. `Discovery!FairSpec` assumes that ready
tasks run and that the background task wakes up (it does every 15 seconds), and
strong fairness of the broker's removal and its acknowledgment for the flushes of
the background task: `flush` may time out any number of times, but a connected
broker that is asked again and again answers in time at last. Nothing is assumed
of the flushes of an entry's task, which an unload may cut off each time.
`CleanupEnds` claims something only for behaviours in which MQTT stays connected
from some point on, and says that nothing is left then whenever the entries are
not changed for long enough. `Publisher!FairSpec` assumes weak
fairness of the loop, of `stop()` and of the command's end, each of which has a
deadline; the broker, the registry and the device may fail up to `MaxEvents`
times while MQTT is connected, any number of times while it is not, and
`AvailabilityFollows` and `DiscoveryEnds` claim something only when MQTT stays
connected in the end. A refresh that failed is not repeated (`mqtt.py:307`);
`AvailabilityFollows` holds all the same because the next report of the poller
wakes the loop.

### Findings

- `proxy_lost`: a session task cancelled before its first step never enters the
  `try` of `_run_session`, so its cleanup does not run. A second connection
  accepted in the same turn of the event loop (or `stop()` in that turn) does
  that; a call queued in the meantime is neither answered nor rejected by
  the proxy, against `docs/protocol.md` lines 78-79 and the docstring of
  `async_unload_entry`. Callers that use a timeout end by it; others hang. In
  the properties such a session is `"lost"`, and `WaiterHeld`, `CallsEnd` and
  `StoppedIsQuiet` name it as their only exception.
- `runtime_crash`: `observe` saves an observed decrease one second later. A crash
  in that second forgets it; when the counter has caught up with the saved one,
  the wrong reading is shown as ready, against `README.md` lines 90-92, whose
  exception covers only resets while Home Assistant is offline. `hist.forgot`
  marks this case, and `NeverBackwards` and `DecreaseEndsReading` exclude it.
- `discovery_state`: a publisher retains its state topics (`mqtt.py:302`) before
  `set_topics` records that it owns them (`mqtt.py:304`). If the entry is turned
  off or deleted in between (a round that failed after its first message is
  enough), `set_topics(entry_id, [])` finds nothing recorded and returns, and the
  retained state stays at the broker, against `README.md` lines 157-158. The
  discovery messages are published after `set_topics` and are not affected by
  this: that is `DiscoveryRecorded` and `QuietDiscovery`, with the exception below.
- `discovery_swap`: an entry that moves to another prefix, or turns MQTT off,
  gives the old one up later, in a round of its new publisher or in its setup.
  If another entry has taken and recorded that prefix by then, `set_topics` puts
  the topics the other entry now owns among the removals
  (`mqtt_discovery.py:80`); they are not obsolete, which is what
  `docs/releases/v0.3.0.md` lines 17-18 promises to remove. The other publisher
  retains its state again in its next round.

Two weaknesses have no run of their own; the properties name them as exceptions.

- An unload, or the timeout of `flush`, can cut off a save of the registry
  (`mqtt_discovery.py:86`, `100`). Memory has changed by then (80-85), the write is
  dropped or lands late, perhaps over a newer one, and the next `set_topics` with
  the same topics returns without saving (77-79). Discovery is then published
  although the file does not name it, against "Persist topic ownership before
  publication" (line 32): `DiscoveryRecorded` allows it while `cut` is set, that
  is until a save brings the file up to date. If Home Assistant restarts before
  that, and the entry was turned off, `load` finds nothing to retire and the
  message stays; `forgotten` names these entries, `QuietDiscovery` excepts them.
  Without either exception TLC finds the two properties violated.
- `_subscribe` remembers the settings of the last attempt that succeeded
  (`mqtt.py:107`), but gives the subscriptions up at the beginning of the next
  (94-96). If subscribing with other settings fails and the remembered ones come
  back, it returns at once (92-93) with nothing subscribed: the publisher hears
  neither commands nor births until the settings change again or the entry is
  reloaded. `Listening` excepts
  this case (`asked # recorded`), and TLC reaches it.

## 4. What is proved

All proofs start from the assumptions on constants in `Proxy`, `Protocol`, `Runtime`,
`Publisher` and `Discovery` only: bounds are naturals, the queue has room for at
least one request, and the names of sessions, calls, vendor connections, entries,
prefixes and `None` are distinct, and the peer's memories, tags and payloads
consist of bytes. No bound of the runs is used.

- `ProxyProofs!TypeCorrect`: `Spec => []TypeOK`, for any number of sessions, calls,
  vendor connections and frames, and any queue limit. `TypeOK` is not inductive
  by itself: `_worker` reads `active_request` after its awaits, so the invariant
  `TInv` adds `Busy` (a worker in an exchange, a forward or a read-back has its
  request). One lemma per action; `FitsOne` and `FitsAll` reduce a step to the
  one session object it changes.
- `ProxyProofs!LiveSessionIsRouted` and `WaitersHeld`: the routing invariant and
  the waiting invariant of the runs. The strengthening `WInv` adds `Placed`: a
  worker that fetches has no active request left over (else taking the next one
  would forget a waiter), and a live session has a task whose cleanup is still
  to come (else a caller could submit to a session that nobody cleans up).
- `ProxyTraffic!OneTransaction` and `ValveIsTrue`. `OneInFlight` and `ValveTruth`
  rest on each other: a report is true when it is observed because no
  command can have been handled since, and none can because the request that
  asked for it was the only one in flight. The invariant `Flow` says what is
  in flight (`Flight`), that a response in flight and the published position
  are still so (`Tells`, `Known`), and, of the current session only, what its
  worker's position means (`Good`): a worker that rests has nothing in flight,
  one that exchanges awaits the answer to its own request, one that reads back
  follows its own command. Nothing is said of other sessions: that `Flow` is
  inductive shows that `_exchange`'s check is enough to keep them out.
- `ProxyPromise!CommandsConfirmed` and `CallsKept`, from `Flow` and `Promise`: each
  session holds the request of a local call once, unwritten in the queue and
  written once at work (`Owns`), and the answer of a command was composed after
  it (`Truthful`). With them every step of `Proxy` is a step of `LocalCall` or a
  stutter; the proof has one lemma per action, and lemmas that name the
  projection a step moves.
- `ProxyTraffic!CloudFlagTrue`, `CounterIsCurrent`, `StopLeavesNothing`, from the
  invariant `SInv`: the tasks of a group run only while its session's task awaits
  the group (`Grouped`), `_session` is alive while the proxy is up, and what is
  published is of that session.
- `ProxyVendor!RepliesInOrder` and `AnsweredBeforeNext`. That the answers of a
  connection are the first requests, in order, follows from `VInv`: as long as
  a connection is open and its session current, the queue and the request at work
  hold just the requests asked and not answered, in order (`Covers`, `Lined`); a
  frame dropped for a full queue ends the connection, one dropped because the
  session is not current any more changes nothing, since that session answers
  nothing. A `Cloud` object is of one session, and one not used yet is known to
  nobody. `Lined` also counts what was written to the device: just the answers given
  while the worker does not exchange a request of the connection, one more while
  it does; since nothing is written for a connection that is gone, no later
  request adds to that (`OneOwed`).
- `ProxyVendor!RequestsAccounted`: `DropAccounting`, for finite sets of sessions and
  vendor connections (of infinite ones a cardinality says nothing; at any time
  finitely many were accepted or opened). The invariant `DInv` adds to the balance
  itself (`CInv`) the order of the numbers (`NInv`): what waits of a connection
  does so in one session, in order, and was asked after all that was written to
  the device, so that every request written is one more of those asked. The lemmas
  under `Counting` say by how much a request more, a `Tail` or an emptied queue
  changes the cardinalities. The balance may lack one request per ended worker:
  the only step that loses one is a send that finds its session replaced, and
  that worker ends with it.
- `ProtocolProofs!RoundTrip`: what `encode` makes of any header and payload is
  refused for its length or decodes to just these fields and bytes, however many
  of them need an escape. It holds whatever `crc16` computes, as long as that is
  a word: `CrcWord` shows it is.
- `ProtocolProofs!TypeCorrect`, `DeadlineAbsolute`, `NothingLost`, `SentOnly` and
  `Understood`, for chunks of any sizes, any frames, memory, payloads and size limit, from
  one inductive invariant `IInv`. `WellFormed` says that the parser's `escaped`
  flag is what `decode` will make of the bytes in the buffer, so that the parser
  and the decoder agree on which delimiters are escaped; `Progress` that the frames
  delivered and the buffer are the bytes taken, that every frame delivered is
  what `decode` makes of its bytes, and, while the stream is that
  of the frames sent, that the buffer lies inside the next of these; `OneDeadline`
  ties the deadline to the age of the partial frame; `Arrives` says what a stream
  can be: whole, cut off, changed in one byte, or too long for the limit.
- `ProtocolProofs!SentOnly` is `OnlySent` for all of these streams but the
  `Misframed` ones, in which an escape was added or removed or the end of a frame
  was added. It rests on what the checksum detects (`CheckTells`): bodies that
  differ in one byte are never both accepted. The argument follows
  `calculate_crc`: one step of the register, on its bits, keeps different
  registers different when the bytes are the same (`CrcByteKeeps`), and makes
  equal registers different when the bytes are not, so that a difference once
  there is there at the end (`CrcTells`); a difference in the checksum's own two
  bytes is one of the number they stand for. `Upto` is what `decode` has
  made of the first bytes of a frame. With it `OneFrame` shows that a frame made of
  the bytes of another, with one changed so that framing is the same, is that
  other frame, because no frame is a beginning of another; and `SameFrames`
  goes through the frames delivered, one after the other. The second byte of an
  escape and a START are no exception: whatever these become, the change is
  noticed. `Understood` derives `Recognized` from `OnlySent`, and
  `RecognizedDamaged` puts the two together.
- The loops over bytes are folds of functions. What such a fold computes is
  proved by induction on its length, from a principle stated for sets
  (`Induction`, which rests on `Smallest`: a set of naturals has a least element)
  since the library's own speak of operators.
- `RuntimeProofs`: all five safety properties of `Runtime` from one inductive
  invariant `IInv`. It relates the meter in memory and the file to the history:
  without data to write, file and meter agree; unless a crash lost data, a
  meter that has an offset has seen the last report and no decrease, and shows
  no less than before; a written setting is on disk and kept by the meter; and
  the lock is held only by calls that stop() will wait for.
- `DiscoveryProofs`: `TypeCorrect`, `DiscoveryIsRecorded`, `DiscoveryIsKept` and
  `QuietIsClean` from one inductive invariant, with one lemma per group of
  actions. That the file names a retained topic is not inductive: a later save
  replaces the file by what the registry has in memory. `RecordInv` therefore also
  says that memory knows the topic once it is loaded; `CallInv` ties the position
  of a call to what `set_topics` has recorded and saved by then; `FlushInv` says
  that a topic under removal is pending, and no longer retained after the broker
  cleared it; and `Apart` that a discovery topic is never owned and pending at
  once, in memory, in the file or in what a thread will still write, which is why
  a removal cannot hit an owner. `CutInv` says that a thread is left over
  only if a save was cut off, and `CallInv` and `RecordInv` except that case. For
  `QuietIsClean` the invariant also says who has still to act on an entry whose
  configuration and record differ. `DiscoveryIsRecorded` and `QuietIsClean` have the
  exceptions of the properties (saves cut off), and no others: outages, failures
  and cancellations at all other awaits, and restarts, are covered.
- `PublisherProofs`: the type invariant, `OnlineVerified`, `DiscoveryCurrent`,
  `Listening` and `StoppedQuietly` from one inductive invariant `IInv`. `Tags`
  orders the generations of what is retained and of the payload under way at
  every await of `_publish`; `Recording` says what the remembered settings say
  of the subscriptions (if the last attempt was for them, both are there, and
  one under way is for others), which is `Listening` with its exception;
  `Farewell` what each message of `stop()` has made of the retained reports;
  `Counted` bounds the generations by the events, for `TypeOK`.

TLC checked the strengthenings before they were proved.

Model-checked only: liveness (`CallsEnd` and `StopEnds` of `Proxy` and of
`Runtime`, `CleanupEnds`, `AvailabilityFollows`, `DiscoveryEnds`, `StopEnds` of
`Publisher`), which is out of the prover's reach; and `OnlySent` and
`Recognized` of `Protocol` for `Misframed` streams, those with a changed byte that
adds or removes an escape or adds the end of a frame. There the two cannot hold
for every payload: the bytes up to an END that was added may happen to have the
right checksum of 16 bits, and what an escape moves is not one change any
more. TLC checks them for every change of a byte into a delimiter, an escape or
zero in the streams of its instance.

## 5. Not modelled

- Entities (`valve.py`, `sensor.py`, `binary_sensor.py`, `entity.py`) and
  `diagnostics.py` are views of `Proxy.state` and `Runtime` without state of their
  own; the calls they make are the callers of `Proxy` and `Runtime`. `const.py`
  holds names.
- Of `config_flow.py`, the validation of forms is a check of one input; the
  options flow is the caller of `set_meter_reading` in `Runtime`, the
  reconfiguration of MQTT two actions of `Discovery`, the check and the storing.
  That the probed port may be taken before setup (line 114) is decided by the
  operating system's bind in `Proxy.start`, whose failure Home Assistant reports
  and retries.
- Of `__init__.py`, the forwarding of platforms and its failure are Home
  Assistant's; setup, unload and removal are actions of `Runtime` and
  `Discovery`.
- `tools/set_repository.py` substitutes text in files once.
- Logging, the texts of errors, and wall-clock freshness, which appears as the
  nondeterministic loss of a value.
