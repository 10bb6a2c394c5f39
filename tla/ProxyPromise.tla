---------------------------- MODULE ProxyPromise ----------------------------
(***************************************************************************)
(* Proofs about Proxy: it implements LocalCall, what is promised to every  *)
(* caller of set_valve and refresh, and a command that succeeds was        *)
(* confirmed by a read-back composed after it.                             *)
(***************************************************************************)
EXTENDS ProxyTraffic, ProxyCalls

\* Given the calls cl and the futures fu: the request r of a local call is the
\* one its caller made of session s, and is not answered yet.
Owed(s, r, cl, fu) ==
    /\ cl[r.from].home = s /\ cl[r.from].op = r.op
    /\ fu[r.from] \in {"pending", "cancelled"}

\* Session object x holds each request of a local call once: a queued one was
\* never written, the one at work was written once and is not forwarded.
Owns(s, x, cl, fu) ==
    /\ \A i \in DOMAIN x.queue :
          x.queue[i].from \in Calls =>
             Owed(s, x.queue[i], cl, fu) /\ cl[x.queue[i].from].writes = 0
    /\ \A i, j \in DOMAIN x.queue :
          x.queue[i].from = x.queue[j].from /\ x.queue[i].from \in Calls => i = j
    /\ x.active # None /\ x.active.from \in Calls =>
          /\ Owed(s, x.active, cl, fu)
          /\ x.worker # "done" => cl[x.active.from].writes = 1
          /\ x.worker # "forward"

\* What holds of one call: a command is answered by its own read-back.
Truthful(c) ==
    /\ call[c].outcome = "idle" => future[c] = "none" /\ call[c].writes = 0
    /\ future[c] = "pending" => call[c].outcome = "waiting"
    /\ future[c] = "set" =>
          call[c].answer \in Reply /\ (call[c].op \in Valves => call[c].answer.after = c)
    /\ call[c].outcome = "ok" /\ call[c].op \in Valves =>
          future[c] = "set" /\ call[c].answer.report = call[c].op

Promise ==
    /\ \A s \in Sessions : Owns(s, sess[s], call, future)
    /\ \A c \in Calls : Truthful(c)

USE ConstantsAssumption, NamesAssumption
USE DEF Valves, Reads, Ops

-----------------------------------------------------------------------------
(* The steps of LocalCall.                                                 *)

\* A function that differs from f at one point at most.
LEMMA Update ==
    ASSUME NEW S, NEW f, NEW g, NEW c \in S, NEW v, DOMAIN f = S,
           f = [d \in S |-> f[d]], g = [d \in S |-> IF d = c THEN v ELSE f[d]]
    PROVE  g = [f EXCEPT ![c] = v]
  OBVIOUS

LEMMA OpMoves ==
    ASSUME NEW c \in Calls, NEW v,
           \A d \in Calls : call'[d].op = IF d = c THEN v ELSE call[d].op
    PROVE  opOf' = [opOf EXCEPT ![c] = v]
<1>1. DOMAIN opOf = Calls /\ \A d \in Calls : opOf[d] = call[d].op
  BY DEF opOf
<1>2. opOf = [d \in Calls |-> opOf[d]]
  BY Zenon DEF opOf
<1>3. opOf' = [d \in Calls |-> IF d = c THEN v ELSE opOf[d]]
  BY <1>1 DEF opOf
<1> QED
  BY <1>1, <1>2, <1>3, Update

LEMMA OutcomeMoves ==
    ASSUME NEW c \in Calls, NEW v,
           \A d \in Calls : call'[d].outcome = IF d = c THEN v ELSE call[d].outcome
    PROVE  outcomeOf' = [outcomeOf EXCEPT ![c] = v]
<1>1. DOMAIN outcomeOf = Calls /\ \A d \in Calls : outcomeOf[d] = call[d].outcome
  BY DEF outcomeOf
<1>2. outcomeOf = [d \in Calls |-> outcomeOf[d]]
  BY Zenon DEF outcomeOf
<1>3. outcomeOf' = [d \in Calls |-> IF d = c THEN v ELSE outcomeOf[d]]
  BY <1>1 DEF outcomeOf
<1> QED
  BY <1>1, <1>2, <1>3, Update

LEMMA AnswerMoves ==
    ASSUME NEW c \in Calls, NEW v,
           \A d \in Calls : future'[d] = IF d = c THEN v ELSE future[d]
    PROVE  answerOf' = [answerOf EXCEPT ![c] = v]
<1>1. DOMAIN answerOf = Calls /\ \A d \in Calls : answerOf[d] = future[d]
  BY DEF answerOf
<1>2. answerOf = [d \in Calls |-> answerOf[d]]
  BY Zenon DEF answerOf
<1>3. answerOf' = [d \in Calls |-> IF d = c THEN v ELSE answerOf[d]]
  BY <1>1 DEF answerOf
<1> QED
  BY <1>1, <1>2, <1>3, Update

LEMMA WritesMove ==
    ASSUME NEW c \in Calls, NEW v,
           \A d \in Calls : call'[d].writes = IF d = c THEN v ELSE call[d].writes
    PROVE  writesOf' = [writesOf EXCEPT ![c] = v]
<1>1. DOMAIN writesOf = Calls /\ \A d \in Calls : writesOf[d] = call[d].writes
  BY DEF writesOf
<1>2. writesOf = [d \in Calls |-> writesOf[d]]
  BY Zenon DEF writesOf
<1>3. writesOf' = [d \in Calls |-> IF d = c THEN v ELSE writesOf[d]]
  BY <1>1 DEF writesOf
<1> QED
  BY <1>1, <1>2, <1>3, Update

LEMMA ReportMoves ==
    ASSUME NEW c \in Calls, NEW m \in Reply,
           \A d \in Calls : call'[d].answer = IF d = c THEN m ELSE call[d].answer
    PROVE  reportOf' = [reportOf EXCEPT ![c] = m.report]
<1>1. /\ DOMAIN reportOf = Calls
      /\ \A d \in Calls : reportOf[d] = IF call[d].answer = None THEN None
                                        ELSE call[d].answer.report
  BY DEF reportOf
<1>2. reportOf = [d \in Calls |-> reportOf[d]]
  BY Zenon DEF reportOf
<1>3. reportOf' = [d \in Calls |-> IF d = c THEN m.report ELSE reportOf[d]]
  BY <1>1 DEF reportOf
<1> QED
  BY <1>1, <1>2, <1>3, Update

\* What a step does not change.
LEMMA Stays ==
    /\ (\A d \in Calls : call'[d].op = call[d].op) => UNCHANGED opOf
    /\ (\A d \in Calls : call'[d].outcome = call[d].outcome) => UNCHANGED outcomeOf
    /\ (\A d \in Calls : call'[d].answer = call[d].answer) => UNCHANGED reportOf
    /\ (\A d \in Calls : call'[d].writes = call[d].writes) => UNCHANGED writesOf
    /\ (\A d \in Calls : future'[d] = future[d]) => UNCHANGED answerOf
  BY DEF opOf, outcomeOf, reportOf, writesOf, answerOf

LEMMA Views ==
    ASSUME NEW c \in Calls
    PROVE  /\ opOf[c] = call[c].op /\ outcomeOf[c] = call[c].outcome
           /\ answerOf[c] = future[c] /\ writesOf[c] = call[c].writes
           /\ reportOf[c] = IF call[c].answer = None THEN None ELSE call[c].answer.report
  BY DEF opOf, outcomeOf, reportOf, writesOf, answerOf

LEMMA CallField ==
    ASSUME TInv, NEW c \in Calls
    PROVE  /\ call \in [Calls -> CallType] /\ call[c] \in CallType
           /\ future \in FutureType /\ c \in Callers
  BY DEF TInv, TypeOK, FutureType, Callers

LEMMA Stutters ==
    ASSUME UNCHANGED call, \A c \in Calls : future'[c] = future[c]
    PROVE  UNCHANGED L!vars
  BY Stays DEF L!vars

LEMMA WritesL ==
    ASSUME TInv, NEW c \in Calls, call[c].writes = 0, future[c] = "pending",
           call' = [call EXCEPT ![c].writes = @ + 1], UNCHANGED future
    PROVE  L!Write(c)
<1>1. call' = [call EXCEPT ![c] = [call[c] EXCEPT !.writes = 1]]
  BY CallField
<1>2. \A d \in Calls : /\ call'[d].op = call[d].op /\ call'[d].outcome = call[d].outcome
                       /\ call'[d].answer = call[d].answer
                       /\ call'[d].writes = IF d = c THEN 1 ELSE call[d].writes
  BY <1>1, CallField DEF CallType
<1>3. writesOf' = [writesOf EXCEPT ![c] = 1] /\ UNCHANGED <<opOf, outcomeOf, reportOf, answerOf>>
  BY <1>2, WritesMove, Stays
<1> QED
  BY <1>3, Views DEF L!Write

LEMMA AnswersL ==
    ASSUME TInv, NEW c \in Calls, NEW m \in Reply,
           call[c].writes = 1, future[c] = "pending",
           future' = [future EXCEPT ![c] = "set"],
           call' = [call EXCEPT ![c].answer = m]
    PROVE  L!Answer(c)
<1>1. \A d \in Calls : /\ call'[d].op = call[d].op /\ call'[d].outcome = call[d].outcome
                       /\ call'[d].answer = (IF d = c THEN m ELSE call[d].answer)
                       /\ call'[d].writes = call[d].writes
                       /\ future'[d] = IF d = c THEN "set" ELSE future[d]
  BY CallField DEF CallType, FutureType
<1>2. m.report \in Maybe(Valves)
  BY DEF Reply
<1>3. /\ answerOf' = [answerOf EXCEPT ![c] = "set"]
      /\ reportOf' = [reportOf EXCEPT ![c] = m.report]
      /\ UNCHANGED <<opOf, outcomeOf, writesOf>>
  BY <1>1, AnswerMoves, ReportMoves, Stays
<1> QED
  BY <1>2, <1>3, Views DEF L!Answer

LEMMA RejectsL ==
    ASSUME TInv, NEW lost \in SUBSET Calls, \A c \in lost : future[c] = "pending",
           \A c \in Calls : future'[c] = IF c \in lost THEN "rejected" ELSE future[c],
           UNCHANGED call
    PROVE  L!Reject(lost)
<1>1. answerOf' = [c \in Calls |-> IF c \in lost THEN "rejected" ELSE answerOf[c]]
  BY DEF answerOf
<1>2. UNCHANGED <<opOf, outcomeOf, writesOf, reportOf>>
  BY Stays
<1> QED
  BY <1>1, <1>2, Views DEF L!Reject

LEMMA CancelsL == ASSUME TInv, NEW c \in Calls, CallCancel(c) PROVE L!Cancel(c)
<1>1. \A d \in Calls : /\ call'[d].op = call[d].op /\ call'[d].answer = call[d].answer
                       /\ call'[d].outcome = (IF d = c THEN "cancelled" ELSE call[d].outcome)
                       /\ call'[d].writes = call[d].writes
  BY CallField DEF CallCancel, CallType
<1> DEFINE v == IF future[c] = "pending" THEN "cancelled" ELSE future[c]
<1>2. \A d \in Calls : future'[d] = IF d = c THEN v ELSE future[d]
  BY CallField DEF CallCancel, FutureType
<1>3. outcomeOf' = [outcomeOf EXCEPT ![c] = "cancelled"] /\ UNCHANGED <<opOf, reportOf, writesOf>>
  BY <1>1, OutcomeMoves, Stays
<1> HIDE DEF v
<1>4. answerOf' = [answerOf EXCEPT ![c] = v]
  BY <1>2, AnswerMoves
<1>5. answerOf' = [answerOf EXCEPT ![c] = IF @ = "pending" THEN "cancelled" ELSE @]
  BY <1>4, Views DEF v
<1>6. outcomeOf[c] = "waiting"
  BY Views DEF CallCancel
<1> QED
  BY <1>3, <1>5, <1>6 DEF L!Cancel

LEMMA SubmitsL ==
    ASSUME TInv, NEW c \in Calls, NEW o \in CallOps, CallSubmit(c, o) PROVE L!Submit(c)
<1>1. \A d \in Calls : /\ call'[d].op = (IF d = c THEN o ELSE call[d].op)
                       /\ call'[d].answer = call[d].answer
                       /\ call'[d].outcome = (IF d = c THEN "waiting" ELSE call[d].outcome)
                       /\ call'[d].writes = call[d].writes
                       /\ future'[d] = IF d = c THEN "pending" ELSE future[d]
  BY CallField DEF CallSubmit, CallType, FutureType
<1>2. /\ opOf' = [opOf EXCEPT ![c] = o] /\ outcomeOf' = [outcomeOf EXCEPT ![c] = "waiting"]
      /\ answerOf' = [answerOf EXCEPT ![c] = "pending"] /\ UNCHANGED <<reportOf, writesOf>>
  BY <1>1, OpMoves, OutcomeMoves, AnswerMoves, Stays
<1>3. outcomeOf[c] = "idle"
  BY Views DEF CallSubmit
<1> QED
  BY <1>2, <1>3 DEF L!Submit

LEMMA RefusesL ==
    ASSUME TInv, NEW c \in Calls, NEW o \in CallOps, CallRefused(c, o) PROVE L!Refuse(c)
<1> DEFINE now == IF session = None THEN FALSE ELSE IsCurrent(session)
           why == IF now THEN "full" ELSE "unavailable"
<1>1. call' = [call EXCEPT ![c].op = o, ![c].outcome = why] /\ UNCHANGED future
  BY DEF CallRefused
<1>2. why \in {"full", "unavailable"}
  OBVIOUS
<1> HIDE DEF why
<1>3. \A d \in Calls : /\ call'[d].op = (IF d = c THEN o ELSE call[d].op)
                       /\ call'[d].answer = call[d].answer
                       /\ call'[d].outcome = (IF d = c THEN why ELSE call[d].outcome)
                       /\ call'[d].writes = call[d].writes
  BY <1>1, CallField DEF CallType
<1>4. /\ opOf' = [opOf EXCEPT ![c] = o] /\ outcomeOf' = [outcomeOf EXCEPT ![c] = why]
      /\ UNCHANGED <<answerOf, reportOf, writesOf>>
  BY <1>1, <1>3, OpMoves, OutcomeMoves, Stays
<1>5. outcomeOf[c] = "idle"
  BY Views DEF CallRefused
<1> QED
  BY <1>2, <1>4, <1>5 DEF L!Refuse

\* How a call returns.
Returns(c, o) ==
    /\ o \in {"ok", "unconfirmed", "unavailable"}
    /\ o # "unavailable" => future[c] = "set"
    /\ o = "ok" /\ call[c].op \in Valves => call[c].answer.report = call[c].op

LEMMA ReturnE ==
    ASSUME NEW c \in Calls, CallReturn(c)
    PROVE  \E o : Returns(c, o) /\ call' = [call EXCEPT ![c].outcome = o]
<1> DEFINE v == CASE future[c] = "rejected" -> "unavailable"
                  [] future[c] = "set" /\ call[c].op \notin Valves -> "ok"
                  [] OTHER -> IF ~IsCurrent(call[c].home) THEN "unavailable"
                              ELSE IF Confirmed(c) THEN "ok" ELSE "unconfirmed"
<1>1. call' = [call EXCEPT ![c].outcome = v]
  BY Zenon DEF CallReturn
<1>2. future[c] \in {"set", "rejected"}
  BY DEF CallReturn
<1>3. CASE future[c] = "rejected"
  <2>1. v = "unavailable"
    BY <1>3
  <2> HIDE DEF v
  <2> QED
    BY <1>1, <2>1 DEF Returns
<1>4. CASE future[c] = "set" /\ call[c].op \notin Valves
  <2>1. v = "ok"
    BY <1>4
  <2> HIDE DEF v
  <2> QED
    BY <1>1, <1>4, <2>1 DEF Returns
<1>5. CASE future[c] = "set" /\ call[c].op \in Valves
  <2>1. v = IF ~IsCurrent(call[c].home) THEN "unavailable"
            ELSE IF Confirmed(c) THEN "ok" ELSE "unconfirmed"
    BY <1>5
  <2> HIDE DEF v
  <2> QED
    BY <1>1, <1>5, <2>1 DEF Returns, Confirmed
<1> QED
  BY <1>2, <1>3, <1>4, <1>5

LEMMA ReturnsL ==
    ASSUME TInv, NEW c \in Calls, CallReturn(c), future[c] = "set" => call[c].answer # None
    PROVE  L!Return(c)
<1>1. PICK o : Returns(c, o) /\ call' = [call EXCEPT ![c].outcome = o]
  BY ReturnE
<1>2. \A d \in Calls : /\ call'[d].op = call[d].op /\ call'[d].answer = call[d].answer
                       /\ call'[d].outcome = (IF d = c THEN o ELSE call[d].outcome)
                       /\ call'[d].writes = call[d].writes
  BY <1>1, CallField DEF CallType
<1>3. outcomeOf' = [outcomeOf EXCEPT ![c] = o] /\ UNCHANGED <<opOf, answerOf, reportOf, writesOf>>
  BY <1>2, OutcomeMoves, Stays DEF CallReturn
<1>4. /\ outcomeOf[c] = "waiting" /\ answerOf[c] \in {"set", "rejected"}
      /\ o # "unavailable" => answerOf[c] = "set"
      /\ o = "ok" /\ opOf[c] \in Valves => reportOf[c] = opOf[c]
  BY <1>1, Views DEF CallReturn, Returns
<1> QED
  BY <1>1, <1>3, <1>4 DEF L!Return, Returns

-----------------------------------------------------------------------------
(* Lemmas about what sessions hold.                                        *)

\* The calls session s owes an answer are as they were.
Unaffected(s, cl, fu, cl2, fu2) ==
    \A d \in Calls : cl[d].home = s /\ fu[d] \in {"pending", "cancelled"} =>
        /\ cl2[d].home = s /\ cl2[d].op = cl[d].op /\ cl2[d].writes = cl[d].writes
        /\ fu2[d] \in {"pending", "cancelled"}

\* Session object x holds part of what y holds.
Smaller(y, x) ==
    /\ \/ x.queue = y.queue
       \/ x.queue = <<>>
       \/ y.queue # <<>> /\ x.queue = Tail(y.queue)
    /\ \/ x.active = None
       \/ /\ x.active = y.active /\ (x.worker # "done" => y.worker # "done")
          /\ x.worker = "forward" /\ x.active.from \in Calls => y.worker = "forward"

LEMMA TailFacts ==
    ASSUME NEW S, NEW q \in Seq(S), q # <<>>
    PROVE  \A i \in DOMAIN Tail(q) : i \in Nat /\ i + 1 \in DOMAIN q /\ Tail(q)[i] = q[i + 1]
<1>1. DOMAIN q = 1..Len(q) /\ Len(q) \in Nat /\ DOMAIN Tail(q) = 1..(Len(q) - 1)
  OBVIOUS
<1>2. \A i \in 1..(Len(q) - 1) : Tail(q)[i] = q[i + 1]
  OBVIOUS
<1> QED
  BY <1>1, <1>2

LEMMA OwnsSmaller ==
    ASSUME NEW s, NEW x, NEW y \in SessionType, NEW cl, NEW fu, NEW cl2, NEW fu2,
           Owns(s, y, cl, fu), Unaffected(s, cl, fu, cl2, fu2), Smaller(y, x)
    PROVE  Owns(s, x, cl2, fu2)
<1>1. \A r : r.from \in Calls /\ Owed(s, r, cl, fu) =>
          Owed(s, r, cl2, fu2) /\ cl2[r.from].writes = cl[r.from].writes
  BY DEF Owed, Unaffected
<1>2. x.active # None /\ x.active.from \in Calls =>
          /\ Owed(s, x.active, cl2, fu2)
          /\ x.worker # "done" => cl2[x.active.from].writes = 1
          /\ x.worker # "forward"
  BY <1>1 DEF Owns, Smaller
<1>3. CASE x.queue = y.queue \/ x.queue = <<>>
  BY <1>1, <1>2, <1>3 DEF Owns
<1>4. CASE y.queue # <<>> /\ x.queue = Tail(y.queue)
  <2>1. y.queue \in Seq(Request)
    BY DEF SessionType
  <2>2. \A i \in DOMAIN x.queue :
           i \in Nat /\ i + 1 \in DOMAIN y.queue /\ x.queue[i] = y.queue[i + 1]
    BY <1>4, <2>1, TailFacts
  <2>3. \A i, j \in Nat : i + 1 = j + 1 => i = j
    OBVIOUS
  <2>4. \A i, j \in DOMAIN x.queue :
          x.queue[i].from = x.queue[j].from /\ x.queue[i].from \in Calls => i = j
    <3> SUFFICES ASSUME NEW i \in DOMAIN x.queue, NEW j \in DOMAIN x.queue,
                        x.queue[i].from = x.queue[j].from, x.queue[i].from \in Calls
                 PROVE  i = j
      OBVIOUS
    <3>1. /\ i \in Nat /\ i + 1 \in DOMAIN y.queue /\ x.queue[i] = y.queue[i + 1]
          /\ j \in Nat /\ j + 1 \in DOMAIN y.queue /\ x.queue[j] = y.queue[j + 1]
      BY <2>2
    <3>2. i + 1 = j + 1
      BY <3>1, Zenon DEF Owns
    <3> QED
      BY <2>3, <3>1, <3>2
  <2> QED
    BY <1>1, <1>2, <2>2, <2>4 DEF Owns
<1> QED
  BY <1>3, <1>4 DEF Smaller

\* A request joins the queue; one of a local call is new to it.
LEMMA OwnsMore ==
    ASSUME NEW s, NEW x, NEW y \in SessionType, NEW r, NEW cl, NEW fu, NEW cl2, NEW fu2,
           Owns(s, y, cl, fu), Unaffected(s, cl, fu, cl2, fu2),
           x.queue = Append(y.queue, r), x.active = y.active, x.worker = y.worker,
           r.from \in Calls =>
              /\ Owed(s, r, cl2, fu2) /\ cl2[r.from].writes = 0
              /\ \A i \in DOMAIN y.queue : y.queue[i].from # r.from
    PROVE  Owns(s, x, cl2, fu2)
<1>1. \A q : q.from \in Calls /\ Owed(s, q, cl, fu) =>
          Owed(s, q, cl2, fu2) /\ cl2[q.from].writes = cl[q.from].writes
  BY DEF Owed, Unaffected
<1>2. y.queue \in Seq(Request)
  BY DEF SessionType
<1>3. /\ DOMAIN x.queue = 1..(Len(y.queue) + 1) /\ DOMAIN y.queue = 1..Len(y.queue)
      /\ Len(y.queue) \in Nat
  BY <1>2
<1>4. (\A i \in 1..Len(y.queue) : x.queue[i] = y.queue[i]) /\ x.queue[Len(y.queue) + 1] = r
  BY <1>2
<1>0. \A i : i \in 1..(Len(y.queue) + 1) <=> i \in 1..Len(y.queue) \/ i = Len(y.queue) + 1
  BY <1>3
<1>5. \A i \in DOMAIN x.queue :
        \/ i \in DOMAIN y.queue /\ x.queue[i] = y.queue[i]
        \/ i = Len(y.queue) + 1 /\ x.queue[i] = r
  BY <1>0, <1>3, <1>4
<1>6. \A i, j \in DOMAIN x.queue :
        x.queue[i].from = x.queue[j].from /\ x.queue[i].from \in Calls => i = j
  <2> SUFFICES ASSUME NEW i \in DOMAIN x.queue, NEW j \in DOMAIN x.queue,
                      x.queue[i].from = x.queue[j].from, x.queue[i].from \in Calls
               PROVE  i = j
    OBVIOUS
  <2>1. CASE i \in DOMAIN y.queue /\ x.queue[i] = y.queue[i]
    <3>1. CASE j \in DOMAIN y.queue /\ x.queue[j] = y.queue[j]
      BY <2>1, <3>1, Zenon DEF Owns
    <3>2. CASE x.queue[j] = r
      BY <2>1, <3>2, Zenon
    <3> QED
      BY <1>5, <3>1, <3>2, Zenon
  <2>2. CASE i = Len(y.queue) + 1 /\ x.queue[i] = r
    <3>1. CASE j \in DOMAIN y.queue /\ x.queue[j] = y.queue[j]
      BY <2>2, <3>1, Zenon
    <3>2. CASE j = Len(y.queue) + 1
      BY <2>2, <3>2, Zenon
    <3> QED
      BY <1>5, <3>1, <3>2, Zenon
  <2> QED
    BY <1>5, <2>1, <2>2, Zenon
<1> QED
  BY <1>1, <1>5, <1>6 DEF Owns

\* The steps of one session.
LEMMA PromiseOne ==
    ASSUME TInv, Promise, NEW s \in Sessions, NEW x, sess' = [sess EXCEPT ![s] = x],
           Owns(s, x, call', future'), \A c \in Calls : Truthful(c)',
           \A t \in Sessions \ {s} : Unaffected(t, call, future, call', future')
    PROVE  Promise'
<1>1. ASSUME NEW t \in Sessions PROVE Owns(t, sess'[t], call', future')
  <2>1. CASE t = s
    <3>1. sess'[t] = x
      BY <2>1 DEF TInv, TypeOK
    <3> QED
      BY <2>1, <3>1
  <2>2. CASE t # s
    <3>1. sess'[t] = sess[t] /\ sess[t] \in SessionType
      BY <2>2 DEF TInv, TypeOK
    <3>2. Smaller(sess[t], sess'[t])
      BY <3>1 DEF Smaller
    <3> QED
      BY <2>2, <3>1, <3>2, OwnsSmaller DEF Promise
  <2> QED
    BY <2>1, <2>2
<1> QED
  BY <1>1 DEF Promise

\* A step no caller notices.
Unnoticed == UNCHANGED call /\ \A c \in Calls : future'[c] = future[c]
Step == L!Next \/ UNCHANGED L!vars

LEMMA UnnoticedFacts ==
    ASSUME Promise, Unnoticed
    PROVE  /\ Step /\ \A c \in Calls : Truthful(c)'
           /\ \A t \in Sessions : Unaffected(t, call, future, call', future')
<1>1. Step
  BY Stutters DEF Step, Unnoticed
<1>2. \A c \in Calls : Truthful(c)'
  BY DEF Promise, Unnoticed, Truthful
<1>3. \A t \in Sessions : Unaffected(t, call, future, call', future')
  BY DEF Unaffected, Unnoticed
<1> QED
  BY <1>1, <1>2, <1>3

LEMMA Untouched ==
    ASSUME TInv, Promise, NEW s \in Sessions, NEW x, sess' = [sess EXCEPT ![s] = x],
           Unnoticed, Smaller(sess[s], x)
    PROVE  Promise' /\ Step
<1>1. sess[s] \in SessionType
  BY TInvFits DEF Fits
<1>2. Owns(s, x, call', future')
  BY <1>1, UnnoticedFacts, OwnsSmaller DEF Promise
<1> QED
  BY <1>2, UnnoticedFacts, PromiseOne

LEMMA UntouchedAll ==
    ASSUME TInv, Promise, Unnoticed, \A s \in Sessions : Smaller(sess[s], sess'[s])
    PROVE  Promise' /\ Step
<1>1. ASSUME NEW s \in Sessions PROVE Owns(s, sess'[s], call', future')
  <2>1. sess[s] \in SessionType
    BY TInvFits DEF Fits
  <2> QED
    BY <2>1, UnnoticedFacts, OwnsSmaller DEF Promise
<1> QED
  BY <1>1, UnnoticedFacts DEF Promise

LEMMA Joins ==
    ASSUME TInv, Promise, NEW s \in Sessions, NEW x \in SessionType, NEW r, Unnoticed,
           sess' = [sess EXCEPT ![s] = Enqueue(x, r)], r.from \notin Calls,
           x.queue = sess[s].queue, x.active = sess[s].active, x.worker = sess[s].worker
    PROVE  Promise' /\ Step
<1> DEFINE q == Append(x.queue, r)
           y == [x EXCEPT !.queue = q]
<1>1. Enqueue(x, r) = y
  BY DEF Enqueue
<1> HIDE DEF q
<1>2. y.queue = q /\ y.active = sess[s].active /\ y.worker = sess[s].worker
  BY DEF SessionType
<1>3. sess[s] \in SessionType
  BY TInvFits DEF Fits
<1> HIDE DEF y
<1>4. Owns(s, y, call', future')
  BY <1>2, <1>3, UnnoticedFacts, OwnsMore DEF Promise, q
<1> QED
  BY <1>1, <1>4, UnnoticedFacts, PromiseOne

-----------------------------------------------------------------------------
(* The steps of the session task.                                          *)

LEMMA AcceptP ==
    ASSUME TInv, Promise, NEW s \in Sessions, Accept(s) PROVE Promise' /\ Step
<1> DEFINE old(t) == [sess[t] EXCEPT !.alive = FALSE, !.cancelled = TRUE]
           new == [NewSession EXCEPT !.task = "created", !.alive = TRUE]
<1>1. Unnoticed
  BY DEF Accept, Unnoticed
<1>2. sess' = [t \in Sessions |-> IF t = s THEN new ELSE IF t = session THEN old(t) ELSE sess[t]]
  BY DEF Accept
<1>3. new.active = None /\ new.queue = <<>>
  BY DEF NewSession
<1>4. ASSUME NEW t \in Sessions
      PROVE  /\ old(t).queue = sess[t].queue /\ old(t).active = sess[t].active
             /\ old(t).worker = sess[t].worker
  BY TInvFits DEF Fits, SessionType
<1> HIDE DEF old, new
<1>5. \A t \in Sessions : Smaller(sess[t], sess'[t])
  BY <1>2, <1>3, <1>4 DEF Smaller
<1> QED
  BY <1>1, <1>5, UntouchedAll

LEMMA RunStartP ==
    ASSUME TInv, WInv, Promise, NEW s \in Sessions, RunStart(s) PROVE Promise' /\ Step
<1> DEFINE x == IF sess[s].cancelled THEN [sess[s] EXCEPT !.task = "lost"]
                ELSE [sess[s] EXCEPT !.task = "running", !.worker = "get",
                        !.reader = "read", !.vendor = "connect", !.poller = "sleep"]
<1>1. sess' = [sess EXCEPT ![s] = x] /\ Unnoticed
  BY DEF RunStart, Unnoticed
<1>2. sess[s].active = None
  BY DEF RunStart, WInv, Placed
<1>3. x.queue = sess[s].queue /\ x.active = sess[s].active
  BY TInvFits DEF Fits, SessionType
<1> HIDE DEF x
<1> QED
  BY <1>1, <1>2, <1>3, Untouched DEF Smaller

LEMMA AbortP ==
    ASSUME TInv, Promise, NEW s \in Sessions, Abort(s) PROVE Promise' /\ Step
<1> DEFINE v == IF sess[s].vendor \in {"serve", "unwind"} THEN "unwind" ELSE "done"
           a == Released(sess[s].active)
           x == [sess[s] EXCEPT !.reader = "done", !.poller = "done", !.worker = "done",
                   !.vendor = v, !.current = None, !.response = None, !.active = a]
<1>1. sess' = [sess EXCEPT ![s] = x]
  BY DEF Abort
<1>2. Unnoticed
  <2>1. \A c \in Calls : c # s
    OBVIOUS
  <2> QED
    BY <2>1 DEF Abort, Unnoticed, TInv, TypeOK, Callers
<1>3. sess[s] \in SessionType /\ a \in {None, sess[s].active}
  BY TInvFits DEF Fits, Released
<1> HIDE DEF v, a
<1>4. x.worker = "done" /\ x.active = a /\ x.queue = sess[s].queue
  BY <1>3 DEF SessionType
<1> HIDE DEF x
<1> QED
  BY <1>1, <1>2, <1>3, <1>4, Untouched DEF Smaller

LEMMA RunDoneP ==
    ASSUME TInv, Promise, NEW s \in Sessions, RunDone(s) PROVE Promise' /\ Step
<1> DEFINE x == [sess[s] EXCEPT !.task = "done"]
<1>1. sess' = [sess EXCEPT ![s] = x] /\ Unnoticed
  BY DEF RunDone, Unnoticed
<1>2. x.queue = sess[s].queue /\ x.active = sess[s].active /\ x.worker = sess[s].worker
  BY TInvFits DEF Fits, SessionType
<1> HIDE DEF x
<1> QED
  BY <1>1, <1>2, Untouched DEF Smaller

LEMMA RunCleanupP ==
    ASSUME TInv, Promise, NEW s \in Sessions, RunCleanup(s) PROVE Promise' /\ Step
<1> DEFINE x == [sess[s] EXCEPT !.task = "closing", !.alive = FALSE, !.current = None,
                   !.queue = <<>>, !.active = None, !.cloud = None,
                   !.sampled = FALSE, !.failed = FALSE]
           lost == {c \in Calls : future[c] = "pending" /\ \E r \in Held(s) : r.from = c}
<1>1. sess' = [sess EXCEPT ![s] = x] /\ UNCHANGED call
  BY DEF RunCleanup
<1>2. \A c \in Calls : future'[c] = IF c \in lost THEN "rejected" ELSE future[c]
  BY DEF RunCleanup, Callers
<1>3. \A c \in lost : call[c].home = s
  <2> SUFFICES ASSUME NEW c \in Calls, NEW r \in Held(s), r.from = c PROVE call[c].home = s
    OBVIOUS
  <2>1. Owns(s, sess[s], call, future)
    BY DEF Promise
  <2> QED
    BY <2>1 DEF Held, Owns, Owed
<1>4. Step
  <2>1. L!Reject(lost)
    BY <1>1, <1>2, RejectsL
  <2>2. lost \in SUBSET Calls
    OBVIOUS
  <2> HIDE DEF lost
  <2> QED
    BY <2>1, <2>2 DEF Step, L!Next
<1> HIDE DEF lost
<1>5. x.queue = <<>> /\ x.active = None
  BY TInvFits DEF Fits, SessionType
<1> HIDE DEF x
<1>6. Owns(s, x, call', future')
  BY <1>5 DEF Owns
<1>7. ASSUME NEW c \in Calls PROVE Truthful(c)'
  <2>1. Truthful(c) /\ (c \in lost => future[c] = "pending")
    BY DEF Promise, lost
  <2>2. call' = call /\ future'[c] = IF c \in lost THEN "rejected" ELSE future[c]
    BY <1>1, <1>2
  <2> QED
    BY <2>1, <2>2 DEF Truthful
<1>8. \A t \in Sessions \ {s} : Unaffected(t, call, future, call', future')
  BY <1>1, <1>2, <1>3 DEF Unaffected
<1> QED
  BY <1>1, <1>4, <1>6, <1>7, <1>8, PromiseOne

-----------------------------------------------------------------------------
(* The steps of the worker.                                                *)

LEMMA WorkerDiscardP ==
    ASSUME TInv, WInv, Promise, NEW s \in Sessions, WorkerDiscard(s) PROVE Promise' /\ Step
<1> DEFINE w == Loop(s, "get")
           q == Tail(sess[s].queue)
           x == [sess[s] EXCEPT !.queue = q, !.worker = w]
<1>1. sess' = [sess EXCEPT ![s] = x] /\ Unnoticed /\ sess[s].queue # <<>>
  BY DEF WorkerDiscard, Takes, Unnoticed
<1>2. sess[s].active = None /\ sess[s] \in SessionType
  BY TInvFits DEF WorkerDiscard, Takes, WInv, Placed, Fits
<1> HIDE DEF w, q
<1>3. x.queue = q /\ x.active = None
  BY <1>2 DEF SessionType
<1> HIDE DEF x
<1> QED
  BY <1>1, <1>3, Untouched DEF Smaller, q

\* What the request at the head of the queue is, and what is left behind it.
LEMMA HeadOwned ==
    ASSUME TInv, WInv, Promise, NEW s \in Sessions, Takes(s),
           Head(sess[s].queue).from \in Calls
    PROVE  LET r == Head(sess[s].queue) IN
           /\ Owed(s, r, call, future) /\ call[r.from].writes = 0
           /\ \A i \in DOMAIN Tail(sess[s].queue) : Tail(sess[s].queue)[i].from # r.from
<1>1. sess[s].queue \in Seq(Request) /\ sess[s].queue # <<>>
  BY TInvFits DEF Takes, Fits, SessionType
<1>2. Owns(s, sess[s], call, future)
  BY DEF Promise
<1> DEFINE q == sess[s].queue
<1>3. Head(q) = q[1] /\ 1 \in DOMAIN q
  BY <1>1
<1>4. \A i \in DOMAIN Tail(q) : i \in Nat /\ i + 1 \in DOMAIN q /\ Tail(q)[i] = q[i + 1] /\ i # 0
  <2>1. DOMAIN Tail(q) = 1..(Len(q) - 1) /\ Len(q) \in Nat
    BY <1>1
  <2> QED
    BY <1>1, <2>1, TailFacts
<1>5. \A i \in Nat : i + 1 = 1 => i = 0
  OBVIOUS
<1>6. \A i \in DOMAIN Tail(q) : Tail(q)[i].from # q[1].from
  BY <1>2, <1>3, <1>4, <1>5 DEF Owns
<1> QED
  BY <1>2, <1>3, <1>6 DEF Owns

LEMMA WorkerSendP ==
    ASSUME TInv, WInv, Promise, NEW s \in Sessions, WorkerSend(s) PROVE Promise' /\ Step
<1> DEFINE r == Head(sess[s].queue)
           q == Tail(sess[s].queue)
<1>1. /\ r \in Request /\ Takes(s) /\ ~Skipped(r) /\ UNCHANGED future
      /\ sess[s].queue # <<>> /\ sess[s] \in SessionType /\ sess[s].active = None
  BY TInvFits, TakeFits DEF WorkerSend, Takes, Fits, WInv, Placed
<1>2. r.from \in Calls =>
         /\ Owed(s, r, call, future) /\ call[r.from].writes = 0 /\ future[r.from] = "pending"
         /\ \A i \in DOMAIN q : q[i].from # r.from
  BY <1>1, HeadOwned DEF Owed, Skipped, Callers
<1>3. Owns(s, sess[s], call, future)
  BY DEF Promise
\* What stays in the queue.
<1> DEFINE z == [queue |-> q, active |-> None, worker |-> "done"]
<1>4. z.queue = q /\ z.active = None
  OBVIOUS
<1> HIDE DEF z
<1>5. Smaller(sess[s], z)
  BY <1>1, <1>4 DEF Smaller
<1>6. CASE ~IsCurrent(s)
  <2>1. PICK x : /\ sess' = [sess EXCEPT ![s] = x] /\ SendsNot(s, sess[s], x)
                 /\ UNCHANGED call
    BY <1>6, WorkerSendE
  <2>2. Unnoticed
    BY <1>1, <2>1 DEF Unnoticed
  <2>3. Owns(s, z, call, future)
    BY <1>1, <1>3, <1>5, <2>2, UnnoticedFacts, OwnsSmaller DEF Unnoticed
  <2>4. x.queue = z.queue /\ x.active \in {None, r} /\ x.worker = "done"
    BY <1>4, <2>1 DEF SendsNot, Released
  <2> HIDE DEF r, q
  <2>5. Owns(s, x, call, future)
    BY <1>2, <2>3, <2>4 DEF Owns
  <2>6. Owns(s, x, call', future')
    BY <1>1, <2>1, <2>5
  <2> QED
    BY <2>1, <2>2, <2>6, UnnoticedFacts, PromiseOne
<1>7. CASE IsCurrent(s)
  <2>1. PICK x : sess' = [sess EXCEPT ![s] = x] /\ Sends(s, sess[s], x)
    BY <1>7, WorkerSendE
  <2>2. x.queue = z.queue /\ x.active = r /\ x.worker = "exchange"
    BY <1>4, <2>1 DEF Sends
  <2>3. CASE r.from \notin Calls
    <3>1. Unnoticed
      BY <1>1, <1>7, <2>3 DEF WorkerSend, Unnoticed
    <3>2. Owns(s, z, call', future')
      BY <1>1, <1>3, <1>5, <3>1, UnnoticedFacts, OwnsSmaller
    <3> HIDE DEF r, q
    <3>3. Owns(s, x, call', future')
      BY <2>2, <2>3, <3>2 DEF Owns
    <3> QED
      BY <2>1, <3>1, <3>3, UnnoticedFacts, PromiseOne
  <2>4. CASE r.from \in Calls
    <3> DEFINE c == r.from
    <3>1. call' = [call EXCEPT ![c].writes = @ + 1]
      BY <1>7, <2>4 DEF WorkerSend
    <3> HIDE DEF r, q
    <3>2. Step
      BY <1>1, <1>2, <2>4, <3>1, WritesL DEF Step, L!Next
    <3>3. \A d \in Calls :
             /\ call'[d].home = call[d].home /\ call'[d].op = call[d].op
             /\ call'[d].answer = call[d].answer /\ call'[d].outcome = call[d].outcome
             /\ call'[d].writes = IF d = c THEN 1 ELSE call[d].writes
      <4>0. c \in Calls /\ call[c].writes = 0
        BY <1>2, <2>4
      <4> HIDE DEF c
      <4>1. call' = [call EXCEPT ![c] = [call[c] EXCEPT !.writes = 1]]
        BY <3>1, <4>0, CallField
      <4> QED
        BY <4>1, CallField DEF CallType
    <3>4. \A d \in Calls : Truthful(d)'
      BY <1>1, <1>2, <2>4, <3>3 DEF Promise, Truthful
    <3>5. \A t \in Sessions \ {s} : Unaffected(t, call, future, call', future')
      BY <1>1, <1>2, <2>4, <3>3 DEF Unaffected, Owed
    <3>6. Owns(s, z, call, future)
      <4>1. Unaffected(s, call, future, call, future)
        BY DEF Unaffected
      <4> QED
        BY <1>1, <1>3, <1>5, <4>1, OwnsSmaller
    <3>7. Owns(s, x, call', future')
      BY <1>1, <1>2, <1>4, <2>2, <2>4, <3>3, <3>6 DEF Owns, Owed
    <3> QED
      BY <2>1, <3>2, <3>4, <3>5, <3>7, PromiseOne
  <2> QED
    BY <2>3, <2>4
<1> QED
  BY <1>6, <1>7

\* The worker's request is answered: of a local call, the first time.
LEMMA CompleteP ==
    ASSUME TInv, Promise, NEW s \in Sessions, NEW y \in SessionType, NEW reply,
           y.active.from \in Calls => reply \in Reply, Complete(s, y, reply), y.queue = sess[s].queue, y.active = sess[s].active,
           y.active \in Request, sess[s].worker # "done",
           y.active.op \in Valves => reply.after = y.active.from
    PROVE  Promise' /\ Step
<1> DEFINE c == y.active.from
<1>1. PICK x : sess' = [sess EXCEPT ![s] = x] /\ Finished(s, y, x)
  BY CompleteE
<1>2. Smaller(sess[s], x) /\ x.active = None /\ x.queue = sess[s].queue
  BY <1>1 DEF Finished, Smaller
<1>3. CASE c \notin Calls \/ future[c] # "pending"
  <2>1. Unnoticed
    BY <1>3 DEF Complete, Unnoticed, Settled, TInv, TypeOK, Callers
  <2> QED
    BY <1>1, <1>2, <2>1, Untouched
<1>4. CASE c \in Calls /\ future[c] = "pending"
  <2>1. future' = [future EXCEPT ![c] = "set"] /\ call' = [call EXCEPT ![c].answer = reply]
    <3>1. c \notin Clouds
      BY <1>4
    <3> QED
      BY <1>4, <3>1 DEF Complete, Settled
  <2>2. /\ Owns(s, sess[s], call, future) /\ Owed(s, y.active, call, future)
        /\ call[c].writes = 1
    BY <1>4 DEF Promise, Owns
  <2> HIDE DEF c
  <2>3. Step
    BY <1>4, <2>1, <2>2, AnswersL DEF Step, L!Next, c
  <2>4. \A d \in Calls :
           /\ call'[d].home = call[d].home /\ call'[d].op = call[d].op
           /\ call'[d].writes = call[d].writes /\ call'[d].outcome = call[d].outcome
           /\ call'[d].answer = (IF d = c THEN reply ELSE call[d].answer)
           /\ future'[d] = IF d = c THEN "set" ELSE future[d]
    BY <1>4, <2>1, CallField DEF CallType, FutureType
  <2>5. call[c].home = s /\ call[c].op = y.active.op
    BY <2>2 DEF Owed, c
  <2>6. \A d \in Calls : Truthful(d)'
    BY <1>4, <2>4, <2>5 DEF Promise, Truthful, c
  <2>7. \A t \in Sessions \ {s} : Unaffected(t, call, future, call', future')
    BY <2>4, <2>5 DEF Unaffected
  <2>8. \A i \in DOMAIN x.queue : x.queue[i].from # c
    BY <1>2, <1>4, <2>2 DEF Owns
  <2>9. Owns(s, x, call', future')
    <3>1. \A q : q.from \in Calls /\ q.from # c /\ Owed(s, q, call, future) =>
             Owed(s, q, call', future') /\ call'[q.from].writes = call[q.from].writes
      BY <2>4 DEF Owed
    <3>2. \A i \in DOMAIN x.queue :
             x.queue[i].from \in Calls =>
                Owed(s, x.queue[i], call, future) /\ call[x.queue[i].from].writes = 0
      BY <1>2, <2>2, Zenon DEF Owns
    <3>3. \A i, j \in DOMAIN x.queue :
             x.queue[i].from = x.queue[j].from /\ x.queue[i].from \in Calls => i = j
      BY <1>2, <2>2, Zenon DEF Owns
    <3>4. \A i \in DOMAIN x.queue :
             x.queue[i].from \in Calls =>
                Owed(s, x.queue[i], call', future') /\ call'[x.queue[i].from].writes = 0
      BY <2>8, <3>1, <3>2
    <3> QED
      BY <1>2, <3>3, <3>4 DEF Owns
  <2> QED
    BY <1>1, <2>3, <2>6, <2>7, <2>9, PromiseOne
<1> QED
  BY <1>3, <1>4

LEMMA AfterResponseP ==
    ASSUME TInv, Promise, NEW s \in Sessions, NEW y \in SessionType, NEW reply,
           y.active.from \in Calls => reply \in Reply, AfterResponse(s, y, reply), y.queue = sess[s].queue, y.active = sess[s].active,
           y.active \in Request, y.worker # "done", sess[s].worker # "done"
    PROVE  Promise' /\ Step
<1>1. PICK x :
        /\ sess' = [sess EXCEPT ![s] = x]
        /\ \/ y.active.op \notin Valves /\ Complete(s, y, reply)
           \/ UNCHANGED <<future, call>> /\ Raised(y, x)
           \/ UNCHANGED <<future, call>> /\ Confirms(y, x)
  BY AfterResponseE
<1>2. CASE y.active.op \notin Valves /\ Complete(s, y, reply)
  BY <1>2, CompleteP
<1>3. CASE UNCHANGED <<future, call>> /\ (Raised(y, x) \/ Confirms(y, x))
  <2>1. Smaller(sess[s], x)
    BY <1>3 DEF Smaller, Raised, Confirms, Released
  <2> QED
    BY <1>1, <1>3, <2>1, Untouched DEF Unnoticed
<1> QED
  BY <1>1, <1>2, <1>3

\* What a worker with a response has.
LEMMA ReplyFacts ==
    ASSUME TInv, NEW s \in Sessions, NEW where \in {"exchange", "readback"}, Answered(s, where)
    PROVE  LET reply == sess[s].current.reply
               y == Sampled(sess[s], reply)
           IN /\ reply \in Reply /\ sess[s].active \in Request /\ sess[s].worker = where
              /\ y \in SessionType /\ Like(s, y) /\ y.active = sess[s].active
              /\ y.worker = where
<1> DEFINE reply == sess[s].current.reply
           b == sess[s].sampled \/ reply.op = "snapshot"
           y == [sess[s] EXCEPT !.sampled = b]
<1>1. sess[s] \in SessionType /\ sess[s].worker = where
  BY TInvFits DEF Fits, Answered
<1>2. Sampled(sess[s], reply) = y
  BY DEF Sampled
<1>3. reply \in Reply /\ sess[s].active \in Request
  BY AnsweredFacts DEF Answered
<1> HIDE DEF b
<1>4. y.worker = sess[s].worker
  BY <1>1 DEF SessionType
<1> HIDE DEF y
<1> QED
  BY <1>1, <1>2, <1>3, <1>4, SampledLike

LEMMA ResumeForwardP ==
    ASSUME TInv, Promise, NEW s \in Sessions, ResumeForward(s) PROVE Promise' /\ Step
<1> DEFINE reply == sess[s].current.reply
           y == Sampled(sess[s], reply)
           x == [y EXCEPT !.worker = "forward", !.response = reply, !.current = None]
<1>1. sess' = [sess EXCEPT ![s] = x] /\ Unnoticed /\ Answered(s, "exchange")
  BY DEF ResumeForward, Unnoticed
<1>2. y \in SessionType /\ Like(s, y) /\ y.active = sess[s].active /\ sess[s].worker = "exchange"
  BY <1>1, ReplyFacts
<1> HIDE DEF y, reply
<1>3. x.active = sess[s].active /\ x.queue = sess[s].queue
  BY <1>2 DEF SessionType, Like
<1>4. sess[s].active.from \notin Calls
  BY DEF ResumeForward, Attached
<1> HIDE DEF x
<1> QED
  BY <1>1, <1>2, <1>3, <1>4, Untouched DEF Smaller

LEMMA ResumeP ==
    ASSUME TInv, Promise, NEW s \in Sessions, Resume(s) PROVE Promise' /\ Step
<1> DEFINE reply == sess[s].current.reply
           y == Sampled(sess[s], reply)
<1>1. AfterResponse(s, y, reply) /\ Answered(s, "exchange")
  BY DEF Resume
<1>2. /\ y \in SessionType /\ Like(s, y) /\ y.active = sess[s].active
      /\ sess[s].worker = "exchange" /\ y.worker = "exchange"
      /\ sess[s].active \in Request /\ reply \in Reply
  BY <1>1, ReplyFacts
<1> HIDE DEF y, reply
<1> QED
  BY <1>1, <1>2, AfterResponseP DEF Like

LEMMA ForwardDoneP ==
    ASSUME TInv, Promise, NEW s \in Sessions, NEW ok \in BOOLEAN, ForwardDone(s, ok)
    PROVE  Promise' /\ Step
<1>1. AfterResponse(s, sess[s], sess[s].response) /\ sess[s].worker = "forward"
  BY DEF ForwardDone
<1>2. sess[s] \in SessionType /\ sess[s].active \in Request
  BY <1>1, TInvFits, MaybeFacts DEF Fits, SessionType
<1>3. sess[s].active.from \notin Calls
  <2>1. Owns(s, sess[s], call, future) /\ sess[s].active # None
    BY <1>2 DEF Promise
  <2> QED
    BY <1>1, <2>1 DEF Owns
<1> QED
  BY <1>1, <1>2, <1>3, AfterResponseP

\* The read-back that confirms a command was composed after it.
LEMMA ResumeReadbackP ==
    ASSUME TInv, Flow, Promise, NEW s \in Sessions, ResumeReadback(s) PROVE Promise' /\ Step
<1> DEFINE reply == sess[s].current.reply
           y == Sampled(sess[s], reply)
<1>1. Complete(s, y, reply) /\ Answered(s, "readback") /\ StillCurrent(s)
  BY DEF ResumeReadback
<1>2. /\ y \in SessionType /\ Like(s, y) /\ y.active = sess[s].active
      /\ sess[s].worker = "readback"
      /\ sess[s].active \in Request /\ reply \in Reply
  BY <1>1, ReplyFacts
<1>3. reply.after = sess[s].active.from
  BY <1>1, <1>2, AnsweredF DEF Good, ReadsBack
<1> HIDE DEF y, reply
<1> QED
  BY <1>1, <1>2, <1>3, CompleteP DEF Like

LEMMA WorkerEndsP ==
    ASSUME TInv, Promise, NEW s \in Sessions, ResumeStale(s) \/ ExchangeTimeout(s)
    PROVE  Promise' /\ Step
<1> DEFINE x == WorkerRaised(sess[s], sess[s].active)
<1>1. sess' = [sess EXCEPT ![s] = x] /\ Unnoticed
  BY DEF ResumeStale, ExchangeTimeout, TimedOut, Unnoticed
<1>2. sess[s] \in SessionType
  BY TInvFits DEF Fits
<1>3. Smaller(sess[s], x)
  BY <1>2, RaisedE DEF Raised, Smaller, Released
<1> HIDE DEF x
<1> QED
  BY <1>1, <1>3, Untouched

-----------------------------------------------------------------------------
(* The other steps.                                                        *)

\* A session object that differs from y only in what callers do not look at.
Alike(y, x) == x.queue = y.queue /\ x.active = y.active /\ x.worker = y.worker

LEMMA AlikeOne ==
    ASSUME TInv, Promise, NEW s \in Sessions, NEW x, sess' = [sess EXCEPT ![s] = x],
           Unnoticed, Alike(sess[s], x)
    PROVE  Promise' /\ Step
  BY Untouched DEF Alike, Smaller

LEMMA ReaderP ==
    ASSUME TInv, Promise, NEW s \in Sessions, ReaderFrame(s) \/ ReaderLost(s)
    PROVE  Promise' /\ Step
<1> DEFINE e == [op |-> sess[s].current.op, reply |-> Head(device.outbox)]
           y1 == [sess[s] EXCEPT !.current = e]
           y2 == [sess[s] EXCEPT !.reader = "done", !.failed = TRUE]
<1>1. PICK y \in {y1, y2} : sess' = [sess EXCEPT ![s] = y]
  BY ZenonT(60) DEF ReaderFrame, ReaderLost
<1>2. Unnoticed
  BY DEF ReaderFrame, ReaderLost, Unnoticed
<1>3. sess[s] \in SessionType
  BY TInvFits DEF Fits
<1> HIDE DEF e
<1>4. Alike(sess[s], y1)
  BY <1>3 DEF Alike, SessionType
<1>5. Alike(sess[s], y2)
  BY <1>3 DEF Alike, SessionType
<1> HIDE DEF y1, y2
<1>6. Alike(sess[s], y)
  BY <1>1, <1>4, <1>5
<1> QED
  BY <1>1, <1>2, <1>6, AlikeOne

LEMMA VendorP ==
    ASSUME TInv, Promise, NEW s \in Sessions, Vendor(s) PROVE Promise' /\ Step
<1>0. sess[s] \in SessionType
  BY TInvFits DEF Fits
<1>1. Unnoticed
  BY DEF Vendor, VendorLost, VendorClosed, VendorConnect, VendorFrame, Unnoticed
<1>2. ASSUME NEW v, NEW k,
             \/ sess' = [sess EXCEPT ![s] = [sess[s] EXCEPT !.vendor = v]]
             \/ sess' = [sess EXCEPT ![s] = [sess[s] EXCEPT !.vendor = v, !.cloud = k]]
             \/ sess' = [sess EXCEPT ![s] = [sess[s] EXCEPT !.cloud = k, !.vendor = v]]
             \/ sess' = [sess EXCEPT ![s] = sess[s]]
      PROVE  Promise' /\ Step
  <2> DEFINE y1 == [sess[s] EXCEPT !.vendor = v]
             y2 == [sess[s] EXCEPT !.vendor = v, !.cloud = k]
             y3 == [sess[s] EXCEPT !.cloud = k, !.vendor = v]
  <2>1. PICK y \in {y1, y2, y3, sess[s]} : sess' = [sess EXCEPT ![s] = y]
    BY <1>2
  <2>2. Alike(sess[s], y1)
    BY <1>0 DEF Alike, SessionType
  <2>3. Alike(sess[s], y2)
    BY <1>0 DEF Alike, SessionType
  <2>4. Alike(sess[s], y3)
    BY <1>0 DEF Alike, SessionType
  <2>5. Alike(sess[s], sess[s])
    BY DEF Alike
  <2> HIDE DEF y1, y2, y3
  <2>6. Alike(sess[s], y)
    BY <2>1, <2>2, <2>3, <2>4, <2>5
  <2> QED
    BY <1>1, <2>1, <2>6, AlikeOne
<1>3. CASE VendorLost(s)
  BY <1>2, <1>3 DEF VendorLost
<1>4. CASE VendorClosed(s)
  <2> DEFINE v == IF sess[s].vendor = "close" THEN Loop(s, "connect") ELSE "done"
  <2>1. sess' = [sess EXCEPT ![s] = [sess[s] EXCEPT !.cloud = None, !.vendor = v]]
    BY <1>4 DEF VendorClosed
  <2> HIDE DEF v
  <2> QED
    BY <1>2, <2>1
<1>5. ASSUME NEW k \in Clouds, VendorConnect(s, k) PROVE Promise' /\ Step
  BY <1>2, <1>5, ZenonT(60) DEF VendorConnect
<1>6. ASSUME NEW k \in Clouds, NEW op \in VendorOps, VendorFrame(s, k, op)
      PROVE  Promise' /\ Step
  <2> DEFINE r == [op |-> op, from |-> k, n |-> cloud[k].asked + 1]
  <2>1. \/ sess' = [sess EXCEPT ![s] = sess[s]]
        \/ sess' = [sess EXCEPT ![s] = Enqueue(sess[s], r)]
        \/ sess' = [sess EXCEPT ![s] = [sess[s] EXCEPT !.vendor = "close"]]
    BY <1>6 DEF VendorFrame
  <2>2. r.from \notin Calls
    OBVIOUS
  <2> HIDE DEF r
  <2>3. CASE sess' = [sess EXCEPT ![s] = Enqueue(sess[s], r)]
    BY <1>0, <1>1, <2>2, <2>3, Joins
  <2> QED
    BY <1>2, <2>1, <2>3
<1> QED
  BY <1>3, <1>4, <1>5, <1>6 DEF Vendor

LEMMA PollerP ==
    ASSUME TInv, Promise, NEW s \in Sessions, Poller(s) PROVE Promise' /\ Step
<1>1. sess[s] \in SessionType
  BY TInvFits DEF Fits
<1>2. Unnoticed
  <2>1. \A c \in Calls : c # s
    OBVIOUS
  <2> QED
    BY <2>1 DEF Poller, PollResume, PollSubmit, TInv, TypeOK, Callers, Unnoticed
<1>3. ASSUME NEW w PROVE Alike(sess[s], [sess[s] EXCEPT !.poller = w])
  BY <1>1 DEF SessionType, Alike
<1>4. CASE PollResume(s)
  <2> DEFINE x == [sess[s] EXCEPT !.poller = "sleep"]
  <2>1. sess' = [sess EXCEPT ![s] = x]
    BY <1>4 DEF PollResume
  <2>2. Alike(sess[s], x)
    BY <1>3
  <2> HIDE DEF x
  <2> QED
    BY <1>2, <2>1, <2>2, AlikeOne
<1>5. ASSUME NEW op \in Reads, PollSubmit(s, op) PROVE Promise' /\ Step
  <2> DEFINE x == [sess[s] EXCEPT !.poller = "wait"]
             r == [op |-> op, from |-> s, n |-> 0]
  <2>1. sess' = [sess EXCEPT ![s] = Enqueue(x, r)] /\ r.from \notin Calls
    BY <1>5 DEF PollSubmit
  <2>2. x \in SessionType /\ Alike(sess[s], x)
    BY <1>1, <1>3 DEF SessionType
  <2> HIDE DEF x, r
  <2> QED
    BY <1>2, <2>1, <2>2, Joins DEF Alike
<1> QED
  BY <1>4, <1>5 DEF Poller

LEMMA CallSubmitP ==
    ASSUME TInv, Promise, NEW c \in Calls, NEW op \in CallOps, CallSubmit(c, op)
    PROVE  Promise' /\ Step
<1> DEFINE s == session
           r == [op |-> op, from |-> c, n |-> 0]
           q == Append(sess[s].queue, r)
           x == [sess[s] EXCEPT !.queue = q]
<1>1. s \in Sessions /\ sess[s] \in SessionType /\ call[c].outcome = "idle"
  BY TInvFits, MaybeFacts DEF CallSubmit, TInv, TypeOK, Fits
<1>2. sess' = [sess EXCEPT ![s] = x]
  BY DEF CallSubmit, Enqueue
<1>3. Step
  BY SubmitsL DEF Step, L!Next
<1>4. \A d \in Calls :
         /\ call'[d].home = (IF d = c THEN s ELSE call[d].home)
         /\ call'[d].op = (IF d = c THEN op ELSE call[d].op)
         /\ call'[d].outcome = (IF d = c THEN "waiting" ELSE call[d].outcome)
         /\ call'[d].writes = call[d].writes /\ call'[d].answer = call[d].answer
         /\ future'[d] = IF d = c THEN "pending" ELSE future[d]
  BY CallField DEF CallSubmit, CallType, FutureType
<1>5. future[c] = "none" /\ call[c].writes = 0
  BY <1>1 DEF Promise, Truthful
<1>6. \A d \in Calls : Truthful(d)'
  BY <1>4 DEF Promise, Truthful
<1>7. \A t \in Sessions : Unaffected(t, call, future, call', future')
  BY <1>4, <1>5 DEF Unaffected
<1>8. Owns(s, sess[s], call, future)
  BY <1>1 DEF Promise
<1>9. \A i \in DOMAIN sess[s].queue : sess[s].queue[i].from # c
  BY <1>5, <1>8 DEF Owns, Owed
<1>10. r.from = c /\ r.op = op
  OBVIOUS
<1> HIDE DEF q, r
<1>11. x.queue = q /\ x.active = sess[s].active /\ x.worker = sess[s].worker
  BY <1>1 DEF SessionType
<1> HIDE DEF x, s
<1>12. Owed(s, r, call', future') /\ call'[c].writes = 0
  BY <1>4, <1>5, <1>10 DEF Owed
<1>13. Owns(s, x, call', future')
  BY <1>1, <1>7, <1>8, <1>9, <1>10, <1>11, <1>12, OwnsMore DEF q
<1> QED
  BY <1>1, <1>2, <1>3, <1>6, <1>7, <1>13, PromiseOne

\* A step of a caller that leaves the sessions alone.
LEMMA CallStepP ==
    ASSUME TInv, Promise, UNCHANGED sess, Step, \A c \in Calls : Truthful(c)',
           \A t \in Sessions : Unaffected(t, call, future, call', future')
    PROVE  Promise' /\ Step
<1>1. ASSUME NEW t \in Sessions PROVE Owns(t, sess'[t], call', future')
  <2>1. sess[t] \in SessionType /\ Smaller(sess[t], sess'[t])
    BY TInvFits DEF Fits, Smaller
  <2> QED
    BY <2>1, OwnsSmaller DEF Promise
<1> QED
  BY <1>1 DEF Promise

LEMMA CallRefusedP ==
    ASSUME TInv, Promise, NEW c \in Calls, NEW op \in CallOps, CallRefused(c, op)
    PROVE  Promise' /\ Step
<1> DEFINE now == IF session = None THEN FALSE ELSE IsCurrent(session)
           why == IF now THEN "full" ELSE "unavailable"
<1>1. /\ call' = [call EXCEPT ![c].op = op, ![c].outcome = why] /\ UNCHANGED <<sess, future>>
      /\ call[c].outcome = "idle"
  BY DEF CallRefused
<1>2. why \in {"full", "unavailable"}
  OBVIOUS
<1> HIDE DEF why
<1>3. \A d \in Calls :
         /\ call'[d].home = call[d].home
         /\ call'[d].op = (IF d = c THEN op ELSE call[d].op)
         /\ call'[d].outcome = (IF d = c THEN why ELSE call[d].outcome)
         /\ call'[d].writes = call[d].writes /\ call'[d].answer = call[d].answer
  BY <1>1, CallField DEF CallType
<1>4. future[c] = "none"
  BY <1>1 DEF Promise, Truthful
<1>5. ASSUME NEW d \in Calls PROVE Truthful(d)'
  <2>1. Truthful(d) /\ future'[d] = future[d]
    BY <1>1 DEF Promise
  <2>2. CASE d = c
    <3>1. call'[d].outcome \notin {"idle", "waiting", "ok"}
      BY <1>2, <1>3, <2>2
    <3> QED
      BY <1>4, <2>1, <2>2, <3>1 DEF Truthful
  <2>3. CASE d # c
    <3>1. /\ call'[d].op = call[d].op /\ call'[d].outcome = call[d].outcome
          /\ call'[d].writes = call[d].writes /\ call'[d].answer = call[d].answer
      BY <1>3, <2>3
    <3> QED
      BY <2>1, <3>1 DEF Truthful
  <2> QED
    BY <2>2, <2>3
<1>6. \A t \in Sessions : Unaffected(t, call, future, call', future')
  BY <1>1, <1>3, <1>4 DEF Unaffected
<1>7. Step
  BY RefusesL DEF Step, L!Next
<1> QED
  BY <1>1, <1>5, <1>6, <1>7, CallStepP

LEMMA CallReturnP ==
    ASSUME TInv, Promise, NEW c \in Calls, CallReturn(c) PROVE Promise' /\ Step
<1>1. PICK o : Returns(c, o) /\ call' = [call EXCEPT ![c].outcome = o]
  BY ReturnE
<1>2. UNCHANGED <<sess, future>> /\ future[c] \in {"set", "rejected"}
  BY DEF CallReturn
<1>3. \A d \in Calls :
         /\ call'[d].home = call[d].home /\ call'[d].op = call[d].op
         /\ call'[d].outcome = (IF d = c THEN o ELSE call[d].outcome)
         /\ call'[d].writes = call[d].writes /\ call'[d].answer = call[d].answer
  BY <1>1, CallField DEF CallType
<1>4. \A d \in Calls : Truthful(d)'
  BY <1>1, <1>2, <1>3 DEF Promise, Truthful, Returns
<1>5. \A t \in Sessions : Unaffected(t, call, future, call', future')
  BY <1>2, <1>3 DEF Unaffected
<1>6. Step
  <2>1. future[c] = "set" => call[c].answer # None
    BY DEF Promise, Truthful
  <2> QED
    BY <2>1, ReturnsL DEF Step, L!Next
<1> QED
  BY <1>2, <1>4, <1>5, <1>6, CallStepP

LEMMA CallCancelP ==
    ASSUME TInv, Promise, NEW c \in Calls, CallCancel(c) PROVE Promise' /\ Step
<1>1. UNCHANGED sess /\ call[c].outcome = "waiting"
  BY DEF CallCancel
<1>2. \A d \in Calls :
         /\ call'[d].home = call[d].home /\ call'[d].op = call[d].op
         /\ call'[d].outcome = (IF d = c THEN "cancelled" ELSE call[d].outcome)
         /\ call'[d].writes = call[d].writes /\ call'[d].answer = call[d].answer
  BY CallField DEF CallCancel, CallType
<1> DEFINE v == IF future[c] = "pending" THEN "cancelled" ELSE future[c]
<1>3. \A d \in Calls : future'[d] = IF d = c THEN v ELSE future[d]
  BY CallField DEF CallCancel, FutureType
<1>4. \A d \in Calls : Truthful(d)'
  BY <1>1, <1>2, <1>3 DEF Promise, Truthful
<1>5. \A t \in Sessions : Unaffected(t, call, future, call', future')
  BY <1>2, <1>3 DEF Unaffected
<1>6. Step
  BY CancelsL DEF Step, L!Next
<1> QED
  BY <1>1, <1>4, <1>5, <1>6, CallStepP

LEMMA StopP ==
    ASSUME TInv, Promise, StopBegin \/ StopEnd PROVE Promise' /\ Step
<1>1. Unnoticed
  BY DEF StopBegin, StopEnd, Unnoticed
<1>2. ASSUME NEW s \in Sessions PROVE Smaller(sess[s], sess'[s])
  <2> DEFINE b == sess[s].cancelled \/ Unfinished(s)
             x == [sess[s] EXCEPT !.cancelled = b]
  <2>1. sess'[s] = x \/ sess'[s] = sess[s]
    BY DEF StopBegin, StopEnd, Cancelled
  <2>2. sess[s] \in SessionType
    BY TInvFits DEF Fits
  <2> HIDE DEF b
  <2>3. Alike(sess[s], x)
    BY <2>2 DEF Alike, SessionType
  <2> HIDE DEF x
  <2> QED
    BY <2>1, <2>3 DEF Alike, Smaller
<1> QED
  BY <1>1, <1>2, UntouchedAll

-----------------------------------------------------------------------------
(* The promise is kept.                                                    *)

LEMMA InitPromise == Init => Promise
<1> SUFFICES ASSUME Init PROVE Promise
  OBVIOUS
<1>1. ASSUME NEW s \in Sessions PROVE sess[s].queue = <<>> /\ sess[s].active = None
  BY DEF Init, NewSession
<1>2. \A c \in Calls : call[c].outcome = "idle" /\ call[c].writes = 0 /\ future[c] = "none"
  BY DEF Init, Callers
<1> QED
  BY <1>1, <1>2 DEF Promise, Owns, Truthful

LEMMA NextPromise == TInv /\ WInv /\ Flow /\ Promise /\ [Next]_vars => Promise' /\ Step
<1> SUFFICES ASSUME TInv, WInv, Flow, Promise, [Next]_vars PROVE Promise' /\ Step
  OBVIOUS
<1>1. ASSUME NEW s \in Sessions, Accept(s) \/ Run(s) PROVE Promise' /\ Step
  BY <1>1, AcceptP, RunStartP, AbortP, RunCleanupP, RunDoneP DEF Run
<1>2. ASSUME NEW s \in Sessions, Worker(s) PROVE Promise' /\ Step
  BY <1>2, WorkerDiscardP, WorkerSendP, ResumeForwardP, ResumeP, ForwardDoneP,
     ResumeReadbackP, WorkerEndsP DEF Worker
<1>3. ASSUME NEW s \in Sessions, ReaderFrame(s) \/ ReaderLost(s) \/ Vendor(s) \/ Poller(s)
      PROVE  Promise' /\ Step
  BY <1>3, ReaderP, VendorP, PollerP
<1>4. ASSUME NEW c \in Calls, Caller(c) PROVE Promise' /\ Step
  BY <1>4, CallSubmitP, CallRefusedP, CallReturnP, CallCancelP DEF Caller
<1>5. ASSUME Device \/ Terminating \/ UNCHANGED vars PROVE Promise' /\ Step
  <2>1. UNCHANGED <<sess, future, call>>
    BY <1>5 DEF Device, DeviceDrop, DeviceReply, Terminating, vars, proxy
  <2>2. \A s \in Sessions : Smaller(sess[s], sess'[s])
    BY <2>1 DEF Smaller
  <2> QED
    BY <2>1, <2>2, UntouchedAll DEF Unnoticed
<1> QED
  BY <1>1, <1>2, <1>3, <1>4, <1>5, StopP DEF Next

LEMMA PromiseInvariant == Spec => [](TInv /\ WInv /\ Flow /\ Promise)
  BY InitPromise, NextPromise, TrafficInvariant, PTL DEF Spec

\* set_valve returns normally only on a report of the requested position that
\* the device composed after it had handled this very command.
THEOREM CommandsConfirmed == Spec => []ConfirmedByReadback
<1>1. Promise => ConfirmedByReadback
  BY DEF Promise, Truthful, ConfirmedByReadback
<1> QED
  BY <1>1, PromiseInvariant, PTL

LEMMA InitL == Init => L!Init
<1> SUFFICES ASSUME Init PROVE L!Init
  OBVIOUS
<1>1. \A c \in Calls : /\ call[c].op = None /\ call[c].outcome = "idle"
                       /\ call[c].answer = None /\ call[c].writes = 0
                       /\ future[c] = "none"
  BY DEF Init, Callers
<1> QED
  BY <1>1 DEF L!Init, opOf, outcomeOf, answerOf, reportOf, writesOf

\* The proxy implements LocalCall: what its queue, its workers, replaced
\* sessions and the callers' own deadlines do to a call is one of the steps
\* promised to its caller, for any number of callers, sessions and vendors.
THEOREM CallsKept == Spec => CallsArePromised
<1>1. TInv /\ WInv /\ Flow /\ Promise /\ [Next]_vars => [L!Next]_(L!vars)
  BY NextPromise DEF Step
<1> QED
  BY <1>1, InitL, PromiseInvariant, PTL DEF Spec, CallsArePromised, L!Spec

=============================================================================
