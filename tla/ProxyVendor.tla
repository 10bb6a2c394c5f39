---------------------------- MODULE ProxyVendor ----------------------------
(***************************************************************************)
(* Proofs about Proxy: a vendor connection gets the answers to what it     *)
(* asked, in order and each before the next request is taken, while it is  *)
(* open, and every request it made is accounted for.                       *)
(***************************************************************************)
EXTENDS ProxyTraffic

USE ConstantsAssumption, NamesAssumption
USE DEF Valves, Reads, Ops

-----------------------------------------------------------------------------
(* The requests of one vendor connection in a queue.                       *)

\* The requests of connection k in queue q are numbered upwards, above lo and
\* not above hi.
Ranked(q, k, lo, hi) ==
    /\ \A i \in DOMAIN q : q[i].from = k => lo < q[i].n /\ q[i].n <= hi
    /\ \A i, j \in DOMAIN q : q[i].from = k /\ q[j].from = k /\ i < j => q[i].n < q[j].n

\* They are all those numbered from lo + 1 to hi.
Covers(q, k, lo, hi) ==
    /\ lo <= hi /\ Ranked(q, k, lo, hi)
    /\ \A n \in (lo + 1)..hi : \E i \in DOMAIN q : q[i].from = k /\ q[i].n = n

LEMMA RankedMore ==
    ASSUME NEW q \in Seq(Request), NEW r \in Request, NEW k, NEW lo \in Nat, NEW hi \in Nat,
           Ranked(q, k, lo, hi), lo <= hi
    PROVE  /\ r.from # k => Ranked(Append(q, r), k, lo, hi)
           /\ r.from = k /\ r.n = hi + 1 => Ranked(Append(q, r), k, lo, hi + 1)
<1> DEFINE p == Append(q, r)
<1>1. /\ Len(q) \in Nat /\ DOMAIN q = 1..Len(q) /\ DOMAIN p = 1..(Len(q) + 1)
      /\ p[Len(q) + 1] = r /\ \A i \in DOMAIN q : p[i] = q[i]
  OBVIOUS
<1> HIDE DEF p
<1>2. \A i \in DOMAIN p :
        \/ i \in DOMAIN q /\ p[i] = q[i] /\ i < Len(q) + 1
        \/ i = Len(q) + 1 /\ p[i] = r
  BY <1>1
<1>3. \A i \in DOMAIN q : q[i].n \in Nat
  <2>1. \A i \in DOMAIN q : q[i] \in Request
    OBVIOUS
  <2>2. \A x \in Request : x.n \in Nat
    BY DEF Request
  <2> QED
    BY <2>1, <2>2
<1>4. ASSUME r.from # k PROVE Ranked(p, k, lo, hi)
  <2>1. \A i \in DOMAIN p : p[i].from = k => i \in DOMAIN q /\ p[i] = q[i]
    BY <1>2, <1>4
  <2> QED
    BY <2>1 DEF Ranked
<1>5. ASSUME r.from = k, r.n = hi + 1 PROVE Ranked(p, k, lo, hi + 1)
  <2>1. \A i \in DOMAIN p : p[i].from = k => lo < p[i].n /\ p[i].n <= hi + 1
    BY <1>2, <1>3, <1>5 DEF Ranked
  <2>2. ASSUME NEW i \in DOMAIN p, NEW j \in DOMAIN p, p[i].from = k, p[j].from = k, i < j
        PROVE  p[i].n < p[j].n
    <3>1. i \in DOMAIN q /\ p[i] = q[i]
      BY <1>1, <1>2, <2>2
    <3>2. CASE j \in DOMAIN q /\ p[j] = q[j]
      BY <2>2, <3>1, <3>2 DEF Ranked
    <3>3. CASE p[j] = r
      BY <1>3, <1>5, <2>2, <3>1, <3>3 DEF Ranked
    <3> QED
      BY <1>2, <3>2, <3>3
  <2> QED
    BY <2>1, <2>2 DEF Ranked
<1> QED
  BY <1>4, <1>5 DEF p

LEMMA RankedLess ==
    ASSUME NEW q \in Seq(Request), q # <<>>, NEW k, NEW lo \in Nat, NEW hi \in Nat,
           Ranked(q, k, lo, hi)
    PROVE  /\ Ranked(Tail(q), k, lo, hi)
           /\ Head(q).from = k =>
                 lo < Head(q).n /\ Head(q).n <= hi /\ Ranked(Tail(q), k, lo + 1, hi)
<1> DEFINE p == Tail(q)
<1>1. /\ Len(q) \in Nat /\ DOMAIN q = 1..Len(q) /\ Head(q) = q[1] /\ 1 \in DOMAIN q
      /\ DOMAIN p = 1..(Len(q) - 1)
  OBVIOUS
<1>2. \A i \in DOMAIN p : i \in Nat /\ i + 1 \in DOMAIN q /\ 1 < i + 1 /\ p[i] = q[i + 1]
  BY <1>1
<1>3. \A i \in DOMAIN q : q[i].n \in Nat
  <2>1. \A i \in DOMAIN q : q[i] \in Request
    OBVIOUS
  <2>2. \A x \in Request : x.n \in Nat
    BY DEF Request
  <2> QED
    BY <2>1, <2>2
<1> HIDE DEF p
<1>4. \A i, j \in DOMAIN p : p[i].from = k /\ p[j].from = k /\ i < j => p[i].n < p[j].n
  <2> SUFFICES ASSUME NEW i \in DOMAIN p, NEW j \in DOMAIN p, p[i].from = k, p[j].from = k, i < j
               PROVE  p[i].n < p[j].n
    OBVIOUS
  <2>1. i + 1 < j + 1
    BY <1>2
  <2> QED
    BY <1>2, <2>1 DEF Ranked
<1>5. Ranked(p, k, lo, hi)
  BY <1>2, <1>4 DEF Ranked
<1>6. ASSUME Head(q).from = k
      PROVE  lo < Head(q).n /\ Head(q).n <= hi /\ Ranked(p, k, lo + 1, hi)
  <2>1. lo < q[1].n /\ q[1].n <= hi
    BY <1>1, <1>6 DEF Ranked
  <2>2. ASSUME NEW i \in DOMAIN p, p[i].from = k PROVE lo + 1 < p[i].n /\ p[i].n <= hi
    <3>1. q[1].n < q[i + 1].n
      BY <1>1, <1>2, <1>6, <2>2 DEF Ranked
    <3>2. q[i + 1].n <= hi
      BY <1>2, <2>2 DEF Ranked
    <3> QED
      BY <1>1, <1>2, <1>3, <2>1, <3>1, <3>2
  <2> QED
    BY <1>1, <1>4, <2>1, <2>2 DEF Ranked
<1> QED
  BY <1>5, <1>6 DEF p

LEMMA CoversMore ==
    ASSUME NEW q \in Seq(Request), NEW r \in Request, NEW k, NEW lo \in Nat, NEW hi \in Nat,
           Covers(q, k, lo, hi)
    PROVE  /\ r.from # k => Covers(Append(q, r), k, lo, hi)
           /\ r.from = k /\ r.n = hi + 1 => Covers(Append(q, r), k, lo, hi + 1)
<1> DEFINE p == Append(q, r)
<1>1. /\ Len(q) + 1 \in DOMAIN p /\ p[Len(q) + 1] = r
      /\ \A i \in DOMAIN q : i \in DOMAIN p /\ p[i] = q[i]
  OBVIOUS
<1>2. /\ r.from # k => Ranked(p, k, lo, hi)
      /\ r.from = k /\ r.n = hi + 1 => Ranked(p, k, lo, hi + 1)
  BY RankedMore DEF Covers
<1> HIDE DEF p
<1>3. \A n \in (lo + 1)..hi : \E i \in DOMAIN p : p[i].from = k /\ p[i].n = n
  BY <1>1 DEF Covers
<1>4. \A n \in (lo + 1)..(hi + 1) : n \in (lo + 1)..hi \/ n = hi + 1
  OBVIOUS
<1>5. r.from = k /\ r.n = hi + 1 =>
        \A n \in (lo + 1)..(hi + 1) : \E i \in DOMAIN p : p[i].from = k /\ p[i].n = n
  BY <1>1, <1>3, <1>4
<1>6. lo <= hi /\ lo <= hi + 1
  BY DEF Covers
<1> QED
  BY <1>2, <1>3, <1>5, <1>6 DEF Covers, p

LEMMA CoversLess ==
    ASSUME NEW q \in Seq(Request), q # <<>>, NEW k, NEW lo \in Nat, NEW hi \in Nat,
           Covers(q, k, lo, hi)
    PROVE  /\ Head(q).from # k => Covers(Tail(q), k, lo, hi)
           /\ Head(q).from = k =>
                 Head(q).n = lo + 1 /\ Covers(Tail(q), k, lo + 1, hi)
<1> DEFINE p == Tail(q)
<1>1. /\ Len(q) \in Nat /\ DOMAIN q = 1..Len(q) /\ Head(q) = q[1] /\ 1 \in DOMAIN q
      /\ \A i \in DOMAIN q : i # 1 => 1 < i /\ i - 1 \in DOMAIN p /\ p[i - 1] = q[i]
  OBVIOUS
<1>2. /\ Ranked(p, k, lo, hi)
      /\ Head(q).from = k =>
            lo < Head(q).n /\ Head(q).n <= hi /\ Ranked(p, k, lo + 1, hi)
  BY RankedLess DEF Covers
<1>3. q[1].n \in Nat
  <2>1. q[1] \in Request
    BY <1>1
  <2> QED
    BY <2>1 DEF Request
<1> HIDE DEF p
<1>4. ASSUME Head(q).from # k PROVE Covers(p, k, lo, hi)
  <2>1. ASSUME NEW n \in (lo + 1)..hi PROVE \E i \in DOMAIN p : p[i].from = k /\ p[i].n = n
    <3>1. PICK i \in DOMAIN q : q[i].from = k /\ q[i].n = n
      BY DEF Covers
    <3> QED
      BY <1>1, <1>4, <3>1
  <2> QED
    BY <1>2, <2>1 DEF Covers
<1>5. ASSUME Head(q).from = k PROVE Head(q).n = lo + 1 /\ Covers(p, k, lo + 1, hi)
  <2>1. lo + 1 \in (lo + 1)..hi /\ lo + 1 <= hi
    BY <1>1, <1>2, <1>3, <1>5
  <2>2. PICK i \in DOMAIN q : q[i].from = k /\ q[i].n = lo + 1
    BY <2>1 DEF Covers
  <2>3. i # 1 => q[1].n < q[i].n
    BY <1>1, <1>5, <2>2 DEF Covers, Ranked
  <2>4. q[1].n = lo + 1
    BY <1>1, <1>2, <1>3, <1>5, <2>2, <2>3
  <2>5. ASSUME NEW n \in (lo + 2)..hi PROVE \E j \in DOMAIN p : p[j].from = k /\ p[j].n = n
    <3>1. n \in (lo + 1)..hi /\ n # lo + 1
      OBVIOUS
    <3>2. PICK j \in DOMAIN q : q[j].from = k /\ q[j].n = n
      BY <3>1 DEF Covers
    <3> QED
      BY <1>1, <2>4, <3>1, <3>2
  <2>6. (lo + 1) + 1 = lo + 2
    OBVIOUS
  <2> QED
    BY <1>1, <1>2, <1>5, <2>1, <2>4, <2>5, <2>6 DEF Covers
<1> QED
  BY <1>4, <1>5 DEF p

-----------------------------------------------------------------------------
(* Replies in order.                                                       *)

\* Session object x holds what connection k, of which c is known, has asked and
\* is not answered yet; one of these requests at most was passed to the device.
Asking(x, k) == x.worker = "exchange" /\ x.active.from = k
Lined(x, k, c) ==
    LET m == Len(c.answered) IN
    IF Asking(x, k)
    THEN x.active.n = m + 1 /\ c.passed = m + 1 /\ Covers(x.queue, k, m + 1, c.asked)
    ELSE c.passed = m /\ Covers(x.queue, k, m, c.asked)

Knows(x, k) == \/ x.cloud = k
               \/ \E i \in DOMAIN x.queue : x.queue[i].from = k
               \/ x.active # None /\ x.active.from = k

Serves(s) == IsCurrent(s) /\ sess[s].worker # "done"

\* No connection is owed more than one answer.
OneOwed ==
    \A k \in Clouds :
        cloud[k].passed \in {Len(cloud[k].answered), Len(cloud[k].answered) + 1}

VInv ==
    /\ VendorReplyOrder /\ OneOwed
    /\ \A k \in Clouds : ~cloud[k].used =>
          /\ cloud[k].asked = 0 /\ cloud[k].passed = 0 /\ cloud[k].answered = <<>>
          /\ \A s \in Sessions : ~Knows(sess[s], k)
    /\ \A s, t \in Sessions : sess[s].cloud # None /\ sess[s].cloud = sess[t].cloud => s = t
    /\ \A s \in Sessions : Serves(s) =>
          \A k \in Clouds : Attached(s, k) => Lined(sess[s], k, cloud[k])

LEMMA InitVInv == Init => VInv
<1> SUFFICES ASSUME Init PROVE VInv
  OBVIOUS
<1>1. \A s \in Sessions : sess[s].cloud = None /\ sess[s].queue = <<>> /\ sess[s].active = None
  BY DEF Init, NewSession
<1>2. \A k \in Clouds : /\ k # None /\ cloud[k].asked = 0 /\ cloud[k].passed = 0
                        /\ cloud[k].answered = <<>>
  BY DEF Init, Origins
<1>3. \A s \in Sessions, k \in Clouds : ~Knows(sess[s], k)
  BY <1>1, <1>2 DEF Knows
<1>4. \A s \in Sessions : ~IsCurrent(s)
  BY NoneFacts DEF Init, IsCurrent
<1> QED
  BY <1>1, <1>2, <1>3, <1>4 DEF VInv, VendorReplyOrder, OneOwed, Serves

-----------------------------------------------------------------------------
(* Steps that neither open a connection nor ask or answer on one.          *)

Closes == \A k \in Clouds : /\ cloud'[k].used = cloud[k].used /\ cloud'[k].asked = cloud[k].asked
                            /\ cloud'[k].answered = cloud[k].answered
                            /\ cloud'[k].passed = cloud[k].passed
                            /\ cloud'[k].alive => cloud[k].alive

\* Session s, which becomes x, goes on with what it holds.
Resumes(s, x) ==
    /\ x.cloud \in {sess[s].cloud, None}
    /\ \A k \in Clouds : Knows(x, k) => Knows(sess[s], k)
Lines(s, x) ==
    x.worker # "done" /\ IsCurrent(s) =>
        /\ sess[s].worker # "done"
        /\ \A k \in Clouds : Attached(s, k) /\ Lined(sess[s], k, cloud[k]) => Lined(x, k, cloud[k])

LEMMA VendorAll ==
    ASSUME VInv, Closes, \A s \in Sessions : Resumes(s, sess'[s]),
           \A s \in Sessions : IsCurrent(s)' /\ sess'[s].cloud # None =>
              IsCurrent(s) /\ Lines(s, sess'[s])
    PROVE  VInv'
<1>1. VendorReplyOrder' /\ OneOwed'
  BY DEF VInv, VendorReplyOrder, OneOwed, Closes
<1>2. \A k \in Clouds : ~cloud'[k].used =>
        /\ cloud'[k].asked = 0 /\ cloud'[k].passed = 0 /\ cloud'[k].answered = <<>>
        /\ \A s \in Sessions : ~Knows(sess'[s], k)
  BY DEF VInv, Closes, Resumes
<1>3. \A s, t \in Sessions : sess'[s].cloud # None /\ sess'[s].cloud = sess'[t].cloud => s = t
  BY DEF VInv, Resumes
<1>4. ASSUME NEW s \in Sessions, Serves(s)', NEW k \in Clouds, Attached(s, k)'
      PROVE  Lined(sess'[s], k, cloud'[k])
  <2>1. Attached(s, k) /\ sess'[s].cloud # None
    BY <1>4 DEF Attached, Closes, Resumes, Origins
  <2>2. Lined(sess'[s], k, cloud[k])
    BY <1>4, <2>1 DEF Serves, Lines, VInv
  <2> QED
    BY <2>2 DEF Closes, Lined
<1> QED
  BY <1>1, <1>2, <1>3, <1>4 DEF VInv

LEMMA VendorOne ==
    ASSUME TInv, VInv, Closes, UNCHANGED <<phase, session>>,
           NEW s \in Sessions, NEW x, sess' = [sess EXCEPT ![s] = x],
           x.alive => sess[s].alive, Resumes(s, x), Lines(s, x)
    PROVE  VInv'
<1>1. sess'[s] = x /\ \A t \in Sessions \ {s} : sess'[t] = sess[t]
  BY DEF TInv, TypeOK
<1>2. \A t \in Sessions : Resumes(t, sess'[t])
  BY <1>1 DEF Resumes
<1>3. ASSUME NEW t \in Sessions, IsCurrent(t)' PROVE IsCurrent(t) /\ Lines(t, sess'[t])
  BY <1>1, <1>3 DEF IsCurrent, Lines
<1> QED
  BY <1>2, <1>3, VendorAll

\* Session s, which becomes x, keeps its queue; its worker ends, stays where it
\* is, or does not begin an exchange and does not leave one of its connection.
Holds(s, x) ==
    /\ x.cloud \in {sess[s].cloud, None} /\ x.queue = sess[s].queue
    /\ x.active \in {sess[s].active, None} /\ (x.alive => sess[s].alive)
    /\ \/ x.worker = "done"
       \/ x.worker = sess[s].worker /\ x.active = sess[s].active
       \/ /\ x.worker # "exchange" /\ sess[s].worker # "done"
          /\ sess[s].worker = "exchange" => ~Attached(s, sess[s].active.from)

LEMMA VendorHolds ==
    ASSUME TInv, VInv, Closes, UNCHANGED <<phase, session>>,
           NEW s \in Sessions, NEW x, sess' = [sess EXCEPT ![s] = x], Holds(s, x)
    PROVE  VInv'
<1>1. Resumes(s, x)
  BY DEF Resumes, Holds, Knows, Origins
<1>2. Lines(s, x)
  <2>1. CASE x.worker = sess[s].worker /\ x.active = sess[s].active
    BY <2>1 DEF Lines, Holds, Lined, Asking
  <2>2. CASE x.worker # "exchange" /\ (sess[s].worker = "exchange" => ~Attached(s, sess[s].active.from))
             /\ sess[s].worker # "done"
    BY <2>2 DEF Lines, Holds, Lined, Asking
  <2> QED
    BY <2>1, <2>2 DEF Holds, Lines
<1> QED
  BY <1>1, <1>2, VendorOne DEF Holds

LEMMA CloudFacts ==
    ASSUME TInv, NEW k \in Clouds
    PROVE  /\ cloud[k].asked \in 0..MaxFrames /\ cloud[k].answered \in Seq(0..MaxFrames)
           /\ Len(cloud[k].answered) \in Nat /\ cloud[k].asked \in Nat
           /\ cloud[k].passed \in Nat
<1>1. cloud[k] \in CloudType
  BY DEF TInv, TypeOK
<1>2. cloud[k].answered \in Seq(0..MaxFrames)
  BY <1>1 DEF CloudType
<1> QED
  BY <1>1, <1>2 DEF CloudType

LEMMA SameCloud == UNCHANGED cloud => Closes
  BY DEF Closes

LEMMA ClosedCloses == ASSUME TInv, NEW k, cloud' = Closed(k) PROVE Closes
<1> DEFINE c == [cloud[k] EXCEPT !.alive = FALSE]
<1>1. cloud' = cloud \/ cloud' = [cloud EXCEPT ![k] = c]
  BY DEF Closed
<1>2. cloud \in [Clouds -> CloudType]
  BY DEF TInv, TypeOK
<1>3. k \in Clouds => /\ c.used = cloud[k].used /\ c.asked = cloud[k].asked
                      /\ c.answered = cloud[k].answered /\ c.passed = cloud[k].passed
                      /\ ~c.alive
  BY <1>2 DEF CloudType
<1> HIDE DEF c
<1> QED
  BY <1>1, <1>2, <1>3 DEF Closes

-----------------------------------------------------------------------------
(* The steps of the session task, of callers and of the worker.            *)

LEMMA AcceptV == ASSUME TInv, VInv, NEW s \in Sessions, Accept(s) PROVE VInv'
<1> DEFINE old(t) == [sess[t] EXCEPT !.alive = FALSE, !.cancelled = TRUE]
           new == [NewSession EXCEPT !.task = "created", !.alive = TRUE]
<1>1. sess' = [t \in Sessions |-> IF t = s THEN new ELSE IF t = session THEN old(t) ELSE sess[t]]
  BY DEF Accept
<1>2. new.cloud = None /\ new.queue = <<>> /\ new.active = None
  <2>1. [NewSession EXCEPT !.task = "created"].cloud = None
    BY DEF NewSession
  <2>2. [NewSession EXCEPT !.task = "created"].queue = <<>>
    BY DEF NewSession
  <2>3. [NewSession EXCEPT !.task = "created"].active = None
    BY DEF NewSession
  <2> QED
    BY <2>1, <2>2, <2>3 DEF NewSession
<1>3. ASSUME NEW t \in Sessions
      PROVE  /\ old(t).cloud = sess[t].cloud /\ old(t).queue = sess[t].queue
             /\ old(t).active = sess[t].active
  BY TInvFits DEF Fits, SessionType
<1>4. session' = s
  BY DEF Accept
<1> HIDE DEF old, new
<1>5. Closes
  <2>1. cloud' = cloud \/ cloud' = Closed(sess[session].cloud)
    BY DEF Accept
  <2> QED
    BY <2>1, SameCloud, ClosedCloses
<1>6. \A k \in Clouds : ~Knows(new, k)
  BY <1>2 DEF Knows, Origins
<1>7. \A t \in Sessions : Resumes(t, sess'[t])
  BY <1>1, <1>2, <1>3, <1>6 DEF Resumes, Knows
<1>8. \A t \in Sessions : IsCurrent(t)' => sess'[t].cloud = None
  BY <1>1, <1>2, <1>4 DEF IsCurrent
<1> QED
  BY <1>5, <1>7, <1>8, VendorAll

LEMMA RunStartV == ASSUME TInv, SInv, VInv, NEW s \in Sessions, RunStart(s) PROVE VInv'
<1> DEFINE x == IF sess[s].cancelled THEN [sess[s] EXCEPT !.task = "lost"]
                ELSE [sess[s] EXCEPT !.task = "running", !.worker = "get",
                        !.reader = "read", !.vendor = "connect", !.poller = "sleep"]
<1>1. /\ sess' = [sess EXCEPT ![s] = x] /\ sess[s].task = "created"
      /\ UNCHANGED <<phase, session, cloud>>
  BY DEF RunStart, proxy
<1>2. sess[s] \in SessionType /\ sess[s].worker = "idle"
  BY <1>1, TInvFits DEF Fits, SInv, Grouped, Unborn
<1>3. Holds(s, x)
  BY <1>2 DEF Holds, SessionType
<1> HIDE DEF x
<1> QED
  BY <1>1, <1>3, SameCloud, VendorHolds

LEMMA AbortV == ASSUME TInv, VInv, NEW s \in Sessions, Abort(s) PROVE VInv'
<1> DEFINE v == IF sess[s].vendor \in {"serve", "unwind"} THEN "unwind" ELSE "done"
           a == Released(sess[s].active)
           x == [sess[s] EXCEPT !.reader = "done", !.poller = "done", !.worker = "done",
                   !.vendor = v, !.current = None, !.response = None, !.active = a]
<1>1. /\ sess' = [sess EXCEPT ![s] = x] /\ UNCHANGED <<phase, session>>
      /\ cloud' = cloud \/ cloud' = Closed(sess[s].cloud)
  BY DEF Abort, proxy
<1>2. sess[s] \in SessionType
  BY TInvFits DEF Fits
<1>3. a \in {sess[s].active, None}
  BY DEF Released
<1>4. Closes
  BY <1>1, SameCloud, ClosedCloses
<1> HIDE DEF v, a
<1>5. Holds(s, x)
  BY <1>2, <1>3 DEF Holds, SessionType
<1> HIDE DEF x
<1> QED
  BY <1>1, <1>4, <1>5, VendorHolds

LEMMA RunCleanupV == ASSUME TInv, VInv, NEW s \in Sessions, RunCleanup(s) PROVE VInv'
<1> DEFINE x == [sess[s] EXCEPT !.task = "closing", !.alive = FALSE, !.current = None,
                   !.queue = <<>>, !.active = None, !.cloud = None,
                   !.sampled = FALSE, !.failed = FALSE]
<1>1. /\ sess' = [sess EXCEPT ![s] = x] /\ session' = CleanupSession(s) /\ phase' = phase
      /\ cloud' = Closed(sess[s].cloud)
  BY DEF RunCleanup
<1>2. sess[s] \in SessionType
  BY TInvFits DEF Fits
<1>3. ~x.alive /\ x.cloud = None /\ x.queue = <<>> /\ x.active = None
  BY <1>2 DEF SessionType
<1> HIDE DEF x
<1>4. Closes
  BY <1>1, ClosedCloses
<1>5. sess'[s] = x /\ \A t \in Sessions \ {s} : sess'[t] = sess[t]
  BY <1>1 DEF TInv, TypeOK
<1>6. \A t \in Sessions : Resumes(t, sess'[t])
  BY <1>3, <1>5 DEF Resumes, Knows, Origins
<1>7. ASSUME NEW t \in Sessions, IsCurrent(t)' PROVE IsCurrent(t) /\ Lines(t, sess'[t])
  <2>1. t # s /\ sess'[t] = sess[t]
    BY <1>3, <1>5, <1>7 DEF IsCurrent
  <2>2. session = t
    BY <1>1, <1>7, NoneFacts DEF IsCurrent, CleanupSession
  <2> QED
    BY <1>1, <1>7, <2>1, <2>2 DEF IsCurrent, Lines
<1> QED
  BY <1>4, <1>6, <1>7, VendorAll

LEMMA RunDoneV == ASSUME TInv, VInv, NEW s \in Sessions, RunDone(s) PROVE VInv'
<1> DEFINE x == [sess[s] EXCEPT !.task = "done"]
<1>1. sess' = [sess EXCEPT ![s] = x] /\ UNCHANGED <<phase, session, cloud>>
  BY DEF RunDone, proxy
<1>2. Holds(s, x)
  BY TInvFits DEF Fits, Holds, SessionType
<1> HIDE DEF x
<1> QED
  BY <1>1, <1>2, SameCloud, VendorHolds

LEMMA StopV == ASSUME TInv, VInv, StopBegin \/ StopEnd PROVE VInv'
<1>1. phase' # "up" /\ UNCHANGED cloud
  BY DEF StopBegin, StopEnd
<1>2. ASSUME NEW s \in Sessions PROVE Resumes(s, sess'[s])
  <2> DEFINE b == sess[s].cancelled \/ Unfinished(s)
             x == [sess[s] EXCEPT !.cancelled = b]
  <2>1. sess'[s] \in {sess[s], x}
    BY DEF StopBegin, StopEnd, Cancelled
  <2>2. sess[s] \in SessionType
    BY TInvFits DEF Fits
  <2> HIDE DEF b
  <2>3. x.cloud = sess[s].cloud /\ x.queue = sess[s].queue /\ x.active = sess[s].active
    BY <2>2 DEF SessionType
  <2> HIDE DEF x
  <2> QED
    BY <2>1, <2>3 DEF Resumes, Knows
<1>3. \A s \in Sessions : ~IsCurrent(s)'
  BY <1>1 DEF IsCurrent
<1> QED
  BY <1>1, <1>2, <1>3, SameCloud, VendorAll

\* A request that is not of a vendor connection joins the queue.
LEMMA JoinsV ==
    ASSUME TInv, VInv, UNCHANGED <<phase, session, cloud>>,
           NEW s \in Sessions, NEW r \in Request, r.from \notin Clouds, NEW x,
           sess' = [sess EXCEPT ![s] = x], x.queue = Append(sess[s].queue, r),
           x.cloud = sess[s].cloud, x.active = sess[s].active,
           x.worker = sess[s].worker, x.alive = sess[s].alive
    PROVE  VInv'
<1>1. sess[s].queue \in Seq(Request)
  BY TInvFits DEF Fits, SessionType
<1>2. \A i \in DOMAIN x.queue : x.queue[i] = r \/ (i \in DOMAIN sess[s].queue /\ x.queue[i] = sess[s].queue[i])
  <2>1. /\ DOMAIN Append(sess[s].queue, r) = 1..(Len(sess[s].queue) + 1)
        /\ DOMAIN sess[s].queue = 1..Len(sess[s].queue) /\ Len(sess[s].queue) \in Nat
        /\ Append(sess[s].queue, r)[Len(sess[s].queue) + 1] = r
        /\ \A i \in DOMAIN sess[s].queue : Append(sess[s].queue, r)[i] = sess[s].queue[i]
    BY <1>1
  <2>2. \A i \in 1..(Len(sess[s].queue) + 1) :
          i \in 1..Len(sess[s].queue) \/ i = Len(sess[s].queue) + 1
    BY <2>1
  <2> QED
    BY <2>1, <2>2
<1>3. Resumes(s, x)
  BY <1>2 DEF Resumes, Knows
<1>4. Lines(s, x)
  <2> SUFFICES ASSUME NEW k \in Clouds, Lined(sess[s], k, cloud[k])
               PROVE  Lined(x, k, cloud[k])
    BY DEF Lines
  <2>1. \A lo, hi \in Nat : Covers(sess[s].queue, k, lo, hi) => Covers(x.queue, k, lo, hi)
    BY <1>1, CoversMore
  <2> QED
    BY <2>1, CloudFacts DEF Lined, Asking
<1> QED
  BY <1>3, <1>4, SameCloud, VendorOne

LEMMA SampledFields ==
    ASSUME TInv, NEW s \in Sessions, NEW reply
    PROVE  LET y == Sampled(sess[s], reply) IN
           /\ y.queue = sess[s].queue /\ y.cloud = sess[s].cloud
           /\ y.alive = sess[s].alive /\ y.active = sess[s].active
<1> DEFINE b == sess[s].sampled \/ reply.op = "snapshot"
           x == [sess[s] EXCEPT !.sampled = b]
<1>1. sess[s] \in SessionType
  BY TInvFits DEF Fits
<1>2. Sampled(sess[s], reply) = x
  BY DEF Sampled
<1> HIDE DEF b
<1>3. /\ x.queue = sess[s].queue /\ x.cloud = sess[s].cloud
      /\ x.alive = sess[s].alive /\ x.active = sess[s].active
  BY <1>1 DEF SessionType
<1> QED
  BY <1>2, <1>3

\* A worker that completes, gives up or confirms a request.
LEMMA EffectHolds ==
    ASSUME NEW s \in Sessions, NEW y, NEW x,
           y.queue = sess[s].queue, y.cloud = sess[s].cloud,
           y.active = sess[s].active, y.alive = sess[s].alive,
           Finished(s, y, x) \/ Raised(y, x) \/ Confirms(y, x), sess[s].worker # "done",
           sess[s].worker = "exchange" => x.worker = "done" \/ ~Attached(s, sess[s].active.from)
    PROVE  Holds(s, x)
  BY DEF Holds, Finished, Raised, Confirms, Released

LEMMA WorkerDiscardV == ASSUME TInv, VInv, NEW s \in Sessions, WorkerDiscard(s) PROVE VInv'
<1> DEFINE w == Loop(s, "get")
           q == Tail(sess[s].queue)
           r == Head(sess[s].queue)
           x == [sess[s] EXCEPT !.queue = q, !.worker = w]
<1>1. /\ sess' = [sess EXCEPT ![s] = x] /\ UNCHANGED <<phase, session, cloud>>
      /\ sess[s].worker = "get" /\ sess[s].queue # <<>>
      /\ Skipped(r) \/ Orphaned(s, r)
  BY DEF WorkerDiscard, Takes
<1>2. w \in {"get", "done"} /\ sess[s] \in SessionType /\ sess[s].queue \in Seq(Request)
  BY TInvFits DEF Loop, Fits, SessionType
<1>3. \A k \in Clouds : Attached(s, k) => r.from # k
  BY <1>1 DEF Skipped, Orphaned, Callers
<1>4. \A k \in Clouds, lo, hi \in Nat :
        Attached(s, k) /\ Covers(sess[s].queue, k, lo, hi) => Covers(q, k, lo, hi)
  BY <1>1, <1>2, <1>3, CoversLess
<1>5. \A i \in DOMAIN q : i + 1 \in DOMAIN sess[s].queue /\ q[i] = sess[s].queue[i + 1]
  BY <1>1, <1>2
<1> HIDE DEF w, q, r
<1>6. /\ x.worker = w /\ x.alive = sess[s].alive /\ x.queue = q /\ x.cloud = sess[s].cloud
      /\ x.active = sess[s].active
  BY <1>2 DEF SessionType
<1> HIDE DEF x
<1>7. Resumes(s, x)
  BY <1>5, <1>6 DEF Resumes, Knows
<1>8. Lines(s, x)
  BY <1>1, <1>2, <1>4, <1>6, CloudFacts DEF Lines, Lined, Asking
<1> QED
  BY <1>1, <1>6, <1>7, <1>8, SameCloud, VendorOne

\* A request of an open connection is passed to the device.
LEMMA WorkerPassesV ==
    ASSUME TInv, VInv, NEW s \in Sessions, WorkerSend(s), IsCurrent(s),
           Head(sess[s].queue).from \in Clouds
    PROVE  VInv'
<1> DEFINE q == Tail(sess[s].queue)
           r == Head(sess[s].queue)
           k == r.from
           n == cloud[k].passed + 1
           c == [cloud[k] EXCEPT !.passed = n]
<1>1. PICK x : sess' = [sess EXCEPT ![s] = x] /\ Sends(s, sess[s], x)
  BY WorkerSendE
<1>2. /\ sess[s].worker = "get" /\ sess[s].queue # <<>> /\ UNCHANGED <<phase, session>>
      /\ Attached(s, k) /\ cloud' = [cloud EXCEPT ![k] = c]
  BY DEF WorkerSend, Takes, Orphaned
<1>3. /\ sess[s].queue \in Seq(Request) /\ sess[s].queue[1] = r /\ 1 \in DOMAIN sess[s].queue
      /\ cloud[k] \in CloudType
  BY <1>2, TInvFits DEF Fits, SessionType, TInv, TypeOK
<1>4. \A i \in DOMAIN q : i + 1 \in DOMAIN sess[s].queue /\ q[i] = sess[s].queue[i + 1]
  BY <1>2, <1>3
<1>5. \A lo, hi \in Nat : Covers(sess[s].queue, k, lo, hi) =>
        r.n = lo + 1 /\ Covers(q, k, lo + 1, hi)
  BY <1>2, <1>3, CoversLess
<1>6. k \in Clouds
  OBVIOUS
<1> HIDE DEF q, r, k, n
<1>7. x.queue = q /\ x.cloud = sess[s].cloud /\ x.active = r /\ x.worker = "exchange"
  BY <1>1 DEF Sends, q, r
<1>8. /\ c.used = cloud[k].used /\ c.asked = cloud[k].asked
      /\ c.answered = cloud[k].answered /\ c.passed = n
  BY <1>3 DEF CloudType
<1> HIDE DEF c
<1>9. sess'[s] = x /\ \A t \in Sessions \ {s} : sess'[t] = sess[t]
  BY <1>1 DEF TInv, TypeOK
<1>10. cloud'[k] = c /\ \A j \in Clouds \ {k} : cloud'[j] = cloud[j]
  BY <1>2, <1>6 DEF TInv, TypeOK
<1>11. \A j \in Clouds : Knows(x, j) => Knows(sess[s], j)
  BY <1>3, <1>4, <1>7 DEF Knows
<1>12. cloud[k].used
  BY <1>2, <1>6 DEF VInv, Knows, Attached
<1>13. /\ cloud[k].passed = Len(cloud[k].answered)
       /\ Covers(sess[s].queue, k, Len(cloud[k].answered), cloud[k].asked)
  <2>1. Lined(sess[s], k, cloud[k])
    BY <1>2, <1>6 DEF VInv, Serves
  <2> QED
    BY <1>2, <2>1 DEF Lined, Asking
<1>14. VendorReplyOrder' /\ OneOwed'
  BY <1>8, <1>10, <1>13 DEF VInv, VendorReplyOrder, OneOwed, n
<1>15. \A j \in Clouds : ~cloud'[j].used =>
         /\ cloud'[j].asked = 0 /\ cloud'[j].passed = 0 /\ cloud'[j].answered = <<>>
         /\ \A t \in Sessions : ~Knows(sess'[t], j)
  <2> SUFFICES ASSUME NEW j \in Clouds, ~cloud'[j].used
               PROVE  /\ cloud'[j].asked = 0 /\ cloud'[j].passed = 0 /\ cloud'[j].answered = <<>>
                      /\ \A t \in Sessions : ~Knows(sess'[t], j)
    OBVIOUS
  <2>1. cloud'[j] = cloud[j]
    BY <1>8, <1>10, <1>12
  <2>2. \A t \in Sessions : ~Knows(sess[t], j)
    BY <2>1 DEF VInv
  <2> QED
    BY <1>9, <1>11, <2>1, <2>2 DEF VInv
<1>16. ASSUME NEW t \in Sessions, Serves(t)', NEW j \in Clouds, Attached(t, j)'
       PROVE  Lined(sess'[t], j, cloud'[j])
  <2>1. t = s
    BY <1>2, <1>16 DEF Serves, IsCurrent
  <2>2. j = k
    BY <1>2, <1>7, <1>9, <1>16, <2>1 DEF Attached
  <2>3. r.n = Len(cloud[k].answered) + 1 /\ Covers(q, k, Len(cloud[k].answered) + 1, cloud[k].asked)
    BY <1>5, <1>6, <1>13, CloudFacts
  <2>4. Asking(x, k)
    BY <1>7 DEF Asking, k
  <2> QED
    BY <1>7, <1>8, <1>9, <1>10, <1>13, <2>1, <2>2, <2>3, <2>4 DEF Lined, n
<1>17. \A t \in Sessions : sess'[t].cloud = sess[t].cloud
  BY <1>7, <1>9
<1> QED
  BY <1>14, <1>15, <1>16, <1>17 DEF VInv

LEMMA WorkerSendV == ASSUME TInv, VInv, NEW s \in Sessions, WorkerSend(s) PROVE VInv'
<1> DEFINE q == Tail(sess[s].queue)
           r == Head(sess[s].queue)
<1>0. SUFFICES ASSUME ~(IsCurrent(s) /\ r.from \in Clouds) PROVE VInv'
  BY WorkerPassesV
<1>1. PICK x : /\ sess' = [sess EXCEPT ![s] = x]
               /\ \/ IsCurrent(s) /\ Sends(s, sess[s], x)
                  \/ ~IsCurrent(s) /\ SendsNot(s, sess[s], x)
  BY WorkerSendE
<1>2. /\ sess[s].worker = "get" /\ sess[s].queue # <<>> /\ UNCHANGED <<phase, session, cloud>>
  BY <1>0 DEF WorkerSend, Takes
<1>3. sess[s].queue \in Seq(Request) /\ sess[s].queue[1] = r /\ 1 \in DOMAIN sess[s].queue
  BY <1>2, TInvFits DEF Fits, SessionType
<1>4. \A i \in DOMAIN q : i + 1 \in DOMAIN sess[s].queue /\ q[i] = sess[s].queue[i + 1]
  BY <1>2, <1>3
<1>5. \A k \in Clouds, lo, hi \in Nat :
        Covers(sess[s].queue, k, lo, hi) /\ r.from # k => Covers(q, k, lo, hi)
  BY <1>2, <1>3, CoversLess
<1> HIDE DEF q, r
<1>6. /\ x.queue = q /\ x.cloud = sess[s].cloud /\ x.alive = sess[s].alive
      /\ x.active \in {r, None} /\ x.worker \in {"exchange", "done"}
      /\ x.worker = "exchange" => x.active = r /\ r.from \notin Clouds
  BY <1>0, <1>1 DEF Sends, SendsNot, Released, q, r
<1>7. Resumes(s, x)
  BY <1>3, <1>4, <1>6 DEF Resumes, Knows
<1>8. Lines(s, x)
  <2> SUFFICES ASSUME NEW k \in Clouds, Lined(sess[s], k, cloud[k]), x.worker = "exchange"
               PROVE  Lined(x, k, cloud[k])
    BY <1>2, <1>6 DEF Lines
  <2>1. /\ Covers(sess[s].queue, k, Len(cloud[k].answered), cloud[k].asked)
        /\ cloud[k].passed = Len(cloud[k].answered)
    BY <1>2 DEF Lined, Asking
  <2> QED
    BY <1>5, <1>6, <2>1, CloudFacts DEF Lined, Asking
<1> QED
  BY <1>1, <1>2, <1>6, <1>7, <1>8, SameCloud, VendorOne

LEMMA ResumeForwardV == ASSUME TInv, VInv, NEW s \in Sessions, ResumeForward(s) PROVE VInv'
<1> DEFINE reply == sess[s].current.reply
           k == sess[s].active.from
           y == Sampled(sess[s], reply)
           x == [y EXCEPT !.worker = "forward", !.response = reply, !.current = None]
           c == [cloud[k] EXCEPT !.answered = Append(cloud[k].answered, sess[s].active.n)]
<1>1. /\ sess' = [sess EXCEPT ![s] = x] /\ cloud' = [cloud EXCEPT ![k] = c]
      /\ Attached(s, k) /\ IsCurrent(s) /\ sess[s].worker = "exchange"
      /\ UNCHANGED <<phase, session>>
  BY DEF ResumeForward, StillCurrent, Answered
<1>2. k \in Clouds /\ sess[s].cloud = k /\ cloud[k] \in CloudType
  BY <1>1 DEF Attached, TInv, TypeOK
<1>3. y \in SessionType /\ Like(s, y) /\ y.active = sess[s].active
  BY SampledLike
<1> HIDE DEF reply, y
<1>4. x.worker = "forward" /\ x.queue = y.queue /\ x.active = y.active /\ x.cloud = y.cloud
  BY <1>3 DEF SessionType
<1>5. c.used = cloud[k].used /\ c.asked = cloud[k].asked /\ c.passed = cloud[k].passed
      /\ c.answered = Append(cloud[k].answered, sess[s].active.n)
  BY <1>2 DEF CloudType
<1> HIDE DEF x, c, k
<1>6. sess'[s] = x /\ \A t \in Sessions \ {s} : sess'[t] = sess[t]
  BY <1>1 DEF TInv, TypeOK
<1>7. cloud'[k] = c /\ \A j \in Clouds \ {k} : cloud'[j] = cloud[j]
  BY <1>1, <1>2 DEF TInv, TypeOK
<1>8. x.queue = sess[s].queue /\ x.cloud = sess[s].cloud /\ x.active = sess[s].active
  BY <1>4, SampledFields DEF y
<1>9. \A t \in Sessions, j \in Clouds : Knows(sess'[t], j) => Knows(sess[t], j)
  BY <1>6, <1>8 DEF Knows
<1>10. cloud[k].used
  BY <1>2 DEF VInv, Knows
<1>11. /\ sess[s].active.n = Len(cloud[k].answered) + 1
       /\ cloud[k].passed = Len(cloud[k].answered) + 1
       /\ Covers(sess[s].queue, k, Len(cloud[k].answered) + 1, cloud[k].asked)
  <2>1. Lined(sess[s], k, cloud[k])
    BY <1>1, <1>2 DEF VInv, Serves
  <2> QED
    BY <1>1, <2>1 DEF Lined, Asking, k
<1>12. /\ Len(c.answered) = Len(cloud[k].answered) + 1
       /\ \A i \in DOMAIN c.answered : c.answered[i] = i
  <2>1. cloud[k].answered \in Seq(0..MaxFrames)
    BY <1>2, CloudFacts
  <2>2. \A i \in DOMAIN cloud[k].answered : cloud[k].answered[i] = i
    BY <1>2 DEF VInv, VendorReplyOrder
  <2> DEFINE a == cloud[k].answered
             b == Append(a, sess[s].active.n)
  <2>3. /\ Len(b) = Len(a) + 1 /\ DOMAIN b = 1..(Len(a) + 1) /\ DOMAIN a = 1..Len(a)
        /\ b[Len(a) + 1] = sess[s].active.n /\ \A i \in DOMAIN a : b[i] = a[i]
        /\ Len(a) \in Nat
    BY <2>1
  <2>4. \A i \in 1..(Len(a) + 1) : i \in 1..Len(a) \/ i = Len(a) + 1
    BY <2>3
  <2> QED
    BY <1>5, <1>11, <2>2, <2>3, <2>4
<1>13. VendorReplyOrder' /\ OneOwed'
  <2>1. VendorReplyOrder'
    BY <1>7, <1>12 DEF VInv, VendorReplyOrder
  <2>2. OneOwed'
    BY <1>5, <1>7, <1>11, <1>12 DEF VInv, OneOwed
  <2> QED
    BY <2>1, <2>2
<1>14. ASSUME NEW t \in Sessions, Serves(t)', NEW j \in Clouds, Attached(t, j)'
       PROVE  Lined(sess'[t], j, cloud'[j])
  <2>1. t = s
    BY <1>1, <1>14 DEF Serves, IsCurrent
  <2>2. j = k
    BY <1>2, <1>6, <1>8, <1>14, <2>1 DEF Attached
  <2> QED
    BY <1>4, <1>5, <1>6, <1>7, <1>8, <1>11, <1>12, <2>1, <2>2 DEF Lined, Asking
<1>15. \A j \in Clouds : ~cloud'[j].used =>
         /\ cloud'[j].asked = 0 /\ cloud'[j].passed = 0 /\ cloud'[j].answered = <<>>
         /\ \A t \in Sessions : ~Knows(sess'[t], j)
  BY <1>5, <1>7, <1>9, <1>10 DEF VInv
<1>16. \A t \in Sessions : sess'[t].cloud = sess[t].cloud
  BY <1>6, <1>8
<1> QED
  BY <1>13, <1>14, <1>15, <1>16 DEF VInv

LEMMA WorkerResumesV ==
    ASSUME TInv, VInv, NEW s \in Sessions, Resume(s) \/ ResumeReadback(s)
    PROVE  VInv'
<1> DEFINE reply == sess[s].current.reply
           y == Sampled(sess[s], reply)
<1>1. /\ UNCHANGED <<phase, session, cloud>>
      /\ \/ sess[s].worker = "exchange" /\ ~Attached(s, sess[s].active.from)
         \/ sess[s].worker = "readback"
  BY DEF Resume, ResumeReadback, Answered
<1>2. y \in SessionType /\ Like(s, y) /\ y.active = sess[s].active
  BY SampledLike
<1>3. AfterResponse(s, y, reply) \/ Complete(s, y, reply)
  BY DEF Resume, ResumeReadback
<1>4. PICK x : sess' = [sess EXCEPT ![s] = x] /\ (Finished(s, y, x) \/ Raised(y, x) \/ Confirms(y, x))
  <2> HIDE DEF y, reply
  <2> QED
    BY <1>2, <1>3, AfterResponseE, CompleteE
<1>5. y.queue = sess[s].queue /\ y.cloud = sess[s].cloud /\ y.alive = sess[s].alive
  BY SampledFields
<1> HIDE DEF y, reply
<1>6. Holds(s, x)
  BY <1>1, <1>2, <1>4, <1>5, EffectHolds
<1> QED
  BY <1>1, <1>4, <1>6, SameCloud, VendorHolds

LEMMA ForwardDoneV ==
    ASSUME TInv, VInv, NEW s \in Sessions, NEW ok \in BOOLEAN, ForwardDone(s, ok)
    PROVE  VInv'
<1>1. /\ AfterResponse(s, sess[s], sess[s].response) /\ sess[s].worker = "forward"
      /\ UNCHANGED <<phase, session>>
      /\ cloud' = cloud \/ cloud' = Closed(sess[s].active.from)
  BY DEF ForwardDone, proxy
<1>2. sess[s] \in SessionType
  BY TInvFits DEF Fits
<1>3. PICK x : /\ sess' = [sess EXCEPT ![s] = x]
               /\ Finished(s, sess[s], x) \/ Raised(sess[s], x) \/ Confirms(sess[s], x)
  BY <1>1, <1>2, AfterResponseE
<1>4. Holds(s, x)
  BY <1>1, <1>3, EffectHolds
<1>5. Closes
  BY <1>1, SameCloud, ClosedCloses
<1> QED
  BY <1>1, <1>3, <1>4, <1>5, VendorHolds

LEMMA WorkerEndsV ==
    ASSUME TInv, VInv, NEW s \in Sessions, ResumeStale(s) \/ ExchangeTimeout(s)
    PROVE  VInv'
<1> DEFINE x == WorkerRaised(sess[s], sess[s].active)
<1>1. /\ sess' = [sess EXCEPT ![s] = x] /\ UNCHANGED <<phase, session, cloud>>
      /\ sess[s].worker \in {"exchange", "readback"}
  BY DEF ResumeStale, ExchangeTimeout, TimedOut, proxy, Answered
<1>2. sess[s] \in SessionType
  BY TInvFits DEF Fits
<1>3. Raised(sess[s], x)
  BY <1>2, RaisedE
<1> HIDE DEF x
<1>4. Holds(s, x)
  BY <1>1, <1>3, EffectHolds DEF Raised
<1> QED
  BY <1>1, <1>4, SameCloud, VendorHolds

-----------------------------------------------------------------------------
(* The reader, the vendor loop, the poller and the callers.                *)

\* A session object that differs from y only in what is of no interest here.
Neutral(y, x) == /\ x.cloud = y.cloud /\ x.queue = y.queue /\ x.active = y.active
               /\ x.worker = y.worker /\ x.alive = y.alive

LEMMA SameV ==
    ASSUME TInv, VInv, Closes, UNCHANGED <<phase, session>>,
           NEW s \in Sessions, NEW x, sess' = [sess EXCEPT ![s] = x], Neutral(sess[s], x)
    PROVE  VInv'
  BY VendorHolds DEF Neutral, Holds

LEMMA ReaderV ==
    ASSUME TInv, VInv, NEW s \in Sessions, ReaderFrame(s) \/ ReaderLost(s)
    PROVE  VInv'
<1> DEFINE e == [op |-> sess[s].current.op, reply |-> Head(device.outbox)]
           y1 == [sess[s] EXCEPT !.current = e]
           y2 == [sess[s] EXCEPT !.reader = "done", !.failed = TRUE]
<1>1. PICK y \in {y1, y2} : sess' = [sess EXCEPT ![s] = y]
  BY ZenonT(60) DEF ReaderFrame, ReaderLost
<1>2. UNCHANGED <<phase, session, cloud>>
  BY DEF ReaderFrame, ReaderLost, proxy
<1>3. sess[s] \in SessionType
  BY TInvFits DEF Fits
<1> HIDE DEF e
<1>4. Neutral(sess[s], y1)
  BY <1>3 DEF Neutral, SessionType
<1>5. Neutral(sess[s], y2)
  BY <1>3 DEF Neutral, SessionType
<1> HIDE DEF y1, y2
<1> QED
  BY <1>1, <1>2, <1>4, <1>5, SameCloud, SameV

\* A connection that was never used is known to nobody.
LEMMA VendorConnectV ==
    ASSUME TInv, VInv, NEW s \in Sessions, NEW k \in Clouds, VendorConnect(s, k) PROVE VInv'
<1> DEFINE x == [sess[s] EXCEPT !.vendor = "serve", !.cloud = k]
           c == [cloud[k] EXCEPT !.used = TRUE, !.alive = TRUE]
<1>1. /\ sess' = [sess EXCEPT ![s] = x] /\ cloud' = [cloud EXCEPT ![k] = c]
      /\ IsCurrent(s) /\ ~cloud[k].used /\ UNCHANGED <<phase, session>>
  BY DEF VendorConnect
<1>2. sess[s] \in SessionType /\ cloud[k] \in CloudType /\ cloud \in [Clouds -> CloudType]
  BY TInvFits DEF Fits, TInv, TypeOK
<1>3. /\ x.queue = sess[s].queue /\ x.active = sess[s].active /\ x.worker = sess[s].worker
      /\ x.cloud = k /\ x.alive = sess[s].alive
  BY <1>2 DEF SessionType
<1>4. /\ c.used /\ c.asked = cloud[k].asked /\ c.answered = cloud[k].answered
      /\ c.passed = cloud[k].passed
  BY <1>2 DEF CloudType
<1> HIDE DEF x, c
<1>5. sess'[s] = x /\ \A t \in Sessions \ {s} : sess'[t] = sess[t]
  BY <1>1 DEF TInv, TypeOK
<1>6. cloud'[k] = c /\ \A j \in Clouds \ {k} : cloud'[j] = cloud[j]
  BY <1>1, <1>2
<1>7. \A t \in Sessions : ~Knows(sess[t], k)
  BY <1>1 DEF VInv
<1>8. cloud[k].asked = 0 /\ cloud[k].passed = 0 /\ cloud[k].answered = <<>>
  BY <1>1 DEF VInv
<1>9. VendorReplyOrder' /\ OneOwed'
  BY <1>4, <1>6, <1>8 DEF VInv, VendorReplyOrder, OneOwed
<1>10. ASSUME NEW j \in Clouds, ~cloud'[j].used
       PROVE  /\ cloud'[j].asked = 0 /\ cloud'[j].passed = 0 /\ cloud'[j].answered = <<>>
              /\ \A t \in Sessions : ~Knows(sess'[t], j)
  <2>1. j # k /\ cloud'[j] = cloud[j]
    BY <1>4, <1>6, <1>10
  <2>2. \A t \in Sessions : ~Knows(sess[t], j)
    BY <1>10, <2>1 DEF VInv
  <2> QED
    BY <1>3, <1>5, <1>10, <2>1, <2>2 DEF VInv, Knows
<1>11. \A t, u \in Sessions : sess'[t].cloud # None /\ sess'[t].cloud = sess'[u].cloud => t = u
  BY <1>3, <1>5, <1>7 DEF VInv, Knows
<1>12. ASSUME NEW t \in Sessions, Serves(t)', NEW j \in Clouds, Attached(t, j)'
       PROVE  Lined(sess'[t], j, cloud'[j])
  <2>1. t = s /\ j = k
    BY <1>1, <1>3, <1>5, <1>12 DEF Serves, IsCurrent, Attached
  <2>2. \A i \in DOMAIN x.queue : x.queue[i].from # k
    BY <1>3, <1>7 DEF Knows
  <2>3. ~Asking(x, k)
    BY <1>2, <1>3, <1>7, TInvFits DEF Knows, Asking, Fits
  <2>4. Covers(x.queue, k, 0, 0)
    BY <2>2 DEF Covers, Ranked
  <2> QED
    BY <1>4, <1>5, <1>6, <1>8, <2>1, <2>3, <2>4 DEF Lined
<1> QED
  BY <1>9, <1>10, <1>11, <1>12 DEF VInv

\* A frame either continues the numbers in the queue, or its connection does
\* not count any more.
LEMMA VendorFrameV ==
    ASSUME TInv, VInv, NEW s \in Sessions, NEW k \in Clouds, NEW op \in VendorOps,
           VendorFrame(s, k, op)
    PROVE  VInv'
<1> DEFINE wanted == IsCurrent(s) /\ Attached(s, k)
           room == HasRoom(s)
           n == cloud[k].asked + 1
           r == [op |-> op, from |-> k, n |-> n]
           live == cloud[k].alive /\ (wanted => room)
           c == [cloud[k] EXCEPT !.asked = n, !.alive = live]
           q == Append(sess[s].queue, r)
           y1 == [sess[s] EXCEPT !.queue = q]
           y2 == [sess[s] EXCEPT !.vendor = "close"]
           x == IF ~wanted THEN sess[s] ELSE IF room THEN y1 ELSE y2
<1>1. /\ sess' = [sess EXCEPT ![s] = x] /\ cloud' = [cloud EXCEPT ![k] = c]
      /\ sess[s].cloud = k /\ cloud[k].asked < MaxFrames
      /\ UNCHANGED <<phase, session>>
  BY DEF VendorFrame, Enqueue
<1>2. /\ sess[s] \in SessionType /\ cloud[k] \in CloudType /\ cloud \in [Clouds -> CloudType]
      /\ sess[s].queue \in Seq(Request) /\ cloud[k].asked \in Nat
  BY TInvFits, CloudFacts DEF Fits, TInv, TypeOK, SessionType
<1>3. r \in Request /\ r.from = k /\ r.n = n
  BY <1>1, <1>2 DEF Request, Origins
<1>4. wanted <=> IsCurrent(s) /\ cloud[k].alive
  BY <1>1 DEF Attached
<1>5. /\ c.used = cloud[k].used /\ c.asked = n /\ c.answered = cloud[k].answered
      /\ c.passed = cloud[k].passed /\ (c.alive <=> live)
  <2>1. live \in BOOLEAN
    OBVIOUS
  <2> HIDE DEF live
  <2> QED
    BY <1>2, <2>1 DEF CloudType
<1>6. /\ x.active = sess[s].active /\ x.worker = sess[s].worker /\ x.cloud = k
      /\ x.queue = IF wanted /\ room THEN q ELSE sess[s].queue
  <2>1. /\ y1.active = sess[s].active /\ y1.worker = sess[s].worker
        /\ y1.cloud = sess[s].cloud /\ y1.queue = q
    BY <1>2 DEF SessionType
  <2>2. /\ y2.active = sess[s].active /\ y2.worker = sess[s].worker
        /\ y2.cloud = sess[s].cloud /\ y2.queue = sess[s].queue
    BY <1>2 DEF SessionType
  <2> HIDE DEF y1, y2, q, wanted, room
  <2> QED
    BY <1>1, <2>1, <2>2
<1>7. \A i \in DOMAIN q : q[i] = r \/ (i \in DOMAIN sess[s].queue /\ q[i] = sess[s].queue[i])
  <2> DEFINE p == sess[s].queue
  <2>1. /\ DOMAIN q = 1..(Len(p) + 1) /\ DOMAIN p = 1..Len(p) /\ Len(p) \in Nat
        /\ q[Len(p) + 1] = r /\ \A i \in DOMAIN p : q[i] = p[i]
    BY <1>2
  <2>2. \A i \in 1..(Len(p) + 1) : i \in 1..Len(p) \/ i = Len(p) + 1
    BY <2>1
  <2> QED
    BY <2>1, <2>2
<1>8. \A lo, hi \in Nat : hi = cloud[k].asked /\ Covers(sess[s].queue, k, lo, hi) => Covers(q, k, lo, n)
  BY <1>2, <1>3, CoversMore
<1> HIDE DEF x, c, q, r
<1>9. sess'[s] = x /\ \A t \in Sessions \ {s} : sess'[t] = sess[t]
  BY <1>1 DEF TInv, TypeOK
<1>10. cloud'[k] = c /\ \A j \in Clouds \ {k} : cloud'[j] = cloud[j]
  BY <1>1, <1>2
<1>11. cloud[k].used
  BY <1>1 DEF VInv, Knows
<1>12. VendorReplyOrder' /\ OneOwed'
  BY <1>5, <1>10 DEF VInv, VendorReplyOrder, OneOwed
<1>13. ASSUME NEW j \in Clouds, ~cloud'[j].used
       PROVE  /\ cloud'[j].asked = 0 /\ cloud'[j].passed = 0 /\ cloud'[j].answered = <<>>
              /\ \A t \in Sessions : ~Knows(sess'[t], j)
  <2>1. j # k /\ cloud'[j] = cloud[j]
    BY <1>5, <1>10, <1>11, <1>13
  <2>2. \A t \in Sessions : ~Knows(sess[t], j)
    BY <1>13, <2>1 DEF VInv
  <2>3. ~Knows(x, j)
    BY <1>3, <1>6, <1>7, <2>1, <2>2 DEF Knows
  <2> QED
    BY <1>9, <1>13, <2>1, <2>2, <2>3 DEF VInv
<1>14. \A t \in Sessions : sess'[t].cloud = sess[t].cloud
  BY <1>1, <1>6, <1>9
<1>15. ASSUME NEW t \in Sessions, Serves(t)', NEW j \in Clouds, Attached(t, j)'
       PROVE  Lined(sess'[t], j, cloud'[j])
  <2>0. IsCurrent(t) /\ sess[t].worker # "done" /\ sess[t].cloud = j
    <3>1. sess'[t].alive = sess[t].alive
      BY <1>1, <1>2, <1>9 DEF x, SessionType
    <3> QED
      BY <1>1, <1>6, <1>9, <1>14, <1>15, <3>1 DEF Serves, IsCurrent, Attached
  <2>1. CASE j # k
    <3>1. t # s /\ Attached(t, j)
      BY <1>1, <1>10, <1>15, <2>0, <2>1 DEF Attached
    <3> QED
      BY <1>9, <1>10, <2>0, <2>1, <3>1 DEF VInv, Serves
  <2>2. CASE j = k
    <3>1. t = s
      BY <1>1, <2>0, <2>2 DEF VInv, Origins
    <3>2. wanted /\ room
      BY <1>4, <1>5, <1>10, <1>15, <2>0, <2>2, <3>1 DEF Attached
    <3>3. Lined(sess[s], k, cloud[k])
      BY <2>0, <3>1, <3>2 DEF VInv, Serves
    <3>4. Lined(x, k, c)
      BY <1>2, <1>5, <1>6, <1>8, <3>2, <3>3, CloudFacts DEF Lined, Asking
    <3> QED
      BY <1>9, <1>10, <2>2, <3>1, <3>4
  <2> QED
    BY <2>1, <2>2
<1> QED
  BY <1>12, <1>13, <1>14, <1>15 DEF VInv

LEMMA VendorV == ASSUME TInv, VInv, NEW s \in Sessions, Vendor(s) PROVE VInv'
<1>0. sess[s] \in SessionType
  BY TInvFits DEF Fits
<1>1. CASE VendorLost(s)
  <2> DEFINE x == [sess[s] EXCEPT !.vendor = "close"]
  <2>1. /\ sess' = [sess EXCEPT ![s] = x] /\ cloud' = Closed(sess[s].cloud)
        /\ UNCHANGED <<phase, session>>
    BY <1>1 DEF VendorLost, proxy
  <2>2. Neutral(sess[s], x)
    BY <1>0 DEF Neutral, SessionType
  <2> HIDE DEF x
  <2> QED
    BY <2>1, <2>2, ClosedCloses, SameV
<1>2. CASE VendorClosed(s)
  <2> DEFINE v == IF sess[s].vendor = "close" THEN Loop(s, "connect") ELSE "done"
             x == [sess[s] EXCEPT !.cloud = None, !.vendor = v]
  <2>1. sess' = [sess EXCEPT ![s] = x] /\ UNCHANGED <<phase, session, cloud>>
    BY <1>2 DEF VendorClosed
  <2> HIDE DEF v
  <2>2. Holds(s, x)
    BY <1>0 DEF Holds, SessionType
  <2> HIDE DEF x
  <2> QED
    BY <2>1, <2>2, SameCloud, VendorHolds
<1> QED
  BY <1>1, <1>2, VendorConnectV, VendorFrameV DEF Vendor

LEMMA PollerV == ASSUME TInv, VInv, NEW s \in Sessions, Poller(s) PROVE VInv'
<1>0. sess[s] \in SessionType /\ UNCHANGED <<phase, session, cloud>>
  BY TInvFits DEF Fits, Poller, PollResume, PollSubmit, proxy
<1>1. CASE PollResume(s)
  <2> DEFINE x == [sess[s] EXCEPT !.poller = "sleep"]
  <2>1. sess' = [sess EXCEPT ![s] = x]
    BY <1>1 DEF PollResume
  <2>2. Neutral(sess[s], x)
    BY <1>0 DEF Neutral, SessionType
  <2> HIDE DEF x
  <2> QED
    BY <1>0, <2>1, <2>2, SameCloud, SameV
<1>2. ASSUME NEW op \in Reads, PollSubmit(s, op) PROVE VInv'
  <2> DEFINE r == [op |-> op, from |-> s, n |-> 0]
             y == [sess[s] EXCEPT !.poller = "wait"]
             q == Append(y.queue, r)
             x == [y EXCEPT !.queue = q]
  <2>1. sess' = [sess EXCEPT ![s] = x]
    BY <1>2 DEF PollSubmit, Enqueue
  <2>2. y \in SessionType /\ Neutral(sess[s], y)
    BY <1>0 DEF Neutral, SessionType
  <2>3. r \in Request /\ r.from \notin Clouds
    BY DEF Request, Origins, Callers
  <2> HIDE DEF q, y, r
  <2>4. /\ x.queue = q /\ x.cloud = y.cloud /\ x.active = y.active
        /\ x.worker = y.worker /\ x.alive = y.alive
    BY <2>2 DEF SessionType
  <2> HIDE DEF x
  <2>5. x.queue = Append(sess[s].queue, r)
    BY <2>2, <2>4 DEF Neutral, q
  <2> QED
    BY <1>0, <2>1, <2>2, <2>3, <2>4, <2>5, JoinsV DEF Neutral
<1> QED
  BY <1>1, <1>2 DEF Poller

LEMMA UnmovedV ==
    ASSUME VInv, UNCHANGED <<phase, session, sess, cloud>> PROVE VInv'
<1>1. \A s \in Sessions : Resumes(s, sess'[s]) /\ (IsCurrent(s)' => IsCurrent(s))
  BY DEF Resumes, IsCurrent
<1>2. \A s \in Sessions : Lines(s, sess'[s])
  BY DEF Lines
<1> QED
  BY <1>1, <1>2, SameCloud, VendorAll

LEMMA CallerV == ASSUME TInv, VInv, NEW c \in Calls, Caller(c) PROVE VInv'
<1>1. UNCHANGED <<phase, session, cloud>>
  BY DEF Caller, CallReturn, CallCancel, CallSubmit, CallRefused, proxy
<1>2. ASSUME NEW op \in CallOps, CallSubmit(c, op) PROVE VInv'
  <2> DEFINE r == [op |-> op, from |-> c, n |-> 0]
             q == Append(sess[session].queue, r)
             x == [sess[session] EXCEPT !.queue = q]
  <2>1. session \in Sessions /\ sess' = [sess EXCEPT ![session] = x]
    BY <1>2, MaybeFacts DEF CallSubmit, Enqueue, TInv, TypeOK
  <2>2. sess[session] \in SessionType
    BY <2>1, TInvFits DEF Fits
  <2>3. r \in Request /\ r.from \notin Clouds
    <3>1. op \in Ops /\ c \in Origins /\ c \notin Clouds
      BY DEF Origins, Callers
    <3> QED
      BY <3>1 DEF Request
  <2> HIDE DEF q, r
  <2>4. /\ x.queue = q /\ x.cloud = sess[session].cloud /\ x.active = sess[session].active
        /\ x.worker = sess[session].worker /\ x.alive = sess[session].alive
    BY <2>2 DEF SessionType
  <2> HIDE DEF x
  <2> QED
    BY <1>1, <2>1, <2>3, <2>4, JoinsV DEF q
<1> QED
  BY <1>1, <1>2, UnmovedV DEF Caller, CallReturn, CallCancel, CallRefused

LEMMA NextVInv == TInv /\ SInv /\ VInv /\ [Next]_vars => VInv'
<1> SUFFICES ASSUME TInv, SInv, VInv, [Next]_vars PROVE VInv'
  OBVIOUS
<1>1. ASSUME NEW s \in Sessions, Accept(s) \/ Run(s) PROVE VInv'
  BY <1>1, AcceptV, RunStartV, AbortV, RunCleanupV, RunDoneV DEF Run
<1>2. ASSUME NEW s \in Sessions, Worker(s) PROVE VInv'
  BY <1>2, WorkerDiscardV, WorkerSendV, ResumeForwardV, WorkerResumesV, ForwardDoneV,
     WorkerEndsV DEF Worker
<1>3. ASSUME NEW s \in Sessions, ReaderFrame(s) \/ ReaderLost(s) \/ Vendor(s) \/ Poller(s)
      PROVE  VInv'
  BY <1>3, ReaderV, VendorV, PollerV
<1>4. ASSUME NEW c \in Calls, Caller(c) PROVE VInv'
  BY <1>4, CallerV
<1>5. ASSUME Device \/ Terminating \/ UNCHANGED vars PROVE VInv'
  <2>1. UNCHANGED <<phase, session, sess, cloud>>
    BY <1>5 DEF Device, DeviceDrop, DeviceReply, Terminating, vars, proxy
  <2> QED
    BY <2>1, UnmovedV
<1> QED
  BY <1>1, <1>2, <1>3, <1>4, <1>5, StopV DEF Next

\* On every vendor connection the answered requests are the first ones asked,
\* in order and without a gap: a frame that found the queue full ended its
\* connection, and none of another connection is answered (_enqueue_cloud).
THEOREM RepliesInOrder == Spec => []VendorReplyOrder
<1>1. VInv => VendorReplyOrder
  BY DEF VInv
<1>2. Init => VInv
  BY InitVInv
<1>3. Spec => []VInv
  BY <1>2, NextVInv, StateInvariant, PTL DEF Spec
<1> QED
  BY <1>1, <1>3, PTL

\* A vendor connection is never owed more than one answer, and an open one of
\* the session in service is owed one exactly while the worker exchanges its
\* request: no response is kept back and no request of a connection that is
\* gone is written (_worker, the checks before and after _exchange).
THEOREM AnsweredBeforeNext == Spec => []VendorAnswered
<1>1. TInv /\ VInv => VendorAnswered
  <2> SUFFICES ASSUME TInv, VInv, NEW k \in Clouds
               PROVE  /\ cloud[k].passed - Len(cloud[k].answered) \in {0, 1}
                      /\ \A s \in Sessions :
                           IsCurrent(s) /\ Attached(s, k) /\ sess[s].worker # "done" =>
                             (cloud[k].passed - Len(cloud[k].answered) = 1
                               <=> sess[s].worker = "exchange" /\ sess[s].active.from = k)
    BY DEF VendorAnswered
  <2>1. cloud[k].passed - Len(cloud[k].answered) \in {0, 1}
    BY CloudFacts DEF VInv, OneOwed
  <2>2. ASSUME NEW s \in Sessions, IsCurrent(s), Attached(s, k), sess[s].worker # "done"
        PROVE  cloud[k].passed - Len(cloud[k].answered) = 1
                 <=> sess[s].worker = "exchange" /\ sess[s].active.from = k
    <3>1. Lined(sess[s], k, cloud[k])
      BY <2>2 DEF VInv, Serves
    <3> QED
      BY <3>1, CloudFacts DEF Lined, Asking
  <2> QED
    BY <2>1, <2>2
<1>2. Init => VInv
  BY InitVInv
<1>3. Spec => []TInv /\ []VInv
  BY <1>2, NextVInv, StateInvariant, PTL DEF Spec
<1> QED
  BY <1>1, <1>3, PTL

-----------------------------------------------------------------------------
(* Every vendor request is accounted for.                                  *)

\* The sets DropAccounting counts.
AskedPairs  == {p \in Clouds \X (1..MaxFrames) : p[2] <= cloud[p[1]].asked}
PassedPairs == {p \in Clouds \X (1..MaxFrames) : p[2] <= cloud[p[1]].passed}
WaitingPairs == {p \in Sessions \X (1..QueueLimit) :
                    /\ p[2] \in DOMAIN sess[p[1]].queue
                    /\ sess[p[1]].queue[p[2]].from \in Clouds}
EndedWorkers == {s \in Sessions : sess[s].worker = "done"}

Accounted == Cardinality(PassedPairs) + dropped + Cardinality(WaitingPairs)

\* Session object x may still add or pass requests of connection k.
Tied(x, k) == x.cloud = k \/ \E i \in DOMAIN x.queue : x.queue[i].from = k

\* What is written to the device of a connection was asked before, and what
\* waits for it in the queue of the one session it belongs to comes after that.
NInv ==
    /\ \A k \in Clouds : cloud[k].passed <= cloud[k].asked
    /\ \A s \in Sessions, k \in Clouds :
          Ranked(sess[s].queue, k, cloud[k].passed, cloud[k].asked)
    /\ \A s, t \in Sessions, k \in Clouds : Tied(sess[s], k) /\ Tied(sess[t], k) => s = t
    /\ \A s \in Sessions : sess[s].task = "none" => sess[s].queue = <<>> /\ ~sess[s].alive

CInv == /\ Accounted <= Cardinality(AskedPairs)
        /\ Cardinality(AskedPairs) - Accounted <= Cardinality(EndedWorkers)

DInv == NInv /\ CInv

\* What is counted is finite.
Few == IsFiniteSet(Sessions) /\ IsFiniteSet(Clouds)

-----------------------------------------------------------------------------
(* Counting.                                                               *)

LEMMA Finite ==
    ASSUME Few
    PROVE  /\ \A S \in SUBSET (Clouds \X (1..MaxFrames)) : IsFiniteSet(S) /\ Cardinality(S) \in Nat
           /\ \A S \in SUBSET (Sessions \X (1..QueueLimit)) : IsFiniteSet(S) /\ Cardinality(S) \in Nat
           /\ \A S \in SUBSET Sessions : IsFiniteSet(S) /\ Cardinality(S) \in Nat
<1>1. ASSUME NEW T, IsFiniteSet(T), NEW S \in SUBSET T
      PROVE  IsFiniteSet(S) /\ Cardinality(S) \in Nat
  BY <1>1, FS_Subset, FS_CardinalityType
<1>2. IsFiniteSet(1..MaxFrames) /\ IsFiniteSet(1..QueueLimit)
  BY FS_Interval
<1>3. IsFiniteSet(Clouds \X (1..MaxFrames)) /\ IsFiniteSet(Sessions \X (1..QueueLimit))
  BY <1>2, FS_Product DEF Few
<1> QED
  BY <1>1, <1>3 DEF Few

\* The values the counts can have before and after a step.
LEMMA Counts ==
    ASSUME Few
    PROVE  /\ IsFiniteSet(AskedPairs) /\ IsFiniteSet(PassedPairs)
           /\ IsFiniteSet(WaitingPairs) /\ IsFiniteSet(EndedWorkers)
           /\ IsFiniteSet(AskedPairs') /\ IsFiniteSet(PassedPairs')
           /\ IsFiniteSet(WaitingPairs') /\ IsFiniteSet(EndedWorkers')
           /\ Cardinality(AskedPairs) \in Nat /\ Cardinality(PassedPairs) \in Nat
           /\ Cardinality(WaitingPairs) \in Nat /\ Cardinality(EndedWorkers) \in Nat
           /\ Cardinality(AskedPairs') \in Nat /\ Cardinality(PassedPairs') \in Nat
           /\ Cardinality(WaitingPairs') \in Nat /\ Cardinality(EndedWorkers') \in Nat
<1>1. /\ AskedPairs \in SUBSET (Clouds \X (1..MaxFrames))
      /\ AskedPairs' \in SUBSET (Clouds \X (1..MaxFrames))
  BY DEF AskedPairs
<1>2. /\ PassedPairs \in SUBSET (Clouds \X (1..MaxFrames))
      /\ PassedPairs' \in SUBSET (Clouds \X (1..MaxFrames))
  BY DEF PassedPairs
<1>3. /\ WaitingPairs \in SUBSET (Sessions \X (1..QueueLimit))
      /\ WaitingPairs' \in SUBSET (Sessions \X (1..QueueLimit))
  BY DEF WaitingPairs
<1>4. EndedWorkers \in SUBSET Sessions /\ EndedWorkers' \in SUBSET Sessions
  BY DEF EndedWorkers
<1> QED
  BY <1>1, <1>2, <1>3, <1>4, Finite

LEMMA PassedFacts ==
    ASSUME TInv, NEW k \in Clouds
    PROVE  cloud[k].passed \in Nat /\ cloud[k].asked \in 0..MaxFrames
<1>1. cloud[k] \in CloudType
  BY DEF TInv, TypeOK
<1> QED
  BY <1>1 DEF CloudType

\* Connection k has asked one request more.
LEMMA AskedMore ==
    ASSUME Few, TInv, NEW k \in Clouds, cloud[k].asked < MaxFrames,
           cloud'[k].asked = cloud[k].asked + 1,
           \A j \in Clouds \ {k} : cloud'[j].asked = cloud[j].asked
    PROVE  Cardinality(AskedPairs') = Cardinality(AskedPairs) + 1
<1> DEFINE n == cloud[k].asked + 1
<1>1. \A j \in Clouds : cloud[j].asked \in Nat
  BY PassedFacts
<1>2. n \in 1..MaxFrames /\ ~(n <= cloud[k].asked)
  BY <1>1
<1>3. \A m \in 1..MaxFrames : m <= cloud'[k].asked <=> m <= cloud[k].asked \/ m = n
  BY <1>1
<1> HIDE DEF n
<1>4. <<k, n>> \notin AskedPairs
  BY <1>2 DEF AskedPairs
<1>5. ASSUME NEW p \in Clouds \X (1..MaxFrames)
      PROVE  p \in AskedPairs' <=> p \in AskedPairs \/ p = <<k, n>>
  <2>1. PICK j \in Clouds, m \in 1..MaxFrames : p = <<j, m>>
    OBVIOUS
  <2>2. CASE j = k
    BY <1>3, <2>1, <2>2 DEF AskedPairs
  <2>3. CASE j # k
    BY <2>1, <2>3 DEF AskedPairs
  <2> QED
    BY <2>2, <2>3
<1>6. AskedPairs' = AskedPairs \cup {<<k, n>>}
  <2>1. /\ AskedPairs' \subseteq Clouds \X (1..MaxFrames)
        /\ AskedPairs \subseteq Clouds \X (1..MaxFrames)
        /\ <<k, n>> \in Clouds \X (1..MaxFrames)
    BY <1>2 DEF AskedPairs
  <2> QED
    BY <1>5, <2>1
<1> QED
  BY <1>4, <1>6, Counts, FS_AddElement

\* One request more of connection k is written to the device.
LEMMA PassedMore ==
    ASSUME Few, TInv, NEW k \in Clouds, cloud[k].passed < MaxFrames,
           cloud'[k].passed = cloud[k].passed + 1,
           \A j \in Clouds \ {k} : cloud'[j].passed = cloud[j].passed
    PROVE  Cardinality(PassedPairs') = Cardinality(PassedPairs) + 1
<1> DEFINE n == cloud[k].passed + 1
<1>1. \A j \in Clouds : cloud[j].passed \in Nat
  BY PassedFacts
<1>2. n \in 1..MaxFrames /\ ~(n <= cloud[k].passed)
  BY <1>1
<1>3. \A m \in 1..MaxFrames : m <= cloud'[k].passed <=> m <= cloud[k].passed \/ m = n
  BY <1>1
<1> HIDE DEF n
<1>4. <<k, n>> \notin PassedPairs
  BY <1>2 DEF PassedPairs
<1>5. ASSUME NEW p \in Clouds \X (1..MaxFrames)
      PROVE  p \in PassedPairs' <=> p \in PassedPairs \/ p = <<k, n>>
  <2>1. PICK j \in Clouds, m \in 1..MaxFrames : p = <<j, m>>
    OBVIOUS
  <2>2. CASE j = k
    BY <1>3, <2>1, <2>2 DEF PassedPairs
  <2>3. CASE j # k
    BY <2>1, <2>3 DEF PassedPairs
  <2> QED
    BY <2>2, <2>3
<1>6. PassedPairs' = PassedPairs \cup {<<k, n>>}
  <2>1. /\ PassedPairs' \subseteq Clouds \X (1..MaxFrames)
        /\ PassedPairs \subseteq Clouds \X (1..MaxFrames)
        /\ <<k, n>> \in Clouds \X (1..MaxFrames)
    BY <1>2 DEF PassedPairs
  <2> QED
    BY <1>5, <2>1
<1> QED
  BY <1>4, <1>6, Counts, FS_AddElement

LEMMA SameAsked ==
    ASSUME \A k \in Clouds : cloud'[k].asked = cloud[k].asked PROVE AskedPairs' = AskedPairs
<1>1. \A p \in Clouds \X (1..MaxFrames) : cloud'[p[1]].asked = cloud[p[1]].asked
  OBVIOUS
<1> QED
  BY <1>1 DEF AskedPairs

LEMMA SamePassed ==
    ASSUME \A k \in Clouds : cloud'[k].passed = cloud[k].passed PROVE PassedPairs' = PassedPairs
<1>1. \A p \in Clouds \X (1..MaxFrames) : cloud'[p[1]].passed = cloud[p[1]].passed
  OBVIOUS
<1> QED
  BY <1>1 DEF PassedPairs

LEMMA SameWaiting ==
    ASSUME \A s \in Sessions : sess'[s].queue = sess[s].queue PROVE WaitingPairs' = WaitingPairs
<1>1. \A p \in Sessions \X (1..QueueLimit) : sess'[p[1]].queue = sess[p[1]].queue
  OBVIOUS
<1> QED
  BY <1>1 DEF WaitingPairs

\* A worker that ended stays so.
LEMMA EndedStay ==
    ASSUME Few, \A s \in Sessions : sess[s].worker = "done" => sess'[s].worker = "done"
    PROVE  /\ Cardinality(EndedWorkers) <= Cardinality(EndedWorkers')
           /\ \A s \in Sessions : sess[s].worker # "done" /\ sess'[s].worker = "done" =>
                 Cardinality(EndedWorkers) + 1 <= Cardinality(EndedWorkers')
<1>1. EndedWorkers \in SUBSET EndedWorkers'
  BY DEF EndedWorkers
<1>2. ASSUME NEW s \in Sessions, sess[s].worker # "done", sess'[s].worker = "done"
      PROVE  Cardinality(EndedWorkers) + 1 <= Cardinality(EndedWorkers')
  <2>1. s \notin EndedWorkers /\ EndedWorkers \cup {s} \in SUBSET EndedWorkers'
    BY <1>2 DEF EndedWorkers
  <2>2. Cardinality(EndedWorkers \cup {s}) = Cardinality(EndedWorkers) + 1
    BY <2>1, Counts, FS_AddElement
  <2> QED
    BY <2>1, <2>2, Counts, FS_Subset
<1> QED
  BY <1>1, <1>2, Counts, FS_Subset

\* A request joins the queue of session s.
LEMMA QueueMore ==
    ASSUME Few, TInv, TInv', NEW s \in Sessions, NEW r \in Request,
           sess'[s].queue = Append(sess[s].queue, r),
           \A t \in Sessions \ {s} : sess'[t].queue = sess[t].queue
    PROVE  Cardinality(WaitingPairs') =
               Cardinality(WaitingPairs) + IF r.from \in Clouds THEN 1 ELSE 0
<1> DEFINE q == sess[s].queue
           p == sess'[s].queue
           n == Len(q) + 1
<1>1. q \in Seq(Request) /\ Len(p) <= QueueLimit
  BY TInvFits DEF Fits, SessionType, TInv, TypeOK
<1>2. /\ DOMAIN q = 1..Len(q) /\ DOMAIN p = 1..n /\ Len(q) \in Nat /\ Len(p) = n
      /\ p[n] = r /\ \A i \in DOMAIN q : p[i] = q[i]
  BY <1>1
<1>3. n \in 1..QueueLimit /\ n \notin DOMAIN q
  BY <1>1, <1>2
<1>4. \A i \in 1..QueueLimit : i \in DOMAIN p <=> i \in DOMAIN q \/ i = n
  BY <1>2
<1> HIDE DEF n
<1>5. <<s, n>> \notin WaitingPairs
  BY <1>3 DEF WaitingPairs
<1>6. ASSUME NEW e \in Sessions \X (1..QueueLimit)
      PROVE  e \in WaitingPairs' <=> e \in WaitingPairs \/ (e = <<s, n>> /\ r.from \in Clouds)
  <2>1. PICK t \in Sessions, i \in 1..QueueLimit : e = <<t, i>>
    OBVIOUS
  <2>2. CASE t = s
    <3>1. e \in WaitingPairs' <=> i \in DOMAIN p /\ p[i].from \in Clouds
      BY <2>1, <2>2 DEF WaitingPairs
    <3>2. e \in WaitingPairs <=> i \in DOMAIN q /\ q[i].from \in Clouds
      BY <2>1, <2>2 DEF WaitingPairs
    <3>3. e = <<s, n>> <=> i = n
      BY <2>1, <2>2
    <3> HIDE DEF p, q
    <3> QED
      BY <1>2, <1>3, <1>4, <3>1, <3>2, <3>3
  <2>3. CASE t # s
    BY <2>1, <2>3 DEF WaitingPairs
  <2> QED
    BY <2>2, <2>3
<1>7. WaitingPairs' = IF r.from \in Clouds THEN WaitingPairs \cup {<<s, n>>} ELSE WaitingPairs
  <2>1. /\ WaitingPairs' \subseteq Sessions \X (1..QueueLimit)
        /\ WaitingPairs \subseteq Sessions \X (1..QueueLimit)
        /\ <<s, n>> \in Sessions \X (1..QueueLimit)
    BY <1>3 DEF WaitingPairs
  <2> QED
    BY <1>6, <2>1
<1> QED
  BY <1>5, <1>7, Counts, FS_AddElement

\* The head of the queue of session s leaves it.
LEMMA QueueLess ==
    ASSUME Few, TInv, NEW s \in Sessions, sess[s].queue # <<>>,
           sess'[s].queue = Tail(sess[s].queue),
           \A t \in Sessions \ {s} : sess'[t].queue = sess[t].queue
    PROVE  Cardinality(WaitingPairs) =
               Cardinality(WaitingPairs') + IF Head(sess[s].queue).from \in Clouds THEN 1 ELSE 0
<1> DEFINE q == sess[s].queue
           p == sess'[s].queue
           first == <<s, 1>>
           rest == WaitingPairs \ {first}
           shift == [e \in rest |-> IF e[1] = s THEN <<s, e[2] - 1>> ELSE e]
<1>1. q \in Seq(Request) /\ Len(q) <= QueueLimit /\ q # <<>>
  BY TInvFits DEF Fits, SessionType
<1>2. /\ Len(q) \in Nat /\ DOMAIN q = 1..Len(q) /\ Head(q) = q[1] /\ 1 \in DOMAIN q
      /\ DOMAIN p = 1..(Len(q) - 1) /\ \A i \in DOMAIN p : p[i] = q[i + 1]
  BY <1>1
<1>3. \A i \in 1..QueueLimit : i \in DOMAIN q /\ i # 1 =>
         i - 1 \in 1..QueueLimit /\ i - 1 \in DOMAIN p /\ p[i - 1] = q[i]
  BY <1>1, <1>2
<1>4. \A i \in 1..QueueLimit : i \in DOMAIN p =>
         i + 1 \in 1..QueueLimit /\ i + 1 \in DOMAIN q /\ i + 1 # 1 /\ (i + 1) - 1 = i
  BY <1>1, <1>2
<1>5. first \in WaitingPairs <=> Head(q).from \in Clouds
  <2>1. 1 \in 1..QueueLimit
    BY <1>1, <1>2
  <2> QED
    BY <1>2, <2>1 DEF WaitingPairs
<1>6. \A t \in Sessions, i \in 1..QueueLimit :
        /\ <<t, i>> \in WaitingPairs <=>
              i \in DOMAIN sess[t].queue /\ sess[t].queue[i].from \in Clouds
        /\ <<t, i>> \in WaitingPairs' <=>
              i \in DOMAIN sess'[t].queue /\ sess'[t].queue[i].from \in Clouds
  BY DEF WaitingPairs
<1>7. /\ \A e \in WaitingPairs : \E t \in Sessions, i \in 1..QueueLimit : e = <<t, i>>
      /\ \A e \in WaitingPairs' : \E t \in Sessions, i \in 1..QueueLimit : e = <<t, i>>
  BY DEF WaitingPairs
<1> HIDE DEF p, q
<1>8. \A i \in 1..QueueLimit :
        /\ <<s, i>> \in rest <=> i # 1 /\ i \in DOMAIN q /\ q[i].from \in Clouds
        /\ <<s, i>> \in WaitingPairs' <=> i \in DOMAIN p /\ p[i].from \in Clouds
  BY <1>6 DEF p, q
<1>9. \A t \in Sessions \ {s}, i \in 1..QueueLimit :
        <<t, i>> \in rest <=> <<t, i>> \in WaitingPairs'
  BY <1>6
<1>10. \A e \in rest : \E t \in Sessions, i \in 1..QueueLimit : e = <<t, i>>
  BY <1>7
<1> HIDE DEF first, rest
<1>11. ASSUME NEW e \in rest PROVE shift[e] \in WaitingPairs'
  <2>1. PICK t \in Sessions, i \in 1..QueueLimit : e = <<t, i>>
    BY <1>10
  <2>2. CASE t = s
    <3>1. shift[e] = <<s, i - 1>>
      BY <2>1, <2>2
    <3> QED
      BY <1>3, <1>8, <2>1, <2>2, <3>1
  <2>3. CASE t # s
    BY <1>9, <2>1, <2>3
  <2> QED
    BY <2>2, <2>3
<1>12. ASSUME NEW d \in rest, NEW e \in rest, shift[d] = shift[e] PROVE d = e
  <2>1. PICK t \in Sessions, i \in 1..QueueLimit : d = <<t, i>>
    BY <1>10
  <2>2. PICK u \in Sessions, j \in 1..QueueLimit : e = <<u, j>>
    BY <1>10
  <2>3. shift[d] = IF t = s THEN <<s, i - 1>> ELSE <<t, i>>
    BY <2>1
  <2>4. shift[e] = IF u = s THEN <<s, j - 1>> ELSE <<u, j>>
    BY <2>2
  <2>5. i - 1 = j - 1 => i = j
    OBVIOUS
  <2> HIDE DEF shift
  <2> QED
    BY <1>12, <2>1, <2>2, <2>3, <2>4, <2>5
<1>13. ASSUME NEW d \in WaitingPairs' PROVE \E e \in rest : shift[e] = d
  <2>1. PICK t \in Sessions, i \in 1..QueueLimit : d = <<t, i>>
    BY <1>7
  <2>2. CASE t = s
    <3>1. i \in DOMAIN p /\ p[i].from \in Clouds /\ p[i] = q[i + 1]
      BY <1>2, <1>8, <2>1, <2>2
    <3>2. <<s, i + 1>> \in rest
      BY <1>4, <1>8, <3>1
    <3>3. shift[<<s, i + 1>>] = <<s, (i + 1) - 1>>
      BY <3>2
    <3> QED
      BY <1>4, <2>1, <2>2, <3>1, <3>2, <3>3
  <2>3. CASE t # s
    <3>1. <<t, i>> \in rest
      BY <1>9, <2>1, <2>3
    <3>2. shift[<<t, i>>] = <<t, i>>
      BY <2>3, <3>1
    <3> QED
      BY <2>1, <3>1, <3>2
  <2> QED
    BY <2>2, <2>3
<1>14. ExistsBijection(rest, WaitingPairs')
  <2>1. shift \in [rest -> WaitingPairs']
    BY <1>11
  <2> HIDE DEF shift
  <2>2. shift \in Bijection(rest, WaitingPairs')
    BY <1>12, <1>13, <2>1 DEF Bijection, Injection, Surjection, IsInjective
  <2> QED
    BY <2>2 DEF ExistsBijection
<1>15. /\ IsFiniteSet(rest) /\ Cardinality(rest) = Cardinality(WaitingPairs')
       /\ Cardinality(rest) = IF first \in WaitingPairs THEN Cardinality(WaitingPairs) - 1
                              ELSE Cardinality(WaitingPairs)
  <2>1. /\ IsFiniteSet(rest)
        /\ Cardinality(rest) = IF first \in WaitingPairs THEN Cardinality(WaitingPairs) - 1
                               ELSE Cardinality(WaitingPairs)
    BY Counts, FS_RemoveElement DEF rest
  <2> QED
    BY <1>14, <2>1, FS_Bijection
<1> QED
  BY <1>5, <1>15, Counts DEF q

\* The queue of session s is emptied.
LEMMA QueueNone ==
    ASSUME Few, TInv, NEW s \in Sessions, sess'[s].queue = <<>>,
           \A t \in Sessions \ {s} : sess'[t].queue = sess[t].queue
    PROVE  /\ Leftover(s) \in Nat
           /\ Cardinality(WaitingPairs) = Cardinality(WaitingPairs') + Leftover(s)
<1> DEFINE q == sess[s].queue
           left == {i \in DOMAIN q : q[i].from \in Clouds}
           gone == {e \in WaitingPairs : e[1] = s}
           pair == [i \in left |-> <<s, i>>]
<1>1. q \in Seq(Request) /\ Len(q) <= QueueLimit
  BY TInvFits DEF Fits, SessionType
<1>2. DOMAIN q \subseteq 1..QueueLimit
  BY <1>1
<1>3. \A t \in Sessions, i \in 1..QueueLimit :
        <<t, i>> \in WaitingPairs <=>
              i \in DOMAIN sess[t].queue /\ sess[t].queue[i].from \in Clouds
  BY DEF WaitingPairs
<1>4. \A e \in WaitingPairs : \E t \in Sessions, i \in 1..QueueLimit : e = <<t, i>>
  BY DEF WaitingPairs
<1>5. gone \cap WaitingPairs' = {} /\ WaitingPairs = gone \cup WaitingPairs'
  <2>1. ASSUME NEW t \in Sessions, NEW i \in 1..QueueLimit
        PROVE  <<t, i>> \in WaitingPairs' <=> <<t, i>> \in WaitingPairs /\ t # s
    <3>1. CASE t = s
      BY <3>1 DEF WaitingPairs
    <3>2. CASE t # s
      BY <3>2 DEF WaitingPairs
    <3> QED
      BY <3>1, <3>2
  <2>2. \A e \in WaitingPairs' : \E t \in Sessions, i \in 1..QueueLimit : e = <<t, i>>
    BY DEF WaitingPairs
  <2>3. \A e \in WaitingPairs : e \in gone \/ e \in WaitingPairs'
    BY <1>4, <2>1
  <2>4. \A e \in WaitingPairs' : e \in WaitingPairs /\ e \notin gone
    BY <2>1, <2>2
  <2> QED
    BY <2>3, <2>4
<1>6. pair \in [left -> gone]
  <2>1. \A i \in left : <<s, i>> \in gone
    BY <1>2, <1>3
  <2> QED
    BY <2>1
<1>7. \A i, j \in left : pair[i] = pair[j] => i = j
  OBVIOUS
<1>8. \A e \in gone : \E i \in left : pair[i] = e
  BY <1>3, <1>4
<1>9. pair \in Bijection(left, gone)
  <2> HIDE DEF pair, left, gone
  <2> QED
    BY <1>6, <1>7, <1>8 DEF Bijection, Injection, Surjection, IsInjective
<1>10. ExistsBijection(left, gone)
  BY <1>9 DEF ExistsBijection
<1>11. IsFiniteSet(left)
  <2>1. left \in SUBSET (1..QueueLimit)
    BY <1>2
  <2>2. IsFiniteSet(1..QueueLimit)
    BY FS_Interval
  <2> HIDE DEF left
  <2> QED
    BY <2>1, <2>2, FS_Subset
<1>12. Leftover(s) = Cardinality(left)
  BY DEF Leftover
<1> HIDE DEF left, gone, pair
<1>13. IsFiniteSet(gone) /\ Cardinality(gone) = Leftover(s)
  BY <1>10, <1>11, <1>12, FS_Bijection
<1>14. Cardinality(gone) \in Nat
  BY <1>13, FS_CardinalityType
<1> QED
  <2>1. Cardinality(gone \cap WaitingPairs') = 0
    BY <1>5, FS_EmptySet
  <2>2. Cardinality(gone \cup WaitingPairs') =
          Cardinality(gone) + Cardinality(WaitingPairs') - Cardinality(gone \cap WaitingPairs')
    BY <1>13, Counts, FS_Union
  <2> QED
    BY <1>5, <1>13, <1>14, <2>1, <2>2, Counts

-----------------------------------------------------------------------------
(* Steps that only move the tasks.                                         *)

\* Nothing is asked or written to the device.
Untold == \A k \in Clouds : /\ cloud'[k].asked = cloud[k].asked
                            /\ cloud'[k].passed = cloud[k].passed

\* Session object y, which becomes x, keeps its queue.
KeepsQueue(y, x) ==
    /\ x.queue = y.queue /\ x.cloud \in {y.cloud, None}
    /\ y.worker = "done" => x.worker = "done"
    /\ x.task = "none" => y.task = "none" /\ (x.alive => y.alive)

LEMMA InitDInv == ASSUME Few, Init PROVE DInv
<1>1. \A s \in Sessions : /\ sess[s].queue = <<>> /\ ~sess[s].alive /\ sess[s].cloud = None
                          /\ sess[s].worker = "idle"
  BY DEF Init, NewSession
<1>2. \A k \in Clouds : k # None /\ cloud[k].asked = 0 /\ cloud[k].passed = 0
  BY DEF Init, Origins
<1>3. NInv
  BY <1>1, <1>2 DEF NInv, Ranked, Tied
<1>4. AskedPairs = {} /\ PassedPairs = {} /\ WaitingPairs = {}
  <2>1. \A p \in Clouds \X (1..MaxFrames) : cloud[p[1]].asked = 0 /\ cloud[p[1]].passed = 0
    BY <1>2
  <2>2. \A p \in Sessions \X (1..QueueLimit) : sess[p[1]].queue = <<>>
    BY <1>1
  <2> QED
    BY <2>1, <2>2 DEF AskedPairs, PassedPairs, WaitingPairs
<1>5. dropped = 0
  BY DEF Init
<1> QED
  BY <1>3, <1>4, <1>5, FS_EmptySet, Counts DEF DInv, CInv, Accounted

LEMMA KeepsAll ==
    ASSUME Few, TInv, DInv, Untold, UNCHANGED dropped,
           \A s \in Sessions : KeepsQueue(sess[s], sess'[s])
    PROVE  DInv'
<1>1. NInv'
  <2>1. \A s \in Sessions, k \in Clouds : Tied(sess'[s], k) => Tied(sess[s], k)
    BY DEF KeepsQueue, Tied, Origins
  <2>2. \A k \in Clouds : cloud'[k].passed <= cloud'[k].asked
    BY DEF DInv, NInv, Untold
  <2>3. \A s \in Sessions, k \in Clouds :
          Ranked(sess'[s].queue, k, cloud'[k].passed, cloud'[k].asked)
    BY DEF DInv, NInv, Untold, KeepsQueue
  <2>4. \A s \in Sessions : sess'[s].task = "none" => sess'[s].queue = <<>> /\ ~sess'[s].alive
    BY DEF DInv, NInv, KeepsQueue
  <2> QED
    BY <2>1, <2>2, <2>3, <2>4 DEF DInv, NInv
<1>2. AskedPairs' = AskedPairs /\ PassedPairs' = PassedPairs /\ WaitingPairs' = WaitingPairs
  BY SameAsked, SamePassed, SameWaiting DEF Untold, KeepsQueue
<1>3. Cardinality(EndedWorkers) <= Cardinality(EndedWorkers')
  BY EndedStay DEF KeepsQueue
<1>4. dropped \in Nat
  BY DEF TInv, TypeOK
<1> QED
  BY <1>1, <1>2, <1>3, <1>4, Counts DEF DInv, CInv, Accounted

LEMMA KeepsOne ==
    ASSUME Few, TInv, DInv, Untold, UNCHANGED dropped,
           NEW s \in Sessions, NEW x, sess' = [sess EXCEPT ![s] = x], KeepsQueue(sess[s], x)
    PROVE  DInv'
<1>1. sess'[s] = x /\ \A t \in Sessions \ {s} : sess'[t] = sess[t]
  BY DEF TInv, TypeOK
<1>2. \A t \in Sessions : KeepsQueue(sess[t], sess'[t])
  BY <1>1 DEF KeepsQueue
<1> QED
  BY <1>2, KeepsAll

LEMMA SameUntold == UNCHANGED cloud => Untold
  BY DEF Untold

LEMMA ClosedUntold == ASSUME TInv, NEW k, cloud' = Closed(k) PROVE Untold
<1> DEFINE c == [cloud[k] EXCEPT !.alive = FALSE]
<1>1. cloud' = cloud \/ cloud' = [cloud EXCEPT ![k] = c]
  BY DEF Closed
<1>2. cloud \in [Clouds -> CloudType]
  BY DEF TInv, TypeOK
<1>3. k \in Clouds => c.asked = cloud[k].asked /\ c.passed = cloud[k].passed
  BY <1>2 DEF CloudType
<1> HIDE DEF c
<1> QED
  BY <1>1, <1>2, <1>3 DEF Untold

\* A session of which no task has begun to work.
LEMMA AcceptD == ASSUME Few, TInv, SInv, DInv, NEW s \in Sessions, Accept(s) PROVE DInv'
<1> DEFINE old(t) == [sess[t] EXCEPT !.alive = FALSE, !.cancelled = TRUE]
           new == [NewSession EXCEPT !.task = "created", !.alive = TRUE]
<1>1. /\ sess' = [t \in Sessions |-> IF t = s THEN new ELSE IF t = session THEN old(t) ELSE sess[t]]
      /\ sess[s].task = "none" /\ UNCHANGED dropped
  BY DEF Accept
<1>2. new.cloud = None /\ new.queue = <<>> /\ new.task = "created"
  <2>1. [NewSession EXCEPT !.task = "created"].cloud = None
    BY DEF NewSession
  <2>2. [NewSession EXCEPT !.task = "created"].queue = <<>>
    BY DEF NewSession
  <2> QED
    BY <2>1, <2>2 DEF NewSession
<1>3. ASSUME NEW t \in Sessions PROVE KeepsQueue(sess[t], old(t))
  BY TInvFits DEF Fits, SessionType, KeepsQueue
<1>4. sess[s].queue = <<>> /\ sess[s].worker = "idle"
  BY <1>1 DEF DInv, NInv, SInv, Grouped, Unborn
<1> HIDE DEF old, new
<1>5. KeepsQueue(sess[s], new)
  BY <1>2, <1>4 DEF KeepsQueue
<1>6. \A t \in Sessions : KeepsQueue(sess[t], sess'[t])
  <2>1. \A t \in Sessions : KeepsQueue(sess[t], sess[t])
    BY DEF KeepsQueue
  <2> QED
    BY <1>1, <1>3, <1>5, <2>1
<1>7. Untold
  <2>1. cloud' = cloud \/ cloud' = Closed(sess[session].cloud)
    BY DEF Accept
  <2> QED
    BY <2>1, SameUntold, ClosedUntold
<1> QED
  BY <1>1, <1>6, <1>7, KeepsAll

LEMMA RunD ==
    ASSUME Few, TInv, SInv, DInv, NEW s \in Sessions, RunStart(s) \/ Abort(s) \/ RunDone(s)
    PROVE  DInv'
<1> DEFINE v == IF sess[s].vendor \in {"serve", "unwind"} THEN "unwind" ELSE "done"
           a == Released(sess[s].active)
           x1 == IF sess[s].cancelled THEN [sess[s] EXCEPT !.task = "lost"]
                 ELSE [sess[s] EXCEPT !.task = "running", !.worker = "get",
                         !.reader = "read", !.vendor = "connect", !.poller = "sleep"]
           x2 == [sess[s] EXCEPT !.reader = "done", !.poller = "done", !.worker = "done",
                    !.vendor = v, !.current = None, !.response = None, !.active = a]
           x3 == [sess[s] EXCEPT !.task = "done"]
<1>1. sess[s] \in SessionType /\ UNCHANGED dropped
  BY TInvFits DEF Fits, RunStart, Abort, RunDone, proxy
<1>2. CASE RunStart(s)
  <2>1. sess' = [sess EXCEPT ![s] = x1] /\ sess[s].task = "created" /\ UNCHANGED cloud
    BY <1>2 DEF RunStart
  <2>2. sess[s].worker = "idle"
    BY <2>1 DEF SInv, Grouped, Unborn
  <2>3. KeepsQueue(sess[s], x1)
    BY <1>1, <2>2 DEF SessionType, KeepsQueue
  <2> HIDE DEF x1
  <2> QED
    BY <1>1, <2>1, <2>3, SameUntold, KeepsOne
<1>3. CASE Abort(s)
  <2>1. /\ sess' = [sess EXCEPT ![s] = x2]
        /\ cloud' = cloud \/ cloud' = Closed(sess[s].cloud)
    BY <1>3 DEF Abort
  <2> HIDE DEF v, a
  <2>2. KeepsQueue(sess[s], x2)
    BY <1>1 DEF SessionType, KeepsQueue
  <2> HIDE DEF x2
  <2> QED
    BY <1>1, <2>1, <2>2, SameUntold, ClosedUntold, KeepsOne
<1>4. CASE RunDone(s)
  <2>1. sess' = [sess EXCEPT ![s] = x3] /\ UNCHANGED cloud
    BY <1>4 DEF RunDone
  <2>2. KeepsQueue(sess[s], x3)
    BY <1>1 DEF SessionType, KeepsQueue
  <2> HIDE DEF x3
  <2> QED
    BY <1>1, <2>1, <2>2, SameUntold, KeepsOne
<1> QED
  BY <1>2, <1>3, <1>4

LEMMA StopD == ASSUME Few, TInv, DInv, StopBegin \/ StopEnd PROVE DInv'
<1>1. UNCHANGED <<dropped, cloud>>
  BY DEF StopBegin, StopEnd
<1>2. ASSUME NEW s \in Sessions PROVE KeepsQueue(sess[s], sess'[s])
  <2> DEFINE b == sess[s].cancelled \/ Unfinished(s)
             x == [sess[s] EXCEPT !.cancelled = b]
  <2>1. sess'[s] \in {sess[s], x}
    BY DEF StopBegin, StopEnd, Cancelled
  <2>2. sess[s] \in SessionType
    BY TInvFits DEF Fits
  <2> HIDE DEF b
  <2>3. KeepsQueue(sess[s], x) /\ KeepsQueue(sess[s], sess[s])
    BY <2>2 DEF KeepsQueue, SessionType
  <2> HIDE DEF x
  <2> QED
    BY <2>1, <2>3
<1> QED
  BY <1>1, <1>2, SameUntold, KeepsAll

\* A worker that ends, or goes on with a request it took before.
Labours(y, x) == x.queue = y.queue /\ x.alive = y.alive /\ x.task = y.task /\ x.cloud = y.cloud

LEMMA LaboursOne ==
    ASSUME Few, TInv, DInv, Untold, UNCHANGED dropped,
           NEW s \in Sessions, NEW x, sess' = [sess EXCEPT ![s] = x], Labours(sess[s], x),
           sess[s].worker # "done" \/ x.worker = sess[s].worker
    PROVE  DInv'
  BY KeepsOne DEF Labours, KeepsQueue

LEMMA ResumesD ==
    ASSUME Few, TInv, DInv, NEW s \in Sessions, ResumeForward(s) \/ Resume(s) \/ ResumeReadback(s)
    PROVE  DInv'
<1> DEFINE reply == sess[s].current.reply
           y == Sampled(sess[s], reply)
<1>1. UNCHANGED dropped /\ sess[s].worker # "done"
  BY DEF ResumeForward, Resume, ResumeReadback, Answered
<1>2. y \in SessionType /\ Labours(sess[s], y)
  BY SampledLike, SampledFields DEF Like, Labours
<1>3. CASE ResumeForward(s)
  <2> DEFINE k == sess[s].active.from
             a == Append(cloud[k].answered, sess[s].active.n)
             c == [cloud[k] EXCEPT !.answered = a]
             x == [y EXCEPT !.worker = "forward", !.response = reply, !.current = None]
  <2>1. sess' = [sess EXCEPT ![s] = x] /\ cloud' = [cloud EXCEPT ![k] = c] /\ k \in Clouds
    BY <1>3 DEF ResumeForward, Attached
  <2>2. cloud \in [Clouds -> CloudType]
    BY DEF TInv, TypeOK
  <2> HIDE DEF y, reply, a, k
  <2>3. Labours(y, x)
    BY <1>2 DEF Labours, SessionType
  <2>4. c.asked = cloud[k].asked /\ c.passed = cloud[k].passed
    BY <2>1, <2>2 DEF CloudType
  <2> HIDE DEF x, c
  <2>5. Untold
    BY <2>1, <2>2, <2>4 DEF Untold
  <2>6. Labours(sess[s], x)
    BY <1>2, <2>3 DEF Labours
  <2> QED
    BY <1>1, <2>1, <2>5, <2>6, LaboursOne
<1>4. CASE Resume(s) \/ ResumeReadback(s)
  <2>1. (AfterResponse(s, y, reply) \/ Complete(s, y, reply)) /\ UNCHANGED cloud
    BY <1>4 DEF Resume, ResumeReadback
  <2> HIDE DEF y, reply
  <2>2. PICK x : /\ sess' = [sess EXCEPT ![s] = x]
                 /\ Finished(s, y, x) \/ Raised(y, x) \/ Confirms(y, x)
    BY <1>2, <2>1, AfterResponseE, CompleteE
  <2>3. Labours(sess[s], x)
    BY <1>2, <2>2 DEF Labours, Finished, Raised, Confirms
  <2> QED
    BY <1>1, <2>1, <2>2, <2>3, SameUntold, LaboursOne
<1> QED
  BY <1>3, <1>4

LEMMA ForwardDoneD ==
    ASSUME Few, TInv, DInv, NEW s \in Sessions, NEW ok \in BOOLEAN, ForwardDone(s, ok)
    PROVE  DInv'
<1>1. /\ AfterResponse(s, sess[s], sess[s].response) /\ sess[s].worker = "forward"
      /\ UNCHANGED dropped
      /\ cloud' = cloud \/ cloud' = Closed(sess[s].active.from)
  BY DEF ForwardDone, proxy
<1>2. sess[s] \in SessionType
  BY TInvFits DEF Fits
<1>3. PICK x : /\ sess' = [sess EXCEPT ![s] = x]
               /\ Finished(s, sess[s], x) \/ Raised(sess[s], x) \/ Confirms(sess[s], x)
  BY <1>1, <1>2, AfterResponseE
<1>4. Labours(sess[s], x)
  BY <1>3 DEF Labours, Finished, Raised, Confirms
<1> QED
  BY <1>1, <1>3, <1>4, SameUntold, ClosedUntold, LaboursOne

LEMMA WorkerEndsD ==
    ASSUME Few, TInv, DInv, NEW s \in Sessions, ResumeStale(s) \/ ExchangeTimeout(s)
    PROVE  DInv'
<1> DEFINE x == WorkerRaised(sess[s], sess[s].active)
<1>1. /\ sess' = [sess EXCEPT ![s] = x] /\ UNCHANGED <<dropped, cloud>>
      /\ sess[s].worker \in {"exchange", "readback"}
  BY DEF ResumeStale, ExchangeTimeout, TimedOut, proxy, Answered
<1>2. sess[s] \in SessionType
  BY TInvFits DEF Fits
<1>3. Labours(sess[s], x)
  BY <1>2, RaisedE DEF Raised, Labours
<1> HIDE DEF x
<1> QED
  BY <1>1, <1>3, SameUntold, LaboursOne

LEMMA ReaderD ==
    ASSUME Few, TInv, DInv, NEW s \in Sessions, ReaderFrame(s) \/ ReaderLost(s)
    PROVE  DInv'
<1> DEFINE e == [op |-> sess[s].current.op, reply |-> Head(device.outbox)]
           y1 == [sess[s] EXCEPT !.current = e]
           y2 == [sess[s] EXCEPT !.reader = "done", !.failed = TRUE]
<1>1. PICK y \in {y1, y2} : sess' = [sess EXCEPT ![s] = y]
  BY ZenonT(60) DEF ReaderFrame, ReaderLost
<1>2. UNCHANGED <<dropped, cloud>>
  BY DEF ReaderFrame, ReaderLost, proxy
<1>3. sess[s] \in SessionType
  BY TInvFits DEF Fits
<1> HIDE DEF e
<1>4. Labours(sess[s], y1) /\ y1.worker = sess[s].worker
  BY <1>3 DEF Labours, SessionType
<1>5. Labours(sess[s], y2) /\ y2.worker = sess[s].worker
  BY <1>3 DEF Labours, SessionType
<1> HIDE DEF y1, y2
<1> QED
  BY <1>1, <1>2, <1>4, <1>5, SameUntold, LaboursOne

-----------------------------------------------------------------------------
(* Steps that change a queue or a connection.                              *)

\* Session s, tied to the connections it was tied to, becomes x; of other
\* connections nothing is asked or written.
LEMMA NumbersOne ==
    ASSUME TInv, NInv, NEW s \in Sessions, NEW x, sess' = [sess EXCEPT ![s] = x],
           x.task # "none",
           \A k \in Clouds : Tied(x, k) => Tied(sess[s], k),
           \A k \in Clouds : /\ cloud'[k].passed <= cloud'[k].asked
                             /\ Ranked(x.queue, k, cloud'[k].passed, cloud'[k].asked),
           \A k \in Clouds : ~Tied(sess[s], k) =>
              cloud'[k].asked = cloud[k].asked /\ cloud'[k].passed = cloud[k].passed
    PROVE  NInv'
<1>1. sess'[s] = x /\ \A t \in Sessions \ {s} : sess'[t] = sess[t]
  BY DEF TInv, TypeOK
<1>2. \A t, u \in Sessions, k \in Clouds : Tied(sess'[t], k) /\ Tied(sess'[u], k) => t = u
  BY <1>1 DEF NInv
<1>3. ASSUME NEW t \in Sessions, NEW k \in Clouds
      PROVE  Ranked(sess'[t].queue, k, cloud'[k].passed, cloud'[k].asked)
  <2>1. CASE t = s
    BY <1>1, <2>1
  <2>2. CASE t # s /\ ~Tied(sess[s], k)
    BY <1>1, <2>2 DEF NInv
  <2>3. CASE t # s /\ Tied(sess[s], k)
    <3>1. ~Tied(sess[t], k) /\ sess'[t] = sess[t]
      BY <1>1, <2>3 DEF NInv
    <3> QED
      BY <3>1 DEF Tied, Ranked
  <2> QED
    BY <2>1, <2>2, <2>3
<1>4. \A t \in Sessions : sess'[t].task = "none" => sess'[t].queue = <<>> /\ ~sess'[t].alive
  BY <1>1 DEF NInv
<1> QED
  BY <1>2, <1>3, <1>4 DEF NInv

\* A local request joins the queue.
LEMMA JoinsD ==
    ASSUME Few, TInv, TInv', DInv, UNCHANGED <<cloud, dropped>>,
           NEW s \in Sessions, NEW r \in Request, r.from \notin Clouds, NEW x,
           sess' = [sess EXCEPT ![s] = x], x.queue = Append(sess[s].queue, r),
           x.cloud = sess[s].cloud, x.worker = sess[s].worker, x.task = sess[s].task,
           sess[s].task # "none"
    PROVE  DInv'
<1>1. sess[s].queue \in Seq(Request)
  BY TInvFits DEF Fits, SessionType
<1>2. sess'[s] = x /\ \A t \in Sessions \ {s} : sess'[t] = sess[t]
  BY DEF TInv, TypeOK
<1>3. \A k \in Clouds : Ranked(x.queue, k, cloud[k].passed, cloud[k].asked)
  BY <1>1, RankedMore, PassedFacts DEF DInv, NInv
<1>4. \A k \in Clouds : Tied(x, k) => Tied(sess[s], k)
  <2>1. \A i \in DOMAIN x.queue : x.queue[i] = r \/ (i \in DOMAIN sess[s].queue /\ x.queue[i] = sess[s].queue[i])
    BY <1>1
  <2> QED
    BY <2>1 DEF Tied
<1>5. NInv'
  BY <1>3, <1>4, NumbersOne DEF DInv, NInv
<1>6. Cardinality(WaitingPairs') = Cardinality(WaitingPairs)
  BY <1>2, QueueMore, Counts
<1>7. AskedPairs' = AskedPairs /\ PassedPairs' = PassedPairs
  BY SameAsked, SamePassed
<1>8. Cardinality(EndedWorkers) <= Cardinality(EndedWorkers')
  BY <1>2, EndedStay
<1>9. dropped \in Nat
  BY DEF TInv, TypeOK
<1> QED
  BY <1>5, <1>6, <1>7, <1>8, <1>9, Counts DEF DInv, CInv, Accounted

LEMMA PollerD ==
    ASSUME Few, TInv, TInv', SInv, DInv, NEW s \in Sessions, Poller(s)
    PROVE  DInv'
<1>0. sess[s] \in SessionType /\ UNCHANGED <<cloud, dropped>>
  BY TInvFits DEF Fits, Poller, PollResume, PollSubmit, proxy
<1>1. CASE PollResume(s)
  <2> DEFINE x == [sess[s] EXCEPT !.poller = "sleep"]
  <2>1. sess' = [sess EXCEPT ![s] = x]
    BY <1>1 DEF PollResume
  <2>2. Labours(sess[s], x) /\ x.worker = sess[s].worker
    BY <1>0 DEF Labours, SessionType
  <2> HIDE DEF x
  <2> QED
    BY <1>0, <2>1, <2>2, SameUntold, LaboursOne
<1>2. ASSUME NEW op \in Reads, PollSubmit(s, op) PROVE DInv'
  <2> DEFINE r == [op |-> op, from |-> s, n |-> 0]
             y == [sess[s] EXCEPT !.poller = "wait"]
             q == Append(y.queue, r)
             x == [y EXCEPT !.queue = q]
  <2>1. sess' = [sess EXCEPT ![s] = x] /\ sess[s].poller = "sleep"
    BY <1>2 DEF PollSubmit, Enqueue
  <2>2. y \in SessionType /\ Labours(sess[s], y) /\ y.worker = sess[s].worker
    BY <1>0 DEF Labours, SessionType
  <2>3. r \in Request /\ r.from \notin Clouds
    BY DEF Request, Origins, Callers
  <2>4. sess[s].task # "none"
    BY <2>1, Runs
  <2> HIDE DEF q, y, r
  <2>5. x.queue = q /\ x.cloud = y.cloud /\ x.worker = y.worker /\ x.task = y.task
    BY <2>2 DEF SessionType
  <2> HIDE DEF x
  <2>6. x.queue = Append(sess[s].queue, r)
    BY <2>2, <2>5 DEF Labours, q
  <2> QED
    BY <1>0, <2>1, <2>2, <2>3, <2>4, <2>5, <2>6, JoinsD DEF Labours
<1> QED
  BY <1>1, <1>2 DEF Poller

LEMMA UnmovedD == ASSUME Few, TInv, DInv, UNCHANGED <<sess, cloud, dropped>> PROVE DInv'
  BY SameUntold, KeepsAll DEF KeepsQueue

LEMMA CallerD ==
    ASSUME Few, TInv, TInv', DInv, NEW c \in Calls, Caller(c)
    PROVE  DInv'
<1>1. UNCHANGED <<cloud, dropped>>
  BY DEF Caller, CallReturn, CallCancel, CallSubmit, CallRefused, proxy
<1>2. ASSUME NEW op \in CallOps, CallSubmit(c, op) PROVE DInv'
  <2> DEFINE r == [op |-> op, from |-> c, n |-> 0]
             q == Append(sess[session].queue, r)
             x == [sess[session] EXCEPT !.queue = q]
  <2>1. /\ session \in Sessions /\ sess' = [sess EXCEPT ![session] = x]
        /\ sess[session].alive
    BY <1>2, MaybeFacts DEF CallSubmit, Enqueue, IsCurrent, TInv, TypeOK
  <2>2. sess[session] \in SessionType /\ sess[session].task # "none"
    BY <2>1, TInvFits DEF Fits, DInv, NInv
  <2>3. r \in Request /\ r.from \notin Clouds
    <3>1. op \in Ops /\ c \in Origins /\ c \notin Clouds
      BY DEF Origins, Callers
    <3> QED
      BY <3>1 DEF Request
  <2> HIDE DEF q, r
  <2>4. /\ x.queue = q /\ x.cloud = sess[session].cloud /\ x.worker = sess[session].worker
        /\ x.task = sess[session].task
    BY <2>2 DEF SessionType
  <2> HIDE DEF x
  <2> QED
    BY <1>1, <2>1, <2>2, <2>3, <2>4, JoinsD DEF q
<1> QED
  BY <1>1, <1>2, UnmovedD DEF Caller, CallReturn, CallCancel, CallRefused

\* The finally block of _run_session counts the vendor requests left behind.
LEMMA RunCleanupD ==
    ASSUME Few, TInv, DInv, NEW s \in Sessions, RunCleanup(s)
    PROVE  DInv'
<1> DEFINE x == [sess[s] EXCEPT !.task = "closing", !.alive = FALSE, !.current = None,
                   !.queue = <<>>, !.active = None, !.cloud = None,
                   !.sampled = FALSE, !.failed = FALSE]
<1>1. /\ sess' = [sess EXCEPT ![s] = x] /\ cloud' = Closed(sess[s].cloud)
      /\ dropped' = dropped + Leftover(s)
  BY DEF RunCleanup
<1>2. sess[s] \in SessionType
  BY TInvFits DEF Fits
<1>3. x.queue = <<>> /\ x.cloud = None /\ x.task = "closing" /\ x.worker = sess[s].worker
  BY <1>2 DEF SessionType
<1> HIDE DEF x
<1>4. sess'[s] = x /\ \A t \in Sessions \ {s} : sess'[t] = sess[t]
  BY <1>1 DEF TInv, TypeOK
<1>5. Untold
  BY <1>1, ClosedUntold
<1>6. NInv'
  <2>1. \A k \in Clouds : ~Tied(x, k)
    BY <1>3 DEF Tied, Origins
  <2>2. \A k \in Clouds, lo, hi \in Nat : Ranked(x.queue, k, lo, hi)
    BY <1>3 DEF Ranked
  <2>3. \A k \in Clouds : /\ cloud'[k].passed <= cloud'[k].asked
                          /\ Ranked(x.queue, k, cloud'[k].passed, cloud'[k].asked)
    BY <1>5, <2>2, PassedFacts DEF DInv, NInv, Untold
  <2> QED
    BY <1>1, <1>3, <1>5, <2>1, <2>3, NumbersOne DEF DInv, Untold
<1>7. /\ Leftover(s) \in Nat
      /\ Cardinality(WaitingPairs) = Cardinality(WaitingPairs') + Leftover(s)
  BY <1>3, <1>4, QueueNone
<1>8. AskedPairs' = AskedPairs /\ PassedPairs' = PassedPairs
  BY <1>5, SameAsked, SamePassed DEF Untold
<1>9. Cardinality(EndedWorkers) <= Cardinality(EndedWorkers')
  BY <1>3, <1>4, EndedStay
<1>10. dropped \in Nat
  BY DEF TInv, TypeOK
<1> QED
  BY <1>1, <1>6, <1>7, <1>8, <1>9, <1>10, Counts DEF DInv, CInv, Accounted

\* A connection that was never used is tied to no session.
LEMMA VendorConnectD ==
    ASSUME Few, TInv, SInv, VInv, DInv, NEW s \in Sessions, NEW k \in Clouds,
           VendorConnect(s, k)
    PROVE  DInv'
<1> DEFINE x == [sess[s] EXCEPT !.vendor = "serve", !.cloud = k]
           c == [cloud[k] EXCEPT !.used = TRUE, !.alive = TRUE]
<1>1. /\ sess' = [sess EXCEPT ![s] = x] /\ cloud' = [cloud EXCEPT ![k] = c]
      /\ ~cloud[k].used /\ sess[s].vendor = "connect" /\ UNCHANGED dropped
  BY DEF VendorConnect
<1>2. sess[s] \in SessionType /\ cloud[k] \in CloudType /\ cloud \in [Clouds -> CloudType]
  BY TInvFits DEF Fits, TInv, TypeOK
<1>3. /\ x.queue = sess[s].queue /\ x.worker = sess[s].worker /\ x.task = sess[s].task
      /\ x.cloud = k
  BY <1>2 DEF SessionType
<1>4. c.asked = cloud[k].asked /\ c.passed = cloud[k].passed
  BY <1>2 DEF CloudType
<1> HIDE DEF x, c
<1>5. sess'[s] = x /\ \A t \in Sessions \ {s} : sess'[t] = sess[t]
  BY <1>1 DEF TInv, TypeOK
<1>6. Untold
  BY <1>1, <1>2, <1>4 DEF Untold
<1>7. \A t \in Sessions : ~Tied(sess[t], k)
  BY <1>1 DEF VInv, Knows, Tied
<1>8. sess[s].task = "running"
  BY <1>1, Runs
<1>9. NInv'
  <2>1. \A t \in Sessions, j \in Clouds :
          Tied(sess'[t], j) => Tied(sess[t], j) \/ (j = k /\ t = s)
    BY <1>3, <1>5 DEF Tied
  <2>2. \A t, u \in Sessions, j \in Clouds : Tied(sess'[t], j) /\ Tied(sess'[u], j) => t = u
    BY <1>7, <2>1 DEF DInv, NInv
  <2>3. \A t \in Sessions : sess'[t].queue = sess[t].queue
    BY <1>3, <1>5
  <2>4. \A t \in Sessions : sess'[t].task = "none" => sess'[t].queue = <<>> /\ ~sess'[t].alive
    BY <1>3, <1>5, <1>8 DEF DInv, NInv
  <2>5. /\ \A j \in Clouds : cloud'[j].passed <= cloud'[j].asked
        /\ \A t \in Sessions, j \in Clouds :
              Ranked(sess'[t].queue, j, cloud'[j].passed, cloud'[j].asked)
    BY <1>6, <2>3 DEF DInv, NInv, Untold
  <2> QED
    BY <2>2, <2>4, <2>5 DEF NInv
<1>10. AskedPairs' = AskedPairs /\ PassedPairs' = PassedPairs /\ WaitingPairs' = WaitingPairs
  BY <1>3, <1>5, <1>6, SameAsked, SamePassed, SameWaiting DEF Untold
<1>11. Cardinality(EndedWorkers) <= Cardinality(EndedWorkers')
  BY <1>3, <1>5, EndedStay
<1>12. dropped \in Nat
  BY DEF TInv, TypeOK
<1> QED
  BY <1>1, <1>9, <1>10, <1>11, <1>12, Counts DEF DInv, CInv, Accounted

\* A frame is one request more: in the queue, or dropped.
LEMMA VendorFrameD ==
    ASSUME Few, TInv, TInv', SInv, DInv, NEW s \in Sessions, NEW k \in Clouds,
           NEW op \in VendorOps, VendorFrame(s, k, op)
    PROVE  DInv'
<1> DEFINE wanted == IsCurrent(s) /\ Attached(s, k)
           room == HasRoom(s)
           n == cloud[k].asked + 1
           r == [op |-> op, from |-> k, n |-> n]
           live == cloud[k].alive /\ (wanted => room)
           c == [cloud[k] EXCEPT !.asked = n, !.alive = live]
           q == Append(sess[s].queue, r)
           y1 == [sess[s] EXCEPT !.queue = q]
           y2 == [sess[s] EXCEPT !.vendor = "close"]
           x == IF ~wanted THEN sess[s] ELSE IF room THEN y1 ELSE y2
<1>1. /\ sess' = [sess EXCEPT ![s] = x] /\ cloud' = [cloud EXCEPT ![k] = c]
      /\ sess[s].cloud = k /\ cloud[k].asked < MaxFrames /\ sess[s].vendor = "serve"
      /\ dropped' = IF wanted /\ room THEN dropped ELSE dropped + 1
  BY DEF VendorFrame, Enqueue
<1>2. /\ sess[s] \in SessionType /\ cloud[k] \in CloudType /\ cloud \in [Clouds -> CloudType]
      /\ sess[s].queue \in Seq(Request) /\ cloud[k].asked \in Nat /\ cloud[k].passed \in Nat
  BY TInvFits, PassedFacts DEF Fits, TInv, TypeOK, SessionType
<1>3. r \in Request /\ r.from = k /\ r.n = n
  BY <1>1, <1>2 DEF Request, Origins
<1>4. c.asked = n /\ c.passed = cloud[k].passed
  BY <1>2 DEF CloudType
<1>5. /\ x.worker = sess[s].worker /\ x.cloud = k /\ x.task = sess[s].task
      /\ x.queue = IF wanted /\ room THEN q ELSE sess[s].queue
  <2>1. /\ y1.worker = sess[s].worker /\ y1.cloud = sess[s].cloud /\ y1.task = sess[s].task
        /\ y1.queue = q
    BY <1>2 DEF SessionType
  <2>2. /\ y2.worker = sess[s].worker /\ y2.cloud = sess[s].cloud /\ y2.task = sess[s].task
        /\ y2.queue = sess[s].queue
    BY <1>2 DEF SessionType
  <2> HIDE DEF y1, y2, q, wanted, room
  <2> QED
    BY <1>1, <2>1, <2>2
<1>6. \A i \in DOMAIN q : q[i] = r \/ (i \in DOMAIN sess[s].queue /\ q[i] = sess[s].queue[i])
  BY <1>2, <1>3
<1>7. \A j \in Clouds, lo, hi \in Nat : Ranked(sess[s].queue, j, lo, hi) /\ lo <= hi =>
        /\ k # j => Ranked(q, j, lo, hi)
        /\ k = j /\ hi = cloud[k].asked => Ranked(q, k, lo, n)
  BY <1>2, <1>3, RankedMore
<1>8. \A lo, hi \in Nat : Ranked(sess[s].queue, k, lo, hi) => Ranked(sess[s].queue, k, lo, hi + 1)
  <2>1. \A i \in DOMAIN sess[s].queue : sess[s].queue[i].n \in Nat
    <3>1. \A i \in DOMAIN sess[s].queue : sess[s].queue[i] \in Request
      BY <1>2
    <3>2. \A e \in Request : e.n \in Nat
      BY DEF Request
    <3> QED
      BY <3>1, <3>2
  <2> QED
    BY <2>1 DEF Ranked
<1> HIDE DEF x, c, q, r, wanted, room
<1>9. sess'[s] = x /\ \A t \in Sessions \ {s} : sess'[t] = sess[t]
  BY <1>1 DEF TInv, TypeOK
<1>10. cloud'[k] = c /\ \A j \in Clouds \ {k} : cloud'[j] = cloud[j]
  BY <1>1, <1>2
<1>11. sess[s].task = "running"
  BY <1>1, Runs
<1>12. NInv'
  <2>1. \A j \in Clouds : Tied(x, j) => Tied(sess[s], j)
    BY <1>1, <1>3, <1>5, <1>6 DEF Tied
  <2>2. Tied(sess[s], k)
    BY <1>1 DEF Tied
  <2>3. ASSUME NEW j \in Clouds
        PROVE  /\ cloud'[j].passed <= cloud'[j].asked
               /\ Ranked(x.queue, j, cloud'[j].passed, cloud'[j].asked)
    <3>1. /\ cloud[j].passed <= cloud[j].asked
          /\ Ranked(sess[s].queue, j, cloud[j].passed, cloud[j].asked)
          /\ cloud[j].passed \in Nat /\ cloud[j].asked \in Nat
      BY PassedFacts DEF DInv, NInv
    <3>2. CASE j = k
      BY <1>2, <1>4, <1>5, <1>7, <1>8, <1>10, <3>1, <3>2
    <3>3. CASE j # k
      BY <1>5, <1>7, <1>10, <3>1, <3>3
    <3> QED
      BY <3>2, <3>3
  <2>4. \A j \in Clouds : ~Tied(sess[s], j) =>
          cloud'[j].asked = cloud[j].asked /\ cloud'[j].passed = cloud[j].passed
    BY <1>10, <2>2
  <2>5. x.task # "none"
    BY <1>5, <1>11
  <2> QED
    BY <1>1, <2>1, <2>3, <2>4, <2>5, NumbersOne DEF DInv
<1>13. Cardinality(AskedPairs') = Cardinality(AskedPairs) + 1
  BY <1>1, <1>4, <1>10, AskedMore
<1>14. PassedPairs' = PassedPairs
  BY <1>4, <1>10, SamePassed
<1>15. Cardinality(EndedWorkers') = Cardinality(EndedWorkers)
  <2>1. EndedWorkers' = EndedWorkers
    BY <1>5, <1>9 DEF EndedWorkers
  <2> QED
    BY <2>1
<1>16. Cardinality(WaitingPairs') = Cardinality(WaitingPairs) + IF wanted /\ room THEN 1 ELSE 0
  <2>1. CASE wanted /\ room
    BY <1>3, <1>5, <1>9, <2>1, QueueMore DEF q
  <2>2. CASE ~(wanted /\ room)
    <3>1. WaitingPairs' = WaitingPairs
      BY <1>5, <1>9, <2>2, SameWaiting
    <3> QED
      BY <2>2, <3>1, Counts
  <2> QED
    BY <2>1, <2>2
<1>17. dropped \in Nat
  BY DEF TInv, TypeOK
<1> QED
  BY <1>1, <1>12, <1>13, <1>14, <1>15, <1>16, <1>17, Counts DEF DInv, CInv, Accounted

LEMMA VendorD ==
    ASSUME Few, TInv, TInv', SInv, VInv, DInv, NEW s \in Sessions, Vendor(s)
    PROVE  DInv'
<1>0. sess[s] \in SessionType
  BY TInvFits DEF Fits
<1>1. CASE VendorLost(s)
  <2> DEFINE x == [sess[s] EXCEPT !.vendor = "close"]
  <2>1. /\ sess' = [sess EXCEPT ![s] = x] /\ cloud' = Closed(sess[s].cloud)
        /\ UNCHANGED dropped
    BY <1>1 DEF VendorLost, proxy
  <2>2. KeepsQueue(sess[s], x)
    BY <1>0 DEF KeepsQueue, SessionType
  <2> HIDE DEF x
  <2> QED
    BY <2>1, <2>2, ClosedUntold, KeepsOne
<1>2. CASE VendorClosed(s)
  <2> DEFINE v == IF sess[s].vendor = "close" THEN Loop(s, "connect") ELSE "done"
             x == [sess[s] EXCEPT !.cloud = None, !.vendor = v]
  <2>1. sess' = [sess EXCEPT ![s] = x] /\ UNCHANGED <<dropped, cloud>>
    BY <1>2 DEF VendorClosed
  <2> HIDE DEF v
  <2>2. KeepsQueue(sess[s], x)
    BY <1>0 DEF KeepsQueue, SessionType
  <2> HIDE DEF x
  <2> QED
    BY <2>1, <2>2, SameUntold, KeepsOne
<1> QED
  BY <1>1, <1>2, VendorConnectD, VendorFrameD DEF Vendor

\* The worker takes a request and discards it: its caller is gone, or it is
\* counted as dropped.
LEMMA WorkerDiscardD ==
    ASSUME Few, TInv, SInv, DInv, NEW s \in Sessions, WorkerDiscard(s)
    PROVE  DInv'
<1> DEFINE w == Loop(s, "get")
           q == Tail(sess[s].queue)
           r == Head(sess[s].queue)
           x == [sess[s] EXCEPT !.queue = q, !.worker = w]
<1>1. /\ sess' = [sess EXCEPT ![s] = x] /\ UNCHANGED cloud
      /\ sess[s].worker = "get" /\ sess[s].queue # <<>>
      /\ Skipped(r) \/ Orphaned(s, r)
      /\ dropped' = IF Orphaned(s, r) THEN dropped + 1 ELSE dropped
  BY DEF WorkerDiscard, Takes
<1>2. sess[s] \in SessionType /\ sess[s].queue \in Seq(Request)
  BY TInvFits DEF Fits, SessionType
<1>3. dropped' = dropped + IF r.from \in Clouds THEN 1 ELSE 0
  <2>1. Orphaned(s, r) => r.from \in Clouds
    BY DEF Orphaned
  <2>2. Skipped(r) => r.from \notin Clouds
    BY DEF Skipped, Callers
  <2>3. dropped \in Nat
    BY DEF TInv, TypeOK
  <2> HIDE DEF r
  <2> QED
    BY <1>1, <2>1, <2>2, <2>3
<1>4. \A i \in DOMAIN q : i + 1 \in DOMAIN sess[s].queue /\ q[i] = sess[s].queue[i + 1]
  BY <1>1, <1>2
<1>5. \A k \in Clouds : Ranked(q, k, cloud[k].passed, cloud[k].asked)
  BY <1>1, <1>2, PassedFacts, RankedLess DEF DInv, NInv
<1> HIDE DEF w, q
<1>6. x.queue = q /\ x.cloud = sess[s].cloud /\ x.task = sess[s].task
  BY <1>2 DEF SessionType
<1> HIDE DEF x
<1>7. sess'[s] = x /\ \A t \in Sessions \ {s} : sess'[t] = sess[t]
  BY <1>1 DEF TInv, TypeOK
<1>8. NInv'
  <2>1. x.task # "none"
    BY <1>1, <1>6, Runs
  <2>2. \A k \in Clouds : Tied(x, k) => Tied(sess[s], k)
    BY <1>4, <1>6 DEF Tied
  <2> QED
    BY <1>1, <1>5, <1>6, <2>1, <2>2, NumbersOne DEF DInv, NInv
<1>9. Cardinality(WaitingPairs) = Cardinality(WaitingPairs') + IF r.from \in Clouds THEN 1 ELSE 0
  BY <1>1, <1>6, <1>7, QueueLess DEF q
<1>10. AskedPairs' = AskedPairs /\ PassedPairs' = PassedPairs
  BY <1>1, SameAsked, SamePassed
<1>11. Cardinality(EndedWorkers) <= Cardinality(EndedWorkers')
  BY <1>1, <1>7, EndedStay
<1>12. dropped \in Nat
  BY DEF TInv, TypeOK
<1> HIDE DEF r
<1> QED
  BY <1>3, <1>8, <1>9, <1>10, <1>11, <1>12, Counts DEF DInv, CInv, Accounted

\* The worker writes a request to the device, or finds its session replaced,
\* loses the request and ends.
LEMMA WorkerSendD ==
    ASSUME Few, TInv, SInv, DInv, NEW s \in Sessions, WorkerSend(s)
    PROVE  DInv'
<1> DEFINE q == Tail(sess[s].queue)
           r == Head(sess[s].queue)
           n == cloud[r.from].passed + 1
           c == [cloud[r.from] EXCEPT !.passed = n]
           one == IF r.from \in Clouds THEN 1 ELSE 0
<1>1. /\ sess[s].worker = "get" /\ sess[s].queue # <<>> /\ UNCHANGED dropped
  BY DEF WorkerSend, Takes
<1>2. PICK x : /\ sess' = [sess EXCEPT ![s] = x]
               /\ \/ IsCurrent(s) /\ Sends(s, sess[s], x)
                  \/ ~IsCurrent(s) /\ SendsNot(s, sess[s], x)
  BY WorkerSendE
<1>3. /\ x.queue = q /\ x.cloud = sess[s].cloud /\ x.task = sess[s].task
      /\ ~IsCurrent(s) => x.worker = "done"
  BY <1>2 DEF Sends, SendsNot
<1>4. cloud' = IF IsCurrent(s) /\ r.from \in Clouds THEN [cloud EXCEPT ![r.from] = c] ELSE cloud
  BY DEF WorkerSend
<1>5. sess[s].queue \in Seq(Request) /\ cloud \in [Clouds -> CloudType] /\ dropped \in Nat
  BY TInvFits DEF Fits, SessionType, TInv, TypeOK
<1>6. sess'[s] = x /\ \A t \in Sessions \ {s} : sess'[t] = sess[t]
  BY <1>2 DEF TInv, TypeOK
<1>7. \A i \in DOMAIN q : i + 1 \in DOMAIN sess[s].queue /\ q[i] = sess[s].queue[i + 1]
  BY <1>1, <1>5
<1>8. \E i \in DOMAIN sess[s].queue : sess[s].queue[i] = r
  BY <1>1, <1>5
<1>9. \A k \in Clouds :
        /\ Ranked(q, k, cloud[k].passed, cloud[k].asked)
        /\ r.from = k => /\ cloud[k].passed < r.n /\ r.n <= cloud[k].asked
                         /\ Ranked(q, k, cloud[k].passed + 1, cloud[k].asked)
  BY <1>1, <1>5, PassedFacts, RankedLess DEF DInv, NInv
<1>10. r.n \in Nat
  <2>1. r \in Request
    BY <1>1, <1>5
  <2> HIDE DEF r
  <2> QED
    BY <2>1 DEF Request
<1>11. r.from \in Clouds => c.asked = cloud[r.from].asked /\ c.passed = n
  BY <1>5 DEF CloudType
<1>12. Cardinality(WaitingPairs) = Cardinality(WaitingPairs') + one
  BY <1>1, <1>3, <1>6, QueueLess
<1> HIDE DEF q, r, c
<1>13. r.from \in Clouds => n <= cloud[r.from].asked /\ cloud[r.from].passed < MaxFrames
  BY <1>9, <1>10, PassedFacts
<1>14. NInv'
  <2>1. x.task # "none"
    BY <1>1, <1>3, Runs
  <2>2. \A k \in Clouds : Tied(x, k) => Tied(sess[s], k)
    BY <1>3, <1>7 DEF Tied
  <2>3. r.from \in Clouds => Tied(sess[s], r.from)
    BY <1>8 DEF Tied
  <2>4. CASE IsCurrent(s) /\ r.from \in Clouds
    <3>1. cloud'[r.from] = c /\ \A k \in Clouds \ {r.from} : cloud'[k] = cloud[k]
      BY <1>4, <1>5, <2>4
    <3>2. ASSUME NEW k \in Clouds
          PROVE  /\ cloud'[k].passed <= cloud'[k].asked
                 /\ Ranked(x.queue, k, cloud'[k].passed, cloud'[k].asked)
      <4>1. CASE k = r.from
        BY <1>3, <1>9, <1>11, <1>13, <3>1, <4>1
      <4>2. CASE k # r.from
        BY <1>3, <1>9, <3>1, <4>2 DEF DInv, NInv
      <4> QED
        BY <4>1, <4>2
    <3>3. \A k \in Clouds : ~Tied(sess[s], k) =>
            cloud'[k].asked = cloud[k].asked /\ cloud'[k].passed = cloud[k].passed
      BY <2>3, <2>4, <3>1
    <3> QED
      BY <1>2, <2>1, <2>2, <3>2, <3>3, NumbersOne DEF DInv
  <2>5. CASE ~(IsCurrent(s) /\ r.from \in Clouds)
    <3>1. cloud' = cloud
      BY <1>4, <2>5
    <3>2. \A k \in Clouds : /\ cloud'[k].passed <= cloud'[k].asked
                            /\ Ranked(x.queue, k, cloud'[k].passed, cloud'[k].asked)
      BY <1>3, <1>9, <3>1 DEF DInv, NInv
    <3> QED
      BY <1>2, <2>1, <2>2, <3>1, <3>2, NumbersOne DEF DInv
  <2> QED
    BY <2>4, <2>5
<1>15. AskedPairs' = AskedPairs
  BY <1>4, <1>5, <1>11, SameAsked
<1>16. Cardinality(EndedWorkers) <= Cardinality(EndedWorkers')
  BY <1>1, <1>6, EndedStay
<1>17. CASE IsCurrent(s)
  <2>1. Cardinality(PassedPairs') = Cardinality(PassedPairs) + one
    <3>1. CASE r.from \in Clouds
      <4>1. cloud'[r.from] = c /\ \A k \in Clouds \ {r.from} : cloud'[k] = cloud[k]
        BY <1>4, <1>5, <1>17, <3>1
      <4>2. cloud'[r.from].passed = cloud[r.from].passed + 1
        BY <1>11, <3>1, <4>1
      <4> QED
        BY <1>13, <3>1, <4>1, <4>2, PassedMore
    <3>2. CASE r.from \notin Clouds
      <4>1. PassedPairs' = PassedPairs
        BY <1>4, <3>2, SamePassed
      <4> QED
        BY <3>2, <4>1, Counts
    <3> QED
      BY <3>1, <3>2
  <2> HIDE DEF one
  <2> QED
    BY <1>1, <1>5, <1>12, <1>14, <1>15, <1>16, <2>1, Counts DEF DInv, CInv, Accounted, one
<1>18. CASE ~IsCurrent(s)
  <2>1. PassedPairs' = PassedPairs
    BY <1>4, <1>18, SamePassed
  <2>2. Cardinality(EndedWorkers) + 1 <= Cardinality(EndedWorkers')
    BY <1>1, <1>3, <1>6, <1>18, EndedStay
  <2> QED
    BY <1>1, <1>5, <1>12, <1>14, <1>15, <2>1, <2>2, Counts DEF DInv, CInv, Accounted
<1> QED
  BY <1>17, <1>18

LEMMA NextDInv == ASSUME Few PROVE TInv /\ SInv /\ VInv /\ DInv /\ [Next]_vars => DInv'
<1> SUFFICES ASSUME TInv, SInv, VInv, DInv, [Next]_vars PROVE DInv'
  OBVIOUS
<1>0. TInv'
  BY NextTInv
<1>1. ASSUME NEW s \in Sessions, Accept(s) \/ Run(s) PROVE DInv'
  BY <1>1, AcceptD, RunD, RunCleanupD DEF Run
<1>2. ASSUME NEW s \in Sessions, Worker(s) PROVE DInv'
  BY <1>2, WorkerDiscardD, WorkerSendD, ResumesD, ForwardDoneD, WorkerEndsD DEF Worker
<1>3. ASSUME NEW s \in Sessions, ReaderFrame(s) \/ ReaderLost(s) \/ Vendor(s) \/ Poller(s)
      PROVE  DInv'
  BY <1>0, <1>3, ReaderD, VendorD, PollerD
<1>4. ASSUME NEW c \in Calls, Caller(c) PROVE DInv'
  BY <1>0, <1>4, CallerD
<1>5. ASSUME Device \/ Terminating \/ UNCHANGED vars PROVE DInv'
  <2>1. UNCHANGED <<sess, cloud, dropped>>
    BY <1>5 DEF Device, DeviceDrop, DeviceReply, Terminating, vars, proxy
  <2> QED
    BY <2>1, UnmovedD
<1> QED
  BY <1>1, <1>2, <1>3, <1>4, <1>5, StopD DEF Next

\* Every request of every vendor connection is accounted for once: written to
\* the device, counted in dropped_messages or still queued, except that a
\* session may lose the one its worker had just taken when the session ended
\* (_cloud_loop, _worker, the finally block of _run_session).
THEOREM RequestsAccounted ==
    ASSUME IsFiniteSet(Sessions), IsFiniteSet(Clouds)
    PROVE  Spec => []DropAccounting
<1>1. Few
  BY DEF Few
<1>2. Init => DInv
  BY <1>1, InitDInv
<1>3. TInv /\ SInv /\ VInv /\ DInv /\ [Next]_vars => DInv'
  BY <1>1, NextDInv
<1>4. DInv => DropAccounting
  BY DEF DInv, CInv, Accounted, AskedPairs, PassedPairs, WaitingPairs, EndedWorkers, DropAccounting
<1>5. Init => VInv
  BY InitVInv
<1> QED
  BY <1>2, <1>3, <1>4, <1>5, NextVInv, StateInvariant, PTL DEF Spec

=============================================================================
