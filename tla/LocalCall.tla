----------------------------- MODULE LocalCall -----------------------------
(***************************************************************************)
(* What the proxy promises a local caller, a native entity or MQTT: a call *)
(* is refused at once, or waits until it is answered, rejected or given    *)
(* up.  Its request is written to the device at most once, and only while  *)
(* the caller waits; a command succeeds only on a report of what it asked  *)
(* for.                                                                    *)
(***************************************************************************)
EXTENDS Naturals

CONSTANTS
    Calls,     \* the calls, each made once
    Ops,       \* what a call may ask for
    Commands,  \* the operations that need a confirmation
    Reports,   \* what an answer may report
    None       \* no report, or a call not yet made

VARIABLES
    op,       \* what a call asks for
    outcome,  \* "idle", "waiting" or how the call ended
    answer,   \* "none", "pending", "set", "rejected", "cancelled"
    report,   \* what the answer reports
    writes    \* how often the request was written to the device

vars == <<op, outcome, answer, report, writes>>

Init ==
    /\ op = [c \in Calls |-> None]
    /\ outcome = [c \in Calls |-> "idle"]
    /\ answer = [c \in Calls |-> "none"]
    /\ report = [c \in Calls |-> None]
    /\ writes = [c \in Calls |-> 0]

-----------------------------------------------------------------------------
\* A call is made.
Submit(c) ==
    /\ outcome[c] = "idle"
    /\ \E o \in Ops : op' = [op EXCEPT ![c] = o]
    /\ outcome' = [outcome EXCEPT ![c] = "waiting"]
    /\ answer' = [answer EXCEPT ![c] = "pending"]
    /\ UNCHANGED <<report, writes>>

Refuse(c) ==
    /\ outcome[c] = "idle"
    /\ \E o \in Ops : op' = [op EXCEPT ![c] = o]
    /\ \E why \in {"full", "unavailable"} : outcome' = [outcome EXCEPT ![c] = why]
    /\ UNCHANGED <<answer, report, writes>>

\* Its request is written, once.
Write(c) ==
    /\ answer[c] = "pending" /\ writes[c] = 0
    /\ writes' = [writes EXCEPT ![c] = 1]
    /\ UNCHANGED <<op, outcome, answer, report>>

\* The device has answered.
Answer(c) ==
    /\ answer[c] = "pending" /\ writes[c] = 1
    /\ answer' = [answer EXCEPT ![c] = "set"]
    /\ \E r \in Reports : report' = [report EXCEPT ![c] = r]
    /\ UNCHANGED <<op, outcome, writes>>

\* A session that ends rejects all the calls it holds.
Reject(lost) ==
    /\ \A c \in lost : answer[c] = "pending"
    /\ answer' = [c \in Calls |-> IF c \in lost THEN "rejected" ELSE answer[c]]
    /\ UNCHANGED <<op, outcome, report, writes>>

\* The caller resumes, or stops to wait.
Return(c) ==
    /\ outcome[c] = "waiting" /\ answer[c] \in {"set", "rejected"}
    /\ \E o \in {"ok", "unconfirmed", "unavailable"} :
          /\ o # "unavailable" => answer[c] = "set"
          /\ o = "ok" /\ op[c] \in Commands => report[c] = op[c]
          /\ outcome' = [outcome EXCEPT ![c] = o]
    /\ UNCHANGED <<op, answer, report, writes>>

Cancel(c) ==
    /\ outcome[c] = "waiting"
    /\ outcome' = [outcome EXCEPT ![c] = "cancelled"]
    /\ answer' = [answer EXCEPT ![c] = IF @ = "pending" THEN "cancelled" ELSE @]
    /\ UNCHANGED <<op, report, writes>>

Next ==
    \/ \E c \in Calls : \/ Submit(c) \/ Refuse(c) \/ Write(c) \/ Answer(c)
                        \/ Return(c) \/ Cancel(c)
    \/ \E lost \in SUBSET Calls : Reject(lost)

Spec == Init /\ [][Next]_vars
=============================================================================
