----------------------------- MODULE ProxyCalls -----------------------------
(* The proxy keeps the promise of LocalCall to each of its callers.         *)
EXTENDS Proxy

\* Request.result, set_valve and refresh as a caller sees them.
opOf      == [c \in Calls |-> call[c].op]
outcomeOf == [c \in Calls |-> call[c].outcome]
answerOf  == [c \in Calls |-> future[c]]
reportOf  == [c \in Calls |-> IF call[c].answer = None THEN None
                              ELSE call[c].answer.report]
writesOf  == [c \in Calls |-> call[c].writes]

L == INSTANCE LocalCall WITH
         Ops <- CallOps, Commands <- Valves, Reports <- Maybe(Valves),
         op <- opOf, outcome <- outcomeOf, answer <- answerOf,
         report <- reportOf, writes <- writesOf

\* A local call is refused, or waits until it is answered, rejected or given
\* up.  Its request is written at most once and only while it waits: no command
\* of a call that was given up reaches the device, none is ever retried.  It
\* succeeds only on an answer to what was written -- in whatever order the
\* queue, the worker, a replaced session and the caller's own deadline come
\* (_submit, _worker, _run_session, set_valve).
CallsArePromised == L!Spec
=============================================================================
