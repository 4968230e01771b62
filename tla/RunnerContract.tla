-------------------------- MODULE RunnerContract --------------------------
(***************************************************************************)
(* What the API assumes of the Runner behind a run RPC, and what a Runner  *)
(* must guarantee: a request it answers with a typed rejection never       *)
(* reaches a driver, and no request starts a driver twice, or after it     *)
(* ended.  RunController implements this specification with its model of   *)
(* the far end; RunnerServer implements it with the real handler.          *)
(***************************************************************************)
CONSTANT Requests

VARIABLES
    remote,     \* what became of a run request
    effects     \* requests whose driver was started

Init ==
    /\ remote = [q \in Requests |-> "none"]
    /\ effects = {}

Become(q, from, to) ==
    /\ remote[q] \in from
    /\ remote' = [remote EXCEPT ![q] = to]

Send(q) == Become(q, {"none"}, "sent") /\ UNCHANGED effects

Reject(q) == Become(q, {"none", "sent"}, "rejected") /\ UNCHANGED effects

StartDriver(q) ==
    /\ Become(q, {"sent"}, "executing")
    /\ effects' = effects \cup {q}

\* From "none" and "sent": refused or cancelled before the driver started.
End(q) == Become(q, {"none", "sent", "executing"}, "ended") /\ UNCHANGED effects

Next ==
    \E q \in Requests : Send(q) \/ Reject(q) \/ StartDriver(q) \/ End(q)

Spec == Init /\ [][Next]_<<remote, effects>>
=============================================================================
