---------------------------- MODULE ProcessGroup ----------------------------
(***************************************************************************)
(* A spawned CLI and its bounded termination (transports process.py).      *)
(* Several coroutines of the Runner may be stopping the same process: the  *)
(* run itself, a cancel, and the driver's shutdown.                        *)
(***************************************************************************)
EXTENDS Naturals

VARIABLES
    leader, \* the CLI: not spawned, alive, dead, or dead and reaped (returncode)
    more,   \* after its end: unread output, or a descendant that holds the pipe
    stop    \* stop[w]: where w is in terminate_process_group

group == <<leader, more, stop>>

Stoppers == {"run", "cancel", "shutdown"}
Answers == {"yes", "no"}

GroupInit ==
    /\ leader = "none" /\ more = FALSE
    /\ stop = [w \in Stoppers |-> "idle"]

\* External: the CLI ends, by itself or for a signal; the event loop reaps it;
\* the pipe it left is empty and closed.  Signals only make an end likelier: a CLI may ignore
\* SIGTERM and hang in the kernel despite SIGKILL.
LeaderExits ==
    /\ leader = "alive"
    /\ leader' = "zombie"
    /\ more' \in BOOLEAN
    /\ UNCHANGED stop
Reaped ==
    /\ leader = "zombie"
    /\ leader' = "reaped"
    /\ UNCHANGED <<more, stop>>
PipeEnds ==
    /\ more
    /\ more' = FALSE
    /\ UNCHANGED <<leader, stop>>

\* leader_alive: /proc tells a dead leader from a live one before each signal.
LeaderAlive == leader = "alive"

\* terminate_process_group up to its first wait.  A signal that is not
\* permitted ends it.
FirstStop == IF leader = "reaped" THEN {"yes"}
             ELSE IF LeaderAlive THEN {"term", "no"} ELSE {"last"}

\* mutant: SIGKILL was sent, so the CLI is taken for dead.
AfterWaitAssumed(s) ==
    IF leader = "reaped" \/ s = "kill" THEN {"yes"}
    ELSE CASE s = "term" -> IF LeaderAlive THEN {"kill", "no"} ELSE {"last"}
           [] s = "last" -> {"no"}
\* The end of a wait: the exit, or the grace period ran out and the next
\* signal is due.
AfterWait(s) ==
    IF leader = "reaped" THEN {"yes"}
    ELSE CASE s = "term" -> IF LeaderAlive THEN {"kill", "no"} ELSE {"last"}
           [] s = "kill" -> {"last"}
           [] s = "last" -> {"no"}
WaitEnds ==
    /\ \E w \in Stoppers : /\ stop[w] \in {"term", "kill", "last"}
                           /\ \E s \in AfterWait(stop[w]) : stop' = [stop EXCEPT ![w] = s]
    /\ UNCHANGED <<leader, more>>

Begin(w) == \E s \in FirstStop : stop' = [stop EXCEPT ![w] = s]
Leave(w) == stop' = [stop EXCEPT ![w] = "idle"]
Stopped(w) == stop[w] \in Answers

\* recv: a frame can be read while the CLI lives or its pipe has more; the end
\* of the stream is seen after that.
Readable == leader = "alive" \/ more

=============================================================================
