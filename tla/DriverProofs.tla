---------------------------- MODULE DriverProofs ----------------------------
(***************************************************************************)
(* What the driver reports of its CLI is true, for a CLI that behaves in   *)
(* any way and a Runner that stops, cuts or closes the run at any point.   *)
(***************************************************************************)
EXTENDS Driver, TLAPS

\* Before there is a CLI, and while execute has not settled how it ends.
Before == {"gates", "spawn"}
Undecided == Loops \cup {"gates", "spawn", "spawned", "prompt"}
Unanswered == Undecided \cup {"stopping", "finishing"}

\* The CLI lives from the spawn on, and an answer "yes" of any of the stops is
\* the answer of a process that was reaped.
StopsTellTruth ==
    /\ pc \in Before => leader = "none"
    /\ pc \in Unanswered \ Before => leader # "none"
    /\ pc \in {"ending", "closing"} => leader # "none"
    /\ \A w \in Stoppers : stop[w] = "yes" => leader = "reaped"
    /\ cc = "yes" => leader = "reaped"

\* How the run ends is settled once, and with it what execute knew of a stop.
EndIsDecided ==
    /\ pc \in Undecided => goal = "none"
    /\ pc \in Unanswered => terminal = "none"
    /\ pc = "finishing" => goal # "cancelled"
    /\ (terminal = "cancelled" /\ goal = "cancelled") => leader = "reaped"
    /\ (pc = "stopping" /\ goal = "failed") => ~knew
    /\ (pc = "finishing" /\ kind = "antigravity") => goal # "failed"

\* The prompt is reached with a session that was verified.
SessionVerified ==
    /\ pc \in {"setmode", "modeack"} => ack
    /\ pc = "prompt" => ack /\ mode = "want"

\* The inductive invariant.
DriverInv ==
    /\ TypeOK
    /\ kind \in {"devin", "antigravity", "hermes"}
    /\ {event, asked, late, ack, knew} \subseteq BOOLEAN
    /\ StopsTellTruth /\ EndIsDecided /\ SessionVerified
    /\ OwnStopNotAFault /\ NoOrphan

\* The steps of execute keep the invariant.
LEMMA ExecuteKeepsInv ==
    ASSUME DriverInv, Execute
    PROVE  DriverInv'
<1> USE DEF DriverInv, TypeOK, StopsTellTruth, EndIsDecided, SessionVerified,
            OwnStopNotAFault, NoOrphan, Before, Undecided, Unanswered, Handshake,
            Loops, Terminals, Answers, Stoppers, group, request, control, Asked
<1>1. CASE Refuse
  BY <1>1 DEF Refuse
<1>2. CASE Gates
  BY <1>2 DEF Gates
<1>3. CASE SpawnFails
  BY <1>3 DEF SpawnFails
<1>4. CASE Spawn
  BY <1>4 DEF Spawn
<1>5. CASE Register
  <2>1. FirstPhase \in {"initialize", "init", "turn"}
    BY DEF FirstPhase
  <2> QED BY <1>5, <2>1 DEF Register
<1>6. CASE Check
  BY <1>6 DEF Check, ForcedStop, Begin, FirstStop
<1>7. CASE HandshakeTimeout
  BY <1>7 DEF HandshakeTimeout, Yields, ForcedStop, Begin, FirstStop
<1>8. CASE ReadFault
  BY <1>8 DEF ReadFault, ForcedStop, Begin, FirstStop
<1>9. CASE ReadOther
  BY <1>9 DEF ReadOther
<1>10. CASE DevinAnswers
  <2>1. CASE pc = "initialize" /\ Moves("session", mode, ack)
    BY <1>10, <2>1 DEF DevinAnswers, Moves
  <2>2. ASSUME pc = "session", NEW m \in {"want", "other"},
               Moves(IF m = "want" THEN "prompt" ELSE "setmode", m, TRUE)
        PROVE  DriverInv'
    BY <1>10, <2>2 DEF DevinAnswers, Moves
  <2>3. CASE pc = "setmode" /\ Moves(AfterMode(mode), mode, ack)
    BY <1>10, <2>3 DEF DevinAnswers, Moves, AfterMode
  <2> QED BY <1>10, <2>1, <2>2, <2>3 DEF DevinAnswers
<1>11. CASE DevinRefuses
  BY <1>11 DEF DevinRefuses, Yields
<1>12. CASE DevinReportsMode
  BY <1>12 DEF DevinReportsMode, Moves, AfterMode
<1>13. CASE DevinTurnEnds
  BY <1>13 DEF DevinTurnEnds, Yields
<1>14. CASE InitFrame
  BY <1>14 DEF InitFrame, Moves
<1>15. CASE AntigravityResult
  BY <1>15 DEF AntigravityResult, ForcedStop, Result, Completed, Begin, FirstStop
<1>16. CASE HermesResult
  BY <1>16 DEF HermesResult, ForcedStop, Result, Completed, Begin, FirstStop
<1>17. CASE SendPrompt
  <2>1. CASE ForcedStop
    BY <1>17, <2>1 DEF SendPrompt, ForcedStop, Begin, FirstStop
  <2>2. CASE pc' = "turn" /\ UNCHANGED <<leader, more, stop, checked, active, started, terminal,
                                         goal, mode, ack, denied, knew>>
    BY <1>17, <2>2 DEF SendPrompt
  <2> QED BY <1>17, <2>1, <2>2 DEF SendPrompt
<1>18. CASE StopEnds
  BY <1>18 DEF StopEnds, StopOutcome, Leave, Stopped
<1>19. CASE ResultEnds
  BY <1>19 DEF ResultEnds, Leave, Stopped
<1>20. CASE Resume
  BY <1>20 DEF Resume, Finally, Begin, FirstStop
<1>21. CASE Closed
  BY <1>21 DEF Closed, Stopped
<1>22. CASE ReadRaises
  BY <1>22 DEF ReadRaises, Finally, Begin, FirstStop
<1> QED
  BY <1>1, <1>2, <1>3, <1>4, <1>5, <1>6, <1>7, <1>8, <1>9, <1>10, <1>11, <1>12, <1>13,
     <1>14, <1>15, <1>16, <1>17, <1>18, <1>19, <1>20, <1>21, <1>22
     DEF Execute

\* The CLI, the stops under way, the Runner and the clock keep it.
LEMMA OthersKeepInv ==
    ASSUME DriverInv,
           \/ Group \/ Waits \/ Cancel \/ Ask \/ CancelTimesOut \/ Drop \/ Cut
           \/ Shutdown \/ ShutdownEnds \/ DeadlinePasses
    PROVE  DriverInv'
<1> USE DEF DriverInv, TypeOK, StopsTellTruth, EndIsDecided, SessionVerified,
            OwnStopNotAFault, NoOrphan, Before, Undecided, Unanswered, Handshake,
            Loops, Terminals, Answers, Stoppers, group, request, control, Asked
<1>1. CASE Group
  BY <1>1 DEF Group, LeaderExits, Reaped, PipeEnds
<1>2. CASE Waits
  BY <1>2 DEF Waits, WaitEnds, AfterWait
<1>3. CASE CancelUnknown
  BY <1>3 DEF CancelUnknown
<1>4. CASE CancelNotifies
  BY <1>4 DEF CancelNotifies
<1>5. CASE CancelTerminates
  BY <1>5 DEF CancelTerminates, Begin, FirstStop
<1>6. CASE CancelAnswers
  BY <1>6 DEF CancelAnswers, Stopped
<1>7. CASE Ask
  BY <1>7 DEF Ask
<1>8. CASE CancelTimesOut
  BY <1>8 DEF CancelTimesOut, Leave
<1>9. CASE Drop
  BY <1>9 DEF Drop, Finally, Begin, FirstStop
<1>10. CASE Cut
  BY <1>10 DEF Cut, CanCut, Finally, Begin, FirstStop, Leave
<1>11. CASE Shutdown
  BY <1>11 DEF Shutdown, Begin, FirstStop
<1>12. CASE ShutdownEnds
  BY <1>12 DEF ShutdownEnds, Stopped
<1>13. CASE DeadlinePasses
  BY <1>13 DEF DeadlinePasses
<1> QED
  BY <1>1, <1>2, <1>3, <1>4, <1>5, <1>6, <1>7, <1>8, <1>9, <1>10, <1>11, <1>12, <1>13 DEF Cancel

\* The invariant holds in every reachable state.
THEOREM DriverInvariant == Spec => []DriverInv
<1>1. Init => DriverInv
  BY DEF Init, GroupInit, DriverInv, TypeOK, StopsTellTruth, EndIsDecided,
         SessionVerified, OwnStopNotAFault, NoOrphan, Before, Undecided, Unanswered,
         Handshake, Loops, Terminals, Answers, Stoppers
<1>2. DriverInv /\ [Next]_vars => DriverInv'
  <2> SUFFICES ASSUME DriverInv, [Next]_vars PROVE DriverInv'
    OBVIOUS
  <2>1. CASE UNCHANGED vars
    BY <2>1 DEF vars, DriverInv, TypeOK, StopsTellTruth, EndIsDecided,
       SessionVerified, OwnStopNotAFault, NoOrphan, group, request, control
  <2> QED BY <2>1, ExecuteKeepsInv, OthersKeepInv DEF Next
<1> QED BY <1>1, <1>2, PTL DEF Spec

\* Whoever answers that the CLI was stopped, the driver's cancel or a
\* run.cancelled of execute's own, answers for a leader process that is reaped.
\* Nothing is said of the rest of its process group.
THEOREM ConfirmedIsGone == Spec => []ConfirmedMeansGone
<1>1. DriverInv => ConfirmedMeansGone
  BY DEF DriverInv, StopsTellTruth, EndIsDecided, ConfirmedMeansGone
<1> QED BY <1>1, DriverInvariant, PTL

\* antigravity never reports its own stop as a failure of the provider.
THEOREM OwnStopReported == Spec => []OwnStopNotAFault
<1>1. DriverInv => OwnStopNotAFault
  BY DEF DriverInv
<1> QED BY <1>1, DriverInvariant, PTL

\* No way out of execute forgets a CLI that signals could have stopped, at
\* whatever await its task is cancelled, its finally excepted.
THEOREM NoneOrphaned == Spec => []NoOrphan
<1>1. DriverInv => NoOrphan
  BY DEF DriverInv
<1> QED BY <1>1, DriverInvariant, PTL

\* No order of frames gets the prompt sent to a session that was not verified
\* or that last reported another mode.
THEOREM PromptIsAcknowledged == Spec => PromptNeedsAck
<1>1. DriverInv /\ [Next]_vars => [~prompted /\ prompted' => ack /\ mode = "want"]_vars
  <2> SUFFICES ASSUME DriverInv, Next, ~prompted, prompted'
               PROVE  ack /\ mode = "want"
    OBVIOUS
  <2>1. SendPrompt
    BY DEF Next, Execute, Cancel, Group, Waits, request,
       Refuse, Gates, SpawnFails, Spawn, Register, Check, HandshakeTimeout, ReadFault,
       ReadRaises, ReadOther, DevinAnswers, DevinRefuses, DevinReportsMode, DevinTurnEnds,
       InitFrame, AntigravityResult, HermesResult, StopEnds, ResultEnds, Resume,
       Closed, CancelUnknown, CancelNotifies, CancelTerminates, CancelAnswers, Ask,
       CancelTimesOut, Drop, Cut, CanCut, Shutdown, ShutdownEnds, DeadlinePasses,
       Finally, Yields, ForcedStop, Moves, Result
  <2> QED BY <2>1 DEF SendPrompt, DriverInv, SessionVerified
<1> QED BY <1>1, DriverInvariant, PTL DEF Spec, PromptNeedsAck

=============================================================================
