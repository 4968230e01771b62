------------------------------- MODULE Driver -------------------------------
(***************************************************************************)
(* One run in a CLI driver: execute, cancel and aclose of the devin,       *)
(* antigravity and hermes-api drivers, over a ProcessGroup.                *)
(*                                                                         *)
(* execute is an async generator: it is resumed by the Runner, and while   *)
(* it awaits or has yielded, the Runner may ask for a stop (the token of   *)
(* the context, then the driver's cancel), close the generator, cancel the *)
(* task that consumes it, or shut the driver down.  The CLI is external:   *)
(* it may send any frame at any time.                                      *)
(***************************************************************************)
EXTENDS ProcessGroup

VARIABLES
    kind,     \* which driver
    pc,       \* where execute is
    checked,  \* whether the loop has looked at the stop requests before it reads
    started,  \* run.started was yielded
    terminal, \* the terminal event yielded, "none" before
    goal,     \* the terminal event of a result record or of a forced stop
    active,   \* the run is in _active
    event,    \* cancel_event
    asked,    \* the context's cancellation token
    late,     \* the deadline has passed
    mode,     \* the mode the CLI last reported
    ack,      \* the session's model and terms were verified
    denied,   \* a permission was denied or a tool failed
    prompted, \* the prompt was sent
    cc,       \* the driver's cancel
    sd,       \* the driver's aclose
    cut,      \* the consumer task was cancelled: "no", at an await of its "run", or
              \* in the "cleanup" of its finally
    knew      \* ghost: a stop was requested when execute decided how it ends

request == <<started, terminal, goal, mode, ack, denied, prompted, knew>>
control == <<event, asked, late, cc, sd, cut>>
vars == <<group, kind, pc, checked, active, request, control>>

Handshake == {"initialize", "session", "setmode", "modeack", "init"}
Loops == Handshake \cup {"turn"}
Terminals == {"none", "succeeded", "partial", "failed", "cancelled"}

Init ==
    /\ GroupInit
    /\ kind \in {"devin", "antigravity", "hermes"}
    /\ pc = "gates" /\ checked = FALSE
    /\ started = FALSE /\ terminal = "none" /\ goal = "none"
    /\ active = FALSE /\ event = FALSE /\ asked = FALSE /\ late = FALSE
    /\ mode = "none" /\ ack = FALSE /\ denied = FALSE /\ prompted = FALSE
    /\ cc = "idle" /\ sd = "idle" /\ cut = "no" /\ knew = FALSE

-----------------------------------------------------------------------------
(* How execute ends.                                                       *)

Asked == asked \/ event

\* A terminal event is yielded; the CLI is left as it is.
Yields(t) == /\ terminal' = t
             /\ pc' = "ending"
             /\ checked' = FALSE
             /\ knew' = (Asked \/ late)
             /\ UNCHANGED <<group, active, started, goal, mode, ack, denied, prompted>>

\* mutant: the token is not looked at.
ForcedStopDeaf ==
    /\ goal' = IF event \/ late THEN "cancelled" ELSE "failed"
    /\ knew' = (Asked \/ late)
    /\ pc' = "stopping" /\ checked' = FALSE
    /\ Begin("run")
    /\ UNCHANGED <<leader, more, active, started, terminal, mode, ack, denied, prompted>>
\* forced_stop: the reason is sampled, then the transport is closed.
ForcedStop ==
    /\ goal' = IF Asked \/ late THEN "cancelled" ELSE "failed"
    /\ knew' = (Asked \/ late)
    /\ pc' = "stopping" /\ checked' = FALSE
    /\ Begin("run")
    /\ UNCHANGED <<leader, more, active, started, terminal, mode, ack, denied, prompted>>
\* Our own stop is a terminal event only when it is confirmed.
StopOutcome(confirmed) == IF goal = "cancelled" /\ confirmed = "no" THEN "none" ELSE goal
StopEnds ==
    /\ pc = "stopping" /\ Stopped("run")
    /\ terminal' = StopOutcome(stop["run"])
    /\ pc' = "ending"
    /\ Leave("run")
    /\ UNCHANGED <<leader, more, kind, checked, active, started, goal, mode, ack,
                   denied, prompted, knew, control>>

\* A result record (antigravity, hermes): the CLI is stopped before the
\* terminal event, whatever comes of it.
Result(t) ==
    /\ goal' = t
    /\ knew' = (Asked \/ late)
    /\ pc' = "finishing" /\ checked' = FALSE
    /\ Begin("run")
    /\ UNCHANGED <<leader, more, active, started, terminal, mode, ack, denied, prompted>>
ResultEnds ==
    /\ pc = "finishing" /\ Stopped("run")
    /\ terminal' = goal
    /\ pc' = "ending"
    /\ Leave("run")
    /\ UNCHANGED <<leader, more, kind, checked, active, started, goal, mode, ack,
                   denied, prompted, knew, control>>

\* The generator is resumed after its last event, or closed: the finally
\* forgets the run and closes the transport.
Finally == /\ active' = FALSE
           /\ pc' = "closing" /\ checked' = FALSE
           /\ Begin("run")
           /\ UNCHANGED <<leader, more, kind, request>>
Resume == pc = "ending" /\ Finally /\ UNCHANGED control
Closed ==
    /\ pc = "closing" /\ Stopped("run")
    /\ pc' = "over"
    /\ UNCHANGED <<group, kind, checked, active, request, control>>

-----------------------------------------------------------------------------
(* execute up to the first frame.                                          *)

\* Every refusal before the spawn yields run.failed and nothing else.
Refuse ==
    /\ pc = "gates"
    /\ terminal' = "failed" /\ pc' = "over" /\ knew' = Asked
    /\ UNCHANGED <<group, kind, checked, active, started, goal, mode, ack, denied, prompted,
                   control>>
\* The catalog gate is passed; devin and antigravity yield run.started.
Gates ==
    /\ pc = "gates"
    /\ started' = (kind # "hermes")
    /\ pc' = "spawn"
    /\ UNCHANGED <<group, kind, checked, active, terminal, goal, mode, ack, denied, prompted,
                   knew, control>>
SpawnFails ==
    /\ pc = "spawn"
    /\ terminal' = "failed" /\ pc' = "over" /\ knew' = Asked
    /\ UNCHANGED <<group, kind, checked, active, started, goal, mode, ack, denied, prompted,
                   control>>
\* The process exists before the coroutine that asked for it goes on.
Spawn ==
    /\ pc = "spawn"
    /\ leader' = "alive"
    /\ pc' = "spawned"
    /\ UNCHANGED <<more, stop, kind, checked, active, request, control>>
FirstPhase == CASE kind = "devin" -> "initialize"
                [] kind = "antigravity" -> "init"
                [] kind = "hermes" -> "turn"
Register ==
    /\ pc = "spawned"
    /\ active' = TRUE /\ started' = TRUE
    /\ pc' = FirstPhase
    /\ UNCHANGED <<group, kind, checked, terminal, goal, mode, ack, denied, prompted, knew,
                   control>>

-----------------------------------------------------------------------------
(* The read loops.                                                         *)

\* mutant: a token that is set while the CLI is silent is never looked at.
CheckDeadlineOnly ==
    /\ pc \in Loops /\ ~checked
    /\ IF late THEN ForcedStop
       ELSE checked' = TRUE /\ UNCHANGED <<group, pc, active, request>>
    /\ UNCHANGED <<kind, control>>
\* The top of a loop: a cancel or the deadline, else the next read.
Check ==
    /\ pc \in Loops /\ ~checked
    /\ IF Asked \/ late THEN ForcedStop
       ELSE checked' = TRUE /\ UNCHANGED <<group, pc, active, request>>
    /\ UNCHANGED <<kind, control>>
\* The handshake took too long; a missing mode acknowledgement fails at once.
HandshakeTimeout ==
    /\ pc \in Handshake /\ ~checked /\ ~Asked /\ ~late
    /\ IF pc = "modeack" THEN Yields("failed") ELSE ForcedStop
    /\ UNCHANGED <<kind, control>>

\* A read that ends the run: end of stream, a broken frame, a frame outside
\* the protocol, an error response, for devin a failed read or write.
ReadFault ==
    /\ pc \in Loops /\ checked
    /\ ForcedStop
    /\ UNCHANGED <<kind, control>>
\* antigravity and hermes let the OSError of a read go: no event is yielded.
ReadRaises ==
    /\ pc \in Loops /\ checked
    /\ kind # "devin"
    /\ Finally
    /\ UNCHANGED control
\* A permission is denied, or a tool reports an error; hermes takes no such
\* record before init.
StepFails == Readable /\ (kind = "hermes" => ack) /\ denied' = TRUE
\* Nothing came in time, or a frame that only becomes an event: a denied
\* permission and a failed tool are remembered.
ReadOther ==
    /\ pc \in Loops /\ checked
    /\ checked' = FALSE
    /\ \/ denied' = denied
       \/ StepFails
    /\ UNCHANGED <<group, kind, pc, active, started, terminal, goal, mode, ack,
                   prompted, knew, control>>

\* A frame moves the run on.
Moves(p, m, a) == /\ pc' = p /\ mode' = m /\ ack' = a
                  /\ checked' = FALSE
                  /\ UNCHANGED <<group, active, started, terminal, goal, denied,
                                 prompted, knew>>

\* devin: each response is checked and leads to the next request.  The result
\* of set_mode counts for nothing, only the reported mode does.
AfterMode(m) == IF m = "want" THEN "prompt" ELSE "modeack"
\* mutant: the result of set_mode is taken for the acknowledgement.
DevinAnswersTrusting ==
    /\ kind = "devin" /\ checked /\ Readable
    /\ \/ pc = "initialize" /\ Moves("session", mode, ack)
       \/ pc = "session" /\ \E m \in {"want", "other"} :
                               Moves(IF m = "want" THEN "prompt" ELSE "setmode", m, TRUE)
       \/ pc = "setmode" /\ Moves("prompt", mode, ack)
    /\ UNCHANGED <<kind, control>>
DevinAnswers ==
    /\ kind = "devin" /\ checked /\ Readable
    /\ \/ pc = "initialize" /\ Moves("session", mode, ack)
       \/ pc = "session" /\ \E m \in {"want", "other"} :
                               Moves(IF m = "want" THEN "prompt" ELSE "setmode", m, TRUE)
       \/ pc = "setmode" /\ Moves(AfterMode(mode), mode, ack)
    /\ UNCHANGED <<kind, control>>
\* A response that is not what was asked for fails without stopping the CLI,
\* and so does the acknowledgement of another mode.
DevinRefuses ==
    /\ kind = "devin" /\ checked /\ Readable
    /\ pc \in {"initialize", "session", "modeack"}
    /\ Yields("failed")
    /\ UNCHANGED <<kind, control>>
\* current_mode_update, config_option_update.
DevinReportsMode ==
    /\ kind = "devin" /\ checked /\ Readable
    /\ pc \in Loops
    /\ \E m \in {"want", "other"} :
          Moves(IF pc = "modeack" THEN AfterMode(m) ELSE pc, m, ack)
    /\ UNCHANGED <<kind, control>>
\* The stop reason of the turn.
DevinTurnEnds ==
    /\ kind = "devin" /\ checked /\ Readable
    /\ pc = "turn"
    /\ \/ Yields(IF denied THEN "partial" ELSE "succeeded")
       \/ \E t \in {"partial", "cancelled", "failed"} : Yields(t)
    /\ UNCHANGED <<kind, control>>

\* antigravity and hermes: the init record, then the result record.
InitFrame ==
    /\ checked /\ Readable
    /\ \/ kind = "antigravity" /\ pc = "init" /\ Moves("prompt", "want", TRUE)
       \/ kind = "hermes" /\ pc = "turn" /\ Moves("turn", "want", TRUE)
    /\ UNCHANGED <<kind, control>>
Completed == IF denied THEN "partial" ELSE "succeeded"
AntigravityResult ==
    /\ kind = "antigravity" /\ pc = "turn" /\ checked /\ Readable
    /\ ForcedStop \/ Result(Completed)
    /\ UNCHANGED <<kind, control>>
HermesResult ==
    /\ kind = "hermes" /\ pc = "turn" /\ ack /\ checked /\ Readable
    /\ IF late THEN ForcedStop
       ELSE Result(Completed) \/ Result("failed")
    /\ UNCHANGED <<kind, control>>

\* The prompt is written; whether a stop was requested is not looked at again.
SendPrompt ==
    /\ pc = "prompt"
    /\ \/ /\ prompted' = TRUE /\ pc' = "turn"
          /\ UNCHANGED <<group, checked, active, started, terminal, goal, mode, ack, denied, knew>>
       \/ ForcedStop
    /\ UNCHANGED <<kind, control>>

-----------------------------------------------------------------------------
(* The Runner: stop requests, and the ways it gives up on the generator.   *)

\* The token is set before the driver's cancel is called.
Ask ==
    /\ cc = "idle" /\ pc # "over"
    /\ asked' = TRUE /\ cc' = "asked"
    /\ UNCHANGED <<group, kind, pc, checked, active, request, event, late, sd, cut>>

\* cancel: a run that is not registered cannot be confirmed.
CancelUnknown ==
    /\ cc = "asked" /\ ~active
    /\ cc' = "no"
    /\ UNCHANGED <<group, kind, pc, checked, active, request, event, asked, late, sd, cut>>
\* devin notifies the session and gives the turn a moment.
CancelNotifies ==
    /\ cc = "asked" /\ active /\ kind = "devin" /\ ack
    /\ cc' = "grace"
    /\ UNCHANGED <<group, kind, pc, checked, active, request, event, asked, late, sd, cut>>
CancelTerminates ==
    /\ \/ cc = "asked" /\ active /\ ~(kind = "devin" /\ ack)
       \/ cc = "grace"
    /\ event' = TRUE /\ cc' = "stop"
    /\ Begin("cancel")
    /\ UNCHANGED <<leader, more, kind, pc, checked, active, request, asked, late, sd, cut>>
CancelAnswers ==
    /\ cc = "stop" /\ Stopped("cancel")
    /\ cc' = stop["cancel"]
    /\ UNCHANGED <<group, kind, pc, checked, active, request, event, asked, late, sd, cut>>
\* _bounded_driver_cancel gives up on it.
CancelTimesOut ==
    /\ cc \in {"asked", "grace", "stop"}
    /\ cc' = "no"
    /\ Leave("cancel")
    /\ UNCHANGED <<leader, more, kind, pc, checked, active, request, event, asked, late,
                   sd, cut>>

\* The generator is closed at a yield (client gone), or after a stop request
\* its consumer is cancelled at any await.  asyncio kills a process whose
\* spawn is interrupted; an interrupted finally is not taken up again.
Drop ==
    /\ pc \in Loops /\ ~checked
    /\ Finally
    /\ UNCHANGED control
CanCut ==
    /\ cut = "no" /\ cc \in Answers
    /\ pc \notin {"over", "ending"}
    /\ cut' = IF pc = "closing" THEN "cleanup" ELSE "run"
    /\ UNCHANGED <<event, asked, late, cc, sd>>
\* mutant: a cancelled generator ends without its finally.
CutAndReturn ==
    /\ CanCut
    /\ active' = FALSE
    /\ pc' = "over"
    /\ leader' = IF pc = "spawned" THEN "reaped" ELSE leader
    /\ Leave("run")
    /\ UNCHANGED <<more, kind, checked, request>>
Cut ==
    /\ CanCut
    /\ IF pc \in Loops \cup {"prompt", "stopping", "finishing"} THEN Finally
       ELSE /\ pc' = "over"
            /\ leader' = IF pc = "spawned" THEN "reaped" ELSE leader
            /\ Leave("run")
            /\ UNCHANGED <<more, kind, checked, active, request>>

\* Runner.cleanup: the token, then the driver's aclose, which stops what is
\* registered and forgets it.
Shutdown ==
    /\ sd = "idle" /\ pc # "over"
    /\ asked' = TRUE
    /\ IF active THEN Begin("shutdown") /\ sd' = "stop" ELSE stop' = stop /\ sd' = "done"
    /\ UNCHANGED <<leader, more, kind, pc, checked, active, request, event, late, cc, cut>>
ShutdownEnds ==
    /\ sd = "stop" /\ Stopped("shutdown")
    /\ active' = FALSE /\ sd' = "done"
    /\ UNCHANGED <<group, kind, pc, checked, request, event, asked, late, cc, cut>>

DeadlinePasses ==
    /\ ~late /\ leader # "none" /\ pc # "over"
    /\ late' = TRUE
    /\ UNCHANGED <<group, kind, pc, checked, active, request, event, asked, cc, sd, cut>>

Group == /\ LeaderExits \/ Reaped \/ PipeEnds
         /\ UNCHANGED <<kind, pc, checked, active, request, control>>
Waits == /\ WaitEnds
         /\ UNCHANGED <<kind, pc, checked, active, request, control>>
Execute ==
    \/ Refuse \/ Gates \/ SpawnFails \/ Spawn \/ Register
    \/ Check \/ HandshakeTimeout \/ ReadFault \/ ReadRaises \/ ReadOther
    \/ DevinAnswers \/ DevinRefuses \/ DevinReportsMode \/ DevinTurnEnds
    \/ InitFrame \/ AntigravityResult \/ HermesResult \/ SendPrompt
    \/ StopEnds \/ ResultEnds \/ Resume \/ Closed
Cancel == CancelUnknown \/ CancelNotifies \/ CancelTerminates \/ CancelAnswers
Next ==
    \/ Execute \/ Group \/ Waits \/ Cancel
    \/ Ask \/ CancelTimesOut \/ Drop \/ Cut \/ Shutdown \/ ShutdownEnds \/ DeadlinePasses

\* The coroutines go on, and every wait has a timeout.  Nothing is assumed of
\* the CLI.
Spec == Init /\ [][Next]_vars /\ WF_vars(Execute) /\ WF_vars(Waits) /\ WF_vars(Cancel)

-----------------------------------------------------------------------------
\* Types; a run is registered in _active exactly between its spawn and its
\* finally, so cancel and aclose never act on a run that is cleaning up.
TypeOK ==
    /\ pc \in Loops \cup {"gates", "spawn", "spawned", "prompt", "stopping", "finishing",
                          "ending", "closing", "over"}
    /\ leader \in {"none", "alive", "zombie", "reaped"}
    /\ cut \in {"no", "run", "cleanup"}
    /\ stop \in [Stoppers -> {"idle", "term", "kill", "last", "yes", "no"}]
    /\ {terminal, goal} \subseteq Terminals
    /\ cc \in Answers \cup {"idle", "asked", "grace", "stop"}
    /\ active => pc \notin {"gates", "spawn", "spawned", "closing", "over"}

\* A stop that is reported as confirmed, by the driver's cancel or by a
\* run.cancelled of our own making, is one after which the CLI, the leader of
\* its process group, is gone.  Its descendants may survive it.
ConfirmedMeansGone ==
    (cc = "yes" \/ (terminal = "cancelled" /\ goal = "cancelled")) => leader = "reaped"

\* The prompt is sent to a session whose model was verified and which last
\* reported the configured mode.
PromptNeedsAck == [][~prompted /\ prompted' => ack /\ mode = "want"]_vars

\* antigravity: "the reason we stopped is never relabelled as a provider
\* failure": a run that was asked to stop before it ended did not fail.
OwnStopNotAFault ==
    (kind = "antigravity" /\ leader # "none" /\ terminal = "failed") => ~knew

\* A CLI outlives its run only if signals could not stop it, or the Runner,
\* having asked for a stop, cancelled the task in the middle of its finally.  A
\* task cancelled anywhere else still cleans up.
NoOrphan == (pc = "over" /\ leader = "alive") => (stop["run"] = "no" \/ cut = "cleanup")

\* A run that is asked to stop, or whose deadline passes, ends: no frames and
\* no silence of the CLI can hold it.
StopEndsRun == (asked \/ late) ~> pc = "over"

-----------------------------------------------------------------------------
(* Claims of the repository that this model refutes; see the README.       *)

\* devin: "a later cancelled stop reason is not proof the process stopped -
\* only confirmed termination counts": a run that ends as cancelled has no
\* live CLI.
CancelledMeansGone == (pc = "over" /\ terminal = "cancelled") => leader # "alive"
\* hermes: our own stop is "never relabelled a provider fault".
HermesOwnStop ==
    (kind = "hermes" /\ leader # "none" /\ terminal = "failed") => ~knew

=============================================================================
