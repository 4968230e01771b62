---------------------------- MODULE EventStream ----------------------------
(***************************************************************************)
(* Delivery of a run's events to the client that submitted it (chat.py,    *)
(* sse.py) and the side of the RunController that stores them and raises   *)
(* active.wakeup.                                                          *)
(*                                                                         *)
(* The API is one event loop: everything between two awaits or yields is   *)
(* one step.  Events are numbered by their sequence; log[i] says whether   *)
(* event i carries answer text.                                            *)
(***************************************************************************)
EXTENDS Integers, Sequences, SequencesExt

CONSTANTS
    MaxEvents,  \* bound: events of the run
    Page,       \* _EVENT_PAGE
    MaxIdle     \* bound: keepalives sent

ASSUME PageAssumption == MaxEvents \in Nat /\ Page \in Nat \ {0} /\ MaxIdle \in Nat

VARIABLES
    log,      \* the stored events: "text" or "other"
    row,      \* the status of the attempt row
    terminal, \* active.terminal_status, "none" while the run is open
    stage,    \* the run task: "streaming" the Runner's events, "breaking" off
              \* the session, or "over"
    wakeup,   \* active.wakeup
    mode,     \* how the client asked: "stream", "plain" or "cached"
    pc,       \* where the response generator is
    last,     \* last_sequence
    page,     \* the records of the page not looked at yet
    shown,    \* sequences of the text chunks sent
    final,    \* the closing chunk or answer
    gone,     \* whether the client has disconnected
    idle      \* keepalives left

run == <<log, row, terminal, stage, wakeup>>
client == <<mode, pc, last, page, shown, final, gone, idle>>
vars == <<run, client>>

Ended == {"completed", "failed", "cancelled"}

Init ==
    /\ mode \in {"stream", "plain", "cached"}
    /\ log = << >>
    /\ IF mode = "cached" THEN row = "completed" ELSE row = "running"
    /\ terminal = IF mode = "cached" THEN "completed" ELSE "none"
    /\ stage = IF mode = "cached" THEN "over" ELSE "streaming"
    /\ wakeup = FALSE
    /\ pc = "start" /\ last = 0 /\ page = << >> /\ shown = << >>
    /\ final = "none" /\ gone = FALSE /\ idle = MaxIdle

-----------------------------------------------------------------------------
(* The run task (controller.py) and a cancel handler.                      *)

AppendKind(kind) ==
    /\ stage = "streaming"
    /\ Len(log) < MaxEvents
    /\ log' = Append(log, kind)

\* mutant: the subscriber is woken by the end of the run only.
AppendSilently ==
    /\ \E kind \in {"text", "other"} : AppendKind(kind)
    /\ UNCHANGED <<row, terminal, stage, wakeup, client>>
\* _stream: the event is durable first, then the subscriber is woken.
AppendEvent ==
    /\ \E kind \in {"text", "other"} : AppendKind(kind)
    /\ wakeup' = TRUE
    /\ UNCHANGED <<row, terminal, stage, client>>

\* _stream: the event that breaks the output budget is stored and nobody is
\* woken.  The session is closed, which is awaited, and then the run becomes
\* unknown.
AppendOverBudget ==
    /\ AppendKind("text")
    /\ stage' = "breaking"
    /\ UNCHANGED <<row, terminal, wakeup, client>>

FinishBroken ==
    /\ stage = "breaking"
    /\ row' = "unknown" /\ terminal' = "unknown"
    /\ stage' = "over"
    /\ wakeup' = TRUE
    /\ UNCHANGED <<log, client>>

\* mutant: nobody is woken at the end.
FinishSilently ==
    /\ stage = "streaming"
    /\ \E s \in Ended \cup {"unknown"} : row' = s /\ terminal' = s
    /\ stage' = "over"
    /\ UNCHANGED <<log, wakeup, client>>
\* _finish, then the end of _execute.
Finish ==
    /\ stage = "streaming"
    /\ \E s \in Ended \cup {"unknown"} : row' = s /\ terminal' = s
    /\ stage' = "over"
    /\ wakeup' = TRUE
    /\ UNCHANGED <<log, client>>

\* cancel: an unconfirmed cancel finishes the row as unknown while the run
\* task goes on; its own terminal may still arrive.
CancelUnconfirmed ==
    /\ stage # "over"
    /\ terminal = "none"
    /\ row' = "unknown" /\ terminal' = "unknown"
    /\ wakeup' = TRUE
    /\ UNCHANGED <<log, stage, client>>

-----------------------------------------------------------------------------
(* stream_chat (sse.py).                                                   *)

\* list_events: at most limit records after a sequence, in order.
ListEvents(after, limit) ==
    [i \in 1..(IF Len(log) - after < limit THEN Len(log) - after ELSE limit) |-> after + i]

\* The flag is cleared before the page is read.
Drain ==
    /\ mode = "stream"
    /\ pc \in {"start", "drain"}
    /\ wakeup' = FALSE
    /\ page' = ListEvents(last, Page)
    /\ pc' = "deliver"
    /\ UNCHANGED <<log, row, terminal, stage, mode, last, shown, final, gone, idle>>

\* One record; only answer text is yielded.
Deliver ==
    /\ pc = "deliver"
    /\ page # << >>
    /\ last' = Head(page)
    /\ shown' = IF log[Head(page)] = "text" THEN Append(shown, Head(page)) ELSE shown
    /\ page' = Tail(page)
    /\ UNCHANGED <<run, mode, pc, final, gone, idle>>

\* The row as it is now: a stop chunk, or an error chunk.
Close == /\ final' = IF row = "completed" THEN "stop" ELSE "error"
         /\ pc' = "done"

\* mutant: the terminal status ends the stream whatever is left to read.
RecheckTerminalOnly ==
    /\ pc = "deliver"
    /\ page = << >>
    /\ IF terminal # "none" THEN Close
       ELSE /\ pc' = IF ListEvents(last, 1) # << >> THEN "drain" ELSE "ask"
            /\ final' = final
    /\ UNCHANGED <<run, mode, last, page, shown, gone, idle>>
\* After the page, with no await between them: the backlog, the terminal
\* status, the closing chunk.
Recheck ==
    /\ pc = "deliver"
    /\ page = << >>
    /\ IF ListEvents(last, 1) = << >> /\ terminal # "none" THEN Close
       ELSE /\ pc' = IF ListEvents(last, 1) # << >> THEN "drain" ELSE "ask"
            /\ final' = final
    /\ UNCHANGED <<run, mode, last, page, shown, gone, idle>>
\* mutant: the flag is cleared when the generator goes to wait.
AskConnectedClearing ==
    /\ pc = "ask"
    /\ IF gone THEN Close /\ wakeup' = wakeup
       ELSE pc' = "wait" /\ final' = final /\ wakeup' = FALSE
    /\ UNCHANGED <<log, row, terminal, stage, mode, last, page, shown, gone, idle>>
\* is_disconnected is awaited.
AskConnected ==
    /\ pc = "ask"
    /\ IF gone THEN Close ELSE pc' = "wait" /\ final' = final
    /\ UNCHANGED <<run, mode, last, page, shown, gone, idle>>
Woken ==
    /\ pc = "wait"
    /\ wakeup
    /\ pc' = "drain"
    /\ UNCHANGED <<run, mode, last, page, shown, final, gone, idle>>
Keepalive ==
    /\ pc = "wait"
    /\ idle > 0
    /\ idle' = idle - 1
    /\ pc' = "drain"
    /\ UNCHANGED <<run, mode, last, page, shown, final, gone>>

-----------------------------------------------------------------------------
(* The other answers (chat.py).                                            *)

\* Without stream the handler awaits the run task and reads the row.
Plain ==
    /\ mode = "plain"
    /\ pc = "start"
    /\ stage = "over"
    /\ Close
    /\ UNCHANGED <<run, mode, last, page, shown, gone, idle>>

\* stream_cached: the stored summary of a completed run.
Cached ==
    /\ mode = "cached"
    /\ pc = "start"
    /\ final' = "stop"
    /\ pc' = "done"
    /\ UNCHANGED <<run, mode, last, page, shown, gone, idle>>

Disconnect ==
    /\ mode = "stream"
    /\ ~gone
    /\ gone' = TRUE
    /\ UNCHANGED <<run, mode, pc, last, page, shown, final, idle>>

Answer == Drain \/ Deliver \/ Recheck \/ AskConnected \/ Woken
          \/ Plain \/ Cached
Next ==
    \/ AppendEvent \/ AppendOverBudget \/ FinishBroken \/ Finish \/ CancelUnconfirmed
    \/ Answer \/ Keepalive \/ Disconnect

\* The generator is resumed whenever it can be and session.aclose returns.
\* Neither keepalives nor the end of the run are counted on: a run may be silent
\* for as long as its budget.
Spec == Init /\ [][Next]_vars /\ WF_vars(Answer) /\ WF_vars(FinishBroken)

-----------------------------------------------------------------------------
\* Types; a page and the cursor only ever name events that are stored.
TypeOK ==
    /\ log \in Seq({"text", "other"}) /\ Len(log) <= MaxEvents
    /\ row \in Ended \cup {"running", "unknown"}
    /\ terminal \in Ended \cup {"none", "unknown"}
    /\ last \in 0..Len(log) /\ page \in Seq(1..Len(log))
    /\ final \in {"none", "stop", "error"}
    /\ stage \in {"streaming", "breaking", "over"}

Texts(n) == {i \in 1..n : log[i] = "text"}

\* A stream shows the stored answer text in order, without gaps or repeats, and
\* one that ends with a stop chunk has shown all of it: no event stored before
\* the terminal is lost between a page and the end.
ShownIsAnswer ==
    /\ \A i, j \in 1..Len(shown) : i < j => shown[i] < shown[j]
    /\ \E n \in 0..Len(log) : ToSet(shown) = Texts(n)
    /\ (mode = "stream" /\ final = "stop" /\ ~gone) => ToSet(shown) = Texts(Len(log))

\* A generator that goes to wait and would not be woken has nothing to tell: the
\* run is open and every event it stored is sent, but for the one that broke a
\* budget, which the end of the run brings.
WakeupKept ==
    (mode = "stream" /\ pc \in {"ask", "wait"} /\ ~wakeup)
        => terminal = "none" /\ (last = Len(log) \/ stage = "breaking")

\* What is stored while a response is open reaches it as long as its client is
\* there, though no keepalive comes and the run never ends: no wakeup is lost
\* between the page, the backlog, the terminal status and the wait.
EventsArrive ==
    \A n \in 1..MaxEvents :
        (mode = "stream" /\ pc # "done" /\ Len(log) >= n) ~> (last >= n \/ gone)

\* Every response ends once the run task does, whose outer budget is finite.
ResponseEnds == WF_vars(Finish) => <>(pc = "done")

=============================================================================
