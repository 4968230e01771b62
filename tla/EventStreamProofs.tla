-------------------------- MODULE EventStreamProofs --------------------------
(***************************************************************************)
(* A stream shows exactly the stored answer, for a log and a page of any   *)
(* length, whenever events, the end and a disconnect arrive.               *)
(***************************************************************************)
EXTENDS EventStream, TLAPS

\* The cursor and the page: what is left of the page follows the cursor.
PageFollows ==
    /\ log \in Seq({"text", "other"})
    /\ last \in 0..Len(log)
    /\ page \in Seq(Nat)
    /\ last + Len(page) <= Len(log)
    /\ \A i \in 1..Len(page) : page[i] = last + i

\* What was shown is the text up to the cursor.
ShownToCursor ==
    /\ shown \in Seq(Nat)
    /\ \A i, j \in 1..Len(shown) : i < j => shown[i] < shown[j]
    /\ ToSet(shown) = Texts(last)

\* A row that has ended stores nothing more, and the stop chunk is of such a
\* row, sent with the cursor at its end.
StopAtEnd ==
    /\ row = "completed" => stage = "over"
    /\ final # "none" => pc = "done"
    /\ (mode = "stream" /\ final = "stop" /\ ~gone) => row = "completed" /\ last = Len(log)

\* The inductive invariant.
StreamInv == PageFollows /\ ShownToCursor /\ StopAtEnd

\* The set of a sequence, element by element.
LEMMA ToSetElements ==
    ASSUME NEW s \in Seq(Nat)
    PROVE  \A x : x \in ToSet(s) <=> \E i \in 1..Len(s) : x = s[i]
BY DEF ToSet

\* Events that are appended do not change the text up to the cursor.
LEMMA AppendKeeps ==
    ASSUME StreamInv, NEW kind \in {"text", "other"}, AppendKind(kind),
           UNCHANGED client
    PROVE  PageFollows' /\ ShownToCursor' /\ final' = final /\ last' = last
<1> USE DEF StreamInv, PageFollows, client, AppendKind
<1>1. /\ log' \in Seq({"text", "other"}) /\ Len(log') = Len(log) + 1
      /\ \A i \in 1..Len(log) : log'[i] = log[i]
  OBVIOUS
<1>2. Texts(last)' = Texts(last)
  BY <1>1 DEF Texts
<1> QED BY <1>1, <1>2 DEF ShownToCursor, ToSet

\* The page that list_events returns.
LEMMA PageListed ==
    ASSUME log \in Seq({"text", "other"}), last \in 0..Len(log), NEW limit \in Nat
    PROVE  LET p == ListEvents(last, limit)
           IN  /\ p \in Seq(Nat)
               /\ last + Len(p) <= Len(log)
               /\ \A i \in 1..Len(p) : p[i] = last + i
               /\ limit # 0 /\ p = << >> => last = Len(log)
<1> DEFINE n == IF Len(log) - last < limit THEN Len(log) - last ELSE limit
<1>1. n \in Nat /\ last + n <= Len(log) /\ (limit # 0 /\ n = 0 => last = Len(log))
  OBVIOUS
<1>2. ListEvents(last, limit) = [i \in 1..n |-> last + i]
  BY DEF ListEvents
<1> HIDE DEF n
<1>3. [i \in 1..n |-> last + i] \in Seq(Nat) /\ Len([i \in 1..n |-> last + i]) = n
  BY <1>1
<1> QED BY <1>1, <1>2, <1>3

\* Steps that read and show nothing leave the first two parts alone.
LEMMA NothingShown ==
    ASSUME PageFollows, ShownToCursor, UNCHANGED <<log, last, page, shown>>
    PROVE  PageFollows' /\ ShownToCursor'
BY DEF PageFollows, ShownToCursor, ToSet, Texts

\* Appending to a sequence adds one element to its set.
LEMMA ToSetAppend ==
    ASSUME NEW s \in Seq(Nat), NEW n \in Nat
    PROVE  ToSet(Append(s, n)) = ToSet(s) \cup {n}
<1> DEFINE t == Append(s, n)
<1>1. /\ t \in Seq(Nat) /\ Len(t) = Len(s) + 1 /\ Len(s) \in Nat
      /\ \A i \in 1..Len(s) : t[i] = s[i]
      /\ t[Len(s) + 1] = n
  OBVIOUS
<1> HIDE DEF t
<1>2. ASSUME NEW x \in ToSet(t) PROVE x \in ToSet(s) \cup {n}
  <2>1. PICK i \in 1..Len(t) : x = t[i]
    BY <1>1, ToSetElements
  <2>2. CASE i = Len(s) + 1
    BY <1>1, <2>1, <2>2
  <2>3. CASE i # Len(s) + 1
    <3>1. i \in 1..Len(s)
      BY <1>1, <2>3
    <3> QED BY <1>1, <2>1, <3>1, ToSetElements
  <2> QED BY <2>2, <2>3
<1>3. ASSUME NEW x \in ToSet(s) PROVE x \in ToSet(t)
  <2>1. PICK i \in 1..Len(s) : x = s[i]
    BY ToSetElements
  <2>2. i \in 1..Len(t) /\ x = t[i]
    BY <1>1, <2>1
  <2> QED BY <1>1, <2>2, ToSetElements
<1>4. n \in ToSet(t)
  <2>1. Len(s) + 1 \in 1..Len(t)
    BY <1>1
  <2> QED BY <1>1, <2>1, ToSetElements
<1> QED BY <1>2, <1>3, <1>4 DEF t

\* Storing, ending, reading, showing and closing all preserve the invariant.
LEMMA StreamInvStep == StreamInv /\ [Next]_vars => StreamInv'
<1> SUFFICES ASSUME StreamInv, [Next]_vars PROVE StreamInv'
  OBVIOUS
<1> USE DEF StreamInv, StopAtEnd, run, client
<1>1. CASE AppendEvent
  BY <1>1, AppendKeeps DEF AppendEvent, AppendKind
<1>2. CASE AppendOverBudget
  BY <1>2, AppendKeeps DEF AppendOverBudget, AppendKind
<1>3. CASE Finish \/ FinishBroken \/ CancelUnconfirmed
  <2>1. PageFollows' /\ ShownToCursor'
    BY <1>3, NothingShown DEF Finish, FinishBroken, CancelUnconfirmed
  <2> QED BY <1>3, <2>1 DEF Finish, FinishBroken, CancelUnconfirmed, Ended
<1>4. CASE Drain
  <2>1. PageFollows'
    BY <1>4, PageListed, PageAssumption DEF Drain, PageFollows
  <2>2. ShownToCursor'
    BY <1>4 DEF Drain, ShownToCursor, ToSet, Texts
  <2> QED BY <1>4, <2>1, <2>2 DEF Drain
<1>5. CASE Deliver
  <2>1. /\ page # << >> /\ last' = Head(page) /\ page' = Tail(page)
        /\ shown' = IF log[Head(page)] = "text" THEN Append(shown, Head(page)) ELSE shown
        /\ UNCHANGED <<log, row, terminal, stage, wakeup, mode, pc, final, gone, idle>>
        /\ pc = "deliver"
    BY <1>5 DEF Deliver
  <2>2. /\ last' = last + 1 /\ last' \in 1..Len(log) /\ Len(page) > 0
        /\ page' \in Seq(Nat) /\ Len(page') = Len(page) - 1
        /\ \A i \in 1..Len(page') : page'[i] = page[i + 1]
    BY <2>1 DEF PageFollows
  <2>3. PageFollows'
    <3>1. \A i \in 1..Len(page') : page'[i] = last' + i
      <4> SUFFICES ASSUME NEW i \in 1..Len(page') PROVE page'[i] = last' + i
        OBVIOUS
      <4>1. i + 1 \in 1..Len(page) /\ i \in Nat /\ last \in Nat
        BY <2>2 DEF PageFollows
      <4> QED BY <2>2, <4>1 DEF PageFollows
    <3>2. last' + Len(page') <= Len(log) /\ last' \in 0..Len(log) /\ log' = log
      BY <2>1, <2>2 DEF PageFollows
    <3> QED BY <2>2, <3>1, <3>2 DEF PageFollows
  <2>4. \A i \in 1..Len(shown) : shown[i] \in 1..last
    <3> SUFFICES ASSUME NEW i \in 1..Len(shown) PROVE shown[i] \in 1..last
      OBVIOUS
    <3>1. shown[i] \in ToSet(shown)
      BY ToSetElements DEF ShownToCursor
    <3>2. shown[i] \in Texts(last)
      BY <3>1 DEF ShownToCursor
    <3> QED BY <3>2 DEF Texts
  <2>5. ASSUME log[last + 1] = "text" PROVE ShownToCursor'
    <3>1. shown' = Append(shown, last + 1)
      BY <2>1, <2>2, <2>5
    <3>2. /\ shown' \in Seq(Nat) /\ Len(shown') = Len(shown) + 1
          /\ \A i \in 1..Len(shown) : shown'[i] = shown[i]
          /\ shown'[Len(shown) + 1] = last + 1
      BY <2>2, <3>1 DEF ShownToCursor, PageFollows
    <3>3. \A i, j \in 1..Len(shown') : i < j => shown'[i] < shown'[j]
      <4> SUFFICES ASSUME NEW i \in 1..Len(shown'), NEW j \in 1..Len(shown'), i < j
                   PROVE  shown'[i] < shown'[j]
        OBVIOUS
      <4>1. Len(shown) \in Nat /\ last \in Nat
        BY DEF ShownToCursor, PageFollows
      <4>2. j = Len(shown) + 1 \/ j \in 1..Len(shown)
        <5>1. Len(shown') = Len(shown) + 1
          BY <3>2
        <5> QED BY <4>1, <5>1
      <4>3. i \in 1..Len(shown) /\ shown'[i] = shown[i] /\ shown[i] \in 1..last
        BY <2>4, <3>2, <4>1
      <4>4. CASE j = Len(shown) + 1
        BY <3>2, <4>1, <4>3, <4>4
      <4>5. CASE j \in 1..Len(shown)
        BY <3>2, <4>1, <4>3, <4>5 DEF ShownToCursor
      <4> QED BY <4>2, <4>4, <4>5
    <3>4. ToSet(shown') = ToSet(shown) \cup {last + 1}
      <4>1. shown \in Seq(Nat) /\ last + 1 \in Nat
        BY DEF ShownToCursor, PageFollows
      <4> QED BY <3>1, <4>1, ToSetAppend
    <3>5. Texts(last)' = Texts(last) \cup {last + 1}
      <4>1. last \in Nat /\ last' = last + 1 /\ log' = log
        BY <2>1, <2>2 DEF PageFollows
      <4>2. ASSUME NEW x PROVE x \in Texts(last)' <=> x \in Texts(last) \cup {last + 1}
        BY <2>5, <4>1 DEF Texts
      <4> QED BY <4>2
    <3> QED BY <3>2, <3>3, <3>4, <3>5 DEF ShownToCursor
  <2>6. ASSUME log[last + 1] # "text" PROVE ShownToCursor'
    <3>1. Texts(last)' = Texts(last)
      <4>1. last \in Nat /\ last' = last + 1 /\ log' = log
        BY <2>1, <2>2 DEF PageFollows
      <4>2. ASSUME NEW x PROVE x \in Texts(last)' <=> x \in Texts(last)
        BY <2>6, <4>1 DEF Texts
      <4> QED BY <4>2
    <3>2. shown' = shown
      BY <2>1, <2>2, <2>6
    <3> QED BY <3>1, <3>2 DEF ShownToCursor
  <2> QED BY <2>1, <2>3, <2>5, <2>6
<1>6. CASE Recheck
  <2>1. UNCHANGED <<log, row, stage, mode, last, page, shown, gone>> /\ pc = "deliver"
    BY <1>6 DEF Recheck
  <2>2. PageFollows' /\ ShownToCursor'
    BY <2>1, NothingShown
  <2>3. CASE ListEvents(last, 1) = << >> /\ terminal # "none"
    <3>1. last = Len(log)
      BY <2>3, PageListed DEF PageFollows
    <3> QED BY <1>6, <2>1, <2>2, <2>3, <3>1 DEF Recheck, Close
  <2>4. CASE ~(ListEvents(last, 1) = << >> /\ terminal # "none")
    BY <1>6, <2>1, <2>2, <2>4 DEF Recheck
  <2> QED BY <2>3, <2>4
<1>7. CASE AskConnected \/ Woken \/ Keepalive \/ Disconnect
  <2>1. PageFollows' /\ ShownToCursor'
    BY <1>7, NothingShown DEF AskConnected, Woken, Keepalive, Disconnect
  <2> QED BY <1>7, <2>1 DEF AskConnected, Woken, Keepalive, Disconnect, Close
<1>8. CASE Plain \/ Cached
  <2>1. PageFollows' /\ ShownToCursor'
    BY <1>8, NothingShown DEF Plain, Cached
  <2> QED BY <1>8, <2>1 DEF Plain, Cached, Close
<1>9. CASE UNCHANGED vars
  BY <1>9, NothingShown DEF vars
<1> QED BY <1>1, <1>2, <1>3, <1>4, <1>5, <1>6, <1>7, <1>8, <1>9 DEF Next, Answer

\* The invariant holds before anything is stored.
LEMMA StreamInit == Init => StreamInv
<1> SUFFICES ASSUME Init PROVE StreamInv
  OBVIOUS
<1>1. PageFollows /\ StopAtEnd
  <2>1. log = << >> /\ page = << >> /\ last = 0
    BY DEF Init
  <2>2. PageFollows
    BY <2>1 DEF PageFollows
  <2> QED BY <2>2 DEF Init, StopAtEnd
<1>2. shown = << >> /\ last = 0
  BY DEF Init
<1>3. ToSet(shown) = {} /\ Texts(last) = {}
  <2>1. shown \in Seq(Nat) /\ 1..Len(shown) = {} /\ 1..last = {}
    BY <1>2
  <2>2. \A x : x \notin ToSet(shown)
    BY <2>1, ToSetElements
  <2>3. \A x : x \notin Texts(last)
    BY <2>1 DEF Texts
  <2> QED BY <2>2, <2>3
<1> QED BY <1>1, <1>2, <1>3 DEF StreamInv, ShownToCursor

\* However the end of a run races its last events and the pages that are read,
\* a stream shows the answer in order and without gaps, and a stop chunk means
\* all of it.
THEOREM StreamShowsAnswer == Spec => []ShownIsAnswer
<1>1. StreamInv => ShownIsAnswer
  BY DEF StreamInv, PageFollows, ShownToCursor, StopAtEnd, ShownIsAnswer
<1> QED BY <1>1, StreamInit, StreamInvStep, PTL DEF Spec

\* However appends, the end, a cancel and the generator's steps interleave, it
\* never waits with something unsent that nobody will wake it for.
THEOREM NoLostWakeup == Spec => []WakeupKept
<1>1. Init => StreamInv /\ WakeupKept
  BY StreamInit DEF Init, WakeupKept
<1>2. StreamInv /\ WakeupKept /\ [Next]_vars => WakeupKept'
  <2> SUFFICES ASSUME StreamInv, WakeupKept, [Next]_vars PROVE WakeupKept'
    OBVIOUS
  <2> USE DEF WakeupKept, run, client
  <2>1. CASE AppendEvent
    BY <2>1 DEF AppendEvent
  <2>2. CASE AppendOverBudget
    BY <2>2 DEF AppendOverBudget, AppendKind
  <2>3. CASE Finish \/ FinishBroken \/ CancelUnconfirmed
    BY <2>3 DEF Finish, FinishBroken, CancelUnconfirmed
  <2>4. CASE Drain \/ Deliver
    BY <2>4 DEF Drain, Deliver
  <2>5. CASE Recheck
    <3>1. CASE ListEvents(last, 1) = << >> /\ terminal = "none"
      <4>1. last = Len(log)
        BY <3>1, PageListed DEF StreamInv, PageFollows
      <4> QED BY <2>5, <3>1, <4>1 DEF Recheck
    <3>2. CASE ~(ListEvents(last, 1) = << >> /\ terminal = "none")
      BY <2>5, <3>2 DEF Recheck, Close
    <3> QED BY <3>1, <3>2
  <2>6. CASE AskConnected \/ Woken \/ Keepalive \/ Disconnect
    BY <2>6 DEF AskConnected, Woken, Keepalive, Disconnect, Close
  <2>7. CASE Plain \/ Cached
    BY <2>7 DEF Plain, Cached, Close
  <2>8. CASE UNCHANGED vars
    BY <2>8 DEF vars
  <2> QED BY <2>1, <2>2, <2>3, <2>4, <2>5, <2>6, <2>7, <2>8 DEF Next, Answer
<1> QED BY <1>1, <1>2, StreamInvStep, PTL DEF Spec

=============================================================================
