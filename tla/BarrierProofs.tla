--------------------------- MODULE BarrierProofs ---------------------------
(***************************************************************************)
(* Proofs about Barrier, for every number of bars, every division of them   *)
(* into sessions, and any number of failures and restarts: its type         *)
(* invariant; that no bar is left out; that the 60m bars never run ahead of *)
(* the clock; and that nothing beyond a clock in memory is shown.           *)
(***************************************************************************)
EXTENDS Barrier, NumberLemmas

-----------------------------------------------------------------------------
(* The bars and their sessions *)

LEMMA BarCount == B \in Nat \ {0} /\ 0 \in 0..B
  BY BarrierAssumption

LEMMA SessionOf ==
  ASSUME NEW b \in Bars
  PROVE  Session[b] \in Sessions /\ Session[b] \in Nat \ {0}
  BY BarrierAssumption DEF Sessions

\* The last bar until a date, which is 0 when all bars are later.
LEMMA LastBar ==
  ASSUME NEW s \in Int
  PROVE  /\ LastBarUntil(s) \in 0..B
         /\ LastBarUntil(s) # 0 => Session[LastBarUntil(s)] <= s
         /\ \A b \in Bars : Session[b] <= s => b <= LastBarUntil(s)
  <1> DEFINE T == {b \in Bars : Session[b] <= s} \cup {0}
  <1>1. B \in Nat /\ T \in SUBSET (0..B) /\ T # {} /\ LastBarUntil(s) = Max(T)
    BY BarrierAssumption DEF LastBarUntil, Bars
  <1>2. Max(T) \in T /\ \A b \in T : b <= Max(T)
    <2> HIDE DEF T
    <2> QED BY <1>1, MaxIsGreatest
  <1> QED BY <1>1, <1>2

\* The first bar of a session.
LEMMA FirstBar ==
  ASSUME NEW s \in Sessions
  PROVE  /\ SessionBegins(s) \in Bars /\ Session[SessionBegins(s)] = s
         /\ \A b \in Bars : Session[b] = s => SessionBegins(s) <= b
  <1> DEFINE T == {b \in Bars : Session[b] = s}
  <1>1. T \in SUBSET Nat /\ T # {} /\ SessionBegins(s) = Min(T)
    BY DEF SessionBegins, Sessions, Bars
  <1>2. Min(T) \in T /\ \A b \in T : Min(T) <= b
    <2> HIDE DEF T
    <2> QED BY <1>1, MinIsLeast
  <1> QED BY <1>1, <1>2

\* How far the clock has come.
LEMMA Furthest ==
  ASSUME NEW b \in 0..B, NEW c \in 0..B
  PROVE  Max({b, c}) \in {b, c} /\ b <= Max({b, c}) /\ c <= Max({b, c})
  <1>1. B \in Nat /\ {b, c} \in SUBSET (0..B) /\ {b, c} # {}
    BY BarrierAssumption
  <1> QED BY <1>1, MaxIsGreatest

\* A new clock is put at a bar.
LEMMA StartBarIsBar == ASSUME BarrierTypeOK PROVE StartBar \in Bars
  <1>1. CASE asOfTs # 0
    BY <1>1 DEF BarrierTypeOK, StartBar, Bars
  <1>2. CASE asOfTs = 0 /\ asOfDate # 0
    BY <1>2, FirstBar DEF BarrierTypeOK, StartBar
  <1>3. CASE asOfTs = 0 /\ asOfDate = 0
    BY <1>3, BarrierAssumption DEF StartBar, Bars
  <1> QED BY <1>1, <1>2, <1>3

-----------------------------------------------------------------------------
(* The type invariant *)

\* A call works on a loaded clock, and the bar it began at is known for as long
\* as it may be needed.
CallInv ==
    /\ call # "none" => loaded
    /\ window # 0 \/ call \in {"tickrow", "match"} => prev # 0

LEMMA NoReaderType == NoReader \in Readers
  BY BarCount DEF NoReader, Readers, Requests

LEMMA ReaderDate == ASSUME reader \in Readers PROVE reader.date \in Nat
  BY DEF Readers

LEMMA ReaderDates == ASSUME reader \in Readers PROVE reader.date \in Int /\ DailyAsOf \in Int
  BY ReaderDate DEF DailyAsOf

LEMMA InitTypes == BarrierInit => BarrierTypeOK /\ CallInv
  <1>1. ASSUME BarrierInit PROVE BarrierTypeOK
    BY <1>1, BarCount, NoReaderType DEF BarrierInit, BarrierTypeOK
  <1>2. BarrierInit => CallInv
    BY DEF BarrierInit, CallInv
  <1> QED BY <1>1, <1>2

LEMMA StepTypes ==
  ASSUME BarrierTypeOK, CallInv, [BarrierNext]_barrierVars
  PROVE  BarrierTypeOK' /\ CallInv'
  <1> USE BarCount DEF BarrierTypeOK, CallInv, memoryVars, callVars, tableVars, readVars, countVars
  <1>1. CASE Start
    <2>1. StartBar \in 0..B /\ StartBar # 0 /\ Max({frontier, StartBar}) \in 0..B
      BY StartBarIsBar, Furthest DEF Bars
    <2>2. cur' \in 0..B /\ (loaded' => cur' # 0) /\ frontier' \in 0..B /\ loaded'
      BY <1>1, <2>1 DEF Start, Reached
    <2>3. BarrierTypeOK'
      BY <1>1, <2>2 DEF Start
    <2> QED BY <1>1, <2>2, <2>3 DEF Start
  <1>2. CASE Pause
    BY <1>2, SessionOf DEF Pause, Fails, Bars
  <1>3. CASE TickOpen
    <2>1. cur' \in 0..B /\ cur' # 0 /\ cur # 0
      BY <1>3 DEF TickOpen, ShouldAdvance
    <2>2. frontier' \in 0..B
      BY <1>3, <2>1, Furthest DEF TickOpen, Reached
    <2> QED BY <1>3, <2>1, <2>2 DEF TickOpen
  <1>16. CASE TickUnheard
    <2>1. cur' \in 0..B /\ cur' # 0
      BY <1>16 DEF TickUnheard
    <2>2. frontier' \in 0..B
      BY <1>16, <2>1, Furthest DEF TickUnheard, Reached
    <2>3. status' \in {"running", "completed"}
      BY <1>16 DEF TickUnheard
    <2> QED BY <1>16, <2>1, <2>2, <2>3 DEF TickUnheard
  <1>4. CASE TickLastBar
    BY <1>4 DEF TickLastBar
  <1>5. CASE TickUnload
    <2>1. Session[cur] \in Sessions
      BY <1>5, SessionOf DEF TickUnload, Bars
    <2> QED BY <1>5, <2>1 DEF TickUnload, Fails
  <1>6. CASE WriteRow
    BY <1>6, SessionOf DEF WriteRow, Bars
  <1>7. CASE WriteRowFails
    BY <1>7 DEF WriteRowFails, Fails
  <1>8. CASE WriteTs
    BY <1>8 DEF WriteTs, Fails
  <1>9. CASE CloseWindow
    BY <1>9 DEF CloseWindow
  <1>10. CASE Match
    BY <1>10 DEF Match, Bars
  <1>11. CASE MatchFails
    BY <1>11 DEF MatchFails, Fails
  <1>12. CASE WriteMatched
    BY <1>12 DEF WriteMatched, Fails
  <1>13. CASE Restart
    <2>1. StartBar \in 0..B /\ StartBar # 0 /\ Max({frontier, StartBar}) \in 0..B
      BY StartBarIsBar, Furthest DEF Bars
    <2> QED BY <1>13, <2>1, BarrierAssumption DEF Restart, Reached, NoReader, Readers
  <1>14. CASE ReadSteps
    <2> SUFFICES ASSUME ReadSteps PROVE BarrierTypeOK' /\ CallInv'
      BY <1>14
    <2>1. UNCHANGED <<memoryVars, callVars, tableVars, processed, frontier, undone>>
      BY DEF ReadSteps, Ask, ReadClock, ReadRow, Look, ReadConfig, Answer, Reads
    <2>2. reader' \in Readers /\ shown' \in 0..B
      <3>1. CASE \E kind \in Requests : Ask(kind)
        <4>1. PICK kind \in Requests : reader' = [NoReader EXCEPT !.at = "clock", !.asks = kind]
          BY <3>1 DEF Ask, Reads
        <4>2. shown' = 0 /\ 0 \in 0..B
          BY <3>1 DEF Ask
        <4> QED BY ONLY <4>1, <4>2, NoReaderType DEF Readers
      <3>2. CASE ReadClock
        <4>1. loaded => cur \in Bars /\ Session[cur] \in Nat
          BY SessionOf DEF Bars
        <4>2. CASE loaded /\ status # "completed"
          <5>1. /\ reader' = [reader EXCEPT !.at = "look", !.live = TRUE, !.bar = cur,
                                            !.date = Session[cur]]
                /\ shown' = shown
            BY <3>2, <4>2 DEF ReadClock, Reads
          <5>2. reader \in Readers /\ cur \in 0..B /\ Session[cur] \in Nat /\ shown \in 0..B
            BY <4>1, <4>2
          <5> QED BY ONLY <5>1, <5>2 DEF Readers
        <4>3. CASE ~(loaded /\ status # "completed")
          <5>1. reader' = [reader EXCEPT !.at = "row"] /\ shown' = shown
            BY <3>2, <4>3 DEF ReadClock, Reads
          <5>2. reader \in Readers /\ shown \in 0..B
            OBVIOUS
          <5> QED BY ONLY <5>1, <5>2 DEF Readers
        <4> QED BY <4>2, <4>3
      <3>3. CASE ReadRow
        <4>1. asOfDate # 0 => asOfDate \in Nat /\ LastBarUntil(asOfDate - 1) \in 0..B
          BY LastBar, BarrierAssumption DEF Sessions
        <4>2. reader' = NoReader \/ /\ asOfDate # 0
                                    /\ reader' = [reader EXCEPT !.at = "look", !.date = asOfDate,
                                                            !.bar = LastBarUntil(asOfDate - 1)]
          BY <3>3 DEF ReadRow, Reads
        <4>3. shown' = shown /\ shown \in 0..B /\ reader \in Readers
          BY <3>3 DEF ReadRow
        <4> QED BY ONLY <4>1, <4>2, <4>3, NoReaderType DEF Readers
      <3>4. CASE Look
        BY <3>4 DEF Look, Reads, Readers, LastOfSession
      <3>5. CASE ReadConfig
        <4>1. PICK h \in BOOLEAN, u \in BOOLEAN :
                reader' = [reader EXCEPT !.at = "answer", !.hourly = h, !.unread = u]
          <5>1. CASE reader' = [reader EXCEPT !.at = "answer", !.unread = TRUE]
            <6>1. reader' = [reader EXCEPT !.at = "answer", !.hourly = reader.hourly,
                                           !.unread = TRUE]
              BY <5>1 DEF Readers
            <6>2. reader.hourly \in BOOLEAN
              BY DEF Readers
            <6> QED BY ONLY <6>1, <6>2
          <5>2. CASE reader' = [reader EXCEPT !.at = "answer",
                                  !.hourly = @ \/ reader.asks \in {"quote", "candles"}]
            <6> DEFINE h == reader.hourly \/ reader.asks \in {"quote", "candles"}
            <6>1. reader' = [reader EXCEPT !.at = "answer", !.hourly = h,
                                           !.unread = reader.unread]
              BY <5>2 DEF Readers
            <6>2. h \in BOOLEAN /\ reader.unread \in BOOLEAN
              BY DEF Readers
            <6> HIDE DEF h
            <6> QED BY ONLY <6>1, <6>2
          <5> QED BY <3>5, <5>1, <5>2 DEF ReadConfig, Reads
        <4>2. shown' = shown /\ shown \in 0..B /\ reader \in Readers
          BY <3>5 DEF ReadConfig
        <4> QED BY ONLY <4>1, <4>2 DEF Readers
      <3>6. CASE Answer
        <4>2. LastBarUntil(reader.date) \in 0..B /\ LastBarUntil(DailyAsOf) \in 0..B
          BY ReaderDates, LastBar
        <4>3. Told \in 0..B
          BY <4>2 DEF Told, Readers
        <4> QED BY <3>6, <4>3 DEF Answer, Reads, Readers
      <3> QED BY <3>1, <3>2, <3>3, <3>4, <3>5, <3>6 DEF ReadSteps
    <2> QED BY <2>1, <2>2
  <1>15. CASE UNCHANGED barrierVars
    BY <1>15 DEF barrierVars
  <1> QED BY <1>1, <1>2, <1>3, <1>4, <1>5, <1>6, <1>7, <1>8, <1>9, <1>10, <1>11, <1>12,
             <1>13, <1>14, <1>15, <1>16 DEF BarrierNext, ClockSteps

\* Whatever fails and whenever the server restarts, a loaded clock and a match are at
\* a bar, and the row names a session (Registry, NewSimClockAt).
THEOREM BarrierTypeCorrect == BarrierSpec => []BarrierTypeOK
  <1>1. BarrierSpec => [](BarrierTypeOK /\ CallInv)
    BY InitTypes, StepTypes, PTL DEF BarrierSpec
  <1> QED BY <1>1, PTL

-----------------------------------------------------------------------------
(* No bar is left out *)

Before(b) == 1..(b - 1) \subseteq processed

\* Each thing that a clock may be put at, or taken back to, has all bars before it
\* matched: the bar at which the call began, and the first bar of the session of the
\* row, where a clock without as_of_ts begins.
RecordsInv ==
    /\ loaded => Before(cur)
    /\ Before(prev) /\ Before(window) /\ Before(closing) /\ Before(asOfTs)
    /\ 1..matched \subseteq processed /\ 1..lastTs \subseteq processed
    /\ asOfDate # 0 => Before(SessionBegins(asOfDate))

LEMMA BeforeEarlier ==
  ASSUME NEW b \in Int, NEW c \in Int, b <= c, Before(c)
  PROVE  Before(b)
  BY DEF Before

LEMMA NothingBefore == Before(0) /\ Before(1)
  BY DEF Before

LEMMA StartBarRecorded == ASSUME BarrierTypeOK, RecordsInv PROVE Before(StartBar)
  BY NothingBefore DEF BarrierTypeOK, RecordsInv, StartBar

\* The session of a bar begins no later than the bar.
LEMMA SessionRecorded ==
  ASSUME NEW b \in Bars, Before(b)
  PROVE  Session[b] # 0 /\ Before(SessionBegins(Session[b]))
  <1>1. Session[b] \in Sessions /\ Session[b] # 0
    BY SessionOf
  <1>2. SessionBegins(Session[b]) \in Bars /\ SessionBegins(Session[b]) <= b
    BY <1>1, FirstBar
  <1> QED BY <1>1, <1>2, BeforeEarlier DEF Bars

LEMMA InitRecords == BarrierInit => RecordsInv
  BY NothingBefore DEF BarrierInit, RecordsInv, Before

LEMMA StepRecords ==
  ASSUME BarrierTypeOK, CallInv, RecordsInv, [BarrierNext]_barrierVars
  PROVE  RecordsInv'
  <1> USE BarCount DEF RecordsInv, memoryVars, callVars, tableVars, readVars, countVars
  <1>a. loaded => cur \in Bars
    BY DEF BarrierTypeOK, Bars
  <1>b. call # "none" => loaded
    BY DEF CallInv
  <1>1. CASE Start
    BY <1>1, StartBarRecorded DEF Start, Before
  <1>2. CASE Pause
    BY <1>2, <1>a, SessionRecorded, NothingBefore DEF Pause, Before
  <1>3. CASE TickOpen
    <2>1. Before(cur + 1) \/ ~ShouldAdvance
      BY <1>3, <1>a DEF Before, ShouldAdvance, BarrierTypeOK, Bars
    <2>2. Before(cur) /\ (cur' = cur \/ (cur' = cur + 1 /\ ShouldAdvance))
      BY <1>3 DEF TickOpen
    <2> QED BY <1>3, <2>1, <2>2 DEF TickOpen, Before
  <1>16. CASE TickUnheard
    <2>1. Before(cur) /\ (ShouldAdvance => Before(cur + 1))
      BY <1>16, <1>a DEF TickUnheard, Before, ShouldAdvance, BarrierTypeOK, Bars
    <2>2. Before(cur')
      BY <1>16, <2>1 DEF TickUnheard
    <2> QED BY <1>16, <2>2 DEF TickUnheard, Before
  <1>4. CASE TickLastBar
    BY <1>4 DEF TickLastBar, Before
  <1>5. CASE TickUnload
    <2>1. Before(cur) /\ Before(SessionBegins(Session[cur]))
      BY <1>5, <1>a, <1>b, SessionRecorded DEF TickUnload
    <2> QED BY <1>5, <2>1 DEF TickUnload, Before
  <1>6. CASE WriteRow
    <2>1. Before(SessionBegins(Session[cur]))
      BY <1>6, <1>a, <1>b, SessionRecorded DEF WriteRow
    <2> QED BY <1>6, <2>1 DEF WriteRow, Before
  <1>7. CASE WriteRowFails
    BY <1>7 DEF WriteRowFails, Before
  <1>8. CASE WriteTs
    BY <1>8, <1>b DEF WriteTs, Before
  <1>9. CASE CloseWindow
    BY <1>9 DEF CloseWindow, Before
  <1>10. CASE Match
    <2>1. 1..closing \subseteq processed'
      BY <1>10 DEF Match, Before, BarrierTypeOK
    <2> QED BY <1>10, <2>1 DEF Match, Before
  <1>11. CASE MatchFails
    BY <1>11, NothingBefore DEF MatchFails, Before
  <1>12. CASE WriteMatched
    BY <1>12 DEF WriteMatched, Before
  <1>13. CASE Restart
    BY <1>13, StartBarRecorded DEF Restart, Before
  <1>14. CASE ReadSteps
    <2>1. UNCHANGED <<memoryVars, callVars, tableVars, processed>>
      BY <1>14 DEF ReadSteps, Ask, ReadClock, ReadRow, Look, ReadConfig, Answer, Reads
    <2> QED BY <2>1 DEF Before
  <1>15. CASE UNCHANGED barrierVars
    BY <1>15 DEF barrierVars, Before
  <1> QED BY <1>1, <1>2, <1>3, <1>4, <1>5, <1>6, <1>7, <1>8, <1>9, <1>10, <1>11, <1>12,
             <1>13, <1>14, <1>15, <1>16 DEF BarrierNext, ClockSteps

\* Before the bar of the clock, of its window and of each record, all bars have been
\* matched, whichever statements failed and wherever the restarts came (Registry.Start,
\* persistAsOfTS).
THEOREM NoBarIsSkipped == BarrierSpec => []NoBarSkipped
  <1>1. BarrierSpec => [](BarrierTypeOK /\ CallInv /\ RecordsInv)
    BY InitTypes, StepTypes, InitRecords, StepRecords, PTL DEF BarrierSpec
  <1>2. RecordsInv => NoBarSkipped
    BY DEF RecordsInv, NoBarSkipped, Before
  <1> QED BY <1>1, <1>2, PTL

-----------------------------------------------------------------------------
(* The clock and the furthest bar it has come to *)

\* Nothing the server has written or holds lies beyond the furthest bar; a date
\* stands for the bars before its session, as midnight does.
FrontierInv ==
    /\ loaded => cur <= frontier
    /\ prev <= frontier
    /\ asOfDate # 0 => LastBarUntil(asOfDate - 1) <= frontier
    /\ call = "donerow" => cur = B
    /\ loaded /\ status = "completed" => cur = B

\* A reader knows of a bar the clock has reached, and has shown nothing before its answer.
ReaderInv ==
    /\ reader.bar <= frontier
    /\ reader.at # "idle" => reader.asks \in Requests /\ shown = 0
    /\ reader.at \in {"clock", "row"} => ~reader.live

\* The midnight of a session comes before its bars.
LEMMA Midnight ==
  ASSUME NEW b \in Bars
  PROVE  LastBarUntil(Session[b] - 1) < b
  <1> DEFINE c == LastBarUntil(Session[b] - 1)
  <1>1. /\ b \in Nat /\ B \in Nat /\ c \in 0..B /\ Session[b] \in Nat \ {0}
        /\ c # 0 => Session[c] <= Session[b] - 1
    <2>1. Session[b] \in Nat \ {0} /\ Session[b] - 1 \in Int
      BY SessionOf
    <2>2. c \in 0..B /\ (c # 0 => Session[c] <= Session[b] - 1)
      BY <2>1, LastBar
    <2> QED BY <2>1, <2>2, BarrierAssumption DEF Bars
  <1>2. c = 0 => c < b
    BY <1>1 DEF Bars
  <1>3. ASSUME c # 0, b <= c PROVE FALSE
    <2>1. c \in Bars /\ Session[c] \in Nat \ {0}
      BY <1>1, <1>3, SessionOf DEF Bars
    <2>2. Session[b] <= Session[c]
      BY <1>3, <2>1, BarrierAssumption
    <2> QED BY <1>1, <1>3, <2>1, <2>2
  <1> HIDE DEF c
  <1>4. c < b
    BY <1>1, <1>2, <1>3
  <1> QED BY <1>4 DEF c

LEMMA InitFrontier == BarrierInit => FrontierInv /\ ReaderInv
  <1> SUFFICES ASSUME BarrierInit PROVE FrontierInv /\ ReaderInv
    OBVIOUS
  <1>1. FrontierInv
    BY DEF BarrierInit, FrontierInv
  <1>2. reader.at = "idle" /\ reader.bar = 0 /\ frontier = 0
    BY DEF BarrierInit, NoReader
  <1>3. ReaderInv
    BY <1>2 DEF ReaderInv
  <1> QED BY <1>1, <1>3

\* The clock's furthest bar is never taken back, and a clock in memory never runs ahead
\* of it.
LEMMA StepFrontier ==
  ASSUME BarrierTypeOK, CallInv, FrontierInv, [BarrierNext]_barrierVars
  PROVE  FrontierInv' /\ frontier <= frontier'
  <1> USE BarCount DEF FrontierInv, BarrierTypeOK, memoryVars, callVars, tableVars, readVars, countVars
  <1>a. call # "none" => loaded
    BY DEF CallInv
  <1>b. ASSUME loaded PROVE LastBarUntil(Session[cur] - 1) <= frontier
    <2>1. cur \in Bars /\ Session[cur] - 1 \in Int
      BY <1>b, SessionOf DEF Bars
    <2>2. LastBarUntil(Session[cur] - 1) \in 0..B /\ LastBarUntil(Session[cur] - 1) < cur
      BY <2>1, LastBar, Midnight
    <2> QED BY <1>b, <2>2
  <1>c. ASSUME asOfDate # 0 PROVE LastBarUntil(asOfDate - 1) \in 0..B
    <2>1. asOfDate - 1 \in Int
      BY <1>c, BarrierAssumption DEF Sessions
    <2> QED BY <2>1, LastBar
  <1>1. CASE Start
    <2>1. StartBar \in 0..B /\ StartBar <= Max({frontier, StartBar})
          /\ frontier <= Max({frontier, StartBar}) /\ Max({frontier, StartBar}) \in 0..B
      BY StartBarIsBar, Furthest DEF Bars
    <2> QED BY <1>1, <1>c, <2>1 DEF Start, Reached
  <1>2. CASE Pause
    BY <1>2, <1>b DEF Pause
  <1>3. CASE TickOpen
    <2>1. cur' \in 0..B /\ cur <= frontier
      BY <1>3 DEF TickOpen
    <2>2. cur' <= frontier' /\ frontier <= frontier' /\ frontier' \in 0..B
      BY <1>3, <2>1, Furthest DEF TickOpen, Reached
    <2> QED BY <1>3, <1>c, <2>1, <2>2 DEF TickOpen
  <1>16. CASE TickUnheard
    <2>1. cur' \in 0..B
      BY <1>16 DEF TickUnheard
    <2>2. cur' <= frontier' /\ frontier <= frontier' /\ frontier' \in 0..B
      BY <1>16, <2>1, Furthest DEF TickUnheard, Reached
    <2>3. status' = "completed" => cur' = B
      BY <1>16 DEF TickUnheard
    <2> QED BY <1>16, <1>c, <2>1, <2>2, <2>3 DEF TickUnheard
  <1>4. CASE TickLastBar
    BY <1>4 DEF TickLastBar
  <1>5. CASE TickUnload
    <2>1. LastBarUntil(Session[cur] - 1) <= frontier
      BY <1>5, <1>a, <1>b DEF TickUnload
    <2>2. /\ cur' = cur /\ prev' = prev /\ frontier' = frontier /\ call' = "none"
          /\ status' = status /\ (loaded' => loaded)
      BY <1>5 DEF TickUnload
    <2>3. asOfDate' \in {asOfDate, Session[cur]}
      BY <1>5 DEF TickUnload
    <2>4. asOfDate' # 0 => LastBarUntil(asOfDate' - 1) <= frontier
      BY <2>1, <2>3
    <2> QED BY <2>2, <2>4
  <1>6. CASE WriteRow
    BY <1>6, <1>a, <1>b DEF WriteRow
  <1>7. CASE WriteRowFails
    BY <1>7 DEF WriteRowFails
  <1>8. CASE WriteTs
    BY <1>8 DEF WriteTs
  <1>9. CASE CloseWindow
    BY <1>9 DEF CloseWindow
  <1>10. CASE Match
    BY <1>10 DEF Match
  <1>11. CASE MatchFails
    BY <1>11 DEF MatchFails
  <1>12. CASE WriteMatched
    BY <1>12 DEF WriteMatched
  <1>13. CASE Restart
    <2>1. StartBar \in 0..B /\ StartBar <= Max({frontier, StartBar})
          /\ frontier <= Max({frontier, StartBar}) /\ Max({frontier, StartBar}) \in 0..B
      BY StartBarIsBar, Furthest DEF Bars
    <2> QED BY <1>13, <1>c, <2>1 DEF Restart, Reached
  <1>14. CASE ReadSteps
    <2>1. UNCHANGED <<memoryVars, callVars, tableVars, processed, frontier>>
      BY <1>14 DEF ReadSteps, Ask, ReadClock, ReadRow, Look, ReadConfig, Answer, Reads
    <2> QED BY <2>1
  <1>15. CASE UNCHANGED barrierVars
    BY <1>15 DEF barrierVars
  <1> QED BY <1>1, <1>2, <1>3, <1>4, <1>5, <1>6, <1>7, <1>8, <1>9, <1>10, <1>11, <1>12,
             <1>13, <1>14, <1>15, <1>16 DEF BarrierNext, ClockSteps

LEMMA StepReader ==
  ASSUME BarrierTypeOK, CallInv, FrontierInv, ReaderInv, HourlyBarsNeverAhead,
         [BarrierNext]_barrierVars
  PROVE  ReaderInv' /\ HourlyBarsNeverAhead'
  <1>a. frontier \in 0..B /\ frontier' \in 0..B /\ frontier <= frontier' /\ B \in Nat
    BY StepFrontier, StepTypes, BarCount DEF BarrierTypeOK
  <1>b. /\ reader.bar \in 0..B /\ reader.bar <= frontier /\ reader \in Readers /\ shown \in 0..B
        /\ cur \in 0..B /\ (loaded => cur <= frontier)
    BY DEF BarrierTypeOK, Readers, ReaderInv, FrontierInv
  <1>1. ASSUME UNCHANGED <<reader, shown>> PROVE ReaderInv' /\ HourlyBarsNeverAhead'
    <2>1. ReaderInv'
      BY <1>1, <1>a, <1>b DEF ReaderInv
    <2>2. FromHourly' <=> FromHourly
      BY <1>1 DEF FromHourly
    <2> QED BY <1>1, <1>a, <1>b, <2>1, <2>2 DEF HourlyBarsNeverAhead
  <1>2. ASSUME reader' = NoReader, shown' = 0 PROVE ReaderInv' /\ HourlyBarsNeverAhead'
    <2>1. reader'.bar = 0 /\ reader'.at = "idle"
      BY <1>2 DEF NoReader
    <2> QED BY <1>2, <1>a, <2>1 DEF ReaderInv, HourlyBarsNeverAhead
  <1>3. CASE \E kind \in Requests : Ask(kind)
    <2>1. reader'.bar = 0 /\ reader'.at = "clock" /\ reader'.live = FALSE /\ shown' = 0
          /\ reader'.asks \in Requests
      BY <1>3 DEF Ask, Reads, NoReader, Requests
    <2> QED BY <1>a, <2>1 DEF ReaderInv, HourlyBarsNeverAhead
  <1>4. CASE ReadClock
    <2>1. shown = 0 /\ shown' = 0 /\ reader.live = FALSE /\ reader.asks \in Requests
      BY <1>4, <1>b DEF ReadClock, ReaderInv, Readers
    <2>2. \/ reader'.at = "look" /\ reader'.bar = cur /\ loaded
          \/ reader'.at = "row" /\ reader'.live = FALSE /\ reader'.bar = reader.bar
      BY <1>4, <1>b, <2>1 DEF ReadClock, Reads, Readers
    <2>3. reader'.asks = reader.asks
      BY <1>4, <1>b DEF ReadClock, Reads, Readers
    <2> QED BY <1>a, <1>b, <2>1, <2>2, <2>3 DEF ReaderInv, HourlyBarsNeverAhead
  <1>5. CASE ReadRow
    <2>1. shown = 0 /\ shown' = 0 /\ reader.asks \in Requests
      BY <1>5 DEF ReadRow, ReaderInv
    <2>2. CASE asOfDate = 0
      BY <1>5, <2>1, <2>2, <1>2 DEF ReadRow, Reads
    <2>3. CASE asOfDate # 0
      <3>1. reader'.at = "look" /\ reader'.bar = LastBarUntil(asOfDate - 1)
            /\ reader'.asks = reader.asks
        BY <1>5, <1>b, <2>3 DEF ReadRow, Reads, Readers
      <3>2. asOfDate - 1 \in Int
        BY <2>3, BarrierAssumption DEF BarrierTypeOK, Sessions
      <3>3. LastBarUntil(asOfDate - 1) \in 0..B /\ LastBarUntil(asOfDate - 1) <= frontier
        BY <2>3, <3>2, LastBar DEF FrontierInv
      <3> QED BY <1>a, <2>1, <3>1, <3>3 DEF ReaderInv, HourlyBarsNeverAhead
    <2> QED BY <2>2, <2>3
  <1>6. CASE Look
    <2>1. shown' = 0 /\ reader'.at = "config" /\ reader'.bar = reader.bar
          /\ reader'.asks = reader.asks /\ reader.asks \in Requests
      BY <1>6, <1>b DEF Look, Reads, Readers, ReaderInv
    <2> QED BY <1>a, <1>b, <2>1 DEF ReaderInv, HourlyBarsNeverAhead
  <1>7. CASE ReadConfig
    <2>1. shown' = 0 /\ reader'.at = "answer" /\ reader'.bar = reader.bar
          /\ reader'.asks = reader.asks /\ reader.asks \in Requests
      BY <1>7, <1>b DEF ReadConfig, Reads, Readers, ReaderInv
    <2> QED BY <1>a, <1>b, <2>1 DEF ReaderInv, HourlyBarsNeverAhead
  <1>8. CASE Answer
    <2>1. shown' = Told /\ reader' = [reader EXCEPT !.at = "idle"]
      BY <1>8 DEF Answer, Reads
    <2>2. /\ reader'.at = "idle" /\ reader'.bar = reader.bar
          /\ UNCHANGED <<reader.asks, reader.hourly, reader.live>>
      BY <1>b, <2>1 DEF Readers
    <2>3. FromHourly' <=> FromHourly
      BY <2>2 DEF FromHourly
    <2>4. FromHourly => Told \in {0, reader.bar}
      BY DEF Told
    <2> QED BY <1>a, <1>b, <2>1, <2>2, <2>3, <2>4 DEF ReaderInv, HourlyBarsNeverAhead
  <1>9. CASE ClockSteps \/ UNCHANGED barrierVars
    <2>1. UNCHANGED <<reader, shown>> \/ (reader' = NoReader /\ shown' = 0)
      BY <1>9 DEF barrierVars, readVars, ClockSteps, Start, Pause, TickOpen, TickLastBar, TickUnload,
                  WriteRow, WriteRowFails, WriteTs, CloseWindow, Match, MatchFails, WriteMatched,
                  Restart, TickUnheard
    <2> QED BY <1>1, <1>2, <2>1
  <1> QED BY <1>3, <1>4, <1>5, <1>6, <1>7, <1>8, <1>9 DEF BarrierNext, ReadSteps

\* An answer made of 60m bars never tells of one the clock has not reached, with or
\* without a clock in memory and whatever failed (IntradayBarsForSymbol).
THEOREM HourlyBarsStayBehind == BarrierSpec => []HourlyBarsNeverAhead
  <1>1. BarrierInit => HourlyBarsNeverAhead
    BY DEF BarrierInit, HourlyBarsNeverAhead
  <1>2. BarrierSpec => [](/\ BarrierTypeOK /\ CallInv /\ FrontierInv /\ ReaderInv
                         /\ HourlyBarsNeverAhead)
    BY <1>1, InitTypes, StepTypes, InitFrontier, StepFrontier, StepReader, PTL DEF BarrierSpec
  <1> QED BY <1>2, PTL

-----------------------------------------------------------------------------
(* Nothing beyond a clock in memory *)

\* The daily bars until the reader's date all lie behind the clock.
DateReached == LastBarUntil(reader.date) <= frontier

\* What the reader's date and bar are, and what it has learnt of the clock by then.  Its
\* clock can only be gone, or another one be in its place, because the simulation has
\* come to its last bar.
LiveInv ==
    reader.live /\ ~undone =>
        /\ reader.bar \in Bars /\ reader.date = Session[reader.bar]
        /\ loaded => reader.bar <= cur \/ frontier = B
        /\ ~loaded => frontier = B /\ rowStatus = "completed"
        /\ reader.at \in {"config", "answer"} /\ reader.lastBar => DateReached
        /\ reader.at \in {"config", "answer"} /\ ~reader.hourly /\ reader.asks # "quote"
              => DateReached
        /\ reader.at = "answer" /\ ~reader.unread /\ reader.asks \in {"quote", "candles"}
              => reader.hourly

\* At the last bar of a session, all bars of its date have been reached.
LEMMA SessionReached ==
  ASSUME NEW b \in Bars, LastOfSession(b), NEW s \in Int, s <= Session[b]
  PROVE  LastBarUntil(s) <= b
  <1> DEFINE c == LastBarUntil(s)
  <1>1. c \in 0..B /\ (c # 0 => Session[c] <= s)
    BY LastBar
  <1>2. b \in 1..B /\ B \in Nat /\ Session[b] \in Nat
    BY SessionOf, BarrierAssumption DEF Bars
  <1>3. ASSUME b < c PROVE FALSE
    <2>1. c \in Bars /\ b + 1 \in Bars /\ b + 1 <= c /\ b <= b + 1
      BY <1>1, <1>2, <1>3 DEF Bars
    <2>2. Session[b] <= Session[b + 1] /\ Session[b + 1] <= Session[c]
      BY <2>1, BarrierAssumption
    <2>3. Session[b + 1] \in Nat /\ Session[c] \in Nat
      BY <2>1, SessionOf
    <2>4. Session[c] <= Session[b]
      BY <1>1, <1>2, <2>1, <2>3
    <2>5. Session[b + 1] = Session[b]
      BY <1>2, <2>2, <2>3, <2>4
    <2>6. b # B
      BY <1>1, <1>2, <1>3
    <2> QED BY <2>5, <2>6 DEF LastOfSession
  <1> HIDE DEF c
  <1>4. c <= b
    BY <1>1, <1>2, <1>3
  <1> QED BY <1>4 DEF c

LEMMA InitLive == BarrierInit => LiveInv /\ NothingBeyondTheClock
  <1> SUFFICES ASSUME BarrierInit PROVE ~reader.live
    BY DEF LiveInv, NothingBeyondTheClock
  <1> QED BY DEF BarrierInit, NoReader

\* A step at which the clock in memory goes on, or goes away because it is complete.
ClockKept ==
    /\ loaded /\ loaded' => cur <= cur' \/ frontier' = B
    /\ loaded /\ ~loaded' => frontier' = B /\ rowStatus' = "completed"
    /\ ~loaded /\ rowStatus = "completed" => ~loaded' /\ rowStatus' = "completed"

\* Such a step leaves a reader's bar behind the clock.
LEMMA KeptLive ==
  ASSUME BarrierTypeOK, BarrierTypeOK', LiveInv, NothingBeyondTheClock, frontier <= frontier',
         reader' = reader, shown' = shown, ~undone' => ~undone /\ ClockKept
  PROVE  LiveInv' /\ NothingBeyondTheClock'
  <1> SUFFICES ASSUME reader.live, ~undone' PROVE LiveInv' /\ NothingBeyondTheClock'
    BY DEF LiveInv, NothingBeyondTheClock
  <1>a. B \in Nat /\ frontier \in 0..B /\ frontier' \in 0..B /\ cur \in 0..B /\ cur' \in 0..B
    BY BarCount DEF BarrierTypeOK
  <1>b. reader \in Readers /\ reader.bar \in 0..B /\ LastBarUntil(reader.date) \in 0..B /\ shown \in 0..B
    BY ReaderDates, LastBar DEF BarrierTypeOK, Readers
  <1>c. ~undone /\ ClockKept
    OBVIOUS
  <1>d. (loaded => reader.bar <= cur \/ frontier = B) /\ (~loaded => frontier = B /\ rowStatus = "completed")
    BY <1>c DEF LiveInv
  <1>1. loaded' => reader.bar <= cur' \/ frontier' = B
    <2>1. loaded' => loaded
      BY <1>c, <1>d DEF ClockKept
    <2>2. loaded' => cur <= cur' \/ frontier' = B
      BY <1>c, <2>1 DEF ClockKept
    <2> QED BY <1>a, <1>b, <1>d, <2>1, <2>2
  <1>2. ~loaded' => frontier' = B /\ rowStatus' = "completed"
    <2>1. CASE loaded
      BY <2>1, <1>c DEF ClockKept
    <2>2. CASE ~loaded
      <3>1. frontier = B /\ rowStatus' = "completed"
        BY <2>2, <1>c, <1>d DEF ClockKept
      <3> QED BY <1>a, <3>1
    <2> QED BY <2>1, <2>2
  <1>3. DateReached => DateReached'
    BY <1>a, <1>b DEF DateReached
  <1>4. LiveInv'
    BY <1>1, <1>2, <1>3, <1>c DEF LiveInv
  <1>5. NothingBeyondTheClock'
    BY <1>a, <1>b, <1>c DEF NothingBeyondTheClock
  <1> QED BY <1>4, <1>5

\* The steps of the clock leave the reader alone: its bar stays behind the clock, and the
\* clock goes away only when the simulation is complete, or with a failure.
LEMMA ClockStepLive ==
  ASSUME BarrierTypeOK, CallInv, FrontierInv, LiveInv, NothingBeyondTheClock,
         ClockSteps \/ UNCHANGED barrierVars
  PROVE  LiveInv' /\ NothingBeyondTheClock'
  <1>a. BarrierTypeOK' /\ frontier <= frontier'
    <2>1. [BarrierNext]_barrierVars
      BY DEF BarrierNext
    <2> QED BY <2>1, StepFrontier, StepTypes
  <1>b. /\ cur \in 0..B /\ cur' \in 0..B /\ B \in Nat /\ frontier \in 0..B /\ frontier' \in 0..B
        /\ (loaded => cur <= frontier)
    BY <1>a, BarCount DEF BarrierTypeOK, FrontierInv
  <1>1. CASE Restart
    <2>1. reader'.live = FALSE
      BY <1>1 DEF Restart, NoReader
    <2> QED BY <2>1 DEF LiveInv, NothingBeyondTheClock
  <1>2. ASSUME reader' = reader, shown' = shown, ~undone' => ~undone /\ ClockKept
        PROVE  LiveInv' /\ NothingBeyondTheClock'
    BY <1>2, <1>a, KeptLive
  <1> USE DEF memoryVars, callVars, tableVars, readVars, countVars
  <1>3. CASE Start
    <2>1. UNCHANGED <<reader, shown, undone, rowStatus>> /\ rowStatus # "completed" /\ loaded'
          /\ (loaded => cur' = cur \/ status = "completed")
      BY <1>3 DEF Start
    <2>2. loaded /\ status = "completed" => frontier' = B
      BY <1>a, <1>b DEF FrontierInv
    <2>3. loaded => cur <= cur' \/ frontier' = B
      BY <1>b, <2>1, <2>2
    <2> QED BY <2>1, <2>3, <1>2 DEF ClockKept
  <1>10. CASE TickUnheard
    <2>1. UNCHANGED <<reader, shown, undone, loaded>> /\ loaded /\ cur <= cur'
      BY <1>10, <1>b DEF TickUnheard
    <2> QED BY <2>1, <1>2 DEF ClockKept
  <1>4. CASE TickOpen
    <2>1. UNCHANGED <<reader, shown, undone, loaded>> /\ loaded /\ cur <= cur'
      BY <1>4, <1>b DEF TickOpen
    <2> QED BY <2>1, <1>2 DEF ClockKept
  <1>5. CASE TickUnload
    <2>1. loaded /\ cur = B /\ UNCHANGED <<reader, shown, undone, cur, frontier>>
      BY <1>5 DEF TickUnload, CallInv, FrontierInv
    <2>2. (loaded' <=> loaded) \/ rowStatus' = "completed"
      BY <1>5 DEF TickUnload
    <2>3. frontier' = B
      BY <2>1, <1>b
    <2> QED BY <1>b, <2>1, <2>2, <2>3, <1>2 DEF ClockKept
  <1>6. CASE WriteRowFails
    <2>1. loaded /\ reader' = reader /\ shown' = shown
      BY <1>6 DEF WriteRowFails, CallInv
    <2>2. ~undone' => ~undone /\ loaded' /\ cur' = cur
      BY <1>6, <2>1 DEF WriteRowFails
    <2>3. ~undone' => ~undone /\ ClockKept
      BY <1>b, <2>1, <2>2 DEF ClockKept
    <2> QED BY <2>1, <2>3, <1>2
  <1>7. CASE MatchFails
    <2>1. call = "match" /\ reader' = reader /\ shown' = shown /\ loaded' = loaded
      BY <1>7 DEF MatchFails
    <2>2. loaded /\ loaded'
      BY <2>1 DEF CallInv
    <2>3. ~undone' => ~undone /\ cur' = cur
      BY <1>7 DEF MatchFails
    <2>4. ~undone' => ~undone /\ ClockKept
      BY <1>b, <2>2, <2>3 DEF ClockKept
    <2> QED BY <2>1, <2>4, <1>2
  <1>8. CASE Pause \/ TickLastBar \/ WriteRow \/ WriteTs \/ CloseWindow \/ Match \/ WriteMatched
    <2>1. loaded
      BY <1>8 DEF Pause, TickLastBar, WriteRow, WriteTs, CloseWindow, Match, WriteMatched, CallInv
    <2>2. UNCHANGED <<reader, shown, undone, loaded, cur>>
      BY <1>8 DEF Pause, TickLastBar, WriteRow, WriteTs, CloseWindow, Match, WriteMatched
    <2> QED BY <1>b, <2>1, <2>2, <1>2 DEF ClockKept
  <1>9. CASE UNCHANGED barrierVars
    <2>1. UNCHANGED <<reader, shown, undone, loaded, cur, rowStatus>>
      BY <1>9 DEF barrierVars
    <2> QED BY <1>b, <2>1, <1>2 DEF ClockKept
  <1> QED BY <1>1, <1>3, <1>4, <1>5, <1>6, <1>7, <1>8, <1>9, <1>10 DEF ClockSteps

\* What the reader learns at each of its steps.
LEMMA ReadStepLive ==
  ASSUME BarrierTypeOK, BarrierTypeOK', FrontierInv, ReaderInv, LiveInv, NothingBeyondTheClock,
         ReadSteps
  PROVE  LiveInv' /\ NothingBeyondTheClock'
  <1>a. UNCHANGED <<memoryVars, callVars, tableVars, processed, frontier, undone>>
    BY DEF ReadSteps, Ask, ReadClock, ReadRow, Look, ReadConfig, Answer, Reads
  <1>b. UNCHANGED <<loaded, cur, rowStatus, frontier, undone>>
    BY <1>a DEF memoryVars, tableVars
  <1>c. B \in Nat /\ frontier \in 0..B /\ cur \in 0..B /\ (loaded => cur \in Bars /\ cur <= frontier)
    BY BarCount DEF BarrierTypeOK, FrontierInv, Bars
  <1>d. /\ reader \in Readers /\ reader.bar \in 0..B /\ reader.bar <= frontier
        /\ LastBarUntil(reader.date) \in 0..B /\ shown \in 0..B
    BY ReaderDates, LastBar DEF BarrierTypeOK, Readers, ReaderInv
  <1>1. ASSUME ~reader'.live PROVE LiveInv' /\ NothingBeyondTheClock'
    BY <1>1 DEF LiveInv, NothingBeyondTheClock
  <1>2. ASSUME reader'.live, ~undone PROVE LiveInv' /\ NothingBeyondTheClock'
    <2>1. CASE (\E kind \in Requests : Ask(kind)) \/ ReadRow
      <3>1. reader'.live = FALSE
        <4>1. CASE \E kind \in Requests : Ask(kind)
          BY <4>1 DEF Ask, Reads, NoReader
        <4>2. CASE ReadRow
          <5>1. reader.live = FALSE
            BY <4>2, <1>d DEF ReadRow, ReaderInv, Readers
          <5>2. reader' = NoReader \/ reader'.live = reader.live
            BY <4>2, <1>d DEF ReadRow, Reads, Readers
          <5>3. NoReader.live = FALSE
            BY DEF NoReader
          <5> QED BY <5>1, <5>2, <5>3
        <4> QED BY <2>1, <4>1, <4>2
      <3> QED BY <3>1, <1>2
    <2>2. CASE ReadClock
      <3>1. shown' = 0 /\ reader.live = FALSE
        BY <2>2, <1>d DEF ReadClock, ReaderInv, Readers
      <3>2. loaded /\ reader' = [reader EXCEPT !.at = "look", !.live = TRUE, !.bar = cur, !.date = Session[cur]]
        BY <2>2, <1>2, <1>d, <3>1 DEF ReadClock, Reads, Readers
      <3>3. reader'.at = "look" /\ reader'.bar = cur /\ reader'.date = Session[cur]
        BY <1>d, <3>2 DEF Readers
      <3>4. LiveInv'
        BY <1>b, <1>c, <3>2, <3>3 DEF LiveInv
      <3> QED BY <1>b, <1>c, <3>1, <3>4 DEF NothingBeyondTheClock
    <2>3. CASE Look
      <3>1. shown' = 0 /\ reader.at = "look"
        BY <2>3 DEF Look, ReaderInv
      <3>2. /\ reader'.at = "config" /\ UNCHANGED <<reader.live, reader.bar, reader.date, reader.asks>>
            /\ reader'.hourly = (loaded /\ reader.asks # "quote")
            /\ reader'.lastBar = (loaded => LastOfSession(cur))
        BY <2>3, <1>d DEF Look, Reads, Readers
      <3>3. reader.live
        BY <1>2, <3>2
      <3>4. /\ reader.bar \in Bars /\ reader.date = Session[reader.bar]
            /\ loaded => reader.bar <= cur \/ frontier = B
            /\ ~loaded => frontier = B /\ rowStatus = "completed"
        BY <1>2, <3>3 DEF LiveInv
      <3>5. ~loaded => DateReached
        BY <1>c, <1>d, <3>4 DEF DateReached
      <3>6. ASSUME loaded, LastOfSession(cur) PROVE DateReached
        <4>1. CASE reader.bar <= cur
          <5>1. reader.date <= Session[cur] /\ reader.date \in Int
            BY <1>c, <3>4, <3>6, <4>1, BarrierAssumption, SessionOf
          <5>2. LastBarUntil(reader.date) <= cur
            BY <5>1, <1>c, <3>6, SessionReached
          <5> QED BY <1>c, <1>d, <3>6, <5>2 DEF DateReached
        <4>2. CASE frontier = B
          BY <1>c, <1>d, <4>2 DEF DateReached
        <4> QED BY <3>4, <3>6, <4>1, <4>2
      <3>7. DateReached' <=> DateReached
        BY <1>b, <3>2 DEF DateReached
      <3>8. LiveInv'
        BY <1>b, <3>2, <3>4, <3>5, <3>6, <3>7 DEF LiveInv
      <3> QED BY <1>b, <1>c, <3>1, <3>8 DEF NothingBeyondTheClock
    <2>4. CASE ReadConfig
      <3>1. shown' = 0 /\ reader.at = "config"
        BY <2>4 DEF ReadConfig, ReaderInv
      <3>2. /\ reader'.at = "answer"
            /\ UNCHANGED <<reader.live, reader.bar, reader.date, reader.asks, reader.lastBar>>
        BY <2>4, <1>d DEF ReadConfig, Reads, Readers
      <3>3. reader'.unread \/ reader'.hourly = (reader.hourly \/ reader.asks \in {"quote", "candles"})
        BY <2>4, <1>d DEF ReadConfig, Reads, Readers
      <3>4. reader'.hourly = FALSE => reader.hourly = FALSE
        BY <2>4, <1>d DEF ReadConfig, Reads, Readers
      <3>5. DateReached' <=> DateReached
        BY <1>b, <3>2 DEF DateReached
      <3>6. reader'.hourly \in BOOLEAN /\ reader.hourly \in BOOLEAN
        BY DEF BarrierTypeOK, Readers
      <3>7. LiveInv'
        BY <1>2, <1>b, <3>1, <3>2, <3>3, <3>4, <3>5, <3>6 DEF LiveInv
      <3> QED BY <1>b, <1>c, <3>1, <3>7 DEF NothingBeyondTheClock
    <2>5. CASE Answer
      <3>1. reader.at = "answer" /\ shown' = Told /\ reader' = [reader EXCEPT !.at = "idle"]
        BY <2>5 DEF Answer, Reads
      <3>2. /\ reader'.at = "idle"
            /\ UNCHANGED <<reader.live, reader.bar, reader.date, reader.unread>>
        BY <1>d, <3>1 DEF Readers
      <3>3. LiveInv'
        BY <1>2, <1>b, <3>2 DEF LiveInv
      <3>4. ASSUME ~reader.unread PROVE Told <= frontier
        <4>1. /\ reader.bar \in Bars /\ reader.date = Session[reader.bar]
              /\ reader.lastBar => DateReached
              /\ ~reader.hourly /\ reader.asks # "quote" => DateReached
              /\ reader.asks \in {"quote", "candles"} => reader.hourly
          BY <1>2, <3>1, <3>2, <3>4 DEF LiveInv
        <4>2. CASE Told \in {0, reader.bar}
          BY <4>2, <1>c, <1>d
        <4>3. CASE reader.asks \in {"candles", "candles1d"} /\ Told = LastBarUntil(DailyAsOf)
          <5>1. CASE DailyAsOf = reader.date - 1
            <6>1. LastBarUntil(DailyAsOf) < reader.bar
              BY <4>1, <5>1, Midnight
            <6>2. LastBarUntil(DailyAsOf) \in 0..B
              BY <1>d, ReaderDates, LastBar
            <6> QED BY <1>c, <1>d, <4>3, <6>1, <6>2
          <5>2. CASE DailyAsOf = reader.date /\ (reader.lastBar \/ ~reader.hourly)
            BY <4>1, <4>3, <5>2 DEF DateReached
          <5> QED BY <5>1, <5>2 DEF DailyAsOf
        <4>4. CASE ~FromHourly /\ reader.asks \in {"quote", "portfolio"} /\ Told = LastBarUntil(reader.date)
          <5>1. reader.asks = "portfolio" => ~reader.hourly
            BY <1>2, <3>2, <4>4 DEF FromHourly
          <5>2. reader.asks # "quote"
            BY <4>1, <4>4 DEF FromHourly
          <5> QED BY <4>1, <4>4, <5>1, <5>2 DEF DateReached
        <4>5. \/ Told \in {0, reader.bar}
              \/ reader.asks \in {"candles", "candles1d"} /\ Told = LastBarUntil(DailyAsOf)
              \/ /\ ~FromHourly /\ reader.asks \in {"quote", "portfolio"}
                 /\ Told = LastBarUntil(reader.date)
          <5>1. reader.asks \in Requests
            BY <1>d, <3>1 DEF Readers, ReaderInv
          <5>2. reader.asks = "candles60m" => FromHourly
            BY DEF FromHourly
          <5> QED BY <5>1, <5>2 DEF Told, Requests
        <4> QED BY <4>2, <4>3, <4>4, <4>5
      <3> QED BY <1>b, <3>1, <3>2, <3>3, <3>4 DEF NothingBeyondTheClock
    <2> QED BY <2>1, <2>2, <2>3, <2>4, <2>5 DEF ReadSteps
  <1>3. ASSUME undone PROVE LiveInv' /\ NothingBeyondTheClock'
    BY <1>3, <1>b DEF LiveInv, NothingBeyondTheClock
  <1> QED BY <1>1, <1>2, <1>3

LEMMA StepLive ==
  ASSUME BarrierTypeOK, CallInv, FrontierInv, ReaderInv, LiveInv, NothingBeyondTheClock,
         [BarrierNext]_barrierVars
  PROVE  LiveInv' /\ NothingBeyondTheClock'
  BY StepTypes, ClockStepLive, ReadStepLive DEF BarrierNext

\* What a quote, a portfolio or candles dated by a clock in memory tell of lies behind the
\* furthest bar of the clock, although the handler looks at the clock twice and at the
\* config between (GetOHLCV, GetQuote).
THEOREM NothingBeyondIsTold == BarrierSpec => []NothingBeyondTheClock
  <1>1. BarrierInit => HourlyBarsNeverAhead
    BY DEF BarrierInit, HourlyBarsNeverAhead
  <1>2. BarrierSpec => [](/\ BarrierTypeOK /\ CallInv /\ FrontierInv /\ ReaderInv
                         /\ HourlyBarsNeverAhead)
    BY <1>1, InitTypes, StepTypes, InitFrontier, StepFrontier, StepReader, PTL DEF BarrierSpec
  <1>3. BarrierSpec => [](LiveInv /\ NothingBeyondTheClock)
    BY <1>2, InitLive, StepLive, PTL DEF BarrierSpec
  <1> QED BY <1>3, PTL
=============================================================================
