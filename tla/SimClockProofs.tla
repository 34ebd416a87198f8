--------------------------- MODULE SimClockProofs ---------------------------
(***************************************************************************)
(* Proofs about SimClock, for every number of days, of goroutines and of    *)
(* failures: its type invariant, the order of the days, and that it         *)
(* implements Playback.                                                     *)
(*                                                                         *)
(* The type invariant says of each goroutine, by its pc, which pointers and *)
(* days it holds (HeldBy); that part is what makes it inductive.  It is     *)
(* proved in two halves, the shared state (SharedTypes) and the goroutines' *)
(* locals (Local), each with a step for every action.  OrderInv adds which  *)
(* days a goroutine may hold; the order of the days and the refinement of   *)
(* Playback follow from it.                                                 *)
(*                                                                         *)
(* The last part is about a clock that only the auto ticker ticks: the      *)
(* checkpoint gate is respected, and, while nothing fails, no day is        *)
(* matched twice before every day has been.                                 *)
(***************************************************************************)
EXTENDS SimClock, TLAPS

Local == HeldTypes /\ \A v \in Workers : HeldBy(v)

-----------------------------------------------------------------------------
(* What the values that are read and passed on are. *)

\* The ranges of days and of pointers, with and without their zero.
LEMMA Ranges ==
    /\ 1 \in Days /\ Days \subseteq DayOrNone /\ 0 \in DayOrNone
    /\ 1 \in Clocks /\ Clocks \subseteq ClockOrNone /\ 0 \in ClockOrNone
  BY NAssumption, BoundsAssumption DEF Days, Clocks, DayOrNone, ClockOrNone

\* An open window has a date.
LEMMA WindowDay == ASSUME TypeOK, WindowOpen PROVE window \in Days
  BY NAssumption DEF WindowOpen, DayOrNone, Days, TypeOK, SharedTypes

\* A loaded clock is an object, and stands on a day.
LEMMA LoadedClock ==
  ASSUME TypeOK, current # 0 PROVE current \in Clocks /\ cIdx[current] \in Days
  BY NAssumption, BoundsAssumption DEF ClockOrNone, Clocks, Days, TypeOK,
     SharedTypes

\* So does a running one.
LEMMA RunningClock ==
  ASSUME TypeOK, Running(current) PROVE current \in Clocks /\ cIdx[current] \in Days
  BY LoadedClock DEF Running

\* The day Start resumes from is a trading day, even of a row never started.
LEMMA ResumeIsDay == ASSUME TypeOK PROVE ResumeDay \in Days
  BY NAssumption DEF ResumeDay, TypeOK, SharedTypes, Days, DayOrNone

\* The count of RecordTickForCheckpoint is a number.
LEMMA OneMoreIsNat == ASSUME TypeOK PROVE OneMore(dbDays) \in Nat
  BY IntervalAssumption DEF TypeOK, SharedTypes, OneMore

-----------------------------------------------------------------------------
(* Pieces that many actions share. *)

\* A call that works or fails leaves the counters of failures numbers.
LEMMA FaultTypes == ASSUME TypeOK, Works \/ Fault PROVE faults' \in Nat /\ crashes'
    \in Nat
  BY DEF TypeOK, SharedTypes, Works, Fault, faultVars

\* UpdateClock writes a day and a status, or leaves the row alone.
LEMMA RowTypes ==
  ASSUME TypeOK, NEW d \in DayOrNone, NEW st \in Statuses,
         UpdateClock(d, st) \/ UpdateFails(d, st)
  PROVE  /\ dbAsOf' \in DayOrNone /\ dbStatus' \in Statuses
         /\ faults' \in Nat /\ crashes' \in Nat
  BY FaultTypes DEF TypeOK, SharedTypes, UpdateClock, UpdateFails, Write, rowVars

\* A step on locals only keeps the shared types.
LEMMA LocalStep == ASSUME TypeOK, UNCHANGED sysVars, Works \/ Fault PROVE
    SharedTypes'
  <1>1. faults' \in Nat /\ crashes' \in Nat
    BY FaultTypes
  <1> QED
    BY <1>1 DEF TypeOK, SharedTypes, sysVars, clockVars, rowVars, cfgVars, histVars

\* A goroutine whose call is over holds nothing.
LEMMA DoneLocal == ASSUME TypeOK, NEW w \in Workers, Done(w) PROVE Local'
  <1>1. HeldTypes'
    BY Ranges DEF TypeOK, HeldTypes, Done, Goto, Put, Labels, Returns, Statuses
  <1>2. ASSUME NEW v \in Workers PROVE HeldBy(v)'
    BY DEF TypeOK, HeldTypes, HeldBy, Done, Goto, Put
  <1> QED BY <1>1, <1>2 DEF Local

\* CloseWindowAndMatch hands back to its caller what the caller still needs.
LEMMA ReturnLocal ==
  ASSUME TypeOK, NEW w \in Workers, NEW ok \in BOOLEAN, CmReturn(w, ok) PROVE Local'
  <1> USE Ranges DEF CmReturn, TypeOK, HeldTypes, HeldBy, Goto, Put, Labels,
      Returns, heldVars, Local
  <1>1. CASE ret[w] = "tick" /\ ok
    BY <1>1
  <1>2. CASE ret[w] = "batch" /\ ~ok
    BY <1>2
  <1>3. CASE ~(ret[w] = "tick" /\ ok) /\ ~(ret[w] = "batch" /\ ~ok)
    BY <1>3, DoneLocal
  <1> QED BY <1>1, <1>2, <1>3

\* Tick holds the clock and its day when it opens a window.
LEMMA OpenLocal ==
  ASSUME TypeOK, NEW w \in Workers, NEW d \in Days, Running(current), OpenWindow(w,
      d)
  PROVE  Local' /\ window' \in DayOrNone
  <1>1. current \in Clocks /\ cIdx[current] \in Days
    BY RunningClock
  <1>2. HeldTypes' /\ window' \in DayOrNone
    BY <1>1, Ranges DEF TypeOK, HeldTypes, OpenWindow, Goto, Put, Labels
  <1>3. ASSUME NEW v \in Workers PROVE HeldBy(v)'
    BY <1>1 DEF TypeOK, HeldTypes, HeldBy, OpenWindow, Goto, Put
  <1> QED BY <1>2, <1>3 DEF Local

-----------------------------------------------------------------------------
(* The shared state: the clocks, the registry's maps and the row. *)

\* Every step of CloseWindowAndMatch keeps the types of the shared state.
LEMMA MatchShared ==
  ASSUME TypeOK, NEW w \in Workers, CloseWindowAndMatch(w) PROVE SharedTypes'
  <1>1. CASE CmReload(w) \/ CmCount(w) \/ CmGateSample(w)
    BY <1>1, LocalStep DEF CmReload, CmCount, CmGateSample
  <1>2. CASE CmClose(w)
    <2>1. faults' \in Nat /\ crashes' \in Nat
      BY <1>2, FaultTypes DEF CmClose
    <2>2. window' \in DayOrNone
      BY <1>2, Ranges DEF CmClose, TypeOK, SharedTypes
    <2> QED
      BY <1>2, <2>1, <2>2 DEF CmClose, TypeOK, SharedTypes, clockVars, rowVars,
         cfgVars, histVars
  <1>3. CASE CmMatch(w)
    <2>1. faults' \in Nat /\ crashes' \in Nat
      BY <1>3, FaultTypes DEF CmMatch
    <2>2. matched' \subseteq Days /\ again' \subseteq matched'
      BY <1>3 DEF CmMatch, TypeOK, SharedTypes, HeldBy, Commit, histVars
    <2> QED
      BY <1>3, <2>1, <2>2 DEF CmMatch, TypeOK, SharedTypes, clockVars, rowVars,
         cfgVars, histVars
  <1>4. CASE CmRecord(w)
    <2>1. faults' \in Nat /\ crashes' \in Nat
      BY <1>4, FaultTypes DEF CmRecord
    <2>2. lastMatched' \in DayOrNone
      BY <1>4, Ranges DEF CmRecord, TypeOK, SharedTypes, HeldBy
    <2> QED
      BY <1>4, <2>1, <2>2 DEF CmRecord, TypeOK, SharedTypes, clockVars, rowVars,
         cfgVars, histVars
  <1>5. CASE CmMerge(w)
    <2>1. faults' \in Nat /\ crashes' \in Nat
      BY <1>5, FaultTypes DEF CmMerge
    <2>2. dbLast' \in DayOrNone
      BY <1>5, Ranges DEF CmMerge, TypeOK, SharedTypes, HeldBy
    <2> QED
      BY <1>5, <2>1, <2>2 DEF CmMerge, TypeOK, SharedTypes, clockVars, rowVars,
         cfgVars, histVars
  <1>6. CASE CmCounted(w)
    <2>1. faults' \in Nat /\ crashes' \in Nat
      BY <1>6, FaultTypes DEF CmCounted
    <2>2. dbDays' \in Nat
      BY <1>6 DEF CmCounted, TypeOK, SharedTypes, HeldTypes
    <2> QED
      BY <1>6, <2>1, <2>2 DEF CmCounted, TypeOK, SharedTypes, clockVars, rowVars,
         cfgVars, histVars
  <1>7. CASE CmGate(w)
    <2>1. faults' \in Nat /\ crashes' \in Nat
      BY <1>7, FaultTypes DEF CmGate
    <2>2. cStatus' \in [Clocks -> Statuses]
      BY <1>7 DEF CmGate, TypeOK, SharedTypes, HeldBy, Statuses
    <2> QED
      BY <1>7, <2>1, <2>2 DEF CmGate, TypeOK, SharedTypes, clockVars, rowVars,
         cfgVars, histVars
  <1>8. CASE CmAwait(w)
    <2>1. faults' \in Nat /\ crashes' \in Nat
      BY <1>8, FaultTypes DEF CmAwait
    <2>2. dbAwaiting' \in BOOLEAN
      BY <1>8 DEF CmAwait, TypeOK, SharedTypes
    <2> QED
      BY <1>8, <2>1, <2>2 DEF CmAwait, TypeOK, SharedTypes, clockVars, rowVars,
         cfgVars, histVars
  <1>9. CASE CmGatePersist(w)
    <2>1. faults' \in Nat /\ crashes' \in Nat
      BY <1>9, FaultTypes DEF CmGatePersist, UpdateClock, UpdateFails
    <2>2. dbAsOf' \in DayOrNone /\ dbStatus' \in Statuses
      BY <1>9, RowTypes DEF CmGatePersist, TypeOK, SharedTypes, HeldTypes, Statuses
    <2> QED
      BY <1>9, <2>1, <2>2 DEF CmGatePersist, TypeOK, SharedTypes, clockVars,
         rowVars, cfgVars, histVars
  <1>10. CASE CmShut(w)
    <2>1. faults' \in Nat /\ crashes' \in Nat
      BY <1>10, FaultTypes DEF CmShut
    <2>2. window' \in DayOrNone
      BY <1>10, Ranges DEF CmShut, TypeOK, SharedTypes
    <2> QED
      BY <1>10, <2>1, <2>2 DEF CmShut, TypeOK, SharedTypes, clockVars, rowVars,
         cfgVars, histVars
  <1> QED
    BY <1>1, <1>2, <1>3, <1>4, <1>5, <1>6, <1>7, <1>8, <1>9, <1>10 DEF
       CloseWindowAndMatch

\* So does every step of Tick;
LEMMA TickShared ==
  ASSUME TypeOK, NEW w \in Workers, Tick(w) PROVE SharedTypes'
  <1>1. CASE TickBegin(w) \/ TickRefused(w) \/ TickSample(w)
    BY <1>1, LocalStep DEF TickBegin, TickRefused, TickSample
  <1>2. CASE TickStay(w)
    <2>1. faults' \in Nat /\ crashes' \in Nat
      BY <1>2, FaultTypes DEF TickStay
    <2>2. window' \in DayOrNone
      BY <1>2, RunningClock, OpenLocal DEF TickStay
    <2> QED
      BY <1>2, <2>1, <2>2 DEF TickStay, TypeOK, SharedTypes, clockVars, rowVars,
         cfgVars, histVars
  <1>3. CASE TickAdvance(w)
    <2>1. faults' \in Nat /\ crashes' \in Nat
      BY <1>3, FaultTypes DEF TickAdvance
    <2>2. cIdx[current] + 1 \in Days
      BY <1>3, RunningClock, NAssumption DEF TickAdvance, Days
    <2>3. cIdx' \in [Clocks -> Days]
      BY <1>3, <2>2 DEF TickAdvance, TypeOK, SharedTypes
    <2>4. window' \in DayOrNone
      BY <1>3, <2>2, OpenLocal DEF TickAdvance, TypeOK, SharedTypes
    <2> QED
      BY <1>3, <2>1, <2>2, <2>3, <2>4 DEF TickAdvance, TypeOK, SharedTypes,
         clockVars, rowVars, cfgVars, histVars
  <1>4. CASE TickLastDay(w)
    <2>1. faults' \in Nat /\ crashes' \in Nat
      BY <1>4, FaultTypes DEF TickLastDay
    <2>2. cStatus' \in [Clocks -> Statuses]
      BY <1>4 DEF TickLastDay, TypeOK, SharedTypes, Statuses
    <2> QED
      BY <1>4, <2>1, <2>2 DEF TickLastDay, TypeOK, SharedTypes, clockVars, rowVars,
         cfgVars, histVars
  <1>5. CASE TickFinish(w)
    <2>1. faults' \in Nat /\ crashes' \in Nat
      BY <1>5, FaultTypes DEF TickFinish, UpdateClock, UpdateFails
    <2>2. dbAsOf' \in DayOrNone /\ dbStatus' \in Statuses
      BY <1>5, RowTypes DEF TickFinish, TypeOK, SharedTypes, HeldTypes, Statuses
    <2> QED
      BY <1>5, <2>1, <2>2 DEF TickFinish, TypeOK, SharedTypes, clockVars, rowVars,
         cfgVars, histVars
  <1>6. CASE TickUnload(w)
    <2>1. faults' \in Nat /\ crashes' \in Nat
      BY <1>6, FaultTypes DEF TickUnload
    <2>2. current' \in ClockOrNone /\ window' \in DayOrNone
      BY <1>6, Ranges DEF TickUnload, TypeOK, SharedTypes
    <2> QED
      BY <1>6, <2>1, <2>2 DEF TickUnload, TypeOK, SharedTypes, clockVars, rowVars,
         cfgVars, histVars
  <1>7. CASE TickPersist(w)
    <2>1. faults' \in Nat /\ crashes' \in Nat
      BY <1>7, FaultTypes DEF TickPersist, UpdateClock, UpdateFails
    <2>2. dbAsOf' \in DayOrNone /\ dbStatus' \in Statuses
      BY <1>7, RowTypes DEF TickPersist, TypeOK, SharedTypes, HeldTypes
    <2> QED
      BY <1>7, <2>1, <2>2 DEF TickPersist, TypeOK, SharedTypes, clockVars, rowVars,
         cfgVars, histVars
  <1>8. CASE TickRestore(w)
    <2>1. faults' \in Nat /\ crashes' \in Nat
      BY <1>8, FaultTypes DEF TickRestore
    <2>2. cIdx' \in [Clocks -> Days] /\ cStatus' \in [Clocks -> Statuses]
      BY <1>8 DEF TickRestore, TypeOK, SharedTypes, HeldBy, Statuses
    <2> QED
      BY <1>8, <2>1, <2>2 DEF TickRestore, TypeOK, SharedTypes, clockVars, rowVars,
         cfgVars, histVars
  <1> QED
    BY <1>1, <1>2, <1>3, <1>4, <1>5, <1>6, <1>7, <1>8 DEF Tick

\* of Start;
LEMMA StartShared ==
  ASSUME TypeOK, NEW w \in Workers, Start(w) PROVE SharedTypes'
  <1>1. CASE StartRead(w) \/ StartRunning(w) \/ StartSample(w)
    BY <1>1, LocalStep DEF StartRead, StartRunning, StartSample
  <1>2. CASE StartPaused(w)
    <2>1. faults' \in Nat /\ crashes' \in Nat
      BY <1>2, FaultTypes DEF StartPaused
    <2>2. cStatus' \in [Clocks -> Statuses]
      BY <1>2 DEF StartPaused, TypeOK, SharedTypes, Statuses
    <2> QED
      BY <1>2, <2>1, <2>2 DEF StartPaused, TypeOK, SharedTypes, clockVars, rowVars,
         cfgVars, histVars
  <1>3. CASE StartLoad(w)
    <2>1. faults' \in Nat /\ crashes' \in Nat
      BY <1>3, FaultTypes DEF StartLoad
    <2>2. cIdx' \in [Clocks -> Days] /\ cStatus' \in [Clocks -> Statuses]
      BY <1>3 DEF StartLoad, TypeOK, SharedTypes, HeldBy, NewClock, Unreachable,
         Statuses
    <2>3. current' \in ClockOrNone /\ lastMatched' \in DayOrNone
      BY <1>3, Ranges DEF StartLoad, TypeOK, SharedTypes, HeldTypes, NewClock,
         Unreachable
    <2> QED
      BY <1>3, <2>1, <2>2, <2>3 DEF StartLoad, NewClock, TypeOK, SharedTypes,
         clockVars, rowVars, cfgVars, histVars
  <1>4. CASE StartPersist(w)
    <2>1. faults' \in Nat /\ crashes' \in Nat
      BY <1>4, FaultTypes DEF StartPersist, UpdateClock, UpdateFails
    <2>2. dbAsOf' \in DayOrNone /\ dbStatus' \in Statuses
      BY <1>4, RowTypes DEF StartPersist, TypeOK, SharedTypes, HeldTypes, Statuses
    <2> QED
      BY <1>4, <2>1, <2>2 DEF StartPersist, TypeOK, SharedTypes, clockVars, rowVars,
         cfgVars, histVars
  <1>5. CASE StartDrop(w)
    <2>1. faults' \in Nat /\ crashes' \in Nat
      BY <1>5, FaultTypes DEF StartDrop
    <2>2. current' \in ClockOrNone
      BY <1>5, Ranges DEF StartDrop, TypeOK, SharedTypes
    <2> QED
      BY <1>5, <2>1, <2>2 DEF StartDrop, TypeOK, SharedTypes, clockVars, rowVars,
         cfgVars, histVars
  <1> QED
    BY <1>1, <1>2, <1>3, <1>4, <1>5 DEF Start

\* and of Proceed, Pause and the auto ticker.
LEMMA ControlShared ==
  ASSUME TypeOK, NEW w \in Workers, ProceedRead(w) \/ ProceedReset(w) \/ Pause(w) \/
      Ticker(w) PROVE SharedTypes'
  <1>1. CASE ProceedRead(w) \/ TickerExpired(w) \/ TickerDue(w)
          \/ TickerGate(w)
    BY <1>1, LocalStep DEF ProceedRead, TickerExpired, TickerDue, TickerGate
  <1>2. CASE ProceedReset(w)
    <2>1. faults' \in Nat /\ crashes' \in Nat
      BY <1>2, FaultTypes DEF ProceedReset
    <2>2. dbDays' \in Nat
      BY <1>2 DEF ProceedReset, TypeOK, SharedTypes
    <2>3. dbAwaiting' \in BOOLEAN
      BY <1>2 DEF ProceedReset, TypeOK, SharedTypes
    <2> QED
      BY <1>2, <2>1, <2>2, <2>3 DEF ProceedReset, TypeOK, SharedTypes, clockVars,
         rowVars, cfgVars, histVars
  <1>3. CASE Pause(w)
    <2>1. faults' \in Nat /\ crashes' \in Nat
      BY <1>3, FaultTypes DEF Pause, UpdateClock, UpdateFails
    <2>2. cStatus' \in [Clocks -> Statuses]
      BY <1>3 DEF Pause, TypeOK, SharedTypes, Statuses
    <2>3. window' \in DayOrNone
      BY <1>3, Ranges DEF Pause, TypeOK, SharedTypes
    <2>4. dbAsOf' \in DayOrNone /\ dbStatus' \in Statuses
      BY <1>3, RowTypes, LoadedClock, Ranges DEF Pause, TypeOK, SharedTypes,
         Statuses
    <2> QED
      BY <1>3, <2>1, <2>2, <2>3, <2>4 DEF Pause, TypeOK, SharedTypes, clockVars,
         rowVars, cfgVars, histVars
  <1> QED
    BY <1>1, <1>2, <1>3 DEF Ticker

-----------------------------------------------------------------------------
(* The goroutines' locals. *)

\* Every step of CloseWindowAndMatch leaves each goroutine with the locals its
\* next step uses.
LEMMA MatchLocal ==
  ASSUME TypeOK, NEW w \in Workers, CloseWindowAndMatch(w) PROVE Local'
  <1>1. CASE Done(w) \/ CmReturn(w, TRUE) \/ CmReturn(w, FALSE)
    BY <1>1, DoneLocal, ReturnLocal
  <1>2. CASE ~(Done(w) \/ CmReturn(w, TRUE) \/ CmReturn(w, FALSE)) /\ CmClose(w)
    <2> USE <1>2, WindowDay, Ranges DEF CmClose, Goto, Put, heldVars
    <2>1. HeldTypes'
      BY DEF TypeOK, SharedTypes, HeldTypes, HeldBy, Labels, Returns
    <2>2. HeldBy(w)'
      BY DEF TypeOK, HeldTypes, HeldBy
    <2>3. ASSUME NEW v \in Workers, v # w PROVE HeldBy(v)'
      BY <2>3 DEF TypeOK, HeldTypes, HeldBy
    <2> QED BY <2>1, <2>2, <2>3 DEF Local
  <1>3. CASE ~(Done(w) \/ CmReturn(w, TRUE) \/ CmReturn(w, FALSE)) /\ CmMatch(w)
    <2> USE <1>3, Ranges DEF CmMatch, Goto, Put, heldVars
    <2>1. HeldTypes'
      BY DEF TypeOK, SharedTypes, HeldTypes, HeldBy, Labels, Returns
    <2>2. HeldBy(w)'
      BY DEF TypeOK, HeldTypes, HeldBy
    <2>3. ASSUME NEW v \in Workers, v # w PROVE HeldBy(v)'
      BY <2>3 DEF TypeOK, HeldTypes, HeldBy
    <2> QED BY <2>1, <2>2, <2>3 DEF Local
  <1>4. CASE CmRecord(w)
    <2> USE <1>4, Ranges DEF CmRecord, Goto, Put, heldVars
    <2>1. HeldTypes'
      BY DEF TypeOK, SharedTypes, HeldTypes, HeldBy, Labels, Returns
    <2>2. HeldBy(w)'
      BY DEF TypeOK, HeldTypes, HeldBy
    <2>3. ASSUME NEW v \in Workers, v # w PROVE HeldBy(v)'
      BY <2>3 DEF TypeOK, HeldTypes, HeldBy
    <2> QED BY <2>1, <2>2, <2>3 DEF Local
  <1>5. CASE CmMerge(w)
    <2> USE <1>5, Ranges DEF CmMerge, Goto, Put, heldVars
    <2>1. HeldTypes'
      BY DEF TypeOK, SharedTypes, HeldTypes, HeldBy, Labels, Returns
    <2>2. HeldBy(w)'
      BY DEF TypeOK, HeldTypes, HeldBy
    <2>3. ASSUME NEW v \in Workers, v # w PROVE HeldBy(v)'
      BY <2>3 DEF TypeOK, HeldTypes, HeldBy
    <2> QED BY <2>1, <2>2, <2>3 DEF Local
  <1>6. CASE ~(Done(w) \/ CmReturn(w, TRUE) \/ CmReturn(w, FALSE)) /\ CmReload(w)
    <2> USE <1>6, RunningClock, Ranges DEF CmReload, Goto, Put, heldVars
    <2>1. HeldTypes'
      BY DEF TypeOK, SharedTypes, HeldTypes, HeldBy, Labels, Returns
    <2>2. HeldBy(w)'
      BY DEF TypeOK, HeldTypes, HeldBy
    <2>3. ASSUME NEW v \in Workers, v # w PROVE HeldBy(v)'
      BY <2>3 DEF TypeOK, HeldTypes, HeldBy
    <2> QED BY <2>1, <2>2, <2>3 DEF Local
  <1>7. CASE ~CmReturn(w, FALSE) /\ CmCount(w)
    <2>1. count' = Put(count, w, OneMore(dbDays)) /\ Goto(w, "counted")
      BY <1>7 DEF CmCount
    <2>2. count' \in [Workers -> Nat]
      BY <2>1, OneMoreIsNat DEF Put, TypeOK, HeldTypes
    <2>3. HeldTypes'
      BY <1>7, <2>1, <2>2 DEF CmCount, Goto, TypeOK, HeldTypes, Labels
    <2>4. ASSUME NEW v \in Workers PROVE HeldBy(v)'
      BY <1>7, <2>1 DEF CmCount, Goto, TypeOK, HeldTypes, HeldBy
    <2> QED BY <2>3, <2>4 DEF Local
  <1>8. CASE ~(Done(w) \/ CmReturn(w, TRUE) \/ CmReturn(w, FALSE)) /\ CmCounted(w)
    <2> USE <1>8, Ranges DEF CmCounted, Goto, Put, heldVars
    <2>1. HeldTypes'
      BY DEF TypeOK, SharedTypes, HeldTypes, HeldBy, Labels, Returns
    <2>2. HeldBy(w)'
      BY DEF TypeOK, HeldTypes, HeldBy
    <2>3. ASSUME NEW v \in Workers, v # w PROVE HeldBy(v)'
      BY <2>3 DEF TypeOK, HeldTypes, HeldBy
    <2> QED BY <2>1, <2>2, <2>3 DEF Local
  <1>9. CASE CmGate(w)
    <2> USE <1>9, Ranges DEF CmGate, Goto, Put, heldVars
    <2>1. HeldTypes'
      BY DEF TypeOK, SharedTypes, HeldTypes, HeldBy, Labels, Returns
    <2>2. HeldBy(w)'
      BY DEF TypeOK, HeldTypes, HeldBy
    <2>3. ASSUME NEW v \in Workers, v # w PROVE HeldBy(v)'
      BY <2>3 DEF TypeOK, HeldTypes, HeldBy
    <2> QED BY <2>1, <2>2, <2>3 DEF Local
  <1>10. CASE ~(Done(w) \/ CmReturn(w, TRUE) \/ CmReturn(w, FALSE)) /\ CmAwait(w)
    <2> USE <1>10, Ranges DEF CmAwait, Goto, Put, heldVars
    <2>1. HeldTypes'
      BY DEF TypeOK, SharedTypes, HeldTypes, HeldBy, Labels, Returns
    <2>2. HeldBy(w)'
      BY DEF TypeOK, HeldTypes, HeldBy
    <2>3. ASSUME NEW v \in Workers, v # w PROVE HeldBy(v)'
      BY <2>3 DEF TypeOK, HeldTypes, HeldBy
    <2> QED BY <2>1, <2>2, <2>3 DEF Local
  <1>11. CASE CmGateSample(w)
    <2> USE <1>11, Ranges DEF CmGateSample, Goto, Put, heldVars
    <2>1. HeldTypes'
      BY DEF TypeOK, SharedTypes, HeldTypes, HeldBy, Labels, Returns
    <2>2. HeldBy(w)'
      BY DEF TypeOK, HeldTypes, HeldBy
    <2>3. ASSUME NEW v \in Workers, v # w PROVE HeldBy(v)'
      BY <2>3 DEF TypeOK, HeldTypes, HeldBy
    <2> QED BY <2>1, <2>2, <2>3 DEF Local
  <1>12. CASE ~(Done(w) \/ CmReturn(w, TRUE) \/ CmReturn(w, FALSE)) /\
      CmGatePersist(w)
    <2> USE <1>12, Ranges DEF CmGatePersist, Goto, Put, heldVars
    <2>1. HeldTypes'
      BY DEF TypeOK, SharedTypes, HeldTypes, HeldBy, Labels, Returns
    <2>2. HeldBy(w)'
      BY DEF TypeOK, HeldTypes, HeldBy
    <2>3. ASSUME NEW v \in Workers, v # w PROVE HeldBy(v)'
      BY <2>3 DEF TypeOK, HeldTypes, HeldBy
    <2> QED BY <2>1, <2>2, <2>3 DEF Local
  <1>13. CASE ~(Done(w) \/ CmReturn(w, TRUE) \/ CmReturn(w, FALSE)) /\ CmShut(w)
    <2> USE <1>13, Ranges DEF CmShut, Goto, Put, heldVars
    <2>1. HeldTypes'
      BY DEF TypeOK, SharedTypes, HeldTypes, HeldBy, Labels, Returns
    <2>2. HeldBy(w)'
      BY DEF TypeOK, HeldTypes, HeldBy
    <2>3. ASSUME NEW v \in Workers, v # w PROVE HeldBy(v)'
      BY <2>3 DEF TypeOK, HeldTypes, HeldBy
    <2> QED BY <2>1, <2>2, <2>3 DEF Local
  <1> QED
    BY <1>1, <1>2, <1>3, <1>4, <1>5, <1>6, <1>7, <1>8, <1>9, <1>10, <1>11, <1>12,
       <1>13 DEF CloseWindowAndMatch

\* So does every step of Tick;
LEMMA TickLocal ==
  ASSUME TypeOK, NEW w \in Workers, Tick(w) PROVE Local'
  <1>1. CASE Done(w) \/ CmReturn(w, TRUE) \/ CmReturn(w, FALSE)
    BY <1>1, DoneLocal, ReturnLocal
  <1>2. CASE TickRefused(w) \/ TickUnload(w) \/ TickRestore(w)
    BY <1>2, DoneLocal DEF TickRefused, TickUnload, TickRestore
  <1>3. CASE TickBegin(w)
    <2> USE <1>3, Ranges DEF TickBegin, Goto, Put, heldVars
    <2>1. HeldTypes'
      BY DEF TypeOK, SharedTypes, HeldTypes, HeldBy, Labels, Returns
    <2>2. HeldBy(w)'
      BY DEF TypeOK, HeldTypes, HeldBy
    <2>3. ASSUME NEW v \in Workers, v # w PROVE HeldBy(v)'
      BY <2>3 DEF TypeOK, HeldTypes, HeldBy
    <2> QED BY <2>1, <2>2, <2>3 DEF Local
  <1>4. CASE TickStay(w)
    BY <1>4, RunningClock, OpenLocal DEF TickStay
  <1>5. CASE TickAdvance(w)
    <2>1. cIdx[current] + 1 \in Days
      BY <1>5, RunningClock, NAssumption DEF TickAdvance, Days
    <2> QED
      BY <1>5, <2>1, OpenLocal, DoneLocal DEF TickAdvance
  <1>6. CASE ~(Done(w) \/ CmReturn(w, TRUE) \/ CmReturn(w, FALSE)) /\ TickLastDay(w)
    <2> USE <1>6, RunningClock, Ranges DEF TickLastDay, Goto, Put, heldVars
    <2>1. HeldTypes'
      BY DEF TypeOK, SharedTypes, HeldTypes, HeldBy, Labels, Returns
    <2>2. HeldBy(w)'
      BY DEF TypeOK, HeldTypes, HeldBy
    <2>3. ASSUME NEW v \in Workers, v # w PROVE HeldBy(v)'
      BY <2>3 DEF TypeOK, HeldTypes, HeldBy
    <2> QED BY <2>1, <2>2, <2>3 DEF Local
  <1>7. CASE ~(Done(w) \/ CmReturn(w, TRUE) \/ CmReturn(w, FALSE)) /\ TickFinish(w)
    <2> USE <1>7, Ranges DEF TickFinish, Goto, Put, heldVars
    <2>1. HeldTypes'
      BY DEF TypeOK, SharedTypes, HeldTypes, HeldBy, Labels, Returns
    <2>2. HeldBy(w)'
      BY DEF TypeOK, HeldTypes, HeldBy
    <2>3. ASSUME NEW v \in Workers, v # w PROVE HeldBy(v)'
      BY <2>3 DEF TypeOK, HeldTypes, HeldBy
    <2> QED BY <2>1, <2>2, <2>3 DEF Local
  <1>8. CASE TickSample(w)
    <2> USE <1>8, Ranges DEF TickSample, Goto, Put, heldVars
    <2>1. HeldTypes'
      BY DEF TypeOK, SharedTypes, HeldTypes, HeldBy, Labels, Returns
    <2>2. HeldBy(w)'
      BY DEF TypeOK, HeldTypes, HeldBy
    <2>3. ASSUME NEW v \in Workers, v # w PROVE HeldBy(v)'
      BY <2>3 DEF TypeOK, HeldTypes, HeldBy
    <2> QED BY <2>1, <2>2, <2>3 DEF Local
  <1>9. CASE ~(Done(w) \/ CmReturn(w, TRUE) \/ CmReturn(w, FALSE)) /\ TickPersist(w)
    <2> USE <1>9, Ranges DEF TickPersist, Goto, Put, heldVars
    <2>1. HeldTypes'
      BY DEF TypeOK, SharedTypes, HeldTypes, HeldBy, Labels, Returns
    <2>2. HeldBy(w)'
      BY DEF TypeOK, HeldTypes, HeldBy
    <2>3. ASSUME NEW v \in Workers, v # w PROVE HeldBy(v)'
      BY <2>3 DEF TypeOK, HeldTypes, HeldBy
    <2> QED BY <2>1, <2>2, <2>3 DEF Local
  <1> QED
    BY <1>1, <1>2, <1>3, <1>4, <1>5, <1>6, <1>7, <1>8, <1>9 DEF Tick

\* of Start;
LEMMA StartLocal ==
  ASSUME TypeOK, NEW w \in Workers, Start(w) PROVE Local'
  <1>1. CASE Done(w) \/ CmReturn(w, TRUE) \/ CmReturn(w, FALSE)
    BY <1>1, DoneLocal, ReturnLocal
  <1>2. CASE StartRunning(w) \/ StartDrop(w)
    BY <1>2, DoneLocal DEF StartRunning, StartDrop
  <1>3. CASE ~Done(w) /\ StartRead(w)
    <2>1. sIdx' = Put(sIdx, w, ResumeDay) /\ rLast' = Put(rLast, w, dbLast)
      BY <1>3 DEF StartRead
    <2>2. sIdx' \in [Workers -> DayOrNone] /\ rLast' \in [Workers -> DayOrNone]
      BY <2>1, ResumeIsDay, Ranges DEF Put, TypeOK, SharedTypes, HeldTypes
    <2>3. HeldTypes'
      BY <1>3, <2>2 DEF StartRead, Goto, TypeOK, HeldTypes, Labels
    <2>4. ASSUME NEW v \in Workers PROVE HeldBy(v)'
      BY <1>3, ResumeIsDay DEF StartRead, Goto, Put, TypeOK, HeldTypes, HeldBy
    <2> QED BY <2>3, <2>4 DEF Local
  <1>4. CASE StartPaused(w)
    <2> USE <1>4, LoadedClock, Ranges DEF StartPaused, Goto, Put, heldVars, Loaded
    <2>1. HeldTypes'
      BY DEF TypeOK, SharedTypes, HeldTypes, HeldBy, Labels, Returns
    <2>2. HeldBy(w)'
      BY DEF TypeOK, HeldTypes, HeldBy
    <2>3. ASSUME NEW v \in Workers, v # w PROVE HeldBy(v)'
      BY <2>3 DEF TypeOK, HeldTypes, HeldBy
    <2> QED BY <2>1, <2>2, <2>3 DEF Local
  <1>5. CASE StartLoad(w)
    <2> USE <1>5, Ranges DEF StartLoad, Goto, Put, heldVars, Unreachable
    <2>1. HeldTypes'
      BY DEF TypeOK, SharedTypes, HeldTypes, HeldBy, Labels, Returns
    <2>2. HeldBy(w)'
      BY DEF TypeOK, HeldTypes, HeldBy
    <2>3. ASSUME NEW v \in Workers, v # w PROVE HeldBy(v)'
      BY <2>3 DEF TypeOK, HeldTypes, HeldBy
    <2> QED BY <2>1, <2>2, <2>3 DEF Local
  <1>6. CASE StartSample(w)
    <2> USE <1>6, Ranges DEF StartSample, Goto, Put, heldVars
    <2>1. HeldTypes'
      BY DEF TypeOK, SharedTypes, HeldTypes, HeldBy, Labels, Returns
    <2>2. HeldBy(w)'
      BY DEF TypeOK, HeldTypes, HeldBy
    <2>3. ASSUME NEW v \in Workers, v # w PROVE HeldBy(v)'
      BY <2>3 DEF TypeOK, HeldTypes, HeldBy
    <2> QED BY <2>1, <2>2, <2>3 DEF Local
  <1>7. CASE ~(Done(w) \/ CmReturn(w, TRUE) \/ CmReturn(w, FALSE)) /\
      StartPersist(w)
    <2> USE <1>7, Ranges DEF StartPersist, Goto, Put, heldVars
    <2>1. HeldTypes'
      BY DEF TypeOK, SharedTypes, HeldTypes, HeldBy, Labels, Returns
    <2>2. HeldBy(w)'
      BY DEF TypeOK, HeldTypes, HeldBy
    <2>3. ASSUME NEW v \in Workers, v # w PROVE HeldBy(v)'
      BY <2>3 DEF TypeOK, HeldTypes, HeldBy
    <2> QED BY <2>1, <2>2, <2>3 DEF Local
  <1> QED
    BY <1>1, <1>2, <1>3, <1>4, <1>5, <1>6, <1>7 DEF Start

\* and of Proceed, Pause and the auto ticker.
LEMMA ControlLocal ==
  ASSUME TypeOK, NEW w \in Workers, ProceedRead(w) \/ ProceedReset(w) \/ Pause(w) \/
      Ticker(w) PROVE Local'
  <1>1. CASE Done(w) \/ CmReturn(w, TRUE) \/ CmReturn(w, FALSE)
    BY <1>1, DoneLocal, ReturnLocal
  <1>2. CASE ProceedRead(w)
    <2> USE <1>2, Ranges DEF ProceedRead, Goto, Put, heldVars
    <2>1. HeldTypes'
      BY DEF TypeOK, SharedTypes, HeldTypes, HeldBy, Labels, Returns
    <2>2. HeldBy(w)'
      BY DEF TypeOK, HeldTypes, HeldBy
    <2>3. ASSUME NEW v \in Workers, v # w PROVE HeldBy(v)'
      BY <2>3 DEF TypeOK, HeldTypes, HeldBy
    <2> QED BY <2>1, <2>2, <2>3 DEF Local
  <1>3. CASE ~(Done(w) \/ CmReturn(w, TRUE) \/ CmReturn(w, FALSE)) /\
      ProceedReset(w)
    <2> USE <1>3, Ranges DEF ProceedReset, Goto, Put, heldVars
    <2>1. HeldTypes'
      BY DEF TypeOK, SharedTypes, HeldTypes, HeldBy, Labels, Returns
    <2>2. HeldBy(w)'
      BY DEF TypeOK, HeldTypes, HeldBy
    <2>3. ASSUME NEW v \in Workers, v # w PROVE HeldBy(v)'
      BY <2>3 DEF TypeOK, HeldTypes, HeldBy
    <2> QED BY <2>1, <2>2, <2>3 DEF Local
  <1>4. CASE Pause(w)
    BY <1>4 DEF Pause, TypeOK, HeldTypes, HeldBy, heldVars, Local
  <1>5. CASE TickerExpired(w)
    <2> USE <1>5, Ranges DEF TickerExpired, Goto, Put, heldVars
    <2>1. HeldTypes'
      BY DEF TypeOK, SharedTypes, HeldTypes, HeldBy, Labels, Returns
    <2>2. HeldBy(w)'
      BY DEF TypeOK, HeldTypes, HeldBy
    <2>3. ASSUME NEW v \in Workers, v # w PROVE HeldBy(v)'
      BY <2>3 DEF TypeOK, HeldTypes, HeldBy
    <2> QED BY <2>1, <2>2, <2>3 DEF Local
  <1>6. CASE TickerDue(w)
    <2> USE <1>6, Ranges DEF TickerDue, Goto, Put, heldVars
    <2>1. HeldTypes'
      BY DEF TypeOK, SharedTypes, HeldTypes, HeldBy, Labels, Returns
    <2>2. HeldBy(w)'
      BY DEF TypeOK, HeldTypes, HeldBy
    <2>3. ASSUME NEW v \in Workers, v # w PROVE HeldBy(v)'
      BY <2>3 DEF TypeOK, HeldTypes, HeldBy
    <2> QED BY <2>1, <2>2, <2>3 DEF Local
  <1>7. CASE TickerGate(w)
    <2> USE <1>7, Ranges DEF TickerGate, Goto, Put, heldVars
    <2>1. HeldTypes'
      BY DEF TypeOK, SharedTypes, HeldTypes, HeldBy, Labels, Returns
    <2>2. HeldBy(w)'
      BY DEF TypeOK, HeldTypes, HeldBy
    <2>3. ASSUME NEW v \in Workers, v # w PROVE HeldBy(v)'
      BY <2>3 DEF TypeOK, HeldTypes, HeldBy
    <2> QED BY <2>1, <2>2, <2>3 DEF Local
  <1> QED
    BY <1>1, <1>2, <1>3, <1>4, <1>5, <1>6, <1>7 DEF Ticker

-----------------------------------------------------------------------------
(* The type invariant. *)

\* A simulation is created paused, with nothing in memory (simulation.Create).
LEMMA TypeInit == Init => TypeOK
  <1> SUFFICES ASSUME Init PROVE TypeOK
    OBVIOUS
  <1> USE Ranges DEF Init, NoneHeld
  <1>1. SharedTypes
    BY DEF SharedTypes, Statuses
  <1>2. HeldTypes
    BY DEF HeldTypes, Labels, Returns, Statuses
  <1>3. ASSUME NEW w \in Workers PROVE HeldBy(w)
    BY DEF HeldBy
  <1> QED BY <1>1, <1>2, <1>3 DEF TypeOK

\* A restart reads days and statuses from the row, and no goroutine survives it.
LEMMA TypeRestart == ASSUME TypeOK, CrashRestart PROVE TypeOK'
  <1> USE Ranges, ResumeIsDay DEF CrashRestart
  <1>1. SharedTypes'
    <2>1. crashes' \in Nat /\ window' \in DayOrNone
      BY DEF Forget, TypeOK, SharedTypes
    <2>2. CASE Resumed
      BY <2>1, <2>2 DEF Resumed, TypeOK, SharedTypes, Statuses, cfgVars, histVars
    <2>3. CASE NotLoaded
      <3>1. faults' \in Nat
        BY <2>3 DEF NotLoaded, TypeOK, SharedTypes
      <3>2. dbAsOf' \in DayOrNone
        BY <2>3 DEF NotLoaded, TypeOK, SharedTypes
      <3> QED
        BY <2>1, <2>3, <3>1, <3>2
           DEF NotLoaded, TypeOK, SharedTypes, Statuses, cfgVars, histVars
    <2> QED BY <2>2, <2>3
  <1>2. HeldTypes'
    BY DEF Forget, HeldTypes, Labels, Returns, Statuses
  <1>3. ASSUME NEW w \in Workers PROVE HeldBy(w)'
    BY DEF Forget, HeldBy
  <1> QED BY <1>1, <1>2, <1>3 DEF TypeOK

\* No step of the clock gives a variable a value outside its type, or leaves a
\* goroutine at a step whose pointer or date it has not set.
LEMMA TypeStep == TypeOK /\ [Next]_vars => TypeOK'
  <1> SUFFICES ASSUME TypeOK, [Next]_vars PROVE TypeOK'
    OBVIOUS
  <1>1. ASSUME NEW w \in Workers, Step(w) PROVE SharedTypes' /\ Local'
    <2>1. CASE CloseWindowAndMatch(w)
      BY <2>1, MatchShared, MatchLocal
    <2>2. CASE Tick(w)
      BY <2>2, TickShared, TickLocal
    <2>3. CASE Start(w)
      BY <2>3, StartShared, StartLocal
    <2>4. CASE ProceedRead(w) \/ ProceedReset(w) \/ Pause(w) \/ Ticker(w)
      BY <2>4, ControlShared, ControlLocal
    <2> QED BY <1>1, <2>1, <2>2, <2>3, <2>4 DEF Step
  <1>2. CASE CrashRestart
    BY <1>2, TypeRestart
  <1>3. CASE UNCHANGED vars
    BY <1>3 DEF vars, sysVars, clockVars, rowVars, cfgVars, histVars, heldVars,
       faultVars,
                TypeOK, SharedTypes, HeldTypes, HeldBy
  <1> QED BY <1>1, <1>2, <1>3 DEF Next, Local, TypeOK

\* In every execution of the clock, with any number of days, goroutines,
\* failures and crashes, each variable has its type, and no step of registry.go
\* or autotick.go follows a nil clock or uses a date it has not set.
THEOREM TypeCorrect == Spec => []TypeOK
  BY TypeInit, TypeStep, PTL DEF Spec

-----------------------------------------------------------------------------
(* The order of the days. *)

\* The days that may be played now: every day before them is matched.
Reached == {d \in DayOrNone : Before(d)}

\* The inductive invariant.  What is recorded as matched has been matched; what is
\* kept as a day to play, to write or to resume from has been reached; and
\* whoever says 'completed', or is about to write it, has seen every day matched.
SharedOrder ==
    /\ matched \subseteq Reached
    /\ {lastMatched, dbLast} \subseteq matched \cup {0}
    /\ \A o \in Clocks : cIdx[o] \in Reached
    /\ \A o \in Clocks : cStatus[o] = "completed" => AllMatched
    /\ window \in Reached /\ dbAsOf \in Reached
    /\ dbStatus = "completed" => AllMatched

LocalOrder(w) ==
    /\ rLast[w] \in matched \cup {0}
    /\ pc[w] \in {"record", "merge"} => day[w] \in matched
    /\ {day[w], prev[w], sIdx[w]} \subseteq Reached
    /\ sStatus[w] = "completed" \/ pc[w] = "finish" => AllMatched

OrderInv == SharedOrder /\ \A w \in Workers : LocalOrder(w)

\* Day 1, and no day at all, are always reached.
LEMMA FirstReached == 0 \in Reached /\ 1 \in Reached
  BY NAssumption DEF Reached, Before, DayOrNone, Days

\* A day once reached stays reached.
LEMMA ReachedGrows ==
  ASSUME matched \subseteq matched' PROVE Reached \subseteq Reached' /\ (AllMatched
      => AllMatched')
  BY DEF Reached, Before, AllMatched

\* A goroutine whose call is over keeps no day.
LEMMA DoneOrder ==
  ASSUME TypeOK, OrderInv, matched \subseteq matched', NEW w \in Workers, Done(w),
      NEW v \in Workers
  PROVE  LocalOrder(v)'
  BY FirstReached, ReachedGrows DEF TypeOK, HeldTypes, OrderInv, LocalOrder, Done,
     Goto, Put

\* CloseWindowAndMatch keeps no new day when it returns.
LEMMA ReturnOrder ==
  ASSUME TypeOK, OrderInv, matched \subseteq matched', NEW w \in Workers, NEW ok \in
      BOOLEAN,
         CmReturn(w, ok), NEW v \in Workers
  PROVE  LocalOrder(v)'
  <1>1. CASE Done(w)
    BY <1>1, DoneOrder
  <1>2. CASE ~Done(w)
    BY <1>2, FirstReached, ReachedGrows
       DEF TypeOK, HeldTypes, OrderInv, LocalOrder, CmReturn, Goto, Put, heldVars
  <1> QED BY <1>1, <1>2

\* Tick keeps the day of a clock.
LEMMA OpenOrder ==
  ASSUME TypeOK, OrderInv, matched \subseteq matched', NEW w \in Workers, NEW d,
         Running(current), OpenWindow(w, d), NEW v \in Workers
  PROVE  LocalOrder(v)'
  <1>1. cIdx[current] \in Reached'
    BY RunningClock, ReachedGrows DEF OrderInv, SharedOrder
  <1>2. LocalOrder(v) /\ Reached \subseteq Reached' /\ (AllMatched => AllMatched')
    BY ReachedGrows DEF OrderInv
  <1>3. prev' = Put(prev, w, cIdx[current]) /\ Goto(w, "ticksample")
    BY DEF OpenWindow
  <1> QED
    BY <1>1, <1>2, <1>3 DEF LocalOrder, OpenWindow, Goto, Put, TypeOK, HeldTypes

\* A step on locals only keeps the order of the shared state.
LEMMA LocalStepOrder == ASSUME OrderInv, UNCHANGED sysVars PROVE SharedOrder'
  <1>1. matched' = matched /\ Reached \subseteq Reached' /\ (AllMatched =>
      AllMatched')
    BY ReachedGrows DEF sysVars, histVars
  <1> QED
    BY <1>1 DEF OrderInv, SharedOrder, sysVars, clockVars, rowVars, cfgVars

\* UpdateClock writes a day that is reached.
LEMMA RowOrder ==
  ASSUME SharedOrder, matched \subseteq matched', NEW d \in Reached, NEW st \in
      Statuses,
         UpdateClock(d, st) \/ UpdateFails(d, st), st = "completed" => AllMatched
  PROVE  dbAsOf' \in Reached' /\ (dbStatus' = "completed" => AllMatched')
  BY ReachedGrows DEF SharedOrder, UpdateClock, UpdateFails, Write, rowVars

\* A clock whose day is matched may move to the next one ...
LEMMA NextReached ==
  ASSUME TypeOK, OrderInv, Running(current), ShouldAdvance(lastMatched,
      cIdx[current]),
         cIdx[current] < N
  PROVE  cIdx[current] + 1 \in Reached
  <1>1. cIdx[current] \in Days
    BY RunningClock
  <1>2. lastMatched \in matched /\ lastMatched >= cIdx[current] /\ lastMatched \in
      Days
    BY DEF OrderInv, SharedOrder, ShouldAdvance, TypeOK, SharedTypes
  <1>3. \A e \in Days : e < lastMatched => e \in matched
    BY <1>2 DEF OrderInv, SharedOrder, Reached, Before
  <1> QED
    BY <1>1, <1>2, <1>3, NAssumption DEF Reached, Before, Days, DayOrNone

\* ... and when there is none, every day is matched.
LEMMA LastReached ==
  ASSUME TypeOK, OrderInv, Running(current), ShouldAdvance(lastMatched,
      cIdx[current]),
         cIdx[current] >= N
  PROVE  AllMatched
  <1>1. cIdx[current] \in Days
    BY RunningClock
  <1>2. lastMatched \in matched /\ lastMatched >= cIdx[current] /\ lastMatched \in
      Days
    BY DEF OrderInv, SharedOrder, ShouldAdvance, TypeOK, SharedTypes
  <1>3. \A e \in Days : e < lastMatched => e \in matched
    BY <1>2 DEF OrderInv, SharedOrder, Reached, Before
  <1> QED
    BY <1>1, <1>2, <1>3, NAssumption DEF AllMatched, Days

\* No match is ever undone.
LEMMA HistoryStep == ASSUME NEW w \in Workers, Step(w) PROVE matched \subseteq
    matched'
  <1>1. CASE CloseWindowAndMatch(w)
    BY <1>1 DEF CloseWindowAndMatch, CmClose, CmMatch, CmRecord, CmMerge, CmReload,
       CmCount, CmCounted, CmGate, CmAwait, CmGateSample, CmGatePersist, CmShut,
       Commit, histVars, sysVars
  <1>2. CASE Tick(w)
    BY <1>2 DEF Tick, TickBegin, TickRefused, TickStay, TickAdvance, TickLastDay,
       TickFinish, TickUnload, TickSample, TickPersist, TickRestore, Commit,
       histVars, sysVars
  <1>3. CASE Start(w)
    BY <1>3 DEF Start, StartRead, StartRunning, StartPaused, StartLoad, StartSample,
       StartPersist, StartDrop, Commit, histVars, sysVars
  <1>4. CASE ProceedRead(w) \/ ProceedReset(w) \/ Pause(w) \/ Ticker(w)
    BY <1>4 DEF Ticker, ProceedRead, ProceedReset, Pause, TickerExpired, TickerDue,
       TickerGate, Commit, histVars, sysVars
  <1> QED BY <1>1, <1>2, <1>3, <1>4 DEF Step

\* Every step of CloseWindowAndMatch keeps the days in order.
LEMMA MatchOrder ==
  ASSUME TypeOK, OrderInv, NEW w \in Workers, CloseWindowAndMatch(w)
  PROVE  OrderInv'
  <1>0. matched \subseteq matched'
    BY HistoryStep DEF Step
  <1>1. ASSUME Done(w) \/ CmReturn(w, TRUE) \/ CmReturn(w, FALSE), NEW v \in Workers
      PROVE LocalOrder(v)'
    BY <1>0, <1>1, DoneOrder, ReturnOrder
  <1> USE FirstReached, ReachedGrows, <1>0
  <1>2. CASE CmClose(w)
    <2>1. SharedOrder'
      BY <1>2 DEF CmClose, OrderInv, SharedOrder, TypeOK, SharedTypes, clockVars,
         rowVars, cfgVars, histVars
    <2>2. window \in Reached'
      BY DEF OrderInv, SharedOrder
    <2>3. ASSUME WindowOpen, NEW v \in Workers PROVE LocalOrder(v)'
      BY <1>2, <2>2, <2>3 DEF CmClose, OrderInv, LocalOrder, TypeOK, HeldTypes,
         Goto, Put, histVars
    <2>4. ASSUME ~WindowOpen, NEW v \in Workers PROVE LocalOrder(v)'
      BY <1>2, <1>1, <2>4 DEF CmClose
    <2> QED BY <2>1, <2>3, <2>4 DEF OrderInv
  <1>3. CASE CmMatch(w)
    <2>1. SharedOrder'
      BY <1>3 DEF CmMatch, Commit, LocalOrder, OrderInv, SharedOrder, TypeOK,
         SharedTypes, sysVars, clockVars, rowVars, cfgVars, histVars
    <2>2. ASSUME NEW v \in Workers PROVE LocalOrder(v)'
      BY <1>3, <1>1 DEF CmMatch, Commit, OrderInv, SharedOrder, LocalOrder, TypeOK,
         HeldTypes, Goto, Put, heldVars, sysVars, histVars
    <2> QED BY <2>1, <2>2 DEF OrderInv
  <1>4. CASE CmRecord(w)
    <2>1. SharedOrder'
      BY <1>4 DEF CmRecord, LocalOrder, OrderInv, SharedOrder, TypeOK, SharedTypes,
         sysVars, clockVars, rowVars, cfgVars, histVars
    <2>2. ASSUME NEW v \in Workers PROVE LocalOrder(v)'
      BY <1>4, <1>1 DEF CmRecord, OrderInv, SharedOrder, LocalOrder, TypeOK,
         HeldTypes, Goto, Put, heldVars, sysVars, histVars
    <2> QED BY <2>1, <2>2 DEF OrderInv
  <1>5. CASE CmMerge(w)
    <2>1. SharedOrder'
      BY <1>5 DEF CmMerge, LocalOrder, OrderInv, SharedOrder, TypeOK, SharedTypes,
         sysVars, clockVars, rowVars, cfgVars, histVars
    <2>2. ASSUME NEW v \in Workers PROVE LocalOrder(v)'
      BY <1>5, <1>1 DEF CmMerge, OrderInv, SharedOrder, LocalOrder, TypeOK,
         HeldTypes, Goto, Put, heldVars, sysVars, histVars
    <2> QED BY <2>1, <2>2 DEF OrderInv
  <1>6. CASE CmReload(w)
    <2>1. SharedOrder'
      BY <1>6, LocalStepOrder DEF CmReload
    <2>2. ASSUME NEW v \in Workers PROVE LocalOrder(v)'
      BY <1>6, <1>1 DEF CmReload, OrderInv, LocalOrder, TypeOK, HeldTypes, Goto,
         Put, heldVars, sysVars, histVars
    <2> QED BY <2>1, <2>2 DEF OrderInv
  <1>7. CASE CmCount(w)
    <2>1. SharedOrder'
      BY <1>7, LocalStepOrder DEF CmCount
    <2>2. ASSUME NEW v \in Workers PROVE LocalOrder(v)'
      BY <1>7, <1>1 DEF CmCount, OrderInv, LocalOrder, TypeOK, HeldTypes, Goto, Put,
         heldVars, sysVars, histVars
    <2> QED BY <2>1, <2>2 DEF OrderInv
  <1>8. CASE CmCounted(w)
    <2>1. SharedOrder'
      BY <1>8 DEF CmCounted, OrderInv, SharedOrder, TypeOK, SharedTypes, sysVars,
         clockVars, rowVars, cfgVars, histVars
    <2>2. ASSUME NEW v \in Workers PROVE LocalOrder(v)'
      BY <1>8, <1>1 DEF CmCounted, OrderInv, SharedOrder, LocalOrder, TypeOK,
         HeldTypes, Goto, Put, heldVars, sysVars, histVars
    <2> QED BY <2>1, <2>2 DEF OrderInv
  <1>9. CASE CmGate(w)
    <2>1. SharedOrder'
      BY <1>9 DEF CmGate, OrderInv, SharedOrder, TypeOK, SharedTypes, sysVars,
         clockVars, rowVars, cfgVars, histVars
    <2>2. ASSUME NEW v \in Workers PROVE LocalOrder(v)'
      BY <1>9, <1>1 DEF CmGate, OrderInv, SharedOrder, LocalOrder, TypeOK,
         HeldTypes, Goto, Put, heldVars, sysVars, histVars
    <2> QED BY <2>1, <2>2 DEF OrderInv
  <1>10. CASE CmAwait(w)
    <2>1. SharedOrder'
      BY <1>10 DEF CmAwait, OrderInv, SharedOrder, TypeOK, SharedTypes, sysVars,
         clockVars, rowVars, cfgVars, histVars
    <2>2. ASSUME NEW v \in Workers PROVE LocalOrder(v)'
      BY <1>10, <1>1 DEF CmAwait, OrderInv, SharedOrder, LocalOrder, TypeOK,
         HeldTypes, Goto, Put, heldVars, sysVars, histVars
    <2> QED BY <2>1, <2>2 DEF OrderInv
  <1>11. CASE CmGateSample(w)
    <2>1. SharedOrder'
      BY <1>11, LocalStepOrder DEF CmGateSample
    <2>2. ASSUME NEW v \in Workers PROVE LocalOrder(v)'
      BY <1>11, <1>1 DEF CmGateSample, HeldBy, OrderInv, SharedOrder, SharedTypes,
         LocalOrder, TypeOK, HeldTypes, Goto, Put, heldVars, sysVars, histVars
    <2> QED BY <2>1, <2>2 DEF OrderInv
  <1>12. CASE CmGatePersist(w)
    <2>1. SharedOrder'
      BY RowOrder, <1>12 DEF CmGatePersist, LocalOrder, HeldTypes, Statuses,
         OrderInv, SharedOrder, TypeOK, SharedTypes, sysVars, clockVars, rowVars,
         cfgVars, histVars
    <2>2. ASSUME NEW v \in Workers PROVE LocalOrder(v)'
      BY <1>12, <1>1 DEF CmGatePersist, OrderInv, SharedOrder, LocalOrder, TypeOK,
         HeldTypes, Goto, Put, heldVars, sysVars, histVars
    <2> QED BY <2>1, <2>2 DEF OrderInv
  <1>13. CASE CmShut(w)
    <2>1. SharedOrder'
      BY <1>13 DEF CmShut, OrderInv, SharedOrder, TypeOK, SharedTypes, sysVars,
         clockVars, rowVars, cfgVars, histVars
    <2>2. ASSUME NEW v \in Workers PROVE LocalOrder(v)'
      BY <1>13, <1>1 DEF CmShut, OrderInv, SharedOrder, LocalOrder, TypeOK,
         HeldTypes, Goto, Put, heldVars, sysVars, histVars
    <2> QED BY <2>1, <2>2 DEF OrderInv
  <1> QED
    BY <1>2, <1>3, <1>4, <1>5, <1>6, <1>7, <1>8, <1>9, <1>10, <1>11, <1>12, <1>13
       DEF CloseWindowAndMatch

\* So does every step of Tick;
LEMMA TickOrder ==
  ASSUME TypeOK, OrderInv, NEW w \in Workers, Tick(w)
  PROVE  OrderInv'
  <1>0. matched \subseteq matched'
    BY HistoryStep DEF Step
  <1>1. ASSUME Done(w) \/ CmReturn(w, TRUE) \/ CmReturn(w, FALSE), NEW v \in Workers
      PROVE LocalOrder(v)'
    BY <1>0, <1>1, DoneOrder, ReturnOrder
  <1> USE FirstReached, ReachedGrows, <1>0
  <1>2. CASE TickBegin(w)
    <2>1. SharedOrder'
      BY <1>2, LocalStepOrder DEF TickBegin
    <2>2. ASSUME NEW v \in Workers PROVE LocalOrder(v)'
      BY <1>2, <1>1 DEF TickBegin, OrderInv, LocalOrder, TypeOK, HeldTypes, Goto,
         Put, heldVars, sysVars, histVars
    <2> QED BY <2>1, <2>2 DEF OrderInv
  <1>3. CASE TickRefused(w)
    BY <1>3, <1>1, LocalStepOrder DEF TickRefused, OrderInv
  <1>4. CASE TickStay(w)
    <2>1. SharedOrder'
      BY <1>4, RunningClock DEF TickStay, OpenWindow, OrderInv, SharedOrder,
         clockVars, rowVars, cfgVars, histVars
    <2>2. ASSUME NEW v \in Workers PROVE LocalOrder(v)'
      BY <1>4, OpenOrder DEF TickStay
    <2> QED BY <2>1, <2>2 DEF OrderInv
  <1>5. CASE TickAdvance(w)
    <2>1. cIdx[current] + 1 \in Reached'
      BY <1>5, NextReached DEF TickAdvance
    <2>2. SharedOrder'
      BY <1>5, <2>1, RunningClock DEF TickAdvance, OpenWindow, OrderInv,
         SharedOrder, TypeOK, SharedTypes, clockVars, rowVars, cfgVars, histVars
    <2>3. ASSUME NEW v \in Workers PROVE LocalOrder(v)'
      BY <1>5, <1>1, OpenOrder DEF TickAdvance
    <2> QED BY <2>2, <2>3 DEF OrderInv
  <1>6. CASE TickLastDay(w)
    <2>1. SharedOrder'
      BY LastReached, <1>6 DEF TickLastDay, OrderInv, SharedOrder, TypeOK,
         SharedTypes, sysVars, clockVars, rowVars, cfgVars, histVars
    <2>2. ASSUME NEW v \in Workers PROVE LocalOrder(v)'
      BY RunningClock, LastReached, <1>6, <1>1 DEF TickLastDay, OrderInv,
         SharedOrder, LocalOrder, TypeOK, HeldTypes, Goto, Put, heldVars, sysVars,
         histVars
    <2> QED BY <2>1, <2>2 DEF OrderInv
  <1>7. CASE TickFinish(w)
    <2>1. SharedOrder'
      BY RowOrder, <1>7 DEF TickFinish, LocalOrder, HeldTypes, Statuses, OrderInv,
         SharedOrder, TypeOK, SharedTypes, sysVars, clockVars, rowVars, cfgVars,
         histVars
    <2>2. ASSUME NEW v \in Workers PROVE LocalOrder(v)'
      BY <1>7, <1>1 DEF TickFinish, OrderInv, SharedOrder, LocalOrder, TypeOK,
         HeldTypes, Goto, Put, heldVars, sysVars, histVars
    <2> QED BY <2>1, <2>2 DEF OrderInv
  <1>8. CASE TickUnload(w)
    <2>1. SharedOrder'
      BY <1>8 DEF TickUnload, OrderInv, SharedOrder, TypeOK, SharedTypes, sysVars,
         clockVars, rowVars, cfgVars, histVars
    <2>2. ASSUME NEW v \in Workers PROVE LocalOrder(v)'
      BY <1>8, <1>1 DEF TickUnload, OrderInv, SharedOrder, LocalOrder, TypeOK,
         HeldTypes, Goto, Put, heldVars, sysVars, histVars
    <2> QED BY <2>1, <2>2 DEF OrderInv
  <1>9. CASE TickSample(w)
    <2>1. SharedOrder'
      BY <1>9, LocalStepOrder DEF TickSample
    <2>2. ASSUME NEW v \in Workers PROVE LocalOrder(v)'
      BY <1>9, <1>1 DEF TickSample, HeldBy, OrderInv, SharedOrder, SharedTypes,
         LocalOrder, TypeOK, HeldTypes, Goto, Put, heldVars, sysVars, histVars
    <2> QED BY <2>1, <2>2 DEF OrderInv
  <1>10. CASE TickPersist(w)
    <2>1. SharedOrder'
      BY RowOrder, <1>10 DEF TickPersist, LocalOrder, HeldTypes, Statuses, OrderInv,
         SharedOrder, TypeOK, SharedTypes, sysVars, clockVars, rowVars, cfgVars,
         histVars
    <2>2. ASSUME NEW v \in Workers PROVE LocalOrder(v)'
      BY <1>10, <1>1 DEF TickPersist, OrderInv, SharedOrder, LocalOrder, TypeOK,
         HeldTypes, Goto, Put, heldVars, sysVars, histVars
    <2> QED BY <2>1, <2>2 DEF OrderInv
  <1>11. CASE TickRestore(w)
    <2>1. SharedOrder'
      BY <1>11 DEF TickRestore, HeldBy, LocalOrder, OrderInv, SharedOrder, TypeOK,
         SharedTypes, sysVars, clockVars, rowVars, cfgVars, histVars
    <2>2. ASSUME NEW v \in Workers PROVE LocalOrder(v)'
      BY <1>11, <1>1 DEF TickRestore, OrderInv, SharedOrder, LocalOrder, TypeOK,
         HeldTypes, Goto, Put, heldVars, sysVars, histVars
    <2> QED BY <2>1, <2>2 DEF OrderInv
  <1> QED
    BY <1>2, <1>3, <1>4, <1>5, <1>6, <1>7, <1>8, <1>9, <1>10, <1>11 DEF Tick

\* of Start;
LEMMA StartOrder ==
  ASSUME TypeOK, OrderInv, NEW w \in Workers, Start(w)
  PROVE  OrderInv'
  <1>0. matched \subseteq matched'
    BY HistoryStep DEF Step
  <1>1. ASSUME Done(w) \/ CmReturn(w, TRUE) \/ CmReturn(w, FALSE), NEW v \in Workers
      PROVE LocalOrder(v)'
    BY <1>0, <1>1, DoneOrder, ReturnOrder
  <1> USE FirstReached, ReachedGrows, <1>0
  <1>2. CASE StartRead(w)
    <2>1. SharedOrder'
      BY <1>2, LocalStepOrder DEF StartRead
    <2>2. ResumeDay \in Reached' /\ dbLast \in matched' \cup {0}
      BY DEF ResumeDay, OrderInv, SharedOrder
    <2>3. ASSUME ~Done(w), NEW v \in Workers PROVE LocalOrder(v)'
      BY <1>2, <2>2, <2>3 DEF StartRead, OrderInv, LocalOrder, TypeOK, HeldTypes,
         Goto, Put
    <2> QED BY <1>1, <2>1, <2>3 DEF OrderInv
  <1>3. CASE StartRunning(w)
    BY <1>3, <1>1, LocalStepOrder DEF StartRunning, OrderInv
  <1>4. CASE StartPaused(w)
    <2>1. SharedOrder'
      BY <1>4 DEF StartPaused, OrderInv, SharedOrder, TypeOK, SharedTypes, sysVars,
         clockVars, rowVars, cfgVars, histVars
    <2>2. ASSUME NEW v \in Workers PROVE LocalOrder(v)'
      BY <1>4, <1>1 DEF StartPaused, OrderInv, SharedOrder, LocalOrder, TypeOK,
         HeldTypes, Goto, Put, heldVars, sysVars, histVars
    <2> QED BY <2>1, <2>2 DEF OrderInv
  <1>5. CASE StartLoad(w)
    <2>1. SharedOrder'
      BY <1>5 DEF StartLoad, NewClock, Unreachable, LocalOrder, OrderInv,
         SharedOrder, TypeOK, SharedTypes, sysVars, clockVars, rowVars, cfgVars,
         histVars
    <2>2. ASSUME NEW v \in Workers PROVE LocalOrder(v)'
      BY <1>5, <1>1 DEF StartLoad, OrderInv, SharedOrder, LocalOrder, TypeOK,
         HeldTypes, Goto, Put, heldVars, sysVars, histVars
    <2> QED BY <2>1, <2>2 DEF OrderInv
  <1>6. CASE StartSample(w)
    <2>1. SharedOrder'
      BY <1>6, LocalStepOrder DEF StartSample
    <2>2. ASSUME NEW v \in Workers PROVE LocalOrder(v)'
      BY <1>6, <1>1 DEF StartSample, HeldBy, OrderInv, SharedOrder, SharedTypes,
         LocalOrder, TypeOK, HeldTypes, Goto, Put, heldVars, sysVars, histVars
    <2> QED BY <2>1, <2>2 DEF OrderInv
  <1>7. CASE StartPersist(w)
    <2>1. SharedOrder'
      BY RowOrder, <1>7 DEF StartPersist, LocalOrder, HeldTypes, Statuses, OrderInv,
         SharedOrder, TypeOK, SharedTypes, sysVars, clockVars, rowVars, cfgVars,
         histVars
    <2>2. ASSUME NEW v \in Workers PROVE LocalOrder(v)'
      BY <1>7, <1>1 DEF StartPersist, OrderInv, SharedOrder, LocalOrder, TypeOK,
         HeldTypes, Goto, Put, heldVars, sysVars, histVars
    <2> QED BY <2>1, <2>2 DEF OrderInv
  <1>8. CASE StartDrop(w)
    <2>1. SharedOrder'
      BY <1>8 DEF StartDrop, OrderInv, SharedOrder, TypeOK, SharedTypes, sysVars,
         clockVars, rowVars, cfgVars, histVars
    <2>2. ASSUME NEW v \in Workers PROVE LocalOrder(v)'
      BY <1>8, <1>1 DEF StartDrop, OrderInv, SharedOrder, LocalOrder, TypeOK,
         HeldTypes, Goto, Put, heldVars, sysVars, histVars
    <2> QED BY <2>1, <2>2 DEF OrderInv
  <1> QED
    BY <1>2, <1>3, <1>4, <1>5, <1>6, <1>7, <1>8 DEF Start

\* and of Proceed, Pause and the auto ticker.
LEMMA ControlOrder ==
  ASSUME TypeOK, OrderInv, NEW w \in Workers, ProceedRead(w) \/ ProceedReset(w) \/
      Pause(w) \/ Ticker(w)
  PROVE  OrderInv'
  <1>0. matched \subseteq matched'
    BY HistoryStep DEF Step
  <1>1. ASSUME Done(w) \/ CmReturn(w, TRUE) \/ CmReturn(w, FALSE), NEW v \in Workers
      PROVE LocalOrder(v)'
    BY <1>0, <1>1, DoneOrder, ReturnOrder
  <1> USE FirstReached, ReachedGrows, <1>0
  <1>2. CASE ProceedRead(w)
    <2>1. SharedOrder'
      BY <1>2, LocalStepOrder DEF ProceedRead
    <2>2. ASSUME NEW v \in Workers PROVE LocalOrder(v)'
      BY <1>2, <1>1 DEF ProceedRead, OrderInv, LocalOrder, TypeOK, HeldTypes, Goto,
         Put, heldVars, sysVars, histVars
    <2> QED BY <2>1, <2>2 DEF OrderInv
  <1>3. CASE ProceedReset(w)
    <2>1. SharedOrder'
      BY <1>3 DEF ProceedReset, OrderInv, SharedOrder, TypeOK, SharedTypes, sysVars,
         clockVars, rowVars, cfgVars, histVars
    <2>2. ASSUME NEW v \in Workers PROVE LocalOrder(v)'
      BY <1>3, <1>1 DEF ProceedReset, OrderInv, SharedOrder, LocalOrder, TypeOK,
         HeldTypes, Goto, Put, heldVars, sysVars, histVars
    <2> QED BY <2>1, <2>2 DEF OrderInv
  <1>4. CASE Pause(w)
    <2>1. SharedOrder'
      BY RowOrder, LoadedClock, <1>4 DEF Pause, Statuses, OrderInv, SharedOrder,
         TypeOK, SharedTypes, sysVars, clockVars, rowVars, cfgVars, histVars
    <2>2. ASSUME NEW v \in Workers PROVE LocalOrder(v)'
      BY <1>4, <1>1 DEF Pause, OrderInv, SharedOrder, LocalOrder, TypeOK, HeldTypes,
         Goto, Put, heldVars, sysVars, histVars
    <2> QED BY <2>1, <2>2 DEF OrderInv
  <1>5. CASE TickerExpired(w)
    <2>1. SharedOrder'
      BY <1>5, LocalStepOrder DEF TickerExpired
    <2>2. ASSUME NEW v \in Workers PROVE LocalOrder(v)'
      BY <1>5, <1>1 DEF TickerExpired, OrderInv, LocalOrder, TypeOK, HeldTypes,
         Goto, Put, heldVars, sysVars, histVars
    <2> QED BY <2>1, <2>2 DEF OrderInv
  <1>6. CASE TickerDue(w)
    <2>1. SharedOrder'
      BY <1>6, LocalStepOrder DEF TickerDue
    <2>2. ASSUME NEW v \in Workers PROVE LocalOrder(v)'
      BY <1>6, <1>1 DEF TickerDue, OrderInv, LocalOrder, TypeOK, HeldTypes, Goto,
         Put, heldVars, sysVars, histVars
    <2> QED BY <2>1, <2>2 DEF OrderInv
  <1>7. CASE TickerGate(w)
    <2>1. SharedOrder'
      BY <1>7, LocalStepOrder DEF TickerGate
    <2>2. ASSUME NEW v \in Workers PROVE LocalOrder(v)'
      BY <1>7, <1>1 DEF TickerGate, OrderInv, LocalOrder, TypeOK, HeldTypes, Goto,
         Put, heldVars, sysVars, histVars
    <2> QED BY <2>1, <2>2 DEF OrderInv
  <1> QED
    BY <1>2, <1>3, <1>4, <1>5, <1>6, <1>7 DEF Ticker

\* A new simulation has no day past its first, and nothing recorded.
LEMMA InitialOrder == Init => OrderInv
  BY FirstReached DEF Init, NoneHeld, OrderInv, SharedOrder, LocalOrder

\* A restart resumes from a day that was reached, with what was recorded.
LEMMA OrderRestart == ASSUME TypeOK, OrderInv, CrashRestart PROVE OrderInv'
  <1>1. matched' = matched /\ Reached \subseteq Reached' /\ (AllMatched =>
      AllMatched')
    BY ReachedGrows DEF CrashRestart, histVars
  <1>2. {dbAsOf, ResumeDay} \subseteq Reached'
    BY <1>1, FirstReached DEF ResumeDay, OrderInv, SharedOrder
  <1>3. SharedOrder'
    <2> USE <1>1, <1>2, FirstReached DEF CrashRestart, Forget, OrderInv,
        SharedOrder, cfgVars
    <2>1. CASE Resumed
      BY <2>1 DEF Resumed
    <2>2. CASE NotLoaded
      BY <2>2 DEF NotLoaded
    <2> QED BY <2>1, <2>2
  <1>4. ASSUME NEW w \in Workers PROVE LocalOrder(w)'
    BY <1>1, FirstReached DEF CrashRestart, Forget, LocalOrder
  <1> QED BY <1>3, <1>4 DEF OrderInv

\* No step brings a day forward before the days before it are matched.
LEMMA OrderStep == TypeOK /\ OrderInv /\ [Next]_vars => OrderInv'
  <1> SUFFICES ASSUME TypeOK, OrderInv, [Next]_vars PROVE OrderInv'
    OBVIOUS
  <1>1. ASSUME NEW w \in Workers, Step(w) PROVE OrderInv'
    BY <1>1, MatchOrder, TickOrder, StartOrder, ControlOrder DEF Step
  <1>2. CASE CrashRestart
    BY <1>2, OrderRestart
  <1>3. CASE UNCHANGED vars
    <2>1. matched' = matched /\ Reached' = Reached /\ (AllMatched => AllMatched')
      BY <1>3 DEF vars, sysVars, histVars, Reached, Before, AllMatched
    <2>2. SharedOrder'
      BY <1>3, <2>1 DEF vars, sysVars, clockVars, rowVars, cfgVars, OrderInv,
         SharedOrder
    <2>3. ASSUME NEW w \in Workers PROVE LocalOrder(w)'
      BY <1>3, <2>1 DEF vars, heldVars, OrderInv, LocalOrder
    <2> QED BY <2>2, <2>3 DEF OrderInv
  <1> QED BY <1>1, <1>2, <1>3 DEF Next

\* OrderInv holds in every state.
THEOREM OrderCorrect == Spec => []OrderInv
  BY TypeInit, TypeStep, InitialOrder, OrderStep, PTL DEF Spec

\* What OrderInv says of one day.
LEMMA ReachedIsBefore == ASSUME NEW d \in Reached PROVE Before(d)
  BY DEF Reached

\* No trading day is skipped, in any execution: neither the clock, nor the open
\* window, nor the row is past a day whose match has not committed, and only the
\* end of the calendar completes a simulation (Registry.Tick, ResumePersisted).
THEOREM DaysInOrder == Spec => []NoDaySkipped
  <1>1. TypeOK /\ OrderInv => NoDaySkipped
    <2> SUFFICES ASSUME TypeOK, OrderInv PROVE NoDaySkipped
      OBVIOUS
    <2>1. \A d \in matched : Before(d)
      BY ReachedIsBefore DEF OrderInv, SharedOrder
    <2>2. current # 0 => Before(cIdx[current])
      BY LoadedClock, ReachedIsBefore DEF OrderInv, SharedOrder
    <2>3. Before(window) /\ Before(dbAsOf)
      BY ReachedIsBefore DEF OrderInv, SharedOrder
    <2> QED BY <2>1, <2>2, <2>3 DEF NoDaySkipped, OrderInv, SharedOrder
  <1> QED BY <1>1, TypeCorrect, OrderCorrect, PTL

\* What memory or the row records as matched has a committed match transaction,
\* in any execution (CloseWindowAndMatch, NewSimClockAt after a restart).
THEOREM RecordIsTrue == Spec => []RecordedWasMatched
  <1>1. OrderInv => RecordedWasMatched
    BY DEF OrderInv, SharedOrder, RecordedWasMatched
  <1> QED BY <1>1, OrderCorrect, PTL

-----------------------------------------------------------------------------
(* Refinement. *)

\* A step commits the match of at most one day, one that is reached, and leaves
\* the row alone when it does.
LEMMA OneMatchAStep ==
  ASSUME TypeOK, OrderInv, [Next]_vars
  PROVE  \/ matched' = matched
         \/ \E d \in Reached \cap Days : matched' = matched \cup {d} /\ dbStatus' =
             dbStatus
  <1>1. ASSUME NEW w \in Workers, CmMatch(w), matched' # matched
        PROVE  \E d \in Reached \cap Days : matched' = matched \cup {d} /\ dbStatus'
            = dbStatus
    <2>1. day[w] \in Days
      BY <1>1 DEF CmMatch, TypeOK, HeldBy
    <2>2. day[w] \in Reached
      BY DEF OrderInv, LocalOrder
    <2>3. matched' = matched \cup {day[w]} /\ dbStatus' = dbStatus
      BY <1>1 DEF CmMatch, Commit, histVars, rowVars
    <2> QED BY <2>1, <2>2, <2>3
  <1>2. ASSUME NEW w \in Workers, CloseWindowAndMatch(w), ~CmMatch(w) PROVE matched'
      = matched
    BY <1>2 DEF CloseWindowAndMatch, CmClose, CmRecord, CmMerge, CmReload, CmCount,
       CmCounted,
                CmGate, CmAwait, CmGateSample, CmGatePersist, CmShut, histVars,
                    sysVars
  <1>3. ASSUME NEW w \in Workers, Tick(w) PROVE matched' = matched
    BY <1>3 DEF Tick, TickBegin, TickRefused, TickStay, TickAdvance, TickLastDay,
       TickFinish,
                TickUnload, TickSample, TickPersist, TickRestore, histVars, sysVars
  <1>4. ASSUME NEW w \in Workers, Start(w) PROVE matched' = matched
    BY <1>4 DEF Start, StartRead, StartRunning, StartPaused, StartLoad, StartSample,
                StartPersist, StartDrop, histVars, sysVars
  <1>5. ASSUME NEW w \in Workers, ProceedRead(w) \/ ProceedReset(w) \/ Pause(w) \/
      Ticker(w)
        PROVE  matched' = matched
    BY <1>5 DEF ProceedRead, ProceedReset, Pause, Ticker, TickerExpired, TickerDue,
       TickerGate,
                histVars, sysVars
  <1>6. CASE CrashRestart \/ UNCHANGED vars
    BY <1>6 DEF CrashRestart, vars, sysVars, histVars
  <1> QED BY <1>1, <1>2, <1>3, <1>4, <1>5, <1>6 DEF Next, Step

\* The clock implements Playback: whatever interleaves, fails or crashes, the days
\* are played once each and in order, and the simulation is closed only when all
\* of them have been (Registry.Tick, CloseWindowAndMatch, Start).
THEOREM PlaybackImplemented == Spec => ImplementsPlayback
  <1>1. Init => Playback!Init
    BY DEF Init, Playback!Init
  <1>2. ASSUME TypeOK, OrderInv, OrderInv', [Next]_vars
        PROVE  [Playback!Next]_<<matched, dbStatus = "completed">>
    <2>1. CASE matched' = matched
      <3>1. dbStatus' = "completed" => Days \subseteq matched
        BY <1>2, <2>1 DEF OrderInv, SharedOrder, AllMatched
      <3>2. CASE dbStatus' = "completed"
        BY <2>1, <3>1, <3>2 DEF Playback!Next, Playback!Close, Days
      <3>3. CASE dbStatus' # "completed"
        BY <2>1, <3>3 DEF Playback!Next, Playback!Reopen
      <3> QED BY <3>2, <3>3
    <2>2. ASSUME NEW d \in Reached \cap Days, matched' = matched \cup {d}, dbStatus'
        = dbStatus
          PROVE  Playback!Play \/ matched' = matched
      <3>1. d \in 1..N /\ \A e \in 1..N : e < d => e \in matched
        BY ReachedIsBefore DEF Before, Days
      <3> QED BY <2>2, <3>1 DEF Playback!Play
    <2> QED BY <1>2, <2>1, <2>2, OneMatchAStep DEF Playback!Next
  <1> QED
    BY <1>1, <1>2, TypeCorrect, OrderCorrect, PTL DEF Spec, ImplementsPlayback,
       Playback!Spec

-----------------------------------------------------------------------------
(* While clients leave ticking to the auto ticker *)

\* RunAutoTicker is one goroutine, and no client asks for a tick.
TickerOnly == "tick" \notin Ops /\ \A t, u \in Tickers : t = u

-----------------------------------------------------------------------------
(* Who takes which step *)

RequestLabels == {"startlock", "startsample", "startpersist", "startdrop", "resumesample",
                  "resumepersist", "proceedreset", "proceedstart"}

\* Requests only start, pause and proceed; only the ticker ticks and matches.
RolesInv ==
    /\ \A r \in Requests : pc[r] \in RequestLabels \cup {"idle"}
    /\ \A t \in Tickers : pc[t] \notin RequestLabels

RequestStep(w) == Start(w) \/ ProceedRead(w) \/ ProceedReset(w) \/ Pause(w)
TickerStep(w) == CloseWindowAndMatch(w) \/ Tick(w) \/ Ticker(w)

LEMMA Roles ==
  ASSUME TickerOnly, RolesInv, NEW w \in Workers, Step(w)
  PROVE  \/ w \in Requests /\ RequestStep(w)
         \/ w \in Tickers /\ TickerStep(w)
  <1>1. CASE w \in Requests
    <2>1. pc[w] \in RequestLabels \cup {"idle"} /\ w \notin Tickers
      BY <1>1, WorkersAssumption DEF RolesInv
    <2>2. ~CloseWindowAndMatch(w)
      BY <2>1
         DEF RequestLabels, CloseWindowAndMatch, CmClose, CmMatch, CmRecord, CmMerge, CmReload, CmCount,
             CmCounted, CmGate, CmAwait, CmGateSample, CmGatePersist, CmShut
    <2>3. ~Tick(w)
      BY <2>1
         DEF RequestLabels, TickerOnly, Accept, Tick, TickBegin, TickRefused, TickStay, TickAdvance,
             TickLastDay, TickFinish, TickUnload, TickSample, TickPersist, TickRestore
    <2>4. ~Ticker(w)
      BY <2>1 DEF RequestLabels, Ticker, TickerExpired, TickerDue, TickerGate
    <2> QED BY <1>1, <2>2, <2>3, <2>4 DEF Step, RequestStep
  <1>2. CASE w \in Tickers
    <2>1. pc[w] \notin RequestLabels /\ w \notin Requests
      BY <1>2, WorkersAssumption DEF RolesInv
    <2>2. ~RequestStep(w)
      BY <2>1
         DEF RequestLabels, RequestStep, Accept, Start, StartRead, StartRunning, StartPaused, StartLoad,
             StartSample, StartPersist, StartDrop, ProceedRead, ProceedReset, Pause
    <2> QED BY <1>2, <2>2 DEF Step, RequestStep, TickerStep
  <1> QED BY <1>1, <1>2 DEF Workers

\* A goroutine's locals are its own.
LEMMA OthersStay ==
  ASSUME TypeOK, NEW w \in Workers, NEW v \in Workers, v # w, Step(w)
  PROVE  /\ pc'[v] = pc[v] /\ obj'[v] = obj[v] /\ cobj'[v] = cobj[v] /\ prev'[v] = prev[v]
         /\ day'[v] = day[v] /\ sIdx'[v] = sIdx[v] /\ rLast'[v] = rLast[v]
  <1> DEFINE Same == /\ pc'[v] = pc[v] /\ obj'[v] = obj[v] /\ cobj'[v] = cobj[v] /\ prev'[v] = prev[v]
                     /\ day'[v] = day[v] /\ sIdx'[v] = sIdx[v] /\ rLast'[v] = rLast[v]
  <1> USE DEF TypeOK, HeldTypes, Goto, Put, Done, heldVars
  <1>1. ASSUME NEW ok \in BOOLEAN, CmReturn(w, ok) PROVE Same
    BY <1>1 DEF CmReturn
  <1>2. CASE CloseWindowAndMatch(w)
    BY <1>1, <1>2
       DEF CloseWindowAndMatch, CmClose, CmMatch, CmRecord, CmMerge, CmReload, CmCount, CmCounted,
           CmGate, CmAwait, CmGateSample, CmGatePersist, CmShut
  <1>3. CASE Tick(w)
    BY <1>3 DEF Tick, TickBegin, TickRefused, TickStay, TickAdvance, OpenWindow, TickLastDay,
                TickFinish, TickUnload, TickSample, TickPersist, TickRestore
  <1>4. CASE Start(w)
    BY <1>4 DEF Start, StartRead, StartRunning, StartPaused, StartLoad, StartSample, StartPersist, StartDrop
  <1>5. CASE ProceedRead(w) \/ ProceedReset(w) \/ Pause(w)
    BY <1>5 DEF ProceedRead, ProceedReset, Pause
  <1>6. CASE Ticker(w)
    BY <1>6 DEF Ticker, TickerExpired, TickerDue, TickerGate
  <1> QED BY <1>2, <1>3, <1>4, <1>5, <1>6 DEF Step

\* Every step of a goroutine leaves it in its role.
LEMMA RolesStay ==
  ASSUME TickerOnly, TypeOK, RolesInv, [Next]_vars
  PROVE  RolesInv'
  <1> USE DEF TypeOK, HeldTypes, Goto, Put, Done, heldVars, RequestLabels
  <1>1. ASSUME NEW w \in Requests, RequestStep(w) PROVE pc'[w] \in RequestLabels \cup {"idle"}
    <2>1. pc \in [Workers -> Labels] /\ w \in Workers /\ pc[w] \in RequestLabels \cup {"idle"}
      BY DEF Workers, RolesInv
    <2>2. CASE Start(w)
      BY <2>1, <2>2 DEF Start, StartRead, StartRunning, StartPaused, StartLoad, StartSample, StartPersist, StartDrop
    <2>3. CASE ProceedRead(w) \/ ProceedReset(w) \/ Pause(w)
      BY <2>1, <2>3 DEF ProceedRead, ProceedReset, Pause
    <2> QED BY <1>1, <2>2, <2>3 DEF RequestStep
  <1>2. ASSUME NEW w \in Tickers, TickerStep(w) PROVE pc'[w] \notin RequestLabels
    <2>1. pc \in [Workers -> Labels] /\ w \in Workers /\ pc[w] \notin RequestLabels
      BY DEF Workers, RolesInv
    <2>2. ASSUME NEW ok \in BOOLEAN, CmReturn(w, ok) PROVE pc'[w] \notin RequestLabels
      BY <2>1, <2>2 DEF CmReturn
    <2>3. CASE CloseWindowAndMatch(w)
      BY <2>1, <2>2, <2>3
         DEF CloseWindowAndMatch, CmClose, CmMatch, CmRecord, CmMerge, CmReload, CmCount, CmCounted,
             CmGate, CmAwait, CmGateSample, CmGatePersist, CmShut
    <2>4. CASE Tick(w)
      BY <2>1, <2>4 DEF Tick, TickBegin, TickRefused, TickStay, TickAdvance, OpenWindow, TickLastDay,
                  TickFinish, TickUnload, TickSample, TickPersist, TickRestore
    <2>5. CASE Ticker(w)
      BY <2>1, <2>5 DEF Ticker, TickerExpired, TickerDue, TickerGate
    <2> QED BY <1>2, <2>3, <2>4, <2>5 DEF TickerStep
  <1>3. ASSUME NEW w \in Workers, Step(w) PROVE RolesInv'
    <2>1. \A v \in Workers : v = w \/ pc'[v] = pc[v]
      BY <1>3, OthersStay
    <2>2. w \in Requests => pc'[w] \in RequestLabels \cup {"idle"}
      BY <1>1, <1>3, Roles, WorkersAssumption
    <2>3. w \in Tickers => pc'[w] \notin RequestLabels
      BY <1>2, <1>3, Roles, WorkersAssumption
    <2> QED BY <2>1, <2>2, <2>3 DEF RolesInv, Workers
  <1>4. CASE CrashRestart
    BY <1>4 DEF CrashRestart, Forget, RolesInv, Workers
  <1>5. CASE UNCHANGED vars
    BY <1>5 DEF vars, RolesInv
  <1> QED BY <1>3, <1>4, <1>5 DEF Next

-----------------------------------------------------------------------------
(* The checkpoint gate *)

\* Between the ticker's look at the window and its tick no window opens, and between
\* its look at awaiting_proceed and its tick nobody sets it.
GateInv ==
    \A t \in Tickers :
        /\ ret[t] # "tick"
        /\ pc[t] \in {"due", "autotick", "load"} => ~WindowOpen
        /\ pc[t] \in {"autotick", "load"} => ~dbAwaiting

\* A request shuts a window and releases the gate, and does nothing else to them.
LEMMA RequestGate ==
  ASSUME TypeOK, NEW w \in Requests, RequestStep(w)
  PROVE  window' \in {0, window} /\ (dbAwaiting' => dbAwaiting) /\ \A t \in Tickers : ret'[t] = ret[t]
  <1>1. w \in Workers /\ \A t \in Tickers : t \in Workers /\ t # w
    BY WorkersAssumption DEF Workers
  <1>2. CASE Start(w)
    BY <1>1, <1>2
       DEF Start, StartRead, StartRunning, StartPaused, StartLoad, StartSample, StartPersist, StartDrop,
           TypeOK, HeldTypes, Done, Put, heldVars, sysVars, cfgVars
  <1>3. CASE ProceedRead(w) \/ ProceedReset(w) \/ Pause(w)
    BY <1>1, <1>3
       DEF ProceedRead, ProceedReset, Pause, TypeOK, HeldTypes, Done, Put, heldVars, sysVars, cfgVars
  <1> QED BY <1>2, <1>3 DEF RequestStep

LEMMA TickerGated ==
  ASSUME TickerOnly, TypeOK, GateInv, NEW w \in Tickers, TickerStep(w)
  PROVE  /\ GateInv'
         /\ dbAwaiting /\ ~WindowOpen => ~WindowOpen'
  <1> USE DEF Goto, Put, Done, heldVars, sysVars, cfgVars, WindowOpen
  <1>1. /\ w \in Workers /\ \A t \in Tickers : t = w
        /\ pc \in [Workers -> Labels] /\ ret \in [Workers -> Returns]
        /\ ret[w] # "tick" /\ (pc[w] \in {"due", "autotick", "load"} => ~WindowOpen)
        /\ (pc[w] \in {"autotick", "load"} => ~dbAwaiting)
    BY DEF TickerOnly, Workers, TypeOK, HeldTypes, GateInv
  <1>2. SUFFICES /\ ret'[w] # "tick"
                 /\ pc'[w] \in {"due", "autotick", "load"} => ~WindowOpen'
                 /\ pc'[w] \in {"autotick", "load"} => ~dbAwaiting'
                 /\ dbAwaiting /\ ~WindowOpen => ~WindowOpen'
    BY <1>1 DEF GateInv
  <1>3. ASSUME NEW ok \in BOOLEAN, CmReturn(w, ok)
        PROVE  ret'[w] # "tick" /\ pc'[w] \notin {"due", "autotick", "load"}
    BY <1>1, <1>3 DEF CmReturn
  <1>4. CASE CloseWindowAndMatch(w)
    BY <1>1, <1>3, <1>4
       DEF CloseWindowAndMatch, CmClose, CmMatch, CmRecord, CmMerge, CmReload, CmCount, CmCounted,
           CmGate, CmAwait, CmGateSample, CmGatePersist, CmShut
  <1>5. CASE Tick(w)
    BY <1>1, <1>5, WorkersAssumption
       DEF Tick, TickBegin, Accept, TickRefused, TickStay, TickAdvance, OpenWindow, TickLastDay,
           TickFinish, TickUnload, TickSample, TickPersist, TickRestore
  <1>6. CASE Ticker(w)
    BY <1>1, <1>6 DEF Ticker, TickerExpired, TickerDue, TickerGate
  <1> QED BY <1>4, <1>5, <1>6 DEF TickerStep

LEMMA GateStep ==
  ASSUME TickerOnly, TypeOK, RolesInv, GateInv, [Next]_vars
  PROVE  /\ GateInv'
         /\ dbAwaiting /\ ~WindowOpen => ~WindowOpen'
  <1>1. ASSUME NEW w \in Requests, RequestStep(w), Step(w)
        PROVE  GateInv' /\ (dbAwaiting /\ ~WindowOpen => ~WindowOpen')
    <2>1. \A t \in Tickers : pc'[t] = pc[t]
      BY <1>1, OthersStay, WorkersAssumption DEF Workers
    <2> QED BY <1>1, <2>1, RequestGate DEF GateInv, WindowOpen
  <1>2. ASSUME NEW w \in Workers, Step(w)
        PROVE  GateInv' /\ (dbAwaiting /\ ~WindowOpen => ~WindowOpen')
    BY <1>1, <1>2, Roles, TickerGated
  <1>3. CASE CrashRestart
    BY <1>3 DEF CrashRestart, Forget, GateInv, WindowOpen, Workers
  <1>4. CASE UNCHANGED vars
    BY <1>4 DEF vars, sysVars, cfgVars, heldVars, GateInv, WindowOpen
  <1> QED BY <1>2, <1>3, <1>4 DEF Next

LEMMA GateInit == Init => RolesInv /\ GateInv
  BY DEF Init, NoneHeld, RolesInv, GateInv, Workers, RequestLabels

\* While clients leave ticking to the auto ticker, no window opens before the
\* user's Proceed, even if someone calls Start (runDueAutoTicks, AwaitingProceed).
THEOREM GateIsRespected == ASSUME TickerOnly PROVE Spec => GateRespected
  <1>1. TypeOK /\ RolesInv /\ GateInv /\ [Next]_vars
          => RolesInv' /\ GateInv' /\ [dbAwaiting /\ ~WindowOpen => ~WindowOpen']_vars
    BY RolesStay, GateStep
  <1> QED BY <1>1, GateInit, TypeCorrect, PTL DEF Spec, GateRespected

-----------------------------------------------------------------------------
(* No day is matched twice *)

Undone == {"restore", "startdrop", "finish", "unload"}

\* Until every day is matched or something fails, one clock plays the days once: the
\* days that are matched are those up to lastMatched, and the day being recorded; the
\* open window, and the day about to be matched, come after them; the clock stands on
\* the last of these days or later, and a second clock is not loaded.
FirstPass ==
    /\ again = {}
    /\ \A w \in Workers : pc[w] \notin Undone
    /\ current = 0 =>
          /\ matched = {} /\ dbLast = 0 /\ lastMatched = 0 /\ window = 0
          /\ \A w \in Workers : rLast[w] = 0
          /\ \A t \in Tickers : pc[t] = "idle"
    /\ current # 0 => cStatus[current] # "completed" /\ lastMatched <= cIdx[current]
    /\ WindowOpen => lastMatched < window /\ window <= cIdx[current]
    /\ \A t \in Tickers : pc[t] \in {"match", "record"} =>
          ~WindowOpen /\ lastMatched < day[t] /\ day[t] <= cIdx[current]
    /\ \A d \in matched : d <= lastMatched \/ \E t \in Tickers : pc[t] = "record" /\ d <= day[t]

Quiet == faults = 0 /\ crashes = 0

OnceInv == AllMatched \/ ~Quiet \/ FirstPass

\* A step that changes neither the days nor the matches keeps FirstPass.
LEMMA FirstPassKept ==
  ASSUME TypeOK, FirstPass, NEW w \in Workers,
         UNCHANGED <<cIdx, current, lastMatched, dbLast, matched, again>>,
         window' \in {0, window}, current # 0 => cStatus'[current] # "completed",
         pc[w] # "record", pc'[w] \notin {"match", "record"} \cup Undone,
         \A v \in Workers : v = w \/ (pc'[v] = pc[v] /\ day'[v] = day[v]),
         current = 0 => /\ \A v \in Workers : rLast'[v] = 0
                        /\ w \in Tickers => pc'[w] = "idle"
  PROVE  FirstPass'
  <1>1. Tickers \subseteq Workers
    BY DEF Workers
  <1>2. \A t \in Tickers : pc'[t] \in {"match", "record"} =>
          ~WindowOpen' /\ lastMatched' < day'[t] /\ day'[t] <= cIdx'[current']
    BY <1>1 DEF FirstPass, WindowOpen
  <1>3. \A d \in matched' : d <= lastMatched' \/ \E t \in Tickers : pc'[t] = "record" /\ d <= day'[t]
    BY <1>1 DEF FirstPass
  <1>4. WindowOpen' => lastMatched' < window' /\ window' <= cIdx'[current']
    BY DEF FirstPass, WindowOpen
  <1>5. \A v \in Workers : pc'[v] \notin Undone
    BY DEF FirstPass
  <1>6. current' = 0 => \A t \in Tickers : pc'[t] = "idle"
    BY <1>1 DEF FirstPass
  <1> QED BY <1>2, <1>3, <1>4, <1>5, <1>6 DEF FirstPass

\* A clock that nothing fails is loaded once.
LEMMA RequestFirstPass ==
  ASSUME TypeOK, RolesInv, FirstPass, NEW w \in Requests, RequestStep(w), faultVars' = <<0, 0>>, Quiet
  PROVE  FirstPass'
  <1> USE DEF Goto, Put, Done, heldVars, sysVars, cfgVars, clockVars, rowVars, histVars, faultVars, Quiet, Undone
  <1>1. /\ w \in Workers /\ w \notin Tickers /\ pc[w] \in RequestLabels \cup {"idle"}
        /\ pc[w] # "startdrop"
        /\ pc \in [Workers -> Labels] /\ day \in [Workers -> DayOrNone] /\ rLast \in [Workers -> DayOrNone]
    BY WorkersAssumption DEF RolesInv, Workers, TypeOK, HeldTypes, FirstPass
  <1>2. ~Fault
    BY DEF Fault
  <1>3. Step(w)
    BY DEF RequestStep, Step
  <1>4. \A v \in Workers : v = w \/ (pc'[v] = pc[v] /\ day'[v] = day[v])
    BY <1>1, <1>3, OthersStay
  <1>5. pc[w] # "record"
    BY <1>1 DEF RequestLabels
  <1>6. cStatus \in [Clocks -> Statuses] /\ current \in ClockOrNone /\ (current # 0 => current \in Clocks)
    BY LoadedClock DEF TypeOK, SharedTypes
  <1>7. CASE StartLoad(w)
    <2>1. current = 0
      BY <1>6, <1>7 DEF StartLoad, Loaded, Statuses, FirstPass
    <2>2. PICK o \in Clocks : NewClock(o, sIdx[w], rLast[w])
      BY <1>7 DEF StartLoad, Unreachable
    <2>3. sIdx[w] \in Days /\ rLast[w] = 0
      BY <1>1, <1>7, <2>1 DEF StartLoad, TypeOK, HeldBy, FirstPass
    <2>4. /\ current' = o /\ cIdx'[o] \in Days /\ cStatus'[o] = "running" /\ lastMatched' = 0 /\ o # 0
          /\ UNCHANGED <<matched, again, window, dbLast>>
      BY <1>7, <2>2, <2>3 DEF StartLoad, NewClock, TypeOK, SharedTypes, Clocks
    <2>5. pc'[w] = "startsample"
      BY <1>1, <1>7 DEF StartLoad
    <2>6. \A v \in Workers : pc'[v] \notin Undone
      BY <1>4, <2>5 DEF FirstPass
    <2>7. \A t \in Tickers : pc'[t] = "idle"
      BY <1>1, <1>4, <2>1 DEF FirstPass, Workers
    <2>8. cIdx'[o] \in Nat
      BY <2>4 DEF Days
    <2>9. matched' = {} /\ again' = {} /\ ~WindowOpen'
      BY <2>1, <2>4 DEF FirstPass, WindowOpen
    <2> QED BY <2>4, <2>6, <2>7, <2>8, <2>9 DEF FirstPass
  <1>8. CASE RequestStep(w) /\ ~StartLoad(w)
    <2>1. /\ UNCHANGED <<cIdx, current, lastMatched, dbLast, matched, again>>
          /\ window' \in {0, window}
          /\ pc'[w] \notin {"match", "record"} \cup Undone
      BY <1>1, <1>2, <1>8
         DEF RequestStep, Start, StartRead, StartRunning, StartPaused, StartSample, StartPersist, StartDrop,
             UpdateFails, ProceedRead, ProceedReset, Pause, Accept
    <2>2. current # 0 => cStatus'[current] # "completed"
      BY <1>1, <1>2, <1>6, <1>8
         DEF RequestStep, Start, StartRead, StartRunning, StartPaused, StartSample, StartPersist, StartDrop,
             UpdateFails, ProceedRead, ProceedReset, Pause, FirstPass
    <2>3. \A v \in Workers : rLast'[v] \in {0, rLast[v], dbLast}
      BY <1>1, <1>8
         DEF RequestStep, Start, StartRead, StartRunning, StartPaused, StartSample, StartPersist, StartDrop,
             ProceedRead, ProceedReset, Pause
    <2>4. current = 0 => \A v \in Workers : rLast'[v] = 0
      BY <2>3 DEF FirstPass
    <2> QED BY <1>1, <1>4, <1>5, <2>1, <2>2, <2>4, FirstPassKept
  <1> QED BY <1>7, <1>8

\* While no clock is loaded the ticker has nothing to do.
LEMMA TickerHasClock ==
  ASSUME FirstPass, NEW w \in Tickers, TickerStep(w)
  PROVE  current # 0
  <1> SUFFICES ASSUME current = 0 PROVE FALSE
    OBVIOUS
  <1>1. pc[w] = "idle" /\ ~WindowOpen /\ w \notin Requests /\ ~Running(current)
    BY WorkersAssumption DEF FirstPass, WindowOpen, Running
  <1>2. ~CloseWindowAndMatch(w)
    BY <1>1
       DEF CloseWindowAndMatch, CmClose, CmMatch, CmRecord, CmMerge, CmReload, CmCount, CmCounted, CmGate,
           CmAwait, CmGateSample, CmGatePersist, CmShut
  <1>3. ~Tick(w)
    BY <1>1
       DEF Accept, Tick, TickBegin, TickRefused, TickStay, TickAdvance, TickLastDay, TickFinish, TickUnload,
           TickSample, TickPersist, TickRestore
  <1>4. ~Ticker(w)
    BY <1>1 DEF Ticker, TickerExpired, TickerDue, TickerGate
  <1> QED BY <1>2, <1>3, <1>4 DEF TickerStep

\* What FirstPass says of the ticker's day and of those of the clock.
LEMMA TickerDays ==
  ASSUME TypeOK, OrderInv, TickerOnly, FirstPass, NEW w \in Tickers, current # 0
  PROVE  /\ current \in Clocks /\ cIdx[current] \in Nat /\ lastMatched \in Nat /\ window \in Nat
         /\ w \in Workers /\ day[w] \in Nat /\ matched \subseteq Nat
         /\ pc[w] # "record" => \A d \in matched : d <= lastMatched
         /\ pc[w] = "record" => \A d \in matched : d <= day[w]
  <1>1. current \in Clocks /\ cIdx[current] \in Nat
    BY LoadedClock DEF Days
  <1>2. /\ lastMatched \in Nat /\ window \in Nat /\ w \in Workers /\ day[w] \in Nat /\ matched \subseteq Nat
    BY DEF TypeOK, SharedTypes, HeldTypes, DayOrNone, Days, Workers
  <1>3. \A t \in Tickers : t = w
    BY DEF TickerOnly
  <1>4. pc[w] # "record" => \A d \in matched : d <= lastMatched
    BY <1>3 DEF FirstPass
  <1>5. pc[w] = "record" => \A d \in matched : d <= day[w]
    <2> SUFFICES ASSUME pc[w] = "record", NEW d \in matched PROVE d <= day[w]
      OBVIOUS
    <2>1. lastMatched < day[w]
      BY DEF FirstPass
    <2>2. d <= lastMatched \/ d <= day[w]
      BY <1>3 DEF FirstPass
    <2> QED BY <1>2, <2>1, <2>2
  <1> QED BY <1>1, <1>2, <1>4, <1>5

\* The steps of CloseWindowAndMatch, while nothing fails.
LEMMA MatchFirstPass ==
  ASSUME TypeOK, OrderInv, TickerOnly, GateInv, FirstPass, NEW w \in Tickers, CloseWindowAndMatch(w),
         faultVars' = <<0, 0>>, Quiet
  PROVE  FirstPass'
  <1> USE DEF Goto, Put, heldVars, sysVars, cfgVars, clockVars, rowVars, histVars, faultVars, Quiet, Undone
  <1>1. ~Fault
    BY DEF Fault
  <1>2. current # 0
    BY TickerHasClock DEF TickerStep
  <1>3. /\ w \in Workers /\ (\A t \in Tickers : t = w) /\ Tickers \subseteq Workers
        /\ pc \in [Workers -> Labels] /\ day \in [Workers -> DayOrNone] /\ cobj \in [Workers -> ClockOrNone]
        /\ ret[w] # "tick"
    BY DEF TickerOnly, Workers, TypeOK, HeldTypes, GateInv
  <1>4. \A v \in Workers : v = w \/ (pc'[v] = pc[v] /\ day'[v] = day[v])
    BY <1>3, OthersStay DEF Step
  <1>5. cStatus \in [Clocks -> Statuses] /\ current \in Clocks /\ cStatus[current] # "completed"
    BY <1>2, LoadedClock DEF TypeOK, SharedTypes, FirstPass
  <1>6. CmReturn(w, TRUE) => pc'[w] = "idle"
    BY <1>3 DEF CmReturn, Done
  <1>7. CASE CmClose(w) /\ WindowOpen
    <2>1. /\ day'[w] = window /\ pc'[w] = "match" /\ window' = 0
          /\ UNCHANGED <<cIdx, cStatus, current, lastMatched, dbLast, matched, again>> /\ pc[w] = "close"
      BY <1>3, <1>7 DEF CmClose
    <2>2. lastMatched < window /\ window <= cIdx[current]
      BY <1>7 DEF FirstPass
    <2>3. \A t \in Tickers : pc'[t] \in {"match", "record"} =>
            ~WindowOpen' /\ lastMatched' < day'[t] /\ day'[t] <= cIdx'[current']
      BY <1>3, <2>1, <2>2 DEF WindowOpen
    <2>4. \A d \in matched' : d <= lastMatched'
      BY <1>2, <2>1, TickerDays
    <2>5. \A v \in Workers : pc'[v] \notin Undone
      BY <1>4, <2>1 DEF FirstPass
    <2> QED BY <1>2, <2>1, <2>3, <2>4, <2>5 DEF FirstPass, WindowOpen
  <1>8. CASE CmMatch(w)
    <2>1. /\ Commit(day[w]) /\ pc'[w] = "record" /\ day' = day /\ pc[w] = "match"
          /\ UNCHANGED <<cIdx, cStatus, current, lastMatched, window, dbLast>>
      BY <1>1, <1>3, <1>8 DEF CmMatch
    <2>2. /\ \A d \in matched : d <= lastMatched
          /\ ~WindowOpen /\ lastMatched < day[w] /\ day[w] <= cIdx[current]
      BY <1>2, <2>1, TickerDays DEF FirstPass
    <2>3. day[w] \notin matched
      BY <1>2, <2>2, TickerDays
    <2>4. again' = {} /\ matched' = matched \cup {day[w]}
      BY <2>1, <2>3 DEF Commit, FirstPass
    <2>5. \A d \in matched' : d <= lastMatched' \/ \E t \in Tickers : pc'[t] = "record" /\ d <= day'[t]
      <3> SUFFICES ASSUME NEW d \in matched' PROVE d <= lastMatched' \/ d <= day'[w]
        BY <2>1
      <3>1. day[w] <= day[w]
        BY <1>2, TickerDays
      <3> QED BY <2>1, <2>2, <2>4, <3>1
    <2>6. \A v \in Workers : pc'[v] \notin Undone
      BY <1>4, <2>1 DEF FirstPass
    <2>7. \A t \in Tickers : pc'[t] \in {"match", "record"} =>
            ~WindowOpen' /\ lastMatched' < day'[t] /\ day'[t] <= cIdx'[current']
      BY <1>3, <2>1, <2>2 DEF WindowOpen
    <2> QED BY <1>2, <2>1, <2>2, <2>4, <2>5, <2>6, <2>7 DEF FirstPass, WindowOpen
  <1>9. CASE CmRecord(w)
    <2>1. /\ lastMatched' = day[w] /\ pc'[w] = "merge" /\ pc[w] = "record"
          /\ UNCHANGED <<cIdx, cStatus, current, window, dbLast, matched, again>>
      BY <1>3, <1>9 DEF CmRecord
    <2>2. ~WindowOpen /\ day[w] <= cIdx[current] /\ \A d \in matched : d <= day[w]
      BY <1>2, <2>1, TickerDays DEF FirstPass
    <2>3. \A v \in Workers : pc'[v] \notin Undone
      BY <1>4, <2>1 DEF FirstPass
    <2>4. \A t \in Tickers : pc'[t] \notin {"match", "record"}
      BY <1>3, <2>1
    <2> QED BY <1>2, <2>1, <2>2, <2>3, <2>4 DEF FirstPass, WindowOpen
  <1>10. CASE CmMerge(w)
    <2>1. /\ pc'[w] = "reload" /\ pc[w] = "merge"
          /\ UNCHANGED <<cIdx, cStatus, current, window, lastMatched, matched, again>>
      BY <1>3, <1>10 DEF CmMerge
    <2>2. \A v \in Workers : pc'[v] \notin Undone
      BY <1>4, <2>1 DEF FirstPass
    <2>3. \A t \in Tickers : pc'[t] \notin {"match", "record"}
      BY <1>3, <2>1
    <2>4. \A d \in matched : d <= lastMatched
      BY <1>2, <2>1, TickerDays
    <2> QED BY <1>2, <2>1, <2>2, <2>3, <2>4 DEF FirstPass, WindowOpen
  <1>11. CASE \/ CmClose(w) /\ ~WindowOpen
              \/ CmReload(w) \/ CmCount(w) \/ CmCounted(w) \/ CmGate(w) \/ CmAwait(w)
              \/ CmGateSample(w) \/ CmGatePersist(w) \/ CmShut(w)
    <2>1. /\ UNCHANGED <<cIdx, current, lastMatched, dbLast, matched, again>>
          /\ window' \in {0, window} /\ pc[w] # "record"
      BY <1>11
         DEF CmClose, CmReload, CmCount, CmCounted, CmGate, CmAwait, CmGateSample, CmGatePersist, CmShut
    <2>2. cStatus'[current] # "completed"
      BY <1>5, <1>11
         DEF CmClose, CmReload, CmCount, CmCounted, CmGate, CmAwait, CmGateSample, CmGatePersist, CmShut
    <2>3. pc'[w] \notin {"match", "record"} \cup Undone
      BY <1>1, <1>3, <1>6, <1>11
         DEF CmClose, CmReload, CmCount, CmCounted, CmGate, CmAwait, CmGateSample, CmGatePersist, CmShut,
             UpdateFails
    <2> QED BY <1>2, <1>3, <1>4, <2>1, <2>2, <2>3, FirstPassKept
  <1> QED BY <1>7, <1>8, <1>9, <1>10, <1>11 DEF CloseWindowAndMatch

\* The steps of Tick and of the ticker's loop, while nothing fails.
LEMMA TickFirstPass ==
  ASSUME TypeOK, OrderInv, TickerOnly, GateInv, FirstPass, NEW w \in Tickers, Tick(w) \/ Ticker(w),
         faultVars' = <<0, 0>>, Quiet, ~AllMatched
  PROVE  FirstPass'
  <1> USE DEF Goto, Put, Done, heldVars, sysVars, cfgVars, clockVars, rowVars, histVars, faultVars, Quiet,
              Undone
  <1>1. ~Fault
    BY DEF Fault
  <1>2. current # 0
    BY TickerHasClock DEF TickerStep
  <1>3. /\ w \in Workers /\ (\A t \in Tickers : t = w) /\ Tickers \subseteq Workers
        /\ pc \in [Workers -> Labels] /\ day \in [Workers -> DayOrNone] /\ pc[w] \notin Undone
        /\ (pc[w] \in {"due", "autotick", "load"} => ~WindowOpen)
    BY DEF TickerOnly, Workers, TypeOK, HeldTypes, GateInv, FirstPass
  <1>4. \A v \in Workers : v = w \/ (pc'[v] = pc[v] /\ day'[v] = day[v])
    BY <1>3, OthersStay DEF Step
  <1>5. cStatus[current] # "completed" /\ cIdx \in [Clocks -> Days]
    BY <1>2 DEF FirstPass, TypeOK, SharedTypes
  <1>6. ASSUME pc[w] = "load", pc'[w] = "ticksample", lastMatched < window', window' <= cIdx'[current],
               lastMatched <= cIdx'[current],
               UNCHANGED <<cStatus, current, lastMatched, dbLast, matched, again>>
        PROVE  FirstPass'
    <2>1. \A v \in Workers : pc'[v] \notin Undone
      BY <1>4, <1>6 DEF FirstPass
    <2>2. \A t \in Tickers : pc'[t] \notin {"match", "record"}
      BY <1>3, <1>6
    <2>3. \A d \in matched : d <= lastMatched
      BY <1>2, <1>6, TickerDays
    <2> QED BY <1>2, <1>6, <2>1, <2>2, <2>3 DEF FirstPass
  <1>7. CASE TickStay(w)
    <2>1. ~ShouldAdvance(lastMatched, cIdx[current]) /\ cIdx[current] \in Nat \ {0} /\ lastMatched \in Nat
      BY <1>7, RunningClock DEF TickStay, TypeOK, SharedTypes, DayOrNone, Days
    <2>2. lastMatched < cIdx[current]
      BY <2>1 DEF ShouldAdvance
    <2> QED BY <1>3, <1>6, <1>7, <2>1, <2>2 DEF TickStay, OpenWindow
  <1>8. CASE TickAdvance(w)
    <2>1. lastMatched <= cIdx[current] /\ cIdx[current] \in Nat /\ lastMatched \in Nat /\ current \in Clocks
      BY <1>2, TickerDays DEF FirstPass
    <2>2. /\ window' = cIdx[current] + 1 /\ cIdx'[current] = cIdx[current] + 1
          /\ pc[w] = "load" /\ pc'[w] = "ticksample"
          /\ UNCHANGED <<cStatus, current, lastMatched, dbLast, matched, again>>
      BY <1>1, <1>3, <1>5, <1>8, <2>1 DEF TickAdvance, OpenWindow
    <2> QED BY <1>6, <2>1, <2>2
  <1>9. CASE TickLastDay(w)
    BY <1>9, LastReached DEF TickLastDay
  <1>10. CASE \/ TickBegin(w) \/ TickRefused(w) \/ TickFinish(w) \/ TickUnload(w) \/ TickSample(w)
              \/ TickPersist(w) \/ TickRestore(w) \/ Ticker(w)
    <2>1. /\ UNCHANGED <<cIdx, cStatus, current, lastMatched, dbLast, matched, again, window>>
          /\ pc[w] # "record"
      BY <1>3, <1>10, WorkersAssumption
         DEF TickBegin, Accept, TickRefused, TickFinish, TickUnload, TickSample, TickPersist, TickRestore,
             Ticker, TickerExpired, TickerDue, TickerGate
    <2>2. pc'[w] \notin {"match", "record"} \cup Undone
      BY <1>1, <1>3, <1>10
         DEF TickBegin, TickRefused, TickFinish, TickUnload, TickSample, TickPersist, TickRestore,
             Ticker, TickerExpired, TickerDue, TickerGate, UpdateFails
    <2> QED BY <1>2, <1>3, <1>4, <1>5, <2>1, <2>2, FirstPassKept
  <1> QED BY <1>7, <1>8, <1>9, <1>10 DEF Tick

\* A step of a goroutine is no crash.
LEMMA StepFaults ==
  ASSUME NEW w \in Workers, Step(w)
  PROVE  Works \/ Fault
  <1>1. CASE CloseWindowAndMatch(w)
    BY <1>1 DEF CloseWindowAndMatch, CmClose, CmMatch, CmRecord, CmMerge, CmReload, CmCount,
                CmCounted, CmGate, CmAwait, CmGateSample, CmGatePersist, CmShut, UpdateClock, UpdateFails
  <1>2. CASE Tick(w)
    BY <1>2 DEF Tick, TickBegin, TickRefused, TickStay, TickAdvance, TickLastDay, TickFinish, TickUnload,
                TickSample, TickPersist, TickRestore, UpdateClock, UpdateFails
  <1>3. CASE Start(w)
    BY <1>3 DEF Start, StartRead, StartRunning, StartPaused, StartLoad, StartSample, StartPersist,
                StartDrop, UpdateClock, UpdateFails
  <1>4. CASE ProceedRead(w) \/ ProceedReset(w) \/ Pause(w) \/ Ticker(w)
    BY <1>4 DEF ProceedRead, ProceedReset, Pause, Ticker, TickerExpired, TickerDue, TickerGate,
                UpdateClock, UpdateFails
  <1> QED BY <1>1, <1>2, <1>3, <1>4 DEF Step

LEMMA OnceStep ==
  ASSUME TypeOK, OrderInv, TickerOnly, RolesInv, GateInv, OnceInv, [Next]_vars
  PROVE  OnceInv'
  <1>1. SUFFICES ASSUME ~AllMatched', Quiet' PROVE FirstPass'
    BY DEF OnceInv
  <1>2. matched \subseteq matched'
    BY HistoryStep DEF Next, CrashRestart, vars, sysVars, histVars
  <1>3. ~AllMatched
    BY <1>1, <1>2 DEF AllMatched
  <1>4. CASE UNCHANGED vars
    BY <1>1, <1>3, <1>4
       DEF OnceInv, FirstPass, Quiet, vars, sysVars, clockVars, cfgVars, histVars, heldVars, faultVars, WindowOpen
  <1>5. ASSUME CrashRestart PROVE FALSE
    BY <1>1, <1>5 DEF CrashRestart, Quiet, TypeOK, SharedTypes
  <1>6. ASSUME NEW w \in Workers, Step(w) PROVE FirstPass'
    <2>1. Works \/ Fault
      BY <1>6, StepFaults
    <2>2. Quiet /\ faultVars' = <<0, 0>>
      BY <1>1, <2>1 DEF Works, Fault, faultVars, Quiet, TypeOK, SharedTypes
    <2>3. FirstPass
      BY <1>3, <2>2 DEF OnceInv
    <2> QED
      BY <1>3, <1>6, <2>2, <2>3, Roles, RequestFirstPass, MatchFirstPass, TickFirstPass DEF TickerStep
  <1> QED BY <1>4, <1>5, <1>6 DEF Next

\* While clients leave ticking to the auto ticker, and nothing fails, no day
\* is matched a second time until every day has been matched (RunAutoTicker
\* is one goroutine, and ShouldAdvance moves past a matched day).
THEOREM DaysMatchedOnce == ASSUME TickerOnly PROVE Spec => []MatchedOnce
  <1>1. Init => OnceInv
    BY DEF Init, NoneHeld, OnceInv, FirstPass, Undone, Workers, WindowOpen
  <1>2. TypeOK /\ OrderInv /\ RolesInv /\ GateInv /\ OnceInv /\ [Next]_vars
          => RolesInv' /\ GateInv' /\ OnceInv'
    BY RolesStay, GateStep, OnceStep
  <1>3. TypeOK /\ OnceInv => MatchedOnce
    BY DEF OnceInv, FirstPass, MatchedOnce, Quiet, TypeOK, SharedTypes
  <1> QED BY <1>1, <1>2, <1>3, GateInit, TypeCorrect, OrderCorrect, PTL DEF Spec

-----------------------------------------------------------------------------
(* What the ledgers take from the clock *)

\* A match that is open is of a day whose predecessors are all matched.
MatchesFollow == \A w \in Workers : pc[w] = "match" => Before(day[w])

\* No two matches are open.
OneMatchAtATime == \A v, w \in Workers : pc[v] = "match" /\ pc[w] = "match" => v = w

\* Whoever matches a day, in any execution, does so after all days before it have been
\* matched: it is the window's day, read under the lock (CloseWindowAndMatch). This is
\* what MatchLedger asks of the clock when a match begins.
THEOREM MatchesFollowTheDays == Spec => []MatchesFollow
  <1>1. TypeOK /\ OrderInv => MatchesFollow
    BY ReachedIsBefore DEF OrderInv, LocalOrder, MatchesFollow
  <1> QED BY <1>1, TypeCorrect, OrderCorrect, PTL

\* While clients leave ticking to the auto ticker, matches do not overlap, whatever fails
\* and restarts: the exception of the ledger's properties does not arise (RunAutoTicker
\* is then the only goroutine that reaches CloseWindowAndMatch).
THEOREM MatchesDoNotOverlap == ASSUME TickerOnly PROVE Spec => []OneMatchAtATime
  <1>1. RolesInv => OneMatchAtATime
    <2> SUFFICES ASSUME RolesInv, NEW v \in Workers, NEW w \in Workers,
                        pc[v] = "match", pc[w] = "match"
                 PROVE  v = w
      BY DEF OneMatchAtATime
    <2>1. v \in Tickers /\ w \in Tickers
      BY DEF RolesInv, RequestLabels, Workers
    <2> QED BY <2>1 DEF TickerOnly
  <1>2. TypeOK /\ RolesInv /\ [Next]_vars => RolesInv'
    BY RolesStay
  <1> QED BY <1>1, <1>2, GateInit, TypeCorrect, PTL DEF Spec
=============================================================================
