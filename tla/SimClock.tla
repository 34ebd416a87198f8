------------------------------ MODULE SimClock ------------------------------
(***************************************************************************)
(* The virtual clock of one daily simulation: clock.Registry, the SimClock *)
(* objects it keeps in memory, the row of the simulation in Postgres, and  *)
(* the goroutines that work on them (HTTP handlers and the auto ticker).   *)
(*                                                                         *)
(* r.mu is released around every database call, so an operation is a       *)
(* sequence of steps, one per critical section, unlocked read, or          *)
(* database statement.  pc[w] names the next step of goroutine w.          *)
(***************************************************************************)
EXTENDS Integers, FiniteSets

CONSTANTS
    N,                  \* trading days of the simulation
    Requests,           \* goroutines that serve HTTP requests
    Tickers,            \* the goroutine of RunAutoTicker: one, or none
    Ops,                \* the requests the clients make
    Batch,              \* order_window_seconds <= 0: Tick also matches
    CheckpointInterval, \* config.checkpoint_interval_days
    MaxClocks,          \* SimClock objects that can be reachable at once
    MaxFaults,          \* bound: database and Redis calls that fail
    MaxCrashes          \* bound: crashes of the process

Workers  == Requests \cup Tickers
Days     == 1..N
Clocks   == 1..MaxClocks
DayOrNone   == 0..N             \* 0 is the zero time.Time, and SQL NULL
ClockOrNone == 0..MaxClocks     \* 0 is nil
Statuses == {"running", "paused", "completed"}
OpNames  == {"tick", "start", "pause", "proceed"}

ASSUME NAssumption == N \in Nat \ {0}
ASSUME WorkersAssumption == Requests \cap Tickers = {} /\ Ops \subseteq OpNames
ASSUME BatchAssumption == Batch \in BOOLEAN
ASSUME IntervalAssumption == CheckpointInterval \in Nat \ {0}
ASSUME BoundsAssumption ==
    MaxClocks \in Nat \ {0} /\ MaxFaults \in Nat /\ MaxCrashes \in Nat

VARIABLES
    cIdx, cStatus,      \* SimClock objects: CurrentIndex and Status
    current,            \* Registry.clocks[id]: an object, or 0
    window,             \* Registry.windows[id]: the Date while Open, else 0
    lastMatched,        \* Registry.lastMatched[id]
    dbAsOf, dbStatus,   \* simulations.as_of_date, simulations.status
    dbAwaiting, dbDays, \* config.awaiting_proceed, config.days_since_checkpoint
    dbLast,             \* config.last_matched_date
    pc,                 \* the step each goroutine takes next
    obj, cobj,          \* *SimClock held by Tick or Start, by CloseWindowAndMatch
    prev,               \* prevIdx of Tick
    day,                \* tradeDate of CloseWindowAndMatch
    ret,                \* where CloseWindowAndMatch returns to
    sIdx, sStatus,      \* a day and a status read earlier and not yet used
    rLast,              \* last_matched_date of the row Start read
    count,              \* newDays of RecordTickForCheckpoint
    matched,            \* history: days with a committed match transaction
    again,              \* history: days matched more than once
    faults, crashes

clockVars == <<cIdx, cStatus, current>>
rowVars   == <<dbAsOf, dbStatus>>
cfgVars   == <<dbAwaiting, dbDays, dbLast>>
heldVars  == <<obj, cobj, prev, day, ret, sIdx, sStatus, rLast, count>>
histVars  == <<matched, again>>
faultVars == <<faults, crashes>>
sysVars   == <<clockVars, window, lastMatched, rowVars, cfgVars, histVars>>
vars == <<sysVars, pc, heldVars, faultVars>>

NoneHeld(f, zero) == f = [w \in Workers |-> zero]

Init ==
    /\ cIdx = [o \in Clocks |-> 1] /\ cStatus = [o \in Clocks |-> "paused"]
    /\ current = 0
    /\ window = 0
    /\ lastMatched = 0
    /\ dbAsOf = 0 /\ dbStatus = "paused"
    /\ dbAwaiting = FALSE /\ dbDays = 0 /\ dbLast = 0
    /\ NoneHeld(pc, "idle") /\ NoneHeld(obj, 0) /\ NoneHeld(cobj, 0)
    /\ NoneHeld(prev, 0) /\ NoneHeld(day, 0) /\ NoneHeld(ret, "none")
    /\ NoneHeld(sIdx, 0) /\ NoneHeld(sStatus, "paused")
    /\ NoneHeld(rLast, 0) /\ NoneHeld(count, 0)
    /\ matched = {} /\ again = {}
    /\ faults = 0 /\ crashes = 0

-----------------------------------------------------------------------------
(* Control of one goroutine. *)

Goto(w, label) == pc' = [pc EXCEPT ![w] = label]
Put(f, w, v)   == [f EXCEPT ![w] = v]

\* The goroutine's call is over: its locals are gone.
Done(w) ==
    /\ Goto(w, "idle")
    /\ obj' = Put(obj, w, 0) /\ cobj' = Put(cobj, w, 0)
    /\ prev' = Put(prev, w, 0) /\ day' = Put(day, w, 0)
    /\ ret' = Put(ret, w, "none")
    /\ sIdx' = Put(sIdx, w, 0) /\ sStatus' = Put(sStatus, w, "paused")
    /\ rLast' = Put(rLast, w, 0) /\ count' = Put(count, w, 0)

\* A database or Redis call that returns an error.
Fault == faults < MaxFaults /\ faults' = faults + 1 /\ UNCHANGED crashes
Works == UNCHANGED faultVars

\* simulation.UpdateClock.  It may fail with its statement executed, as any call
\* that writes: the reply is lost, or the request's context is cancelled under it.
Write(d, status)       == dbAsOf' = d /\ dbStatus' = status
UpdateClock(d, status) == Write(d, status) /\ Works
UpdateFails(d, status) == (Write(d, status) \/ UNCHANGED rowVars) /\ Fault

\* An HTTP goroutine accepts a request of this kind.
Accept(w, op) == w \in Requests /\ pc[w] = "idle" /\ op \in Ops

WindowOpen == window # 0
Running(o) == o # 0 /\ cStatus[o] = "running"

\* Mutants of ShouldAdvance: any matched day will do; the last one must be later.
ShouldAdvanceOnAnyMatch(last, cur) == last # 0
ShouldAdvanceOnlyBeyond(last, cur) == last # 0 /\ last > cur

\* The day last matched is the clock's day, or later.
ShouldAdvance(last, cur) == last # 0 /\ last >= cur

-----------------------------------------------------------------------------
(* CloseWindowAndMatch: from "close" until CmReturn.  ret[w] tells the      *)
(* caller: "tick" is the first call in Tick, "batch" the last one, and      *)
(* "expired" the auto ticker's closeExpiredWindows.                         *)

\* The caller goes on after nil, or gives up on (and may undo) an error.
CmReturn(w, ok) ==
    IF ret[w] = "tick" /\ ok
    THEN /\ Goto(w, "load")
         /\ cobj' = Put(cobj, w, 0) /\ day' = Put(day, w, 0)
         /\ count' = Put(count, w, 0) /\ ret' = Put(ret, w, "none")
         /\ UNCHANGED <<obj, prev, sIdx, sStatus, rLast>>
    ELSE IF ret[w] = "batch" /\ ~ok
    THEN Goto(w, "restore") /\ UNCHANGED heldVars
    ELSE Done(w)

CmClose(w) ==
    /\ pc[w] = "close"
    /\ IF WindowOpen
       THEN /\ window' = 0 /\ day' = Put(day, w, window)
            /\ Goto(w, "match")
            /\ UNCHANGED <<obj, cobj, prev, ret, sIdx, sStatus, rLast, count>>
       ELSE CmReturn(w, TRUE) /\ UNCHANGED window
    /\ Works
    /\ UNCHANGED <<clockVars, lastMatched, rowVars, cfgVars, histVars>>

\* The match transaction of day d commits.
Commit(d) == matched' = matched \cup {d} /\ again' = again \cup (matched \cap {d})

\* Mutant: the error of the matcher is dropped, as MergeConfig's is.
CmMatchDropsError(w) ==
    /\ pc[w] = "match"
    /\ Goto(w, "record") /\ UNCHANGED heldVars
    /\ (Commit(day[w]) /\ Works) \/ (UNCHANGED histVars /\ Fault)
    /\ UNCHANGED <<clockVars, window, lastMatched, rowVars, cfgVars>>

\* The match transaction of the window's day succeeds, or fails as a whole; the
\* error may also be that of the COMMIT's reply.
CmMatch(w) ==
    /\ pc[w] = "match"
    /\ \/ Commit(day[w]) /\ Goto(w, "record") /\ Works /\ UNCHANGED heldVars
       \/ (Commit(day[w]) \/ UNCHANGED histVars) /\ CmReturn(w, FALSE) /\ Fault
    /\ UNCHANGED <<clockVars, window, lastMatched, rowVars, cfgVars>>

CmRecord(w) ==
    /\ pc[w] = "record"
    /\ lastMatched' = day[w]
    /\ Goto(w, "merge") /\ Works
    /\ UNCHANGED <<clockVars, window, rowVars, cfgVars, heldVars, histVars>>

\* The error of MergeConfig is dropped.
CmMerge(w) ==
    /\ pc[w] = "merge"
    /\ \/ dbLast' = day[w] /\ Works
       \/ UNCHANGED dbLast /\ Fault
    /\ Goto(w, "reload")
    /\ UNCHANGED <<clockVars, window, lastMatched, rowVars, dbAwaiting, dbDays,
                   heldVars, histVars>>

\* The clock is looked up again; a paused one counts no day.
CmReload(w) ==
    /\ pc[w] = "reload"
    /\ IF Running(current)
       THEN /\ cobj' = Put(cobj, w, current) /\ Goto(w, "count")
            /\ UNCHANGED <<obj, prev, day, ret, sIdx, sStatus, rLast, count>>
       ELSE CmReturn(w, TRUE)
    /\ Works
    /\ UNCHANGED sysVars

\* One more day in the segment.  Only n >= CheckpointInterval is ever asked of
\* the count, so it saturates there.
OneMore(n) == IF n < CheckpointInterval THEN n + 1 ELSE n

\* RecordTickForCheckpoint reads the row ...
CmCount(w) ==
    /\ pc[w] = "count"
    /\ \/ /\ count' = Put(count, w, OneMore(dbDays)) /\ Goto(w, "counted") /\ Works
          /\ UNCHANGED <<obj, cobj, prev, day, ret, sIdx, sStatus, rLast>>
       \/ CmReturn(w, FALSE) /\ Fault
    /\ UNCHANGED sysVars

\* The segment is over, and days are left to play.
CheckpointDue(n, o) == n >= CheckpointInterval /\ cIdx[o] < N

\* ... and merges the new count back in a second statement.
CmCounted(w) ==
    /\ pc[w] = "counted"
    /\ \/ /\ dbDays' = count[w] /\ Works
          /\ IF CheckpointDue(count[w], cobj[w])
             THEN Goto(w, "gate") /\ UNCHANGED heldVars
             ELSE CmReturn(w, TRUE)
       \/ (dbDays' = count[w] \/ UNCHANGED dbDays) /\ CmReturn(w, FALSE) /\ Fault
    /\ UNCHANGED <<clockVars, window, lastMatched, rowVars, dbAwaiting, dbLast, histVars>>

\* c.Status = "paused", written without r.mu.
CmGate(w) ==
    /\ pc[w] = "gate"
    /\ cStatus' = [cStatus EXCEPT ![cobj[w]] = "paused"]
    /\ Goto(w, "await") /\ Works
    /\ UNCHANGED <<cIdx, current, window, lastMatched, rowVars, cfgVars, heldVars, histVars>>

\* SetAwaitingProceed(true)
CmAwait(w) ==
    /\ pc[w] = "await"
    /\ \/ dbAwaiting' = TRUE /\ Goto(w, "gatesample") /\ Works /\ UNCHANGED heldVars
       \/ (dbAwaiting' = TRUE \/ UNCHANGED dbAwaiting) /\ CmReturn(w, FALSE) /\ Fault
    /\ UNCHANGED <<clockVars, window, lastMatched, rowVars, dbDays, dbLast, histVars>>

CmGateSample(w) ==
    /\ pc[w] = "gatesample"
    /\ sIdx' = Put(sIdx, w, cIdx[cobj[w]])
    /\ Goto(w, "gatepersist") /\ Works
    /\ UNCHANGED <<sysVars, obj, cobj, prev, day, ret, sStatus, rLast, count>>

CmGatePersist(w) ==
    /\ pc[w] = "gatepersist"
    /\ \/ UpdateClock(sIdx[w], "paused") /\ Goto(w, "shut") /\ UNCHANGED heldVars
       \/ UpdateFails(sIdx[w], "paused") /\ CmReturn(w, FALSE)
    /\ UNCHANGED <<clockVars, window, lastMatched, cfgVars, histVars>>

\* The window is shut again, and sim.checkpoint published.
CmShut(w) ==
    /\ pc[w] = "shut"
    /\ window' = 0
    /\ \/ CmReturn(w, TRUE) /\ Works
       \/ CmReturn(w, FALSE) /\ Fault
    /\ UNCHANGED <<clockVars, lastMatched, rowVars, cfgVars, histVars>>

CloseWindowAndMatch(w) ==
    \/ CmClose(w) \/ CmMatch(w) \/ CmRecord(w) \/ CmMerge(w) \/ CmReload(w)
    \/ CmCount(w) \/ CmCounted(w) \/ CmGate(w) \/ CmAwait(w)
    \/ CmGateSample(w) \/ CmGatePersist(w) \/ CmShut(w)

-----------------------------------------------------------------------------
(* Tick *)

\* An open window is closed and matched first.
TickBegin(w) ==
    /\ Accept(w, "tick") \/ pc[w] = "autotick"
    /\ IF WindowOpen
       THEN ret' = Put(ret, w, "tick") /\ Goto(w, "close")
       ELSE Goto(w, "load") /\ UNCHANGED ret
    /\ Works
    /\ UNCHANGED <<sysVars, obj, cobj, prev, day, sIdx, sStatus, rLast, count>>

OpenWindow(w, d) ==
    /\ window' = d
    /\ obj' = Put(obj, w, current) /\ prev' = Put(prev, w, cIdx[current])
    /\ Goto(w, "ticksample")
    /\ UNCHANGED <<cobj, day, ret, sIdx, sStatus, rLast, count>>

\* Get fails, the clock is not loaded, or it is not running.
TickRefused(w) ==
    /\ pc[w] = "load"
    /\ \/ ~Running(current) /\ Works
       \/ Fault
    /\ Done(w)
    /\ UNCHANGED sysVars

\* The day is not matched yet: its window opens again.
TickStay(w) ==
    /\ pc[w] = "load" /\ Running(current)
    /\ ~ShouldAdvance(lastMatched, cIdx[current])
    /\ OpenWindow(w, cIdx[current]) /\ Works
    /\ UNCHANGED <<clockVars, lastMatched, rowVars, cfgVars, histVars>>

\* SimClock.Tick moves to the next day; when the publish fails, Tick returns
\* with the clock moved, and neither a window nor a row to show for it.
TickAdvance(w) ==
    /\ pc[w] = "load" /\ Running(current)
    /\ ShouldAdvance(lastMatched, cIdx[current]) /\ cIdx[current] < N
    /\ cIdx' = [cIdx EXCEPT ![current] = @ + 1]
    /\ \/ OpenWindow(w, cIdx[current] + 1) /\ Works
       \/ Done(w) /\ Fault /\ UNCHANGED window
    /\ UNCHANGED <<cStatus, current, lastMatched, rowVars, cfgVars, histVars>>

\* The last day is matched: the clock completes.
TickLastDay(w) ==
    /\ pc[w] = "load" /\ Running(current)
    /\ ShouldAdvance(lastMatched, cIdx[current]) /\ cIdx[current] >= N
    /\ cStatus' = [cStatus EXCEPT ![current] = "completed"]
    /\ \/ /\ prev' = Put(prev, w, cIdx[current]) /\ Goto(w, "finish") /\ Works
          /\ UNCHANGED <<obj, cobj, day, ret, sIdx, sStatus, rLast, count>>
       \/ Done(w) /\ Fault
    /\ UNCHANGED <<cIdx, current, window, lastMatched, rowVars, cfgVars, histVars>>

TickFinish(w) ==
    /\ pc[w] = "finish"
    /\ \/ UpdateClock(prev[w], "completed") /\ Goto(w, "unload") /\ UNCHANGED heldVars
       \/ UpdateFails(prev[w], "completed") /\ Done(w)
    /\ UNCHANGED <<clockVars, window, lastMatched, cfgVars, histVars>>

\* delete(r.clocks), delete(r.windows)
TickUnload(w) ==
    /\ pc[w] = "unload"
    /\ current' = 0 /\ window' = 0
    /\ Done(w) /\ Works
    /\ UNCHANGED <<cIdx, cStatus, lastMatched, rowVars, cfgVars, histVars>>

\* The arguments of UpdateClock are read from the clock without r.mu ...
TickSample(w) ==
    /\ pc[w] = "ticksample"
    /\ sIdx' = Put(sIdx, w, cIdx[obj[w]])
    /\ sStatus' = Put(sStatus, w, cStatus[obj[w]])
    /\ Goto(w, "tickpersist") /\ Works
    /\ UNCHANGED <<sysVars, obj, cobj, prev, day, ret, rLast, count>>

\* ... and written some time later.
TickPersist(w) ==
    /\ pc[w] = "tickpersist"
    /\ \/ /\ UpdateClock(sIdx[w], sStatus[w])
          /\ IF Batch
             THEN /\ ret' = Put(ret, w, "batch") /\ Goto(w, "close")
                  /\ UNCHANGED <<obj, cobj, prev, day, sIdx, sStatus, rLast, count>>
             ELSE Done(w)
       \/ UpdateFails(sIdx[w], sStatus[w]) /\ Goto(w, "restore") /\ UNCHANGED heldVars
    /\ UNCHANGED <<clockVars, window, lastMatched, cfgVars, histVars>>

\* c.Restore(prevIdx, prevDate, prevStatus); prevStatus is always "running".
TickRestore(w) ==
    /\ pc[w] = "restore"
    /\ cIdx' = [cIdx EXCEPT ![obj[w]] = prev[w]]
    /\ cStatus' = [cStatus EXCEPT ![obj[w]] = "running"]
    /\ Done(w) /\ Works
    /\ UNCHANGED <<current, window, lastMatched, rowVars, cfgVars, histVars>>

Tick(w) ==
    \/ TickBegin(w) \/ TickRefused(w) \/ TickStay(w) \/ TickAdvance(w)
    \/ TickLastDay(w) \/ TickFinish(w) \/ TickUnload(w) \/ TickSample(w)
    \/ TickPersist(w) \/ TickRestore(w)

-----------------------------------------------------------------------------
(* Start, Proceed and Pause *)

\* Mutant: as_of_date is used without the nil check.
ResumeDayUnchecked == dbAsOf

\* idx of the persisted as_of_date; a simulation never started begins on day 1.
ResumeDay == IF dbAsOf = 0 THEN 1 ELSE dbAsOf

StartRead(w) ==
    /\ Accept(w, "start") \/ pc[w] = "proceedstart"
    /\ \/ dbStatus = "completed" /\ Done(w) /\ Works
       \/ Done(w) /\ Fault
       \/ /\ dbStatus # "completed" /\ Works
          /\ sIdx' = Put(sIdx, w, ResumeDay) /\ rLast' = Put(rLast, w, dbLast)
          /\ Goto(w, "startlock")
          /\ UNCHANGED <<obj, cobj, prev, day, ret, sStatus, count>>
    /\ UNCHANGED sysVars

Loaded(status) == current # 0 /\ cStatus[current] = status

StartRunning(w) ==
    /\ pc[w] = "startlock" /\ Loaded("running")
    /\ Done(w) /\ Works
    /\ UNCHANGED sysVars

StartPaused(w) ==
    /\ pc[w] = "startlock" /\ Loaded("paused")
    /\ cStatus' = [cStatus EXCEPT ![current] = "running"]
    /\ obj' = Put(obj, w, current)
    /\ Goto(w, "resumesample") /\ Works
    /\ UNCHANGED <<cIdx, current, window, lastMatched, rowVars, cfgVars, histVars,
                   cobj, prev, day, ret, sIdx, sStatus, rLast, count>>

\* Objects no goroutine and no map entry points to.
Unreachable ==
    Clocks \ ({current} \cup {obj[w] : w \in Workers} \cup {cobj[w] : w \in Workers})

\* NewSimClockAt and r.lastMatched, from the row read earlier.
NewClock(o, d, last) ==
    /\ cIdx' = [cIdx EXCEPT ![o] = d]
    /\ cStatus' = [cStatus EXCEPT ![o] = "running"]
    /\ current' = o
    /\ lastMatched' = last

StartLoad(w) ==
    /\ pc[w] = "startlock" /\ ~Loaded("running") /\ ~Loaded("paused")
    /\ \E o \in Unreachable :
          /\ \A p \in Unreachable : o <= p
          /\ NewClock(o, sIdx[w], rLast[w])
          /\ obj' = Put(obj, w, o)
    /\ Goto(w, "startsample") /\ Works
    /\ UNCHANGED <<window, rowVars, cfgVars, histVars,
                   cobj, prev, day, ret, sIdx, sStatus, rLast, count>>

StartSample(w) ==
    /\ pc[w] \in {"startsample", "resumesample"}
    /\ sIdx' = Put(sIdx, w, cIdx[obj[w]])
    /\ Goto(w, IF pc[w] = "startsample" THEN "startpersist" ELSE "resumepersist")
    /\ Works
    /\ UNCHANGED <<sysVars, obj, cobj, prev, day, ret, sStatus, rLast, count>>

\* A new clock whose row cannot be written is dropped again.
StartPersist(w) ==
    /\ pc[w] \in {"startpersist", "resumepersist"}
    /\ \/ UpdateClock(sIdx[w], "running") /\ Done(w)
       \/ /\ UpdateFails(sIdx[w], "running")
          /\ IF pc[w] = "startpersist"
             THEN Goto(w, "startdrop") /\ UNCHANGED heldVars
             ELSE Done(w)
    /\ UNCHANGED <<clockVars, window, lastMatched, cfgVars, histVars>>

StartDrop(w) ==
    /\ pc[w] = "startdrop"
    /\ current' = 0
    /\ Done(w) /\ Works
    /\ UNCHANGED <<cIdx, cStatus, window, lastMatched, rowVars, cfgVars, histVars>>

Start(w) ==
    \/ StartRead(w) \/ StartRunning(w) \/ StartPaused(w) \/ StartLoad(w)
    \/ StartSample(w) \/ StartPersist(w) \/ StartDrop(w)

ProceedRead(w) ==
    /\ Accept(w, "proceed") /\ dbAwaiting
    /\ Goto(w, "proceedreset") /\ Works
    /\ UNCHANGED <<sysVars, heldVars>>

\* Mutant: only the counter is reset.
ProceedKeepsFlag(w) ==
    /\ pc[w] = "proceedreset"
    /\ \/ dbDays' = 0 /\ Goto(w, "proceedstart") /\ Works /\ UNCHANGED heldVars
       \/ Done(w) /\ Fault /\ UNCHANGED dbDays
    /\ UNCHANGED <<clockVars, window, lastMatched, rowVars, dbAwaiting, dbLast, histVars>>

\* ResetCheckpointWindow
ProceedReset(w) ==
    /\ pc[w] = "proceedreset"
    /\ \/ /\ dbDays' = 0 /\ dbAwaiting' = FALSE
          /\ Goto(w, "proceedstart") /\ Works /\ UNCHANGED heldVars
       \/ /\ (dbDays' = 0 /\ dbAwaiting' = FALSE) \/ UNCHANGED <<dbDays, dbAwaiting>>
          /\ Done(w) /\ Fault
    /\ UNCHANGED <<clockVars, window, lastMatched, rowVars, dbLast, histVars>>

\* Pause keeps r.mu over its UpdateClock, so it is one step.
Pause(w) ==
    /\ Accept(w, "pause")
    /\ current # 0 /\ cStatus[current] # "completed"
    /\ cStatus' = [cStatus EXCEPT ![current] = "paused"]
    /\ window' = 0
    /\ UpdateClock(cIdx[current], "paused") \/ UpdateFails(cIdx[current], "paused")
    /\ UNCHANGED <<cIdx, current, lastMatched, cfgVars, pc, heldVars, histVars>>

-----------------------------------------------------------------------------
(* The auto ticker: the 250 ms loop of RunAutoTicker *)

\* windowsDue found the window past its CloseAt.
TickerExpired(w) ==
    /\ w \in Tickers /\ pc[w] = "idle" /\ WindowOpen
    /\ ret' = Put(ret, w, "expired") /\ Goto(w, "close") /\ Works
    /\ UNCHANGED <<sysVars, obj, cobj, prev, day, sIdx, sStatus, rLast, count>>

\* runDueAutoTicks lists the simulation ...
TickerDue(w) ==
    /\ w \in Tickers /\ pc[w] = "idle" /\ Running(current) /\ ~WindowOpen
    /\ Goto(w, "due") /\ Works
    /\ UNCHANGED <<sysVars, heldVars>>

\* Mutant: the row's awaiting_proceed is not looked at.
TickerGateUnchecked(w) ==
    /\ pc[w] = "due"
    /\ Goto(w, "autotick") /\ Works
    /\ UNCHANGED <<sysVars, heldVars>>

\* ... and then skips it when its row awaits a Proceed.
TickerGate(w) ==
    /\ pc[w] = "due"
    /\ Goto(w, IF dbAwaiting THEN "idle" ELSE "autotick") /\ Works
    /\ UNCHANGED <<sysVars, heldVars>>

Ticker(w) == TickerExpired(w) \/ TickerDue(w) \/ TickerGate(w)

-----------------------------------------------------------------------------
(* The process dies and is started again.  ResumePersisted runs before the *)
(* ticker and the HTTP server, so a restart is one step: memory is lost,    *)
(* and a row left 'running' is loaded and written again.  When that Start   *)
(* fails, the error is only logged.                                         *)
Forget ==
    /\ pc' = [w \in Workers |-> "idle"]
    /\ obj' = [w \in Workers |-> 0] /\ cobj' = [w \in Workers |-> 0]
    /\ prev' = [w \in Workers |-> 0] /\ day' = [w \in Workers |-> 0]
    /\ ret' = [w \in Workers |-> "none"]
    /\ sIdx' = [w \in Workers |-> 0] /\ sStatus' = [w \in Workers |-> "paused"]
    /\ rLast' = [w \in Workers |-> 0] /\ count' = [w \in Workers |-> 0]
    /\ window' = 0

Resumed ==
    /\ dbStatus = "running"
    /\ cIdx' = [o \in Clocks |-> ResumeDay]
    /\ cStatus' = [o \in Clocks |-> "running"]
    /\ current' = 1 /\ lastMatched' = dbLast
    /\ dbAsOf' = ResumeDay /\ UNCHANGED faults

NotLoaded ==
    /\ \/ dbStatus # "running" /\ UNCHANGED <<dbAsOf, faults>>
       \/ /\ dbStatus = "running" /\ dbAsOf' \in {dbAsOf, ResumeDay}
          /\ faults < MaxFaults /\ faults' = faults + 1
    /\ cIdx' = [o \in Clocks |-> 1] /\ cStatus' = [o \in Clocks |-> "paused"]
    /\ current' = 0 /\ lastMatched' = 0

CrashRestart ==
    /\ crashes < MaxCrashes /\ crashes' = crashes + 1
    /\ Forget /\ (Resumed \/ NotLoaded)
    /\ UNCHANGED <<dbStatus, cfgVars, histVars>>

-----------------------------------------------------------------------------
Step(w) ==
    \/ CloseWindowAndMatch(w) \/ Tick(w) \/ Start(w)
    \/ ProceedRead(w) \/ ProceedReset(w) \/ Pause(w) \/ Ticker(w)

Next == (\E w \in Workers : Step(w)) \/ CrashRestart

Spec == Init /\ [][Next]_vars

\* The Go scheduler runs every goroutine that can run, database calls return,
\* and the 250 ms loop comes round.  The user keeps asking: a request to Start
\* or to Proceed that is possible again and again is made and accepted.
InCall(w) == pc[w] # "idle" /\ Step(w)
Fairness ==
    /\ \A w \in Workers : WF_vars(InCall(w))
    /\ \A w \in Tickers : WF_vars(Ticker(w))
    /\ \A w \in Requests : SF_vars(StartRead(w)) /\ SF_vars(ProceedRead(w))

FairSpec == Spec /\ Fairness

-----------------------------------------------------------------------------
Labels == {"idle", "close", "match", "record", "merge", "reload", "count",
           "counted", "gate", "await", "gatesample", "gatepersist", "shut",
           "load", "finish", "unload", "ticksample", "tickpersist", "restore",
           "startlock", "startsample", "startpersist", "startdrop",
           "resumesample", "resumepersist", "proceedreset", "proceedstart",
           "due", "autotick"}
Returns == {"none", "tick", "batch", "expired"}

SharedTypes ==
    /\ cIdx \in [Clocks -> Days] /\ cStatus \in [Clocks -> Statuses]
    /\ current \in ClockOrNone
    /\ window \in DayOrNone
    /\ lastMatched \in DayOrNone
    /\ dbAsOf \in DayOrNone /\ dbStatus \in Statuses
    /\ dbAwaiting \in BOOLEAN /\ dbDays \in Nat /\ dbLast \in DayOrNone
    /\ matched \subseteq Days /\ again \subseteq matched
    /\ faults \in Nat /\ crashes \in Nat

HeldTypes ==
    /\ pc \in [Workers -> Labels]
    /\ obj \in [Workers -> ClockOrNone] /\ cobj \in [Workers -> ClockOrNone]
    /\ prev \in [Workers -> DayOrNone] /\ day \in [Workers -> DayOrNone]
    /\ ret \in [Workers -> Returns]
    /\ sIdx \in [Workers -> DayOrNone] /\ sStatus \in [Workers -> Statuses]
    /\ rLast \in [Workers -> DayOrNone] /\ count \in [Workers -> Nat]

\* A goroutine uses no pointer and no day before it has set it.
HeldBy(w) ==
    /\ pc[w] \in {"ticksample", "tickpersist", "restore"} \/ ret[w] = "batch"
          => obj[w] \in Clocks /\ prev[w] \in Days
    /\ pc[w] \in {"startsample", "resumesample"} => obj[w] \in Clocks
    /\ pc[w] \in {"count", "counted", "gate", "await", "gatesample"}
          => cobj[w] \in Clocks
    /\ pc[w] \in {"match", "record", "merge"} => day[w] \in Days
    /\ pc[w] = "startlock" => sIdx[w] \in Days

\* The type invariant of the clock: every variable has its type, and no step
\* follows a nil *SimClock or uses a zero date, whichever calls interleave
\* (registry.go and autotick.go keep both across unlocks).
TypeOK == SharedTypes /\ HeldTypes /\ \A w \in Workers : HeldBy(w)

-----------------------------------------------------------------------------
Before(d)  == \A e \in Days : e < d => e \in matched
AllMatched == Days \subseteq matched

\* No trading day is skipped.  Days are matched in order; neither the clock in
\* memory, nor the open window, nor the day a restart resumes from stands past
\* a day whose match transaction has not committed; and the row says
\* 'completed' only after the last day was matched (Registry.Tick).
NoDaySkipped ==
    /\ \A d \in matched : Before(d)
    /\ current # 0 => Before(cIdx[current])
    /\ WindowOpen => Before(window)
    /\ Before(dbAsOf)
    /\ dbStatus = "completed" => AllMatched

\* A day that memory or config.last_matched_date calls matched has a committed
\* match transaction, whatever failed and whoever raced (CloseWindowAndMatch).
RecordedWasMatched == {lastMatched, dbLast} \subseteq matched \cup {0}

\* While clients leave ticking to the auto ticker, and nothing fails, no day
\* is matched a second time until every day has been matched (RunAutoTicker
\* is one goroutine, and ShouldAdvance moves past a matched day).
MatchedOnce == again # {} => AllMatched \/ faults + crashes > 0

\* While clients leave ticking to the auto ticker, no window opens before the
\* user's Proceed, even if someone calls Start (runDueAutoTicks, AwaitingProceed).
GateRespected == [][dbAwaiting /\ ~WindowOpen => ~WindowOpen']_vars

\* Every simulation whose user keeps calling Start and Proceed completes, a
\* failed call or a crash included (RunAutoTicker, Proceed, ResumePersisted).
Completes == <>(dbStatus = "completed")

\* docs/rules.md:114 and 122: COMPLETED is the last status of a simulation.
CompletedIsFinal == [][dbStatus = "completed" => dbStatus' = "completed"]_vars

\* registry.go:279: Pause marks the clock paused and persists the status.
PauseIsPersisted ==
    (\A w \in Workers : pc[w] = "idle") /\ current # 0 /\ cStatus[current] = "paused"
        => dbStatus = "paused"

\* What the clock promises of the order of days.
Playback == INSTANCE Playback WITH played <- matched, closed <- (dbStatus = "completed")

\* The clock implements Playback: days are played one by one and in order, and
\* the simulation closes only when all have been (Registry.Tick).
ImplementsPlayback == Playback!Spec
=============================================================================
