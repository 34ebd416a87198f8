------------------------------ MODULE Barrier ------------------------------
(***************************************************************************)
(* The information barrier of an hourly simulation.  The clock in memory    *)
(* goes from bar to bar, and leaves in the row the date of its session      *)
(* (simulations.as_of_date) and in the config its bar (as_of_ts,            *)
(* last_matched_ts), each in a statement of its own.  A reader asks for a   *)
(* quote, for candles or for a portfolio: its handler takes the date from   *)
(* the clock or the row, looks at the clock again, reads the config, and    *)
(* answers from the 60m bars or from the daily ones.                        *)
(*                                                                         *)
(* The calls that move the clock come one at a time; how they interleave is *)
(* the subject of SimClock.  Pause and the reader come at any moment.       *)
(***************************************************************************)
EXTENDS Integers, FiniteSetsExt

CONSTANTS
    B,          \* bars of the simulation
    Session,    \* the trading date of a bar
    MaxFaults,  \* bound: failed statements
    MaxCrashes  \* bound: restarts of the server

Bars == 1..B
Sessions == {Session[b] : b \in Bars}

ASSUME BarrierAssumption ==
    /\ B \in Nat \ {0} /\ MaxFaults \in Nat /\ MaxCrashes \in Nat
    /\ Session \in [Bars -> Nat \ {0}]
    /\ \A a, b \in Bars : a <= b => Session[a] <= Session[b]

VARIABLES
    loaded, status, cur,          \* Registry.clocks: Status and CurrentIndex
    window, matched,              \* Registry.windows, lastMatched: a bar, or 0
    call, prev, closing,          \* the call under way: its next step, the bar it began at
                                  \*   and the bar it matches
    rowStatus, asOfDate,          \* simulations.status, as_of_date: a session, or 0
    asOfTs, lastTs,               \* config.as_of_ts, last_matched_ts: a bar, or 0
    reader,                       \* the handler of a read request
    shown,                        \* the last bar its answer tells something about
    processed,                    \* history: the bars that have been matched
    frontier,                     \* history: the furthest bar of the clock
    undone,                       \* history: a failure took the clock in memory back, or away
    faults, crashes

memoryVars == <<loaded, status, cur, window, matched>>
callVars   == <<call, prev, closing>>
tableVars  == <<rowStatus, asOfDate, asOfTs, lastTs>>
readVars   == <<reader, shown>>
countVars  == <<faults, crashes>>
barrierVars == <<memoryVars, callVars, tableVars, readVars, processed, frontier, undone, countVars>>

NoReader == [at |-> "idle", asks |-> "", live |-> FALSE, bar |-> 0, date |-> 0,
             hourly |-> FALSE, lastBar |-> TRUE, unread |-> FALSE]

BarrierInit ==
    /\ loaded = FALSE /\ status = "paused" /\ cur = 0 /\ window = 0 /\ matched = 0
    /\ call = "none" /\ prev = 0 /\ closing = 0
    /\ rowStatus = "paused" /\ asOfDate = 0 /\ asOfTs = 0 /\ lastTs = 0
    /\ reader = NoReader /\ shown = 0
    /\ processed = {} /\ frontier = 0 /\ undone = FALSE /\ faults = 0 /\ crashes = 0

Fails == faults < MaxFaults /\ faults' = faults + 1 /\ UNCHANGED crashes

-----------------------------------------------------------------------------
(* The clock *)

LastBarUntil(s) == Max({b \in Bars : Session[b] <= s} \cup {0})

\* IsLastBarOfSession
LastOfSession(b) == b = B \/ Session[b + 1] # Session[b]

\* indexOfBarOnSession: its first bar.
SessionBegins(s) == Min({b \in Bars : Session[b] = s})

\* Mutant: as_of_ts, also when it has not been written yet.
StartAtTs == asOfTs

\* Where Start puts a new clock (indexOfBar).
StartBar ==
    CASE asOfTs # 0                   -> asOfTs
      [] asOfTs = 0 /\ asOfDate # 0   -> SessionBegins(asOfDate)
      [] OTHER                        -> 1

\* Mutant: the next bar is due as soon as the one before the current is matched.
AdvanceEarly == matched # 0 /\ matched >= cur - 1

\* ShouldAdvanceExact
ShouldAdvance == matched # 0 /\ matched >= cur

Reached(b) == frontier' = Max({frontier, b})

\* Start finds the clock paused, or builds one from the row it has read: also in
\* place of a completed one whose row could not be written.
Start ==
    /\ call = "none" /\ rowStatus # "completed"
    /\ \/ /\ loaded /\ status = "paused"
          /\ status' = "running" /\ call' = "resumerow"
          /\ UNCHANGED <<loaded, cur, window, matched, frontier>>
       \/ /\ ~loaded \/ status = "completed"
          /\ loaded' = TRUE /\ status' = "running" /\ cur' = StartBar /\ matched' = lastTs
          /\ Reached(StartBar) /\ call' = "startrow"
          /\ UNCHANGED window
    /\ UNCHANGED <<prev, closing, tableVars, readVars, processed, undone, countVars>>

Pause ==
    /\ loaded /\ status # "completed"
    /\ status' = "paused" /\ window' = 0
    /\ \/ asOfDate' = Session[cur] /\ rowStatus' = "paused" /\ UNCHANGED countVars
       \/ UNCHANGED <<asOfDate, rowStatus>> /\ Fails
    /\ UNCHANGED <<loaded, cur, matched, callVars, asOfTs, lastTs, readVars,
                   processed, frontier, undone>>

\* Tick: the next bar, or the same one while it is not matched.
TickOpen ==
    /\ call = "none" /\ loaded /\ status = "running" /\ window = 0
    /\ ShouldAdvance => cur < B
    /\ cur' = IF ShouldAdvance THEN cur + 1 ELSE cur
    /\ prev' = cur /\ window' = cur' /\ Reached(cur') /\ call' = "tickrow"
    /\ UNCHANGED <<loaded, status, matched, closing, tableVars, readVars, processed,
                   undone, countVars>>

\* The next bar's tick, or the completion, cannot be published: the call ends there.
TickUnheard ==
    /\ call = "none" /\ loaded /\ status = "running" /\ window = 0
    /\ ShouldAdvance /\ Fails
    /\ \/ cur < B /\ cur' = cur + 1 /\ UNCHANGED status
       \/ cur = B /\ status' = "completed" /\ UNCHANGED cur
    /\ Reached(cur')
    /\ UNCHANGED <<loaded, window, matched, callVars, tableVars, readVars, processed, undone>>

TickLastBar ==
    /\ call = "none" /\ loaded /\ status = "running" /\ window = 0
    /\ ShouldAdvance /\ cur = B
    /\ status' = "completed" /\ call' = "donerow"
    /\ UNCHANGED <<loaded, cur, window, matched, prev, closing, tableVars, readVars,
                   processed, frontier, undone, countVars>>

TickUnload ==
    /\ call = "donerow" /\ call' = "none"
    /\ \/ /\ asOfDate' = Session[cur] /\ rowStatus' = "completed"
          /\ loaded' = FALSE /\ window' = 0 /\ UNCHANGED countVars
       \/ UNCHANGED <<asOfDate, rowStatus, loaded, window>> /\ Fails
    /\ UNCHANGED <<status, cur, matched, prev, closing, asOfTs, lastTs, readVars,
                   processed, frontier, undone>>

\* UpdateClock; as_of_ts comes after it.
WriteRow ==
    /\ call \in {"tickrow", "startrow", "resumerow"}
    /\ asOfDate' = Session[cur] /\ rowStatus' = IF call = "tickrow" THEN status ELSE "running"
    /\ call' = "ts"
    /\ UNCHANGED <<memoryVars, prev, closing, asOfTs, lastTs, readVars, processed,
                   frontier, undone, countVars>>

\* UpdateClock fails: the tick takes the clock back, Start drops the one it built.
WriteRowFails ==
    /\ call \in {"tickrow", "startrow", "resumerow"} /\ Fails /\ call' = "none"
    /\ CASE call = "tickrow" -> /\ cur' = prev /\ undone' = (undone \/ prev # cur)
                                /\ status' = "running" /\ UNCHANGED loaded
         [] call = "startrow" -> loaded' = FALSE /\ undone' = TRUE /\ UNCHANGED <<cur, status>>
         [] OTHER -> UNCHANGED <<loaded, cur, status, undone>>
    /\ UNCHANGED <<window, matched, prev, closing, tableVars, readVars, processed, frontier>>

\* persistAsOfTS; its error is dropped.
WriteTs ==
    /\ call = "ts" /\ call' = "none"
    /\ \/ asOfTs' = cur /\ UNCHANGED countVars
       \/ UNCHANGED asOfTs /\ Fails
    /\ UNCHANGED <<memoryVars, prev, closing, rowStatus, asOfDate, lastTs, readVars,
                   processed, frontier, undone>>

\* CloseWindowAndMatch
CloseWindow ==
    /\ call = "none" /\ loaded /\ window # 0
    /\ window' = 0 /\ closing' = window /\ call' = "match"
    /\ UNCHANGED <<loaded, status, cur, matched, prev, tableVars, readVars, processed,
                   frontier, undone, countVars>>

Match ==
    /\ call = "match" /\ call' = "matchedts"
    /\ processed' = processed \cup {closing} /\ matched' = closing
    /\ UNCHANGED <<loaded, status, cur, window, prev, closing, tableVars, readVars,
                   frontier, undone, countVars>>

\* In batch mode the tick takes the clock back.
MatchFails ==
    /\ call = "match" /\ Fails /\ call' = "none" /\ closing' = 0
    /\ \/ UNCHANGED <<cur, status, undone>>
       \/ cur' = prev /\ status' = "running" /\ undone' = (undone \/ prev # cur)
    /\ UNCHANGED <<loaded, window, matched, prev, tableVars, readVars, processed, frontier>>

\* MergeConfig of last_matched_ts; its error is dropped.
WriteMatched ==
    /\ call = "matchedts" /\ call' = "none" /\ closing' = 0
    /\ \/ lastTs' = matched /\ UNCHANGED countVars
       \/ UNCHANGED lastTs /\ Fails
    /\ UNCHANGED <<memoryVars, prev, rowStatus, asOfDate, asOfTs, readVars, processed,
                   frontier, undone>>

\* The server restarts; only a running simulation is loaded again, by ResumePersisted.
Restart ==
    /\ crashes < MaxCrashes /\ crashes' = crashes + 1 /\ UNCHANGED faults
    /\ window' = 0 /\ prev' = 0 /\ closing' = 0 /\ reader' = NoReader /\ shown' = 0
    /\ IF rowStatus = "running"
       THEN /\ loaded' = TRUE /\ status' = "running" /\ cur' = StartBar /\ matched' = lastTs
            /\ Reached(StartBar) /\ call' = "startrow"
       ELSE /\ loaded' = FALSE /\ status' = "paused" /\ cur' = 0 /\ matched' = 0
            /\ call' = "none" /\ UNCHANGED frontier
    /\ UNCHANGED <<tableVars, processed, undone>>

-----------------------------------------------------------------------------
(* The reader: GetQuote, GetOHLCV, GetPortfolio with a simulation_id *)

Requests == {"quote", "candles", "candles1d", "candles60m", "portfolio"}

Reads(r) == reader' = r /\ UNCHANGED <<memoryVars, callVars, tableVars, processed, frontier, undone>>

Ask(kind) ==
    /\ reader.at = "idle" /\ shown' = 0
    /\ Reads([NoReader EXCEPT !.at = "clock", !.asks = kind])
    /\ UNCHANGED countVars

\* AsOfDate
ReadClock ==
    /\ reader.at = "clock"
    /\ IF loaded /\ status # "completed"
       THEN Reads([reader EXCEPT !.at = "look", !.live = TRUE, !.bar = cur,
                                 !.date = Session[cur]])
       ELSE Reads([reader EXCEPT !.at = "row"])
    /\ UNCHANGED <<shown, countVars>>

\* Mutant: the date stands for its end.
ReadRowDayEnd ==
    /\ reader.at = "row"
    /\ IF asOfDate = 0
       THEN Reads(NoReader)
       ELSE Reads([reader EXCEPT !.at = "look", !.date = asOfDate,
                                 !.bar = LastBarUntil(asOfDate)])
    /\ UNCHANGED <<shown, countVars>>

\* resolveSimulationAsOf from the row: midnight of as_of_date, before its first bar.
\* Without a date there is nothing to show.
ReadRow ==
    /\ reader.at = "row"
    /\ IF asOfDate = 0
       THEN Reads(NoReader)
       ELSE Reads([reader EXCEPT !.at = "look", !.date = asOfDate,
                                 !.bar = LastBarUntil(asOfDate - 1)])
    /\ UNCHANGED <<shown, countVars>>

\* ActiveClock: by now the clock may be at another bar, or gone.  A quote does not ask.
Look ==
    /\ reader.at = "look"
    /\ Reads([reader EXCEPT !.at = "config",
                            !.hourly = loaded /\ reader.asks # "quote",
                            !.lastBar = loaded => LastOfSession(cur)])
    /\ UNCHANGED <<shown, countVars>>

\* simulation.Get for bar_interval; its error is dropped.  A portfolio does not ask.
ReadConfig ==
    /\ reader.at = "config"
    /\ \/ /\ UNCHANGED countVars
          /\ Reads([reader EXCEPT !.at = "answer",
                                  !.hourly = @ \/ reader.asks \in {"quote", "candles"}])
       \/ /\ reader.asks # "portfolio" /\ Fails
          /\ Reads([reader EXCEPT !.at = "answer", !.unread = TRUE])
    /\ UNCHANGED shown

\* Mutant: the daily bars end on the date of the clock.
CandlesDate == reader.date

\* GetOHLCV: in the middle of a session its daily bar is left out.
DailyAsOf == IF reader.hourly /\ ~reader.lastBar THEN reader.date - 1 ELSE reader.date

\* QuoteProvider.Current, GetOHLCV, GetPortfolioDetail: which bars the answer is from.
\* A portfolio tells nothing of them before the first match, when it holds no share.
FromHourly ==
    CASE reader.asks = "quote"      -> reader.hourly
      [] reader.asks = "portfolio"  -> reader.hourly /\ reader.live
      [] OTHER                      -> reader.asks = "candles60m"

Told ==
    IF reader.asks = "portfolio" /\ processed = {} THEN 0
    ELSE CASE FromHourly -> reader.bar
           [] ~FromHourly /\ reader.asks \in {"candles", "candles1d"} -> LastBarUntil(DailyAsOf)
           [] OTHER -> LastBarUntil(reader.date)

Answer ==
    /\ reader.at = "answer" /\ shown' = Told
    /\ Reads([reader EXCEPT !.at = "idle"])
    /\ UNCHANGED countVars

-----------------------------------------------------------------------------
ReadSteps ==
    \/ \E kind \in Requests : Ask(kind)
    \/ ReadClock \/ ReadRow \/ Look \/ ReadConfig \/ Answer

ClockSteps ==
    \/ Start \/ Pause \/ TickOpen \/ TickUnheard \/ TickLastBar \/ TickUnload
    \/ WriteRow \/ WriteRowFails \/ WriteTs
    \/ CloseWindow \/ Match \/ MatchFails \/ WriteMatched
    \/ Restart

BarrierNext == ReadSteps \/ ClockSteps

BarrierSpec == BarrierInit /\ [][BarrierNext]_barrierVars

-----------------------------------------------------------------------------
Readers == [at : {"idle", "clock", "row", "look", "config", "answer"}, asks : Requests \cup {""},
            live : BOOLEAN, bar : 0..B, date : Nat, hourly : BOOLEAN, lastBar : BOOLEAN,
            unread : BOOLEAN]

\* The type invariant: a loaded clock is at a bar, and so is a call that matches
\* (Registry, NewSimClockAt).
BarrierTypeOK ==
    /\ loaded \in BOOLEAN /\ status \in {"running", "paused", "completed"}
    /\ cur \in 0..B /\ (loaded => cur # 0)
    /\ window \in 0..B /\ matched \in 0..B /\ prev \in 0..B /\ closing \in 0..B
    /\ call \in {"none", "tickrow", "startrow", "resumerow", "donerow", "ts", "match", "matchedts"}
    /\ (call = "match" => closing # 0)
    /\ rowStatus \in {"running", "paused", "completed"}
    /\ asOfDate \in Sessions \cup {0} /\ asOfTs \in 0..B /\ lastTs \in 0..B
    /\ reader \in Readers /\ shown \in 0..B
    /\ processed \subseteq Bars /\ frontier \in 0..B /\ undone \in BOOLEAN

\* No bar is left out: before the bar of the clock, of the window and of each record,
\* all bars have been matched, although a restart reads as_of_date, as_of_ts and
\* last_matched_ts, which may be of three different moments (Registry.Start).
NoBarSkipped ==
    /\ loaded => 1..(cur - 1) \subseteq processed
    /\ \A b \in {window, closing, asOfTs} : 1..(b - 1) \subseteq processed
    /\ 1..matched \subseteq processed /\ 1..lastTs \subseteq processed

\* A quote, a portfolio or candles dated by a clock in memory tell nothing of a bar the
\* clock has not reached, whatever it does between the reader's steps, as long as no
\* failure takes it back or hides the config from the reader (GetOHLCV, GetQuote).
NothingBeyondTheClock ==
    reader.live /\ ~undone /\ ~reader.unread => shown <= frontier

\* The 60m bars never run ahead, with or without a clock in memory and whatever fails
\* (IntradayBarsForSymbol, IntradayBarAtOrBefore).
HourlyBarsNeverAhead == FromHourly => shown <= frontier

\* docs/rules.md:143: "Mid-session hourly ticks must not expose the rest of that day's
\* daily bar."
RestOfDayHidden == shown <= frontier
=============================================================================
