--------------------------- MODULE Participation ---------------------------
(***************************************************************************)
(* Who took part in a tick, as the server sees it.  Every call of an agent  *)
(* is counted (Registry.apiCalls) and refused beyond CallLimit; when the    *)
(* submission window closes, an agent without a counted call has missed a   *)
(* tick, and MissLimit missed ticks in a row disqualify it.  The counters   *)
(* are emptied when a window opens and again when its day is matched.       *)
(*                                                                         *)
(* Ticks are announced on the Redis channel sim.events, which keeps nothing *)
(* for a subscriber that is not there.  Ticks and closes come one at a time, *)
(* with a submission window of positive length; a pause comes at any time,  *)
(* and the server may end at any time and make its clock again from the     *)
(* database.  A checkpoint is a pause after a match, and a proceed a start; *)
(* how they interleave with ticks is the subject of SimClock.               *)
(***************************************************************************)
EXTENDS Integers, Sequences

CONSTANTS
    Agents,
    N,           \* trading days
    CallLimit,   \* maxAPICallsPerTick
    MissLimit,   \* MissedTicksLimit
    MissedTicksDQThreshold, \* the limit when the configured one cannot be read
    MaxFaults,   \* bound: failed statements, matches and publications
    MaxStops     \* bound: pauses, and clocks made again from the database

ASSUME ParticipationAssumption ==
    /\ {N, CallLimit, MissLimit, MissedTicksDQThreshold} \subseteq Nat \ {0}
    /\ {MaxFaults, MaxStops} \subseteq Nat

Days == 1..N

VARIABLES
    status, day, window, matched, \* the clock, its window and its last matched day
    apiCalls,                     \* Registry.apiCalls
    asOf, recorded, ended,        \* as_of_date, last_matched_date, and whether the row says
                                  \*   completed
    at, called, todo,             \* the close under way: its next step, who had called,
                                  \*   and who is still to be counted
    missed, dq,                   \* portfolios.consecutive_missed_ticks and status
    subscribed, channel,          \* the subscription, and what has not been read from it
    heard,                        \* history: agents served while the window was open
    silent,                       \* history: days in a row an agent was not heard
    served,                       \* history: calls served since the last tick
    counted,                      \* history: the last day counted
    again,                        \* history: days to be announced again, for a failure, a pause
                                  \*   or a new clock came before their match was recorded
    faults, pauses,
    reloads                       \* clocks made again from the database

clockVars == <<status, day, window, matched>>
rowVars == <<asOf, recorded, ended>>
serverVars == <<clockVars, apiCalls, rowVars>>
closeVars == <<at, called, todo>>
tableVars == <<missed, dq>>
redisVars == <<subscribed, channel>>
seenVars == <<heard, served>>
pastVars == <<silent, counted, again>>
stopVars == <<pauses, reloads>>
participationVars ==
    <<serverVars, closeVars, tableVars, redisVars, seenVars, pastVars, faults, stopVars>>

None == [a \in Agents |-> 0]

\* A launched simulation: started, its first tick still to come.
ParticipationInit ==
    /\ status = "running" /\ day = 1 /\ window = 0 /\ matched = 0
    /\ asOf = 1 /\ recorded = 0 /\ ended = FALSE
    /\ apiCalls = None
    /\ at = "idle" /\ called = {} /\ todo = {}
    /\ missed = None /\ dq = [a \in Agents |-> FALSE]
    /\ subscribed = FALSE /\ channel = <<>>
    /\ heard = {} /\ served = None
    /\ silent = None /\ counted = 0 /\ again = {}
    /\ faults = 0 /\ pauses = 0 /\ reloads = 0

Fails == faults < MaxFaults /\ faults' = faults + 1

\* publish: a message no subscriber waits for is gone.
Publish(m) == channel' = IF subscribed THEN Append(channel, m) ELSE channel

Tick(d)   == [event |-> "sim.tick", day |-> d]
Completed == [event |-> "sim.completed", day |-> N]

-----------------------------------------------------------------------------
(* Calls *)

WindowOpen == window # 0 /\ at = "idle"

\* Mutant: the limit is compared after the call.
AllowedOneMore(a) == apiCalls[a] <= CallLimit

\* AllowAPICall
Allowed(a) == apiCalls[a] < CallLimit

\* RateLimitPerTick: the call is counted and goes on to its handler.
Serve(a) ==
    /\ Allowed(a)
    /\ apiCalls' = [apiCalls EXCEPT ![a] = @ + 1]
    /\ served' = [served EXCEPT ![a] = @ + 1]
    /\ heard' = IF WindowOpen THEN heard \cup {a} ELSE heard
    /\ UNCHANGED <<clockVars, rowVars, closeVars, tableVars, pastVars, faults, stopVars>>

\* It is answered with 429, or does not reach the server.
Refuse(a) ==
    /\ ~Allowed(a)
    /\ UNCHANGED <<serverVars, closeVars, tableVars, seenVars, pastVars, faults, stopVars>>

Lose ==
    /\ Fails
    /\ UNCHANGED <<serverVars, closeVars, tableVars, seenVars, pastVars, stopVars>>

-----------------------------------------------------------------------------
(* Tick *)

\* Mutant: a matched day is passed only when a later one has been matched.
ShouldAdvanceLate == matched # 0 /\ matched > day

ShouldAdvance == matched # 0 /\ matched >= day

\* The day of the tick: the next one, or the same one while it is not matched.
TickDay == IF ShouldAdvance THEN day + 1 ELSE day

\* The first day that has not been announced, but for those in `again`.
NextDay == IF window # 0 THEN window + 1 ELSE TickDay

Due == status = "running" /\ at = "idle" /\ window = 0

\* Mutant: an opening window leaves the counters of the last one.
KeepTickCounters == UNCHANGED apiCalls

resetTickCounters == apiCalls' = None

\* The part of Tick that opens the window.
Announce ==
    /\ resetTickCounters
    /\ window' = TickDay
    /\ heard' = {} /\ served' = None
    /\ UNCHANGED <<status, matched, recorded, ended, closeVars, tableVars, subscribed, silent,
                   counted, stopVars>>

OpenDay ==
    /\ Due /\ TickDay <= N
    /\ Announce
    /\ day' = TickDay /\ asOf' = TickDay
    /\ Publish(Tick(TickDay))
    /\ UNCHANGED <<again, faults>>

\* Its row cannot be written: the clock goes back, the window and the tick stay.
OpenUnsaved ==
    /\ Due /\ TickDay <= N /\ Fails
    /\ Announce
    /\ UNCHANGED <<day, asOf>>
    /\ again' = IF ShouldAdvance THEN again \cup {TickDay} ELSE again
    /\ Publish(Tick(TickDay))

\* A tick for the same day that cannot be published is dropped; one for the
\* next day ends the call after the clock has moved, and before the window opens.
OpenUnheard ==
    /\ Due /\ TickDay <= N /\ Fails
    /\ ~ShouldAdvance
    /\ Announce
    /\ asOf' = day
    /\ UNCHANGED <<day, again, channel>>

AdvanceUnheard ==
    /\ Due /\ TickDay <= N /\ Fails
    /\ ShouldAdvance
    /\ day' = TickDay
    /\ UNCHANGED <<status, window, matched, apiCalls, rowVars, closeVars, tableVars, redisVars,
                   seenVars, pastVars, stopVars>>

\* Past the last day.  The row says so when both the message and the row were written.
Complete ==
    /\ Due /\ TickDay > N
    /\ status' = "completed"
    /\ \/ Publish(Completed) /\ ended' = TRUE /\ UNCHANGED faults
       \/ Fails /\ UNCHANGED ended /\ (Publish(Completed) \/ UNCHANGED channel)
    /\ UNCHANGED <<day, window, matched, apiCalls, asOf, recorded, closeVars, tableVars, subscribed,
                   seenVars, pastVars, stopVars>>

-----------------------------------------------------------------------------
(* CloseWindowAndMatch *)

\* copyCallMap(apiCalls)
Callers == {a \in Agents : apiCalls[a] > 0}

Close ==
    /\ WindowOpen
    /\ at' = "count" /\ called' = Callers
    /\ \/ todo' = Agents /\ UNCHANGED faults
       \/ todo' = {} /\ Fails
    /\ silent' = [a \in Agents |->
                    CASE a \in heard                     -> 0
                      [] a \notin heard /\ counted < window -> silent[a] + 1
                      [] OTHER                           -> silent[a]]
    /\ counted' = window
    /\ UNCHANGED <<serverVars, tableVars, redisVars, heard, served, again, stopVars>>

\* Mutant: only the tick that reaches the limit disqualifies.
AtLimit(n) == n = MissLimit

OverLimit(n) == n >= MissLimit

\* recordMissedTicks, one agent of its loop; an error passes on to the next.
CountMissed(a) ==
    /\ at = "count" /\ a \in todo
    /\ todo' = todo \ {a}
    /\ \/ /\ dq[a]
          /\ UNCHANGED <<missed, dq, faults>>
       \/ /\ ~dq[a] /\ a \in called
          /\ missed' = [missed EXCEPT ![a] = 0]
          /\ UNCHANGED <<dq, faults>>
       \/ /\ ~dq[a] /\ a \notin called
          /\ missed' = [missed EXCEPT ![a] = @ + 1]
          /\ \/ dq' = [dq EXCEPT ![a] = OverLimit(missed[a] + 1)] /\ UNCHANGED faults
             \/ OverLimit(missed[a] + 1) /\ Fails /\ UNCHANGED dq
             \/ dq' = [dq EXCEPT ![a] = missed[a] + 1 >= MissedTicksDQThreshold] /\ Fails
       \/ /\ ~dq[a] /\ Fails
          /\ UNCHANGED <<missed, dq>>
    /\ UNCHANGED <<serverVars, at, called, redisVars, seenVars, pastVars, stopVars>>

\* The window closed in memory when the call began; `window` holds its date
\* until the call ends.  The record of the match may be lost (MergeConfig).
Match ==
    /\ at = "count" /\ todo = {}
    /\ at' = "idle" /\ window' = 0
    /\ matched' = window /\ resetTickCounters
    /\ \/ recorded' = window /\ UNCHANGED faults
       \/ Fails /\ UNCHANGED recorded
    /\ UNCHANGED <<status, day, asOf, ended, called, todo, tableVars, redisVars, seenVars, pastVars,
                   stopVars>>

MatchFails ==
    /\ at = "count" /\ todo = {} /\ Fails
    /\ at' = "idle" /\ window' = 0
    /\ again' = again \cup {window}
    /\ UNCHANGED <<status, day, matched, apiCalls, rowVars, called, todo, tableVars, redisVars,
                   seenVars, silent, counted, stopVars>>

-----------------------------------------------------------------------------
(* Pause, Start and the end of the server *)

MayStop == pauses + reloads < MaxStops

\* An open window is closed without a match, and a close under way goes on.
Pause ==
    /\ status \in {"running", "paused"} /\ MayStop
    /\ pauses' = pauses + 1
    /\ status' = "paused"
    /\ IF WindowOpen THEN window' = 0 /\ again' = again \cup {window}
                     ELSE UNCHANGED <<window, again>>
    /\ \/ asOf' = day /\ UNCHANGED faults
       \/ Fails /\ UNCHANGED asOf
    /\ UNCHANGED <<day, matched, apiCalls, recorded, ended, closeVars, tableVars, redisVars, seenVars,
                   silent, counted, reloads>>

\* What a new clock finds in the database: the days from its next tick on that
\* have been announced come again.
SavedDay == IF recorded # 0 /\ recorded >= asOf THEN asOf + 1 ELSE asOf

Reload(last) ==
    /\ MayStop /\ reloads' = reloads + 1
    /\ day' = asOf /\ matched' = recorded
    /\ again' = again \cup {d \in Days : SavedDay <= d /\ d <= last}
    /\ UNCHANGED <<rowVars, tableVars, seenVars, silent, counted, pauses>>

\* Start on a paused clock, which goes on; on a simulation that has no clock,
\* which gets one; and on a completed one whose row was not written.
\* sim.resumed and sim.started are left out: the runner only logs them.
Start ==
    /\ status' = "running"
    /\ \/ /\ status \in {"paused", "none"}
          /\ \/ asOf' = day /\ UNCHANGED faults
             \/ status = "paused" /\ Fails /\ UNCHANGED asOf
          /\ UNCHANGED <<day, window, matched, recorded, ended, apiCalls, pastVars, tableVars, seenVars,
                         stopVars>>
       \/ /\ status = "completed" /\ ~ended
          /\ Reload(NextDay - 1)
          /\ UNCHANGED <<window, apiCalls, faults>>
    /\ UNCHANGED <<closeVars, redisVars>>

\* The server ends, between two steps or inside a tick that it has published
\* and not yet written.  Its memory is gone until a Start: at once for a row that
\* says running (ResumePersisted), by a request for a paused one.
Restart ==
    /\ status # "none" /\ ~ended
    /\ status' = "none" /\ window' = 0
    /\ apiCalls' = None
    /\ at' = "idle" /\ called' = {} /\ todo' = {}
    /\ \/ Reload(NextDay - 1) /\ UNCHANGED channel
       \/ Due /\ TickDay <= N /\ Publish(Tick(TickDay)) /\ Reload(TickDay)
    /\ UNCHANGED <<subscribed, faults>>
=============================================================================
