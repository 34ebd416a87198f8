------------------------------- MODULE Turns -------------------------------
(***************************************************************************)
(* The orchestrator's side of a simulation.  Its runner (SimulationRunner)  *)
(* subscribes to sim.events and handles one message after another: a tick   *)
(* gives every agent a turn, all of them at once, and the next message is   *)
(* read when the last of them is over.  A turn calls the server for its     *)
(* context, lets the model decide for as long as that takes, and sends the  *)
(* orders.  Participation is the server those calls go to.                  *)
(***************************************************************************)
EXTENDS Participation

CONSTANTS
    Cadence,     \* decision_every_n_bars of an agent
    MaxOrders,   \* max_orders_per_turn
    MaxLosses    \* bound: lost connections to Redis, and ends of the orchestrator's process

ASSUME TurnsAssumption ==
    /\ Cadence \in [Agents -> Nat \ {0}]
    /\ {MaxOrders, MaxLosses} \subseteq Nat

VARIABLES
    runner,         \* where the runner is: connecting, listening, handling, stopped or gone
    turn,           \* the next step of each agent's turn
    orders,         \* orders the turn has sent
    cached,         \* agents with a context of an earlier turn (_last_portfolio)
    handled,        \* history: the day of the last tick that was handled
    twice,          \* history: days that were handled more than once
    drops, crashes

turnVars == <<turn, orders, cached>>
runnerVars == <<runner, turnVars, handled, twice, drops, crashes>>
turnsVars == <<participationVars, runnerVars>>

TurnsInit ==
    /\ ParticipationInit
    /\ runner = "connecting"
    /\ turn = [a \in Agents |-> "over"] /\ orders = None /\ cached = {}
    /\ handled = 0 /\ twice = {} /\ drops = 0 /\ crashes = 0

-----------------------------------------------------------------------------
(* The runner *)

\* _listen_once
Subscribe ==
    /\ runner = "connecting"
    /\ runner' = "listening"
    /\ subscribed' = TRUE /\ channel' = <<>>
    /\ UNCHANGED <<serverVars, closeVars, tableVars, seenVars, pastVars, faults, stopVars, turnVars,
                   handled, twice, drops, crashes>>

\* The connection goes, with the messages that had not arrived.
Drop ==
    /\ subscribed /\ drops + crashes < MaxLosses
    /\ drops' = drops + 1
    /\ subscribed' = FALSE
    /\ \E k \in 0..Len(channel) : channel' = SubSeq(channel, 1, k)
    /\ UNCHANGED <<serverVars, closeVars, tableVars, seenVars, pastVars, faults, stopVars, runner,
                   turnVars, handled, twice, crashes>>

\* start: with nothing left to read, the listener fails and connects again.
Reconnect ==
    /\ runner = "listening" /\ ~subscribed /\ channel = <<>>
    /\ runner' = "connecting"
    /\ UNCHANGED <<participationVars, turnVars, handled, twice, drops, crashes>>

\* The loop of _listen_once awaits dispatch_event.
Ready == runner = "listening"

HandleTick ==
    /\ Ready /\ channel # <<>>
    /\ LET m == Head(channel) IN
         /\ m.event = "sim.tick"
         /\ handled' = m.day
         /\ twice' = IF m.day <= handled THEN twice \cup {m.day} ELSE twice
    /\ runner' = "handling"
    /\ channel' = Tail(channel)
    /\ turn' = [a \in Agents |-> "start"]
    /\ UNCHANGED <<serverVars, closeVars, tableVars, subscribed, seenVars, pastVars, faults,
                   stopVars, orders, cached, drops, crashes>>

TurnsOver ==
    /\ runner = "handling" /\ \A a \in Agents : turn[a] = "over"
    /\ runner' = "listening"
    /\ UNCHANGED <<participationVars, turnVars, handled, twice, drops, crashes>>

\* _stop_requested
HandleCompletion ==
    /\ Ready /\ channel # <<>> /\ Head(channel).event = "sim.completed"
    /\ runner' = "stopped"
    /\ channel' = Tail(channel) /\ subscribed' = FALSE
    /\ UNCHANGED <<serverVars, closeVars, tableVars, seenVars, pastVars, faults, stopVars, turnVars,
                   handled, twice, drops, crashes>>

\* The process ends; only a launch starts a runner, and a launch makes a new
\* simulation, so this one has none any more.
Crash ==
    /\ runner \notin {"stopped", "gone"} /\ drops + crashes < MaxLosses
    /\ crashes' = crashes + 1
    /\ runner' = "gone"
    /\ turn' = [a \in Agents |-> "over"] /\ orders' = None /\ cached' = {}
    /\ subscribed' = FALSE /\ channel' = <<>>
    /\ UNCHANGED <<serverVars, closeVars, tableVars, seenVars, pastVars, faults, stopVars, handled,
                   twice, drops>>

-----------------------------------------------------------------------------
(* The turn of an agent (BaseAgent.run_turn) *)

Goes(a, step) == turn' = [turn EXCEPT ![a] = step]

Skips(a) == (handled - 1) % Cadence[a] # 0

Skip(a) ==
    /\ turn[a] = "start" /\ Skips(a)
    /\ Goes(a, "over")
    /\ UNCHANGED <<participationVars, runner, orders, cached, handled, twice, drops, crashes>>

\* build_context: an answered call is kept for the turns to come, a failed one
\* is replaced by what was kept, and ends the turn when there is nothing.
Context(a) ==
    /\ turn[a] = "start" /\ ~Skips(a)
    /\ \/ /\ Serve(a)
          /\ Goes(a, "deciding") /\ cached' = cached \cup {a}
       \/ /\ Refuse(a) \/ Lose
          /\ Goes(a, IF a \in cached THEN "deciding" ELSE "over")
          /\ UNCHANGED cached
    /\ UNCHANGED <<redisVars, runner, orders, handled, twice, drops, crashes>>

\* decide, and place_order for each order of the decision: any number of them
\* up to max_orders_per_turn, and none when the model holds, fails or times out.
\* An order that is refused or lost goes on to the next.
SendOrder(a) ==
    /\ turn[a] = "deciding" /\ orders[a] < MaxOrders
    /\ Serve(a) \/ Refuse(a) \/ Lose
    /\ orders' = [orders EXCEPT ![a] = @ + 1]
    /\ UNCHANGED <<redisVars, runner, turn, cached, handled, twice, drops, crashes>>

EndTurn(a) ==
    /\ turn[a] = "deciding"
    /\ Goes(a, "over")
    /\ orders' = [orders EXCEPT ![a] = 0]
    /\ UNCHANGED <<participationVars, runner, cached, handled, twice, drops, crashes>>

-----------------------------------------------------------------------------
Server == OpenDay \/ Close \/ (\E a \in Agents : CountMissed(a)) \/ Match \/ Complete
          \/ Start
ServerFails == OpenUnsaved \/ OpenUnheard \/ AdvanceUnheard \/ MatchFails
ServerStops == Pause \/ Restart
Turn(a) == Skip(a) \/ Context(a) \/ SendOrder(a) \/ EndTurn(a)

TurnsNext ==
    \/ (Server \/ ServerFails \/ ServerStops) /\ UNCHANGED runnerVars
    \/ Subscribe \/ Drop \/ Reconnect \/ HandleTick \/ TurnsOver \/ HandleCompletion \/ Crash
    \/ \E a \in Agents : Turn(a)

TurnsSpec == TurnsInit /\ [][TurnsNext]_turnsVars

-----------------------------------------------------------------------------
(* Properties *)

\* The shape of the state of both sides.
TurnsTypeOK ==
    /\ status \in {"running", "paused", "none", "completed"} /\ day \in Days
    /\ window \in 0..N /\ matched \in 0..N
    /\ asOf \in Days /\ recorded \in 0..N /\ ended \in BOOLEAN
    /\ apiCalls \in [Agents -> 0..CallLimit]
    /\ at \in {"idle", "count"} /\ called \subseteq Agents /\ todo \subseteq Agents
    /\ missed \in [Agents -> Nat] /\ dq \in [Agents -> BOOLEAN]
    /\ subscribed \in BOOLEAN
    /\ channel \in Seq({Tick(d) : d \in Days} \cup {Completed})
    /\ runner \in {"connecting", "listening", "handling", "stopped", "gone"}
    /\ turn \in [Agents -> {"start", "deciding", "over"}]
    /\ orders \in [Agents -> 0..MaxOrders] /\ cached \subseteq Agents

\* Between two ticks, consecutive_missed_ticks is the number of trading days in
\* a row whose window closed without a call of the agent served while it was
\* open, also over pauses, which close a window uncounted: the calls that come
\* between a close and the next tick count for no day, and only as many days as
\* there were failures and new clocks are left out (recordMissedTicks,
\* resetTickCountersLocked).
Trouble == faults + reloads

MissedTicksCount ==
    at = "idle" =>
        \A a \in Agents : ~dq[a] =>
            /\ missed[a] >= silent[a] - Trouble
            /\ Trouble = 0 => missed[a] = silent[a]

\* An agent that stays silent is out after MissLimit days, later only by the
\* failures and the ends of the server: one that loses the statement of the
\* disqualification itself is made good at the next close (n >= limit).
SilentIsDisqualified ==
    at = "idle" => \A a \in Agents : silent[a] >= MissLimit + Trouble => dq[a]

\* While a window is open or being closed its agents have had CallLimit calls at
\* most since the tick, and before the next tick no more than twice that, for the
\* counters are emptied once more when the day is matched, and once for each time
\* the server ends (AllowAPICall).
CallsBounded ==
    \A a \in Agents :
        /\ window # 0 => served[a] <= CallLimit
        /\ served[a] <= (2 + reloads) * CallLimit

\* A runner handles the tick of a day twice, and gives an agent a second turn for
\* it, only when the day's match did not come or was not recorded: a failure, a
\* pause that closed its window, or a clock made again from the database
\* (SimClock.Restore, Registry.Pause, Registry.Start).  The days never go back,
\* but for a clock that is made again after a record was lost.
TurnsInOrder ==
    [][/\ twice' \subseteq again'
       /\ handled' >= handled \/ (faults > 0 /\ reloads > 0)]_turnsVars
=============================================================================
