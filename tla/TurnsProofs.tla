---------------------------- MODULE TurnsProofs ----------------------------
(***************************************************************************)
(* Proofs about Turns and the server it calls (Participation), for any      *)
(* number of agents, days, calls and failures: the type invariant; what     *)
(* consecutive_missed_ticks counts, and that an agent that stays silent is  *)
(* out; how many calls an agent gets; and that the runner handles the days  *)
(* in order, one of them twice only when a failure, a pause or a new clock  *)
(* kept the match of the day from being recorded.                           *)
(***************************************************************************)
EXTENDS Turns, SequenceTheorems, TLAPS

-----------------------------------------------------------------------------
(* The steps as the server sees them *)

serverSide == <<serverVars, closeVars, tableVars, seenVars, pastVars, faults, stopVars>>

Calls == \E a \in Agents : Serve(a) \/ Refuse(a) \/ Lose

Opens == OpenDay \/ OpenUnsaved \/ OpenUnheard

Closes == Close \/ (\E a \in Agents : CountMissed(a)) \/ Match \/ MatchFails

Stops == Pause \/ Start \/ Restart

\* To the server a turn of an agent is a call or nothing.
LEMMA TurnIsCall ==
  ASSUME NEW a \in Agents, Turn(a)
  PROVE  /\ Calls \/ UNCHANGED serverSide
         /\ UNCHANGED <<redisVars, runner, handled, twice>>
  <1>1. CASE Skip(a) \/ EndTurn(a)
    BY <1>1 DEF Skip, EndTurn, participationVars, serverSide
  <1>2. CASE Context(a) \/ SendOrder(a)
    BY <1>2 DEF Context, SendOrder, Calls
  <1> QED BY <1>1, <1>2 DEF Turn

LEMMA ServerSteps ==
  ASSUME [TurnsNext]_turnsVars
  PROVE  Opens \/ AdvanceUnheard \/ Complete \/ Closes \/ Stops \/ Calls \/ UNCHANGED serverSide
  <1>1. CASE (Server \/ ServerFails \/ ServerStops) /\ UNCHANGED runnerVars
    BY <1>1 DEF Server, ServerFails, ServerStops, Opens, Closes, Stops
  <1>2. CASE Subscribe \/ Drop \/ Reconnect \/ HandleTick \/ TurnsOver \/ HandleCompletion \/ Crash
    BY <1>2 DEF Subscribe, Drop, Reconnect, HandleTick, TurnsOver, HandleCompletion, Crash,
                participationVars, serverSide
  <1>3. CASE \E a \in Agents : Turn(a)
    BY <1>3, TurnIsCall
  <1>4. CASE UNCHANGED turnsVars
    BY <1>4 DEF turnsVars, participationVars, serverSide
  <1> QED BY <1>1, <1>2, <1>3, <1>4 DEF TurnsNext

-----------------------------------------------------------------------------
(* The type invariant *)

Messages == {Tick(d) : d \in Days} \cup {Completed}

\* The server's part of it, and its histories.  A close works on its window, and called
\* are those that were heard while it was open.  Only a failure leaves a completed
\* simulation without its row.
ServerOK ==
    /\ status \in {"running", "paused", "none", "completed"} /\ day \in Days
    /\ window \in 0..N /\ matched \in 0..N
    /\ asOf \in Days /\ recorded \in 0..N /\ ended \in BOOLEAN
    /\ apiCalls \in [Agents -> 0..CallLimit]
    /\ at \in {"idle", "count"} /\ called \subseteq Agents /\ todo \subseteq Agents
    /\ missed \in [Agents -> Nat] /\ dq \in [Agents -> BOOLEAN]
    /\ heard \subseteq Agents /\ served \in [Agents -> Nat]
    /\ silent \in [Agents -> Nat] /\ counted \in 0..N /\ again \subseteq Days
    /\ faults \in Nat /\ pauses \in Nat /\ reloads \in Nat
    /\ status = "completed" /\ ~ended => faults > 0
    /\ at = "count" => window # 0 /\ counted = window /\ called = heard
    /\ at = "idle" /\ window # 0 => heard = Callers

\* The runner's.
RunnerOK ==
    /\ subscribed \in BOOLEAN
    /\ channel \in Seq(Messages)
    /\ runner \in {"connecting", "listening", "handling", "stopped", "gone"}
    /\ turn \in [Agents -> {"start", "deciding", "over"}]
    /\ orders \in [Agents -> 0..MaxOrders] /\ cached \subseteq Agents
    /\ handled \in 0..N /\ twice \subseteq Days

LEMMA Numbers ==
  /\ N \in Nat \ {0} /\ CallLimit \in Nat \ {0} /\ MissLimit \in Nat \ {0} /\ MaxFaults \in Nat
  /\ MaxOrders \in Nat
  BY ParticipationAssumption, TurnsAssumption

\* The day of a tick follows the one before or is the same.
LEMMA TickDays ==
  ASSUME ServerOK
  PROVE  TickDay \in Nat \ {0} /\ TickDay \in {day, day + 1}
  BY Numbers DEF ServerOK, TickDay, Days

LEMMA InitServer == TurnsInit => ServerOK
  <1> SUFFICES ASSUME TurnsInit PROVE ServerOK
    OBVIOUS
  <1>1. ended \in BOOLEAN
    BY DEF TurnsInit, ParticipationInit
  <1>2. /\ apiCalls \in [Agents -> 0..CallLimit] /\ missed \in [Agents -> Nat]
        /\ served \in [Agents -> Nat] /\ silent \in [Agents -> Nat]
        /\ dq \in [Agents -> BOOLEAN]
    BY Numbers DEF TurnsInit, ParticipationInit, None
  <1> QED BY <1>1, <1>2, Numbers DEF TurnsInit, ParticipationInit, ServerOK, Days

\* What a new clock takes from the database.
LEMMA Reloads ==
  ASSUME ServerOK, NEW last, Reload(last)
  PROVE  /\ day' \in Days /\ matched' \in 0..N /\ again' \subseteq Days /\ reloads' \in Nat
         /\ reloads' = reloads + 1 /\ pauses' = pauses
         /\ UNCHANGED <<rowVars, tableVars, seenVars, silent, counted>>
  BY DEF ServerOK, Reload

LEMMA StepServer ==
  ASSUME ServerOK, [TurnsNext]_turnsVars
  PROVE  ServerOK'
  <1> USE Numbers
  <1>1. CASE Opens
    <2>1. /\ TickDay \in 1..N /\ day' \in {day, TickDay} /\ asOf' \in {asOf, day, TickDay}
          /\ again' \subseteq again \cup {TickDay}
          /\ faults' \in {faults, faults + 1} /\ Announce /\ Due
      BY <1>1, TickDays DEF Opens, OpenDay, OpenUnsaved, OpenUnheard, Fails
    <2>2. /\ window' = TickDay /\ heard' = {} /\ served' = None /\ apiCalls' = None /\ at = "idle"
          /\ UNCHANGED <<status, matched, recorded, ended, closeVars, tableVars, silent, counted,
                         stopVars>>
      BY <2>1 DEF Announce, resetTickCounters, Due
    <2>3. heard' = Callers'
      BY <2>2 DEF Callers, None
    <2>4. status' = "running"
      BY <2>1, <2>2 DEF Due
    <2> QED BY <2>1, <2>2, <2>3, <2>4 DEF ServerOK, closeVars, tableVars, stopVars, None, Days
  <1>2. CASE AdvanceUnheard
    <2>1. TickDay \in 1..N /\ status = "running"
      BY <1>2, TickDays DEF AdvanceUnheard, Due
    <2>2. Callers' = Callers
      BY <1>2 DEF AdvanceUnheard, Callers
    <2> QED BY <1>2, <2>1, <2>2
            DEF AdvanceUnheard, Fails, ServerOK, rowVars, closeVars, tableVars, seenVars, pastVars,
                stopVars, Days
  <1>3. CASE Complete
    <2>1. Callers' = Callers
      BY <1>3 DEF Complete, Callers
    <2>2. /\ status' = "completed"
          /\ \/ ended' = TRUE /\ faults' = faults
             \/ ended' = ended /\ faults' = faults + 1
      BY <1>3 DEF Complete, Fails
    <2>3. ended' \in BOOLEAN
      <3>1. ended \in BOOLEAN /\ (ended' = TRUE \/ ended' = ended)
        BY <2>2 DEF ServerOK
      <3> QED BY <3>1
    <2>4. faults' \in Nat /\ (~ended' => faults' > 0)
      BY <2>2 DEF ServerOK
    <2>5. UNCHANGED <<day, window, matched, apiCalls, asOf, recorded, closeVars, tableVars, seenVars,
                      pastVars, stopVars>>
      BY <1>3 DEF Complete
    <2> QED BY <2>1, <2>2, <2>3, <2>4, <2>5
            DEF ServerOK, closeVars, tableVars, seenVars, pastVars, stopVars
  <1>4. CASE Close
    <2>1. /\ at' = "count" /\ called' = heard /\ todo' \subseteq Agents /\ counted' = window
          /\ window # 0 /\ faults' \in {faults, faults + 1}
          /\ UNCHANGED <<serverVars, tableVars, heard, served, again, stopVars>>
      BY <1>4 DEF Close, WindowOpen, Fails, ServerOK
    <2>2. silent' \in [Agents -> Nat]
      BY <1>4 DEF Close, ServerOK
    <2> QED BY <2>1, <2>2 DEF ServerOK, serverVars, clockVars, rowVars, tableVars, stopVars
  <1>5. ASSUME NEW a \in Agents, CountMissed(a) PROVE ServerOK'
    <2>1. /\ at = "count" /\ todo' \subseteq Agents
          /\ UNCHANGED <<serverVars, at, called, seenVars, pastVars, stopVars>>
          /\ faults' \in {faults, faults + 1}
      BY <1>5 DEF CountMissed, Fails, ServerOK
    <2>2. missed' \in [Agents -> Nat]
      BY <1>5 DEF CountMissed, ServerOK
    <2>3. dq' \in [Agents -> BOOLEAN]
      <3> DEFINE late == missed[a] + 1 >= MissedTicksDQThreshold
      <3>1. OverLimit(missed[a] + 1) \in BOOLEAN /\ late \in BOOLEAN
        BY DEF OverLimit
      <3>2. \/ dq' = dq
            \/ dq' = [dq EXCEPT ![a] = OverLimit(missed[a] + 1)]
            \/ dq' = [dq EXCEPT ![a] = late]
        BY <1>5 DEF CountMissed
      <3> HIDE DEF OverLimit, late
      <3> QED BY <3>1, <3>2 DEF ServerOK
    <2> QED BY <2>1, <2>2, <2>3 DEF ServerOK, serverVars, clockVars, rowVars, seenVars, pastVars, stopVars
  <1>6. CASE Match
    <2>1. /\ at = "count" /\ window \in 0..N /\ recorded' \in 0..N /\ faults' \in {faults, faults + 1}
          /\ at' = "idle" /\ window' = 0 /\ matched' = window /\ apiCalls' = None
          /\ UNCHANGED <<status, day, asOf, ended, called, todo, tableVars, seenVars, pastVars, stopVars>>
      BY <1>6 DEF Match, Fails, ServerOK, resetTickCounters
    <2> QED BY <2>1 DEF ServerOK, None, tableVars, seenVars, pastVars, stopVars
  <1>7. CASE MatchFails
    BY <1>7 DEF MatchFails, ServerOK, Fails, rowVars, tableVars, seenVars, stopVars, Days
  <1>8. ASSUME NEW a \in Agents, Serve(a) PROVE ServerOK'
    <2>1. /\ apiCalls' \in [Agents -> 0..CallLimit] /\ served' \in [Agents -> Nat]
          /\ Callers' = Callers \cup {a}
      BY <1>8 DEF Serve, Allowed, ServerOK, Callers
    <2>2. UNCHANGED <<clockVars, rowVars, closeVars, tableVars, pastVars, faults, stopVars>>
          /\ heard' = IF WindowOpen THEN heard \cup {a} ELSE heard
      BY <1>8 DEF Serve
    <2> QED BY <2>1, <2>2
            DEF ServerOK, clockVars, rowVars, closeVars, tableVars, pastVars, stopVars, WindowOpen
  <1>9. ASSUME NEW a \in Agents, Refuse(a) \/ Lose PROVE ServerOK'
    <2>1. /\ UNCHANGED <<serverVars, closeVars, tableVars, seenVars, pastVars, stopVars>>
          /\ faults' \in {faults, faults + 1}
      BY <1>9 DEF Refuse, Lose, Fails
    <2>2. Callers' = Callers
      BY <2>1 DEF Callers, serverVars
    <2> QED BY <2>1, <2>2
            DEF ServerOK, serverVars, clockVars, rowVars, closeVars, tableVars, seenVars, pastVars,
                stopVars
  <1>10. CASE UNCHANGED serverSide
    <2>1. Callers' = Callers
      BY <1>10 DEF Callers, serverVars, serverSide
    <2> QED BY <1>10, <2>1
            DEF ServerOK, serverSide, serverVars, clockVars, rowVars, closeVars, tableVars, seenVars,
                pastVars, stopVars
  <1>11. CASE Pause
    <2>1. /\ status' = "paused" /\ window' \in {0, window} /\ (at = "count" => window' = window)
          /\ again' \subseteq again \cup {window} /\ (window = 0 => again' = again)
          /\ asOf' \in {day, asOf} /\ faults' \in {faults, faults + 1} /\ pauses' = pauses + 1
          /\ UNCHANGED <<day, matched, apiCalls, recorded, ended, closeVars, tableVars, seenVars,
                         silent, counted, reloads>>
      BY <1>11 DEF Pause, WindowOpen, Fails
    <2>2. Callers' = Callers
      BY <2>1 DEF Callers
    <2> QED BY <2>1, <2>2 DEF ServerOK, closeVars, tableVars, seenVars, Days
  <1>12. CASE Start
    <2>a. Callers' = Callers /\ status' = "running" /\ UNCHANGED <<window, closeVars>>
      BY <1>12 DEF Start, Callers
    <2>1. CASE /\ asOf' \in {day, asOf} /\ faults' \in {faults, faults + 1}
               /\ UNCHANGED <<day, window, matched, recorded, ended, apiCalls, pastVars, tableVars,
                              seenVars, stopVars>>
      BY <2>a, <2>1 DEF ServerOK, closeVars, tableVars, seenVars, pastVars, stopVars
    <2>2. CASE Reload(NextDay - 1) /\ UNCHANGED <<window, apiCalls, faults>>
      BY <2>a, <2>2, Reloads DEF ServerOK, rowVars, closeVars, tableVars, seenVars
    <2> QED BY <1>12, <2>1, <2>2 DEF Start, Fails
  <1>13. CASE Restart
    <2>1. PICK last : Reload(last)
      BY <1>13 DEF Restart
    <2>2. /\ status' = "none" /\ window' = 0 /\ apiCalls' = None /\ at' = "idle" /\ called' = {}
          /\ todo' = {} /\ faults' = faults
      BY <1>13 DEF Restart
    <2> QED BY <2>1, <2>2, Reloads DEF ServerOK, rowVars, tableVars, seenVars, None
  <1> QED BY <1>1, <1>2, <1>3, <1>4, <1>5, <1>6, <1>7, <1>8, <1>9, <1>10, <1>11, <1>12, <1>13,
             ServerSteps DEF Closes, Calls, Stops

LEMMA NoOrders == None \in [Agents -> 0..MaxOrders] /\ <<>> \in Seq(Messages)
  BY Numbers DEF None

LEMMA InitRunner == TurnsInit => RunnerOK
  <1> SUFFICES ASSUME TurnsInit PROVE RunnerOK
    OBVIOUS
  <1>1. subscribed = FALSE /\ channel = <<>>
    BY DEF TurnsInit, ParticipationInit
  <1>2. turn \in [Agents -> {"start", "deciding", "over"}]
    BY DEF TurnsInit
  <1>3. runner = "connecting" /\ orders = None /\ cached = {} /\ handled = 0 /\ twice = {}
    BY DEF TurnsInit
  <1>4. handled \in 0..N /\ twice \subseteq Days /\ cached \subseteq Agents
    BY <1>3, Numbers
  <1>5. channel \in Seq(Messages) /\ orders \in [Agents -> 0..MaxOrders]
    BY <1>1, <1>3, NoOrders
  <1> QED BY <1>1, <1>2, <1>3, <1>4, <1>5 DEF RunnerOK

\* Each message published is of the simulation.
LEMMA PublishedType ==
  ASSUME RunnerOK, NEW m \in Messages, Publish(m)
  PROVE  channel' \in Seq(Messages)
  BY AppendProperties DEF RunnerOK, Publish

LEMMA Told ==
  /\ Completed \in Messages /\ \A d \in Days : Tick(d) \in Messages /\ Tick(d).day \in Days
  /\ \A m \in Messages : m.day \in Days
  BY Numbers DEF Messages, Tick, Completed, Days

LEMMA StepRunner ==
  ASSUME ServerOK, RunnerOK, [TurnsNext]_turnsVars
  PROVE  RunnerOK'
  <1> USE Numbers
  <1>1. CASE (Server \/ ServerFails \/ ServerStops) /\ UNCHANGED runnerVars
    <2>1. subscribed' = subscribed
      BY <1>1 DEF Server, ServerFails, ServerStops, OpenDay, Close, CountMissed, Match, Complete,
                  OpenUnsaved, OpenUnheard, AdvanceUnheard, MatchFails, Pause, Start, Restart,
                  Announce, redisVars
    <2>2. channel' = channel \/ \E m \in Messages : Publish(m)
      <3>1. TickDay <= N => TickDay \in Days
        BY TickDays DEF Days
      <3>2. CASE Restart
        BY <3>1, <3>2, Told DEF Restart
      <3>3. CASE Pause \/ Start
        BY <3>3 DEF Pause, Start, redisVars
      <3> QED BY <1>1, <3>1, <3>2, <3>3, Told
              DEF Server, ServerFails, ServerStops, OpenDay, Close, CountMissed, Match, Complete,
                  OpenUnsaved, OpenUnheard, AdvanceUnheard, MatchFails, redisVars
    <2>3. channel' \in Seq(Messages)
      BY <2>2, PublishedType DEF RunnerOK
    <2> QED BY <1>1, <2>1, <2>3 DEF RunnerOK, runnerVars, turnVars
  <1>2. CASE Subscribe
    BY <1>2 DEF Subscribe, RunnerOK, turnVars
  <1>3. CASE Drop
    <2>1. PICK k \in 0..Len(channel) : channel' = SubSeq(channel, 1, k)
      BY <1>3 DEF Drop
    <2>2. channel' \in Seq(Messages)
      BY <2>1, SubSeqProperties DEF RunnerOK
    <2> QED BY <1>3, <2>2 DEF Drop, RunnerOK, turnVars
  <1>4. CASE Reconnect \/ TurnsOver
    BY <1>4 DEF Reconnect, TurnsOver, RunnerOK, turnVars, participationVars, redisVars
  <1>5. CASE HandleTick
    <2>1. Head(channel) \in Messages /\ channel' \in Seq(Messages)
      BY <1>5, HeadTailProperties DEF HandleTick, RunnerOK
    <2>2. handled' \in Days /\ twice' \subseteq twice \cup {handled'}
      BY <1>5, <2>1, Told DEF HandleTick
    <2>3. handled' \in 0..N /\ twice' \subseteq Days
      BY <2>2 DEF RunnerOK, Days
    <2>4. turn' \in [Agents -> {"start", "deciding", "over"}]
      BY <1>5 DEF HandleTick
    <2> QED BY <1>5, <2>1, <2>3, <2>4 DEF HandleTick, RunnerOK
  <1>6. CASE HandleCompletion
    <2>1. channel' \in Seq(Messages)
      BY <1>6, HeadTailProperties DEF HandleCompletion, RunnerOK
    <2> QED BY <1>6, <2>1 DEF HandleCompletion, RunnerOK, turnVars
  <1>7. CASE Crash
    BY <1>7, NoOrders DEF Crash, RunnerOK
  <1>8. ASSUME NEW a \in Agents, Turn(a) PROVE RunnerOK'
    <2>1. UNCHANGED <<redisVars, runner, handled, twice>>
      BY <1>8, TurnIsCall
    <2>2. /\ turn' \in [Agents -> {"start", "deciding", "over"}]
          /\ orders' \in [Agents -> 0..MaxOrders] /\ cached' \subseteq Agents
      <3>1. CASE Skip(a)
        BY <3>1 DEF Skip, Goes, RunnerOK
      <3>2. CASE Context(a)
        BY <3>2 DEF Context, Goes, RunnerOK
      <3>3. CASE SendOrder(a)
        BY <3>3 DEF SendOrder, RunnerOK
      <3>4. CASE EndTurn(a)
        BY <3>4 DEF EndTurn, Goes, RunnerOK
      <3> QED BY <1>8, <3>1, <3>2, <3>3, <3>4 DEF Turn
    <2> QED BY <2>1, <2>2 DEF RunnerOK, redisVars
  <1>9. CASE UNCHANGED turnsVars
    BY <1>9 DEF turnsVars, runnerVars, turnVars, participationVars, redisVars, RunnerOK
  <1> QED BY <1>1, <1>2, <1>3, <1>4, <1>5, <1>6, <1>7, <1>8, <1>9 DEF TurnsNext

\* The state of the server, of the channel and of the runner keeps its shape
\* (Registry, SimulationRunner).
THEOREM TurnsTypeCorrect == TurnsSpec => []TurnsTypeOK
  <1>1. TurnsSpec => [](ServerOK /\ RunnerOK)
    BY InitServer, StepServer, InitRunner, StepRunner, PTL DEF TurnsSpec
  <1>2. ServerOK /\ RunnerOK => TurnsTypeOK
    BY DEF ServerOK, RunnerOK, TurnsTypeOK, Messages
  <1> QED BY <1>1, <1>2, PTL

-----------------------------------------------------------------------------
(* Calls *)

\* What an agent was served since the tick is what the counter says, and what it was
\* served before the last match, and the last ends of the server, emptied it.
CallsInv ==
    \A a \in Agents :
        /\ window # 0 => served[a] = apiCalls[a]
        /\ served[a] <= CallLimit + CallLimit * reloads + apiCalls[a]

LEMMA StepCalls ==
  ASSUME ServerOK, CallsInv, [TurnsNext]_turnsVars
  PROVE  CallsInv'
  <1> USE Numbers
  <1>a. /\ CallLimit * reloads \in Nat /\ CallLimit * (reloads + 1) = CallLimit * reloads + CallLimit
        /\ reloads \in Nat
    BY DEF ServerOK
  <1>b. /\ apiCalls \in [Agents -> 0..CallLimit] /\ served \in [Agents -> Nat]
        /\ \A a \in Agents : apiCalls[a] \in 0..CallLimit /\ served[a] \in Nat
    BY DEF ServerOK
  <1>1. CASE Opens
    <2>1. served' = None /\ apiCalls' = None /\ reloads' = reloads
      BY <1>1 DEF Opens, OpenDay, OpenUnsaved, OpenUnheard, Announce, resetTickCounters, stopVars
    <2> QED BY <1>a, <2>1 DEF CallsInv, None
  <1>2. CASE AdvanceUnheard \/ Complete \/ Close \/ (\E a \in Agents : CountMissed(a))
    <2>1. UNCHANGED <<window, served, apiCalls, reloads>>
      BY <1>2 DEF AdvanceUnheard, Complete, Close, CountMissed, seenVars, serverVars, clockVars, stopVars
    <2> QED BY <2>1 DEF CallsInv
  <1>3. CASE Match
    <2>1. window # 0 /\ window' = 0 /\ served' = served /\ apiCalls' = None /\ reloads' = reloads
      BY <1>3 DEF Match, ServerOK, resetTickCounters, seenVars, stopVars
    <2> QED BY <1>a, <1>b, <2>1 DEF CallsInv, None
  <1>4. CASE MatchFails
    <2>1. window' = 0 /\ served' = served /\ apiCalls' = apiCalls /\ reloads' = reloads
      BY <1>4 DEF MatchFails, seenVars, stopVars
    <2> QED BY <2>1 DEF CallsInv
  <1>5. ASSUME NEW a \in Agents, Serve(a) PROVE CallsInv'
    <2>1. /\ window' = window /\ reloads' = reloads
          /\ served' = [served EXCEPT ![a] = @ + 1] /\ apiCalls' = [apiCalls EXCEPT ![a] = @ + 1]
      BY <1>5 DEF Serve, clockVars, stopVars
    <2> QED BY <1>a, <1>b, <2>1 DEF CallsInv
  <1>6. ASSUME NEW a \in Agents, Refuse(a) \/ Lose PROVE CallsInv'
    BY <1>6 DEF Refuse, Lose, serverVars, clockVars, seenVars, stopVars, CallsInv
  <1>7. CASE UNCHANGED serverSide
    BY <1>7 DEF serverSide, serverVars, clockVars, seenVars, stopVars, CallsInv
  <1>8. ASSUME window' \in {0, window}, UNCHANGED <<served, apiCalls>>, reloads' \in {reloads, reloads + 1}
        PROVE  CallsInv'
    BY <1>a, <1>b, <1>8 DEF CallsInv
  <1>9. CASE Pause
    BY <1>8, <1>9 DEF Pause, seenVars
  <1>10. CASE Start
    BY <1>8, <1>10, Reloads DEF Start, seenVars, stopVars
  <1>11. CASE Restart
    <2>1. window' = 0 /\ served' = served /\ apiCalls' = None /\ reloads' = reloads + 1
      BY <1>11, Reloads DEF Restart, seenVars
    <2> QED BY <1>a, <1>b, <2>1 DEF CallsInv, None
  <1> QED BY <1>1, <1>2, <1>3, <1>4, <1>5, <1>6, <1>7, <1>9, <1>10, <1>11, ServerSteps
          DEF Closes, Calls, Stops

\* An agent gets CallLimit calls while its window is open or being closed, and no more
\* than twice that until the next tick, and once more for each end of the server
\* (AllowAPICall, CloseWindowAndMatch).
THEOREM CallsAreBounded == TurnsSpec => []CallsBounded
  <1>1. TurnsInit => CallsInv
    <2> SUFFICES ASSUME TurnsInit, NEW a \in Agents
                 PROVE  served[a] = apiCalls[a]
                        /\ served[a] <= CallLimit + CallLimit * reloads + apiCalls[a]
      BY DEF CallsInv
    <2>1. served[a] = 0 /\ apiCalls[a] = 0 /\ reloads = 0
      BY DEF TurnsInit, ParticipationInit, None
    <2> QED BY <2>1, Numbers
  <1>2. TurnsSpec => [](ServerOK /\ CallsInv)
    BY <1>1, InitServer, StepServer, StepCalls, PTL DEF TurnsSpec
  <1>3. ServerOK /\ CallsInv => CallsBounded
    <2> SUFFICES ASSUME ServerOK, CallsInv, NEW a \in Agents
                 PROVE  /\ window # 0 => served[a] <= CallLimit
                        /\ served[a] <= (2 + reloads) * CallLimit
      BY DEF CallsBounded
    <2>1. apiCalls[a] \in 0..CallLimit /\ served[a] \in Nat /\ reloads \in Nat
      BY DEF ServerOK
    <2>2. /\ window # 0 => served[a] = apiCalls[a]
          /\ served[a] <= CallLimit + CallLimit * reloads + apiCalls[a]
      BY DEF CallsInv
    <2>3. (2 + reloads) * CallLimit = CallLimit + CallLimit + CallLimit * reloads
          /\ CallLimit * reloads \in Nat
      BY <2>1, Numbers
    <2> QED BY <2>1, <2>2, <2>3, Numbers
  <1> QED BY <1>2, <1>3, PTL

-----------------------------------------------------------------------------
(* Missed ticks *)

\* An agent the close under way has still to count.
Uncounted(a) == at = "count" /\ a \in todo

\* An agent whose days have been counted is on its way to be disqualified; the day of
\* one that has still to be counted is already in silent.
MissedInv ==
    \A a \in Agents : ~dq[a] =>
        /\ ~Uncounted(a) => /\ missed[a] >= silent[a] - Trouble
                            /\ silent[a] < MissLimit + Trouble
        /\ Uncounted(a) /\ a \in called => silent[a] = 0
        /\ Uncounted(a) /\ a \notin called => /\ missed[a] + 1 >= silent[a] - Trouble
                                             /\ silent[a] <= MissLimit + Trouble

LEMMA InitMissed == TurnsInit => MissedInv
  BY Numbers DEF TurnsInit, ParticipationInit, MissedInv, Uncounted, Trouble, None

\* A step is at most one failure or one new clock.
LEMMA Troubles ==
  ASSUME ServerOK, [TurnsNext]_turnsVars
  PROVE  /\ Trouble \in Nat /\ Trouble' \in Nat /\ Trouble' \in {Trouble, Trouble + 1}
         /\ Trouble = 0 <=> faults = 0 /\ reloads = 0
         /\ Trouble' = 0 => faults' = faults /\ reloads' = reloads /\ Trouble = 0
         /\ Restart => Trouble' = Trouble + 1
  <1>a. faults \in Nat /\ reloads \in Nat
    BY DEF ServerOK
  <1>1. CASE Opens \/ AdvanceUnheard \/ Complete \/ Closes \/ Calls \/ Pause \/ UNCHANGED serverSide
    <2>1. faults' \in {faults, faults + 1} /\ reloads' = reloads
      BY <1>1 DEF Opens, OpenDay, OpenUnsaved, OpenUnheard, Announce, AdvanceUnheard, Complete,
                  Closes, Close, CountMissed, Match, MatchFails, Calls, Serve, Refuse, Lose, Pause,
                  Fails, serverSide, stopVars
    <2>2. ~Restart
      <3>1. Restart => reloads' = reloads + 1
        BY DEF Restart, Reload
      <3> QED BY <1>a, <2>1, <3>1
    <2>3. CASE faults' = faults
      BY <1>a, <2>1, <2>2, <2>3 DEF Trouble
    <2>4. CASE faults' = faults + 1
      BY <1>a, <2>1, <2>2, <2>4 DEF Trouble
    <2> QED BY <2>1, <2>3, <2>4
  <1>2. CASE Restart
    <2>1. faults' = faults /\ reloads' = reloads + 1
      BY <1>2 DEF Restart, Reload
    <2> QED BY <1>a, <2>1 DEF Trouble
  <1>3. CASE Start
    <2>1. \/ faults' \in {faults, faults + 1} /\ reloads' = reloads
          \/ faults' = faults /\ reloads' = reloads + 1
      BY <1>3 DEF Start, Reload, Fails, stopVars
    <2>2. ~Restart
      <3>1. status' = "running"
        BY <1>3 DEF Start
      <3> QED BY <3>1 DEF Restart
    <2>3. CASE faults' \in {faults, faults + 1} /\ reloads' = reloads
      <3>1. CASE faults' = faults
        BY <1>a, <2>2, <2>3, <3>1 DEF Trouble
      <3>2. CASE faults' = faults + 1
        BY <1>a, <2>2, <2>3, <3>2 DEF Trouble
      <3> QED BY <2>3, <3>1, <3>2
    <2>4. CASE faults' = faults /\ reloads' = reloads + 1
      BY <1>a, <2>2, <2>4 DEF Trouble
    <2> QED BY <2>1, <2>3, <2>4
  <1> QED BY <1>1, <1>2, <1>3, ServerSteps DEF Stops

LEMMA StepMissed ==
  ASSUME ServerOK, MissedInv, [TurnsNext]_turnsVars
  PROVE  MissedInv'
  <1> USE Numbers
  <1>a. ServerOK'
    BY StepServer
  <1>b. Trouble \in Nat /\ Trouble' \in {Trouble, Trouble + 1}
    BY Troubles
  <1>1. ASSUME UNCHANGED <<missed, dq, silent>>,
               \/ UNCHANGED <<at, called, todo>>
               \/ at' = "idle" /\ (at = "count" => todo = {})
               \/ at' = "idle" /\ Trouble' = Trouble + 1
        PROVE  MissedInv'
    <2>1. missed \in [Agents -> Nat] /\ silent \in [Agents -> Nat] /\ at \in {"idle", "count"}
      BY DEF ServerOK
    <2>2. \A a \in Agents : missed[a] \in Nat /\ silent[a] \in Nat
      BY <2>1
    <2> SUFFICES ASSUME NEW a \in Agents, ~dq[a]
                 PROVE /\ ~Uncounted(a)' => /\ missed[a] >= silent[a] - Trouble'
                                            /\ silent[a] < MissLimit + Trouble'
                       /\ Uncounted(a)' /\ a \in called' => silent[a] = 0
                       /\ Uncounted(a)' /\ a \notin called' =>
                              /\ missed[a] + 1 >= silent[a] - Trouble'
                              /\ silent[a] <= MissLimit + Trouble'
      BY <1>1 DEF MissedInv
    <2>3. /\ ~Uncounted(a) => /\ missed[a] >= silent[a] - Trouble
                              /\ silent[a] < MissLimit + Trouble
          /\ Uncounted(a) /\ a \in called => silent[a] = 0
          /\ Uncounted(a) /\ a \notin called => /\ missed[a] + 1 >= silent[a] - Trouble
                                                 /\ silent[a] <= MissLimit + Trouble
      BY DEF MissedInv
    <2>4. \/ Uncounted(a)' = Uncounted(a) /\ called' = called
          \/ ~Uncounted(a)' /\ ~Uncounted(a)
          \/ ~Uncounted(a)' /\ Trouble' = Trouble + 1
      BY <1>1, <2>1 DEF Uncounted
    <2> HIDE DEF Uncounted
    <2> QED BY <1>b, <2>2, <2>3, <2>4
  <1>2. CASE Opens \/ AdvanceUnheard \/ Complete
    BY <1>1, <1>2 DEF Opens, OpenDay, OpenUnsaved, OpenUnheard, Announce, AdvanceUnheard, Complete,
                      closeVars, tableVars, pastVars
  <1>3. CASE Match \/ MatchFails
    BY <1>1, <1>3 DEF Match, MatchFails, tableVars, pastVars
  <1>4. CASE Calls \/ UNCHANGED serverSide
    BY <1>1, <1>4 DEF Calls, Serve, Refuse, Lose, serverSide, closeVars, tableVars, pastVars
  <1>7. CASE Pause \/ Start
    BY <1>1, <1>7, Reloads DEF Pause, Start, closeVars, tableVars, pastVars
  <1>8. CASE Restart
    BY <1>1, <1>8, Reloads, Troubles DEF Restart, tableVars
  <1>5. CASE Close
    <2>1. at = "idle" /\ at' = "count" /\ called' = heard /\ UNCHANGED <<missed, dq>>
      BY <1>5 DEF Close, WindowOpen, ServerOK, tableVars
    <2>2. \/ todo' = Agents /\ Trouble' = Trouble
          \/ todo' = {} /\ Trouble' = Trouble + 1
      <3>1. \/ todo' = Agents /\ faults' = faults
            \/ todo' = {} /\ faults' = faults + 1
        BY <1>5 DEF Close, Fails
      <3>2. reloads' = reloads /\ faults \in Nat /\ reloads \in Nat
        BY <1>5 DEF Close, stopVars, ServerOK
      <3> QED BY <3>1, <3>2 DEF Trouble
    <2>3. \A a \in Agents : /\ a \in heard => silent'[a] = 0
                           /\ silent'[a] \in {0, silent[a], silent[a] + 1}
      BY <1>5 DEF Close, ServerOK
    <2>4. \A a \in Agents : silent[a] \in Nat /\ missed[a] \in Nat /\ silent'[a] \in Nat
      BY <1>a, <2>1 DEF ServerOK
    <2>5. ASSUME NEW a \in Agents, ~dq[a]
          PROVE  missed[a] >= silent[a] - Trouble /\ silent[a] < MissLimit + Trouble
      BY <2>1, <2>5 DEF MissedInv, Uncounted
    <2>6. Trouble \in Nat
      BY <1>b
    <2> SUFFICES ASSUME NEW a \in Agents, ~dq[a]
                 PROVE /\ ~Uncounted(a)' => /\ missed[a] >= silent'[a] - Trouble'
                                            /\ silent'[a] < MissLimit + Trouble'
                       /\ Uncounted(a)' /\ a \in called' => silent'[a] = 0
                       /\ Uncounted(a)' /\ a \notin called' =>
                              /\ missed[a] + 1 >= silent'[a] - Trouble'
                              /\ silent'[a] <= MissLimit + Trouble'
      BY <2>1 DEF MissedInv
    <2>7. Uncounted(a)' <=> todo' = Agents
      BY <2>1, <2>2 DEF Uncounted
    <2>8. CASE todo' = Agents /\ Trouble' = Trouble
      BY <2>1, <2>3, <2>4, <2>5, <2>6, <2>7, <2>8
    <2>9. CASE todo' = {} /\ Trouble' = Trouble + 1
      BY <2>1, <2>3, <2>4, <2>5, <2>6, <2>7, <2>9
    <2> QED BY <2>2, <2>8, <2>9
  <1>6. ASSUME NEW a \in Agents, CountMissed(a) PROVE MissedInv'
    <2>1. at = "count" /\ a \in todo /\ todo' = todo \ {a} /\ UNCHANGED <<at, called, silent>>
      BY <1>6 DEF CountMissed, pastVars
    <2>2. faults \in Nat /\ missed \in [Agents -> Nat] /\ dq \in [Agents -> BOOLEAN]
          /\ silent \in [Agents -> Nat] /\ reloads' = reloads /\ reloads \in Nat
      BY <1>6 DEF ServerOK, CountMissed, stopVars
    <2>f. /\ faults' = faults => Trouble' = Trouble
          /\ faults' = faults + 1 => Trouble' = Trouble + 1
          /\ Trouble \in Nat /\ Trouble' \in {Trouble, Trouble + 1}
      BY <1>b, <2>2 DEF Trouble
    <2>3. \A b \in Agents \ {a} : missed'[b] = missed[b] /\ dq'[b] = dq[b]
      BY <1>6, <2>2 DEF CountMissed
    <2>4. \A b \in Agents \ {a} : Uncounted(b)' <=> Uncounted(b)
      BY <2>1 DEF Uncounted
    <2>5. ~Uncounted(a)' /\ Uncounted(a)
      BY <2>1 DEF Uncounted
    <2>6. ASSUME ~dq'[a]
          PROVE  missed'[a] >= silent[a] - Trouble' /\ silent[a] < MissLimit + Trouble'
      <3>1. ~dq[a]
        BY <1>6, <2>2, <2>6 DEF CountMissed
      <3>2. /\ a \in called => silent[a] = 0
            /\ a \notin called => /\ missed[a] + 1 >= silent[a] - Trouble
                                  /\ silent[a] <= MissLimit + Trouble
        BY <2>5, <3>1 DEF MissedInv
      <3>3. CASE a \in called /\ missed' = [missed EXCEPT ![a] = 0] /\ faults' = faults
        BY <2>2, <2>f, <3>2, <3>3
      <3>4. CASE /\ a \notin called /\ missed' = [missed EXCEPT ![a] = @ + 1]
                 /\ faults' = faults /\ ~OverLimit(missed[a] + 1)
        BY <2>2, <2>f, <3>2, <3>4 DEF OverLimit
      <3>5. CASE /\ a \notin called /\ missed' = [missed EXCEPT ![a] = @ + 1]
                 /\ faults' = faults + 1
        BY <2>2, <2>f, <3>2, <3>5
      <3>6. CASE missed' = missed /\ faults' = faults + 1
        BY <2>2, <2>f, <3>2, <3>6
      <3>7. dq' = [dq EXCEPT ![a] = OverLimit(missed[a] + 1)] => ~OverLimit(missed[a] + 1)
        BY <2>2, <2>6
      <3>8. CASE /\ a \notin called /\ missed' = [missed EXCEPT ![a] = @ + 1]
                 /\ Fails
        BY <3>5, <3>8 DEF Fails
      <3> QED BY <1>6, <3>1, <3>3, <3>4, <3>5, <3>6, <3>7, <3>8 DEF CountMissed, Fails
    <2>7. ASSUME NEW b \in Agents \ {a}, ~dq[b]
          PROVE /\ ~Uncounted(b) => /\ missed[b] >= silent[b] - Trouble'
                                    /\ silent[b] < MissLimit + Trouble'
                /\ Uncounted(b) /\ b \in called => silent[b] = 0
                /\ Uncounted(b) /\ b \notin called => /\ missed[b] + 1 >= silent[b] - Trouble'
                                                     /\ silent[b] <= MissLimit + Trouble'
      <3>1. missed[b] \in Nat /\ silent[b] \in Nat
        BY <2>2
      <3> QED BY <2>2, <2>f, <2>7, <3>1 DEF MissedInv
    <2> QED BY <2>1, <2>3, <2>4, <2>5, <2>6, <2>7 DEF MissedInv
  <1> QED BY <1>2, <1>3, <1>4, <1>5, <1>6, <1>7, <1>8, ServerSteps DEF Closes, Stops

\* Without a failure and a new clock the windows come day by day, and each is counted
\* once; one that a pause has closed opens again for its day.
DaysInv ==
    Trouble = 0 =>
        /\ counted <= day
        /\ window # 0 => window = day
        /\ at = "idle" /\ window # 0 => counted < day
        /\ at = "idle" => counted <= matched

\* Then the count is exact.
ExactInv ==
    Trouble = 0 =>
        \A a \in Agents : ~dq[a] =>
            /\ ~Uncounted(a) => missed[a] = silent[a]
            /\ Uncounted(a) /\ a \in called => silent[a] = 0
            /\ Uncounted(a) /\ a \notin called => missed[a] + 1 = silent[a]

LEMMA InitExact == TurnsInit => DaysInv /\ ExactInv
  BY Numbers DEF TurnsInit, ParticipationInit, DaysInv, ExactInv, Uncounted, None, Trouble

LEMMA StepDays ==
  ASSUME ServerOK, DaysInv, [TurnsNext]_turnsVars
  PROVE  DaysInv'
  <1> USE Numbers
  <1> SUFFICES ASSUME Trouble' = 0 PROVE DaysInv'
    BY DEF DaysInv
  <1>a. ServerOK'
    BY StepServer
  <1>b. /\ day \in Nat \ {0} /\ window \in Nat /\ matched \in Nat /\ counted \in Nat /\ faults \in Nat
        /\ at = "count" => window # 0 /\ counted = window
    BY DEF ServerOK, Days
  <1>c. /\ Trouble = 0 /\ faults' = faults /\ reloads' = reloads /\ faults = 0
        /\ faults \in Nat /\ reloads \in Nat
    BY Troubles DEF ServerOK
  <1>d. /\ counted <= day
        /\ window # 0 => window = day
        /\ at = "idle" /\ window # 0 => counted < day
        /\ at = "idle" => counted <= matched
    BY <1>c DEF DaysInv
  <1>1. CASE OpenDay
    <2>1. /\ window = 0 /\ at = "idle" /\ at' = "idle" /\ day' = TickDay /\ window' = TickDay
          /\ UNCHANGED <<counted, matched>>
      BY <1>1 DEF OpenDay, Due, Announce, closeVars
    <2>2. counted < TickDay /\ TickDay \in Nat \ {0}
      BY <1>b, <1>d, <2>1 DEF TickDay, ShouldAdvance
    <2> QED BY <1>b, <1>d, <2>1, <2>2 DEF DaysInv
  <1>2. CASE OpenUnsaved \/ OpenUnheard \/ AdvanceUnheard \/ MatchFails
    BY <1>2, <1>b, <1>c DEF OpenUnsaved, OpenUnheard, AdvanceUnheard, MatchFails, Fails
  <1>3. CASE Complete
    BY <1>3, <1>b, <1>d DEF Complete, closeVars, pastVars, DaysInv
  <1>4. CASE Close
    <2>1. /\ at' = "count" /\ window # 0 /\ counted' = window /\ UNCHANGED <<day, window, matched>>
      BY <1>4 DEF Close, WindowOpen, serverVars, clockVars
    <2> QED BY <1>b, <1>d, <2>1 DEF DaysInv
  <1>5. CASE Match
    <2>1. at = "count" /\ at' = "idle" /\ window' = 0 /\ matched' = window /\ UNCHANGED <<day, counted>>
      BY <1>5 DEF Match, pastVars
    <2> QED BY <1>b, <1>d, <2>1 DEF DaysInv
  <1>6. CASE (\E a \in Agents : CountMissed(a)) \/ Calls \/ UNCHANGED serverSide
    <2>1. UNCHANGED <<at, day, window, matched, counted>>
      BY <1>6 DEF CountMissed, Calls, Serve, Refuse, Lose, serverSide, serverVars, clockVars, closeVars,
                  pastVars
    <2> QED BY <1>d, <2>1 DEF DaysInv
  <1>7. CASE Pause
    <2>1. /\ window' \in {0, window} /\ UNCHANGED <<at, day, matched, counted>>
      BY <1>7 DEF Pause, closeVars
    <2> QED BY <1>d, <2>1 DEF DaysInv
  <1>8. CASE Start
    <2>1. reloads' # reloads + 1
      BY <1>c
    <2>2. UNCHANGED <<at, day, window, matched, counted>>
      BY <1>8, <2>1 DEF Start, Reload, closeVars, pastVars
    <2> QED BY <1>d, <2>2 DEF DaysInv
  <1>9. CASE Restart
    BY <1>9, <1>c, Troubles
  <1> QED BY <1>1, <1>2, <1>3, <1>4, <1>5, <1>6, <1>7, <1>8, <1>9, ServerSteps
          DEF Opens, Closes, Stops

LEMMA StepExact ==
  ASSUME ServerOK, DaysInv, ExactInv, [TurnsNext]_turnsVars
  PROVE  ExactInv'
  <1> USE Numbers
  <1> SUFFICES ASSUME Trouble' = 0 PROVE ExactInv'
    BY DEF ExactInv
  <1>a. ServerOK'
    BY StepServer
  <1>b. faults \in Nat /\ missed \in [Agents -> Nat] /\ dq \in [Agents -> BOOLEAN]
        /\ silent \in [Agents -> Nat]
    BY DEF ServerOK
  <1>c. /\ Trouble = 0 /\ faults' = faults /\ reloads' = reloads /\ faults = 0
        /\ faults \in Nat /\ reloads \in Nat
    BY Troubles DEF ServerOK
  <1>1. ASSUME UNCHANGED <<missed, dq, silent>>,
               \/ UNCHANGED <<at, called, todo>>
               \/ at' = "idle" /\ (at = "count" => todo = {})
        PROVE  ExactInv'
    BY <1>1, <1>c DEF ExactInv, Uncounted, ServerOK
  <1>2. CASE Opens \/ AdvanceUnheard \/ Complete
    BY <1>1, <1>2 DEF Opens, OpenDay, OpenUnsaved, OpenUnheard, Announce, AdvanceUnheard, Complete,
                      closeVars, tableVars, pastVars
  <1>3. CASE Match \/ MatchFails
    BY <1>1, <1>3 DEF Match, MatchFails, tableVars, pastVars
  <1>4. CASE Calls \/ UNCHANGED serverSide
    BY <1>1, <1>4 DEF Calls, Serve, Refuse, Lose, serverSide, closeVars, tableVars, pastVars
  <1>7. CASE Pause \/ Start
    BY <1>1, <1>7, Reloads DEF Pause, Start, closeVars, tableVars, pastVars
  <1>8. CASE Restart
    BY <1>8, <1>c, Troubles
  <1>5. CASE Close
    <2>1. /\ at = "idle" /\ at' = "count" /\ called' = heard /\ todo' = Agents /\ window # 0
          /\ UNCHANGED <<missed, dq>>
      BY <1>5, <1>b, <1>c DEF Close, WindowOpen, Fails, ServerOK, tableVars
    <2>2. counted < window
      BY <2>1, <1>c DEF DaysInv
    <2>3. \A a \in Agents : silent'[a] = IF a \in heard THEN 0 ELSE silent[a] + 1
      BY <1>5, <2>2 DEF Close
    <2>4. \A a \in Agents : ~dq[a] => missed[a] = silent[a]
      BY <2>1, <1>c DEF ExactInv, Uncounted
    <2> QED BY <2>1, <2>3, <2>4 DEF ExactInv, Uncounted
  <1>6. ASSUME NEW a \in Agents, CountMissed(a) PROVE ExactInv'
    <2>1. at = "count" /\ a \in todo /\ todo' = todo \ {a} /\ UNCHANGED <<at, called, silent>>
      BY <1>6 DEF CountMissed, pastVars
    <2>2. ~Fails
      BY <1>b, <1>c DEF Fails
    <2>3. \A b \in Agents \ {a} : missed'[b] = missed[b] /\ dq'[b] = dq[b]
      BY <1>6, <1>b DEF CountMissed
    <2>4. \A b \in Agents \ {a} : Uncounted(b)' <=> Uncounted(b)
      BY <2>1 DEF Uncounted
    <2>5. ~Uncounted(a)' /\ Uncounted(a)
      BY <2>1 DEF Uncounted
    <2>6. ASSUME ~dq'[a] PROVE missed'[a] = silent[a]
      <3>1. ~dq[a]
        BY <1>6, <1>b, <2>6 DEF CountMissed
      <3>2. /\ a \in called => silent[a] = 0
            /\ a \notin called => missed[a] + 1 = silent[a]
        BY <1>c, <2>5, <3>1 DEF ExactInv
      <3> QED BY <1>6, <1>b, <2>2, <3>1, <3>2 DEF CountMissed
    <2> QED BY <1>c, <2>1, <2>3, <2>4, <2>5, <2>6 DEF ExactInv
  <1> QED BY <1>2, <1>3, <1>4, <1>5, <1>6, <1>7, <1>8, ServerSteps DEF Closes, Stops

\* Between two ticks consecutive_missed_ticks is the number of days in a row an agent was
\* not heard, but for the failures and the ends of the server; without one it is exact,
\* also over pauses (recordMissedTicks).
THEOREM MissedTicksAreCounted == TurnsSpec => []MissedTicksCount
  <1>1. TurnsSpec => [](ServerOK /\ MissedInv /\ DaysInv /\ ExactInv)
    BY InitServer, StepServer, InitMissed, StepMissed, InitExact, StepDays, StepExact, PTL
       DEF TurnsSpec
  <1>2. ServerOK /\ MissedInv /\ ExactInv => MissedTicksCount
    BY DEF MissedInv, ExactInv, MissedTicksCount, Uncounted
  <1> QED BY <1>1, <1>2, PTL

\* An agent that stays silent is disqualified after MissLimit days, later by as many as
\* there were failures and ends of the server, although one of them may be the disqualification's own statement
\* (OverLimit is >=, not =).
THEOREM SilentAreDisqualified == TurnsSpec => []SilentIsDisqualified
  <1>1. TurnsSpec => [](ServerOK /\ MissedInv)
    BY InitServer, StepServer, InitMissed, StepMissed, PTL DEF TurnsSpec
  <1>2. ServerOK /\ MissedInv => SilentIsDisqualified
    <2> SUFFICES ASSUME ServerOK, MissedInv, at = "idle", NEW a \in Agents, ~dq[a]
                 PROVE  ~(silent[a] >= MissLimit + Trouble)
      BY DEF SilentIsDisqualified
    <2>1. silent[a] \in Nat /\ Trouble \in Nat
      BY DEF ServerOK, Trouble
    <2>2. silent[a] < MissLimit + Trouble
      BY DEF MissedInv, Uncounted
    <2> QED BY <2>1, <2>2, Numbers
  <1> QED BY <1>1, <1>2, PTL

-----------------------------------------------------------------------------
(* The days a runner handles *)

\* Nothing has been lost, or no clock had to be made again.
Steady == faults = 0 \/ reloads = 0

\* A day comes before another one, or the other is to be announced again.
Follows(d, e) ==
    /\ d < e \/ e \in again
    /\ Steady => d <= e

\* The day of the open window, or of the next tick.
Reached == IF window # 0 THEN window ELSE TickDay

\* A day that has been announced: the next ones come after it or come again.
Announced(d) ==
    /\ \A e \in Days : NextDay <= e /\ e <= d => e \in again
    /\ Steady => d <= Reached

\* The window is of the clock's day; of the day after it when the tick could not be
\* saved, and then the next tick opens it again.  Without a failure the row is as the
\* memory.
WindowInv ==
    /\ window # 0 => window = day \/ (window = day + 1 /\ ShouldAdvance /\ window \in again)
    /\ status = "completed" => window = 0
    /\ faults = 0 => /\ asOf = day /\ recorded = matched
                     /\ window # 0 => window = day

Ticks == {i \in 1..Len(channel) : channel[i].event = "sim.tick"}

\* The ticks on their way are in order, after the last one handled.
OrderInv ==
    /\ twice \subseteq again
    /\ Announced(handled)
    /\ \A i \in Ticks :
          /\ Announced(channel[i].day) /\ Follows(handled, channel[i].day)
          /\ \A j \in Ticks : i < j => Follows(channel[i].day, channel[j].day)

LEMMA InitOrder == TurnsInit => WindowInv /\ OrderInv
  <1> SUFFICES ASSUME TurnsInit PROVE WindowInv /\ OrderInv
    OBVIOUS
  <1>1. /\ window = 0 /\ day = 1 /\ matched = 0 /\ channel = <<>> /\ handled = 0 /\ twice = {}
        /\ asOf = 1 /\ recorded = 0 /\ status = "running"
    BY DEF TurnsInit, ParticipationInit
  <1>2. Ticks = {}
    BY <1>1 DEF Ticks
  <1>3. Announced(handled)
    BY <1>1 DEF Announced, NextDay, Reached, TickDay, ShouldAdvance, Days
  <1> QED BY <1>1, <1>2, <1>3 DEF WindowInv, OrderInv

LEMMA AgainStays ==
  ASSUME ServerOK, [TurnsNext]_turnsVars
  PROVE  again \subseteq again' /\ (Steady' => Steady)
  <1>1. again \subseteq again'
    BY ServerSteps
       DEF Opens, OpenDay, OpenUnsaved, OpenUnheard, AdvanceUnheard, Complete, Closes, Close,
           CountMissed, Match, MatchFails, Stops, Pause, Start, Restart, Reload, Calls, Serve, Refuse,
           Lose, serverSide, pastVars
  <1>2. faults' \in {faults, faults + 1} /\ reloads' \in {reloads, reloads + 1}
    BY ServerSteps
       DEF Opens, OpenDay, OpenUnsaved, OpenUnheard, Announce, AdvanceUnheard, Complete, Closes, Close,
           CountMissed, Match, MatchFails, Stops, Pause, Start, Restart, Reload, Calls, Serve, Refuse,
           Lose, Fails, serverSide, stopVars
  <1> QED BY <1>1, <1>2 DEF ServerOK, Steady

\* What is to come comes later, or again.
Moves ==
    /\ \A e \in Days : NextDay' <= e => NextDay <= e \/ e \in again'
    /\ Steady' => Reached <= Reached'

LEMMA MovesAnnounce ==
  ASSUME ServerOK, [TurnsNext]_turnsVars, Moves, NEW d \in 0..N, Announced(d)
  PROVE  Announced(d)'
  <1>1. again \subseteq again' /\ (Steady' => Steady)
    BY AgainStays
  <1>2. Reached \in Nat /\ Reached' \in Nat
    BY StepServer, Numbers DEF Reached, ServerOK, TickDay, Days
  <1>3. \A e \in Days : NextDay' <= e /\ e <= d => e \in again'
    BY <1>1 DEF Moves, Announced
  <1>4. Steady' => d <= Reached'
    BY <1>1, <1>2, Numbers DEF Moves, Announced
  <1> QED BY <1>3, <1>4 DEF Announced

\* Where the window and the next tick go.
LEMMA StepWindow ==
  ASSUME ServerOK, WindowInv, [TurnsNext]_turnsVars
  PROVE  WindowInv' /\ Moves
  <1> USE Numbers
  <1>a. /\ day \in Nat \ {0} /\ window \in Nat /\ matched \in Nat /\ asOf \in Nat \ {0} /\ recorded \in Nat
        /\ day' \in Nat \ {0} /\ window' \in Nat /\ matched' \in Nat
        /\ faults \in Nat /\ reloads \in Nat
        /\ at = "count" => window # 0
    BY StepServer DEF ServerOK, Days
  <1>b. again \subseteq again'
    BY AgainStays
  <1>c. TickDay \in Nat \ {0} /\ TickDay \in {day, day + 1} /\ (TickDay = day + 1 <=> ShouldAdvance)
    BY <1>a DEF TickDay
  <1>d. Days \subseteq Nat
    BY DEF Days
  <1>1. CASE Opens
    <2>1. window = 0 /\ window' = TickDay /\ matched' = matched /\ recorded' = recorded
          /\ status' = "running"
      BY <1>1 DEF Opens, OpenDay, OpenUnsaved, OpenUnheard, Announce, Due
    <2>2. \/ day' = TickDay /\ asOf' = TickDay /\ faults' = faults
          \/ /\ day' = day /\ (ShouldAdvance => TickDay \in again') /\ faults' = faults + 1
      BY <1>1, <1>c DEF Opens, OpenDay, OpenUnsaved, OpenUnheard, Fails
    <2>3. WindowInv'
      <3>1. CASE day' = TickDay /\ asOf' = TickDay /\ faults' = faults
        BY <2>1, <3>1 DEF WindowInv
      <3>2. CASE day' = day /\ (ShouldAdvance => TickDay \in again') /\ faults' = faults + 1
        <4>1. ShouldAdvance' <=> ShouldAdvance
          BY <2>1, <3>2 DEF ShouldAdvance
        <4>2. window' = day' \/ (window' = day' + 1 /\ ShouldAdvance' /\ window' \in again')
          BY <1>c, <2>1, <3>2, <4>1
        <4> QED BY <1>a, <2>1, <3>2, <4>2 DEF WindowInv
      <3> QED BY <2>2, <3>1, <3>2
    <2>4. NextDay = TickDay /\ NextDay' = TickDay + 1 /\ Reached = TickDay /\ Reached' = TickDay
      BY <1>c, <2>1 DEF NextDay, Reached
    <2>5. Moves
      BY <1>c, <1>d, <2>4 DEF Moves
    <2> QED BY <2>3, <2>5
  <1>2. CASE AdvanceUnheard
    <2>1. /\ window = 0 /\ window' = 0 /\ matched' = matched /\ ShouldAdvance /\ day' = day + 1
          /\ faults' = faults + 1 /\ status' = "running"
      BY <1>2, <1>c DEF AdvanceUnheard, Due, Fails
    <2>2. TickDay = day + 1 /\ TickDay' \in {day + 1, day + 2}
      BY <1>a, <1>c, <2>1 DEF TickDay
    <2>3. NextDay = day + 1 /\ NextDay' = TickDay' /\ Reached = day + 1 /\ Reached' = TickDay'
      BY <2>1, <2>2 DEF NextDay, Reached
    <2>4. Moves
      BY <1>a, <1>d, <2>2, <2>3 DEF Moves
    <2> QED BY <1>a, <2>1, <2>4 DEF WindowInv
  <1>3. CASE Match
    <2>1. /\ window # 0 /\ window' = 0 /\ matched' = window /\ day' = day /\ again' = again
          /\ status' = status /\ asOf' = asOf
          /\ \/ recorded' = window /\ faults' = faults
             \/ faults' = faults + 1
      BY <1>3, <1>a DEF Match, Fails, pastVars
    <2>2. TickDay' = day + 1
      BY <1>a, <2>1 DEF TickDay, ShouldAdvance, WindowInv
    <2>3. NextDay = window + 1 /\ NextDay' = day + 1 /\ Reached = window /\ Reached' = day + 1
      BY <2>1, <2>2 DEF NextDay, Reached
    <2>4. window = day \/ (window = day + 1 /\ window \in again)
      BY <2>1 DEF WindowInv
    <2>5. Moves
      BY <1>a, <1>d, <2>1, <2>3, <2>4 DEF Moves
    <2>6. WindowInv'
      BY <1>a, <2>1 DEF WindowInv
    <2> QED BY <2>5, <2>6
  <1>4. ASSUME window # 0, window' = 0, matched' = matched, day' = day, recorded' = recorded,
               window \in again', status' # "completed",
               \/ asOf' \in {asOf, day} /\ faults' = faults
               \/ faults' = faults + 1
        PROVE  WindowInv' /\ Moves
    <2>2. TickDay' = TickDay
      BY <1>4 DEF TickDay, ShouldAdvance
    <2>3. NextDay = window + 1 /\ NextDay' = TickDay /\ Reached = window /\ Reached' = TickDay
      BY <1>4, <2>2 DEF NextDay, Reached
    <2>4. window = day \/ (window = day + 1 /\ ShouldAdvance)
      BY <1>4 DEF WindowInv
    <2>5. Moves
      BY <1>4, <1>a, <1>c, <1>d, <2>3, <2>4 DEF Moves
    <2>6. WindowInv'
      BY <1>4, <1>a DEF WindowInv
    <2> QED BY <2>5, <2>6
  <1>5. ASSUME UNCHANGED <<window, matched, day, recorded>>,
               status' = "completed" => status = "completed" \/ window = 0,
               \/ asOf' \in {asOf, day} /\ faults' = faults
               \/ faults' = faults + 1
        PROVE  WindowInv' /\ Moves
    <2>1. TickDay' = TickDay /\ (ShouldAdvance' <=> ShouldAdvance)
      BY <1>5 DEF TickDay, ShouldAdvance
    <2>2. NextDay' = NextDay /\ Reached' = Reached /\ Reached \in Nat
      BY <1>5, <1>a, <1>c, <2>1 DEF NextDay, Reached
    <2>3. Moves
      BY <2>2 DEF Moves
    <2>4. WindowInv'
      BY <1>5, <1>a, <1>b, <2>1 DEF WindowInv
    <2> QED BY <2>3, <2>4
  <1>6. CASE MatchFails
    <2>1. /\ window # 0 /\ window' = 0 /\ matched' = matched /\ day' = day /\ window \in again'
          /\ recorded' = recorded /\ faults' = faults + 1 /\ status' = status
      BY <1>6, <1>a DEF MatchFails, Fails, rowVars
    <2>2. status' # "completed"
      BY <2>1 DEF WindowInv
    <2> QED BY <1>4, <2>1, <2>2
  <1>7. CASE Complete \/ Close \/ (\E a \in Agents : CountMissed(a)) \/ Calls \/ UNCHANGED serverSide
    <2>1. UNCHANGED <<window, matched, day, recorded, asOf>> /\ faults' \in {faults, faults + 1}
      BY <1>7 DEF Complete, Close, CountMissed, Calls, Serve, Refuse, Lose, Fails, serverSide, serverVars,
                  clockVars, rowVars
    <2>2. status' = "completed" => status = "completed" \/ window = 0
      BY <1>7 DEF Complete, Due, Close, CountMissed, Calls, Serve, Refuse, Lose, serverSide, serverVars,
                  clockVars
    <2> QED BY <1>5, <2>1, <2>2
  <1>8. CASE Pause
    <2>1. /\ status' = "paused" /\ UNCHANGED <<day, matched, recorded>>
          /\ \/ asOf' = day /\ faults' = faults
             \/ asOf' = asOf /\ faults' = faults + 1
          /\ \/ window # 0 /\ window' = 0 /\ window \in again'
             \/ window' = window
      BY <1>8 DEF Pause, WindowOpen, Fails
    <2>2. CASE window # 0 /\ window' = 0 /\ window \in again'
      <3>1. (asOf' \in {asOf, day} /\ faults' = faults) \/ faults' = faults + 1
        BY <2>1
      <3>2. status' # "completed"
        BY <2>1
      <3> QED BY <1>4, <2>1, <2>2, <3>1, <3>2
    <2>3. CASE window' = window
      <3>1. (asOf' \in {asOf, day} /\ faults' = faults) \/ faults' = faults + 1
        BY <2>1
      <3>2. status' # "completed"
        BY <2>1
      <3> QED BY <1>5, <2>1, <2>3, <3>1, <3>2
    <2> QED BY <2>1, <2>2, <2>3
  <1>9. ASSUME NEW last, Reload(last), NextDay - 1 <= last, last \in Int, window' = 0,
               status' # "completed", faults' = faults
        PROVE  WindowInv' /\ Moves
    <2>1. /\ day' = asOf /\ matched' = recorded /\ UNCHANGED <<asOf, recorded, ended>>
          /\ reloads' = reloads + 1
          /\ \A d \in Days : SavedDay <= d /\ d <= last => d \in again'
      BY <1>9 DEF Reload, rowVars
    <2>2. TickDay' = SavedDay
      BY <2>1 DEF TickDay, ShouldAdvance, SavedDay
    <2>3. NextDay' = SavedDay /\ Reached' = SavedDay /\ NextDay \in Nat /\ SavedDay \in Nat
      BY <1>9, <1>a, <1>c, <2>2 DEF NextDay, Reached, SavedDay
    <2>4. \A e \in Days : NextDay' <= e => NextDay <= e \/ e \in again'
      BY <1>9, <1>d, <2>1, <2>3
    <2>5. Steady' => Reached <= Reached'
      <3> SUFFICES ASSUME Steady' PROVE Reached <= SavedDay
        BY <2>3
      <3>1. faults = 0
        BY <1>9, <1>a, <2>1 DEF Steady
      <3>2. asOf = day /\ recorded = matched /\ (window # 0 => window = day)
        BY <3>1 DEF WindowInv
      <3>3. SavedDay = TickDay
        BY <3>2 DEF SavedDay, TickDay, ShouldAdvance
      <3> QED BY <1>a, <1>c, <3>2, <3>3 DEF Reached
    <2>6. WindowInv'
      BY <1>9, <2>1 DEF WindowInv
    <2> QED BY <2>4, <2>5, <2>6 DEF Moves
  <1>10. CASE Restart
    <2>1. window' = 0 /\ status' # "completed" /\ faults' = faults
      BY <1>10 DEF Restart
    <2>2. CASE Reload(NextDay - 1)
      <3>1. NextDay \in Nat
        BY <1>a, <1>c DEF NextDay
      <3> QED BY <1>9, <2>1, <2>2, <3>1
    <2>3. CASE Due /\ Reload(TickDay)
      <3>1. NextDay = TickDay
        BY <2>3 DEF Due, NextDay
      <3> QED BY <1>9, <1>c, <2>1, <2>3, <3>1
    <2> QED BY <1>10, <2>2, <2>3 DEF Restart
  <1>11. CASE Start
    <2>1. CASE status = "completed" /\ Reload(NextDay - 1) /\ UNCHANGED <<window, apiCalls, faults>>
      <3>1. NextDay \in Nat
        BY <1>a, <1>c DEF NextDay
      <3>2. window' = 0 /\ status' # "completed"
        BY <1>11, <2>1 DEF Start, WindowInv
      <3> QED BY <1>9, <2>1, <3>1, <3>2
    <2>2. CASE /\ UNCHANGED <<day, window, matched, recorded>>
               /\ \/ asOf' = day /\ faults' = faults
                  \/ asOf' = asOf /\ faults' = faults + 1
      <3>1. (asOf' \in {asOf, day} /\ faults' = faults) \/ faults' = faults + 1
        BY <2>2
      <3>2. status' # "completed"
        BY <1>11 DEF Start
      <3> QED BY <1>5, <2>2, <3>1, <3>2
    <2> QED BY <1>11, <2>1, <2>2 DEF Start, Fails
  <1> QED BY <1>1, <1>2, <1>3, <1>6, <1>7, <1>8, <1>10, <1>11, ServerSteps DEF Closes, Stops
\* The ticks that are still on their way stay in order.
LEMMA OrderKept ==
  ASSUME ServerOK, RunnerOK, WindowInv, OrderInv, [TurnsNext]_turnsVars,
         twice' = twice, handled' = handled,
         NEW n \in Nat, n <= Len(channel), n <= Len(channel'),
         \A i \in 1..n : channel'[i] = channel[i]
  PROVE  /\ twice' \subseteq again' /\ Announced(handled)'
         /\ \A i \in Ticks' : i <= n =>
               /\ Announced(channel[i].day)' /\ Follows(handled, channel[i].day)'
               /\ \A j \in Ticks' : i < j /\ j <= n => Follows(channel[i].day, channel[j].day)'
  <1>a. \A d \in 0..N : Announced(d) => Announced(d)'
    BY StepWindow, MovesAnnounce
  <1>b. \A d, e \in 0..N : Follows(d, e) => Follows(d, e)'
    BY AgainStays DEF Follows
  <1>c. Len(channel) \in Nat /\ \A i \in Ticks' : i <= n => i \in Ticks
    <2>1. Len(channel) \in Nat /\ Len(channel') \in Nat
      BY StepRunner, LenProperties DEF RunnerOK
    <2> QED BY <2>1 DEF Ticks
  <1>d. handled \in 0..N /\ \A i \in 1..Len(channel) : channel[i].day \in 0..N
    <2>1. \A i \in 1..Len(channel) : channel[i] \in Messages
      BY ElementOfSeq DEF RunnerOK
    <2> QED BY <2>1, Told, Numbers DEF RunnerOK, Days
  <1>1. twice' \subseteq again' /\ Announced(handled)'
    <2>1. PICK h \in 0..N : h = handled /\ h = handled'
      BY <1>d
    <2>2. Announced(h)'
      BY <1>a, <2>1 DEF OrderInv
    <2>3. Announced(handled)'
      BY <2>1, <2>2 DEF Announced
    <2> QED BY <2>3, AgainStays DEF OrderInv
  <1>2. ASSUME NEW i \in Ticks', i <= n
        PROVE  /\ Announced(channel[i].day)' /\ Follows(handled, channel[i].day)'
               /\ \A j \in Ticks' : i < j /\ j <= n => Follows(channel[i].day, channel[j].day)'
    <2>1. i \in Ticks /\ i \in 1..Len(channel) /\ channel'[i] = channel[i]
      BY <1>c, <1>2 DEF Ticks
    <2>2. PICK d \in 0..N : d = channel[i].day /\ d = channel'[i].day
      BY <1>d, <2>1
    <2>3. PICK h \in 0..N : h = handled /\ h = handled'
      BY <1>d
    <2>4. Announced(d)' /\ Follows(h, d)'
      <3>1. Announced(d) /\ Follows(h, d)
        BY <2>1, <2>2, <2>3 DEF OrderInv
      <3> QED BY <3>1, <1>a, <1>b
    <2>5. ASSUME NEW j \in Ticks', i < j, j <= n PROVE Follows(channel[i].day, channel[j].day)'
      <3>1. j \in Ticks /\ j \in 1..Len(channel) /\ channel'[j] = channel[j]
        BY <1>c, <2>5 DEF Ticks
      <3>2. PICK e \in 0..N : e = channel[j].day /\ e = channel'[j].day
        BY <1>d, <3>1
      <3>3. Follows(d, e)
        BY <2>1, <2>2, <2>5, <3>1, <3>2 DEF OrderInv
      <3>4. Follows(d, e)'
        BY <1>b, <3>3
      <3> QED BY <2>2, <3>2, <3>4 DEF Follows
    <2>6. Announced(channel[i].day)' /\ Follows(handled, channel[i].day)'
      BY <2>2, <2>3, <2>4 DEF Announced, Follows
    <2> QED BY <2>5, <2>6
  <1> QED BY <1>1, <1>2

\* A tick is published for the next day, which follows all announced ones.
LEMMA OrderPublished ==
  ASSUME ServerOK, RunnerOK, WindowInv, OrderInv, [TurnsNext]_turnsVars,
         twice' = twice, handled' = handled, NEW m \in Messages, channel' = Append(channel, m),
         m.event = "sim.tick" => m.day = NextDay /\ m.day = Reached /\ Announced(m.day)'
  PROVE  OrderInv'
  <1> DEFINE n == Len(channel)
  <1>a. /\ n \in Nat /\ Len(channel') = n + 1 /\ channel'[n + 1] = m
        /\ \A i \in 1..n : channel'[i] = channel[i]
    BY AppendProperties, LenProperties DEF RunnerOK
  <1>b. handled \in 0..N /\ m.day \in Days /\ \A i \in 1..n : channel[i].day \in 0..N
    <2>1. \A i \in 1..n : channel[i] \in Messages
      BY ElementOfSeq DEF RunnerOK
    <2> QED BY <2>1, Told, Numbers DEF RunnerOK, Days
  <1> HIDE DEF n
  <1>1. /\ twice' \subseteq again' /\ Announced(handled)'
        /\ \A i \in Ticks' : i <= n =>
              /\ Announced(channel[i].day)' /\ Follows(handled, channel[i].day)'
              /\ \A j \in Ticks' : i < j /\ j <= n => Follows(channel[i].day, channel[j].day)'
    <2>1. n <= Len(channel) /\ n <= Len(channel')
      BY <1>a DEF n
    <2> QED BY <1>a, <2>1, OrderKept
  <1>2. \A i \in Ticks' : i <= n \/ (i = n + 1 /\ m.event = "sim.tick")
    BY <1>a DEF Ticks
  <1>3. ASSUME m.event = "sim.tick"
        PROVE  /\ Announced(m.day)' /\ Follows(handled, m.day)'
               /\ \A i \in Ticks' : i <= n => Follows(channel[i].day, m.day)'
    <2>1. PICK d \in 0..N : d = m.day /\ d # 0
      BY <1>b, Numbers DEF Days
    <2>2. Announced(d)'
      BY <1>3, <2>1 DEF Announced
    <2>3. again \subseteq again' /\ \A e \in 0..N : Announced(e) => Follows(e, d)'
      <3>1. again \subseteq again' /\ (Steady' => Steady) /\ d \in Days /\ d = NextDay /\ d = Reached
        BY <1>b, <1>3, <2>1, AgainStays
      <3>2. ASSUME NEW e \in 0..N, Announced(e) PROVE Follows(e, d)'
        <4>1. d <= e => d \in again
          BY <3>1, <3>2 DEF Announced
        <4>2. Steady => e <= d
          BY <3>1, <3>2 DEF Announced
        <4>3. e < d \/ d <= e
          BY Numbers
        <4> QED BY <3>1, <4>1, <4>2, <4>3 DEF Follows
      <3> QED BY <3>1, <3>2
    <2>4. Follows(handled, m.day)'
      <3>1. PICK h \in 0..N : h = handled /\ h = handled'
        BY <1>b
      <3>2. Follows(h, d)'
        BY <2>3, <3>1 DEF OrderInv
      <3> QED BY <2>1, <3>1, <3>2 DEF Follows
    <2>5. ASSUME NEW i \in Ticks', i <= n PROVE Follows(channel[i].day, m.day)'
      <3>1. i \in Ticks /\ i \in 1..n
        BY <1>a, <2>5 DEF Ticks, n
      <3>2. PICK c \in 0..N : c = channel[i].day /\ c = channel'[i].day
        BY <1>a, <1>b, <3>1
      <3>3. Follows(c, d)'
        BY <2>3, <3>1, <3>2 DEF OrderInv
      <3> QED BY <2>1, <3>2, <3>3 DEF Follows
    <2>6. Announced(m.day)'
      BY <2>1, <2>2 DEF Announced, Follows
    <2> QED BY <2>4, <2>5, <2>6
  <1>4. ASSUME NEW i \in Ticks'
        PROVE  /\ Announced(channel[i].day)' /\ Follows(handled, channel[i].day)'
               /\ \A j \in Ticks' : i < j => Follows(channel[i].day, channel[j].day)'
    <2>1. CASE i <= n
      <3>1. ASSUME NEW j \in Ticks', i < j PROVE Follows(channel[i].day, channel[j].day)'
        <4>1. CASE j <= n
          BY <1>1, <2>1, <3>1, <4>1
        <4>2. CASE j = n + 1 /\ m.event = "sim.tick"
          BY <1>3, <1>a, <2>1, <4>2 DEF Follows
        <4> QED BY <1>2, <4>1, <4>2
      <3> QED BY <1>1, <2>1, <3>1
    <2>2. CASE i = n + 1 /\ m.event = "sim.tick"
      <3>1. Announced(channel[i].day)' /\ Follows(handled, channel[i].day)'
        BY <1>3, <1>a, <2>2 DEF Announced, Follows
      <3>2. \A j \in Ticks' : ~(i < j)
        BY <1>a, <2>2 DEF Ticks
      <3> QED BY <3>1, <3>2
    <2> QED BY <1>2, <2>1, <2>2
  <1> QED BY <1>1, <1>4 DEF OrderInv

LEMMA TailTicks ==
  ASSUME RunnerOK, channel # <<>>, channel' = Tail(channel)
  PROVE  /\ Len(channel) \in Nat \ {0} /\ Head(channel) = channel[1]
         /\ \A i \in Ticks' : i \in Nat \ {0} /\ i + 1 \in Ticks /\ channel'[i] = channel[i + 1]
  <1>1. /\ Len(channel) \in Nat \ {0} /\ Head(channel) = channel[1]
        /\ Len(channel') = Len(channel) - 1
        /\ \A i \in 1..Len(channel') : channel'[i] = channel[i + 1]
    BY HeadTailProperties, LenProperties, EmptySeq DEF RunnerOK
  <1> QED BY <1>1 DEF Ticks

\* A message that is no tick is read: the rest is as before.
LEMMA OrderTail ==
  ASSUME RunnerOK, OrderInv, channel # <<>>, channel' = Tail(channel),
         twice' = twice, handled' = handled,
         UNCHANGED <<window, day, matched, again, faults, reloads>>
  PROVE  OrderInv'
  <1>a. NextDay' = NextDay /\ Reached' = Reached /\ (Steady' <=> Steady)
    BY DEF NextDay, Reached, Steady, TickDay, ShouldAdvance
  <1>1. twice' \subseteq again' /\ Announced(handled)'
    BY <1>a DEF OrderInv, Announced
  <1>2. ASSUME NEW i \in Ticks'
        PROVE  /\ Announced(channel[i].day)' /\ Follows(handled, channel[i].day)'
               /\ \A j \in Ticks' : i < j => Follows(channel[i].day, channel[j].day)'
    <2>1. i + 1 \in Ticks /\ channel'[i] = channel[i + 1]
      BY TailTicks
    <2>2. Announced(channel[i + 1].day) /\ Follows(handled, channel[i + 1].day)
      BY <2>1 DEF OrderInv
    <2>3. ASSUME NEW j \in Ticks', i < j PROVE Follows(channel[i].day, channel[j].day)'
      <3>1. i \in Nat /\ j \in Nat /\ j + 1 \in Ticks /\ channel'[j] = channel[j + 1]
        BY TailTicks
      <3>2. i + 1 < j + 1
        BY <2>3, <3>1
      <3>3. Follows(channel[i + 1].day, channel[j + 1].day)
        BY <2>1, <3>1, <3>2 DEF OrderInv
      <3> QED BY <1>a, <2>1, <3>1, <3>3 DEF Follows
    <2>4. Announced(channel[i].day)' /\ Follows(handled, channel[i].day)'
      BY <1>a, <2>1, <2>2 DEF Announced, Follows
    <2> QED BY <2>3, <2>4
  <1> QED BY <1>1, <1>2 DEF OrderInv

\* The first message is handled: the rest follows it.
LEMMA OrderHandled ==
  ASSUME ServerOK, RunnerOK, WindowInv, OrderInv, HandleTick
  PROVE  OrderInv' /\ (Steady => handled <= handled') /\ twice' \subseteq again'
  <1>a. /\ channel # <<>> /\ handled' = Head(channel).day /\ Head(channel).event = "sim.tick"
        /\ channel' = Tail(channel)
        /\ twice' = IF Head(channel).day <= handled THEN twice \cup {Head(channel).day} ELSE twice
        /\ UNCHANGED <<window, day, matched, again, faults, reloads>>
    BY DEF HandleTick, serverVars, clockVars, pastVars, stopVars
  <1>b. /\ Len(channel) \in Nat \ {0} /\ Head(channel) = channel[1]
        /\ \A i \in Ticks' : i \in Nat \ {0} /\ i + 1 \in Ticks /\ channel'[i] = channel[i + 1]
    BY <1>a, TailTicks
  <1>c. handled \in 0..N /\ \A i \in 1..Len(channel) : channel[i].day \in 0..N
    <2>1. \A i \in 1..Len(channel) : channel[i] \in Messages
      BY ElementOfSeq DEF RunnerOK
    <2> QED BY <2>1, Told, Numbers DEF RunnerOK, Days
  <1>d. NextDay' = NextDay /\ Reached' = Reached /\ (Steady' <=> Steady)
    BY <1>a DEF NextDay, Reached, Steady, TickDay, ShouldAdvance
  <1>1. 1 \in Ticks /\ \A i \in Ticks' : i \in Nat \ {0} /\ i + 1 \in Ticks /\ channel'[i] = channel[i + 1]
    BY <1>a, <1>b DEF Ticks
  <1>2. Announced(channel[1].day) /\ Follows(handled, channel[1].day)
    BY <1>1 DEF OrderInv
  <1>3. Announced(handled)'
    BY <1>a, <1>b, <1>d, <1>2 DEF Announced
  <1>4. (Steady => handled <= handled') /\ twice' \subseteq again'
    BY <1>a, <1>b, <1>c, <1>2, Numbers DEF Follows, OrderInv
  <1>5. ASSUME NEW i \in Ticks'
        PROVE  /\ Announced(channel[i].day)' /\ Follows(handled, channel[i].day)'
               /\ \A j \in Ticks' : i < j => Follows(channel[i].day, channel[j].day)'
    <2>1. i + 1 \in Ticks /\ 1 < i + 1 /\ channel'[i] = channel[i + 1]
      BY <1>1
    <2>2. Announced(channel[i + 1].day) /\ Follows(channel[1].day, channel[i + 1].day)
      BY <1>1, <2>1 DEF OrderInv
    <2>3. Announced(channel[i].day)' /\ Follows(handled, channel[i].day)'
      BY <1>a, <1>b, <1>d, <2>1, <2>2 DEF Announced, Follows
    <2>4. ASSUME NEW j \in Ticks', i < j PROVE Follows(channel[i].day, channel[j].day)'
      <3>1. j + 1 \in Ticks /\ i + 1 < j + 1 /\ channel'[j] = channel[j + 1]
        BY <1>1, <2>4
      <3>2. Follows(channel[i + 1].day, channel[j + 1].day)
        BY <2>1, <3>1 DEF OrderInv
      <3> QED BY <1>a, <1>d, <2>1, <3>1, <3>2 DEF Follows
    <2> QED BY <2>3, <2>4
  <1> QED BY <1>3, <1>4, <1>5 DEF OrderInv

LEMMA StepOrder ==
  ASSUME ServerOK, RunnerOK, WindowInv, OrderInv, [TurnsNext]_turnsVars
  PROVE  OrderInv' /\ (Steady => handled <= handled') /\ twice' \subseteq again'
  <1>a. channel \in Seq(Messages) /\ Len(channel) \in Nat /\ handled \in Nat
    BY Numbers DEF RunnerOK
  <1>1. ASSUME twice' = twice, handled' = handled,
               NEW n \in Nat, n <= Len(channel), Len(channel') = n, \A i \in 1..n : channel'[i] = channel[i]
        PROVE  OrderInv' /\ (Steady => handled <= handled') /\ twice' \subseteq again'
    <2>1. /\ twice' \subseteq again' /\ Announced(handled)'
          /\ \A i \in Ticks' : i <= n =>
                /\ Announced(channel[i].day)' /\ Follows(handled, channel[i].day)'
                /\ \A j \in Ticks' : i < j /\ j <= n => Follows(channel[i].day, channel[j].day)'
      <3>1. n <= Len(channel')
        BY <1>1
      <3> QED BY <1>1, <3>1, OrderKept
    <2>2. \A i \in Ticks' : i <= n
      BY <1>1 DEF Ticks
    <2>3. OrderInv'
      BY <2>1, <2>2 DEF OrderInv
    <2> QED BY <1>1, <1>a, <2>1, <2>3
  <1>2. ASSUME twice' = twice, handled' = handled, channel' = channel
        PROVE  OrderInv' /\ (Steady => handled <= handled') /\ twice' \subseteq again'
    BY <1>1, <1>2, <1>a
  <1>3. ASSUME twice' = twice, handled' = handled, channel' = <<>>
        PROVE  OrderInv' /\ (Steady => handled <= handled') /\ twice' \subseteq again'
    BY <1>1, <1>3, <1>a
  <1>4. CASE (Server \/ ServerFails \/ ServerStops) /\ UNCHANGED runnerVars
    <2>1. twice' = twice /\ handled' = handled
      BY <1>4 DEF runnerVars
    <2>2. ASSUME NEW m \in Messages, Publish(m),
                 m.event = "sim.tick" => m.day = NextDay /\ m.day = Reached /\ Announced(m.day)'
          PROVE  OrderInv' /\ (Steady => handled <= handled') /\ twice' \subseteq again'
      <3>1. channel' = channel \/ channel' = Append(channel, m)
        BY <2>2 DEF Publish
      <3>2. ASSUME channel' = Append(channel, m) PROVE OrderInv'
        BY <2>1, <2>2, <3>2, OrderPublished
      <3>3. OrderInv' => twice' \subseteq again' /\ (Steady => handled <= handled')
        BY <1>a, <2>1 DEF OrderInv
      <3> QED BY <1>2, <2>1, <3>1, <3>2, <3>3
    <2>3. CASE OpenDay \/ OpenUnsaved
      <3>1. window = 0 /\ window' = TickDay /\ Publish(Tick(TickDay)) /\ TickDay \in Days
        BY <2>3, TickDays DEF OpenDay, OpenUnsaved, Announce, Due, Days
      <3>2. Tick(TickDay) \in Messages /\ Tick(TickDay).day = TickDay
        BY <3>1 DEF Messages, Tick
      <3>3. PICK d \in Days : d = TickDay
        BY <3>1
      <3>4. NextDay = d /\ Reached = d /\ NextDay' = d + 1 /\ Reached' = d
        <4>1. d # 0 /\ window' = d /\ window = 0
          BY <3>1, <3>3, Numbers DEF Days
        <4>2. NextDay = d /\ Reached = d
          BY <3>3, <4>1 DEF NextDay, Reached
        <4>3. NextDay' = d + 1 /\ Reached' = d
          BY <4>1 DEF NextDay, Reached
        <4> QED BY <4>2, <4>3
      <3>5. Announced(d)'
        BY <3>4, Numbers DEF Announced, Days
      <3> QED BY <2>2, <3>1, <3>2, <3>3, <3>4, <3>5
    <2>6. CASE Restart
      <3>1. CASE channel' = channel
        BY <1>2, <2>1, <3>1
      <3>2. CASE Due /\ TickDay <= N /\ Publish(Tick(TickDay)) /\ Reload(TickDay)
        <4>1. PICK d \in Days : d = TickDay
          BY <3>2, TickDays DEF Days
        <4>2. NextDay = d /\ Reached = d
          BY <3>2, <4>1 DEF Due, NextDay, Reached
        <4>3. Tick(TickDay) \in Messages /\ Tick(TickDay).day = d
          BY <4>1 DEF Messages, Tick
        <4>4. window' = 0 /\ NextDay' = SavedDay /\ Reached' = TickDay'
          BY <2>6, <3>2 DEF Restart, Reload, NextDay, Reached, TickDay, ShouldAdvance, SavedDay
        <4>5. \A e \in Days : NextDay' <= e /\ e <= d => e \in again'
          BY <3>2, <4>1, <4>4 DEF Reload
        <4>6. Steady' => d <= Reached'
          BY <4>2, StepWindow DEF Moves
        <4>7. Announced(d)'
          BY <4>5, <4>6 DEF Announced
        <4> QED BY <2>2, <3>2, <4>1, <4>2, <4>3, <4>7
      <3> QED BY <2>6, <3>1, <3>2 DEF Restart
    <2>7. CASE Pause \/ Start
      <3>1. channel' = channel
        BY <2>7 DEF Pause, Start, redisVars
      <3> QED BY <1>2, <2>1, <3>1
    <2>4. CASE Complete
      <3>1. Completed \in Messages /\ Completed.event # "sim.tick"
        BY DEF Messages, Completed
      <3>2. Publish(Completed) \/ channel' = channel
        BY <2>4 DEF Complete
      <3> QED BY <1>2, <2>1, <2>2, <3>1, <3>2
    <2>5. CASE Close \/ (\E a \in Agents : CountMissed(a)) \/ Match \/ MatchFails \/ OpenUnheard \/ AdvanceUnheard
      <3>1. channel' = channel
        BY <2>5 DEF Close, CountMissed, Match, MatchFails, OpenUnheard, AdvanceUnheard, redisVars
      <3> QED BY <1>2, <2>1, <3>1
    <2> QED BY <1>4, <2>3, <2>4, <2>5, <2>6, <2>7 DEF Server, ServerFails, ServerStops
  <1>5. CASE Subscribe \/ Crash
    BY <1>3, <1>5 DEF Subscribe, Crash
  <1>6. CASE Drop
    <2>1. PICK k \in 0..Len(channel) : channel' = SubSeq(channel, 1, k)
      BY <1>6 DEF Drop
    <2>2. Len(channel') = k /\ \A i \in 1..k : channel'[i] = channel[i]
      BY <1>a, <2>1, SubSeqProperties
    <2>3. twice' = twice /\ handled' = handled /\ k \in Nat /\ k <= Len(channel)
      BY <1>6, <1>a, <2>1 DEF Drop
    <2> QED BY <1>1, <2>2, <2>3
  <1>7. CASE HandleTick
    BY <1>7, OrderHandled
  <1>8. CASE HandleCompletion
    <2>1. twice' = twice /\ handled' = handled /\ channel # <<>> /\ channel' = Tail(channel)
          /\ UNCHANGED <<window, day, matched, again, faults, reloads>>
      BY <1>8 DEF HandleCompletion, serverVars, clockVars, pastVars, stopVars
    <2>2. OrderInv'
      BY <2>1, OrderTail
    <2>3. twice' \subseteq again'
      BY <2>1 DEF OrderInv
    <2> QED BY <1>a, <2>1, <2>2, <2>3
  <1>9. CASE Reconnect \/ TurnsOver
    BY <1>2, <1>9 DEF Reconnect, TurnsOver, participationVars, redisVars
  <1>10. ASSUME NEW a \in Agents, Turn(a)
         PROVE  OrderInv' /\ (Steady => handled <= handled') /\ twice' \subseteq again'
    BY <1>2, <1>10, TurnIsCall DEF redisVars
  <1>11. CASE UNCHANGED turnsVars
    BY <1>2, <1>11 DEF turnsVars, runnerVars, participationVars, redisVars
  <1> QED BY <1>4, <1>5, <1>6, <1>7, <1>8, <1>9, <1>10, <1>11 DEF TurnsNext

\* A runner handles a day twice only when a failure, a pause or a new clock kept its match
\* from being recorded, and never goes back but for a new clock after a failure, whatever
\* messages are lost (SimulationRunner, Registry).
THEOREM TurnsComeInOrder == TurnsSpec => TurnsInOrder
  <1>1. TurnsSpec => [](ServerOK /\ RunnerOK /\ WindowInv /\ OrderInv)
    BY InitServer, StepServer, InitRunner, StepRunner, InitOrder, StepWindow, StepOrder, PTL
       DEF TurnsSpec
  <1>2. ServerOK /\ RunnerOK /\ WindowInv /\ OrderInv /\ [TurnsNext]_turnsVars
          => [/\ twice' \subseteq again'
              /\ handled' >= handled \/ (faults > 0 /\ reloads > 0)]_turnsVars
    <2> SUFFICES ASSUME ServerOK, RunnerOK, WindowInv, OrderInv, [TurnsNext]_turnsVars
                 PROVE  /\ twice' \subseteq again'
                        /\ handled' >= handled \/ (faults > 0 /\ reloads > 0)
      OBVIOUS
    <2>1. handled \in Nat /\ handled' \in Nat /\ faults \in Nat /\ reloads \in Nat
      BY StepRunner, Numbers DEF RunnerOK, ServerOK
    <2>2. twice' \subseteq again' /\ (Steady => handled <= handled')
      BY StepOrder
    <2> QED BY <2>1, <2>2 DEF Steady
  <1> QED BY <1>1, <1>2, PTL DEF TurnsSpec, TurnsInOrder
=====
